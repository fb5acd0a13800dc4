-------------------------- MODULE DiscoveryProofs --------------------------
(***************************************************************************)
(* Proofs about Discovery, for any processes, sockets, owners and buffer   *)
(* sizes and however many changes during a call: its types, that the list  *)
(* of get_network_processes is sound, and that it is exact when nobody     *)
(* disturbed the call.                                                     *)
(***************************************************************************)
EXTENDS Discovery, FiniteSetTheorems, SequenceTheorems, WellFoundedInduction, TLAPS

-----------------------------------------------------------------------------
(***************************************************************************)
(* The inductive invariant.  Its parts are about a record d of the call,   *)
(* and about the sockets o that are open and the processes h that have     *)
(* them.                                                                   *)
(***************************************************************************)

Codes == {"OK", "SOCKET", "BIND", "ALLOC", "RECVMSG"}
Entries == [pid : Pids, num_connections : Nat, has_tcp : BOOLEAN, has_udp : BOOLEAN,
            exe : BOOLEAN]
Calls == [at : Labels, query : 1 .. 4, pos : Nat, batch : SUBSET Slots, sock : Slots \cup {0},
          pid : Pids \cup {0}, list : Seq(Entries), capacity : Nat, buffer : Nat, code : Codes,
          seen : SUBSET (Pids \X {"TCP", "UDP"}), changes : Nat, shifted : BOOLEAN,
          missed : BOOLEAN]

\* The processes and the sockets.
World ==
    /\ alive \subseteq Pids /\ open \subseteq Slots
    /\ holders \in [Slots -> SUBSET alive]
    /\ \A s \in Slots : holders[s] # {} => s \in open

\* The dumps are under way, and a message of one is being handled.
Running(d) == d.at \in {"recv", "batch", "scan", "add"}
Walking(d) == d.at \in {"scan", "add"}

\* The messages not yet handled are about open sockets of the current query,
\* and every process with a socket now has been seen with it.
Current(d, o, h) ==
    /\ d.batch \subseteq o /\ d.sock \in o \cup {0}
    /\ Running(d) => Holding(h) \subseteq d.seen
Reported(d) ==
    /\ \A s \in d.batch : s < d.pos /\ Kind[s] = Queries[d.query]
    /\ d.sock # 0 => Eligible(d.sock) /\ Kind[d.sock] = Queries[d.query]
    /\ ~Walking(d) => d.sock = 0
    /\ d.at = "recv" => d.batch = {}
    /\ d.at = "add" => <<d.pid, Queries[d.query][2]>> \in d.seen

EntrySound(e, seen) ==
    /\ e.has_tcp \/ e.has_udp
    /\ e.has_tcp => <<e.pid, "TCP">> \in seen
    /\ e.has_udp => <<e.pid, "UDP">> \in seen

\* The list within its buffer, no pid twice, and no entry without its sockets.
Room(d) ==
    /\ d.buffer = d.capacity /\ Len(d.list) <= d.capacity
    /\ Running(d) => d.capacity > 0
Sound(d) ==
    /\ \A i, j \in DOMAIN d.list : d.list[i].pid = d.list[j].pid => i = j
    /\ \A i \in DOMAIN d.list : EntrySound(d.list[i], d.seen)
CallInv(d) == d \in Calls /\ Reported(d) /\ Room(d) /\ Sound(d)

Inv == World /\ CallInv(disc) /\ Current(disc, open, holders)
-----------------------------------------------------------------------------
(***************************************************************************)
(* Facts about numbers, sets, queries and lists.                           *)
(***************************************************************************)

\* A set of natural numbers that has an element has a least one.
LEMMA LeastFacts ==
    ASSUME NEW S, S \subseteq Nat, S # {}
    PROVE  Least(S) \in S /\ \A y \in S : Least(S) <= y
<1> DEFINE Less == {ss \in Nat \X Nat : ss[1] < ss[2]}
<1>1. IsWellFoundedOn(Less, Nat)
  BY NatLessThanWellFounded, Zenon DEF OpToRel
<1>2. \A a, b \in Nat : a < b => <<a, b>> \in Less
  OBVIOUS
<1> HIDE DEF Less
<1>3. PICK x \in S : \A y \in S : ~(<<y, x>> \in Less)
  BY <1>1, WFMin, Zenon
<1>4. ASSUME NEW y \in S
      PROVE  x <= y
  <2>1. x \in Nat /\ y \in Nat
    OBVIOUS
  <2>2. ~(y < x)
    BY <1>2, <1>3, <2>1, Zenon
  <2> QED BY <2>1, <2>2
<1> QED BY <1>4 DEF Least

\* The four queries differ.
LEMMA QueryFacts ==
    /\ \A q, r \in 1 .. 4 : Queries[q] = Queries[r] => q = r
    /\ \A q \in 1 .. 4 : Queries[q][2] \in {"TCP", "UDP"}
    /\ Len(Queries) = 4
<1>1. /\ Queries[1] = <<"INET", "TCP">> /\ Queries[2] = <<"INET6", "TCP">>
      /\ Queries[3] = <<"INET", "UDP">> /\ Queries[4] = <<"INET6", "UDP">> /\ Len(Queries) = 4
  BY DEF Queries
<1>2. \A q \in 1 .. 4 : q = 1 \/ q = 2 \/ q = 3 \/ q = 4
  OBVIOUS
<1> QED BY <1>1, <1>2

\* The slots are finitely many.
LEMMA SlotFacts ==
    /\ Slots \subseteq Nat \ {0} /\ IsFiniteSet(Slots)
    /\ \A S \in SUBSET Slots : IsFiniteSet(S) /\ Cardinality(S) \in Nat
<1>1. NumSlots \in Nat
  BY DiscoveryAssumption
<1>2. Slots \subseteq Nat \ {0} /\ IsFiniteSet(Slots)
  BY <1>1, FS_Interval DEF Slots
<1>3. ASSUME NEW S \in SUBSET Slots
      PROVE  IsFiniteSet(S) /\ Cardinality(S) \in Nat
  BY <1>2, FS_Subset, FS_CardinalityType
<1> QED BY <1>2, <1>3

\* The fields of a call.
LEMMA CallTypes ==
    ASSUME NEW d \in Calls
    PROVE  /\ d.at \in Labels /\ d.query \in 1 .. 4 /\ d.pos \in Nat /\ d.batch \subseteq Slots
           /\ d.sock \in Slots \cup {0} /\ d.pid \in Pids \cup {0} /\ d.list \in Seq(Entries)
           /\ d.capacity \in Nat /\ d.buffer \in Nat /\ d.code \in Codes
           /\ d.seen \subseteq Pids \X {"TCP", "UDP"} /\ d.changes \in Nat
           /\ d.shifted \in BOOLEAN /\ d.missed \in BOOLEAN
           /\ DOMAIN d.list = 1 .. Len(d.list) /\ Len(d.list) \in Nat
           /\ \A i \in DOMAIN d.list : d.list[i] \in Entries /\ d.list[i].pid \in Pids
                                       /\ d.list[i].num_connections \in Nat
<1>1. /\ d.at \in Labels /\ d.query \in 1 .. 4 /\ d.pos \in Nat /\ d.batch \subseteq Slots
      /\ d.sock \in Slots \cup {0} /\ d.pid \in Pids \cup {0} /\ d.list \in Seq(Entries)
      /\ d.capacity \in Nat /\ d.buffer \in Nat /\ d.code \in Codes
      /\ d.seen \subseteq Pids \X {"TCP", "UDP"} /\ d.changes \in Nat
      /\ d.shifted \in BOOLEAN /\ d.missed \in BOOLEAN
  BY DEF Calls
<1>2. DOMAIN d.list = 1 .. Len(d.list) /\ Len(d.list) \in Nat
  BY <1>1, LenProperties
<1>3. \A i \in DOMAIN d.list : d.list[i] \in Entries
  BY <1>1, <1>2, ElementOfSeq
<1>4. \A e \in Entries : e.pid \in Pids /\ e.num_connections \in Nat
  BY DEF Entries
<1> QED BY <1>1, <1>2, <1>3, <1>4

\* A call with an empty list.
LEMMA EmptyList ==
    ASSUME NEW d, d.list = <<>>
    PROVE  Sound(d)
<1>1. DOMAIN d.list = {}
  OBVIOUS
<1> QED BY <1>1 DEF Sound

\* No call.
LEMMA OffFacts ==
    /\ Off \in Calls /\ Off.at = "off" /\ Off.list = <<>> /\ Off.batch = {} /\ Off.sock = 0
    /\ Off.capacity = 0 /\ Off.buffer = 0 /\ Off.seen = {} /\ Off.query = 1 /\ Off.pos = 1
    /\ Off.code = "OK" /\ Off.pid = 0 /\ Off.changes = 0
    /\ CallInv(Off) /\ \A o, h : Current(Off, o, h)
<1>1. <<>> \in Seq(Entries)
  BY EmptySeq
<1>2. Off \in Calls /\ Off.at = "off" /\ Off.list = <<>> /\ Off.batch = {} /\ Off.sock = 0
      /\ Off.capacity = 0 /\ Off.buffer = 0 /\ Off.seen = {} /\ Off.query = 1 /\ Off.pos = 1
      /\ Off.code = "OK" /\ Off.pid = 0 /\ Off.changes = 0
  BY <1>1 DEF Off, Calls, Labels, Codes
<1>3. ~Running(Off) /\ ~Walking(Off)
  BY <1>2 DEF Running, Walking
<1>4. Reported(Off) /\ \A o, h : Current(Off, o, h)
  BY <1>2, <1>3 DEF Reported, Current
<1>5. Len(<<>>) = 0
  OBVIOUS
<1>6. Room(Off)
  BY <1>2, <1>3, <1>5 DEF Room
<1> QED BY <1>2, <1>3, <1>4, <1>6, EmptyList DEF CallInv
-----------------------------------------------------------------------------
(***************************************************************************)
(* The call.                                                               *)
(***************************************************************************)

\* A step of the call.
LEMMA CallNext ==
    ASSUME Inv, NEW e, CallInv(e), Current(e, open, holders), Set(e)
    PROVE  Inv'
BY DEF Inv, Set, World, system

\* A call whose list is unchanged.
LEMMA ListKept ==
    ASSUME NEW d, CallInv(d), NEW e \in Calls, Reported(e),
           e.list = d.list, e.capacity = d.capacity, e.buffer = d.buffer, d.seen \subseteq e.seen,
           Running(e) => Running(d)
    PROVE  CallInv(e)
<1>1. Room(d) /\ Sound(d)
  BY DEF CallInv
<1>2. Room(e)
  BY <1>1 DEF Room
<1>3. Sound(e)
  BY <1>1 DEF Sound, EntrySound
<1> QED BY <1>2, <1>3 DEF CallInv

\* The error paths, and the end of a call.
LEMMA FailedFacts ==
    ASSUME Inv, NEW code \in Codes
    PROVE  CallInv(Failed(code)) /\ \A o, h : Current(Failed(code), o, h)
<1> DEFINE e == Failed(code)
<1>1. disc.changes \in Nat
  BY CallTypes DEF Inv, CallInv
<1>2. e \in Calls /\ e.at = "done" /\ e.list = <<>> /\ e.batch = {} /\ e.sock = 0
      /\ e.capacity = 0 /\ e.buffer = 0
  BY <1>1, OffFacts DEF Failed, Calls, Labels
<1> HIDE DEF e
<1>3. ~Running(e) /\ ~Walking(e)
  BY <1>2 DEF Running, Walking
<1>4. Reported(e) /\ \A o, h : Current(e, o, h)
  BY <1>2, <1>3 DEF Reported, Current
<1>5. Len(<<>>) = 0
  OBVIOUS
<1>6. Room(e)
  BY <1>2, <1>3, <1>5 DEF Room
<1>7. CallInv(e) /\ \A o, h : Current(e, o, h)
  BY <1>2, <1>3, <1>4, <1>6, EmptyList DEF CallInv
<1> QED BY <1>7 DEF e

\* Who holds a socket is one of the processes.
LEMMA HoldingFacts ==
    ASSUME NEW h
    PROVE  Holding(h) \subseteq Pids \X {"TCP", "UDP"}
BY DEF Holding

\* get_network_processes.
LEMMA GetNext == ASSUME Inv, get_network_processes PROVE Inv'
<1>1. CASE Set([create_process_list EXCEPT !.at = "recv", !.seen = Holding(holders)])
  <2> DEFINE e == [create_process_list EXCEPT !.at = "recv", !.seen = Holding(holders)]
             n == InitialCapacity
  <2>1. n \in Nat /\ n > 0 /\ Holding(holders) \subseteq Pids \X {"TCP", "UDP"}
    BY DiscoveryAssumption, HoldingFacts
  <2> HIDE DEF n
  <2>2. create_process_list \in Calls /\ create_process_list.list = <<>>
        /\ create_process_list.batch = {} /\ create_process_list.sock = 0
        /\ create_process_list.capacity = n /\ create_process_list.buffer = n
    BY <2>1, OffFacts DEF create_process_list, Calls, n
  <2>3. e \in Calls /\ e.at = "recv" /\ e.list = <<>> /\ e.batch = {} /\ e.sock = 0
        /\ e.capacity = n /\ e.buffer = n /\ e.seen = Holding(holders)
    BY <2>1, <2>2 DEF Calls, Labels
  <2>4. Set(e)
    BY <1>1
  <2> HIDE DEF e
  <2>5. ~Walking(e)
    BY <2>3 DEF Walking
  <2>6. Reported(e) /\ Current(e, open, holders)
    BY <2>3, <2>5 DEF Reported, Current
  <2>7. Len(<<>>) = 0
    OBVIOUS
  <2>8. Room(e)
    BY <2>1, <2>3, <2>7 DEF Room
  <2>9. CallInv(e)
    BY <2>3, <2>5, <2>6, <2>8, EmptyList DEF CallInv
  <2> QED BY <2>4, <2>6, <2>9, CallNext
<1>2. ASSUME NEW code \in {"SOCKET", "BIND", "ALLOC"}, Set(Failed(code))
      PROVE  Inv'
  <2>1. code \in Codes
    BY <1>2 DEF Codes
  <2> QED BY <1>2, <2>1, FailedFacts, CallNext
<1> QED BY <1>1, <1>2 DEF get_network_processes

\* recvmsg_fails.
LEMMA RecvFailsNext == ASSUME Inv, recvmsg_fails PROVE Inv'
<1>1. "RECVMSG" \in Codes /\ Set(Failed("RECVMSG"))
  BY DEF Codes, recvmsg_fails
<1> QED BY <1>1, FailedFacts, CallNext

\* destroy_process_list.
LEMMA DestroyNext == ASSUME Inv, destroy_process_list PROVE Inv'
BY OffFacts, CallNext DEF destroy_process_list

\* recvmsg.
LEMMA RecvNext == ASSUME Inv, recvmsg PROVE Inv'
<1>1. /\ disc \in Calls /\ CallInv(disc) /\ Reported(disc) /\ Current(disc, open, holders)
      /\ open \subseteq Slots /\ disc.at = "recv" /\ disc.missed \in BOOLEAN
  BY CallTypes DEF Inv, CallInv, World, recvmsg, At
<1>2. PICK from \in Resume :
         LET reported == {s \in open : s >= from /\ Kind[s] = Queries[disc.query]}
         IN  \E last \in reported \cup {NumSlots} :
                Set([disc EXCEPT !.at = "batch", !.pos = last + 1, !.shifted = FALSE,
                                 !.batch = {s \in reported : s <= last},
                                 !.missed = @ \/ from # disc.pos])
  BY DEF recvmsg
<1> DEFINE reported == {s \in open : s >= from /\ Kind[s] = Queries[disc.query]}
<1>3. PICK last \in reported \cup {NumSlots} :
         Set([disc EXCEPT !.at = "batch", !.pos = last + 1, !.shifted = FALSE,
                          !.batch = {s \in reported : s <= last},
                          !.missed = @ \/ from # disc.pos])
  BY <1>2
<1> DEFINE b == {s \in reported : s <= last}
           n == last + 1
           m == disc.missed \/ from # disc.pos
           e == [disc EXCEPT !.at = "batch", !.pos = n, !.shifted = FALSE, !.batch = b, !.missed = m]
<1>4. Set(e)
  BY <1>3
<1>5. /\ b \subseteq open /\ b \subseteq Slots /\ n \in Nat /\ m \in BOOLEAN
      /\ \A s \in b : s < n /\ Kind[s] = Queries[disc.query]
  <2>1. last \in Nat /\ Slots \subseteq Nat
    <3>1. reported \subseteq Nat /\ NumSlots \in Nat
      BY <1>1, SlotFacts, DiscoveryAssumption
    <3> QED BY <3>1, SlotFacts
  <2>2. n \in Nat /\ \A s \in Nat : s <= last => s < n
    BY <2>1
  <2> HIDE DEF n
  <2>3. b \subseteq open /\ \A s \in b : s <= last /\ Kind[s] = Queries[disc.query]
    OBVIOUS
  <2> HIDE DEF b
  <2> QED BY <1>1, <2>1, <2>2, <2>3
<1> HIDE DEF b, n, m, reported
<1>6. e \in Calls /\ e.at = "batch" /\ e.pos = n /\ e.batch = b /\ e.query = disc.query
      /\ e.sock = disc.sock /\ e.list = disc.list /\ e.capacity = disc.capacity
      /\ e.buffer = disc.buffer /\ e.seen = disc.seen
  BY <1>1, <1>5 DEF Calls, Labels
<1> HIDE DEF e
<1>7. Running(disc) /\ ~Walking(disc) /\ Running(e) /\ ~Walking(e)
  BY <1>1, <1>6 DEF Running, Walking
<1>8. disc.batch = {} /\ disc.sock = 0
  BY <1>1, <1>7 DEF Reported
<1>9. Reported(e)
  BY <1>5, <1>6, <1>8 DEF Reported
<1>10. Current(e, open, holders)
  BY <1>1, <1>5, <1>6, <1>7 DEF Current
<1>11. CallInv(e)
  BY <1>1, <1>6, <1>7, <1>9, ListKept
<1> QED BY <1>4, <1>10, <1>11, CallNext

\* The next query, or the end of the call, of which only the history differs.
LEMMA NextQueryNext ==
    ASSUME Inv, disc.at = "recv", NEW m \in BOOLEAN,
           Set(NextQuery([disc EXCEPT !.missed = m]))
    PROVE  Inv'
<1> DEFINE d == [disc EXCEPT !.missed = m]
<1>1. disc \in Calls /\ CallInv(disc) /\ Reported(disc) /\ Current(disc, open, holders)
  BY DEF Inv, CallInv
<1>2. Running(disc) /\ ~Walking(disc)
  BY DEF Running, Walking
<1>3. disc.batch = {} /\ disc.sock = 0 /\ disc.query \in 1 .. 4
  BY <1>1, <1>2, CallTypes DEF Reported
<1>4. /\ d \in Calls /\ d.at = "recv" /\ d.batch = {} /\ d.query = disc.query /\ d.sock = 0
      /\ d.list = disc.list /\ d.capacity = disc.capacity /\ d.buffer = disc.buffer
      /\ d.seen = disc.seen
  BY <1>1, <1>3 DEF Calls
<1>5. Set(NextQuery(d))
  OBVIOUS
<1> HIDE DEF d
<1>6. CASE d.query < Len(Queries)
  <2> DEFINE n == d.query + 1
             e == [d EXCEPT !.query = n, !.pos = 1, !.shifted = FALSE]
  <2>1. n \in 1 .. 4
    BY <1>3, <1>4, <1>6, QueryFacts
  <2>2. Set(e)
    BY <1>5, <1>6 DEF NextQuery
  <2> HIDE DEF n
  <2>3. e \in Calls /\ e.at = "recv" /\ e.batch = {} /\ e.sock = 0
        /\ e.list = disc.list /\ e.capacity = disc.capacity
        /\ e.buffer = disc.buffer /\ e.seen = disc.seen
    BY <1>4, <2>1 DEF Calls
  <2> HIDE DEF e
  <2>4. Running(e) /\ ~Walking(e)
    BY <2>3 DEF Running, Walking
  <2>5. Reported(e) /\ Current(e, open, holders)
    BY <1>1, <1>2, <1>3, <2>3, <2>4 DEF Reported, Current
  <2>6. CallInv(e)
    BY <1>1, <1>2, <2>3, <2>5, ListKept
  <2> QED BY <2>2, <2>5, <2>6, CallNext
<1>7. CASE ~(d.query < Len(Queries))
  <2> DEFINE one == 1
             e == [d EXCEPT !.at = "done", !.query = one, !.pos = one, !.shifted = FALSE]
  <2>1. Set(e)
    BY <1>5, <1>7 DEF NextQuery
  <2>2. one \in Nat /\ one \in 1 .. 4
    OBVIOUS
  <2> HIDE DEF one
  <2>3. e \in Calls /\ e.at = "done" /\ e.batch = {} /\ e.sock = 0
        /\ e.list = disc.list /\ e.capacity = disc.capacity /\ e.buffer = disc.buffer
        /\ e.seen = disc.seen
    BY <1>4, <2>2 DEF Calls, Labels
  <2> HIDE DEF e
  <2>4. ~Running(e) /\ ~Walking(e)
    BY <2>3 DEF Running, Walking
  <2>5. Reported(e) /\ Current(e, open, holders)
    BY <1>1, <2>3, <2>4 DEF Reported, Current
  <2>6. CallInv(e)
    BY <1>1, <2>3, <2>4, <2>5, ListKept
  <2> QED BY <2>1, <2>5, <2>6, CallNext
<1> QED BY <1>6, <1>7

\* A call that has missed what it has missed.
LEMMA SameMissed ==
    ASSUME NEW d \in Calls
    PROVE  d = [d EXCEPT !.missed = d.missed]
BY DEF Calls

\* nlmsg_done.
LEMMA DoneNext == ASSUME Inv, nlmsg_done PROVE Inv'
<1>1. disc.at = "recv" /\ disc \in Calls /\ disc.missed \in BOOLEAN
  BY CallTypes DEF nlmsg_done, At, Inv, CallInv
<1>2. CASE Set(NextQuery(disc))
  BY <1>1, <1>2, SameMissed, NextQueryNext
<1>3. CASE Set(NextQuery([disc EXCEPT !.missed = TRUE]))
  BY <1>1, <1>3, NextQueryNext
<1> QED BY <1>2, <1>3 DEF nlmsg_done

\* The loop goes on, with the list and the dump where they are.
LEMMA ContinueFacts ==
    ASSUME NEW d \in Calls
    PROVE  LET e == Continue(d)
           IN  /\ e \in Calls /\ e.at = "batch" /\ e.sock = 0 /\ e.pid = 0
               /\ e.query = d.query /\ e.pos = d.pos /\ e.batch = d.batch /\ e.list = d.list
               /\ e.capacity = d.capacity /\ e.buffer = d.buffer /\ e.seen = d.seen
               /\ e.code = d.code /\ e.changes = d.changes /\ e.missed = d.missed
<1> DEFINE none == 0
           e == [d EXCEPT !.at = "batch", !.sock = none, !.pid = none]
<1>1. none \in Slots \cup {0} /\ none \in Pids \cup {0} /\ none = 0 /\ e = Continue(d)
  BY DEF Continue
<1> HIDE DEF none
<1>2. /\ e \in Calls /\ e.at = "batch" /\ e.sock = none /\ e.pid = none
      /\ e.query = d.query /\ e.pos = d.pos /\ e.batch = d.batch /\ e.list = d.list
      /\ e.capacity = d.capacity /\ e.buffer = d.buffer /\ e.seen = d.seen
      /\ e.code = d.code /\ e.changes = d.changes /\ e.missed = d.missed
  BY <1>1 DEF Calls, Labels
<1> HIDE DEF e
<1> QED BY <1>1, <1>2

\* What the invariant says of a call under way.
LEMMA CallFacts ==
    ASSUME Inv
    PROVE  /\ disc \in Calls /\ CallInv(disc) /\ Reported(disc) /\ Current(disc, open, holders)
           /\ open \subseteq Slots /\ alive \subseteq Pids
BY DEF Inv, CallInv, World

\* A step that leaves the list alone and is about no other socket.
LEMMA PlainNext ==
    ASSUME Inv, NEW e \in Calls, Set(e), Running(disc), e.batch \subseteq disc.batch,
           e.list = disc.list, e.capacity = disc.capacity, e.buffer = disc.buffer,
           e.seen = disc.seen, Reported(e), e.sock = 0 \/ e.sock = disc.sock
    PROVE  Inv'
<1>1. CallInv(disc) /\ Current(disc, open, holders)
  BY CallFacts
<1>2. CallInv(e)
  BY <1>1, ListKept
<1>3. Current(e, open, holders)
  BY <1>1 DEF Current
<1> QED BY <1>2, <1>3, CallNext

\* next_message.
LEMMA MessageNext == ASSUME Inv, next_message PROVE Inv'
<1> DEFINE s == Least(disc.batch)
<1>1. disc \in Calls /\ CallInv(disc) /\ Reported(disc) /\ Current(disc, open, holders)
      /\ disc.at = "batch"
  BY CallFacts DEF next_message, At
<1>2. Running(disc) /\ ~Walking(disc) /\ disc.batch \subseteq Slots /\ disc.sock = 0
      /\ disc.query \in 1 .. 4
  BY <1>1, CallTypes DEF Running, Walking, Reported
<1>3. CASE disc.batch = {} /\ Set([disc EXCEPT !.at = "recv"])
  <2> DEFINE e == [disc EXCEPT !.at = "recv"]
  <2>1. e \in Calls /\ e.at = "recv" /\ e.query = disc.query /\ e.pos = disc.pos
        /\ e.batch = disc.batch /\ e.list = disc.list /\ e.capacity = disc.capacity
        /\ e.buffer = disc.buffer /\ e.seen = disc.seen /\ e.sock = disc.sock
    BY <1>1 DEF Calls, Labels
  <2>2. Set(e)
    BY <1>3
  <2> HIDE DEF e
  <2>3. Running(e) /\ ~Walking(e) /\ Reported(e)
    BY <1>2, <1>3, <2>1 DEF Running, Walking, Reported
  <2> QED BY <1>2, <2>1, <2>2, <2>3, PlainNext
<1>4. ASSUME disc.batch # {}
      PROVE  s \in disc.batch /\ s \in Slots /\ s # 0 /\ Kind[s] = Queries[disc.query] /\ s < disc.pos
  <2>1. disc.batch \subseteq Nat
    BY <1>2, SlotFacts
  <2>2. s \in disc.batch
    BY <1>4, <2>1, LeastFacts
  <2> HIDE DEF s
  <2> QED BY <1>1, <1>2, <2>2, SlotFacts DEF Reported
<1>5. CASE disc.batch # {} /\ Set([disc EXCEPT !.batch = @ \ {s}])
  <2> DEFINE b == disc.batch \ {s}
             e == [disc EXCEPT !.batch = b]
  <2>1. b \subseteq disc.batch /\ b \subseteq Slots
    BY <1>2
  <2>2. Set(e)
    BY <1>5
  <2> HIDE DEF b
  <2>3. e \in Calls /\ e.at = "batch" /\ e.query = disc.query /\ e.pos = disc.pos
        /\ e.batch = b /\ e.list = disc.list /\ e.capacity = disc.capacity
        /\ e.buffer = disc.buffer /\ e.seen = disc.seen /\ e.sock = disc.sock
    BY <1>1, <2>1 DEF Calls
  <2> HIDE DEF e
  <2>4. Running(e) /\ ~Walking(e) /\ Reported(e)
    BY <1>1, <1>2, <2>1, <2>3 DEF Running, Walking, Reported
  <2> QED BY <1>2, <2>1, <2>2, <2>3, <2>4, PlainNext
<1>6. CASE disc.batch # {} /\ Eligible(s)
           /\ Set([disc EXCEPT !.at = "scan", !.sock = s, !.batch = @ \ {s}])
  <2> DEFINE b == disc.batch \ {s}
             e == [disc EXCEPT !.at = "scan", !.sock = s, !.batch = b]
  <2>1. b \subseteq disc.batch /\ b \subseteq Slots /\ s \notin b /\ s \in disc.batch
        /\ s \in Slots /\ s # 0 /\ Kind[s] = Queries[disc.query] /\ s < disc.pos /\ Eligible(s)
    BY <1>2, <1>4, <1>6
  <2>2. Set(e)
    BY <1>6
  <2> HIDE DEF b, s
  <2>3. e \in Calls /\ e.at = "scan" /\ e.query = disc.query /\ e.pos = disc.pos
        /\ e.batch = b /\ e.list = disc.list /\ e.capacity = disc.capacity
        /\ e.buffer = disc.buffer /\ e.seen = disc.seen /\ e.sock = s
    BY <1>1, <2>1 DEF Calls, Labels
  <2> HIDE DEF e
  <2>4. Running(e) /\ Walking(e)
    BY <2>3 DEF Running, Walking
  <2>5. Reported(e)
    BY <1>1, <2>1, <2>3, <2>4 DEF Reported
  <2>6. Current(e, open, holders)
    BY <1>1, <1>2, <2>1, <2>3 DEF Current
  <2>7. CallInv(e)
    BY <1>1, <1>2, <2>3, <2>5, ListKept
  <2> QED BY <2>2, <2>6, <2>7, CallNext
<1> QED BY <1>3, <1>5, <1>6 DEF next_message

\* A walk ends without an entry.
LEMMA ContinueNext ==
    ASSUME Inv, Walking(disc), NEW d \in Calls, d.query = disc.query, d.pos = disc.pos,
           d.batch = disc.batch, d.list = disc.list, d.capacity = disc.capacity,
           d.buffer = disc.buffer, d.seen = disc.seen, Set(Continue(d))
    PROVE  Inv'
<1> DEFINE e == Continue(d)
<1>1. /\ e \in Calls /\ e.at = "batch" /\ e.sock = 0 /\ e.pid = 0
      /\ e.query = d.query /\ e.pos = d.pos /\ e.batch = d.batch /\ e.list = d.list
      /\ e.capacity = d.capacity /\ e.buffer = d.buffer /\ e.seen = d.seen
  BY ContinueFacts
<1>2. Set(e)
  OBVIOUS
<1> HIDE DEF e
<1>3. Running(disc) /\ Running(e) /\ ~Walking(e)
  BY <1>1 DEF Running, Walking
<1>4. Reported(e)
  BY <1>1, CallFacts DEF Reported
<1> QED BY <1>1, <1>2, <1>3, <1>4, PlainNext

\* find_pid_by_inode.
LEMMA FindNext == ASSUME Inv, find_pid_by_inode PROVE Inv'
<1> DEFINE left == {p \in alive : p > disc.pid}
           p == Least(left)
<1>1. disc \in Calls /\ Reported(disc) /\ Current(disc, open, holders) /\ disc.at = "scan"
      /\ open \subseteq Slots /\ alive \subseteq Pids /\ disc.query \in 1 .. 4
      /\ disc.sock \in Slots \cup {0} /\ disc.missed \in BOOLEAN
  BY CallFacts, CallTypes DEF find_pid_by_inode, At
<1>2. Running(disc) /\ Walking(disc)
  BY <1>1 DEF Running, Walking
<1>3. CASE left = {} /\ Set(Continue(disc))
  BY <1>1, <1>2, <1>3, ContinueNext
<1>4. CASE Set(Continue([disc EXCEPT !.missed = TRUE]))
  <2> DEFINE d == [disc EXCEPT !.missed = TRUE]
  <2>1. Set(Continue(d))
    BY <1>4
  <2>2. d \in Calls /\ d.query = disc.query /\ d.pos = disc.pos
        /\ d.batch = disc.batch /\ d.list = disc.list /\ d.capacity = disc.capacity
        /\ d.buffer = disc.buffer /\ d.seen = disc.seen
    BY <1>1 DEF Calls
  <2> HIDE DEF d
  <2> QED BY <1>2, <2>1, <2>2, ContinueNext
<1>5. ASSUME left # {}
      PROVE  p \in Pids
  <2>1. left \subseteq Pids /\ left \subseteq Nat
    BY <1>1, DiscoveryAssumption
  <2> HIDE DEF left
  <2> QED BY <1>5, <2>1, LeastFacts
<1>6. ASSUME left # {}, NEW label \in {"scan", "add"}, NEW m \in BOOLEAN,
             Set([disc EXCEPT !.at = label, !.pid = p, !.missed = m]),
             label = "add" => <<p, Queries[disc.query][2]>> \in disc.seen
      PROVE  Inv'
  <2> DEFINE e == [disc EXCEPT !.at = label, !.pid = p, !.missed = m]
  <2>1. p \in Pids /\ label \in Labels
    BY <1>5, <1>6 DEF Labels
  <2>2. Set(e)
    BY <1>6
  <2> HIDE DEF p
  <2>3. e \in Calls /\ e.at = label /\ e.pid = p /\ e.query = disc.query /\ e.pos = disc.pos
        /\ e.batch = disc.batch /\ e.list = disc.list /\ e.capacity = disc.capacity
        /\ e.buffer = disc.buffer /\ e.seen = disc.seen /\ e.sock = disc.sock
    BY <1>1, <2>1 DEF Calls
  <2> HIDE DEF e
  <2>4. Running(e) /\ Walking(e)
    BY <2>3 DEF Running, Walking
  <2>5. Reported(e)
    BY <1>1, <1>6, <2>3, <2>4 DEF Reported
  <2> QED BY <1>2, <2>2, <2>3, <2>4, <2>5, PlainNext
<1>7. CASE left # {} /\ disc.sock # 0 /\ p \in holders[disc.sock]
           /\ Set([disc EXCEPT !.at = "add", !.pid = p])
  <2>1. <<p, Queries[disc.query][2]>> \in Holding(holders)
    <3>1. Eligible(disc.sock) /\ Kind[disc.sock] = Queries[disc.query] /\ disc.sock \in Slots
      BY <1>1, <1>7 DEF Reported
    <3>2. p \in Pids /\ Queries[disc.query][2] \in {"TCP", "UDP"}
      BY <1>1, <1>5, <1>7, QueryFacts
    <3> HIDE DEF p
    <3> QED BY <1>7, <3>1, <3>2 DEF Holding
  <2>2. Holding(holders) \subseteq disc.seen
    BY <1>1, <1>2 DEF Current
  <2>3. [disc EXCEPT !.at = "add", !.pid = p]
           = [disc EXCEPT !.at = "add", !.pid = p, !.missed = disc.missed]
    BY <1>1 DEF Calls
  <2> QED BY <1>1, <1>6, <1>7, <2>1, <2>2, <2>3
<1>8. CASE left # {} /\ Set([disc EXCEPT !.pid = p])
  <2>1. [disc EXCEPT !.pid = p] = [disc EXCEPT !.at = "scan", !.pid = p, !.missed = disc.missed]
    BY <1>1 DEF Calls
  <2> QED BY <1>1, <1>6, <1>8, <2>1
<1>9. CASE left # {} /\ Set([disc EXCEPT !.pid = p, !.missed = TRUE])
  <2>1. [disc EXCEPT !.pid = p, !.missed = TRUE]
           = [disc EXCEPT !.at = "scan", !.pid = p, !.missed = TRUE]
    BY <1>1 DEF Calls
  <2> QED BY <1>6, <1>9, <2>1
<1> QED BY <1>3, <1>4, <1>7, <1>8, <1>9 DEF find_pid_by_inode

\* A walk ends with an entry that is new or has one connection more.
LEMMA AddedNext ==
    ASSUME Inv, disc.at = "add", NEW d \in Calls, d.query = disc.query, d.pos = disc.pos,
           d.batch = disc.batch, d.seen = disc.seen, Room(Continue(d)), Sound(d),
           Set(Continue(d))
    PROVE  Inv'
<1> DEFINE e == Continue(d)
<1>1. /\ e \in Calls /\ e.at = "batch" /\ e.sock = 0 /\ e.pid = 0
      /\ e.query = d.query /\ e.pos = d.pos /\ e.batch = d.batch /\ e.list = d.list
      /\ e.capacity = d.capacity /\ e.buffer = d.buffer /\ e.seen = d.seen
  BY ContinueFacts
<1>2. Set(e) /\ Room(e)
  OBVIOUS
<1> HIDE DEF e
<1>3. Running(disc) /\ Running(e) /\ ~Walking(e)
  BY <1>1 DEF Running, Walking
<1>4. Reported(e) /\ Current(e, open, holders)
  BY <1>1, <1>3, CallFacts DEF Reported, Current
<1>5. Sound(e)
  BY <1>1 DEF Sound
<1>6. CallInv(e)
  BY <1>1, <1>2, <1>4, <1>5 DEF CallInv
<1> QED BY <1>2, <1>4, <1>6, CallNext

\* An entry of the list with one connection more.
LEMMA AnotherFacts ==
    ASSUME NEW entry \in Entries, NEW tcp \in BOOLEAN
    PROVE  LET x == Another(entry, tcp)
           IN  /\ x \in Entries /\ x.pid = entry.pid
               /\ x.num_connections = entry.num_connections + 1
               /\ x.has_tcp = (entry.has_tcp \/ tcp) /\ x.has_udp = (entry.has_udp \/ ~tcp)
               /\ x.exe = entry.exe
<1> DEFINE n == entry.num_connections + 1
           t == entry.has_tcp \/ tcp
           u == entry.has_udp \/ ~tcp
           x == [entry EXCEPT !.num_connections = n, !.has_tcp = t, !.has_udp = u]
<1>1. n \in Nat /\ t \in BOOLEAN /\ u \in BOOLEAN /\ x = Another(entry, tcp)
  BY DEF Another, Entries
<1> HIDE DEF n, t, u
<1>2. x \in Entries /\ x.pid = entry.pid /\ x.num_connections = n /\ x.has_tcp = t /\ x.has_udp = u
      /\ x.exe = entry.exe
  BY <1>1 DEF Entries
<1> HIDE DEF x
<1> QED BY <1>1, <1>2 DEF n, t, u

\* The new entry of a process.
LEMMA EntryFacts ==
    ASSUME disc.pid \in Pids, NEW tcp \in BOOLEAN
    PROVE  LET x == Entry(tcp)
           IN  /\ x \in Entries /\ x.pid = disc.pid /\ x.num_connections = 1
               /\ x.has_tcp = tcp /\ x.has_udp = ~tcp /\ x.exe = (disc.pid \in alive)
<1> DEFINE p == disc.pid
           u == ~tcp
           n == 1
           r == p \in alive
           x == [pid |-> p, num_connections |-> n, has_tcp |-> tcp, has_udp |-> u, exe |-> r]
<1>1. n \in Nat /\ u \in BOOLEAN /\ r \in BOOLEAN /\ p \in Pids /\ x = Entry(tcp)
  BY DEF Entry
<1> HIDE DEF n, u, r, p
<1>2. x \in Entries /\ x.pid = p /\ x.num_connections = n /\ x.has_tcp = tcp /\ x.has_udp = u
      /\ x.exe = r
  BY <1>1 DEF Entries
<1> HIDE DEF x
<1> QED BY <1>1, <1>2 DEF n, u, p, r

\* add_process_list.
LEMMA AddNext == ASSUME Inv, add_process_list PROVE Inv'
<1> DEFINE protocol == Queries[disc.query][2]
           tcp == protocol = "TCP"
           listed == {i \in DOMAIN disc.list : disc.list[i].pid = disc.pid}
           grown == 2 * disc.capacity
           longer == Append(disc.list, Entry(tcp))
           added == [disc EXCEPT !.list = longer]
<1>1. disc \in Calls /\ disc.at = "add" /\ Reported(disc) /\ Room(disc) /\ Sound(disc)
  BY CallFacts DEF add_process_list, At, CallInv
<1>2. /\ DOMAIN disc.list = 1 .. Len(disc.list) /\ Len(disc.list) \in Nat
      /\ disc.list \in Seq(Entries) /\ disc.query \in 1 .. 4
      /\ disc.capacity \in Nat /\ disc.buffer \in Nat /\ disc.pid \in Pids \cup {0}
      /\ disc.seen \subseteq Pids \X {"TCP", "UDP"}
      /\ \A i \in DOMAIN disc.list : disc.list[i] \in Entries /\ disc.list[i].pid \in Pids
                                     /\ disc.list[i].num_connections \in Nat
  BY <1>1, CallTypes
<1>3. /\ <<disc.pid, protocol>> \in disc.seen /\ protocol \in {"TCP", "UDP"} /\ tcp \in BOOLEAN
      /\ tcp => <<disc.pid, "TCP">> \in disc.seen
      /\ ~tcp => <<disc.pid, "UDP">> \in disc.seen
      /\ disc.pid \in Pids
  BY <1>1, <1>2, QueryFacts DEF Reported
<1>4. Running(disc)
  BY <1>1 DEF Running
<1>5. disc.capacity > 0 /\ disc.buffer = disc.capacity /\ Len(disc.list) <= disc.capacity
  BY <1>1, <1>4 DEF Room
<1> HIDE DEF tcp, protocol
<1>6. CASE listed # {} /\ Set(Continue([disc EXCEPT !.list[Least(listed)] = Another(@, tcp)]))
  <2> DEFINE k == Least(listed)
             x == Another(disc.list[k], tcp)
             l == [disc.list EXCEPT ![k] = x]
             d == [disc EXCEPT !.list = l]
  <2>1. k \in DOMAIN disc.list /\ disc.list[k].pid = disc.pid
    <3>1. listed \subseteq Nat
      BY <1>2
    <3>2. k \in listed
      BY <1>6, <3>1, LeastFacts
    <3> QED BY <3>2
  <2>2. Set(Continue(d))
    BY <1>6
  <2> HIDE DEF k
  <2>3. /\ x \in Entries /\ x.pid = disc.pid /\ x.num_connections = disc.list[k].num_connections + 1
        /\ x.has_tcp = (disc.list[k].has_tcp \/ tcp) /\ x.has_udp = (disc.list[k].has_udp \/ ~tcp)
    BY <1>2, <1>3, <2>1, AnotherFacts
  <2> HIDE DEF x
  <2>4. /\ l \in Seq(Entries) /\ DOMAIN l = DOMAIN disc.list /\ Len(l) = Len(disc.list)
        /\ l[k] = x /\ \A i \in DOMAIN disc.list : i # k => l[i] = disc.list[i]
    BY <1>2, <2>1, <2>3, ExceptSeq
  <2> HIDE DEF l
  <2>5. d \in Calls /\ d.query = disc.query /\ d.pos = disc.pos /\ d.batch = disc.batch
        /\ d.seen = disc.seen /\ d.list = l /\ d.capacity = disc.capacity /\ d.buffer = disc.buffer
    BY <1>1, <2>4 DEF Calls
  <2> HIDE DEF d
  <2>6. Room(Continue(d))
    <3>1. Continue(d).list = l /\ Continue(d).capacity = disc.capacity
          /\ Continue(d).buffer = disc.buffer
      BY <2>5, ContinueFacts
    <3> QED BY <1>5, <2>4, <3>1 DEF Room
  <2>7. Sound(d)
    <3>1. \A i \in DOMAIN l : l[i].pid = disc.list[i].pid
      BY <2>1, <2>3, <2>4
    <3>2. \A i, j \in DOMAIN l : l[i].pid = l[j].pid => i = j
      BY <1>1, <2>4, <3>1 DEF Sound
    <3>3. ASSUME NEW i \in DOMAIN l
          PROVE  EntrySound(l[i], disc.seen)
      <4>1. EntrySound(disc.list[i], disc.seen)
        BY <1>1, <2>4, <3>3 DEF Sound
      <4>2. CASE i # k
        BY <2>4, <3>3, <4>1, <4>2
      <4>3. CASE i = k
        <5>1. EntrySound(x, disc.seen)
          BY <1>3, <2>1, <2>3, <4>1, <4>3 DEF EntrySound
        <5> QED BY <2>4, <4>3, <5>1
      <4> QED BY <4>2, <4>3
    <3> QED BY <2>5, <3>2, <3>3 DEF Sound
  <2> QED BY <1>1, <2>2, <2>5, <2>6, <2>7, AddedNext
<1>7. /\ longer \in Seq(Entries) /\ Len(longer) = Len(disc.list) + 1
      /\ DOMAIN longer = 1 .. Len(disc.list) + 1
      /\ longer[Len(disc.list) + 1] = Entry(tcp)
      /\ \A i \in 1 .. Len(disc.list) : longer[i] = disc.list[i]
      /\ Entry(tcp).pid = disc.pid /\ Entry(tcp).num_connections = 1
      /\ Entry(tcp).has_tcp = tcp /\ Entry(tcp).has_udp = ~tcp
  <2> DEFINE x == Entry(tcp)
  <2>1. /\ x \in Entries /\ x.pid = disc.pid /\ x.num_connections = 1
        /\ x.has_tcp = tcp /\ x.has_udp = ~tcp
    BY <1>3, EntryFacts
  <2> HIDE DEF x
  <2>2. LET t == Append(disc.list, x)
        IN  t \in Seq(Entries) /\ Len(t) = Len(disc.list) + 1 /\ DOMAIN t = 1 .. Len(disc.list) + 1
            /\ t[Len(disc.list) + 1] = x
            /\ \A i \in 1 .. Len(disc.list) : t[i] = disc.list[i]
    BY <1>2, <2>1, AppendProperties, LenProperties
  <2> QED BY <2>1, <2>2 DEF x
<1> HIDE DEF longer
<1>8. ASSUME listed = {}, NEW d \in Calls, d.list = longer, d.seen = disc.seen
      PROVE  Sound(d)
  <2> DEFINE n == Len(disc.list)
             x == Entry(tcp)
  <2>1. \A i \in 1 .. n : disc.list[i].pid # disc.pid
    BY <1>2, <1>8
  <2>2. /\ n \in Nat /\ DOMAIN longer = 1 .. n + 1 /\ longer[n + 1] = x
        /\ \A i \in 1 .. n : longer[i] = disc.list[i]
        /\ x.pid = disc.pid /\ x.num_connections = 1 /\ x.has_tcp = tcp /\ x.has_udp = ~tcp
        /\ DOMAIN disc.list = 1 .. n
    BY <1>2, <1>7
  <2> HIDE DEF n, x
  <2>3. \A i \in 1 .. n + 1 : i \in 1 .. n \/ i = n + 1
    BY <2>2
  <2>4. ASSUME NEW i \in DOMAIN longer, NEW j \in DOMAIN longer, longer[i].pid = longer[j].pid
        PROVE  i = j
    <3>1. CASE i \in 1 .. n /\ j \in 1 .. n
      BY <1>1, <2>2, <2>4, <3>1 DEF Sound
    <3>2. CASE i = n + 1 \/ j = n + 1
      BY <2>1, <2>2, <2>3, <2>4, <3>2
    <3> QED BY <2>2, <2>3, <3>1, <3>2
  <2>5. ASSUME NEW i \in DOMAIN longer
        PROVE  EntrySound(longer[i], disc.seen)
    <3>1. CASE i \in 1 .. n
      BY <1>1, <2>2, <3>1 DEF Sound
    <3>2. CASE i = n + 1
      <4>1. EntrySound(x, disc.seen)
        BY <1>3, <2>2 DEF EntrySound
      <4> QED BY <2>2, <3>2, <4>1
    <3> QED BY <2>2, <2>3, <3>1, <3>2
  <2> QED BY <1>8, <2>4, <2>5 DEF Sound
<1>9. CASE listed = {} /\ ~Full(Len(disc.list), disc) /\ Set(Continue(added))
  <2>1. added \in Calls /\ added.query = disc.query /\ added.pos = disc.pos
        /\ added.batch = disc.batch /\ added.seen = disc.seen /\ added.list = longer
        /\ added.capacity = disc.capacity /\ added.buffer = disc.buffer
    BY <1>1, <1>7 DEF Calls
  <2> HIDE DEF added
  <2>2. Room(Continue(added))
    <3>1. Continue(added).list = longer /\ Continue(added).capacity = disc.capacity
          /\ Continue(added).buffer = disc.buffer
      BY <2>1, ContinueFacts
    <3>2. Len(longer) <= disc.capacity
      BY <1>2, <1>7, <1>9 DEF Full
    <3> QED BY <1>5, <3>1, <3>2 DEF Room
  <2>3. Sound(added)
    BY <1>8, <1>9, <2>1
  <2> QED BY <1>1, <1>9, <2>1, <2>2, <2>3, AddedNext
<1>10. CASE listed = {} /\ Set([Continue(added) EXCEPT !.capacity = grown, !.buffer = grown])
  <2> DEFINE d == [disc EXCEPT !.list = longer, !.capacity = grown, !.buffer = grown]
  <2>1. grown \in Nat /\ Len(disc.list) + 1 <= grown /\ grown > 0
    BY <1>2, <1>5
  <2> HIDE DEF grown
  <2>2. Set(Continue(d))
    <3>1. Continue(d) = [Continue(added) EXCEPT !.capacity = grown, !.buffer = grown]
      BY <1>1 DEF Continue, Calls
    <3> QED BY <1>10, <3>1
  <2>3. d \in Calls /\ d.query = disc.query /\ d.pos = disc.pos
        /\ d.batch = disc.batch /\ d.seen = disc.seen /\ d.list = longer
        /\ d.capacity = grown /\ d.buffer = grown
    BY <1>1, <1>7, <2>1 DEF Calls
  <2> HIDE DEF d
  <2>4. Room(Continue(d))
    <3>1. Continue(d).list = longer /\ Continue(d).capacity = grown /\ Continue(d).buffer = grown
      BY <2>3, ContinueFacts
    <3> QED BY <1>7, <2>1, <3>1 DEF Room
  <2>5. Sound(d)
    BY <1>8, <1>10, <2>3
  <2> QED BY <1>1, <2>2, <2>3, <2>4, <2>5, AddedNext
<1>11. CASE Set(Failed("RECVMSG"))
  <2>1. "RECVMSG" \in Codes
    BY DEF Codes
  <2> QED BY <1>11, <2>1, FailedFacts, CallNext
<1> QED BY <1>6, <1>9, <1>10, <1>11 DEF add_process_list, tcp, protocol, longer

-----------------------------------------------------------------------------
(***************************************************************************)
(* The processes and their sockets.                                        *)
(***************************************************************************)

\* A call in which nothing but the history changes.
LEMMA HistoryFacts ==
    ASSUME NEW d \in Calls, CallInv(d), NEW e \in Calls, e.at = d.at, e.query = d.query,
           e.pos = d.pos, e.batch = d.batch, e.sock = d.sock, e.pid = d.pid, e.list = d.list,
           e.capacity = d.capacity, e.buffer = d.buffer, d.seen \subseteq e.seen
    PROVE  CallInv(e)
<1>1. Reported(d)
  BY DEF CallInv
<1>2. Reported(e)
  BY <1>1 DEF Reported, Walking
<1>3. Running(e) => Running(d)
  BY DEF Running
<1> QED BY <1>2, <1>3, ListKept

\* A change of the processes or the sockets that closes none.
LEMMA DisturbedNext ==
    ASSUME Inv, NEW shift \in BOOLEAN, Disturbed(shift), World', open \subseteq open'
    PROVE  Inv'
<1>1. disc \in Calls /\ CallInv(disc) /\ Current(disc, open, holders)
  BY CallFacts
<1>2. CASE At("off") /\ UNCHANGED disc
  <2>1. Current(disc', open', holders')
    <3>1. ~Running(disc)
      BY <1>2 DEF At, Running
    <3> QED BY <1>1, <1>2, <3>1 DEF Current
  <2> QED BY <1>1, <1>2, <2>1 DEF Inv
<1>3. CASE ~At("off") /\ disc' = [disc EXCEPT !.changes = @ + 1, !.shifted = @ \/ shift,
              !.seen = IF At("done") THEN @ ELSE @ \cup Holding(holders')]
  <2> DEFINE H == Holding(holders')
             now == IF At("done") THEN disc.seen ELSE disc.seen \cup H
             one == 1
             moved == disc.shifted \/ shift
             e == [disc EXCEPT !.changes = @ + one, !.shifted = moved, !.seen = now]
  <2>1. H \subseteq Pids \X {"TCP", "UDP"}
    BY HoldingFacts
  <2>2. disc' = e
    BY <1>3
  <2> HIDE DEF H
  <2>3. /\ e \in Calls /\ e.at = disc.at /\ e.query = disc.query /\ e.pos = disc.pos
        /\ e.batch = disc.batch /\ e.sock = disc.sock /\ e.pid = disc.pid
        /\ e.list = disc.list /\ e.capacity = disc.capacity /\ e.buffer = disc.buffer
        /\ e.seen = now
    <3> DEFINE Pairs == Pids \X {"TCP", "UDP"}
    <3>1. now \in SUBSET Pairs
      BY <1>1, <2>1 DEF Calls
    <3>2. one \in Nat /\ moved \in BOOLEAN
      BY <1>1, CallTypes
    <3> HIDE DEF now, one, moved, Pairs
    <3>3. disc \in [at : Labels, query : 1 .. 4, pos : Nat, batch : SUBSET Slots,
                    sock : Slots \cup {0}, pid : Pids \cup {0}, list : Seq(Entries),
                    capacity : Nat, buffer : Nat, code : Codes, seen : SUBSET Pairs, changes : Nat,
                    shifted : BOOLEAN, missed : BOOLEAN]
      BY <1>1 DEF Calls, Pairs
    <3>4. disc.changes + one \in Nat
      BY <3>2, <3>3
    <3> QED BY <3>1, <3>2, <3>3, <3>4 DEF Calls, Pairs
  <2> HIDE DEF e
  <2>4. CallInv(e)
    BY <1>1, <2>3, HistoryFacts
  <2>5. Running(e) => H \subseteq e.seen
    BY <2>3 DEF Running, At
  <2>6. Current(e, open', holders')
    BY <1>1, <2>3, <2>5 DEF Current, H
  <2> QED BY <2>2, <2>4, <2>6 DEF Inv
<1> QED BY <1>2, <1>3 DEF Disturbed

\* What the invariant says of the processes and the sockets.
LEMMA WorldFacts ==
    ASSUME Inv
    PROVE  /\ alive \subseteq Pids /\ open \subseteq Slots /\ holders \in [Slots -> SUBSET alive]
           /\ \A s \in Slots : holders[s] # {} => s \in open
BY DEF Inv, World

\* A socket is opened, shared or closed.
LEMMA SocketNext ==
    ASSUME Inv, NEW p \in Pids, NEW s \in Slots,
           OpenSocket(p, s) \/ ShareSocket(p, s) \/ CloseSocket(p, s)
    PROVE  Inv'
<1>1. PICK held \in SUBSET alive :
          /\ holders' = [holders EXCEPT ![s] = held] /\ (held # {} => s \in open')
  BY WorldFacts DEF OpenSocket, ShareSocket, CloseSocket
<1>2. /\ alive' = alive /\ open \subseteq open' /\ open' \subseteq Slots
      /\ Disturbed(FALSE) \/ Disturbed(Shifts(s))
  BY WorldFacts DEF OpenSocket, ShareSocket, CloseSocket
<1>3. World'
  BY <1>1, <1>2, WorldFacts DEF World
<1>4. Shifts(s) \in BOOLEAN
  BY DEF Shifts
<1> QED BY <1>2, <1>3, <1>4, DisturbedNext

\* A process exits, or a new one gets a pid.
LEMMA ProcessNext ==
    ASSUME Inv, NEW p \in Pids, Exit(p) \/ Spawn(p)
    PROVE  Inv'
<1>1. open' = open /\ Disturbed(FALSE)
  BY DEF Exit, Spawn
<1>2. CASE Exit(p)
  <2>1. alive' = alive \ {p} /\ holders' = [s \in Slots |-> holders[s] \ {p}]
    BY <1>2 DEF Exit
  <2>2. World'
    BY <1>1, <2>1, WorldFacts DEF World
  <2> QED BY <1>1, <2>2, DisturbedNext
<1>3. CASE Spawn(p)
  <2>1. alive' = alive \cup {p} /\ holders' = holders
    BY <1>3 DEF Spawn
  <2>2. World'
    BY <1>1, <2>1, WorldFacts DEF World
  <2> QED BY <1>1, <2>2, DisturbedNext
<1> QED BY <1>2, <1>3

\* A socket that nobody holds goes.
LEMMA VanishNext ==
    ASSUME Inv, NEW s \in Slots, Vanish(s)
    PROVE  Inv'
<1> DEFINE moved == disc.shifted \/ Shifts(s)
           e == [disc EXCEPT !.batch = @ \ {s}, !.sock = IF @ = s THEN 0 ELSE @, !.shifted = moved]
<1>1. /\ disc \in Calls /\ CallInv(disc) /\ Reported(disc) /\ Current(disc, open, holders)
      /\ moved \in BOOLEAN
  BY CallFacts, CallTypes DEF Shifts
<1>2. /\ disc' = e /\ open' = open \ {s} /\ alive' = alive /\ holders' = holders
      /\ holders[s] = {}
  BY DEF Vanish
<1>3. World'
  BY <1>2, WorldFacts DEF World
<1> HIDE DEF moved
<1>4. /\ e \in Calls /\ e.at = disc.at /\ e.query = disc.query /\ e.pos = disc.pos
      /\ e.batch = disc.batch \ {s} /\ e.sock = (IF disc.sock = s THEN 0 ELSE disc.sock)
      /\ e.pid = disc.pid /\ e.list = disc.list /\ e.capacity = disc.capacity
      /\ e.buffer = disc.buffer /\ e.seen = disc.seen
  BY <1>1 DEF Calls
<1> HIDE DEF e
<1>5. Reported(e)
  BY <1>1, <1>4 DEF Reported, Walking
<1>6. Running(e) = Running(disc)
  BY <1>4 DEF Running
<1>7. CallInv(e)
  BY <1>1, <1>4, <1>5, <1>6, ListKept
<1>8. Current(e, open', holders')
  BY <1>1, <1>2, <1>4, <1>6 DEF Current
<1> QED BY <1>2, <1>3, <1>7, <1>8 DEF Inv

-----------------------------------------------------------------------------
(***************************************************************************)
(* The list is sound.                                                      *)
(***************************************************************************)

\* No call is in progress at first.
LEMMA InitInv == Init => Inv
<1> SUFFICES ASSUME Init PROVE Inv
  OBVIOUS
<1>1. World
  BY DEF Init, World
<1>2. disc = Off
  BY DEF Init
<1> QED BY <1>1, <1>2, OffFacts DEF Inv

\* Every step keeps the invariant.
LEMMA NextInv == Inv /\ [Next]_vars => Inv'
<1> SUFFICES ASSUME Inv, [Next]_vars PROVE Inv'
  OBVIOUS
<1>1. CASE get_network_processes
  BY <1>1, GetNext
<1>2. CASE Step
  BY <1>2, RecvNext, RecvFailsNext, DoneNext, MessageNext, FindNext, AddNext DEF Step
<1>3. CASE destroy_process_list
  BY <1>3, DestroyNext
<1>4. CASE Environment
  BY <1>4, VanishNext, SocketNext, ProcessNext DEF Environment
<1>5. CASE UNCHANGED vars
  BY <1>5 DEF Inv, World, vars, system
<1> QED BY <1>1, <1>2, <1>3, <1>4, <1>5 DEF Next

\* The invariant of every reachable state.
LEMMA Invariance == Spec => []Inv
BY InitInv, NextInv, PTL DEF Spec

\* It gives the types of the state.
LEMMA InvTypes == Inv => TypeOK
<1> SUFFICES ASSUME Inv PROVE TypeOK
  OBVIOUS
<1>1. disc \in Calls /\ Current(disc, open, holders)
  BY CallFacts
<1> QED BY <1>1, CallTypes, WorldFacts DEF TypeOK, Current

\* And that the list is sound.
LEMMA InvSound == Inv => ListSound
<1> SUFFICES ASSUME Inv PROVE ListSound
  OBVIOUS
<1>1. disc \in Calls /\ Room(disc) /\ Sound(disc)
  BY DEF Inv, CallInv
<1>2. Len(disc.list) <= disc.buffer
  BY <1>1 DEF Room
<1> QED BY <1>1, <1>2 DEF ListSound, Sound, EntrySound

\* The processes, the sockets and the call of get_network_processes have
\* their types; no message and no walk is about a socket that is gone.
THEOREM TypeCorrect == Spec => []TypeOK
BY Invariance, InvTypes, PTL

\* Whatever the processes and their sockets do between the dumps, the walks
\* of /proc and the additions to the list, wherever the kernel goes on with a
\* dump and whatever cannot be read, the list stays within its buffer, names no
\* pid twice, and shows no process that did not have such a socket during the
\* call.
THEOREM ListIsSound == Spec => []ListSound
BY Invariance, InvSound, PTL

-----------------------------------------------------------------------------
(***************************************************************************)
(* The inductive invariant of an undisturbed call, for the processes a and *)
(* the holders h of the sockets.                                           *)
(***************************************************************************)

Undisturbed(d) == d.at # "off" /\ d.code = "OK" /\ d.changes = 0 /\ ~d.missed

\* The eligible slots, and those that the dumps have passed: their messages
\* have been taken out of the buffer.
EligibleSlots == {s \in Slots : Eligible(s)}
Passed(d) ==
    {s \in EligibleSlots :
        \/ \E q \in 1 .. 4 : q < d.query /\ Kind[s] = Queries[q]
        \/ Kind[s] = Queries[d.query] /\ s < d.pos /\ s \notin d.batch}

\* The slots that the list accounts for: those passed, but for the one being
\* looked up.
Settled(d) == IF d.at = "done" THEN EligibleSlots ELSE Passed(d) \ {d.sock}

\* Those of them that belong to p, and an entry that accounts for slots T.
FirstOf(p, H) == H # {} /\ p = Least(H)
OwnedOf(p, S, h) == {s \in S : FirstOf(p, h[s])}
Matches(e, T) ==
    /\ T # {} /\ e.num_connections = Cardinality(T)
    /\ e.has_tcp = (\E s \in T : Kind[s][2] = "TCP")
    /\ e.has_udp = (\E s \in T : Kind[s][2] = "UDP")
    /\ e.exe = TRUE

Tally(list, S, h) ==
    /\ \A p \in Pids : OwnedOf(p, S, h) # {} => \E i \in DOMAIN list : list[i].pid = p
    /\ \A i \in DOMAIN list : Matches(list[i], OwnedOf(list[i].pid, S, h))

\* The socket being looked up is not one of the unhandled messages; the walk
\* starts before every process, has passed no holder of the socket, and ends
\* with the first.
Walk(d, h, a) ==
    /\ d.sock # 0 => d.sock \in Passed(d)
    /\ d.at \in {"recv", "batch"} => d.pid = 0
    /\ d.at = "scan" /\ d.sock # 0 => \A q \in a : q <= d.pid => q \notin h[d.sock]
    /\ d.at = "add" => d.sock # 0 /\ FirstOf(d.pid, h[d.sock])

Exact(d, h, a) == Undisturbed(d) => Tally(d.list, Settled(d), h) /\ Walk(d, h, a)
ExactInv == Inv /\ Exact(disc, holders, alive)

\* What the dumps have passed is a set of eligible slots.
LEMMA PassedFacts ==
    ASSUME NEW d
    PROVE  /\ EligibleSlots \in SUBSET Slots /\ Passed(d) \in SUBSET EligibleSlots
           /\ Passed(d) \in SUBSET Slots
BY DEF EligibleSlots, Passed

\* With an unchanged list, slots that nobody holds may be settled.
LEMMA SettledKept ==
    ASSUME NEW d, NEW e, NEW h, NEW a, Exact(d, h, a), Undisturbed(e) => Undisturbed(d),
           e.list = d.list, Settled(d) \subseteq Settled(e),
           \A s \in Settled(e) \ Settled(d) : h[s] = {}, Undisturbed(e) => Walk(e, h, a)
    PROVE  Exact(e, h, a)
<1> SUFFICES ASSUME Undisturbed(e) PROVE Tally(e.list, Settled(e), h) /\ Walk(e, h, a)
  BY DEF Exact
<1>1. Tally(d.list, Settled(d), h)
  BY DEF Exact
<1>2. \A p : OwnedOf(p, Settled(e), h) = OwnedOf(p, Settled(d), h)
  BY DEF OwnedOf, FirstOf
<1> QED BY <1>1, <1>2 DEF Tally

\* A call that failed, that was disturbed or that missed something promises
\* nothing.
LEMMA DisturbedExact ==
    ASSUME NEW e, NEW h, NEW a, e.at = "off" \/ e.code # "OK" \/ e.changes # 0 \/ e.missed
    PROVE  Exact(e, h, a)
BY DEF Exact, Undisturbed

\* A failed call carries the code of the failure.
LEMMA FailedExact ==
    ASSUME NEW code, code # "OK", NEW h, NEW a
    PROVE  Exact(Failed(code), h, a)
<1>1. Failed(code).code = code
  BY DEF Failed, Off
<1> QED BY <1>1, DisturbedExact

\* A call that leaves the processes and the sockets alone.
LEMMA ExactNext ==
    ASSUME NEW e, Set(e), Exact(e, holders, alive)
    PROVE  Exact(disc, holders, alive)'
BY DEF Set, system

\* The parts of the invariant.
LEMMA ExactFacts ==
    ASSUME ExactInv
    PROVE  /\ Inv /\ disc \in Calls /\ Reported(disc) /\ Exact(disc, holders, alive)
           /\ disc.batch \subseteq Slots /\ disc.sock \in Slots \cup {0} /\ disc.pos \in Nat
           /\ disc.query \in 1 .. 4 /\ disc.changes \in Nat
           /\ alive \subseteq Pids /\ Pids \subseteq Nat \ {0} /\ Slots \subseteq Nat \ {0}
           /\ holders \in [Slots -> SUBSET alive]
           /\ \A s \in Slots : holders[s] # {} => s \in open
           /\ Passed(disc) \subseteq Slots /\ 0 \notin Passed(disc)
<1>1. Inv /\ Exact(disc, holders, alive)
  BY DEF ExactInv
<1>2. disc \in Calls /\ Reported(disc)
  BY <1>1, CallFacts
<1>3. Passed(disc) \subseteq Slots /\ 0 \notin Passed(disc)
  BY PassedFacts, SlotFacts
<1> QED BY <1>1, <1>2, <1>3, CallTypes, WorldFacts, SlotFacts, DiscoveryAssumption

\* get_network_processes.
LEMMA GetExact == ASSUME ExactInv, get_network_processes PROVE Exact(disc, holders, alive)'
<1>1. CASE Set([create_process_list EXCEPT !.at = "recv", !.seen = Holding(holders)])
  <2> DEFINE now == Holding(holders)
             n == InitialCapacity
             e == [[Off EXCEPT !.capacity = n, !.buffer = n] EXCEPT !.at = "recv", !.seen = now]
  <2>1. Set(e)
    BY <1>1 DEF create_process_list
  <2> HIDE DEF now, n
  <2>2. /\ e.at = "recv" /\ e.query = 1 /\ e.pos = 1 /\ e.batch = {} /\ e.sock = 0 /\ e.pid = 0
        /\ e.list = <<>>
    BY DEF Off
  <2> HIDE DEF e
  <2>3. Passed(e) = {}
    <3>1. \A s \in Slots : ~(s < 1)
      BY SlotFacts
    <3>2. \A q \in 1 .. 4 : ~(q < 1)
      OBVIOUS
    <3> QED BY <2>2, <3>1, <3>2 DEF Passed, EligibleSlots
  <2>4. Settled(e) = {} /\ DOMAIN e.list = {}
    BY <2>2, <2>3 DEF Settled
  <2>5. Tally(e.list, Settled(e), holders)
    BY <2>4 DEF Tally, OwnedOf
  <2>6. Walk(e, holders, alive)
    BY <2>2 DEF Walk
  <2>7. Exact(e, holders, alive)
    BY <2>5, <2>6 DEF Exact
  <2> QED BY <2>1, <2>7, ExactNext
<1>2. ASSUME NEW code \in {"SOCKET", "BIND", "ALLOC"}, Set(Failed(code))
      PROVE  Exact(disc, holders, alive)'
  <2>1. code # "OK"
    OBVIOUS
  <2> QED BY <1>2, <2>1, FailedExact, ExactNext
<1> QED BY <1>1, <1>2 DEF get_network_processes

\* recvmsg: the slots it skips hold no socket.
LEMMA RecvExact == ASSUME ExactInv, recvmsg PROVE Exact(disc, holders, alive)'
<1>1. /\ disc \in Calls /\ Reported(disc) /\ disc.at = "recv" /\ Exact(disc, holders, alive)
      /\ disc.pos \in Nat /\ Slots \subseteq Nat /\ \A s \in Slots : holders[s] # {} => s \in open
      /\ open \subseteq Slots /\ disc.pos <= NumSlots /\ NumSlots \in Nat
  BY ExactFacts, WorldFacts, DiscoveryAssumption DEF recvmsg, At
<1>2. PICK from \in Resume :
         LET reported == {s \in open : s >= from /\ Kind[s] = Queries[disc.query]}
         IN  \E last \in reported \cup {NumSlots} :
                Set([disc EXCEPT !.at = "batch", !.pos = last + 1, !.shifted = FALSE,
                                 !.batch = {s \in reported : s <= last},
                                 !.missed = @ \/ from # disc.pos])
  BY DEF recvmsg
<1>3. CASE from # disc.pos
  <2>1. PICK b, n : Set([disc EXCEPT !.at = "batch", !.pos = n, !.shifted = FALSE,
                                     !.batch = b, !.missed = TRUE])
    BY <1>2, <1>3
  <2> DEFINE e == [disc EXCEPT !.at = "batch", !.pos = n, !.shifted = FALSE, !.batch = b,
                               !.missed = TRUE]
  <2>2. e.missed
    BY <1>1 DEF Calls
  <2> HIDE DEF e
  <2>3. Set(e)
    BY <2>1 DEF e
  <2> QED BY <2>2, <2>3, DisturbedExact, ExactNext
<1> SUFFICES ASSUME from = disc.pos PROVE Exact(disc, holders, alive)'
  BY <1>3
<1> DEFINE reported == {s \in open : s >= disc.pos /\ Kind[s] = Queries[disc.query]}
<1>4. PICK last \in reported \cup {NumSlots} :
         Set([disc EXCEPT !.at = "batch", !.pos = last + 1, !.shifted = FALSE,
                          !.batch = {s \in reported : s <= last},
                          !.missed = @ \/ from # disc.pos])
  BY <1>2
<1> DEFINE b == {s \in reported : s <= last}
           n == last + 1
           m == disc.missed \/ from # disc.pos
           e == [disc EXCEPT !.at = "batch", !.pos = n, !.shifted = FALSE, !.batch = b, !.missed = m]
<1>5. Set(e) /\ last \in Nat /\ last >= disc.pos
  <2>1. \A s \in reported : s \in Nat /\ s >= disc.pos
    BY <1>1
  <2> QED BY <1>1, <1>4, <2>1
<1>6. \A s \in Nat : (s < n <=> s <= last) /\ (s < disc.pos => s <= last /\ ~(s >= disc.pos))
                     /\ (s >= disc.pos \/ s < disc.pos)
  BY <1>1, <1>5
<1> HIDE DEF n
<1>7. \A s : s \in b <=> s \in open /\ s >= disc.pos /\ Kind[s] = Queries[disc.query] /\ s <= last
  OBVIOUS
<1> HIDE DEF b, reported
<1>8. /\ e.at = "batch" /\ e.pos = n /\ e.batch = b /\ e.query = disc.query /\ e.sock = disc.sock
      /\ e.list = disc.list /\ e.pid = disc.pid /\ e.code = disc.code /\ e.changes = disc.changes
      /\ e.missed = m
  BY <1>1 DEF Calls
<1> HIDE DEF e
<1>9. disc.batch = {} /\ disc.sock = 0
  BY <1>1 DEF Reported, Walking
<1>10. Settled(disc) = Passed(disc) /\ Settled(e) = Passed(e)
  BY <1>1, <1>8, <1>9, PassedFacts, SlotFacts DEF Settled
<1>11. ASSUME NEW s \in Passed(disc)
      PROVE  s \in Passed(e)
  <2>1. s \in EligibleSlots /\ s \in Nat
    BY <1>1, PassedFacts
  <2>2. CASE \E q \in 1 .. 4 : q < disc.query /\ Kind[s] = Queries[q]
    BY <1>8, <2>1, <2>2 DEF Passed
  <2>3. CASE Kind[s] = Queries[disc.query] /\ s < disc.pos
    <3>1. s < n /\ s \notin b
      BY <1>6, <1>7, <2>1, <2>3
    <3> QED BY <1>8, <2>1, <2>3, <3>1 DEF Passed
  <2> QED BY <1>11, <2>2, <2>3 DEF Passed
<1>12. ASSUME NEW s \in Passed(e), s \notin Passed(disc)
       PROVE  holders[s] = {}
  <2>1. s \in EligibleSlots /\ s \in Nat /\ s \in Slots
    BY <1>1, PassedFacts
  <2>2. ~\E q \in 1 .. 4 : q < disc.query /\ Kind[s] = Queries[q]
    BY <1>12, <2>1 DEF Passed
  <2>3. Kind[s] = Queries[disc.query] /\ s < n /\ s \notin b
    BY <1>8, <1>12, <2>2 DEF Passed
  <2>4. ~(s < disc.pos)
    BY <1>9, <1>12, <2>1, <2>3 DEF Passed
  <2>5. s \notin open
    BY <1>6, <1>7, <2>1, <2>3, <2>4
  <2> QED BY <1>1, <2>1, <2>5
<1>13. Undisturbed(e) => Undisturbed(disc) /\ Walk(disc, holders, alive)
  BY <1>1, <1>8 DEF Undisturbed, Exact, m
<1>14. Undisturbed(e) => Walk(e, holders, alive)
  BY <1>1, <1>8, <1>9, <1>13 DEF Walk
<1>15. Exact(e, holders, alive)
  BY <1>1, <1>8, <1>10, <1>11, <1>12, <1>13, <1>14, SettledKept
<1> QED BY <1>5, <1>15, ExactNext

\* nlmsg_done: the dump was read to its end, and the last one ends the call.
LEMMA DoneExact == ASSUME ExactInv, nlmsg_done PROVE Exact(disc, holders, alive)'
<1>1. /\ disc \in Calls /\ Reported(disc) /\ disc.at = "recv" /\ Exact(disc, holders, alive)
      /\ disc.query \in 1 .. 4 /\ Slots \subseteq Nat \ {0} /\ disc.pos \in Nat
  BY ExactFacts DEF nlmsg_done, At
<1>2. disc.batch = {} /\ disc.sock = 0
  BY <1>1 DEF Reported, Walking
<1>3. Settled(disc) = Passed(disc)
  BY <1>1, <1>2, PassedFacts, SlotFacts DEF Settled
<1>4. CASE Set(NextQuery([disc EXCEPT !.missed = TRUE]))
  <2> DEFINE d == [disc EXCEPT !.missed = TRUE]
             one == 1
             e == NextQuery(d)
  <2>1. d \in Calls /\ d.missed /\ d.query \in 1 .. 4
    BY <1>1 DEF Calls
  <2> HIDE DEF d, one
  <2>2. \A n : [d EXCEPT !.query = n, !.pos = one, !.shifted = FALSE].missed
               /\ [d EXCEPT !.at = "done", !.query = n, !.pos = one, !.shifted = FALSE].missed
    BY <2>1 DEF Calls
  <2>3. e.missed
    BY <2>2 DEF NextQuery, one
  <2>4. Set(e)
    BY <1>4 DEF d
  <2> HIDE DEF e
  <2> QED BY <2>3, <2>4, DisturbedExact, ExactNext
<1> SUFFICES ASSUME disc.pos > NumSlots, Set(NextQuery(disc)) PROVE Exact(disc, holders, alive)'
  BY <1>4 DEF nlmsg_done
<1>5. \A s \in Slots : s < disc.pos
  BY <1>1, DiscoveryAssumption DEF Slots
<1>6. CASE disc.query < Len(Queries)
  <2> DEFINE n == disc.query + 1
             one == 1
             e == [disc EXCEPT !.query = n, !.pos = one, !.shifted = FALSE]
  <2>1. n \in 1 .. 4 /\ disc.query < n /\ \A q \in 1 .. 4 : q < n <=> q < disc.query \/ q = disc.query
    BY <1>1, <1>6, QueryFacts
  <2>2. Set(e) /\ \A s \in Slots : ~(s < one)
    BY <1>1, <1>6 DEF NextQuery
  <2> HIDE DEF n, one
  <2>3. /\ e.at = "recv" /\ e.pos = one /\ e.batch = disc.batch /\ e.query = n
        /\ e.sock = disc.sock /\ e.list = disc.list /\ e.pid = disc.pid /\ e.code = disc.code
        /\ e.changes = disc.changes /\ e.missed = disc.missed
    BY <1>1 DEF Calls
  <2> HIDE DEF e
  <2>4. Passed(e) = Passed(disc)
    <3>1. \A s \in EligibleSlots : s \in Slots
      BY DEF EligibleSlots
    <3>2. ASSUME NEW s \in EligibleSlots
          PROVE  s \in Passed(e) <=> s \in Passed(disc)
      <4>1. s \in Passed(e) <=> \E q \in 1 .. 4 : q < n /\ Kind[s] = Queries[q]
        BY <2>2, <2>3, <3>1, <3>2 DEF Passed
      <4>2. s \in Passed(disc) <=> \/ \E q \in 1 .. 4 : q < disc.query /\ Kind[s] = Queries[q]
                                   \/ Kind[s] = Queries[disc.query]
        BY <1>2, <1>5, <3>1, <3>2 DEF Passed
      <4> QED BY <1>1, <2>1, <4>1, <4>2
    <3> QED BY <3>2, PassedFacts
  <2>5. Settled(e) = Settled(disc)
    BY <1>1, <2>3, <2>4 DEF Settled
  <2>6. Undisturbed(e) => Undisturbed(disc) /\ Walk(disc, holders, alive)
    BY <1>1, <2>3 DEF Undisturbed, Exact
  <2>7. Undisturbed(e) => Walk(e, holders, alive)
    BY <1>1, <1>2, <2>3, <2>6 DEF Walk
  <2>8. Exact(e, holders, alive)
    BY <1>1, <2>3, <2>5, <2>6, <2>7, SettledKept
  <2> QED BY <2>2, <2>8, ExactNext
<1>7. CASE ~(disc.query < Len(Queries))
  <2> DEFINE one == 1
             e == [disc EXCEPT !.at = "done", !.query = one, !.pos = one, !.shifted = FALSE]
  <2>1. Set(e)
    BY <1>7 DEF NextQuery
  <2> HIDE DEF one
  <2>2. /\ e.at = "done" /\ e.list = disc.list /\ e.code = disc.code /\ e.changes = disc.changes
        /\ e.missed = disc.missed /\ e.sock = disc.sock
    BY <1>1 DEF Calls
  <2> HIDE DEF e
  <2>3. Passed(disc) = EligibleSlots
    <3>1. disc.query = 4 /\ \A q \in 1 .. 4 : q < disc.query \/ q = disc.query
      BY <1>1, <1>7, QueryFacts
    <3>2. ASSUME NEW s \in EligibleSlots
          PROVE  s \in Passed(disc)
      <4>1. s \in Slots
        BY DEF EligibleSlots
      <4>2. PICK q \in 1 .. 4 : Kind[s] = Queries[q]
        BY <4>1, DiscoveryAssumption
      <4> QED BY <1>2, <1>5, <3>1, <4>1, <4>2 DEF Passed
    <3> QED BY <3>2, PassedFacts
  <2>4. Settled(e) = Settled(disc)
    BY <1>3, <2>2, <2>3 DEF Settled
  <2>5. Undisturbed(e) => Undisturbed(disc)
    BY <1>1, <2>2 DEF Undisturbed
  <2>6. Walk(e, holders, alive)
    BY <1>2, <2>2 DEF Walk
  <2>7. Exact(e, holders, alive)
    BY <1>1, <2>2, <2>4, <2>5, <2>6, SettledKept
  <2> QED BY <2>1, <2>7, ExactNext
<1> QED BY <1>6, <1>7

\* next_message: the message that is looked up is not settled yet.
LEMMA MessageExact == ASSUME ExactInv, next_message PROVE Exact(disc, holders, alive)'
<1> DEFINE s == Least(disc.batch)
<1>1. /\ disc \in Calls /\ Reported(disc) /\ disc.at = "batch" /\ Exact(disc, holders, alive)
      /\ disc.batch \subseteq Slots /\ disc.query \in 1 .. 4 /\ disc.pos \in Nat
      /\ Slots \subseteq Nat \ {0} /\ alive \subseteq Pids /\ Pids \subseteq Nat \ {0}
  BY ExactFacts DEF next_message, At
<1>2. disc.sock = 0
  BY <1>1 DEF Reported, Walking
<1>3. Settled(disc) = Passed(disc)
  BY <1>1, <1>2, PassedFacts, SlotFacts DEF Settled
<1>4. CASE disc.batch = {} /\ Set([disc EXCEPT !.at = "recv"])
  <2> DEFINE e == [disc EXCEPT !.at = "recv"]
  <2>1. Set(e)
    BY <1>4
  <2>2. /\ e.at = "recv" /\ e.query = disc.query /\ e.pos = disc.pos /\ e.batch = disc.batch
        /\ e.list = disc.list /\ e.sock = disc.sock /\ e.pid = disc.pid /\ e.code = disc.code
        /\ e.changes = disc.changes /\ e.missed = disc.missed
    BY <1>1 DEF Calls
  <2> HIDE DEF e
  <2>3. Passed(e) = Passed(disc)
    BY <2>2 DEF Passed
  <2>4. Settled(e) = Settled(disc)
    BY <1>1, <2>2, <2>3 DEF Settled
  <2>5. Undisturbed(e) => Undisturbed(disc) /\ Walk(disc, holders, alive)
    BY <1>1, <2>2 DEF Undisturbed, Exact
  <2>6. Undisturbed(e) => Walk(e, holders, alive)
    BY <1>1, <1>2, <2>2, <2>5 DEF Walk
  <2>7. Exact(e, holders, alive)
    BY <1>1, <2>2, <2>4, <2>5, <2>6, SettledKept
  <2> QED BY <2>1, <2>7, ExactNext
<1>5. ASSUME disc.batch # {}
      PROVE  s \in disc.batch /\ s \in Slots /\ s # 0 /\ s < disc.pos
             /\ Kind[s] = Queries[disc.query] /\ s \notin Passed(disc)
  <2>1. disc.batch \subseteq Nat
    BY <1>1
  <2>2. s \in disc.batch
    BY <1>5, <2>1, LeastFacts
  <2> HIDE DEF s
  <2>3. s \in Slots /\ s # 0 /\ s < disc.pos /\ Kind[s] = Queries[disc.query]
    BY <1>1, <2>2 DEF Reported
  <2>4. \A q \in 1 .. 4 : q < disc.query => Queries[q] # Queries[disc.query]
    BY <1>1, QueryFacts
  <2> QED BY <2>2, <2>3, <2>4 DEF Passed
<1>6. CASE disc.batch # {} /\ ~Eligible(s) /\ Set([disc EXCEPT !.batch = @ \ {s}])
  <2> DEFINE b == disc.batch \ {s}
             e == [disc EXCEPT !.batch = b]
  <2>1. Set(e)
    BY <1>6
  <2>2. \A t \in EligibleSlots : t \in b <=> t \in disc.batch
    BY <1>6 DEF EligibleSlots
  <2> HIDE DEF b
  <2>3. /\ e.at = disc.at /\ e.query = disc.query /\ e.pos = disc.pos /\ e.batch = b
        /\ e.list = disc.list /\ e.sock = disc.sock /\ e.pid = disc.pid /\ e.code = disc.code
        /\ e.changes = disc.changes /\ e.missed = disc.missed
    BY <1>1 DEF Calls
  <2> HIDE DEF e
  <2>4. Passed(e) = Passed(disc)
    BY <2>2, <2>3 DEF Passed
  <2>5. Settled(e) = Settled(disc)
    BY <2>3, <2>4 DEF Settled
  <2>6. Undisturbed(e) => Undisturbed(disc) /\ Walk(disc, holders, alive)
    BY <1>1, <2>3 DEF Undisturbed, Exact
  <2>7. Undisturbed(e) => Walk(e, holders, alive)
    BY <1>1, <1>2, <2>3, <2>6 DEF Walk
  <2>8. Exact(e, holders, alive)
    BY <1>1, <2>3, <2>5, <2>6, <2>7, SettledKept
  <2> QED BY <2>1, <2>8, ExactNext
<1>7. CASE disc.batch # {} /\ Eligible(s)
           /\ Set([disc EXCEPT !.at = "scan", !.sock = s, !.batch = @ \ {s}])
  <2> DEFINE b == disc.batch \ {s}
             e == [disc EXCEPT !.at = "scan", !.sock = s, !.batch = b]
  <2>1. Set(e)
    BY <1>7
  <2>2. /\ \A t : t \in b <=> t \in disc.batch /\ t # s
        /\ s \in disc.batch /\ s \in Slots /\ s # 0 /\ s < disc.pos
        /\ Kind[s] = Queries[disc.query] /\ s \notin Passed(disc) /\ Eligible(s)
    BY <1>5, <1>7
  <2> HIDE DEF b, s
  <2>3. /\ e.at = "scan" /\ e.query = disc.query /\ e.pos = disc.pos /\ e.batch = b
        /\ e.list = disc.list /\ e.sock = s /\ e.pid = disc.pid /\ e.code = disc.code
        /\ e.changes = disc.changes /\ e.missed = disc.missed
    BY <1>1 DEF Calls
  <2> HIDE DEF e
  <2>4. s \in Passed(e)
    BY <2>2, <2>3 DEF Passed, EligibleSlots
  <2>5. \A t : t # s => (t \in Passed(e) <=> t \in Passed(disc))
    BY <2>2, <2>3 DEF Passed
  <2>6. Settled(e) = Settled(disc)
    BY <1>3, <2>2, <2>3, <2>5 DEF Settled
  <2>7. Undisturbed(e) => Undisturbed(disc) /\ disc.pid = 0
    BY <1>1, <2>3 DEF Undisturbed, Exact, Walk
  <2>8. \A q \in alive : ~(q <= 0)
    BY <1>1
  <2>9. Undisturbed(e) => Walk(e, holders, alive)
    BY <2>3, <2>4, <2>7, <2>8 DEF Walk
  <2>10. Exact(e, holders, alive)
    BY <1>1, <2>3, <2>6, <2>7, <2>9, SettledKept
  <2> QED BY <2>1, <2>10, ExactNext
<1> QED BY <1>4, <1>6, <1>7 DEF next_message

\* find_pid_by_inode: the walk finds the first holder, or there is none.
LEMMA FindExact == ASSUME ExactInv, find_pid_by_inode PROVE Exact(disc, holders, alive)'
<1> DEFINE left == {p \in alive : p > disc.pid}
           p == Least(left)
<1>1. /\ disc \in Calls /\ Reported(disc) /\ disc.at = "scan" /\ Exact(disc, holders, alive)
      /\ disc.sock \in Slots \cup {0} /\ disc.pid \in Nat
      /\ Slots \subseteq Nat \ {0} /\ alive \subseteq Nat /\ holders \in [Slots -> SUBSET alive]
      /\ 0 \notin Passed(disc)
  BY ExactFacts, CallTypes DEF find_pid_by_inode, At
<1>2. Settled(disc) = Passed(disc) \ {disc.sock}
  BY <1>1 DEF Settled
<1>3. \A q \in alive : q > disc.pid \/ q <= disc.pid
  BY <1>1
<1>4. CASE left = {} /\ Set(Continue(disc))
  <2> DEFINE e == Continue(disc)
  <2>1. /\ e.at = "batch" /\ e.sock = 0 /\ e.pid = 0 /\ e.query = disc.query /\ e.pos = disc.pos
        /\ e.batch = disc.batch /\ e.list = disc.list /\ e.code = disc.code
        /\ e.changes = disc.changes /\ e.missed = disc.missed
    BY <1>1, ContinueFacts
  <2>2. Set(e)
    BY <1>4
  <2> HIDE DEF e
  <2>3. Passed(e) = Passed(disc)
    BY <2>1 DEF Passed
  <2>4. Settled(e) = Passed(disc)
    BY <1>1, <2>1, <2>3 DEF Settled
  <2>5. Undisturbed(e) => Undisturbed(disc) /\ Walk(disc, holders, alive)
    BY <1>1, <2>1 DEF Undisturbed, Exact
  <2>6. ASSUME Undisturbed(e)
        PROVE  Exact(e, holders, alive)
    <3>1. ASSUME NEW s \in Settled(e) \ Settled(disc)
          PROVE  holders[s] = {}
      <4>1. s = disc.sock /\ s # 0 /\ s \in Slots
        BY <1>1, <1>2, <2>4, <3>1
      <4>2. \A q \in alive : q \notin holders[s]
        BY <1>1, <1>3, <1>4, <2>5, <2>6, <4>1 DEF Walk
      <4> QED BY <1>1, <4>1, <4>2
    <3>2. Walk(e, holders, alive)
      BY <2>1 DEF Walk
    <3> QED BY <1>1, <1>2, <2>1, <2>4, <2>5, <3>1, <3>2, SettledKept
  <2>7. Exact(e, holders, alive)
    BY <2>6 DEF Exact
  <2> QED BY <2>2, <2>7, ExactNext
<1>5. CASE Set(Continue([disc EXCEPT !.missed = TRUE]))
  <2> DEFINE d == [disc EXCEPT !.missed = TRUE]
             e == Continue(d)
  <2>1. Set(e)
    BY <1>5
  <2>2. d \in Calls /\ d.missed
    BY <1>1 DEF Calls
  <2> HIDE DEF d
  <2>3. e.missed
    BY <2>2, ContinueFacts
  <2> HIDE DEF e
  <2> QED BY <2>1, <2>3, DisturbedExact, ExactNext
<1>6. ASSUME left # {}
      PROVE  p \in alive /\ p > disc.pid /\ \A q \in alive : q > disc.pid => p <= q
  <2>1. left \subseteq Nat
    BY <1>1
  <2>2. p \in left /\ \A q \in left : p <= q
    BY <1>6, <2>1, LeastFacts
  <2> QED BY <2>2
<1>7. ASSUME left # {}, NEW label \in {"scan", "add"}, Set([disc EXCEPT !.at = label, !.pid = p]),
             Undisturbed(disc) /\ Walk(disc, holders, alive) /\ disc.sock # 0 =>
                 /\ label = "scan" => p \notin holders[disc.sock]
                 /\ label = "add" => p \in holders[disc.sock],
             label = "add" => disc.sock # 0
      PROVE  Exact(disc, holders, alive)'
  <2> DEFINE e == [disc EXCEPT !.at = label, !.pid = p]
  <2>1. p \in alive /\ p > disc.pid /\ \A q \in alive : q > disc.pid => p <= q
    BY <1>6, <1>7
  <2>2. Set(e)
    BY <1>7
  <2> HIDE DEF p
  <2>3. /\ e.at = label /\ e.pid = p /\ e.sock = disc.sock /\ e.query = disc.query
        /\ e.pos = disc.pos /\ e.batch = disc.batch /\ e.list = disc.list /\ e.code = disc.code
        /\ e.changes = disc.changes /\ e.missed = disc.missed
    BY <1>1 DEF Calls
  <2> HIDE DEF e
  <2>4. Passed(e) = Passed(disc)
    BY <2>3 DEF Passed
  <2>5. Settled(e) = Settled(disc)
    BY <1>1, <2>3, <2>4 DEF Settled
  <2>6. Undisturbed(e) => Undisturbed(disc) /\ Walk(disc, holders, alive)
    BY <1>1, <2>3 DEF Undisturbed, Exact
  <2>7. ASSUME Undisturbed(e)
        PROVE  Walk(e, holders, alive)
    <3>1. e.sock # 0 => e.sock \in Passed(e)
      BY <2>3, <2>4, <2>6, <2>7 DEF Walk
    <3>2. ASSUME label = "scan", disc.sock # 0, NEW q \in alive, q <= p
          PROVE  q \notin holders[disc.sock]
      <4>1. CASE q <= disc.pid
        BY <1>1, <2>6, <2>7, <3>2, <4>1 DEF Walk
      <4>2. CASE q > disc.pid
        <5>1. q = p
          BY <1>1, <2>1, <3>2, <4>2
        <5> QED BY <1>7, <2>6, <2>7, <3>2, <5>1
      <4> QED BY <1>3, <4>1, <4>2
    <3>3. ASSUME label = "add"
          PROVE  disc.sock # 0 /\ FirstOf(p, holders[disc.sock])
      <4> DEFINE H == holders[disc.sock]
      <4>1. disc.sock # 0 /\ disc.sock \in Slots /\ p \in H /\ H \subseteq alive /\ H \subseteq Nat
        BY <1>1, <1>7, <2>6, <2>7, <3>3
      <4>2. \A q \in H : p <= q
        <5>1. \A q \in H : q <= disc.pid => q \notin H
          BY <1>1, <2>6, <2>7, <4>1 DEF Walk
        <5> QED BY <1>3, <2>1, <4>1, <5>1
      <4> HIDE DEF H
      <4>3. Least(H) \in H /\ \A q \in H : Least(H) <= q
        BY <4>1, LeastFacts
      <4>4. p <= Least(H) /\ Least(H) <= p /\ p \in Nat /\ Least(H) \in Nat
        BY <4>1, <4>2, <4>3
      <4>5. p = Least(H)
        BY <4>4
      <4> QED BY <4>1, <4>5 DEF H, FirstOf
    <3> QED BY <1>7, <2>3, <3>1, <3>2, <3>3 DEF Walk
  <2>8. Exact(e, holders, alive)
    BY <1>1, <2>3, <2>5, <2>6, <2>7, SettledKept
  <2> QED BY <2>2, <2>8, ExactNext
<1>8. CASE left # {} /\ disc.sock # 0 /\ p \in holders[disc.sock]
           /\ Set([disc EXCEPT !.at = "add", !.pid = p])
  BY <1>7, <1>8
<1>9. CASE left # {} /\ ~(disc.sock # 0 /\ p \in holders[disc.sock]) /\ Set([disc EXCEPT !.pid = p])
  <2>1. [disc EXCEPT !.pid = p] = [disc EXCEPT !.at = "scan", !.pid = p]
    BY <1>1 DEF Calls
  <2> QED BY <1>7, <1>9, <2>1
<1>10. CASE Set([disc EXCEPT !.pid = p, !.missed = TRUE])
  <2> DEFINE e == [disc EXCEPT !.pid = p, !.missed = TRUE]
  <2> HIDE DEF p
  <2>1. e.missed
    BY <1>1 DEF Calls
  <2>2. Set(e)
    BY <1>10
  <2> HIDE DEF e
  <2> QED BY <2>1, <2>2, DisturbedExact, ExactNext
<1> QED BY <1>4, <1>5, <1>8, <1>9, <1>10 DEF find_pid_by_inode

\* An entry that accounts for one slot more.
LEMMA MatchesAnother ==
    ASSUME NEW entry \in Entries, NEW T \in SUBSET Slots, Matches(entry, T), NEW s \in Slots \ T,
           NEW tcp \in BOOLEAN, tcp = (Kind[s][2] = "TCP"), Kind[s][2] \in {"TCP", "UDP"}
    PROVE  Matches(Another(entry, tcp), T \cup {s})
<1> DEFINE x == Another(entry, tcp)
<1>1. /\ x.num_connections = entry.num_connections + 1
      /\ x.has_tcp = (entry.has_tcp \/ tcp) /\ x.has_udp = (entry.has_udp \/ ~tcp)
      /\ x.exe = entry.exe
  BY AnotherFacts
<1> HIDE DEF x
<1>2. Cardinality(T \cup {s}) = Cardinality(T) + 1
  BY SlotFacts, FS_AddElement
<1>3. x.num_connections = Cardinality(T \cup {s}) /\ x.exe = TRUE
  BY <1>1, <1>2 DEF Matches
<1>4. x.has_tcp = (\E t \in T \cup {s} : Kind[t][2] = "TCP")
  <2>1. entry.has_tcp = (\E t \in T : Kind[t][2] = "TCP")
    BY DEF Matches
  <2> QED BY <1>1, <2>1
<1>5. x.has_udp = (\E t \in T \cup {s} : Kind[t][2] = "UDP")
  <2>1. entry.has_udp = (\E t \in T : Kind[t][2] = "UDP")
    BY DEF Matches
  <2>2. ~tcp <=> Kind[s][2] = "UDP"
    OBVIOUS
  <2> QED BY <1>1, <2>1, <2>2
<1> QED BY <1>3, <1>4, <1>5 DEF Matches, x

\* A new entry accounts for one slot.
LEMMA MatchesEntry ==
    ASSUME disc.pid \in Pids, disc.pid \in alive, NEW s \in Slots, NEW tcp \in BOOLEAN,
           tcp = (Kind[s][2] = "TCP"), Kind[s][2] \in {"TCP", "UDP"}
    PROVE  Matches(Entry(tcp), {s})
<1> DEFINE x == Entry(tcp)
<1>1. /\ x.num_connections = 1 /\ x.has_tcp = tcp /\ x.has_udp = ~tcp
      /\ x.exe = (disc.pid \in alive)
  BY EntryFacts
<1> HIDE DEF x
<1>2. Cardinality({s}) = 1
  BY FS_Singleton
<1>3. ~tcp <=> Kind[s][2] = "UDP"
  OBVIOUS
<1>4. x.has_tcp = (\E t \in {s} : Kind[t][2] = "TCP")
  BY <1>1
<1>5. x.has_udp = (\E t \in {s} : Kind[t][2] = "UDP")
  BY <1>1, <1>3
<1> QED BY <1>1, <1>2, <1>4, <1>5 DEF Matches, x

\* A slot that is settled is its first holder's.
LEMMA OwnedGrows ==
    ASSUME NEW S, NEW s, NEW h, NEW p, FirstOf(p, h[s])
    PROVE  /\ OwnedOf(p, S \cup {s}, h) = OwnedOf(p, S, h) \cup {s}
           /\ \A q : q # p => OwnedOf(q, S \cup {s}, h) = OwnedOf(q, S, h)
BY DEF OwnedOf, FirstOf

\* A list l that differs from another in entry k, the only one of p.
Grown(list, l, k, p) ==
    /\ k \in DOMAIN l /\ DOMAIN list \subseteq DOMAIN l
    /\ l[k].pid = p /\ (k \in DOMAIN list => list[k].pid = p)
    /\ \A i \in DOMAIN l : i # k => i \in DOMAIN list /\ l[i] = list[i] /\ list[i].pid # p

\* The list after the slot was counted.
LEMMA TallyGrows ==
    ASSUME NEW list, NEW l, NEW k, NEW S, NEW s, NEW h, NEW p, FirstOf(p, h[s]),
           Tally(list, S, h), Grown(list, l, k, p), Matches(l[k], OwnedOf(p, S, h) \cup {s})
    PROVE  Tally(l, S \cup {s}, h)
<1>1. /\ OwnedOf(p, S \cup {s}, h) = OwnedOf(p, S, h) \cup {s}
      /\ \A q : q # p => OwnedOf(q, S \cup {s}, h) = OwnedOf(q, S, h)
  BY OwnedGrows
<1>2. ASSUME NEW q \in Pids, OwnedOf(q, S \cup {s}, h) # {}
      PROVE  \E i \in DOMAIN l : l[i].pid = q
  <2>1. CASE q = p
    BY <2>1 DEF Grown
  <2>2. CASE q # p
    <3>1. PICK i \in DOMAIN list : list[i].pid = q
      BY <1>1, <1>2, <2>2 DEF Tally
    <3>2. i # k
      BY <2>2, <3>1 DEF Grown
    <3> QED BY <3>1, <3>2 DEF Grown
  <2> QED BY <2>1, <2>2
<1>3. ASSUME NEW i \in DOMAIN l
      PROVE  Matches(l[i], OwnedOf(l[i].pid, S \cup {s}, h))
  <2>1. CASE i = k
    BY <1>1, <2>1 DEF Grown
  <2>2. CASE i # k
    <3>1. i \in DOMAIN list /\ l[i] = list[i] /\ list[i].pid # p
      BY <1>3, <2>2 DEF Grown
    <3>2. Matches(list[i], OwnedOf(list[i].pid, S, h))
      BY <3>1 DEF Tally
    <3>3. OwnedOf(list[i].pid, S \cup {s}, h) = OwnedOf(list[i].pid, S, h)
      BY <1>1, <3>1
    <3> QED BY <3>1, <3>2, <3>3
  <2> QED BY <2>1, <2>2
<1> QED BY <1>2, <1>3 DEF Tally

\* A walk ends with an entry for the slot.
LEMMA AddedExact ==
    ASSUME ExactInv, disc.at = "add", NEW d \in Calls, d.query = disc.query, d.pos = disc.pos,
           d.batch = disc.batch, d.code = disc.code, d.changes = disc.changes, d.missed = disc.missed,
           Undisturbed(disc) => Tally(d.list, Settled(disc) \cup {disc.sock}, holders),
           Set(Continue(d))
    PROVE  Exact(disc, holders, alive)'
<1> DEFINE e == Continue(d)
<1>1. /\ e.at = "batch" /\ e.sock = 0 /\ e.pid = 0 /\ e.query = disc.query /\ e.pos = disc.pos
      /\ e.batch = disc.batch /\ e.list = d.list /\ e.code = disc.code
      /\ e.changes = disc.changes /\ e.missed = disc.missed
  BY ContinueFacts
<1>2. Set(e)
  OBVIOUS
<1> HIDE DEF e
<1>3. Passed(e) = Passed(disc)
  BY <1>1 DEF Passed
<1>4. ASSUME Undisturbed(e)
      PROVE  Tally(e.list, Settled(e), holders) /\ Walk(e, holders, alive)
  <2>1. Undisturbed(disc)
    BY <1>1, <1>4 DEF Undisturbed
  <2>2. disc.sock \in Passed(disc)
    BY <2>1, ExactFacts DEF Exact, Walk
  <2>3. Settled(e) = Settled(disc) \cup {disc.sock}
    BY <1>1, <1>3, <2>2, ExactFacts DEF Settled
  <2>4. Walk(e, holders, alive)
    BY <1>1 DEF Walk
  <2> QED BY <1>1, <2>1, <2>3, <2>4
<1>5. Exact(e, holders, alive)
  BY <1>4 DEF Exact
<1> QED BY <1>2, <1>5, ExactNext

\* add_process_list.
LEMMA AddExact == ASSUME ExactInv, add_process_list PROVE Exact(disc, holders, alive)'
<1> DEFINE protocol == Queries[disc.query][2]
           tcp == protocol = "TCP"
           listed == {i \in DOMAIN disc.list : disc.list[i].pid = disc.pid}
           grown == 2 * disc.capacity
           longer == Append(disc.list, Entry(tcp))
           added == [disc EXCEPT !.list = longer]
           mine == OwnedOf(disc.pid, Settled(disc), holders)
<1>1. /\ disc \in Calls /\ disc.at = "add" /\ Reported(disc) /\ Sound(disc)
      /\ Exact(disc, holders, alive) /\ disc.query \in 1 .. 4 /\ disc.sock \in Slots \cup {0}
      /\ disc.list \in Seq(Entries) /\ disc.capacity \in Nat /\ disc.seen \subseteq Pids \X {"TCP", "UDP"}
      /\ DOMAIN disc.list = 1 .. Len(disc.list) /\ Len(disc.list) \in Nat
      /\ \A i \in DOMAIN disc.list : disc.list[i] \in Entries
  BY ExactFacts, CallTypes DEF add_process_list, At, Inv, CallInv
<1>2. protocol \in {"TCP", "UDP"} /\ tcp \in BOOLEAN /\ disc.pid \in Pids
  BY <1>1, QueryFacts DEF Reported
<1>3. ASSUME Undisturbed(disc)
      PROVE  /\ disc.sock \in Slots /\ disc.sock \notin Settled(disc) /\ mine \in SUBSET Slots
             /\ disc.sock \notin mine
             /\ FirstOf(disc.pid, holders[disc.sock])
             /\ disc.pid \in alive /\ Kind[disc.sock][2] = protocol
             /\ Tally(disc.list, Settled(disc), holders)
  <2>1. /\ Tally(disc.list, Settled(disc), holders) /\ disc.sock # 0
        /\ FirstOf(disc.pid, holders[disc.sock])
    BY <1>1, <1>3 DEF Exact, Walk
  <2>2. Kind[disc.sock] = Queries[disc.query] /\ disc.sock \in Slots
    BY <1>1, <2>1 DEF Reported
  <2>3. disc.pid \in alive
    <3>1. holders[disc.sock] \subseteq alive /\ alive \subseteq Nat
      BY <2>2, ExactFacts
    <3>2. Least(holders[disc.sock]) \in holders[disc.sock]
      BY <2>1, <3>1, LeastFacts DEF FirstOf
    <3> QED BY <2>1, <3>1, <3>2 DEF FirstOf
  <2>4. Settled(disc) \subseteq Slots /\ disc.sock \notin Settled(disc)
    BY <1>1, ExactFacts DEF Settled
  <2> QED BY <2>1, <2>2, <2>3, <2>4 DEF OwnedOf
<1> HIDE DEF tcp, protocol
<1>4. CASE listed # {} /\ Set(Continue([disc EXCEPT !.list[Least(listed)] = Another(@, tcp)]))
  <2> DEFINE k == Least(listed)
             x == Another(disc.list[k], tcp)
             l == [disc.list EXCEPT ![k] = x]
             d == [disc EXCEPT !.list = l]
  <2>1. k \in DOMAIN disc.list /\ disc.list[k].pid = disc.pid
    <3>1. listed \subseteq Nat
      BY <1>1
    <3>2. k \in listed
      BY <1>4, <3>1, LeastFacts
    <3> QED BY <3>2
  <2>2. Set(Continue(d))
    BY <1>4
  <2> HIDE DEF k
  <2>3. x \in Entries /\ x.pid = disc.pid
    BY <1>1, <1>2, <2>1, AnotherFacts
  <2>4. ASSUME Undisturbed(disc)
        PROVE  Matches(x, mine \cup {disc.sock})
    <3>1. Matches(disc.list[k], mine)
      BY <1>3, <2>1, <2>4 DEF Tally
    <3>2. disc.sock \in Slots \ mine /\ mine \in SUBSET Slots /\ Kind[disc.sock][2] = protocol
      BY <1>3, <2>4
    <3> QED BY <1>1, <1>2, <2>1, <3>1, <3>2, MatchesAnother DEF tcp
  <2> HIDE DEF x
  <2>5. /\ l \in Seq(Entries) /\ DOMAIN l = DOMAIN disc.list /\ l[k] = x
        /\ \A i \in DOMAIN disc.list : i # k => l[i] = disc.list[i]
    BY <1>1, <2>1, <2>3, ExceptSeq
  <2> HIDE DEF l
  <2>6. d \in Calls /\ d.query = disc.query /\ d.pos = disc.pos /\ d.batch = disc.batch
        /\ d.list = l /\ d.code = disc.code /\ d.changes = disc.changes /\ d.missed = disc.missed
    BY <1>1, <2>5 DEF Calls
  <2> HIDE DEF d
  <2>7. ASSUME Undisturbed(disc)
        PROVE  Tally(d.list, Settled(disc) \cup {disc.sock}, holders)
    <3>1. Grown(disc.list, l, k, disc.pid)
      BY <1>1, <2>1, <2>3, <2>5 DEF Sound, Grown
    <3>2. Matches(l[k], mine \cup {disc.sock})
      BY <2>4, <2>5, <2>7
    <3>3. Tally(disc.list, Settled(disc), holders) /\ FirstOf(disc.pid, holders[disc.sock])
      BY <1>3, <2>7
    <3>4. Tally(l, Settled(disc) \cup {disc.sock}, holders)
      BY <3>1, <3>2, <3>3, TallyGrows
    <3> QED BY <2>6, <3>4
  <2> QED BY <1>1, <2>2, <2>6, <2>7, AddedExact
<1>5. /\ longer \in Seq(Entries) /\ DOMAIN longer = 1 .. Len(disc.list) + 1
      /\ longer[Len(disc.list) + 1] = Entry(tcp) /\ Entry(tcp).pid = disc.pid
      /\ \A i \in 1 .. Len(disc.list) : longer[i] = disc.list[i]
  <2> DEFINE x == Entry(tcp)
  <2>1. x \in Entries /\ x.pid = disc.pid
    BY <1>2, EntryFacts
  <2> HIDE DEF x
  <2>2. LET t == Append(disc.list, x)
        IN  t \in Seq(Entries) /\ DOMAIN t = 1 .. Len(disc.list) + 1
            /\ t[Len(disc.list) + 1] = x
            /\ \A i \in 1 .. Len(disc.list) : t[i] = disc.list[i]
    BY <1>1, <2>1, AppendProperties, LenProperties
  <2> QED BY <2>1, <2>2 DEF x
<1> HIDE DEF longer
<1>6. ASSUME listed = {}, Undisturbed(disc)
      PROVE  Tally(longer, Settled(disc) \cup {disc.sock}, holders)
  <2> DEFINE n == Len(disc.list)
             k == n + 1
  <2>1. /\ n \in Nat /\ DOMAIN disc.list = 1 .. n /\ DOMAIN longer = 1 .. k
        /\ \A i \in 1 .. k : i # k => i \in 1 .. n
        /\ 1 .. n \subseteq 1 .. k /\ k \in 1 .. k /\ k \notin 1 .. n
    BY <1>1, <1>5
  <2>2. longer[k] = Entry(tcp) /\ Entry(tcp).pid = disc.pid
        /\ \A i \in 1 .. n : longer[i] = disc.list[i] /\ disc.list[i].pid # disc.pid
    BY <1>1, <1>5, <1>6
  <2> HIDE DEF n, k
  <2>3. mine = {}
    <3>1. ~\E i \in DOMAIN disc.list : disc.list[i].pid = disc.pid
      BY <1>6
    <3> QED BY <1>2, <1>3, <1>6, <3>1 DEF Tally
  <2>4. Matches(Entry(tcp), mine \cup {disc.sock})
    <3>1. Matches(Entry(tcp), {disc.sock})
      BY <1>2, <1>3, <1>6, MatchesEntry DEF tcp
    <3>2. mine \cup {disc.sock} = {disc.sock}
      BY <2>3
    <3> QED BY <3>1, <3>2
  <2>5. /\ Tally(disc.list, Settled(disc), holders)
        /\ FirstOf(disc.pid, holders[disc.sock])
    BY <1>3, <1>6
  <2>6. Grown(disc.list, longer, k, disc.pid)
    BY <2>1, <2>2 DEF Grown
  <2>7. Matches(longer[k], mine \cup {disc.sock})
    BY <2>2, <2>4
  <2> QED BY <2>5, <2>6, <2>7, TallyGrows
<1>7. CASE listed = {} /\ Set(Continue(added))
  <2>1. added \in Calls /\ added.query = disc.query /\ added.pos = disc.pos
        /\ added.batch = disc.batch /\ added.list = longer /\ added.code = disc.code
        /\ added.changes = disc.changes /\ added.missed = disc.missed
    BY <1>1, <1>5 DEF Calls
  <2> HIDE DEF added
  <2> QED BY <1>1, <1>6, <1>7, <2>1, AddedExact
<1>8. CASE listed = {} /\ Set([Continue(added) EXCEPT !.capacity = grown, !.buffer = grown])
  <2> DEFINE d == [disc EXCEPT !.list = longer, !.capacity = grown, !.buffer = grown]
  <2>1. grown \in Nat
    BY <1>1
  <2> HIDE DEF grown
  <2>2. Set(Continue(d))
    <3>1. Continue(d) = [Continue(added) EXCEPT !.capacity = grown, !.buffer = grown]
      BY <1>1 DEF Continue, Calls
    <3> QED BY <1>8, <3>1
  <2>3. d \in Calls /\ d.query = disc.query /\ d.pos = disc.pos
        /\ d.batch = disc.batch /\ d.list = longer /\ d.code = disc.code
        /\ d.changes = disc.changes /\ d.missed = disc.missed
    BY <1>1, <1>5, <2>1 DEF Calls
  <2> HIDE DEF d
  <2> QED BY <1>1, <1>6, <1>8, <2>2, <2>3, AddedExact
<1>9. CASE Set(Failed("RECVMSG"))
  <2>1. "RECVMSG" # "OK"
    OBVIOUS
  <2> QED BY <1>9, <2>1, FailedExact, ExactNext
<1> QED BY <1>4, <1>7, <1>8, <1>9 DEF add_process_list, tcp, protocol, longer

\* A socket that goes was nobody's.
LEMMA VanishExact ==
    ASSUME ExactInv, NEW s \in Slots, Vanish(s)
    PROVE  Exact(disc, holders, alive)'
<1> DEFINE b == disc.batch \ {s}
           sock == IF disc.sock = s THEN 0 ELSE disc.sock
           moved == disc.shifted \/ Shifts(s)
           e == [disc EXCEPT !.batch = b, !.sock = sock, !.shifted = moved]
<1>1. /\ disc \in Calls /\ Exact(disc, holders, alive) /\ Slots \subseteq Nat \ {0}
      /\ 0 \notin Passed(disc)
  BY ExactFacts
<1>2. disc' = e /\ alive' = alive /\ holders' = holders /\ holders[s] = {}
  BY DEF Vanish
<1>3. /\ \A t : t \in b <=> t \in disc.batch /\ t # s
      /\ sock = 0 \/ (sock = disc.sock /\ sock # s)
      /\ sock # disc.sock => disc.sock = s
  OBVIOUS
<1> HIDE DEF b, sock, moved
<1>4. /\ e.at = disc.at /\ e.query = disc.query /\ e.pos = disc.pos /\ e.batch = b
      /\ e.sock = sock /\ e.pid = disc.pid /\ e.list = disc.list /\ e.code = disc.code
      /\ e.changes = disc.changes /\ e.missed = disc.missed
  BY <1>1 DEF Calls
<1> HIDE DEF e
<1>5. \A t : (t \in Passed(disc) => t \in Passed(e)) /\ (t # s => (t \in Passed(e) <=> t \in Passed(disc)))
  BY <1>3, <1>4 DEF Passed
<1>6. Settled(disc) \subseteq Settled(e)
  BY <1>1, <1>3, <1>4, <1>5 DEF Settled
<1>7. ASSUME NEW t \in Settled(e) \ Settled(disc)
      PROVE  holders[t] = {}
  <2>1. t = s
    BY <1>3, <1>4, <1>5, <1>7 DEF Settled
  <2> QED BY <1>2, <2>1
<1>8. Undisturbed(e) => Undisturbed(disc) /\ Walk(disc, holders, alive)
  BY <1>1, <1>4 DEF Undisturbed, Exact
<1>9. ASSUME Undisturbed(e)
      PROVE  Walk(e, holders, alive)
  <2>1. e.sock # 0 => e.sock \in Passed(e)
    BY <1>3, <1>4, <1>5, <1>8, <1>9 DEF Walk
  <2>2. e.at = "add" => e.sock = disc.sock
    BY <1>2, <1>3, <1>4, <1>8, <1>9 DEF Walk, FirstOf
  <2> QED BY <1>3, <1>4, <1>8, <1>9, <2>1, <2>2 DEF Walk
<1>10. Exact(e, holders, alive)
  BY <1>1, <1>4, <1>6, <1>7, <1>8, <1>9, SettledKept
<1> QED BY <1>2, <1>10

\* Any other change disturbs the call.
LEMMA DisturbedNextExact ==
    ASSUME ExactInv, NEW shift, Disturbed(shift)
    PROVE  Exact(disc, holders, alive)'
<1>1. disc \in Calls /\ disc.changes \in Nat
  BY ExactFacts
<1>2. CASE At("off") /\ UNCHANGED disc
  <2>1. disc'.at = "off"
    BY <1>2 DEF At
  <2> QED BY <2>1, DisturbedExact
<1>3. ASSUME NEW now, NEW moved,
             disc' = [disc EXCEPT !.changes = @ + 1, !.shifted = moved, !.seen = now]
      PROVE  Exact(disc, holders, alive)'
  <2>1. disc'.changes = disc.changes + 1
    BY <1>1, <1>3 DEF Calls
  <2>2. disc'.changes # 0
    BY <1>1, <2>1
  <2> QED BY <2>2, DisturbedExact
<1> QED BY <1>2, <1>3 DEF Disturbed

\* Every step keeps the invariant of an undisturbed call.
LEMMA ExactNextInv == ExactInv /\ [Next]_vars => ExactInv'
<1> SUFFICES ASSUME ExactInv, [Next]_vars PROVE ExactInv'
  OBVIOUS
<1>1. Inv'
  BY NextInv, ExactFacts
<1>2. Exact(disc, holders, alive)'
  <2>1. CASE get_network_processes
    BY <2>1, GetExact
  <2>2. CASE Step
    <3>1. CASE recvmsg_fails
      <4>1. Set(Failed("RECVMSG")) /\ "RECVMSG" # "OK"
        BY <3>1 DEF recvmsg_fails
      <4> QED BY <4>1, FailedExact, ExactNext
    <3> QED BY <2>2, <3>1, RecvExact, DoneExact, MessageExact, FindExact, AddExact DEF Step
  <2>3. CASE destroy_process_list
    <3>1. disc'.at = "off"
      BY <2>3, OffFacts DEF destroy_process_list, Set
    <3> QED BY <3>1, DisturbedExact
  <2>4. CASE Environment
    <3>1. CASE \E shift : Disturbed(shift)
      BY <3>1, DisturbedNextExact
    <3>2. CASE \E s \in Slots : Vanish(s)
      BY <3>2, VanishExact
    <3> QED BY <2>4, <3>1, <3>2 DEF Environment, OpenSocket, ShareSocket, CloseSocket, Exit, Spawn
  <2>5. CASE UNCHANGED vars
    BY <2>5, ExactFacts DEF vars, system
  <2> QED BY <2>1, <2>2, <2>3, <2>4, <2>5 DEF Next
<1> QED BY <1>1, <1>2 DEF ExactInv

-----------------------------------------------------------------------------
(***************************************************************************)
(* The list is exact.                                                      *)
(***************************************************************************)

\* At the end of an undisturbed call the list is what it should return.
LEMMA InvExact == ExactInv => ListExact
<1> SUFFICES ASSUME ExactInv, disc.at = "done", disc.code = "OK", disc.changes = 0,
                    ~disc.missed
             PROVE  /\ {disc.list[i] : i \in DOMAIN disc.list} = Reference
                    /\ Len(disc.list) = Cardinality(Reference)
  BY DEF ListExact, At
<1> DEFINE D == DOMAIN disc.list
           tcp(p) == \E s \in Owned(p) : Kind[s][2] = "TCP"
           udp(p) == \E s \in Owned(p) : Kind[s][2] = "UDP"
           ref(p) == [pid |-> p, num_connections |-> Cardinality(Owned(p)), has_tcp |-> tcp(p),
                      has_udp |-> udp(p), exe |-> TRUE]
<1>1. /\ disc \in Calls /\ D = 1 .. Len(disc.list) /\ Len(disc.list) \in Nat
      /\ \A i \in D : disc.list[i] \in Entries /\ disc.list[i].pid \in Pids
      /\ \A i, j \in D : disc.list[i].pid = disc.list[j].pid => i = j
  BY ExactFacts, CallTypes DEF Inv, CallInv, Sound
<1>2. Tally(disc.list, EligibleSlots, holders)
  BY ExactFacts DEF Exact, Undisturbed, Settled
<1>3. ASSUME NEW p
      PROVE  OwnedOf(p, EligibleSlots, holders) = Owned(p)
  <2>1. open \subseteq Slots /\ \A s \in Slots : holders[s] # {} => s \in open
    BY ExactFacts, WorldFacts
  <2> QED BY <2>1 DEF OwnedOf, FirstOf, Owned, EligibleSlots
<1>4. /\ \A p \in Pids : Owned(p) # {} => \E i \in D : disc.list[i].pid = p
      /\ \A i \in D : Matches(disc.list[i], Owned(disc.list[i].pid))
  BY <1>2, <1>3 DEF Tally
<1>5. Reference = {ref(p) : p \in {q \in Pids : Owned(q) # {}}}
  BY DEF Reference
<1>6. ASSUME NEW i \in D
      PROVE  disc.list[i] = ref(disc.list[i].pid) /\ Owned(disc.list[i].pid) # {}
  <2> DEFINE x == disc.list[i]
             p == x.pid
             n == Cardinality(Owned(p))
             t == tcp(p)
             u == udp(p)
  <2>1. /\ x \in Entries /\ Owned(p) # {} /\ x.num_connections = n /\ x.has_tcp = t
        /\ x.has_udp = u /\ x.exe = TRUE
    BY <1>1, <1>4, <1>6 DEF Matches
  <2> HIDE DEF x, n, t, u
  <2>2. x = [pid |-> p, num_connections |-> n, has_tcp |-> t, has_udp |-> u, exe |-> TRUE]
    BY <2>1 DEF Entries
  <2> QED BY <2>1, <2>2 DEF x, n, t, u
<1>7. ASSUME NEW p \in Pids, Owned(p) # {}
      PROVE  \E i \in D : ref(p) = disc.list[i]
  <2>1. PICK i \in D : disc.list[i].pid = p
    BY <1>4, <1>7
  <2> QED BY <1>6, <2>1
<1> HIDE DEF ref
<1>8. {disc.list[i] : i \in D} = Reference
  BY <1>1, <1>5, <1>6, <1>7
<1>9. Len(disc.list) = Cardinality(Reference)
  <2> DEFINE f == [i \in D |-> disc.list[i]]
  <2>1. \A r \in Reference : \E i \in D : f[i] = r
    BY <1>8
  <2>2. \A i \in D : f[i] \in Reference
    BY <1>8
  <2>3. \A i, j \in D : f[i] = f[j] => i = j
    BY <1>1
  <2>4. f \in [D -> Reference]
    BY <2>2
  <2> HIDE DEF f
  <2>5. f \in Bijection(D, Reference)
    BY <2>1, <2>3, <2>4 DEF Bijection, Injection, Surjection, IsInjective
  <2>6. ExistsBijection(1 .. Len(disc.list), Reference)
    BY <1>1, <2>5 DEF ExistsBijection
  <2> QED BY <1>1, <2>6, FS_CountingElements
<1> QED BY <1>8, <1>9

\* A call that succeeds, that nobody disturbed and that missed nothing lists
\* exactly the processes that are the first to have an eligible socket open,
\* each once, with the number and the protocols of the sockets that are its own.
THEOREM ListIsExact == Spec => []ListExact
<1>1. Init => ExactInv
  <2> SUFFICES ASSUME Init PROVE ExactInv
    OBVIOUS
  <2>1. Inv /\ disc.at = "off"
    BY InitInv, OffFacts DEF Init
  <2> QED BY <2>1, DisturbedExact DEF ExactInv
<1> QED BY <1>1, ExactNextInv, InvExact, PTL DEF Spec
=============================================================================
