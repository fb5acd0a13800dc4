----------------------------- MODULE Discovery -----------------------------
(***************************************************************************)
(* get_network_processes of lib/src/discovery.c: four dumps of the         *)
(* kernel's sockets over netlink, and for every socket a walk of /proc for *)
(* the process that has it open.  Nothing is atomic: sockets open, are     *)
(* shared and close, and processes exit, between the dump, the walk and    *)
(* the reading of the process's own files.                                 *)
(*                                                                         *)
(* The names and paths of processes are left out, but for whether they     *)
(* could still be read.                                                    *)
(***************************************************************************)
EXTENDS Naturals, FiniteSets, Sequences

CONSTANTS
    Pids,              \* process ids, in the order in which /proc lists them
    NumSlots,          \* places of sockets in the kernel's tables, in dump order
    Kind,              \* the query that reports the socket of a slot
    Uid,               \* and its owner's user id
    UID_MIN_DEFAULT,   \* the first user id that is not the system's
    InitialCapacity,   \* of a process list
    MaxChanges,        \* how often processes and sockets change during a call
    Faults             \* the calls that may fail

Slots == 1 .. NumSlots

\* The dumps, in the order of get_network_processes.
Queries == << <<"INET", "TCP">>, <<"INET6", "TCP">>, <<"INET", "UDP">>, <<"INET6", "UDP">> >>

\* A user id that is 0 is root's.
ASSUME DiscoveryAssumption ==
    /\ Pids \subseteq Nat \ {0}
    /\ NumSlots \in Nat
    /\ Kind \in [Slots -> {Queries[q] : q \in 1 .. 4}]
    /\ Uid \in [Slots -> Nat]
    /\ UID_MIN_DEFAULT \in Nat
    /\ InitialCapacity \in Nat \ {0}
    /\ MaxChanges \in Nat
    /\ Faults \subseteq {"SOCKET", "BIND", "ALLOC", "RECVMSG", "DUMP", "PROC", "REALLOC"}

VARIABLES
    alive,     \* the pids that name a running process
    open,      \* the slots that hold a socket
    holders,   \* the processes that have it open; none for one that lingers
    disc       \* the call in progress, and the list it has built

system == <<alive, open, holders>>
vars == <<system, disc>>

\* shifted: a socket came or went behind the place where the dump will resume.
\* History: what was seen of the processes, how often they changed during the
\* call, and whether the call missed a part of what it should have read.
Off == [at |-> "off", query |-> 1, pos |-> 1, shifted |-> FALSE, batch |-> {}, sock |-> 0,
        pid |-> 0, list |-> <<>>, capacity |-> 0, buffer |-> 0, code |-> "OK", seen |-> {},
        changes |-> 0, missed |-> FALSE]

Init ==
    /\ alive = Pids
    /\ holders \in [Slots -> SUBSET Pids]
    /\ open = {s \in Slots : holders[s] # {}}
    /\ disc = Off

MayFail(f) == f \in Faults
Least(S) == CHOOSE x \in S : \A y \in S : x <= y

\* The filter of query_sockets.
Eligible(s) == Uid[s] = 0 \/ Uid[s] >= UID_MIN_DEFAULT

\* Who has an eligible socket, of which protocol.
Holding(held) ==
    {held_by \in Pids \X {"TCP", "UDP"} :
        \E s \in Slots : Eligible(s) /\ held_by[1] \in held[s] /\ held_by[2] = Kind[s][2]}
-----------------------------------------------------------------------------
At(label) == disc.at = label
Set(d) == disc' = d /\ UNCHANGED system

\* The error paths of get_network_processes after the list was created.
Failed(code) == [Off EXCEPT !.at = "done", !.code = code, !.changes = disc.changes]

create_process_list == [Off EXCEPT !.capacity = InitialCapacity, !.buffer = InitialCapacity]

get_network_processes ==
    /\ At("off")
    /\ \/ Set([create_process_list EXCEPT !.at = "recv", !.seen = Holding(holders)])
       \/ \E code \in {"SOCKET", "BIND", "ALLOC"} : MayFail(code) /\ Set(Failed(code))

\* Where the kernel goes on with a dump.  It counts sockets: after a shift it
\* repeats or skips some, and how many is left open here.
Resume == IF disc.shifted THEN 1 .. NumSlots + 1 ELSE {disc.pos}

\* The kernel fills a buffer with the sockets that the next slots hold now,
\* up to one of them or to the end; an interrupted recvmsg is repeated.
recvmsg ==
    /\ At("recv") /\ disc.pos <= NumSlots
    /\ \E from \in Resume :
          LET reported == {s \in open : s >= from /\ Kind[s] = Queries[disc.query]}
          IN  \E last \in reported \cup {NumSlots} :
                 Set([disc EXCEPT !.at = "batch", !.pos = last + 1, !.shifted = FALSE,
                                  !.batch = {s \in reported : s <= last},
                                  !.missed = @ \/ from # disc.pos])

\* sendmsg, recvmsg or the kernel reports an error.
recvmsg_fails == At("recv") /\ MayFail("RECVMSG") /\ Set(Failed("RECVMSG"))

\* The next query, or the end of the call.
NextQuery(d) ==
    IF d.query < Len(Queries) THEN [d EXCEPT !.query = @ + 1, !.pos = 1, !.shifted = FALSE]
    ELSE [d EXCEPT !.at = "done", !.query = 1, !.pos = 1, !.shifted = FALSE]

\* NLMSG_DONE.  One that carries an error, and a recvmsg that returns nothing,
\* end the dump early, and the call goes on as if it were complete.
nlmsg_done ==
    /\ At("recv")
    /\ \/ disc.pos > NumSlots /\ Set(NextQuery(disc))
       \/ MayFail("DUMP") /\ Set(NextQuery([disc EXCEPT !.missed = TRUE]))

\* Mutant: a message that is skipped is not stepped over.
next_message_stuck ==
    LET s == Least(disc.batch)
    IN  /\ At("batch")
        /\ Set(IF disc.batch = {} THEN [disc EXCEPT !.at = "recv"]
               ELSE IF Eligible(s)
               THEN [disc EXCEPT !.at = "scan", !.sock = s, !.batch = @ \ {s}]
               ELSE disc)

\* The next message of the buffer.
next_message ==
    LET s == Least(disc.batch)
    IN  /\ At("batch")
        /\ Set(IF disc.batch = {} THEN [disc EXCEPT !.at = "recv"]
               ELSE IF Eligible(s)
               THEN [disc EXCEPT !.at = "scan", !.sock = s, !.batch = @ \ {s}]
               ELSE [disc EXCEPT !.batch = @ \ {s}])

\* The loop goes on; the locals of the walk are gone.
Continue(d) == [d EXCEPT !.at = "batch", !.sock = 0, !.pid = 0]

\* One directory of /proc: the first process found with the socket is its
\* owner.  A failure to open /proc reads as no owner; a process whose
\* descriptors cannot be listed is passed over.
find_pid_by_inode ==
    LET left == {p \in alive : p > disc.pid}
        p == Least(left)
    IN  /\ At("scan")
        /\ \/ Set(IF left = {} THEN Continue(disc)
                  ELSE IF disc.sock # 0 /\ p \in holders[disc.sock]
                  THEN [disc EXCEPT !.at = "add", !.pid = p]
                  ELSE [disc EXCEPT !.pid = p])
           \/ MayFail("PROC") /\ disc.pid = 0 /\ Set(Continue([disc EXCEPT !.missed = TRUE]))
           \/ /\ MayFail("PROC") /\ left # {} /\ disc.sock # 0 /\ p \in holders[disc.sock]
              /\ Set([disc EXCEPT !.pid = p, !.missed = TRUE])
-----------------------------------------------------------------------------
(***************************************************************************)
(* add_process_list.                                                       *)
(***************************************************************************)

Entry(tcp) == [pid |-> disc.pid, num_connections |-> 1, has_tcp |-> tcp, has_udp |-> ~tcp,
               exe |-> disc.pid \in alive]

\* Mutant: an entry keeps the protocol it was made with.
Another_first_protocol(entry, tcp) == [entry EXCEPT !.num_connections = @ + 1]

\* One more connection of an entry.
Another(entry, tcp) ==
    [entry EXCEPT !.num_connections = @ + 1, !.has_tcp = @ \/ tcp, !.has_udp = @ \/ ~tcp]

\* Mutant: one entry too many fits.
Full_off_by_one(count, d) == count > d.capacity

\* The capacity is doubled before the buffer is: a failed realloc ends the
\* call, so that the two never differ in a list that is used.
Full(count, d) == count >= d.capacity

add_process_list ==
    LET tcp == Queries[disc.query][2] = "TCP"
        listed == {i \in DOMAIN disc.list : disc.list[i].pid = disc.pid}
        grown == 2 * disc.capacity
        added == Continue([disc EXCEPT !.list = Append(@, Entry(tcp))])
    IN  /\ At("add")
        /\ \/ /\ listed # {}
              /\ Set(Continue([disc EXCEPT !.list[Least(listed)] = Another(@, tcp)]))
           \/ listed = {} /\ ~Full(Len(disc.list), disc) /\ Set(added)
           \/ /\ listed = {} /\ Full(Len(disc.list), disc)
              /\ Set([added EXCEPT !.capacity = grown, !.buffer = grown])
           \/ /\ listed = {} /\ Full(Len(disc.list), disc) /\ MayFail("REALLOC")
              /\ Set(Failed("RECVMSG"))

\* The caller is done with the list.
destroy_process_list == At("done") /\ Set(Off)
-----------------------------------------------------------------------------
(***************************************************************************)
(* The processes and their sockets.                                        *)
(***************************************************************************)

\* A socket that comes or goes in slot s moves those after it.
Shifts(s) == s < disc.pos /\ Kind[s] = Queries[disc.query]

\* The call is disturbed, its dump shifted or not, and in progress may see the
\* change.  MaxChanges is a bound of the model.
Disturbed(shift) ==
    \/ At("off") /\ UNCHANGED disc
    \/ /\ ~At("off") /\ disc.changes < MaxChanges
       /\ disc' = [disc EXCEPT !.changes = @ + 1, !.shifted = @ \/ shift,
                               !.seen = IF At("done") THEN @ ELSE @ \cup Holding(holders')]

OpenSocket(p, s) ==
    /\ p \in alive /\ s \notin open
    /\ open' = open \cup {s}
    /\ holders' = [holders EXCEPT ![s] = {p}]
    /\ Disturbed(Shifts(s))
    /\ UNCHANGED alive

\* A fork, or a descriptor passed on.
ShareSocket(p, s) ==
    /\ p \in alive /\ holders[s] # {} /\ p \notin holders[s]
    /\ holders' = [holders EXCEPT ![s] = @ \cup {p}]
    /\ Disturbed(FALSE)
    /\ UNCHANGED <<alive, open>>

CloseSocket(p, s) ==
    /\ p \in holders[s]
    /\ holders' = [holders EXCEPT ![s] = @ \ {p}]
    /\ Disturbed(FALSE)
    /\ UNCHANGED <<alive, open>>

\* A socket that nobody holds lingers before it goes.  A later one in its
\* slot has another inode: a message about the old one finds no owner.
Vanish(s) ==
    /\ s \in open /\ holders[s] = {}
    /\ open' = open \ {s}
    /\ disc' = [disc EXCEPT !.batch = @ \ {s}, !.sock = IF @ = s THEN 0 ELSE @,
                            !.shifted = @ \/ Shifts(s)]
    /\ UNCHANGED <<alive, holders>>

Exit(p) ==
    /\ p \in alive
    /\ alive' = alive \ {p}
    /\ holders' = [s \in Slots |-> holders[s] \ {p}]
    /\ Disturbed(FALSE)
    /\ UNCHANGED open

\* A new process is given the pid.
Spawn(p) ==
    /\ p \notin alive
    /\ alive' = alive \cup {p}
    /\ UNCHANGED <<open, holders>>
    /\ Disturbed(FALSE)
-----------------------------------------------------------------------------
Step ==
    \/ recvmsg \/ recvmsg_fails \/ nlmsg_done \/ next_message \/ find_pid_by_inode
    \/ add_process_list

Environment ==
    \/ \E s \in Slots : Vanish(s)
    \/ \E p \in Pids, s \in Slots : OpenSocket(p, s) \/ ShareSocket(p, s) \/ CloseSocket(p, s)
    \/ \E p \in Pids : Exit(p) \/ Spawn(p)

Next == get_network_processes \/ Step \/ destroy_process_list \/ Environment

Spec == Init /\ [][Next]_vars
-----------------------------------------------------------------------------
(***************************************************************************)
(* Properties.                                                             *)
(***************************************************************************)

Labels == {"off", "recv", "batch", "scan", "add", "done"}

TypeOK ==
    /\ alive \subseteq Pids /\ open \subseteq Slots
    /\ holders \in [Slots -> SUBSET alive]
    /\ \A s \in Slots : holders[s] # {} => s \in open
    /\ disc.at \in Labels
    /\ disc.query \in 1 .. 4 /\ disc.pos \in Nat /\ disc.batch \subseteq open
    /\ disc.sock \in open \cup {0} /\ disc.pid \in Pids \cup {0}
    /\ disc.capacity \in Nat /\ disc.buffer \in Nat

\* Whatever the processes do during the call, the list stays within its
\* buffer, names a pid once, and names only processes that had an eligible
\* socket of each protocol shown at some time during the call.
ListSound ==
    /\ Len(disc.list) <= disc.buffer
    /\ \A i, j \in DOMAIN disc.list : disc.list[i].pid = disc.list[j].pid => i = j
    /\ \A i \in DOMAIN disc.list :
          LET entry == disc.list[i]
          IN  /\ entry.has_tcp \/ entry.has_udp
              /\ entry.has_tcp => <<entry.pid, "TCP">> \in disc.seen
              /\ entry.has_udp => <<entry.pid, "UDP">> \in disc.seen

\* What an undisturbed call should return: each eligible socket belongs to
\* the first of the processes that have it open.
Owned(p) == {s \in open : Eligible(s) /\ holders[s] # {} /\ p = Least(holders[s])}
Reference ==
    {[pid |-> p, num_connections |-> Cardinality(Owned(p)),
      has_tcp |-> \E s \in Owned(p) : Kind[s][2] = "TCP",
      has_udp |-> \E s \in Owned(p) : Kind[s][2] = "UDP",
      exe |-> TRUE] : p \in {q \in Pids : Owned(q) # {}}}

\* A call that succeeds, that nobody disturbed and that missed nothing returns
\* exactly that: every dump is read to its end, across buffers, and every socket
\* is counted once, for its owner and its protocol.  What it may miss without an
\* error: /proc or a process's descriptors that cannot be listed, a dump that
\* ends early or that resumes in another place.
ListExact ==
    At("done") /\ disc.code = "OK" /\ disc.changes = 0 /\ ~disc.missed =>
        /\ {disc.list[i] : i \in DOMAIN disc.list} = Reference
        /\ Len(disc.list) = Cardinality(Reference)
=============================================================================
