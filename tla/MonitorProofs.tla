--------------------------- MODULE MonitorProofs ---------------------------
(***************************************************************************)
(* Proofs about Monitor, for any number of clients, daemons, processes,    *)
(* slots and places in the backlog, with and without timeouts and kills:   *)
(* its types, with the bound of the watch table, and that a command which  *)
(* nothing disturbs does what it should, whatever came before it.          *)
(***************************************************************************)
EXTENDS Monitor, FiniteSetTheorems, SequenceTheorems, TLAPS

-----------------------------------------------------------------------------
(***************************************************************************)
(* The inductive invariant.                                                *)
(***************************************************************************)

Commands == {"WATCH", "UNWATCH", "STOP"}
Results == {"none", "OK", "CONNECT", "TIMEOUT", "SLOTS", "PIDFD", "NOT_FOUND"}
Connections == [from : Clients \cup {"none"}, cmd : Commands \cup {"none"},
                pid : Pids \cup {"none"}, sent : BOOLEAN, open : BOOLEAN]
DaemonRecords == [at : DaemonLabels, watched : SUBSET Pids, polled : SUBSET Pids,
                  running : BOOLEAN, fresh : BOOLEAN, backlog : Seq(Connections),
                  conn : Connections]
ClientRecords == [at : ClientLabels, cmd : Commands \cup {"none"}, pid : Pids \cup {"none"},
                  peer : Daemons \cup {NoDaemon}, result : Results, calm : BOOLEAN]

\* A table never holds more pids than it has slots.
Table(watched) == IsFiniteSet(watched) /\ Cardinality(watched) <= MAX_WATCHED_PIDS

Types ==
    /\ alive \subseteq Pids /\ limited \subseteq Pids
    /\ sock \in Daemons \cup {NoDaemon}
    /\ daemon \in [Daemons -> DaemonRecords]
    /\ client \in [Clients -> ClientRecords]
    /\ \A d \in Daemons : Table(daemon[d].watched)

\* A daemon that was told to stop is on its way out, one that is gone has left
\* nothing behind, and one that accepts has a connection to accept.
DaemonInv ==
    \A d \in Daemons :
        /\ ~daemon[d].running => daemon[d].at \in {"deaths", "close"}
        /\ DaemonAt(d, "off") => daemon[d] = Off
        /\ DaemonAt(d, "accept") => daemon[d].backlog # <<>>

\* The connection of a calm command, and where it is.
Link(c, sent) == [from |-> c, cmd |-> client[c].cmd, pid |-> client[c].pid,
                  sent |-> sent, open |-> TRUE]
Carries(d, link) ==
    /\ daemon[d].running
    /\ ~DaemonAt(d, "poll") => daemon[d].polled = {}
    /\ \/ daemon[d].at \in {"poll", "accept"} /\ daemon[d].backlog = <<link>>
       \/ daemon[d].at \in {"read", "serve"} /\ daemon[d].backlog = <<>> /\ daemon[d].conn = link

\* The daemon that a calm command has forked.
Starting(d) ==
    /\ daemon[d].at \in {"unlink", "bind", "listen", "notify"}
    /\ daemon[d].watched = {} /\ daemon[d].backlog = <<>> /\ daemon[d].running
    /\ DaemonAt(d, "bind") => sock = NoDaemon
    /\ daemon[d].at \in {"listen", "notify"} => sock = d

\* A daemon that has served a calm command.
Settling(d) ==
    \/ AtRest(d)
    \/ /\ daemon[d].at \in {"deaths", "close", "unlink_at_exit"} /\ daemon[d].backlog = <<>>
       /\ daemon[d].polled = {}

\* What a calm command leaves behind.
Outcome(c) ==
    /\ client[c].cmd = "WATCH" =>
          \/ /\ client[c].result = "OK" /\ sock \in Daemons
             /\ client[c].pid \in daemon[sock].watched
             /\ daemon[sock].at \in {"deaths", "poll"} /\ daemon[sock].running
          \/ client[c].result = "SLOTS"
    /\ client[c].cmd = "UNWATCH" =>
          /\ client[c].result \in {"OK", "NOT_FOUND"}
          /\ sock \in Daemons => client[c].pid \notin daemon[sock].watched
    /\ client[c].cmd = "STOP" => client[c].result = "OK"

AllAtRest == \A d \in Daemons : AtRest(d)
OthersAtRest(d) == \A x \in Daemons \ {d} : AtRest(x)

\* A calm command, phase by phase.
Quiet(c) ==
    /\ \A x \in Clients \ {c} : ClientAt(x, "idle")
    /\ \A d \in Daemons : daemon[d].watched \subseteq alive
    /\ client[c].cmd \in Commands
    /\ client[c].cmd = "WATCH" => client[c].pid \in alive
Phase(c) ==
    LET at == client[c].at
        d == client[c].peer
    IN  /\ at # "idle"
        /\ at \in {"connect", "fork"} => AllAtRest /\ \E x \in Daemons : DaemonAt(x, "off")
        /\ at \in {"fork", "wait_daemon", "reconnect"} => client[c].cmd # "STOP"
        /\ at = "wait_daemon" => d \in Daemons /\ OthersAtRest(d) /\ Starting(d)
        /\ at = "reconnect" => AllAtRest /\ sock \in Daemons /\ DaemonAt(sock, "poll")
        /\ at = "write" =>
              /\ d \in Daemons /\ sock = d /\ OthersAtRest(d)
              /\ Carries(d, Link(c, FALSE)) /\ ~DaemonAt(d, "serve")
        /\ at = "read" /\ client[c].result = "none" =>
              d \in Daemons /\ sock = d /\ OthersAtRest(d) /\ Carries(d, Link(c, TRUE))
        /\ at \in {"connect", "fork", "wait_daemon", "reconnect", "write"} =>
              client[c].result = "none"
        /\ at = "finish" \/ (at = "read" /\ client[c].result # "none") =>
              /\ OthersAtRest(sock) /\ (sock \in Daemons => Settling(sock))
              /\ Outcome(c)

Calm == \A c \in Clients : client[c].calm => Quiet(c) /\ Phase(c)

Inv == Types /\ DaemonInv /\ Calm
-----------------------------------------------------------------------------
(***************************************************************************)
(* Facts about records, connections and tables.                            *)
(***************************************************************************)

\* The records to begin with.
LEMMA FirstRecords ==
    /\ NoConnection \in Connections /\ Off \in DaemonRecords /\ Idle \in ClientRecords
    /\ Off.at = "off" /\ Off.watched = {} /\ Off.backlog = <<>> /\ Off.running
    /\ Idle.at = "idle" /\ ~Idle.calm
<1>1. NoConnection \in Connections
  BY DEF NoConnection, Connections
<1>2. <<>> \in Seq(Connections)
  BY EmptySeq
<1> QED BY <1>1, <1>2 DEF Off, DaemonRecords, DaemonLabels, Idle, ClientRecords, ClientLabels, Results

\* The empty table, and a table with one pid more or with fewer.
LEMMA TableFacts ==
    /\ Table({})
    /\ \A S : Table(S) => \A T \in SUBSET S : Table(T)
    /\ \A S : Table(S) /\ Cardinality(S) < MAX_WATCHED_PIDS => \A p : Table(S \cup {p})
<1>1. Table({})
  BY FS_EmptySet, MonitorAssumption DEF Table
<1>2. ASSUME NEW S, Table(S), NEW T \in SUBSET S
      PROVE  Table(T)
  <2>1. IsFiniteSet(T) /\ Cardinality(T) <= Cardinality(S)
    BY <1>2, FS_Subset DEF Table
  <2>2. Cardinality(T) \in Nat /\ Cardinality(S) \in Nat
    BY <1>2, <2>1, FS_CardinalityType DEF Table
  <2> QED BY <1>2, <2>1, <2>2, MonitorAssumption DEF Table
<1>3. ASSUME NEW S, Table(S), Cardinality(S) < MAX_WATCHED_PIDS, NEW p
      PROVE  Table(S \cup {p})
  <2>1. IsFiniteSet(S \cup {p}) /\ Cardinality(S) \in Nat
        /\ (Cardinality(S \cup {p}) = Cardinality(S) \/ Cardinality(S \cup {p}) = Cardinality(S) + 1)
    BY <1>3, FS_AddElement, FS_CardinalityType DEF Table
  <2> QED BY <1>3, <2>1, MonitorAssumption DEF Table
<1> QED BY <1>1, <1>2, <1>3

\* The first connection of a backlog, and the rest of it.
LEMMA BacklogFacts ==
    ASSUME NEW S, NEW s \in Seq(S), s # <<>>
    PROVE  Head(s) \in S /\ Tail(s) \in Seq(S)
BY HeadTailProperties

\* A backlog with one connection.
LEMMA BacklogOne ==
    ASSUME NEW S, NEW x \in S
    PROVE  /\ <<x>> \in Seq(S) /\ Append(<<>>, x) = <<x>> /\ Head(<<x>>) = x /\ Tail(<<x>>) = <<>>
           /\ <<x>> # <<>> /\ 1 \in DOMAIN <<x>> /\ <<x>>[1] = x
OBVIOUS

\* One connection more.
LEMMA BacklogMore ==
    ASSUME NEW S, NEW s \in Seq(S), NEW x \in S
    PROVE  Append(s, x) \in Seq(S)
BY AppendProperties

\* The initial state.
LEMMA InitInv == Init => Inv
<1> SUFFICES ASSUME Init PROVE Inv
  OBVIOUS
<1>1. Types
  <2>1. daemon \in [Daemons -> DaemonRecords] /\ client \in [Clients -> ClientRecords]
    BY FirstRecords DEF Init
  <2>2. \A d \in Daemons : daemon[d].watched = {}
    BY FirstRecords DEF Init
  <2> QED BY <2>1, <2>2, TableFacts DEF Init, Types
<1>2. DaemonInv
  BY FirstRecords DEF Init, DaemonInv, DaemonAt
<1>3. Calm
  BY FirstRecords DEF Init, Calm
<1> QED BY <1>1, <1>2, <1>3 DEF Inv

\* Other daemons stay at rest.
LEMMA RestKept ==
    ASSUME NEW d, OthersAtRest(d), alive' = alive,
           \A x \in Daemons \ {d} : daemon'[x] = daemon[x]
    PROVE  OthersAtRest(d)'
BY DEF OthersAtRest, AtRest, DaemonAt
-----------------------------------------------------------------------------
(***************************************************************************)
(* The daemons.  Each lemma tells where the step leaves the daemon, and    *)
(* that the other daemons stay as they are.                                *)
(***************************************************************************)

\* A step of daemon d that leaves its record as r.
Moves(d, r) ==
    /\ daemon' \in [Daemons -> DaemonRecords] /\ daemon'[d] = r
    /\ \A x \in Daemons \ {d} : daemon'[x] = daemon[x]

\* A daemon's record is replaced.
LEMMA SetDaemon ==
    ASSUME Types, NEW d \in Daemons, NEW r \in DaemonRecords, daemon' = [daemon EXCEPT ![d] = r]
    PROVE  Moves(d, r)
BY DEF Types, Moves

\* The types after a step of a daemon.
LEMMA MovesTypes ==
    ASSUME Types, NEW d \in Daemons, NEW r \in DaemonRecords, Moves(d, r), Table(r.watched),
           alive' \subseteq Pids, limited' \subseteq Pids, sock' \in Daemons \cup {NoDaemon},
           client' \in [Clients -> ClientRecords]
    PROVE  Types'
BY DEF Types, Moves

\* Daemons that moved alike keep DaemonInv.
LEMMA MovesInv ==
    ASSUME Types, DaemonInv, NEW d \in Daemons, NEW r, Moves(d, r),
           ~r.running => r.at \in {"deaths", "close"}, r.at = "off" => r = Off,
           r.at = "accept" => r.backlog # <<>>
    PROVE  DaemonInv'
BY DEF DaemonInv, Moves, DaemonAt

\* A step that only takes a daemon to another label.
LEMMA GotoDaemonMoves ==
    ASSUME Types, NEW d \in Daemons, NEW label \in DaemonLabels, GotoDaemon(d, label)
    PROVE  \E r \in DaemonRecords :
              /\ Moves(d, r) /\ r.at = label /\ r.watched = daemon[d].watched
              /\ r.polled = daemon[d].polled /\ r.running = daemon[d].running
              /\ r.backlog = daemon[d].backlog /\ r.conn = daemon[d].conn
<1> DEFINE r == [daemon[d] EXCEPT !.at = label]
<1>1. daemon[d] \in DaemonRecords
  BY DEF Types
<1>2. r \in DaemonRecords /\ r.at = label /\ r.watched = daemon[d].watched
      /\ r.polled = daemon[d].polled /\ r.running = daemon[d].running
      /\ r.backlog = daemon[d].backlog /\ r.conn = daemon[d].conn
  BY <1>1 DEF DaemonRecords
<1>3. daemon' = [daemon EXCEPT ![d] = r]
  BY DEF GotoDaemon
<1> HIDE DEF r
<1>4. Moves(d, r)
  BY <1>2, <1>3, SetDaemon
<1> QED BY <1>2, <1>4

\* A daemon that is not at rest during a calm command is the one that the
\* command is about, and the command's phase tells where it is.
LEMMA CalmMover ==
    ASSUME Inv, NEW c \in Clients, client[c].calm, NEW d \in Daemons, ~AtRest(d)
    PROVE  /\ OthersAtRest(d)
           /\ \/ /\ ClientAt(c, "wait_daemon") /\ client[c].peer = d /\ Starting(d)
                 /\ client[c].cmd # "STOP" /\ client[c].result = "none"
              \/ /\ ClientAt(c, "write") /\ client[c].peer = d /\ sock = d
                 /\ Carries(d, Link(c, FALSE)) /\ ~DaemonAt(d, "serve") /\ client[c].result = "none"
              \/ /\ ClientAt(c, "read") /\ client[c].result = "none" /\ client[c].peer = d
                 /\ sock = d /\ Carries(d, Link(c, TRUE))
              \/ /\ ClientAt(c, "finish") \/ (ClientAt(c, "read") /\ client[c].result # "none")
                 /\ sock = d /\ Settling(d) /\ Outcome(c)
<1>1. Phase(c)
  BY DEF Inv, Calm
<1>2. client[c].at \in ClientLabels
  BY DEF Inv, Types, ClientRecords
<1>3. ~AllAtRest /\ \A x : OthersAtRest(x) => x = d
  BY DEF AllAtRest, OthersAtRest
<1>4. CASE client[c].at \in {"idle", "connect", "fork", "reconnect"}
  BY <1>1, <1>3, <1>4 DEF Phase
<1>5. CASE ClientAt(c, "wait_daemon")
  BY <1>1, <1>3, <1>5 DEF Phase, ClientAt
<1>6. CASE ClientAt(c, "write")
  BY <1>1, <1>3, <1>6 DEF Phase, ClientAt
<1>7. CASE ClientAt(c, "read") /\ client[c].result = "none"
  BY <1>1, <1>3, <1>7 DEF Phase, ClientAt
<1>8. CASE ClientAt(c, "finish") \/ (ClientAt(c, "read") /\ client[c].result # "none")
  BY <1>1, <1>3, <1>8 DEF Phase, ClientAt
<1> QED BY <1>2, <1>4, <1>5, <1>6, <1>7, <1>8 DEF ClientLabels, ClientAt

\* A command that is not about a daemon's step is as calm after it.
LEMMA QuietKept ==
    ASSUME NEW c \in Clients, Quiet(c), NEW d \in Daemons, NEW r, Moves(d, r), r.watched \subseteq alive,
           alive' = alive, client'[c].cmd = client[c].cmd, client'[c].pid = client[c].pid,
           \A x \in Clients \ {c} : ClientAt(x, "idle") => ClientAt(x, "idle")'
    PROVE  Quiet(c)'
BY DEF Quiet, Moves

\* A daemon on its way up, during a calm command.
LEMMA CalmStarting ==
    ASSUME Inv, NEW c \in Clients, client[c].calm, NEW d \in Daemons,
           daemon[d].at \in {"unlink", "bind", "listen", "notify"}
    PROVE  /\ OthersAtRest(d) /\ Quiet(c)
           /\ ClientAt(c, "wait_daemon") /\ client[c].peer = d /\ Starting(d)
           /\ client[c].cmd # "STOP" /\ client[c].result = "none"
<1>1. ~AtRest(d)
  BY DEF AtRest, DaemonAt
<1>2. ~Carries(d, Link(c, FALSE)) /\ ~Carries(d, Link(c, TRUE)) /\ ~Settling(d)
  BY <1>1 DEF Carries, Settling
<1> QED BY <1>1, <1>2, CalmMover DEF Inv, Calm

\* A daemon on its way up makes progress.
LEMMA StartingNext ==
    ASSUME Inv, NEW d \in Daemons, NEW r \in DaemonRecords, Moves(d, r),
           daemon[d].at \in {"unlink", "bind", "listen"}, r.at \in {"bind", "listen", "notify"},
           r.watched = daemon[d].watched, r.running = daemon[d].running,
           r.backlog = daemon[d].backlog,
           daemon[d].at = "unlink" => r.at = "bind", daemon[d].at = "bind" => r.at = "listen",
           r.at = "bind" => sock' = NoDaemon,
           r.at \in {"listen", "notify"} => sock' = d \/ sock' = sock,
           r.at = "listen" => sock' = d,
           sock' \in Daemons \cup {NoDaemon},
           UNCHANGED <<alive, limited, client>>
    PROVE  Inv'
<1>1. Types'
  BY MovesTypes DEF Inv, Types
<1>2. DaemonInv'
  <2>1. daemon[d].running
    BY DEF Inv, DaemonInv
  <2> QED BY <2>1, MovesInv DEF Inv
<1>3. Calm'
  <2> SUFFICES ASSUME NEW c \in Clients, client[c].calm
               PROVE  Quiet(c)' /\ Phase(c)'
    BY DEF Calm
  <2>1. OthersAtRest(d) /\ Quiet(c) /\ ClientAt(c, "wait_daemon") /\ client[c].peer = d
        /\ Starting(d) /\ client[c].cmd # "STOP" /\ client[c].result = "none"
    BY CalmStarting
  <2>2. OthersAtRest(d)'
    BY <2>1, RestKept DEF Moves
  <2>3. Starting(d)'
    BY <2>1 DEF Starting, Moves, DaemonAt
  <2>4. Quiet(c)'
    BY <2>1, QuietKept DEF Starting, ClientAt
  <2>5. Phase(c)'
    BY <2>1, <2>2, <2>3 DEF Phase, ClientAt
  <2> QED BY <2>4, <2>5
<1> QED BY <1>1, <1>2, <1>3 DEF Inv

\* unlink_path.
LEMMA UnlinkNext == ASSUME Inv, NEW d \in Daemons, unlink_path(d) PROVE Inv'
<1>1. Types /\ daemon[d].at = "unlink" /\ sock' = NoDaemon /\ UNCHANGED <<alive, limited, client>>
  BY DEF Inv, unlink_path, DaemonAt
<1>2. PICK r \in DaemonRecords :
         /\ Moves(d, r) /\ r.at = "bind" /\ r.watched = daemon[d].watched
         /\ r.running = daemon[d].running /\ r.backlog = daemon[d].backlog
  <2>1. "bind" \in DaemonLabels /\ GotoDaemon(d, "bind")
    BY DEF unlink_path, DaemonLabels
  <2> QED BY <1>1, <2>1, GotoDaemonMoves
<1> QED BY <1>1, <1>2, StartingNext

\* listen_socket.
LEMMA ListenNext == ASSUME Inv, NEW d \in Daemons, listen_socket(d) PROVE Inv'
<1>1. Types /\ daemon[d].at = "listen" /\ sock' = sock /\ UNCHANGED <<alive, limited, client>>
      /\ sock \in Daemons \cup {NoDaemon}
  BY DEF Inv, Types, listen_socket, DaemonAt
<1>2. PICK r \in DaemonRecords :
         /\ Moves(d, r) /\ r.at = "notify" /\ r.watched = daemon[d].watched
         /\ r.running = daemon[d].running /\ r.backlog = daemon[d].backlog
  <2>1. "notify" \in DaemonLabels /\ GotoDaemon(d, "notify")
    BY DEF listen_socket, DaemonLabels
  <2> QED BY <1>1, <2>1, GotoDaemonMoves
<1> QED BY <1>1, <1>2, StartingNext

\* The client that waits for a daemon goes on; nobody else notices.
LEMMA WakeParentFacts ==
    ASSUME Types, NEW d \in Daemons, client' = WakeParent(d)
    PROVE  /\ client' \in [Clients -> ClientRecords]
           /\ \A c \in Clients :
                 /\ client'[c].cmd = client[c].cmd /\ client'[c].pid = client[c].pid
                 /\ client'[c].calm = client[c].calm /\ client'[c].result = client[c].result
                 /\ ClientAt(c, "idle") => ClientAt(c, "idle")'
                 /\ ClientAt(c, "wait_daemon") /\ client[c].peer = d => ClientAt(c, "reconnect")'
<1>1. ASSUME NEW c \in Clients
      PROVE  /\ client'[c] \in ClientRecords
             /\ client'[c].cmd = client[c].cmd /\ client'[c].pid = client[c].pid
             /\ client'[c].calm = client[c].calm /\ client'[c].result = client[c].result
             /\ client[c].at = "idle" => client'[c].at = "idle"
             /\ client[c].at = "wait_daemon" /\ client[c].peer = d => client'[c].at = "reconnect"
  <2>1. client[c] \in ClientRecords
    BY DEF Types
  <2>2. CASE ClientAt(c, "wait_daemon") /\ client[c].peer = d
    <3> DEFINE k == [client[c] EXCEPT !.at = "reconnect", !.peer = NoDaemon]
    <3>1. client'[c] = k
      BY <2>2 DEF WakeParent
    <3>2. k \in ClientRecords /\ k.cmd = client[c].cmd /\ k.pid = client[c].pid
          /\ k.calm = client[c].calm /\ k.result = client[c].result /\ k.at = "reconnect"
      BY <2>1 DEF ClientRecords, ClientLabels
    <3> QED BY <2>2, <3>1, <3>2 DEF ClientAt
  <2>3. CASE ~(ClientAt(c, "wait_daemon") /\ client[c].peer = d)
    <3>1. client'[c] = client[c]
      BY <2>3 DEF WakeParent
    <3> QED BY <2>1, <2>3, <3>1 DEF ClientAt
  <2> QED BY <2>2, <2>3
<1>2. client' = [c \in Clients |-> client'[c]]
  BY DEF WakeParent
<1> QED BY <1>1, <1>2 DEF ClientAt

\* A daemon that gives up before it serves anyone.
LEMMA DaemonGivesUp ==
    ASSUME Inv, NEW d \in Daemons, daemon' = [daemon EXCEPT ![d] = Off], client' = WakeParent(d),
           \A c \in Clients : ~client[c].calm,
           UNCHANGED <<alive, limited, sock>>
    PROVE  Inv'
<1>1. Types /\ Moves(d, Off)
  BY SetDaemon, FirstRecords DEF Inv
<1>2. client' \in [Clients -> ClientRecords] /\ \A c \in Clients : client'[c].calm = client[c].calm
  BY <1>1, WakeParentFacts
<1>3. Types'
  BY <1>1, <1>2, MovesTypes, FirstRecords, TableFacts DEF Types
<1>4. DaemonInv'
  BY <1>1, MovesInv, FirstRecords DEF Inv
<1>5. Calm'
  BY <1>2 DEF Calm
<1> QED BY <1>3, <1>4, <1>5 DEF Inv

\* bind_path.
LEMMA BindNext == ASSUME Inv, NEW d \in Daemons, bind_path(d) PROVE Inv'
<1>1. Types /\ daemon[d].at = "bind" /\ UNCHANGED <<alive, limited>>
  BY DEF Inv, bind_path, DaemonAt
<1>2. CASE sock = NoDaemon /\ sock' = d /\ GotoDaemon(d, "listen") /\ UNCHANGED client
  <2>1. "listen" \in DaemonLabels
    BY DEF DaemonLabels
  <2>2. PICK r \in DaemonRecords :
           /\ Moves(d, r) /\ r.at = "listen" /\ r.watched = daemon[d].watched
           /\ r.running = daemon[d].running /\ r.backlog = daemon[d].backlog
    BY <1>1, <1>2, <2>1, GotoDaemonMoves
  <2> QED BY <1>1, <1>2, <2>2, StartingNext
<1>3. CASE sock # NoDaemon /\ daemon' = [daemon EXCEPT ![d] = Off] /\ client' = WakeParent(d)
           /\ UNCHANGED sock
  <2>1. ASSUME NEW c \in Clients, client[c].calm
        PROVE  FALSE
    BY <1>1, <1>3, <2>1, CalmStarting DEF Starting, DaemonAt
  <2> QED BY <1>1, <1>3, <2>1, DaemonGivesUp
<1> QED BY <1>2, <1>3 DEF bind_path

\* notify_parent.
LEMMA NotifyNext == ASSUME Inv, NEW d \in Daemons, notify_parent(d) PROVE Inv'
<1> DEFINE waiting == \E c \in Clients : ClientAt(c, "wait_daemon") /\ client[c].peer = d
<1>1. Types /\ daemon[d].at = "notify" /\ UNCHANGED <<alive, limited, sock>>
      /\ client' = WakeParent(d) /\ sock \in Daemons \cup {NoDaemon}
  BY DEF Inv, Types, notify_parent, DaemonAt
<1>2. \A c \in Clients : client[c].calm => waiting
  BY <1>1, CalmStarting
<1>3. IF waiting THEN GotoDaemon(d, "poll") ELSE daemon' = [daemon EXCEPT ![d] = Off]
  BY DEF notify_parent
<1>4. CASE ~waiting
  BY <1>1, <1>2, <1>3, <1>4, DaemonGivesUp
<1>5. CASE waiting
  <2>1. GotoDaemon(d, "poll") /\ "poll" \in DaemonLabels
    BY <1>3, <1>5 DEF DaemonLabels
  <2>2. PICK r \in DaemonRecords :
           /\ Moves(d, r) /\ r.at = "poll" /\ r.watched = daemon[d].watched
           /\ r.running = daemon[d].running /\ r.backlog = daemon[d].backlog
    BY <1>1, <2>1, GotoDaemonMoves
  <2>3. Table(r.watched) /\ daemon[d].running /\ alive \subseteq Pids /\ limited \subseteq Pids
    BY <1>1, <2>2 DEF Inv, Types, DaemonInv
  <2>4. client' \in [Clients -> ClientRecords]
    BY <1>1, WakeParentFacts
  <2>5. Types'
    BY <1>1, <2>2, <2>3, <2>4, MovesTypes
  <2>6. DaemonInv'
    BY <1>1, <2>2, <2>3, MovesInv DEF Inv
  <2>7. ASSUME NEW c \in Clients, client'[c].calm
        PROVE  Quiet(c)' /\ Phase(c)'
    <3>1. client[c].calm /\ client'[c].cmd = client[c].cmd /\ client'[c].pid = client[c].pid
          /\ client'[c].result = client[c].result
          /\ \A x \in Clients : ClientAt(x, "idle") => ClientAt(x, "idle")'
      BY <1>1, <2>7, WakeParentFacts
    <3>2. OthersAtRest(d) /\ Quiet(c) /\ ClientAt(c, "wait_daemon") /\ client[c].peer = d
          /\ Starting(d) /\ client[c].cmd # "STOP" /\ client[c].result = "none"
      BY <1>1, <3>1, CalmStarting
    <3>3. ClientAt(c, "reconnect")'
      BY <1>1, <3>2, WakeParentFacts
    <3>4. OthersAtRest(d)'
      BY <1>1, <2>2, <3>2, RestKept DEF Moves
    <3>5. sock' = d /\ AtRest(d)' /\ DaemonAt(d, "poll")'
      BY <1>1, <2>2, <3>2 DEF Starting, AtRest, DaemonAt, Moves
    <3>6. Quiet(c)'
      BY <1>1, <2>2, <3>1, <3>2, QuietKept DEF Starting
    <3>7. AllAtRest'
      BY <3>4, <3>5 DEF AllAtRest, OthersAtRest
    <3>8. Phase(c)'
      BY <3>1, <3>2, <3>3, <3>5, <3>7 DEF Phase, ClientAt
    <3> QED BY <3>6, <3>8
  <2> QED BY <2>5, <2>6, <2>7 DEF Inv, Calm
<1> QED BY <1>4, <1>5

\* The phase of a command whose connection a daemon has.
Connected(c, d, s) ==
    /\ OthersAtRest(d) /\ Quiet(c) /\ sock = d /\ client[c].peer = d
    /\ Carries(d, Link(c, s)) /\ client[c].result = "none"
    /\ client[c].at = IF s THEN "read" ELSE "write"
    /\ DaemonAt(d, "serve") => s

\* A daemon with a connection, during a calm command.
LEMMA CalmCarrying ==
    ASSUME Inv, NEW c \in Clients, client[c].calm, NEW d \in Daemons,
           daemon[d].at \in {"poll", "accept", "read", "serve"}, ~AtRest(d)
    PROVE  \E s \in BOOLEAN : Connected(c, d, s)
<1>1. ~Starting(d) /\ ~Settling(d)
  BY DEF Starting, Settling
<1>2. Quiet(c) /\ OthersAtRest(d)
  BY CalmMover DEF Inv, Calm
<1>3. CASE ClientAt(c, "write")
  BY <1>1, <1>2, <1>3, CalmMover DEF Connected, ClientAt
<1>4. CASE ClientAt(c, "read")
  BY <1>1, <1>2, <1>4, CalmMover DEF Connected, ClientAt
<1> QED BY <1>1, <1>3, <1>4, CalmMover DEF ClientAt

\* It is the phase that the invariant asks for.
LEMMA ConnectedPhase ==
    ASSUME NEW c \in Clients, NEW d \in Daemons, NEW s \in BOOLEAN, Connected(c, d, s)'
    PROVE  Quiet(c)' /\ Phase(c)'
<1>1. CASE s
  BY <1>1 DEF Connected, Phase
<1>2. CASE ~s
  BY <1>2 DEF Connected, Phase
<1> QED BY <1>1, <1>2

\* A daemon makes progress with the connection it has.
LEMMA CarryingNext ==
    ASSUME Inv, NEW d \in Daemons, NEW r \in DaemonRecords, Moves(d, r),
           daemon[d].at \in {"poll", "accept", "read"}, r.at # "off",
           r.at = "accept" => r.backlog # <<>>,
           r.watched = daemon[d].watched, r.running = daemon[d].running,
           \A c \in Clients : client[c].calm => ~AtRest(d),
           \A c \in Clients, s \in BOOLEAN :
              client[c].calm /\ Connected(c, d, s) =>
                 Carries(d, Link(c, s))' /\ (r.at = "serve" => s),
           UNCHANGED <<alive, limited, sock, client>>
    PROVE  Inv'
<1>1. Types /\ daemon[d].running
  BY DEF Inv, DaemonInv
<1>2. Types'
  BY <1>1, MovesTypes DEF Types
<1>3. DaemonInv'
  BY <1>1, MovesInv DEF Inv
<1>4. ASSUME NEW c \in Clients, client'[c].calm
      PROVE  Quiet(c)' /\ Phase(c)'
  <2>1. client[c].calm
    BY <1>4
  <2>2. PICK s \in BOOLEAN : Connected(c, d, s)
    BY <2>1, CalmCarrying
  <2>3. OthersAtRest(d)'
    BY <2>2, RestKept DEF Connected, Moves
  <2>4. Quiet(c)'
    <3>1. Quiet(c) /\ daemon[d].watched \subseteq alive
      BY <2>2 DEF Connected, Quiet
    <3> QED BY <3>1, QuietKept DEF ClientAt
  <2>5. Carries(d, Link(c, s))' /\ (DaemonAt(d, "serve")' => s)
    BY <2>1, <2>2 DEF Moves, DaemonAt
  <2>6. Connected(c, d, s)'
    BY <2>2, <2>3, <2>4, <2>5 DEF Connected
  <2> QED BY <2>6, ConnectedPhase
<1> QED BY <1>2, <1>3, <1>4 DEF Inv, Calm

\* poll_events.
LEMMA PollNext == ASSUME Inv, NEW d \in Daemons, poll_events(d) PROVE Inv'
<1> DEFINE dead == daemon[d].watched \ alive
           label == IF daemon[d].backlog # <<>> THEN "accept" ELSE "deaths"
           r == [daemon[d] EXCEPT !.at = label, !.polled = dead]
<1>1. Types /\ daemon[d].at = "poll" /\ daemon[d] \in DaemonRecords
      /\ (daemon[d].backlog # <<>> \/ dead # {}) /\ UNCHANGED <<alive, limited, sock, client>>
  BY DEF Inv, Types, poll_events, DaemonAt
<1>2. label \in DaemonLabels /\ label \in {"accept", "deaths"} /\ dead \subseteq Pids
  BY <1>1 DEF DaemonLabels, DaemonRecords
<1>3. daemon' = [daemon EXCEPT ![d] = r]
  BY DEF poll_events
<1>4. label = "accept" <=> daemon[d].backlog # <<>>
  OBVIOUS
<1> HIDE DEF label, dead
<1>5. r \in DaemonRecords /\ r.at = label /\ r.polled = dead /\ r.watched = daemon[d].watched
      /\ r.running = daemon[d].running /\ r.backlog = daemon[d].backlog
  BY <1>1, <1>2 DEF DaemonRecords
<1> HIDE DEF r
<1>6. Moves(d, r)
  BY <1>1, <1>3, <1>5, SetDaemon
<1>7. \A c \in Clients : client[c].calm => ~AtRest(d)
  BY <1>1 DEF AtRest, DaemonAt, dead
<1>8. ASSUME NEW c \in Clients, NEW s \in BOOLEAN, Connected(c, d, s)
      PROVE  Carries(d, Link(c, s))'
  <2> DEFINE link == Link(c, s)
  <2>1. daemon[d].watched \subseteq alive /\ daemon[d].running /\ daemon[d].backlog = <<link>>
    BY <1>1, <1>8 DEF Connected, Quiet, Carries
  <2>2. <<link>> # <<>> /\ Link(c, s)' = link
    BY <1>1 DEF Link
  <2> HIDE DEF link
  <2>3. label = "accept" /\ dead = {}
    BY <1>4, <2>1, <2>2 DEF dead
  <2> QED BY <1>5, <1>6, <2>1, <2>2, <2>3 DEF Carries, Moves, DaemonAt
<1> QED BY <1>1, <1>2, <1>4, <1>5, <1>6, <1>7, <1>8, CarryingNext

\* accept_client.
LEMMA AcceptNext == ASSUME Inv, NEW d \in Daemons, accept_client(d) PROVE Inv'
<1> DEFINE k == Head(daemon[d].backlog)
           rest == Tail(daemon[d].backlog)
           r == [daemon[d] EXCEPT !.at = "read", !.conn = k, !.backlog = rest]
<1>1. Types /\ daemon[d].at = "accept" /\ daemon[d] \in DaemonRecords
      /\ daemon[d].backlog # <<>> /\ UNCHANGED <<alive, limited, sock, client>>
  BY DEF Inv, Types, DaemonInv, accept_client, DaemonAt
<1>2. k \in Connections /\ rest \in Seq(Connections)
  BY <1>1, BacklogFacts DEF DaemonRecords
<1>3. daemon' = [daemon EXCEPT ![d] = r]
  BY DEF accept_client
<1> HIDE DEF k, rest
<1>4. r \in DaemonRecords /\ r.at = "read" /\ r.polled = daemon[d].polled
      /\ r.watched = daemon[d].watched /\ r.running = daemon[d].running /\ r.backlog = rest
      /\ r.conn = k
  BY <1>1, <1>2 DEF DaemonRecords, DaemonLabels
<1> HIDE DEF r
<1>5. Moves(d, r)
  BY <1>1, <1>3, <1>4, SetDaemon
<1>6. ~AtRest(d)
  BY <1>1 DEF AtRest, DaemonAt
<1>7. ASSUME NEW c \in Clients, NEW s \in BOOLEAN, Connected(c, d, s)
      PROVE  Carries(d, Link(c, s))'
  <2> DEFINE link == Link(c, s)
  <2>1. daemon[d].polled = {} /\ daemon[d].running /\ daemon[d].backlog = <<link>>
    BY <1>1, <1>7 DEF Connected, Carries, DaemonAt
  <2>2. Link(c, s)' = link
    BY <1>1 DEF Link
  <2> HIDE DEF link
  <2>3. k = link /\ rest = <<>>
    BY <2>1 DEF k, rest
  <2> QED BY <1>4, <1>5, <2>1, <2>2, <2>3 DEF Carries, Moves, DaemonAt
<1> QED BY <1>1, <1>4, <1>5, <1>6, <1>7, CarryingNext

\* read_command.
LEMMA ReadCommandNext == ASSUME Inv, NEW d \in Daemons, read_command(d) PROVE Inv'
<1>1. Types /\ daemon[d].at = "read" /\ daemon[d] \in DaemonRecords
      /\ UNCHANGED <<alive, limited, sock, client>>
  BY DEF Inv, Types, read_command, DaemonAt
<1>2. ~AtRest(d)
  BY <1>1 DEF AtRest, DaemonAt
<1>3. ASSUME NEW c \in Clients, NEW s \in BOOLEAN, Connected(c, d, s)
      PROVE  /\ daemon[d].polled = {} /\ daemon[d].running /\ daemon[d].backlog = <<>>
             /\ daemon[d].conn = Link(c, s) /\ daemon[d].conn.sent = s /\ daemon[d].conn.open
             /\ Link(c, s)' = Link(c, s)
  BY <1>1, <1>3 DEF Connected, Carries, DaemonAt, Link
<1>4. CASE daemon[d].conn.sent /\ GotoDaemon(d, "serve")
  <2>1. "serve" \in DaemonLabels
    BY DEF DaemonLabels
  <2>2. PICK r \in DaemonRecords :
           /\ Moves(d, r) /\ r.at = "serve" /\ r.watched = daemon[d].watched
           /\ r.polled = daemon[d].polled /\ r.running = daemon[d].running
           /\ r.backlog = daemon[d].backlog /\ r.conn = daemon[d].conn
    BY <1>1, <1>4, <2>1, GotoDaemonMoves
  <2>3. ASSUME NEW c \in Clients, NEW s \in BOOLEAN, Connected(c, d, s)
        PROVE  Carries(d, Link(c, s))' /\ s
    BY <1>3, <1>4, <2>2, <2>3 DEF Carries, Moves, DaemonAt
  <2> QED BY <1>1, <1>2, <2>2, <2>3, CarryingNext
<1>5. CASE ~daemon[d].conn.sent /\ ~daemon[d].conn.open
           /\ daemon' = [daemon EXCEPT ![d].at = "poll", ![d].conn = NoConnection]
  <2> DEFINE r == [daemon[d] EXCEPT !.at = "poll", !.conn = NoConnection]
  <2>1. r \in DaemonRecords /\ r.at = "poll" /\ r.watched = daemon[d].watched
        /\ r.running = daemon[d].running
    BY <1>1, FirstRecords DEF DaemonRecords, DaemonLabels
  <2>2. daemon' = [daemon EXCEPT ![d] = r]
    BY <1>5
  <2> HIDE DEF r
  <2>3. Moves(d, r)
    BY <1>1, <2>1, <2>2, SetDaemon
  <2>4. \A c \in Clients, s \in BOOLEAN : ~Connected(c, d, s)
    BY <1>3, <1>5
  <2> QED BY <1>1, <1>2, <2>1, <2>3, <2>4, CarryingNext
<1> QED BY <1>4, <1>5 DEF read_command

\* The record of a daemon that has served a command.
LEMMA ServedMoves ==
    ASSUME Types, NEW d \in Daemons, NEW w \in SUBSET Pids, NEW running \in BOOLEAN,
           Served(d, w, running)
    PROVE  \E r \in DaemonRecords :
              /\ Moves(d, r) /\ r.at = "deaths" /\ r.watched = w /\ r.polled = daemon[d].polled
              /\ r.running = running /\ r.backlog = daemon[d].backlog
<1> DEFINE r == [daemon[d] EXCEPT !.at = "deaths", !.watched = w, !.running = running,
                                  !.fresh = FALSE, !.conn = NoConnection]
<1>1. daemon[d] \in DaemonRecords
  BY DEF Types
<1>2. r \in DaemonRecords /\ r.at = "deaths" /\ r.watched = w /\ r.polled = daemon[d].polled
      /\ r.running = running /\ r.backlog = daemon[d].backlog
  BY <1>1, FirstRecords DEF DaemonRecords, DaemonLabels
<1>3. daemon' = [daemon EXCEPT ![d] = r]
  BY DEF Served
<1> HIDE DEF r
<1>4. Moves(d, r)
  BY <1>2, <1>3, SetDaemon
<1> QED BY <1>2, <1>4

\* An answer changes one client's result and nothing else.
LEMMA AnsweredFacts ==
    ASSUME Types, NEW d \in Daemons, NEW code \in Results, client' = Answered(d, code)
    PROVE  /\ client' \in [Clients -> ClientRecords]
           /\ \A c \in Clients :
                 /\ client'[c].at = client[c].at /\ client'[c].cmd = client[c].cmd
                 /\ client'[c].pid = client[c].pid /\ client'[c].calm = client[c].calm
                 /\ daemon[d].conn.open /\ daemon[d].conn.from = c => client'[c].result = code
<1> DEFINE k == daemon[d].conn
<1>1. client \in [Clients -> ClientRecords]
  BY DEF Types
<1>2. CASE ~k.open
  BY <1>1, <1>2 DEF Answered
<1>3. CASE k.open /\ k.from \notin Clients
  <2>1. client' = [client EXCEPT ![k.from].result = code]
    BY <1>3 DEF Answered
  <2>2. client' = client
    BY <1>1, <1>3, <2>1
  <2> QED BY <1>1, <1>3, <2>2
<1>4. CASE k.open /\ k.from \in Clients
  <2> DEFINE from == k.from
             new == [client[from] EXCEPT !.result = code]
  <2>1. client' = [client EXCEPT ![from] = new]
    BY <1>4 DEF Answered
  <2>2. new \in ClientRecords /\ new.at = client[from].at /\ new.cmd = client[from].cmd
        /\ new.pid = client[from].pid /\ new.calm = client[from].calm /\ new.result = code
    BY <1>1, <1>4 DEF ClientRecords
  <2>3. from \in Clients /\ from = k.from
    BY <1>4
  <2> HIDE DEF new, from
  <2> QED BY <1>1, <2>1, <2>2, <2>3
<1> QED BY <1>2, <1>3, <1>4

\* What the table, the running flag and the answer have to be for a command.
Does(c, w, running, code) ==
    /\ client[c].cmd = "WATCH" => (code = "OK" /\ client[c].pid \in w /\ running) \/ code = "SLOTS"
    /\ client[c].cmd = "UNWATCH" => code \in {"OK", "NOT_FOUND"} /\ client[c].pid \notin w
    /\ client[c].cmd = "STOP" => code = "OK"

\* A command is served.
LEMMA ServedNext ==
    ASSUME Inv, NEW d \in Daemons, DaemonAt(d, "serve"), NEW w \in SUBSET Pids, Table(w),
           NEW running \in BOOLEAN, NEW code \in Results, code # "none",
           Served(d, w, running), client' = Answered(d, code),
           limited' \subseteq Pids, UNCHANGED <<alive, sock>>,
           \A c \in Clients : client[c].calm /\ Connected(c, d, TRUE) =>
              w \subseteq alive /\ Does(c, w, running, code)
    PROVE  Inv'
<1>1. Types /\ client' \in [Clients -> ClientRecords] /\ alive \subseteq Pids
      /\ sock \in Daemons \cup {NoDaemon}
  BY AnsweredFacts DEF Inv, Types
<1>2. PICK r \in DaemonRecords :
         /\ Moves(d, r) /\ r.at = "deaths" /\ r.watched = w /\ r.polled = daemon[d].polled
         /\ r.running = running /\ r.backlog = daemon[d].backlog
  BY <1>1, ServedMoves
<1>3. Types'
  BY <1>1, <1>2, MovesTypes
<1>4. DaemonInv'
  BY <1>1, <1>2, MovesInv DEF Inv
<1>5. ASSUME NEW c \in Clients, client'[c].calm
      PROVE  Quiet(c)' /\ Phase(c)'
  <2>1. client[c].calm /\ client'[c].cmd = client[c].cmd /\ client'[c].pid = client[c].pid
        /\ client'[c].at = client[c].at
        /\ (daemon[d].conn.open /\ daemon[d].conn.from = c => client'[c].result = code)
        /\ \A x \in Clients : ClientAt(x, "idle") => ClientAt(x, "idle")'
    BY <1>1, <1>5, AnsweredFacts DEF ClientAt
  <2>2. ~AtRest(d) /\ daemon[d].at = "serve"
    BY DEF AtRest, DaemonAt
  <2>3. Connected(c, d, TRUE)
    BY <2>1, <2>2, CalmCarrying DEF Connected, DaemonAt
  <2>4. w \subseteq alive /\ Does(c, w, running, code)
    BY <2>1, <2>3
  <2>5. daemon[d].polled = {} /\ daemon[d].backlog = <<>> /\ daemon[d].conn.open
        /\ daemon[d].conn.from = c
    BY <2>2, <2>3 DEF Connected, Carries, Link, DaemonAt
  <2>6. Quiet(c)'
    BY <1>2, <2>1, <2>3, <2>4, QuietKept DEF Connected
  <2>7. OthersAtRest(d)'
    BY <1>2, <2>3, RestKept DEF Connected, Moves
  <2>8. sock' = d /\ Settling(d)'
    BY <1>2, <2>3, <2>5 DEF Connected, Settling, Moves, DaemonAt
  <2>9. Outcome(c)'
    BY <1>2, <2>1, <2>4, <2>5, <2>8 DEF Outcome, Does, Moves
  <2>10. client'[c].at = "read" /\ client'[c].result # "none"
    BY <2>1, <2>3, <2>5 DEF Connected
  <2>11. Phase(c)'
    BY <2>7, <2>8, <2>9, <2>10 DEF Phase
  <2> QED BY <2>6, <2>11
<1> QED BY <1>3, <1>4, <1>5 DEF Inv, Calm

\* What the daemon knows of a calm command that it serves.
LEMMA ServedCommand ==
    ASSUME NEW c \in Clients, NEW d \in Daemons, DaemonAt(d, "serve"), Connected(c, d, TRUE)
    PROVE  /\ daemon[d].conn.cmd = client[c].cmd /\ daemon[d].conn.pid = client[c].pid
           /\ daemon[d].watched \subseteq alive
           /\ client[c].cmd = "WATCH" => client[c].pid \in alive
BY DEF Connected, Carries, Link, DaemonAt, Quiet

\* add_pid_to_watch.
LEMMA AddNext == ASSUME Inv, NEW d \in Daemons, add_pid_to_watch(d) PROVE Inv'
<1> DEFINE p == daemon[d].conn.pid
           w == daemon[d].watched
<1>1. DaemonAt(d, "serve") /\ daemon[d].conn.cmd = "WATCH" /\ UNCHANGED <<alive, sock>>
  BY DEF add_pid_to_watch
<1>2. w \in SUBSET Pids /\ Table(w) /\ alive \subseteq Pids /\ limited \subseteq Pids
  BY DEF Inv, Types, DaemonRecords
<1>3. ASSUME NEW c \in Clients, Connected(c, d, TRUE)
      PROVE  client[c].cmd = "WATCH" /\ client[c].pid = p /\ p \in alive /\ w \subseteq alive
  BY <1>1, <1>3, ServedCommand
<1>4. Results \ {"none"} = {"OK", "CONNECT", "TIMEOUT", "SLOTS", "PIDFD", "NOT_FOUND"}
  BY DEF Results
<1>5. \/ /\ p \in w /\ Served(d, w, TRUE) /\ client' = Answered(d, "OK") /\ UNCHANGED limited
      \/ Served(d, w, TRUE) /\ client' = Answered(d, "SLOTS") /\ UNCHANGED limited
      \/ /\ Cardinality(w) < MAX_WATCHED_PIDS /\ p \in alive
         /\ Served(d, w \cup {p}, TRUE) /\ client' = Answered(d, "OK") /\ UNCHANGED limited
      \/ /\ p \notin alive /\ limited' = limited \ {p}
         /\ Served(d, w, TRUE) /\ client' = Answered(d, "PIDFD")
  BY DEF add_pid_to_watch
<1> HIDE DEF p, w
<1>6. CASE p \in w /\ Served(d, w, TRUE) /\ client' = Answered(d, "OK") /\ UNCHANGED limited
  <2>1. \A c \in Clients : Connected(c, d, TRUE) => w \subseteq alive /\ Does(c, w, TRUE, "OK")
    BY <1>3, <1>6 DEF Does
  <2> QED BY <1>1, <1>2, <1>4, <1>6, <2>1, ServedNext
<1>7. CASE Served(d, w, TRUE) /\ client' = Answered(d, "SLOTS") /\ UNCHANGED limited
  <2>1. \A c \in Clients : Connected(c, d, TRUE) => w \subseteq alive /\ Does(c, w, TRUE, "SLOTS")
    BY <1>3, <1>7 DEF Does
  <2> QED BY <1>1, <1>2, <1>4, <1>7, <2>1, ServedNext
<1>8. CASE /\ Cardinality(w) < MAX_WATCHED_PIDS /\ p \in alive
           /\ Served(d, w \cup {p}, TRUE) /\ client' = Answered(d, "OK") /\ UNCHANGED limited
  <2> DEFINE v == w \cup {p}
  <2>1. v \in SUBSET Pids /\ Table(v) /\ p \in v /\ (w \subseteq alive => v \subseteq alive)
    BY <1>2, <1>8, TableFacts
  <2>2. Served(d, v, TRUE)
    BY <1>8
  <2> HIDE DEF v
  <2>3. \A c \in Clients : Connected(c, d, TRUE) => v \subseteq alive /\ Does(c, v, TRUE, "OK")
    BY <1>3, <2>1 DEF Does
  <2> QED BY <1>1, <1>2, <1>4, <1>8, <2>1, <2>2, <2>3, ServedNext
<1>9. CASE /\ p \notin alive /\ limited' = limited \ {p}
           /\ Served(d, w, TRUE) /\ client' = Answered(d, "PIDFD")
  <2>1. \A c \in Clients : ~Connected(c, d, TRUE)
    BY <1>3, <1>9
  <2>2. limited' \subseteq Pids
    BY <1>2, <1>9
  <2> QED BY <1>1, <1>2, <1>4, <1>9, <2>1, <2>2, ServedNext
<1> QED BY <1>5, <1>6, <1>7, <1>8, <1>9

\* remove_pid_from_watch.
LEMMA RemoveNext == ASSUME Inv, NEW d \in Daemons, remove_pid_from_watch(d) PROVE Inv'
<1> DEFINE p == daemon[d].conn.pid
           w == daemon[d].watched \ {p}
           code == IF p \in daemon[d].watched THEN "OK" ELSE "NOT_FOUND"
<1>1. DaemonAt(d, "serve") /\ daemon[d].conn.cmd = "UNWATCH" /\ UNCHANGED <<alive, limited, sock>>
      /\ Served(d, w, TRUE) /\ client' = Answered(d, code)
  BY DEF remove_pid_from_watch
<1>2. daemon[d].watched \in SUBSET Pids /\ Table(daemon[d].watched) /\ limited \subseteq Pids
  BY DEF Inv, Types, DaemonRecords
<1>3. w \in SUBSET Pids /\ w \in SUBSET daemon[d].watched /\ p \notin w
      /\ code \in Results /\ code # "none" /\ code \in {"OK", "NOT_FOUND"}
  BY <1>2 DEF Results
<1>4. Table(w)
  BY <1>2, <1>3, TableFacts
<1>5. ASSUME NEW c \in Clients, Connected(c, d, TRUE)
      PROVE  client[c].cmd = "UNWATCH" /\ client[c].pid = p /\ daemon[d].watched \subseteq alive
  BY <1>1, <1>5, ServedCommand
<1> HIDE DEF p, w, code
<1>6. \A c \in Clients : Connected(c, d, TRUE) => w \subseteq alive /\ Does(c, w, TRUE, code)
  BY <1>3, <1>5 DEF Does
<1> QED BY <1>1, <1>2, <1>3, <1>4, <1>6, ServedNext

\* serve_stop.
LEMMA StopNext == ASSUME Inv, NEW d \in Daemons, serve_stop(d) PROVE Inv'
<1> DEFINE w == daemon[d].watched
<1>1. DaemonAt(d, "serve") /\ daemon[d].conn.cmd = "STOP" /\ UNCHANGED <<alive, limited, sock>>
      /\ Served(d, w, FALSE) /\ client' = Answered(d, "OK")
  BY DEF serve_stop
<1>2. w \in SUBSET Pids /\ Table(w) /\ limited \subseteq Pids /\ "OK" \in Results
  BY DEF Inv, Types, DaemonRecords, Results
<1>3. ASSUME NEW c \in Clients, Connected(c, d, TRUE)
      PROVE  client[c].cmd = "STOP" /\ w \subseteq alive
  BY <1>1, <1>3, ServedCommand
<1> HIDE DEF w
<1>4. \A c \in Clients : Connected(c, d, TRUE) => w \subseteq alive /\ Does(c, w, FALSE, "OK")
  BY <1>3 DEF Does
<1> QED BY <1>1, <1>2, <1>4, ServedNext

\* A daemon that has served a calm command.
LEMMA CalmSettling ==
    ASSUME Inv, NEW c \in Clients, client[c].calm, NEW d \in Daemons,
           daemon[d].at \in {"deaths", "close", "unlink_at_exit"}
    PROVE  /\ OthersAtRest(d) /\ Quiet(c) /\ sock = d /\ Outcome(c)
           /\ daemon[d].backlog = <<>> /\ daemon[d].polled = {}
           /\ ClientAt(c, "finish") \/ (ClientAt(c, "read") /\ client[c].result # "none")
<1>1. ~AtRest(d)
  BY DEF AtRest, DaemonAt
<1>2. ~Carries(d, Link(c, FALSE)) /\ ~Carries(d, Link(c, TRUE)) /\ ~Starting(d)
  BY DEF Carries, Starting
<1>3. /\ OthersAtRest(d) /\ sock = d /\ Outcome(c) /\ Settling(d)
      /\ ClientAt(c, "finish") \/ (ClientAt(c, "read") /\ client[c].result # "none")
  BY <1>1, <1>2, CalmMover
<1>4. daemon[d].backlog = <<>> /\ daemon[d].polled = {}
  BY <1>1, <1>3 DEF Settling
<1> QED BY <1>3, <1>4 DEF Inv, Calm

\* Such a daemon finds its way back to poll, or out.
LEMMA SettlingNext ==
    ASSUME Inv, NEW d \in Daemons, NEW r \in DaemonRecords, Moves(d, r),
           daemon[d].at \in {"deaths", "close", "unlink_at_exit"},
           r.at \in {"poll", "close", "unlink_at_exit", "off"},
           r.watched \subseteq daemon[d].watched, ~r.running => r.at = "close", r.at = "off" => r = Off,
           limited' \subseteq Pids, UNCHANGED <<alive, client>>,
           sock' = sock \/ (sock' = NoDaemon /\ r.at = "off"),
           daemon[d].backlog = <<>> /\ daemon[d].polled = {} => r.backlog = <<>> /\ r.polled = {},
           \A c \in Clients :
              /\ daemon[d].polled = {} /\ daemon[d].at = "deaths" /\ daemon[d].running
              /\ client[c].pid \in daemon[d].watched
              => r.at = "poll" /\ r.running /\ client[c].pid \in r.watched
    PROVE  Inv'
<1>1. Types /\ alive \subseteq Pids /\ sock' \in Daemons \cup {NoDaemon} /\ Table(daemon[d].watched)
      /\ client' \in [Clients -> ClientRecords]
  BY DEF Inv, Types
<1>2. Table(r.watched)
  BY <1>1, TableFacts
<1>3. Types'
  BY <1>1, <1>2, MovesTypes
<1>4. DaemonInv'
  BY <1>1, MovesInv DEF Inv
<1>5. ASSUME NEW c \in Clients, client'[c].calm
      PROVE  Quiet(c)' /\ Phase(c)'
  <2>1. /\ OthersAtRest(d) /\ Quiet(c) /\ sock = d /\ Outcome(c)
        /\ daemon[d].backlog = <<>> /\ daemon[d].polled = {}
        /\ ClientAt(c, "finish") \/ (ClientAt(c, "read") /\ client[c].result # "none")
    BY <1>5, CalmSettling
  <2>2. r.watched \subseteq alive /\ r.backlog = <<>> /\ r.polled = {}
    BY <2>1 DEF Quiet
  <2>3. Quiet(c)'
    BY <2>1, <2>2, QuietKept DEF ClientAt
  <2>4. OthersAtRest(d)'
    BY <2>1, RestKept DEF Moves
  <2>5. Settling(d)' /\ (r.at = "off" => AtRest(d)')
    BY <2>2 DEF Settling, AtRest, Moves, DaemonAt
  <2>6. OthersAtRest(sock)' /\ (sock' \in Daemons => Settling(sock)')
    <3>1. CASE sock' = d
      BY <2>4, <2>5, <3>1
    <3>2. CASE sock' = NoDaemon /\ r.at = "off"
      BY <2>4, <2>5, <3>2, MonitorAssumption DEF OthersAtRest
    <3> QED BY <2>1, <3>1, <3>2
  <2>7. Outcome(c)'
    <3>1. CASE client[c].cmd = "WATCH" /\ client[c].result # "SLOTS"
      <4>1. daemon[d].at = "deaths" /\ daemon[d].running /\ client[c].pid \in daemon[d].watched
            /\ client[c].result = "OK"
        BY <2>1, <3>1 DEF Outcome
      <4>2. r.at = "poll" /\ r.running /\ client[c].pid \in r.watched
        BY <2>1, <4>1
      <4> QED BY <2>1, <3>1, <4>1, <4>2 DEF Outcome, Moves
    <3>2. CASE client[c].cmd = "UNWATCH"
      <4>1. client[c].pid \notin r.watched /\ client[c].result \in {"OK", "NOT_FOUND"}
        BY <2>1, <3>2 DEF Outcome
      <4>2. sock' \in Daemons => sock' = d
        BY <2>1, MonitorAssumption
      <4> QED BY <3>2, <4>1, <4>2 DEF Outcome, Moves
    <3>3. CASE client[c].cmd = "WATCH" /\ client[c].result = "SLOTS"
      BY <3>3 DEF Outcome
    <3>4. CASE client[c].cmd \notin {"WATCH", "UNWATCH"}
      BY <2>1, <3>4 DEF Outcome
    <3> QED BY <3>1, <3>2, <3>3, <3>4
  <2>8. Phase(c)'
    BY <2>1, <2>6, <2>7 DEF Phase, ClientAt
  <2> QED BY <2>3, <2>8
<1> QED BY <1>3, <1>4, <1>5 DEF Inv, Calm

\* handle_deaths.
LEMMA DeathsNext == ASSUME Inv, NEW d \in Daemons, handle_deaths(d) PROVE Inv'
<1> DEFINE dead == daemon[d].polled \cap daemon[d].watched
           left == daemon[d].watched \ dead
           label == IF left = {} \/ ~daemon[d].running THEN "close" ELSE "poll"
           r == [daemon[d] EXCEPT !.watched = left, !.polled = {}, !.at = label]
<1>1. Types /\ daemon[d].at = "deaths" /\ daemon[d] \in DaemonRecords
      /\ UNCHANGED <<alive, sock, client>> /\ limited' = limited \ dead
  BY DEF Inv, Types, handle_deaths, DaemonAt
<1>2. /\ left \in SUBSET Pids /\ left \subseteq daemon[d].watched
      /\ daemon[d].polled = {} => left = daemon[d].watched
      /\ label \in {"close", "poll"} /\ label \in DaemonLabels
      /\ ~daemon[d].running => label = "close"
      /\ left # {} /\ daemon[d].running => label = "poll"
  BY <1>1 DEF DaemonLabels, DaemonRecords
<1>3. daemon' = [daemon EXCEPT ![d] = r]
  BY DEF handle_deaths
<1>4. limited' \subseteq Pids
  BY <1>1 DEF Types
<1> HIDE DEF dead, left, label
<1>5. r \in DaemonRecords /\ r.at = label /\ r.watched = left /\ r.polled = {}
      /\ r.running = daemon[d].running /\ r.backlog = daemon[d].backlog
  BY <1>1, <1>2 DEF DaemonRecords
<1> HIDE DEF r
<1>6. Moves(d, r)
  BY <1>1, <1>3, <1>5, SetDaemon
<1>7. /\ r.at \in {"poll", "close"}
      /\ ~r.running => r.at = "close"
      /\ r.watched \subseteq daemon[d].watched
      /\ daemon[d].backlog = <<>> /\ daemon[d].polled = {} => r.backlog = <<>> /\ r.polled = {}
      /\ \A c \in Clients :
            daemon[d].polled = {} /\ daemon[d].running /\ client[c].pid \in daemon[d].watched
            => r.at = "poll" /\ r.running /\ client[c].pid \in r.watched
  BY <1>2, <1>5
<1> QED BY <1>1, <1>4, <1>5, <1>6, <1>7, SettlingNext

\* close_socket.
LEMMA CloseNext == ASSUME Inv, NEW d \in Daemons, close_socket(d) PROVE Inv'
<1> DEFINE r == [Off EXCEPT !.at = "unlink_at_exit"]
<1>1. Types /\ daemon[d].at = "close" /\ UNCHANGED <<alive, limited, sock, client>>
      /\ limited \subseteq Pids /\ daemon' = [daemon EXCEPT ![d] = r]
  BY DEF Inv, Types, close_socket, DaemonAt
<1>2. r \in DaemonRecords /\ r.at = "unlink_at_exit" /\ r.watched = {} /\ r.polled = {}
      /\ r.running /\ r.backlog = <<>>
  BY FirstRecords DEF Off, DaemonRecords, DaemonLabels
<1> HIDE DEF r
<1>3. Moves(d, r)
  BY <1>1, <1>2, SetDaemon
<1> QED BY <1>1, <1>2, <1>3, SettlingNext

\* unlink_at_exit.
LEMMA ExitNext == ASSUME Inv, NEW d \in Daemons, unlink_at_exit(d) PROVE Inv'
<1>1. Types /\ daemon[d].at = "unlink_at_exit" /\ UNCHANGED <<alive, limited, client>>
      /\ sock' = NoDaemon /\ limited \subseteq Pids /\ daemon' = [daemon EXCEPT ![d] = Off]
  BY DEF Inv, Types, unlink_at_exit, DaemonAt
<1>2. Off \in DaemonRecords /\ Off.at = "off" /\ Off.watched = {} /\ Off.polled = {}
      /\ Off.running /\ Off.backlog = <<>>
  BY FirstRecords DEF Off
<1>3. Moves(d, Off)
  BY <1>1, <1>2, SetDaemon
<1> QED BY <1>1, <1>2, <1>3, SettlingNext

\* A step of a daemon keeps the invariant.
LEMMA DaemonStepInv == ASSUME Inv, NEW d \in Daemons, DaemonStep(d) PROVE Inv'
BY UnlinkNext, BindNext, ListenNext, NotifyNext, PollNext, AcceptNext, ReadCommandNext, AddNext,
   RemoveNext, StopNext, DeathsNext, CloseNext, ExitNext DEF DaemonStep
-----------------------------------------------------------------------------
(***************************************************************************)
(* The clients.                                                            *)
(***************************************************************************)

\* While a command is calm, every other client is idle.
LEMMA CalmAlone ==
    ASSUME Inv, NEW c \in Clients, ~ClientAt(c, "idle"), NEW x \in Clients, client[x].calm
    PROVE  x = c
BY DEF Inv, Calm, Quiet

\* A client's record is replaced.
LEMMA SetClient ==
    ASSUME Types, NEW c \in Clients, NEW k \in ClientRecords, client' = [client EXCEPT ![c] = k]
    PROVE  client' \in [Clients -> ClientRecords] /\ client'[c] = k
           /\ \A x \in Clients \ {c} : client'[x] = client[x]
BY DEF Types

\* A client in the middle of a command moves on.
LEMMA ClientMoves ==
    ASSUME Inv, NEW c \in Clients, ~ClientAt(c, "idle"), NEW k \in ClientRecords,
           client' = [client EXCEPT ![c] = k], Types', DaemonInv',
           k.calm => client[c].calm,
           client[c].calm /\ k.calm => Quiet(c)' /\ Phase(c)'
    PROVE  Inv'
<1>1. client'[c] = k /\ \A x \in Clients \ {c} : client'[x] = client[x]
  BY SetClient DEF Inv
<1>2. \A x \in Clients \ {c} : ~client[x].calm
  BY CalmAlone
<1>3. Calm'
  BY <1>1, <1>2 DEF Calm
<1> QED BY <1>3 DEF Inv

\* A step of a client that leaves the daemons alone.
LEMMA SameDaemons ==
    ASSUME Inv, NEW c \in Clients, NEW k \in ClientRecords, client' = [client EXCEPT ![c] = k],
           UNCHANGED <<alive, sock, daemon>>, limited' \subseteq Pids
    PROVE  Types' /\ DaemonInv'
<1>1. client' \in [Clients -> ClientRecords]
  BY SetClient DEF Inv
<1> QED BY <1>1 DEF Inv, Types, DaemonInv, DaemonAt

\* The calm of a command does not depend on its client's label.
LEMMA QuietClient ==
    ASSUME NEW c \in Clients, Quiet(c), NEW k, client' = [client EXCEPT ![c] = k], Types,
           k.cmd = client[c].cmd, k.pid = client[c].pid,
           alive' = alive, \A d \in Daemons : daemon'[d].watched = daemon[d].watched
    PROVE  Quiet(c)'
<1>1. client'[c] = k /\ \A x \in Clients \ {c} : client'[x] = client[x]
  BY DEF Types
<1> QED BY <1>1 DEF Quiet, ClientAt

\* The record of a command that is done.
LEMMA FinishedRecord ==
    ASSUME Types, NEW c \in Clients, NEW code \in Results, Finished(c, code)
    PROVE  \E k \in ClientRecords :
              /\ client' = [client EXCEPT ![c] = k] /\ k.at = "finish" /\ k.result = code
              /\ k.cmd = client[c].cmd /\ k.pid = client[c].pid /\ k.calm = client[c].calm
<1> DEFINE k == [client[c] EXCEPT !.at = "finish", !.result = code, !.peer = NoDaemon]
<1>1. client[c] \in ClientRecords
  BY DEF Types
<1>2. k \in ClientRecords /\ k.at = "finish" /\ k.result = code /\ k.cmd = client[c].cmd
      /\ k.pid = client[c].pid /\ k.calm = client[c].calm
  BY <1>1 DEF ClientRecords, ClientLabels
<1>3. client' = [client EXCEPT ![c] = k]
  BY DEF Finished
<1> HIDE DEF k
<1> QED BY <1>2, <1>3

\* The record of a command that gave up.
LEMMA TimedOutRecord ==
    ASSUME Types, NEW c \in Clients, NEW code \in Results, TimedOut(c, code)
    PROVE  \E k \in ClientRecords : client' = [client EXCEPT ![c] = k] /\ ~k.calm
<1> DEFINE k == [client[c] EXCEPT !.at = "finish", !.result = code, !.peer = NoDaemon,
                                  !.calm = FALSE]
<1>1. client[c] \in ClientRecords
  BY DEF Types
<1>2. k \in ClientRecords /\ ~k.calm
  BY <1>1 DEF ClientRecords, ClientLabels
<1>3. client' = [client EXCEPT ![c] = k]
  BY DEF TimedOut
<1> HIDE DEF k
<1> QED BY <1>2, <1>3

\* A command goes to another label, with another peer.
MovesTo(c, label, peer) == client' = [client EXCEPT ![c].at = label, ![c].peer = peer]

\* The record it has then.
LEMMA MovedRecord ==
    ASSUME Types, NEW c \in Clients, NEW label \in ClientLabels, NEW peer \in Daemons \cup {NoDaemon},
           MovesTo(c, label, peer)
    PROVE  \E k \in ClientRecords :
              /\ client' = [client EXCEPT ![c] = k] /\ k.at = label /\ k.peer = peer
              /\ k.cmd = client[c].cmd /\ k.pid = client[c].pid /\ k.calm = client[c].calm
              /\ k.result = client[c].result
<1> DEFINE k == [client[c] EXCEPT !.at = label, !.peer = peer]
<1>1. client[c] \in ClientRecords
  BY DEF Types
<1>2. k \in ClientRecords /\ k.at = label /\ k.peer = peer /\ k.cmd = client[c].cmd
      /\ k.pid = client[c].pid /\ k.calm = client[c].calm /\ k.result = client[c].result
  BY <1>1 DEF ClientRecords
<1>3. client' = [client EXCEPT ![c] = k]
  BY DEF MovesTo
<1> HIDE DEF k
<1> QED BY <1>2, <1>3

\* The record of a command that goes to another label only.
LEMMA GotoRecord ==
    ASSUME Types, NEW c \in Clients, NEW label \in ClientLabels, GotoClient(c, label)
    PROVE  \E k \in ClientRecords :
              /\ client' = [client EXCEPT ![c] = k] /\ k.at = label /\ k.peer = client[c].peer
              /\ k.cmd = client[c].cmd /\ k.pid = client[c].pid /\ k.calm = client[c].calm
              /\ k.result = client[c].result
<1> DEFINE k == [client[c] EXCEPT !.at = label]
<1>1. client[c] \in ClientRecords
  BY DEF Types
<1>2. k \in ClientRecords /\ k.at = label /\ k.peer = client[c].peer /\ k.cmd = client[c].cmd
      /\ k.pid = client[c].pid /\ k.calm = client[c].calm /\ k.result = client[c].result
  BY <1>1 DEF ClientRecords
<1>3. client' = [client EXCEPT ![c] = k]
  BY DEF GotoClient
<1> HIDE DEF k
<1> QED BY <1>2, <1>3

\* A connection joins a daemon's backlog.
Queues(d, link) == daemon' = [daemon EXCEPT ![d].backlog = Append(@, link)]

\* monitor_connect, with a daemon behind the path.
LEMMA ConnectNext ==
    ASSUME Inv, NEW c \in Clients, client[c].at \in {"connect", "reconnect"},
           NEW d \in Daemons, d = sock, Listening(d),
           Queues(d, Connection(c)), MovesTo(c, "write", d), UNCHANGED <<alive, limited, sock>>
    PROVE  Inv'
<1> DEFINE link == Connection(c)
           more == Append(daemon[d].backlog, link)
           r == [daemon[d] EXCEPT !.backlog = more]
<1>1. Types /\ daemon[d] \in DaemonRecords
      /\ client[c] \in ClientRecords /\ alive \subseteq Pids /\ limited \subseteq Pids
  BY DEF Inv, Types
<1>2. link \in Connections
  BY <1>1 DEF Connection, Connections, ClientRecords
<1>3. daemon' = [daemon EXCEPT ![d] = r]
  BY DEF Queues
<1> HIDE DEF link
<1>4. more \in Seq(Connections) /\ more # <<>> /\ (daemon[d].backlog = <<>> => more = <<link>>)
  <2>1. daemon[d].backlog \in Seq(Connections)
    BY <1>1 DEF DaemonRecords
  <2>2. \A s \in Seq(Connections) : Append(s, link) \in Seq(Connections) /\ Append(s, link) # <<>>
    BY <1>2, AppendProperties
  <2>3. Append(<<>>, link) = <<link>>
    BY <1>2, BacklogOne
  <2> QED BY <2>1, <2>2, <2>3
<1> HIDE DEF more
<1>5. r \in DaemonRecords /\ r.at = daemon[d].at /\ r.watched = daemon[d].watched
      /\ r.polled = daemon[d].polled /\ r.running = daemon[d].running /\ r.backlog = more
  BY <1>1, <1>4 DEF DaemonRecords
<1> HIDE DEF r
<1>6. Moves(d, r)
  BY <1>1, <1>3, <1>5, SetDaemon
<1>7. PICK k \in ClientRecords :
         /\ client' = [client EXCEPT ![c] = k] /\ k.at = "write" /\ k.peer = d
         /\ k.cmd = client[c].cmd /\ k.pid = client[c].pid /\ k.calm = client[c].calm
         /\ k.result = client[c].result
  <2>1. "write" \in ClientLabels
    BY DEF ClientLabels
  <2> QED BY <1>1, <2>1, MovedRecord
<1>8. client'[c] = k /\ client' \in [Clients -> ClientRecords]
  BY <1>1, <1>7, SetClient
<1>9. Types'
  BY <1>1, <1>5, <1>6, <1>8, MovesTypes DEF Types
<1>10. DaemonInv'
  <2>1. r.at # "off" /\ (~r.running => r.at \in {"deaths", "close"})
    BY <1>1, <1>5 DEF Listening, Inv, DaemonInv
  <2> QED BY <1>1, <1>4, <1>5, <1>6, <2>1, MovesInv DEF Inv
<1>11. ASSUME client[c].calm
       PROVE  Quiet(c)' /\ Phase(c)'
  <2>1. Quiet(c) /\ AllAtRest /\ client[c].result = "none"
    BY <1>11 DEF Inv, Calm, Phase
  <2>2. daemon[d].at = "poll" /\ daemon[d].backlog = <<>> /\ daemon[d].running
    BY <1>1, <2>1 DEF AllAtRest, AtRest, DaemonAt, Listening, Inv, DaemonInv
  <2>3. OthersAtRest(d)'
    <3>1. OthersAtRest(d)
      BY <2>1 DEF AllAtRest, OthersAtRest
    <3> QED BY <1>6, <3>1, RestKept DEF Moves
  <2>4. Link(c, FALSE)' = link
    BY <1>7, <1>8 DEF Link, link, Connection
  <2>5. Carries(d, Link(c, FALSE))'
    BY <1>4, <1>5, <1>6, <2>2, <2>4 DEF Carries, Moves, DaemonAt
  <2>6. Quiet(c)'
    <3>1. \A x \in Daemons : daemon'[x].watched = daemon[x].watched
      BY <1>5, <1>6 DEF Moves
    <3> QED BY <1>1, <1>7, <2>1, <3>1, QuietClient
  <2>7. Connected(c, d, FALSE)'
    BY <1>5, <1>6, <1>7, <1>8, <2>1, <2>2, <2>3, <2>5, <2>6 DEF Connected, Moves, DaemonAt
  <2> QED BY <1>1, <2>7, ConnectedPhase
<1> QED BY <1>7, <1>9, <1>10, <1>11, ClientMoves DEF ClientAt

\* monitor_connect.
LEMMA MonitorConnectNext == ASSUME Inv, NEW c \in Clients, monitor_connect(c) PROVE Inv'
<1>1. Types /\ client[c].at \in {"connect", "reconnect"} /\ UNCHANGED <<alive, limited, sock>>
      /\ limited \subseteq Pids /\ ~ClientAt(c, "idle")
  BY DEF Inv, Types, monitor_connect, ClientAt
<1>2. CASE /\ Reachable
           /\ daemon' = [daemon EXCEPT ![sock].backlog = Append(@, Connection(c))]
           /\ client' = [client EXCEPT ![c].at = "write", ![c].peer = sock]
  <2>1. PICK d \in Daemons : d = sock
    BY <1>2 DEF Reachable
  <2>2. Listening(d) /\ Queues(d, Connection(c)) /\ MovesTo(c, "write", d)
    BY <1>2, <2>1 DEF Reachable, Queues, MovesTo
  <2> QED BY <1>1, <2>1, <2>2, ConnectNext
<1>3. CASE ~Reachable /\ UNCHANGED daemon /\ client[c].cmd = "STOP" /\ Finished(c, "OK")
  <2>1. "OK" \in Results
    BY DEF Results
  <2>2. PICK k \in ClientRecords :
           /\ client' = [client EXCEPT ![c] = k] /\ k.at = "finish" /\ k.result = "OK"
           /\ k.cmd = client[c].cmd /\ k.pid = client[c].pid /\ k.calm = client[c].calm
    BY <1>1, <1>3, <2>1, FinishedRecord
  <2>3. Types' /\ DaemonInv' /\ client'[c] = k
    BY <1>1, <1>3, <2>2, SameDaemons, SetClient
  <2>4. ASSUME client[c].calm
        PROVE  Quiet(c)' /\ Phase(c)'
    <3>1. Quiet(c) /\ AllAtRest
      BY <1>1, <2>4 DEF Inv, Calm, Phase
    <3>2. Quiet(c)'
      BY <1>1, <1>3, <2>2, <3>1, QuietClient
    <3>3. AllAtRest'
      BY <1>1, <1>3, <3>1 DEF AllAtRest, AtRest, DaemonAt
    <3>4. OthersAtRest(sock)' /\ (sock' \in Daemons => Settling(sock)')
      BY <3>3 DEF AllAtRest, OthersAtRest, Settling
    <3>5. Outcome(c)'
      BY <1>3, <2>2, <2>3 DEF Outcome
    <3> QED BY <2>2, <2>3, <3>2, <3>4, <3>5 DEF Phase
  <2> QED BY <1>1, <2>2, <2>3, <2>4, ClientMoves
<1>4. CASE /\ ~Reachable /\ UNCHANGED daemon /\ client[c].cmd # "STOP"
           /\ ClientAt(c, "connect") /\ GotoClient(c, "fork")
  <2>1. "fork" \in ClientLabels
    BY DEF ClientLabels
  <2>2. PICK k \in ClientRecords :
           /\ client' = [client EXCEPT ![c] = k] /\ k.at = "fork" /\ k.result = client[c].result
           /\ k.cmd = client[c].cmd /\ k.pid = client[c].pid /\ k.calm = client[c].calm
    BY <1>1, <1>4, <2>1, GotoRecord
  <2>3. Types' /\ DaemonInv' /\ client'[c] = k
    BY <1>1, <1>4, <2>2, SameDaemons, SetClient
  <2>4. ASSUME client[c].calm
        PROVE  Quiet(c)' /\ Phase(c)'
    <3>1. Quiet(c) /\ AllAtRest /\ client[c].result = "none" /\ \E x \in Daemons : DaemonAt(x, "off")
      BY <1>4, <2>4 DEF Inv, Calm, Phase, ClientAt
    <3>2. Quiet(c)'
      BY <1>1, <1>4, <2>2, <3>1, QuietClient
    <3>3. AllAtRest' /\ \E x \in Daemons : DaemonAt(x, "off")'
      BY <1>1, <1>4, <3>1 DEF AllAtRest, AtRest, DaemonAt
    <3> QED BY <1>4, <2>2, <2>3, <3>1, <3>2, <3>3 DEF Phase
  <2> QED BY <1>1, <2>2, <2>3, <2>4, ClientMoves
<1>5. CASE /\ ~Reachable /\ UNCHANGED daemon /\ client[c].cmd # "STOP"
           /\ ~ClientAt(c, "connect") /\ Finished(c, "CONNECT")
  <2>1. "CONNECT" \in Results
    BY DEF Results
  <2>2. PICK k \in ClientRecords : client' = [client EXCEPT ![c] = k] /\ k.calm = client[c].calm
    BY <1>1, <1>5, <2>1, FinishedRecord
  <2>3. Types' /\ DaemonInv'
    BY <1>1, <1>5, <2>2, SameDaemons
  <2>4. ~client[c].calm
    <3>1. client[c].at = "reconnect"
      BY <1>1, <1>5 DEF ClientAt
    <3>2. SUFFICES ASSUME client[c].calm PROVE FALSE
      OBVIOUS
    <3>3. sock \in Daemons /\ daemon[sock].at = "poll"
      BY <3>1, <3>2 DEF Inv, Calm, Phase, DaemonAt
    <3> QED BY <1>5, <3>3 DEF Reachable, Listening
  <2> QED BY <1>1, <2>2, <2>3, <2>4, ClientMoves
<1>6. ~(Reachable /\ daemon' = [daemon EXCEPT ![sock].backlog = Append(@, Connection(c))]
        /\ client' = [client EXCEPT ![c].at = "write", ![c].peer = sock])
      => /\ ~Reachable /\ UNCHANGED daemon
         /\ CASE client[c].cmd = "STOP" -> Finished(c, "OK")
              [] client[c].cmd # "STOP" /\ ClientAt(c, "connect") -> GotoClient(c, "fork")
              [] OTHER -> Finished(c, "CONNECT")
  BY DEF monitor_connect
<1> QED BY <1>2, <1>3, <1>4, <1>5, <1>6

\* fork_daemon.
LEMMA ForkNext == ASSUME Inv, NEW c \in Clients, fork_daemon(c) PROVE Inv'
<1>1. Types /\ client[c].at = "fork" /\ UNCHANGED <<alive, limited, sock>>
      /\ limited \subseteq Pids /\ ~ClientAt(c, "idle")
  BY DEF Inv, Types, fork_daemon, ClientAt
<1>2. ASSUME NEW d \in Daemons, DaemonAt(d, "off"), GotoDaemon(d, "unlink"),
             MovesTo(c, "wait_daemon", d)
      PROVE  Inv'
  <2>1. "unlink" \in DaemonLabels /\ "wait_daemon" \in ClientLabels
    BY DEF DaemonLabels, ClientLabels
  <2>2. PICK r \in DaemonRecords :
           /\ Moves(d, r) /\ r.at = "unlink" /\ r.watched = daemon[d].watched
           /\ r.running = daemon[d].running /\ r.backlog = daemon[d].backlog
    BY <1>1, <1>2, <2>1, GotoDaemonMoves
  <2>3. PICK k \in ClientRecords :
           /\ client' = [client EXCEPT ![c] = k] /\ k.at = "wait_daemon" /\ k.peer = d
           /\ k.cmd = client[c].cmd /\ k.pid = client[c].pid /\ k.calm = client[c].calm
           /\ k.result = client[c].result
    BY <1>1, <1>2, <2>1, MovedRecord
  <2>4. client' \in [Clients -> ClientRecords] /\ client'[c] = k
    BY <1>1, <2>3, SetClient
  <2>5. daemon[d].running /\ daemon[d].watched = {} /\ daemon[d].backlog = <<>>
    BY <1>2, FirstRecords DEF Inv, DaemonInv
  <2>6. Types'
    BY <1>1, <2>2, <2>4, MovesTypes DEF Types
  <2>7. DaemonInv'
    BY <1>1, <2>2, <2>5, MovesInv DEF Inv
  <2>8. ASSUME client[c].calm
        PROVE  Quiet(c)' /\ Phase(c)'
    <3>1. Quiet(c) /\ AllAtRest /\ client[c].result = "none" /\ client[c].cmd # "STOP"
      BY <1>1, <2>8 DEF Inv, Calm, Phase
    <3>2. Quiet(c)'
      <4>1. \A x \in Daemons : daemon'[x].watched = daemon[x].watched
        BY <2>2 DEF Moves
      <4> QED BY <1>1, <2>3, <3>1, <4>1, QuietClient
    <3>3. OthersAtRest(d)'
      <4>1. OthersAtRest(d)
        BY <3>1 DEF AllAtRest, OthersAtRest
      <4> QED BY <1>1, <2>2, <4>1, RestKept DEF Moves
    <3>4. Starting(d)'
      BY <2>2, <2>5 DEF Starting, Moves, DaemonAt
    <3> QED BY <2>3, <2>4, <3>1, <3>2, <3>3, <3>4 DEF Phase
  <2> QED BY <1>1, <2>3, <2>6, <2>7, <2>8, ClientMoves
<1>3. CASE (\A d \in Daemons : ~DaemonAt(d, "off")) /\ Finished(c, "CONNECT") /\ UNCHANGED daemon
  <2>1. "CONNECT" \in Results
    BY DEF Results
  <2>2. PICK k \in ClientRecords : client' = [client EXCEPT ![c] = k] /\ k.calm = client[c].calm
    BY <1>1, <1>3, <2>1, FinishedRecord
  <2>3. Types' /\ DaemonInv'
    BY <1>1, <1>3, <2>2, SameDaemons
  <2>4. ~client[c].calm
    BY <1>1, <1>3 DEF Inv, Calm, Phase
  <2> QED BY <1>1, <2>2, <2>3, <2>4, ClientMoves
<1> QED BY <1>2, <1>3 DEF fork_daemon, MovesTo

\* A backlog whose connections change one by one.
LEMMA BacklogMap ==
    ASSUME NEW S, NEW s \in Seq(S), NEW g \in [S -> S]
    PROVE  LET t == [i \in DOMAIN s |-> g[s[i]]]
           IN  t \in Seq(S) /\ (t = <<>> <=> s = <<>>) /\ \A x \in S : s = <<x>> => t = <<g[x]>>
<1> DEFINE t == [i \in DOMAIN s |-> g[s[i]]]
<1>1. Len(s) \in Nat /\ DOMAIN s = 1..Len(s) /\ \A i \in 1..Len(s) : s[i] \in S
  BY LenProperties, ElementOfSeq
<1>2. t \in [1..Len(s) -> S] /\ DOMAIN t = DOMAIN s
  BY <1>1
<1>3. t \in Seq(S)
  BY <1>1, <1>2
<1>4. Len(t) = Len(s)
  BY <1>1, <1>2, <1>3, LenProperties
<1>5. t = <<>> <=> s = <<>>
  BY <1>3, <1>4, EmptySeq, SeqEqual
<1>6. ASSUME NEW x \in S, s = <<x>>
      PROVE  t = <<g[x]>>
  <2>1. DOMAIN s = 1..1 /\ s[1] = x
    BY <1>6
  <2>2. t = [i \in 1..1 |-> g[x]]
    BY <2>1
  <2> HIDE DEF t
  <2>3. <<g[x]>> = [i \in 1..1 |-> g[x]]
    OBVIOUS
  <2> QED BY <2>2, <2>3
<1> QED BY <1>3, <1>5, <1>6

\* Daemon e's connections change by g.
Changes(e, g) == daemon' = [daemon EXCEPT ![e].conn = g[@],
                                          ![e].backlog = [i \in DOMAIN @ |-> g[@[i]]]]

\* What such a change leaves alone, and what it makes of one connection.
LEMMA ChangesMoves ==
    ASSUME Types, NEW e \in Daemons, NEW g \in [Connections -> Connections], Changes(e, g)
    PROVE  \E r \in DaemonRecords :
              /\ Moves(e, r) /\ r.at = daemon[e].at /\ r.watched = daemon[e].watched
              /\ r.polled = daemon[e].polled /\ r.running = daemon[e].running
              /\ r.fresh = daemon[e].fresh
              /\ r.conn = g[daemon[e].conn]
              /\ r.backlog = <<>> <=> daemon[e].backlog = <<>>
              /\ \A x \in Connections : daemon[e].backlog = <<x>> => r.backlog = <<g[x]>>
<1> DEFINE t == [i \in DOMAIN daemon[e].backlog |-> g[daemon[e].backlog[i]]]
           k == g[daemon[e].conn]
           r == [daemon[e] EXCEPT !.conn = k, !.backlog = t]
<1>1. daemon[e] \in DaemonRecords
  BY DEF Types
<1>2. t \in Seq(Connections) /\ (t = <<>> <=> daemon[e].backlog = <<>>)
      /\ \A x \in Connections : daemon[e].backlog = <<x>> => t = <<g[x]>>
  <2>1. daemon[e].backlog \in Seq(Connections)
    BY <1>1 DEF DaemonRecords
  <2> QED BY <2>1, BacklogMap
<1>3. k \in Connections
  BY <1>1 DEF DaemonRecords
<1>4. daemon' = [daemon EXCEPT ![e] = r]
  BY DEF Changes
<1> HIDE DEF t, k
<1>5. r \in DaemonRecords /\ r.at = daemon[e].at /\ r.watched = daemon[e].watched
      /\ r.polled = daemon[e].polled /\ r.running = daemon[e].running
      /\ r.fresh = daemon[e].fresh /\ r.conn = k /\ r.backlog = t
  BY <1>1, <1>2, <1>3 DEF DaemonRecords
<1> HIDE DEF r
<1>6. Moves(e, r)
  BY <1>4, <1>5, SetDaemon
<1> QED BY <1>2, <1>5, <1>6 DEF k

\* It leaves the types and the daemons' invariant alone.
LEMMA ChangesInv ==
    ASSUME Inv, NEW e \in Daemons, NEW g \in [Connections -> Connections], Changes(e, g),
           g[NoConnection] = NoConnection, client' \in [Clients -> ClientRecords],
           UNCHANGED <<alive, limited, sock>>
    PROVE  Types' /\ DaemonInv'
<1>1. PICK r \in DaemonRecords :
         /\ Moves(e, r) /\ r.at = daemon[e].at /\ r.watched = daemon[e].watched
         /\ r.polled = daemon[e].polled /\ r.running = daemon[e].running
         /\ r.fresh = daemon[e].fresh /\ r.conn = g[daemon[e].conn]
         /\ r.backlog = <<>> <=> daemon[e].backlog = <<>>
  BY ChangesMoves DEF Inv
<1>2. Types'
  BY <1>1, MovesTypes DEF Inv, Types
<1>3. ASSUME r.at = "off"
      PROVE  r = Off
  <2>1. daemon[e] = Off
    BY <1>1, <1>3 DEF Inv, DaemonInv, DaemonAt
  <2>2. r.at = Off.at /\ r.watched = Off.watched /\ r.polled = Off.polled
        /\ r.running = Off.running /\ r.fresh = Off.fresh
        /\ r.conn = NoConnection /\ r.backlog = <<>>
    BY <1>1, <2>1 DEF Off
  <2> QED BY <2>2 DEF Off, DaemonRecords
<1>4. DaemonInv'
  <2>1. ~r.running => r.at \in {"deaths", "close"}
    BY <1>1 DEF Inv, DaemonInv
  <2>2. r.at = "accept" => r.backlog # <<>>
    BY <1>1 DEF Inv, DaemonInv, DaemonAt
  <2> QED BY <1>1, <1>3, <2>1, <2>2, MovesInv DEF Inv
<1> QED BY <1>2, <1>4

\* The two changes that a client makes: it sends, and it hangs up.
Sends(c) == [k \in Connections |-> IF k.from = c /\ k.open THEN [k EXCEPT !.sent = TRUE] ELSE k]
HangsUp(c) == [k \in Connections |-> IF k.from = c /\ k.open THEN HungUp(k) ELSE k]

\* Both make connections of connections, and none of none.
LEMMA ChangesTyped ==
    ASSUME NEW c \in Clients
    PROVE  /\ Sends(c) \in [Connections -> Connections] /\ Sends(c)[NoConnection] = NoConnection
           /\ HangsUp(c) \in [Connections -> Connections] /\ HangsUp(c)[NoConnection] = NoConnection
<1>1. NoConnection \in Connections /\ ~NoConnection.open
  BY FirstRecords DEF NoConnection
<1>2. ASSUME NEW k \in Connections
      PROVE  [k EXCEPT !.sent = TRUE] \in Connections /\ HungUp(k) \in Connections
  <2>1. [k EXCEPT !.sent = TRUE] \in Connections
    BY DEF Connections
  <2>2. [k EXCEPT !.from = "none", !.open = FALSE] \in Connections
    BY DEF Connections
  <2> QED BY <1>1, <2>1, <2>2 DEF HungUp
<1>3. Sends(c) \in [Connections -> Connections] /\ HangsUp(c) \in [Connections -> Connections]
  BY <1>2 DEF Sends, HangsUp
<1> QED BY <1>1, <1>3 DEF Sends, HangsUp

\* WithConnection is one of the two changes, or nothing when there is no daemon.
LEMMA WithSends ==
    ASSUME Types, NEW c \in Clients, NEW e \in Daemons \cup {NoDaemon},
           daemon' = WithConnection(e, c, LAMBDA k : [k EXCEPT !.sent = TRUE])
    PROVE  IF e \in Daemons THEN Changes(e, Sends(c)) ELSE daemon' = daemon
<1>1. daemon \in [Daemons -> DaemonRecords]
  BY DEF Types
<1>2. CASE e \in Daemons
  <2> DEFINE b == daemon[e].backlog
             k == daemon[e].conn
             g == Sends(c)
  <2>1. k \in Connections /\ \A i \in DOMAIN b : b[i] \in Connections
    <3>1. b \in Seq(Connections) /\ k \in Connections
      BY <1>1, <1>2 DEF DaemonRecords
    <3> QED BY <3>1, LenProperties, ElementOfSeq
  <2>2. g[k] = (IF k.from = c /\ k.open THEN [k EXCEPT !.sent = TRUE] ELSE k)
    BY <2>1 DEF Sends
  <2>3. [i \in DOMAIN b |-> g[b[i]]]
        = [i \in DOMAIN b |-> IF b[i].from = c /\ b[i].open THEN [b[i] EXCEPT !.sent = TRUE] ELSE b[i]]
    BY <2>1 DEF Sends
  <2> HIDE DEF g
  <2>4. daemon' = [daemon EXCEPT ![e].conn = g[k], ![e].backlog = [i \in DOMAIN b |-> g[b[i]]]]
    BY <2>2, <2>3 DEF WithConnection
  <2>5. Changes(e, g)
    BY <2>4 DEF Changes
  <2> QED BY <1>2, <2>5 DEF g
<1>3. CASE e \notin Daemons
  BY <1>1, <1>3 DEF WithConnection
<1> QED BY <1>2, <1>3

\* The same for a client that hangs up.
LEMMA WithHangsUp ==
    ASSUME Types, NEW c \in Clients, NEW e \in Daemons \cup {NoDaemon},
           daemon' = WithConnection(e, c, HungUp)
    PROVE  IF e \in Daemons THEN Changes(e, HangsUp(c)) ELSE daemon' = daemon
<1>1. daemon \in [Daemons -> DaemonRecords]
  BY DEF Types
<1>2. CASE e \in Daemons
  <2> DEFINE b == daemon[e].backlog
             k == daemon[e].conn
             g == HangsUp(c)
  <2>1. k \in Connections /\ \A i \in DOMAIN b : b[i] \in Connections
    <3>1. b \in Seq(Connections) /\ k \in Connections
      BY <1>1, <1>2 DEF DaemonRecords
    <3> QED BY <3>1, LenProperties, ElementOfSeq
  <2>2. g[k] = (IF k.from = c /\ k.open THEN HungUp(k) ELSE k)
    BY <2>1 DEF HangsUp
  <2>3. [i \in DOMAIN b |-> g[b[i]]]
        = [i \in DOMAIN b |-> IF b[i].from = c /\ b[i].open THEN HungUp(b[i]) ELSE b[i]]
    BY <2>1 DEF HangsUp
  <2> HIDE DEF g
  <2>4. daemon' = [daemon EXCEPT ![e].conn = g[k], ![e].backlog = [i \in DOMAIN b |-> g[b[i]]]]
    BY <2>2, <2>3 DEF WithConnection
  <2>5. Changes(e, g)
    BY <2>4 DEF Changes
  <2> QED BY <1>2, <2>5 DEF g
<1>3. CASE e \notin Daemons
  BY <1>1, <1>3 DEF WithConnection
<1> QED BY <1>2, <1>3

\* The calm connection is sent.
LEMMA SendCarries ==
    ASSUME Inv, NEW c \in Clients, NEW d \in Daemons, Connected(c, d, FALSE), Changes(d, Sends(c)),
           alive' = alive, client'[c].cmd = client[c].cmd, client'[c].pid = client[c].pid
    PROVE  /\ Carries(d, Link(c, TRUE))' /\ OthersAtRest(d)' /\ ~DaemonAt(d, "serve")'
           /\ \A x \in Daemons : daemon'[x].watched = daemon[x].watched
<1> DEFINE g == Sends(c)
           old == Link(c, FALSE)
           new == Link(c, TRUE)
<1>1. old \in Connections /\ new \in Connections /\ g[old] = new
  <2>1. client[c] \in ClientRecords
    BY DEF Inv, Types
  <2>2. old \in Connections /\ new \in Connections
    BY <2>1 DEF Link, Connections, ClientRecords
  <2>3. /\ old.from = c /\ old.open = TRUE /\ new.from = c /\ new.open = TRUE /\ new.sent = TRUE
        /\ new.cmd = old.cmd /\ new.pid = old.pid
    BY DEF Link
  <2> HIDE DEF old, new
  <2> DEFINE k == [old EXCEPT !.sent = TRUE]
  <2>4. k \in Connections /\ k.from = old.from /\ k.open = old.open /\ k.sent = TRUE
        /\ k.cmd = old.cmd /\ k.pid = old.pid
    BY <2>2 DEF Connections
  <2>5. g[old] = k
    BY <2>2, <2>3 DEF Sends
  <2> HIDE DEF k
  <2>6. k = new
    BY <2>2, <2>3, <2>4 DEF Connections
  <2> QED BY <2>2, <2>5, <2>6
<1>2. Link(c, TRUE)' = new
  BY DEF Link
<1>3. g \in [Connections -> Connections]
  BY ChangesTyped
<1>4. /\ daemon[d].running /\ ~DaemonAt(d, "serve") /\ OthersAtRest(d)
      /\ ~DaemonAt(d, "poll") => daemon[d].polled = {}
      /\ \/ daemon[d].at \in {"poll", "accept"} /\ daemon[d].backlog = <<old>>
         \/ daemon[d].at \in {"read", "serve"} /\ daemon[d].backlog = <<>> /\ daemon[d].conn = old
  BY DEF Connected, Carries
<1>5. Changes(d, g)
  OBVIOUS
<1> HIDE DEF g, old, new
<1>6. PICK r \in DaemonRecords :
         /\ Moves(d, r) /\ r.at = daemon[d].at /\ r.watched = daemon[d].watched
         /\ r.polled = daemon[d].polled /\ r.running = daemon[d].running
         /\ r.conn = g[daemon[d].conn]
         /\ r.backlog = <<>> <=> daemon[d].backlog = <<>>
         /\ \A x \in Connections : daemon[d].backlog = <<x>> => r.backlog = <<g[x]>>
  BY <1>3, <1>5, ChangesMoves DEF Inv
<1>7. \/ daemon[d].at \in {"poll", "accept"} /\ r.backlog = <<new>>
      \/ daemon[d].at \in {"read", "serve"} /\ r.backlog = <<>> /\ r.conn = new
  BY <1>1, <1>4, <1>6
<1>8. Carries(d, Link(c, TRUE))'
  BY <1>2, <1>4, <1>6, <1>7 DEF Carries, Moves, DaemonAt
<1>9. OthersAtRest(d)'
  BY <1>4, <1>6, RestKept DEF Moves
<1> QED BY <1>4, <1>6, <1>8, <1>9 DEF Moves, DaemonAt

\* send_command.
LEMMA SendNext == ASSUME Inv, NEW c \in Clients, send_command(c) PROVE Inv'
<1>1. Types /\ client[c].at = "write" /\ UNCHANGED <<alive, limited, sock>> /\ ~ClientAt(c, "idle")
      /\ limited \subseteq Pids /\ client[c].peer \in Daemons \cup {NoDaemon}
  BY DEF Inv, Types, ClientRecords, send_command, ClientAt
<1>2. CASE /\ daemon' = WithConnection(client[c].peer, c, LAMBDA k : [k EXCEPT !.sent = TRUE])
           /\ GotoClient(c, "read")
  <2>1. PICK d \in Daemons \cup {NoDaemon} : d = client[c].peer
    BY <1>1
  <2>2. IF d \in Daemons THEN Changes(d, Sends(c)) ELSE daemon' = daemon
    <3>1. daemon' = WithConnection(d, c, LAMBDA k : [k EXCEPT !.sent = TRUE])
      BY <1>2, <2>1
    <3> QED BY <1>1, <3>1, WithSends
  <2>3. "read" \in ClientLabels
    BY DEF ClientLabels
  <2>4. PICK k \in ClientRecords :
           /\ client' = [client EXCEPT ![c] = k] /\ k.at = "read" /\ k.peer = client[c].peer
           /\ k.cmd = client[c].cmd /\ k.pid = client[c].pid /\ k.calm = client[c].calm
           /\ k.result = client[c].result
    <3>1. GotoClient(c, "read")
      BY <1>2
    <3> QED BY <1>1, <2>3, <3>1, GotoRecord
  <2>5. client' \in [Clients -> ClientRecords] /\ client'[c] = k
    BY <1>1, <2>4, SetClient
  <2>6. Types' /\ DaemonInv'
    <3>1. CASE d \in Daemons
      BY <1>1, <2>2, <2>5, <3>1, ChangesTyped, ChangesInv
    <3>2. CASE d \notin Daemons
      BY <1>1, <2>2, <2>4, <3>2, SameDaemons
    <3> QED BY <3>1, <3>2
  <2>7. ASSUME client[c].calm
        PROVE  Quiet(c)' /\ Phase(c)'
    <3>1. d \in Daemons /\ Connected(c, d, FALSE)
      BY <1>1, <2>1, <2>7 DEF Inv, Calm, Phase, Connected
    <3>2. /\ Carries(d, Link(c, TRUE))' /\ OthersAtRest(d)'
          /\ \A x \in Daemons : daemon'[x].watched = daemon[x].watched
      BY <1>1, <2>2, <2>4, <2>5, <3>1, SendCarries
    <3>3. Quiet(c)'
      BY <1>1, <2>4, <3>1, <3>2, QuietClient DEF Connected
    <3>4. Connected(c, d, TRUE)'
      BY <1>1, <2>1, <2>4, <2>5, <3>1, <3>2, <3>3 DEF Connected
    <3> QED BY <3>1, <3>4, ConnectedPhase
  <2> QED BY <1>1, <2>4, <2>6, <2>7, ClientMoves
<1>3. CASE client' = [client EXCEPT ![c] = Idle] /\ UNCHANGED daemon
  <2>1. Types' /\ DaemonInv'
    BY <1>1, <1>3, FirstRecords, SameDaemons
  <2> QED BY <1>1, <1>3, <2>1, FirstRecords, ClientMoves
<1> QED BY <1>2, <1>3 DEF send_command

\* read_result.
LEMMA ReadResultNext == ASSUME Inv, NEW c \in Clients, read_result(c) PROVE Inv'
<1>1. Types /\ client[c].at = "read" /\ UNCHANGED <<alive, limited, sock, daemon>>
      /\ ~ClientAt(c, "idle") /\ limited \subseteq Pids /\ client[c].result \in Results
  BY DEF Inv, Types, ClientRecords, read_result, ClientAt
<1>2. CASE client[c].result # "none" /\ Finished(c, client[c].result)
  <2>1. PICK k \in ClientRecords :
           /\ client' = [client EXCEPT ![c] = k] /\ k.at = "finish" /\ k.result = client[c].result
           /\ k.cmd = client[c].cmd /\ k.pid = client[c].pid /\ k.calm = client[c].calm
    BY <1>1, <1>2, FinishedRecord
  <2>2. Types' /\ DaemonInv' /\ client'[c] = k
    BY <1>1, <2>1, SameDaemons, SetClient
  <2>3. ASSUME client[c].calm
        PROVE  Quiet(c)' /\ Phase(c)'
    <3>1. Quiet(c) /\ OthersAtRest(sock) /\ (sock \in Daemons => Settling(sock)) /\ Outcome(c)
      BY <1>1, <1>2, <2>3 DEF Inv, Calm, Phase
    <3>2. Quiet(c)'
      BY <1>1, <2>1, <3>1, QuietClient
    <3>3. OthersAtRest(sock)' /\ (sock' \in Daemons => Settling(sock)')
      BY <1>1, <3>1 DEF OthersAtRest, Settling, AtRest, DaemonAt
    <3>4. Outcome(c)'
      BY <1>1, <2>1, <2>2, <3>1 DEF Outcome
    <3> QED BY <2>1, <2>2, <3>2, <3>3, <3>4 DEF Phase
  <2> QED BY <1>1, <2>1, <2>2, <2>3, ClientMoves
<1>3. CASE /\ client[c].result = "none" /\ ~HasConnection(client[c].peer, c)
           /\ Finished(c, "TIMEOUT")
  <2>1. "TIMEOUT" \in Results
    BY DEF Results
  <2>2. PICK k \in ClientRecords : client' = [client EXCEPT ![c] = k] /\ k.calm = client[c].calm
    BY <1>1, <1>3, <2>1, FinishedRecord
  <2>3. Types' /\ DaemonInv'
    BY <1>1, <2>2, SameDaemons
  <2>4. ~client[c].calm
    <3>1. SUFFICES ASSUME client[c].calm PROVE HasConnection(client[c].peer, c)
      BY <1>3
    <3> DEFINE d == client[c].peer
               link == Link(c, TRUE)
    <3>2. \/ daemon[d].backlog = <<link>>
          \/ daemon[d].conn = link
      BY <1>1, <1>3, <3>1 DEF Inv, Calm, Phase, Carries
    <3>3. link.from = c /\ link.open
      BY DEF Link
    <3> HIDE DEF d, link
    <3>4. CASE daemon[d].backlog = <<link>>
      <4>1. 1 \in DOMAIN daemon[d].backlog /\ daemon[d].backlog[1] = link
        BY <3>4
      <4>2. HasConnection(d, c)
        BY <3>3, <4>1 DEF HasConnection
      <4> QED BY <4>2 DEF d
    <3>5. CASE daemon[d].conn = link
      BY <3>3, <3>5 DEF HasConnection, d
    <3> QED BY <3>2, <3>4, <3>5
  <2> QED BY <1>1, <2>2, <2>3, <2>4, ClientMoves
<1> QED BY <1>2, <1>3 DEF read_result

\* A client that hangs up leaves the types and the daemons' invariant alone.
LEMMA HangUpKeeps ==
    ASSUME Inv, NEW c \in Clients, NEW k \in ClientRecords, client' = [client EXCEPT ![c] = k],
           daemon' = WithConnection(client[c].peer, c, HungUp), UNCHANGED <<alive, limited, sock>>
    PROVE  Types' /\ DaemonInv'
<1>1. Types /\ client[c].peer \in Daemons \cup {NoDaemon} /\ limited \subseteq Pids
  BY DEF Inv, Types, ClientRecords
<1>2. PICK d \in Daemons \cup {NoDaemon} : d = client[c].peer
  BY <1>1
<1>3. IF d \in Daemons THEN Changes(d, HangsUp(c)) ELSE daemon' = daemon
  <2>1. daemon' = WithConnection(d, c, HungUp)
    BY <1>2
  <2> QED BY <1>1, <2>1, WithHangsUp
<1>4. client' \in [Clients -> ClientRecords]
  BY <1>1, SetClient
<1>5. CASE d \in Daemons
  BY <1>1, <1>3, <1>4, <1>5, ChangesTyped, ChangesInv
<1>6. CASE d \notin Daemons
  BY <1>1, <1>3, <1>6, SameDaemons
<1> QED BY <1>5, <1>6

\* give_up.
LEMMA GiveUpNext == ASSUME Inv, NEW c \in Clients, give_up(c) PROVE Inv'
<1>1. Types /\ UNCHANGED <<alive, limited, sock>> /\ ~ClientAt(c, "idle") /\ limited \subseteq Pids
      /\ "CONNECT" \in Results /\ "TIMEOUT" \in Results
  BY DEF Inv, Types, give_up, ClientAt, Results
<1>2. CASE TimedOut(c, "CONNECT") /\ UNCHANGED daemon
  <2>1. PICK k \in ClientRecords : client' = [client EXCEPT ![c] = k] /\ ~k.calm
    BY <1>1, <1>2, TimedOutRecord
  <2>2. Types' /\ DaemonInv'
    BY <1>1, <1>2, <2>1, SameDaemons
  <2> QED BY <1>1, <2>1, <2>2, ClientMoves
<1>3. CASE daemon' = WithConnection(client[c].peer, c, HungUp) /\ TimedOut(c, "TIMEOUT")
  <2>1. PICK k \in ClientRecords : client' = [client EXCEPT ![c] = k] /\ ~k.calm
    <3>1. TimedOut(c, "TIMEOUT")
      BY <1>3
    <3> QED BY <1>1, <3>1, TimedOutRecord
  <2>2. Types' /\ DaemonInv'
    BY <1>1, <1>3, <2>1, HangUpKeeps
  <2> QED BY <1>1, <2>1, <2>2, ClientMoves
<1> QED BY <1>2, <1>3 DEF give_up

\* Kill.
LEMMA KillNext == ASSUME Inv, NEW c \in Clients, Kill(c) PROVE Inv'
<1>1. Types /\ UNCHANGED <<alive, limited, sock>> /\ ~ClientAt(c, "idle") /\ limited \subseteq Pids
      /\ client' = [client EXCEPT ![c] = Idle] /\ Idle \in ClientRecords /\ ~Idle.calm
  BY FirstRecords DEF Inv, Types, Kill
<1>2. CASE daemon' = WithConnection(client[c].peer, c, HungUp)
  <2>1. Types' /\ DaemonInv'
    BY <1>1, <1>2, HangUpKeeps
  <2> QED BY <1>1, <2>1, ClientMoves
<1>3. CASE daemon' = daemon
  <2>1. Types' /\ DaemonInv'
    BY <1>1, <1>3, SameDaemons
  <2> QED BY <1>1, <2>1, ClientMoves
<1> QED BY <1>2, <1>3 DEF Kill

\* finish.
LEMMA FinishNext == ASSUME Inv, NEW c \in Clients, finish(c) PROVE Inv'
<1>1. Types /\ UNCHANGED <<alive, sock, daemon>> /\ ~ClientAt(c, "idle")
      /\ client' = [client EXCEPT ![c] = Idle] /\ Idle \in ClientRecords /\ ~Idle.calm
  BY FirstRecords DEF Inv, finish, ClientAt
<1>2. limited' \subseteq Pids
  BY DEF Inv, Types, finish
<1>3. Types' /\ DaemonInv'
  BY <1>1, <1>2, SameDaemons
<1> QED BY <1>1, <1>3, ClientMoves

\* A daemon at rest has nothing in its table but running processes.
LEMMA RestWatches ==
    ASSUME Inv, NEW d \in Daemons, AtRest(d)
    PROVE  daemon[d].watched \subseteq alive
BY FirstRecords DEF Inv, DaemonInv, AtRest, DaemonAt

\* A command begins: it is calm when it finds everything at rest, and no other
\* command is calm from here on.
LEMMA BeginNext ==
    ASSUME Inv, NEW c \in Clients, NEW cmd \in Commands, NEW p \in Pids \cup {"none"},
           cmd = "WATCH" => p \in alive, Begin(c, cmd, p),
           limited' \subseteq Pids, UNCHANGED <<alive, sock, daemon>>
    PROVE  Inv'
<1> DEFINE calm == /\ \A y \in Clients \ {c} : ClientAt(y, "idle")
                   /\ \A d \in Daemons : AtRest(d)
                   /\ \E d \in Daemons : DaemonAt(d, "off")
           k == [Idle EXCEPT !.at = "connect", !.cmd = cmd, !.pid = p, !.calm = calm]
<1>1. Types
  BY DEF Inv
<1>2. client' = [x \in Clients |-> IF x # c THEN [client[x] EXCEPT !.calm = FALSE] ELSE k]
  BY DEF Begin
<1>3. calm \in BOOLEAN
  OBVIOUS
<1>4. calm => /\ \A y \in Clients \ {c} : client[y].at = "idle"
              /\ AllAtRest /\ \E d \in Daemons : DaemonAt(d, "off")
  BY DEF AllAtRest, ClientAt
<1> HIDE DEF calm
<1>5. k \in ClientRecords /\ k.at = "connect" /\ k.cmd = cmd /\ k.pid = p /\ k.result = "none"
      /\ k.calm = calm
  BY <1>3, FirstRecords DEF Idle, ClientRecords, ClientLabels, Results
<1> HIDE DEF k
<1>6. ASSUME NEW x \in Clients, x # c
      PROVE  client'[x] \in ClientRecords /\ client'[x].at = client[x].at /\ ~client'[x].calm
  <2> DEFINE n == [client[x] EXCEPT !.calm = FALSE]
  <2>1. client[x] \in ClientRecords
    BY <1>1 DEF Types
  <2>2. n \in ClientRecords /\ n.at = client[x].at /\ ~n.calm
    BY <2>1 DEF ClientRecords
  <2>3. client'[x] = n
    BY <1>2, <1>6
  <2> HIDE DEF n
  <2> QED BY <2>2, <2>3
<1>7. client'[c] = k
  BY <1>2
<1>8. client' \in [Clients -> ClientRecords]
  <2>1. \A x \in Clients : client'[x] \in ClientRecords
    BY <1>5, <1>6, <1>7
  <2>2. client' = [x \in Clients |-> client'[x]]
    BY <1>2
  <2> QED BY <2>1, <2>2
<1>9. Types' /\ DaemonInv'
  BY <1>8 DEF Inv, Types, DaemonInv, DaemonAt
<1>10. ASSUME calm
       PROVE  Quiet(c)' /\ Phase(c)'
  <2>1. \A d \in Daemons : daemon[d].watched \subseteq alive
    BY <1>4, <1>10, RestWatches DEF AllAtRest
  <2>2. Quiet(c)'
    BY <1>4, <1>5, <1>6, <1>7, <1>10, <2>1 DEF Quiet, ClientAt
  <2>3. AllAtRest' /\ \E d \in Daemons : DaemonAt(d, "off")'
    BY <1>4, <1>10 DEF AllAtRest, AtRest, DaemonAt
  <2> QED BY <1>5, <1>7, <2>2, <2>3 DEF Phase
<1>11. Calm'
  BY <1>5, <1>6, <1>7, <1>10 DEF Calm
<1> QED BY <1>9, <1>11 DEF Inv

\* The three operations that send a command.
LEMMA StartNext == ASSUME Inv, NEW c \in Clients, Start(c) PROVE Inv'
<1>1. alive \subseteq Pids /\ limited \subseteq Pids
      /\ "WATCH" \in Commands /\ "UNWATCH" \in Commands /\ "STOP" \in Commands
  BY DEF Inv, Types, Commands
<1>2. ASSUME NEW p \in Pids, limit_process_bandwidth(c, p)
      PROVE  Inv'
  <2>1. p \in alive /\ limited' = limited \cup {p} /\ UNCHANGED <<alive, sock, daemon>>
        /\ Begin(c, "WATCH", p)
    BY <1>2 DEF limit_process_bandwidth
  <2>2. limited' \subseteq Pids
    BY <1>1, <2>1
  <2> QED BY <1>1, <2>1, <2>2, BeginNext
<1>3. ASSUME NEW p \in Pids, unregister_rate_limiter_by_pid(c, p)
      PROVE  Inv'
  <2>1. UNCHANGED <<alive, limited, sock, daemon>> /\ Begin(c, "UNWATCH", p)
    BY <1>3 DEF unregister_rate_limiter_by_pid
  <2> QED BY <1>1, <2>1, BeginNext
<1>4. ASSUME ratelimit_cleanup_all(c)
      PROVE  Inv'
  <2>1. limited' = {} /\ UNCHANGED <<alive, sock, daemon>> /\ Begin(c, "STOP", "none")
    BY <1>4 DEF ratelimit_cleanup_all
  <2>2. limited' \subseteq Pids /\ "none" \in Pids \cup {"none"}
    BY <2>1
  <2> QED BY <1>1, <2>1, <2>2, BeginNext
<1> QED BY <1>2, <1>3, <1>4 DEF Start

\* Die.
LEMMA DieNext == ASSUME Inv, NEW p \in Pids, Die(p) PROVE Inv'
<1>1. Types /\ alive' = alive \ {p} /\ UNCHANGED <<limited, sock, daemon>>
      /\ client' = [c \in Clients |-> [client[c] EXCEPT !.calm = FALSE]]
  BY DEF Inv, Die
<1>2. ASSUME NEW c \in Clients
      PROVE  client'[c] \in ClientRecords /\ ~client'[c].calm
  <2> DEFINE n == [client[c] EXCEPT !.calm = FALSE]
  <2>1. client[c] \in ClientRecords
    BY <1>1 DEF Types
  <2>2. n \in ClientRecords /\ ~n.calm
    BY <2>1 DEF ClientRecords
  <2>3. client'[c] = n
    BY <1>1
  <2> HIDE DEF n
  <2> QED BY <2>2, <2>3
<1>3. client' \in [Clients -> ClientRecords]
  <2>1. client' = [c \in Clients |-> client'[c]]
    BY <1>1
  <2> QED BY <1>2, <2>1
<1>4. Types' /\ DaemonInv'
  BY <1>1, <1>3 DEF Inv, Types, DaemonInv, DaemonAt
<1>5. Calm'
  BY <1>2 DEF Calm
<1> QED BY <1>4, <1>5 DEF Inv

\* A step that changes nothing.
LEMMA StutterInv == ASSUME Inv, UNCHANGED vars PROVE Inv'
<1>1. Types' /\ DaemonInv'
  BY DEF Inv, vars, Types, DaemonInv, DaemonAt
<1>2. ASSUME NEW c \in Clients, client[c].calm
      PROVE  Quiet(c)' /\ Phase(c)'
  <2>1. Quiet(c) /\ Phase(c)
    BY <1>2 DEF Inv, Calm
  <2>2. Quiet(c)'
    BY <2>1 DEF vars, Quiet, ClientAt
  <2>3. Phase(c)'
    BY <2>1, SMTT(30)
       DEF vars, Phase, ClientAt, DaemonAt, AllAtRest, OthersAtRest, AtRest, Starting, Carries,
           Link, Settling, Outcome
  <2> QED BY <2>2, <2>3
<1>3. Calm'
  BY <1>2 DEF vars, Calm
<1> QED BY <1>1, <1>3 DEF Inv

\* Every step keeps the invariant.
LEMMA NextInv == ASSUME Inv, [Next]_vars PROVE Inv'
<1>1. ASSUME NEW d \in Daemons, DaemonStep(d) PROVE Inv'
  BY <1>1, DaemonStepInv
<1>2. ASSUME NEW c \in Clients, ClientStep(c) PROVE Inv'
  BY <1>2, MonitorConnectNext, ForkNext, SendNext, ReadResultNext, FinishNext DEF ClientStep
<1>3. ASSUME NEW c \in Clients, Start(c) \/ give_up(c) \/ Kill(c) PROVE Inv'
  BY <1>3, StartNext, GiveUpNext, KillNext
<1>4. ASSUME NEW p \in Pids, Die(p) PROVE Inv'
  BY <1>4, DieNext
<1>5. CASE UNCHANGED vars
  BY <1>5, StutterInv
<1> QED BY <1>1, <1>2, <1>3, <1>4, <1>5 DEF Next

\* The inductive invariant holds throughout.
LEMMA Invariance == Spec => []Inv
BY InitInv, NextInv, PTL DEF Spec

\* Every variable keeps its type, and however the commands, the deaths and the
\* daemons' exits interleave, no watch table grows past its slots
\* (MAX_WATCHED_PIDS, add_pid_to_watch).
THEOREM TypeCorrect == Spec => []TypeOK
<1>1. Inv => TypeOK
  <2> SUFFICES ASSUME Inv PROVE TypeOK
    OBVIOUS
  <2>1. \A d \in Daemons : daemon[d] \in DaemonRecords /\ Table(daemon[d].watched)
    BY DEF Inv, Types
  <2>2. \A c \in Clients : client[c] \in ClientRecords
    BY DEF Inv, Types
  <2> QED BY <2>1, <2>2 DEF Inv, Types, TypeOK, Table, DaemonRecords, ClientRecords
<1> QED BY <1>1, Invariance, PTL

\* A command that starts when every daemon is at rest and that runs alone does
\* what it should (send_command and monitor_run): a WATCH ends
\* in the table of the daemon behind the path unless the table is full, an
\* UNWATCH outside of it, and a STOP is answered.  It does, whatever socket
\* path, orphaned daemons and abandoned connections were left before it.
THEOREM CalmCommandCorrect == Spec => []CalmCommand
<1>1. Inv => CalmCommand
  <2> SUFFICES ASSUME Inv, NEW c \in Clients, ClientAt(c, "finish"), client[c].calm
               PROVE  CASE client[c].cmd = "WATCH" ->
                             \/ client[c].result = "OK" /\ sock # NoDaemon
                                  /\ client[c].pid \in daemon[sock].watched
                             \/ client[c].result = "SLOTS"
                        [] client[c].cmd = "UNWATCH" ->
                             /\ client[c].result \in {"OK", "NOT_FOUND"}
                             /\ sock # NoDaemon => client[c].pid \notin daemon[sock].watched
                        [] OTHER -> client[c].result = "OK"
    BY DEF CalmCommand
  <2>1. Outcome(c) /\ client[c].cmd \in Commands
    BY DEF Inv, Calm, Quiet, Phase, ClientAt
  <2>2. sock \in Daemons \cup {NoDaemon}
    BY DEF Inv, Types
  <2>3. CASE client[c].cmd = "WATCH"
    BY <2>1, <2>3, MonitorAssumption DEF Outcome
  <2>4. CASE client[c].cmd = "UNWATCH"
    BY <2>1, <2>2, <2>4 DEF Outcome
  <2>5. CASE client[c].cmd = "STOP"
    BY <2>1, <2>5 DEF Outcome
  <2> QED BY <2>1, <2>3, <2>4, <2>5 DEF Commands
<1> QED BY <1>1, Invariance, PTL
=============================================================================
