------------------------------- MODULE Monitor -------------------------------
(***************************************************************************)
(* The monitor daemon of lib/src/monitor.c and its clients.  A client that *)
(* finds no daemon behind the socket path forks one; a daemon watches pids *)
(* through their pidfds, takes one command per connection, unregisters the *)
(* pids that exit and itself exits when it watches nothing.  Nothing keeps *)
(* two clients from starting two daemons, or a daemon from exiting while a *)
(* connection waits in its backlog.                                        *)
(*                                                                         *)
(* The rate limits themselves are one set here; RateLimit has the detail.  *)
(***************************************************************************)
EXTENDS Naturals, FiniteSets, Sequences

CONSTANTS
    Pids,              \* process ids
    Clients,           \* processes that use the library: CLI and GUI backend
    Daemons,           \* daemon processes that can exist at the same time
    NoDaemon,          \* no daemon, no socket
    MAX_WATCHED_PIDS,  \* slots of the watch table
    BACKLOG,           \* the argument of listen()
    Ops,               \* the library operations the clients use
    Timeouts,          \* whether DAEMON_TIMEOUT_MS may pass while a client waits
    Kills              \* whether a client may be killed in the middle of a command

ASSUME MonitorAssumption ==
    /\ NoDaemon \notin Daemons
    /\ MAX_WATCHED_PIDS \in Nat \ {0}
    /\ BACKLOG \in Nat
    /\ Ops \subseteq {"limit", "unregister", "clean"}
    /\ Timeouts \in BOOLEAN /\ Kills \in BOOLEAN

VARIABLES
    alive,      \* the pids that name a running process
    limited,    \* the pids that have a rate limit
    sock,       \* the daemon whose socket is bound to MONITOR_SOCKET_PATH
    daemon,     \* each daemon's position, watch table, backlog and connection
    client      \* each client's position and command

vars == <<alive, limited, sock, daemon, client>>

\* A connection: the command it carries once sent, and whether its client
\* still has it open.
Connection(c) == [from |-> c, cmd |-> client[c].cmd, pid |-> client[c].pid,
                  sent |-> FALSE, open |-> TRUE]
NoConnection == [from |-> "none", cmd |-> "none", pid |-> "none", sent |-> FALSE, open |-> FALSE]

\* History: a daemon is fresh until it has served a command.
Off == [at |-> "off", watched |-> {}, polled |-> {}, running |-> TRUE, fresh |-> TRUE,
        backlog |-> <<>>, conn |-> NoConnection]
Idle == [at |-> "idle", cmd |-> "none", pid |-> "none", peer |-> NoDaemon,
         result |-> "none", calm |-> FALSE]

Init ==
    /\ alive = Pids
    /\ limited = {}
    /\ sock = NoDaemon
    /\ daemon = [d \in Daemons |-> Off]
    /\ client = [c \in Clients |-> Idle]

DaemonAt(d, label) == daemon[d].at = label
ClientAt(c, label) == client[c].at = label

GotoDaemon(d, label) == daemon' = [daemon EXCEPT ![d].at = label]
GotoClient(c, label) == client' = [client EXCEPT ![c].at = label]

\* listen() has been called on the daemon's socket and it is still open.
Listening(d) == daemon[d].at \in {"notify", "poll", "accept", "read", "serve", "deaths", "close"}
Reachable == sock \in Daemons /\ Listening(sock)

\* The daemon's end of c's connection, in the backlog or accepted.
HasConnection(d, c) ==
    \/ daemon[d].conn.from = c /\ daemon[d].conn.open
    \/ \E i \in DOMAIN daemon[d].backlog :
          daemon[d].backlog[i].from = c /\ daemon[d].backlog[i].open

\* Daemon d after client c's end of its connection changed by f.
WithConnection(d, c, f(_)) ==
    LET change(k) == IF k.from = c /\ k.open THEN f(k) ELSE k
    IN  [daemon EXCEPT ![d].conn = change(@),
                       ![d].backlog = [i \in DOMAIN @ |-> change(@[i])]]
-----------------------------------------------------------------------------
(***************************************************************************)
(* The clients: the library operations, as far as the monitor sees them,   *)
(* and send_command.                                                       *)
(***************************************************************************)

\* History: a command is calm when it runs alone, no process exits during
\* it, and it finds every daemon at rest or gone.
AtRest(d) ==
    \/ DaemonAt(d, "off")
    \/ DaemonAt(d, "poll") /\ daemon[d].backlog = <<>> /\ daemon[d].watched \subseteq alive

Begin(c, cmd, p) ==
    client' = [x \in Clients |->
        IF x # c THEN [client[x] EXCEPT !.calm = FALSE]
        ELSE [Idle EXCEPT !.at = "connect", !.cmd = cmd, !.pid = p,
                          !.calm = /\ \A y \in Clients \ {c} : ClientAt(y, "idle")
                                   /\ \A d \in Daemons : AtRest(d)
                                   /\ \E d \in Daemons : DaemonAt(d, "off")]]

\* limit_process_bandwidth: the limit is in place when the pid is reported.
limit_process_bandwidth(c, p) ==
    /\ "limit" \in Ops /\ ClientAt(c, "idle") /\ p \in alive
    /\ limited' = limited \cup {p}
    /\ Begin(c, "WATCH", p)
    /\ UNCHANGED <<alive, sock, daemon>>

\* unregister_rate_limiter_by_pid: the pid is reported first.
unregister_rate_limiter_by_pid(c, p) ==
    /\ "unregister" \in Ops /\ ClientAt(c, "idle")
    /\ Begin(c, "UNWATCH", p)
    /\ UNCHANGED <<alive, limited, sock, daemon>>

\* ratelimit_cleanup_all: the daemon is told last.
ratelimit_cleanup_all(c) ==
    /\ "clean" \in Ops /\ ClientAt(c, "idle")
    /\ limited' = {}
    /\ Begin(c, "STOP", "none")
    /\ UNCHANGED <<alive, sock, daemon>>

Finished(c, code) ==
    client' = [client EXCEPT ![c].at = "finish", ![c].result = code, ![c].peer = NoDaemon]
TimedOut(c, code) ==
    client' = [client EXCEPT ![c].at = "finish", ![c].result = code, ![c].peer = NoDaemon,
                             ![c].calm = FALSE]

\* monitor_connect: to start with, and once more after a daemon was forked.
\* A path without a listening socket behind it refuses; only monitor_stop is
\* content with that.  A full backlog makes it wait.
monitor_connect(c) ==
    /\ client[c].at \in {"connect", "reconnect"}
    /\ \/ /\ Reachable /\ Len(daemon[sock].backlog) <= BACKLOG
          /\ daemon' = [daemon EXCEPT ![sock].backlog = Append(@, Connection(c))]
          /\ client' = [client EXCEPT ![c].at = "write", ![c].peer = sock]
       \/ /\ ~Reachable
          /\ CASE client[c].cmd = "STOP" -> Finished(c, "OK")
               [] client[c].cmd # "STOP" /\ ClientAt(c, "connect") -> GotoClient(c, "fork")
               [] OTHER -> Finished(c, "CONNECT")
          /\ UNCHANGED daemon
    /\ UNCHANGED <<alive, limited, sock>>

\* The double fork of monitor_ensure_running; it fails when no process is
\* left.
fork_daemon(c) ==
    /\ ClientAt(c, "fork")
    /\ \/ \E d \in Daemons :
             /\ DaemonAt(d, "off")
             /\ GotoDaemon(d, "unlink")
             /\ client' = [client EXCEPT ![c].at = "wait_daemon", ![c].peer = d]
       \/ /\ \A d \in Daemons : ~DaemonAt(d, "off")
          /\ Finished(c, "CONNECT")
          /\ UNCHANGED daemon
    /\ UNCHANGED <<alive, limited, sock>>

\* A write on a connection the daemon has closed raises SIGPIPE, which no
\* front end ignores: the operation ends here.
send_command(c) ==
    LET d == client[c].peer
        sent(k) == [k EXCEPT !.sent = TRUE]
    IN  /\ ClientAt(c, "write")
        /\ \/ HasConnection(d, c) /\ daemon' = WithConnection(d, c, sent) /\ GotoClient(c, "read")
           \/ ~HasConnection(d, c) /\ client' = [client EXCEPT ![c] = Idle] /\ UNCHANGED daemon
        /\ UNCHANGED <<alive, limited, sock>>

\* The answer, or the end of a connection that was closed without one.
read_result(c) ==
    /\ ClientAt(c, "read")
    /\ \/ client[c].result # "none" /\ Finished(c, client[c].result)
       \/ client[c].result = "none" /\ ~HasConnection(client[c].peer, c) /\ Finished(c, "TIMEOUT")
    /\ UNCHANGED <<alive, limited, sock, daemon>>

\* The client closes its end; what it has sent stays in the socket.
HungUp(k) == IF k.sent THEN [k EXCEPT !.from = "none", !.open = FALSE] ELSE NoConnection

\* poll on the ready pipe, or the read with SO_RCVTIMEO, gives up.  A
\* command that timed out is not calm.
give_up(c) ==
    /\ Timeouts
    /\ \/ ClientAt(c, "wait_daemon") /\ TimedOut(c, "CONNECT") /\ UNCHANGED daemon
       \/ /\ ClientAt(c, "read") /\ client[c].result = "none"
          /\ daemon' = WithConnection(client[c].peer, c, HungUp)
          /\ TimedOut(c, "TIMEOUT")
    /\ UNCHANGED <<alive, limited, sock>>

\* The operations ignore the result; an unregister now deletes the limit.
finish(c) ==
    /\ ClientAt(c, "finish")
    /\ limited' = IF client[c].cmd = "UNWATCH" THEN limited \ {client[c].pid} ELSE limited
    /\ client' = [client EXCEPT ![c] = Idle]
    /\ UNCHANGED <<alive, sock, daemon>>

Kill(c) ==
    /\ Kills /\ ~ClientAt(c, "idle")
    /\ daemon' = IF client[c].at \in {"write", "read"}
                 THEN WithConnection(client[c].peer, c, HungUp) ELSE daemon
    /\ client' = [client EXCEPT ![c] = Idle]
    /\ UNCHANGED <<alive, limited, sock>>
-----------------------------------------------------------------------------
(***************************************************************************)
(* The daemon: monitor_run.                                                *)
(***************************************************************************)

\* The end of a daemon wakes the client that waits for it.
WakeParent(d) ==
    [c \in Clients |-> IF ClientAt(c, "wait_daemon") /\ client[c].peer = d
                       THEN [client[c] EXCEPT !.at = "reconnect", !.peer = NoDaemon] ELSE client[c]]

\* Mutant: a socket path that is already there is left alone.
unlink_path_skipped(d) ==
    /\ DaemonAt(d, "unlink")
    /\ GotoDaemon(d, "bind")
    /\ UNCHANGED <<alive, limited, sock, client>>

unlink_path(d) ==
    /\ DaemonAt(d, "unlink")
    /\ sock' = NoDaemon
    /\ GotoDaemon(d, "bind")
    /\ UNCHANGED <<alive, limited, client>>

\* bind fails when another daemon was faster, and the daemon exits.
bind_path(d) ==
    /\ DaemonAt(d, "bind")
    /\ \/ sock = NoDaemon /\ sock' = d /\ GotoDaemon(d, "listen") /\ UNCHANGED client
       \/ /\ sock # NoDaemon
          /\ daemon' = [daemon EXCEPT ![d] = Off]
          /\ client' = WakeParent(d)
          /\ UNCHANGED sock
    /\ UNCHANGED <<alive, limited>>

listen_socket(d) ==
    /\ DaemonAt(d, "listen")
    /\ GotoDaemon(d, "notify")
    /\ UNCHANGED <<alive, limited, sock, client>>

\* Mutant: the parent is not told that the socket is ready.
notify_parent_forgotten(d) ==
    /\ DaemonAt(d, "notify")
    /\ GotoDaemon(d, "poll")
    /\ UNCHANGED <<alive, limited, sock, client>>

\* Tell the parent; SIGPIPE is not ignored yet, so that the daemon dies,
\* its path still bound, when the parent is gone.
notify_parent(d) ==
    LET waiting == \E c \in Clients : ClientAt(c, "wait_daemon") /\ client[c].peer = d
    IN  /\ DaemonAt(d, "notify")
        /\ IF waiting THEN GotoDaemon(d, "poll") ELSE daemon' = [daemon EXCEPT ![d] = Off]
        /\ client' = WakeParent(d)
        /\ UNCHANGED <<alive, limited, sock>>

\* poll returns when a connection waits or a watched process has exited.
poll_events(d) ==
    LET dead == daemon[d].watched \ alive
        waiting == daemon[d].backlog # <<>>
    IN  /\ DaemonAt(d, "poll")
        /\ waiting \/ dead # {}
        /\ daemon' = [daemon EXCEPT ![d].at = IF waiting THEN "accept" ELSE "deaths",
                                    ![d].polled = dead]
        /\ UNCHANGED <<alive, limited, sock, client>>

accept_client(d) ==
    /\ DaemonAt(d, "accept")
    /\ daemon' = [daemon EXCEPT ![d].at = "read", ![d].conn = Head(daemon[d].backlog),
                                ![d].backlog = Tail(@)]
    /\ UNCHANGED <<alive, limited, sock, client>>

\* The read waits for the command; a client that hung up without one sends
\* the loop back to poll, past the deaths and the exit test.
read_command(d) ==
    LET k == daemon[d].conn
    IN  /\ DaemonAt(d, "read")
        /\ \/ k.sent /\ GotoDaemon(d, "serve")
           \/ /\ ~k.sent /\ ~k.open
              /\ daemon' = [daemon EXCEPT ![d].at = "poll", ![d].conn = NoConnection]
        /\ UNCHANGED <<alive, limited, sock, client>>

\* The answer to a client that still listens.
Answered(d, code) ==
    LET k == daemon[d].conn
    IN  IF k.open THEN [client EXCEPT ![k.from].result = code] ELSE client

\* The command is done, its connection closed, and the deaths are next.
Served(d, watched, running) ==
    daemon' = [daemon EXCEPT ![d].at = "deaths", ![d].watched = watched,
                             ![d].running = running, ![d].fresh = FALSE,
                             ![d].conn = NoConnection]

\* Mutant: the search for a free slot does not stop at the table's end.
add_pid_to_watch_unbounded(d) ==
    LET p == daemon[d].conn.pid
    IN  /\ DaemonAt(d, "serve") /\ daemon[d].conn.cmd = "WATCH"
        /\ Served(d, IF p \in alive THEN daemon[d].watched \cup {p} ELSE daemon[d].watched, TRUE)
        /\ limited' = IF p \in alive THEN limited ELSE limited \ {p}
        /\ client' = Answered(d, IF p \in alive THEN "OK" ELSE "PIDFD")
        /\ UNCHANGED <<alive, sock>>

\* A process that has exited has no pidfd: it is unregistered at once.
add_pid_to_watch(d) ==
    LET p == daemon[d].conn.pid
        watched == daemon[d].watched
    IN  /\ DaemonAt(d, "serve") /\ daemon[d].conn.cmd = "WATCH"
        /\ \/ /\ p \in watched
              /\ Served(d, watched, TRUE) /\ client' = Answered(d, "OK") /\ UNCHANGED limited
           \/ /\ p \notin watched /\ Cardinality(watched) >= MAX_WATCHED_PIDS
              /\ Served(d, watched, TRUE) /\ client' = Answered(d, "SLOTS") /\ UNCHANGED limited
           \/ /\ p \notin watched /\ Cardinality(watched) < MAX_WATCHED_PIDS /\ p \in alive
              /\ Served(d, watched \cup {p}, TRUE) /\ client' = Answered(d, "OK")
              /\ UNCHANGED limited
           \/ /\ p \notin watched /\ Cardinality(watched) < MAX_WATCHED_PIDS /\ p \notin alive
              /\ limited' = limited \ {p}
              /\ Served(d, watched, TRUE) /\ client' = Answered(d, "PIDFD")
        /\ UNCHANGED <<alive, sock>>

remove_pid_from_watch(d) ==
    LET p == daemon[d].conn.pid
        watched == daemon[d].watched
    IN  /\ DaemonAt(d, "serve") /\ daemon[d].conn.cmd = "UNWATCH"
        /\ Served(d, watched \ {p}, TRUE)
        /\ client' = Answered(d, IF p \in watched THEN "OK" ELSE "NOT_FOUND")
        /\ UNCHANGED <<alive, limited, sock>>

serve_stop(d) ==
    /\ DaemonAt(d, "serve") /\ daemon[d].conn.cmd = "STOP"
    /\ Served(d, daemon[d].watched, FALSE)
    /\ client' = Answered(d, "OK")
    /\ UNCHANGED <<alive, limited, sock>>

\* Mutant: the daemon leaves while one pid is still watched.
handle_deaths_leaves_early(d) ==
    LET dead == daemon[d].polled \cap daemon[d].watched
        left == daemon[d].watched \ dead
    IN  /\ DaemonAt(d, "deaths")
        /\ limited' = limited \ dead
        /\ daemon' = [daemon EXCEPT ![d].watched = left, ![d].polled = {},
             ![d].at = IF Cardinality(left) <= 1 \/ ~daemon[d].running THEN "close" ELSE "poll"]
        /\ UNCHANGED <<alive, sock, client>>

\* Mutant: the daemon leaves only when it is told to.
handle_deaths_stays(d) ==
    LET dead == daemon[d].polled \cap daemon[d].watched
    IN  /\ DaemonAt(d, "deaths")
        /\ limited' = limited \ dead
        /\ daemon' = [daemon EXCEPT ![d].watched = @ \ dead, ![d].polled = {},
             ![d].at = IF daemon[d].running THEN "poll" ELSE "close"]
        /\ UNCHANGED <<alive, sock, client>>

\* Unregister the pids that poll reported and that are still watched, and
\* leave the loop when nothing is watched or after a stop.
handle_deaths(d) ==
    LET dead == daemon[d].polled \cap daemon[d].watched
        left == daemon[d].watched \ dead
    IN  /\ DaemonAt(d, "deaths")
        /\ limited' = limited \ dead
        /\ daemon' = [daemon EXCEPT
             ![d].watched = left,
             ![d].polled = {},
             ![d].at = IF left = {} \/ ~daemon[d].running THEN "close" ELSE "poll"]
        /\ UNCHANGED <<alive, sock, client>>

\* The connections in the backlog are closed with the socket.
close_socket(d) ==
    /\ DaemonAt(d, "close")
    /\ daemon' = [daemon EXCEPT ![d] = [Off EXCEPT !.at = "unlink_at_exit"]]
    /\ UNCHANGED <<alive, limited, sock, client>>

\* Whoever's socket is bound to the path by now, it is removed.
unlink_at_exit(d) ==
    /\ DaemonAt(d, "unlink_at_exit")
    /\ sock' = NoDaemon
    /\ daemon' = [daemon EXCEPT ![d] = Off]
    /\ UNCHANGED <<alive, limited, client>>
-----------------------------------------------------------------------------
Die(p) ==
    /\ p \in alive
    /\ alive' = alive \ {p}
    /\ client' = [c \in Clients |-> [client[c] EXCEPT !.calm = FALSE]]
    /\ UNCHANGED <<limited, sock, daemon>>

DaemonStep(d) ==
    \/ unlink_path(d) \/ bind_path(d) \/ listen_socket(d) \/ notify_parent(d)
    \/ poll_events(d) \/ accept_client(d) \/ read_command(d)
    \/ add_pid_to_watch(d) \/ remove_pid_from_watch(d) \/ serve_stop(d)
    \/ handle_deaths(d) \/ close_socket(d) \/ unlink_at_exit(d)

ClientStep(c) ==
    \/ monitor_connect(c) \/ fork_daemon(c) \/ send_command(c) \/ read_result(c) \/ finish(c)

Start(c) ==
    \/ \E p \in Pids : limit_process_bandwidth(c, p) \/ unregister_rate_limiter_by_pid(c, p)
    \/ ratelimit_cleanup_all(c)

Next ==
    \/ \E d \in Daemons : DaemonStep(d)
    \/ \E c \in Clients : ClientStep(c) \/ Start(c) \/ give_up(c) \/ Kill(c)
    \/ \E p \in Pids : Die(p)

Spec == Init /\ [][Next]_vars

\* Every process that can run is run.  Nothing is assumed about when the
\* clients start an operation, give up or die.
FairSpec ==
    /\ Spec
    /\ \A d \in Daemons : WF_vars(DaemonStep(d))
    /\ \A c \in Clients : WF_vars(ClientStep(c))
-----------------------------------------------------------------------------
(***************************************************************************)
(* Properties.                                                             *)
(***************************************************************************)

DaemonLabels == {"off", "unlink", "bind", "listen", "notify", "poll", "accept", "read", "serve",
                 "deaths", "close", "unlink_at_exit"}
ClientLabels == {"idle", "connect", "fork", "wait_daemon", "reconnect", "write", "read", "finish"}

\* Every variable keeps its type, and no daemon watches more pids than its
\* table has slots.
TypeOK ==
    /\ alive \subseteq Pids /\ limited \subseteq Pids
    /\ sock \in Daemons \cup {NoDaemon}
    /\ \A d \in Daemons :
          /\ daemon[d].at \in DaemonLabels
          /\ daemon[d].watched \subseteq Pids /\ daemon[d].polled \subseteq Pids
          /\ Cardinality(daemon[d].watched) <= MAX_WATCHED_PIDS
    /\ \A c \in Clients :
          client[c].at \in ClientLabels /\ client[c].peer \in Daemons \cup {NoDaemon}

\* A calm command reaches a daemon, whatever socket path, orphaned daemons or
\* abandoned connections earlier races left: a WATCH is in the table of the
\* daemon behind the path or the table is full, and an UNWATCH is not in it.
CalmCommand ==
    \A c \in Clients : ClientAt(c, "finish") /\ client[c].calm =>
        CASE client[c].cmd = "WATCH" ->
               \/ client[c].result = "OK" /\ sock # NoDaemon
                    /\ client[c].pid \in daemon[sock].watched
               \/ client[c].result = "SLOTS"
          [] client[c].cmd = "UNWATCH" ->
               /\ client[c].result \in {"OK", "NOT_FOUND"}
               /\ sock # NoDaemon => client[c].pid \notin daemon[sock].watched
          [] OTHER -> client[c].result = "OK"

\* A process that exits while some daemon has it in its table loses its
\* limit, however many daemons there are and whoever owns the socket path.
WatchedDeathCleaned ==
    \A p \in Pids :
        (p \notin alive /\ \E d \in Daemons : p \in daemon[d].watched) ~> p \notin limited

\* Every command comes back to its caller without the help of a timeout, once
\* the kills stop: clients killed for ever between connecting and their command
\* could keep the backlog full.
ClientsReturn ==
    \A c \in Clients : ~ClientAt(c, "idle") ~> ClientAt(c, "idle")

\* A daemon nobody will talk to for now: the client that forked it was killed
\* or gave up before its command was taken, and no other client is on its way.
\* The loop tests for an empty table only after a command or a death, and poll
\* has no timeout.
Abandoned(d) ==
    /\ DaemonAt(d, "poll") /\ daemon[d].fresh /\ daemon[d].backlog = <<>>
    /\ \A c \in Clients : client[c].at \notin {"connect", "reconnect"}

\* "Exit when nothing left to watch": a daemon that watches nothing leaves or
\* is given a process to watch, once the kills stop.  Two kinds of daemon wait
\* for a command that may never come: one whose path another daemon has taken,
\* and an abandoned one.
IdleDaemonExits ==
    \A d \in Daemons :
        DaemonAt(d, "poll") /\ daemon[d].watched = {} /\ sock = d ~>
            \/ DaemonAt(d, "off") \/ daemon[d].watched # {}
            \/ sock # d \/ Abandoned(d)

\* The limit of a process that exits is removed.
DeathCleaned ==
    \A p \in Pids : (p \in limited /\ p \notin alive) ~> p \notin limited
=============================================================================
