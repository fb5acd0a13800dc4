-------------------------------- MODULE Cli --------------------------------
(***************************************************************************)
(* The command line of cli/main.c on top of Discovery: each command is a   *)
(* process that reads its arguments, discovers the processes with a        *)
(* network connection if it needs them, and calls the library.  In         *)
(* between processes exit, pids are used again, and the GUI, another       *)
(* command and the daemon change the limits.                               *)
(*                                                                         *)
(* The library calls are one step each; RateLimit has their detail.        *)
(***************************************************************************)
EXTENDS Discovery, Integers

CONSTANTS
    Unlimited,      \* RATELIMIT_UNLIMITED, which is UINT32_MAX
    ULONG_MAX,      \* of strtoul
    CommandLines,   \* the commands that are given, see CommandLine
    CliFaults,      \* the calls that may fail, besides those of Discovery
    Others          \* whether others change limits

Directions == {"upload", "download"}
NoLimits == [d \in Directions |-> Unlimited]

\* A number as the user types it: what strtol makes of it, and what it
\* leaves over.  The empty text is 0 with nothing left over.
Text == [int : Int, rest : {"", "junk"}]

\* The arguments of a command, who gives it and what its standard input
\* holds.  argc counts the arguments of limit set and limit unset.
CommandLine == [help : BOOLEAN, cmd : {"none", "unknown", "list", "limit", "clean"},
                sub : {"none", "unknown", "set", "unset"}, argc : 0 .. 3, pid : Text,
                upload : Text, download : Text, yes : BOOLEAN, root : BOOLEAN,
                stdin : Seq({"y", "n", "newline"})]

ASSUME CliAssumption ==
    /\ Unlimited \in Nat \ {0}
    /\ ULONG_MAX \in Nat /\ Unlimited <= ULONG_MAX
    /\ CommandLines \subseteq CommandLine
    /\ CliFaults \subseteq {"INIT", "CALLOC", "READ", "LIMIT", "UNSET", "CLEAN"}
    /\ Others \in BOOLEAN

VARIABLES
    limits,   \* the limits in force
    cli,      \* the command in progress
    said      \* history: the last limit that was set and confirmed, as it was typed,
              \* while nobody has changed it

cliVars == <<vars, limits, cli, said>>

CliIdle == [at |-> "idle", op |-> "none", line |-> {}, pid |-> 0, config |-> NoLimits,
            stdin |-> <<>>, shown |-> <<>>, blind |-> {}, had |-> FALSE]

CliInit ==
    /\ Init
    /\ limits = [p \in Pids |-> NoLimits]
    /\ cli = CliIdle
    /\ said = {}

CliAt(label) == cli.at = label
CliMayFail(f) == f \in CliFaults
CliExit == cli' = CliIdle
-----------------------------------------------------------------------------
(***************************************************************************)
(* Reading numbers: the set of results is empty when the text is refused.  *)
(***************************************************************************)

\* strtoul takes a minus sign, and refuses what is out of range.
strtoul(n) ==
    IF n \in -ULONG_MAX .. ULONG_MAX THEN {n % (ULONG_MAX + 1)} ELSE {}

parse_rate(text) ==
    IF text = [int |-> -1, rest |-> ""] THEN {Unlimited}
    ELSE {n \in strtoul(text.int) : text.rest = "" /\ n <= Unlimited}

\* A positive pid_t; the ones above every pid in Pids find no process either.
parse_pid(text) == {n \in {text.int} : text.rest = "" /\ n > 0}
-----------------------------------------------------------------------------
(***************************************************************************)
(* main and the handlers.                                                  *)
(***************************************************************************)

\* A command is given.
exec(line) ==
    /\ CliAt("idle")
    /\ cli' = [CliIdle EXCEPT !.at = "main", !.line = {line}, !.stdin = line.stdin]
    /\ UNCHANGED <<vars, limits, said>>

\* The handlers up to their first call, as the sets of states they may go on
\* to: empty when they end the command, with an error or their usage.
cmd_list(line) == {[cli EXCEPT !.at = "discover", !.op = "list", !.line = {}]}

\* Mutant: the rates change places.
cmd_limit_set_swapped(line) ==
    {[cli EXCEPT !.at = "discover", !.op = "set", !.pid = arg[1],
                 !.config = [upload |-> arg[3], download |-> arg[2]]] :
        arg \in {a \in parse_pid(line.pid) \X parse_rate(line.upload) \X parse_rate(line.download) :
                   line.argc = 3 /\ ~(a[2] = Unlimited /\ a[3] = Unlimited)}}

cmd_limit_set(line) ==
    {[cli EXCEPT !.at = "discover", !.op = "set", !.pid = arg[1],
                 !.config = [upload |-> arg[2], download |-> arg[3]]] :
        arg \in {a \in parse_pid(line.pid) \X parse_rate(line.upload) \X parse_rate(line.download) :
                   line.argc = 3 /\ ~(a[2] = Unlimited /\ a[3] = Unlimited)}}

cmd_limit_unset(line) ==
    {[cli EXCEPT !.at = "unset", !.pid = p, !.line = {}] :
        p \in {q \in parse_pid(line.pid) : line.argc > 0}}

handle_limit(line) ==
    CASE line.sub = "set" -> cmd_limit_set(line)
      [] line.sub = "unset" -> cmd_limit_unset(line)
      [] OTHER -> {}

cmd_clean(line) == {[cli EXCEPT !.at = IF line.yes THEN "clean" ELSE "confirm", !.line = {}]}

\* The library is initialised before the arguments are looked at.  Help, a
\* missing or unknown command and a user who is not root end the command.
Handled(line) ==
    CASE line.help \/ ~line.root -> {}
      [] line.cmd = "list" -> cmd_list(line)
      [] line.cmd = "limit" -> handle_limit(line)
      [] line.cmd = "clean" -> cmd_clean(line)
      [] OTHER -> {}

main ==
    /\ CliAt("main")
    /\ \E line \in cli.line :
          \/ cli' \in Handled(line)
          \/ (Handled(line) = {} \/ CliMayFail("INIT")) /\ CliExit
    /\ UNCHANGED <<vars, limits, said>>

\* getchar on the prompt, and then to the end of the line.  At the end of the
\* file the second loop reads on for ever.
cmd_clean_confirm ==
    /\ CliAt("confirm")
    /\ IF cli.stdin # <<>> /\ Head(cli.stdin) = "y"
       THEN cli' = [cli EXCEPT !.at = "drain", !.stdin = Tail(@)]
       ELSE CliExit
    /\ UNCHANGED <<vars, limits, said>>

cmd_clean_drain ==
    /\ CliAt("drain")
    /\ cli.stdin # <<>>
    /\ cli' = [cli EXCEPT !.at = IF Head(cli.stdin) = "newline" THEN "clean" ELSE @,
                          !.stdin = Tail(@)]
    /\ UNCHANGED <<vars, limits, said>>
-----------------------------------------------------------------------------
(***************************************************************************)
(* The calls.                                                              *)
(***************************************************************************)

discover == CliAt("discover") /\ get_network_processes /\ UNCHANGED <<limits, cli, said>>
discovering == CliAt("discover") /\ Step /\ UNCHANGED <<limits, cli, said>>

Listed == {disc.list[i].pid : i \in DOMAIN disc.list}

\* Mutant: the pid is not looked up.
PidFound_any == TRUE

PidFound == cli.pid \in Listed

\* History: the pid had an eligible socket at some time during the discovery.
HadSocket == \E protocol \in {"TCP", "UDP"} : <<cli.pid, protocol>> \in disc.seen

\* Mutant: the list is not destroyed when the pid is not in it.
discovered_leaks ==
    LET ok == disc.code = "OK"
    IN  /\ CliAt("discover") /\ At("done")
        /\ \/ ok /\ cli.op = "list" /\ cli' = [cli EXCEPT !.at = "rows"] /\ UNCHANGED disc
           \/ ok /\ cli.op = "set" /\ ~PidFound /\ CliExit /\ UNCHANGED disc
           \/ ~ok /\ CliExit /\ disc' = Off
        /\ UNCHANGED <<system, limits, said>>

\* The answer of get_network_processes: list keeps its list for the rows, set
\* looks for its pid and destroys the list before it sets the limit.
discovered ==
    LET ok == disc.code = "OK"
    IN  /\ CliAt("discover") /\ At("done")
        /\ \/ ok /\ cli.op = "list" /\ cli' = [cli EXCEPT !.at = "rows"] /\ UNCHANGED disc
           \/ /\ ok /\ cli.op = "set" /\ PidFound
              /\ cli' = [cli EXCEPT !.at = "limit", !.had = HadSocket]
              /\ destroy_process_list
           \/ /\ ok
              /\ \/ cli.op = "set" /\ ~PidFound
                 \/ cli.op = "list" /\ CliMayFail("CALLOC")
              /\ CliExit
              /\ destroy_process_list
           \/ ~ok /\ CliExit /\ disc' = Off
        /\ UNCHANGED <<system, limits, said>>

\* A change of the limits by anyone voids what was said.
Voids(changed) == said' = {s \in said : limits'[s.pid] = limits[s.pid] /\ s.pid \notin changed}

\* A call that fails has changed nothing or removed the limit.
limit_process_bandwidth ==
    LET p == cli.pid
    IN  /\ CliAt("limit")
        /\ \/ /\ p \in alive
              /\ limits' = [limits EXCEPT ![p] = cli.config]
              /\ said' = {[pid |-> p, upload |-> line.upload, download |-> line.download]
                             : line \in cli.line}
           \/ /\ p \notin alive \/ CliMayFail("LIMIT")
              /\ limits' \in {limits, [limits EXCEPT ![p] = NoLimits]}
              /\ Voids({p})
        /\ CliExit
        /\ UNCHANGED vars

\* No cgroup, no success; nothing changes for a pid out of reach.
unregister_rate_limiter_by_pid ==
    /\ CliAt("unset")
    /\ \/ limits' = [p \in Pids |-> IF p = cli.pid THEN NoLimits ELSE limits[p]]
       \/ CliMayFail("UNSET") /\ UNCHANGED limits
    /\ Voids({})
    /\ CliExit
    /\ UNCHANGED vars

ratelimit_cleanup_all ==
    LET none == [p \in Pids |-> NoLimits]
    IN  /\ CliAt("clean")
        /\ limits' \in IF CliMayFail("CLEAN") THEN {limits, none} ELSE {none}
        /\ Voids({})
        /\ CliExit
        /\ UNCHANGED vars

\* A cell is empty for the dash of an unlimited direction.
format_limit(kbps) == IF kbps = Unlimited THEN <<>> ELSE <<kbps>>

\* A row of the table.
print_process_list(config) == [d \in Directions |-> format_limit(config[d])]

\* What may be read of the limits in force: a direction whose program or map
\* cannot be opened, or both when the cgroup cannot, are left unlimited.
Readings(config) ==
    {read \in [Directions -> 0 .. Unlimited] : \A d \in Directions :
        read[d] = config[d] \/ (CliMayFail("READ") /\ read[d] = Unlimited)}

\* The limits of the next row are read, and nobody looks whether that worked;
\* blind is a history of the cells where it did not.  The rows are printed when
\* all are read.
get_rate_limits_from_cgroup ==
    LET i == Len(cli.shown) + 1
        config == limits[disc.list[i].pid]
    IN  /\ CliAt("rows")
        /\ \/ /\ i <= Len(disc.list)
              /\ \E read \in Readings(config) :
                    cli' = [cli EXCEPT !.shown = Append(@, print_process_list(read)),
                                       !.blind = @ \cup {<<i, d>> : d \in {x \in Directions :
                                                                   read[x] # config[x]}}]
              /\ UNCHANGED disc
           \/ i > Len(disc.list) /\ CliExit /\ destroy_process_list
        /\ UNCHANGED <<system, limits, said>>
-----------------------------------------------------------------------------
(***************************************************************************)
(* The rest of the system.                                                 *)
(***************************************************************************)

\* The daemon removes the limits of a process that exited.
reap(p) ==
    /\ p \notin alive /\ limits[p] # NoLimits
    /\ limits' = [limits EXCEPT ![p] = NoLimits]
    /\ Voids({})
    /\ UNCHANGED <<vars, cli>>

\* The GUI or another command removes a limit.  One that sets a limit voids what
\* was said in the same way.
other_writer(p) ==
    /\ Others
    /\ limits' = [limits EXCEPT ![p] = NoLimits]
    /\ Voids({})
    /\ UNCHANGED <<vars, cli>>
-----------------------------------------------------------------------------
CliStep ==
    \/ main \/ cmd_clean_confirm \/ cmd_clean_drain \/ discover \/ discovering \/ discovered
    \/ limit_process_bandwidth \/ unregister_rate_limiter_by_pid \/ ratelimit_cleanup_all
    \/ get_rate_limits_from_cgroup

CliNext ==
    \/ \E line \in CommandLines : exec(line)
    \/ CliStep
    \/ Environment /\ UNCHANGED <<limits, cli, said>>
    \/ \E p \in Pids : reap(p) \/ other_writer(p)

CliSpec == CliInit /\ [][CliNext]_cliVars /\ WF_cliVars(CliStep)
-----------------------------------------------------------------------------
(***************************************************************************)
(* Properties.                                                             *)
(***************************************************************************)

\* Every variable keeps its type, a row is read for no more processes than
\* the list has, and the list does not outlive its use.
CliTypeOK ==
    /\ TypeOK
    /\ DOMAIN limits = Pids /\ \A p \in Pids : \A d \in Directions : limits[p][d] \in 0 .. Unlimited
    /\ cli.at \in {"idle", "main", "discover", "rows", "limit", "unset", "confirm", "drain", "clean"}
    /\ cli.line \subseteq CommandLines
    /\ Len(cli.shown) <= Len(disc.list)
    /\ ~At("off") => CliAt("discover") \/ CliAt("rows")

\* limit set limits only a process that had an eligible socket at some time
\* since the command began, although the pid may have changed hands between
\* the discovery and the limit.
LimitsTheListed ==
    [][\A p \in Pids : CliAt("limit") /\ ~CliAt("limit")' /\ limits'[p] \notin {limits[p], NoLimits}
          => cli.pid = p /\ cli.had]_cliVars

\* What list shows for a process whose limit was set by a command, and not
\* changed by anyone since, is what was typed, however the number was
\* written: -1 and UINT32_MAX are no limit, the empty text blocks, and a
\* negative number counts from the top of unsigned long.  The exception is a
\* cell that could not be read: it has the dash of no limit.
ListShowsTyped ==
    \A i \in DOMAIN cli.shown, s \in said :
        disc.list[i].pid = s.pid =>
            \A d \in Directions :
                LET n == s[d].int % (ULONG_MAX + 1)
                    dash == s[d].int = -1 \/ n = Unlimited \/ <<i, d>> \in cli.blind
                IN  cli.shown[i][d] = IF dash THEN <<>> ELSE <<n>>

\* Every command ends, whatever processes and sockets come and go during its
\* dumps and walks; all but a clean whose confirmation ends without a
\* newline.
CommandsEnd ==
    ~CliAt("idle") ~> (CliAt("idle") \/ (CliAt("drain") /\ cli.stdin = <<>>))
=============================================================================
