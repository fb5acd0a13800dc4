----------------------------- MODULE CliProofs -----------------------------
(***************************************************************************)
(* Proofs about Cli, for any command lines, processes and sockets: what    *)
(* Discovery promises holds for the commands, the types, that limit set    *)
(* limits only what was listed, and that list shows what was typed.        *)
(***************************************************************************)
EXTENDS Cli, DiscoveryProofs

-----------------------------------------------------------------------------
(***************************************************************************)
(* The inductive invariant, about a command c, the call d of               *)
(* get_network_processes, the limits l in force and what was said, t.      *)
(***************************************************************************)

Rates == [Directions -> 0 .. Unlimited]
Rows == [Directions -> Seq(0 .. Unlimited)]
Sayings == [pid : Pids, upload : Text, download : Text]
CliLabels == {"idle", "main", "discover", "rows", "limit", "unset", "confirm", "drain", "clean"}
Commands == [at : CliLabels, op : {"none", "list", "set"}, line : SUBSET CommandLines, pid : Nat,
             config : Rates, stdin : Seq({"y", "n", "newline"}), shown : Seq(Rows),
             blind : SUBSET (Nat \X Directions), had : BOOLEAN]

CliTypes(l, c, t) == l \in [Pids -> Rates] /\ c \in Commands /\ t \subseteq Sayings

\* The rates of a command are what its arguments were parsed to.
Typed(c) == \A line \in c.line, d \in Directions : c.config[d] \in parse_rate(line[d])

\* Where a command is, it has a list or has none; when it sets a limit, its
\* pid was in the list.
Phase(c, d) ==
    /\ d.at # "off" => c.at \in {"discover", "rows"}
    /\ c.at # "rows" => c.shown = <<>> /\ c.blind = {}
    /\ c.at = "rows" => d.at = "done" /\ Len(c.shown) <= Len(d.list)
    /\ \A i, x : <<i, x>> \in c.blind => i <= Len(c.shown)
    /\ c.at = "limit" => c.had /\ c.pid \in Pids
    /\ c.at \in {"discover", "limit"} => Typed(c)
    /\ \A a, b \in c.line : a = b

\* What was typed is in force, and what is in force is shown where it could
\* be read.
SaidHolds(t, l) == \A s \in t, d \in Directions : l[s.pid][d] \in parse_rate(s[d])
ShownHolds(c, d, t, l) ==
    \A i \in DOMAIN c.shown, s \in t :
        d.list[i].pid = s.pid => \A x \in Directions :
            c.shown[i][x] = IF <<i, x>> \in c.blind THEN <<>> ELSE format_limit(l[s.pid][x])

CliInv ==
    /\ Inv
    /\ CliTypes(limits, cli, said)
    /\ Phase(cli, disc)
    /\ SaidHolds(said, limits)
    /\ ShownHolds(cli, disc, said, limits)

-----------------------------------------------------------------------------
(***************************************************************************)
(* The commands call Discovery.                                            *)
(***************************************************************************)

\* A step of a command is a step of Discovery or leaves it alone.
LEMMA CliStepIsStep == [CliNext]_cliVars => [Next]_vars
<1> SUFFICES ASSUME [CliNext]_cliVars PROVE [Next]_vars
  OBVIOUS
<1>1. CASE UNCHANGED cliVars
  BY <1>1 DEF cliVars
<1>2. CASE \E line \in CommandLines : exec(line)
  BY <1>2 DEF exec
<1>3. CASE Environment /\ UNCHANGED <<limits, cli, said>>
  BY <1>3 DEF Next
<1>4. CASE \E p \in Pids : reap(p) \/ other_writer(p)
  BY <1>4 DEF reap, other_writer
<1>5. CASE CliStep
  <2>1. CASE main \/ cmd_clean_confirm \/ cmd_clean_drain
    BY <2>1 DEF main, cmd_clean_confirm, cmd_clean_drain
  <2>2. CASE discover \/ discovering
    BY <2>2 DEF discover, discovering, Next
  <2>3. CASE discovered
    <3>1. disc' = disc \/ destroy_process_list \/ disc' = Off
      BY <2>3 DEF discovered
    <3>2. At("done") /\ UNCHANGED system
      BY <2>3 DEF discovered
    <3>3. CASE disc' = disc
      BY <3>2, <3>3 DEF vars
    <3>4. CASE destroy_process_list
      BY <3>4 DEF Next
    <3>5. CASE disc' = Off
      BY <3>2, <3>5 DEF Next, destroy_process_list, Set
    <3> QED BY <3>1, <3>3, <3>4, <3>5
  <2>4. CASE limit_process_bandwidth \/ unregister_rate_limiter_by_pid \/ ratelimit_cleanup_all
    BY <2>4 DEF limit_process_bandwidth, unregister_rate_limiter_by_pid, ratelimit_cleanup_all
  <2>5. CASE get_rate_limits_from_cgroup
    <3>1. (UNCHANGED disc /\ UNCHANGED system) \/ destroy_process_list
      BY <2>5 DEF get_rate_limits_from_cgroup
    <3> QED BY <3>1 DEF Next, vars
  <2> QED BY <1>5, <2>1, <2>2, <2>3, <2>4, <2>5 DEF CliStep
<1> QED BY <1>1, <1>2, <1>3, <1>4, <1>5 DEF CliNext

\* Whatever commands are given, get_network_processes is called and its list
\* is destroyed as Discovery says, so what is proved of Discovery holds.
THEOREM CliCallsDiscovery == CliSpec => Spec
<1>1. CliInit => Init
  BY DEF CliInit
<1> QED BY <1>1, CliStepIsStep, PTL DEF CliSpec, Spec

\* The lists of the commands list and limit set are sound, whatever processes
\* and sockets do meanwhile.
THEOREM CliListIsSound == CliSpec => []ListSound
BY CliCallsDiscovery, ListIsSound, PTL

\* And they are exact when no process or socket changed during the discovery
\* and nothing was missed.
THEOREM CliListIsExact == CliSpec => []ListExact
BY CliCallsDiscovery, ListIsExact, PTL

-----------------------------------------------------------------------------
(***************************************************************************)
(* Numbers.                                                                *)
(***************************************************************************)

\* A text that is accepted is a rate.
LEMMA RateFacts ==
    ASSUME NEW text \in Text
    PROVE  /\ parse_rate(text) \subseteq 0 .. Unlimited
           /\ \A n \in parse_rate(text) :
                 \/ text.int = -1 /\ n = Unlimited
                 \/ text.int # -1 /\ n = text.int % (ULONG_MAX + 1)
<1> DEFINE top == ULONG_MAX + 1
           m == text.int % top
<1>1. text.int \in Int /\ Unlimited \in Nat /\ top \in Nat \ {0}
  <2>1. Unlimited \in Nat /\ ULONG_MAX \in Nat
    BY CliAssumption
  <2>2. text.int \in Int
    BY DEF Text
  <2> QED BY <2>1, <2>2
<1>2. m \in Nat
  <2>1. \A n \in Int, k \in Nat \ {0} : n % k \in Nat
    OBVIOUS
  <2> HIDE DEF top
  <2> QED BY <1>1, <2>1
<1> HIDE DEF m
<1>3. CASE text = [int |-> -1, rest |-> ""]
  <2>1. parse_rate(text) = {Unlimited} /\ text.int = -1
    BY <1>3 DEF parse_rate
  <2> QED BY <1>1, <2>1
<1>4. CASE text # [int |-> -1, rest |-> ""]
  <2>1. parse_rate(text) = {n \in strtoul(text.int) : text.rest = "" /\ n <= Unlimited}
    BY <1>4 DEF parse_rate
  <2>2. strtoul(text.int) \subseteq {m}
    BY DEF strtoul, m
  <2>3. text.int = -1 => text.rest # ""
    BY <1>4 DEF Text
  <2>4. ASSUME NEW n \in parse_rate(text)
        PROVE  n \in 0 .. Unlimited /\ text.int # -1 /\ n = m
    <3>1. n = m /\ text.rest = "" /\ n <= Unlimited
      BY <2>1, <2>2, <2>4, Zenon
    <3>2. n \in 0 .. Unlimited
      <4>1. \A k \in Nat : k <= Unlimited => k \in 0 .. Unlimited
        BY <1>1
      <4> QED BY <1>2, <3>1, <4>1, Zenon
    <3> QED BY <2>3, <3>1, <3>2
  <2> QED BY <2>4 DEF m
<1> QED BY <1>3, <1>4

\* No limits, and an idle command.
LEMMA IdleFacts ==
    /\ NoLimits \in Rates /\ CliIdle \in Commands /\ CliIdle.at = "idle"
    /\ CliIdle.shown = <<>> /\ CliIdle.blind = {}
    /\ \A d : d.at = "off" => Phase(CliIdle, d)
    /\ \A d, t, l : ShownHolds(CliIdle, d, t, l)
<1>1. NoLimits \in Rates
  BY CliAssumption DEF NoLimits, Rates
<1>2. <<>> \in Seq({"y", "n", "newline"}) /\ <<>> \in Seq(Rows)
  BY EmptySeq
<1>3. CliIdle \in Commands /\ CliIdle.shown = <<>> /\ CliIdle.blind = {} /\ CliIdle.at = "idle"
      /\ CliIdle.line = {}
  BY <1>1, <1>2 DEF CliIdle, Commands, CliLabels
<1>4. DOMAIN CliIdle.shown = {}
  BY <1>3
<1> QED BY <1>1, <1>3, <1>4 DEF Phase, ShownHolds

\* A row of the table.
LEMMA RowFacts ==
    ASSUME NEW config \in Rates
    PROVE  print_process_list(config) \in Rows
<1>1. \A d \in Directions : config[d] \in 0 .. Unlimited
  BY DEF Rates
<1>2. \A n \in 0 .. Unlimited : <<n>> \in Seq(0 .. Unlimited) /\ <<>> \in Seq(0 .. Unlimited)
  OBVIOUS
<1>3. \A n \in 0 .. Unlimited : format_limit(n) \in Seq(0 .. Unlimited)
  BY <1>2 DEF format_limit
<1> QED BY <1>1, <1>3 DEF print_process_list, Rows

-----------------------------------------------------------------------------
(***************************************************************************)
(* What the steps have in common.                                          *)
(***************************************************************************)

\* The parts of the invariant.
LEMMA CliFacts ==
    ASSUME CliInv
    PROVE  /\ Inv /\ disc \in Calls /\ limits \in [Pids -> Rates] /\ cli \in Commands
           /\ said \subseteq Sayings /\ Phase(cli, disc)
           /\ SaidHolds(said, limits) /\ ShownHolds(cli, disc, said, limits)
BY CallFacts DEF CliInv, CliTypes

\* A change of the limits leaves only what still holds of what was said.
LEMMA VoidsFacts ==
    ASSUME CliInv, NEW changed, Voids(changed)
    PROVE  /\ said' \subseteq Sayings /\ SaidHolds(said', limits')
           /\ ShownHolds(cli, disc, said', limits')
<1>1. \A s \in said' : s \in said /\ limits'[s.pid] = limits[s.pid]
  BY DEF Voids
<1>2. said \subseteq Sayings /\ SaidHolds(said, limits) /\ ShownHolds(cli, disc, said, limits)
  BY CliFacts
<1>3. SaidHolds(said', limits')
  BY <1>1, <1>2 DEF SaidHolds
<1>4. ShownHolds(cli, disc, said', limits')
  BY <1>1, <1>2 DEF ShownHolds
<1> QED BY <1>1, <1>2, <1>3, <1>4

\* The end of a command.
LEMMA ExitNext ==
    ASSUME CliInv, Inv', disc'.at = "off", CliExit, limits' \in [Pids -> Rates],
           said' \subseteq Sayings, SaidHolds(said', limits')
    PROVE  CliInv'
<1>1. cli' = CliIdle
  BY DEF CliExit
<1>2. /\ CliIdle \in Commands /\ Phase(CliIdle, disc')
      /\ ShownHolds(CliIdle, disc', said', limits')
  BY IdleFacts
<1> QED BY <1>1, <1>2 DEF CliInv, CliTypes

\* A step of a command without rows.
LEMMA MovesNext ==
    ASSUME CliInv, Inv', NEW c \in Commands, cli' = c, UNCHANGED <<limits, said>>,
           c.shown = <<>> /\ c.blind = {}, Phase(c, disc')
    PROVE  CliInv'
<1>1. /\ limits' \in [Pids -> Rates] /\ said' \subseteq Sayings
      /\ SaidHolds(said', limits')
  BY CliFacts
<1>2. ShownHolds(c, disc', said', limits')
  <2>1. DOMAIN c.shown = {}
    OBVIOUS
  <2> QED BY <2>1 DEF ShownHolds
<1> QED BY <1>1, <1>2 DEF CliInv, CliTypes

\* A step that leaves the command alone, and the list of the call.
LEMMA OthersNext ==
    ASSUME CliInv, Inv', UNCHANGED cli, disc'.at = disc.at, disc'.list = disc.list,
           limits' \in [Pids -> Rates], said' \subseteq Sayings, SaidHolds(said', limits'),
           ShownHolds(cli, disc, said', limits')
    PROVE  CliInv'
<1>1. cli \in Commands /\ Phase(cli, disc)
  BY CliFacts
<1>2. Phase(cli, disc')
  BY <1>1 DEF Phase
<1>3. ShownHolds(cli, disc', said', limits')
  BY DEF ShownHolds
<1> QED BY <1>1, <1>2, <1>3 DEF CliInv, CliTypes

\* Before and after its discovery a command has no list.
LEMMA NoCall ==
    ASSUME CliInv, cli.at \notin {"discover", "rows"}
    PROVE  disc.at = "off"
BY CliFacts DEF Phase

\* Nor has it rows then.
LEMMA NoRows ==
    ASSUME CliInv, cli.at # "rows"
    PROVE  cli.shown = <<>> /\ cli.blind = {}
BY CliFacts DEF Phase

\* The processes and the sockets do not change where a call is, or its list.
LEMMA EnvironmentFacts ==
    ASSUME Inv, Environment
    PROVE  disc'.at = disc.at /\ disc'.list = disc.list
<1>1. disc \in Calls
  BY CallFacts
<1>2. CASE \E shift : Disturbed(shift)
  <2> DEFINE Changed(moved, seen) == [disc EXCEPT !.changes = @ + 1, !.shifted = moved, !.seen = seen]
  <2>1. \A moved, seen : LET e == Changed(moved, seen)
                         IN  e.at = disc.at /\ e.list = disc.list
    BY <1>1 DEF Calls
  <2>2. CASE UNCHANGED disc
    BY <2>2
  <2>3. CASE \E moved, seen : disc' = Changed(moved, seen)
    BY <2>1, <2>3
  <2>4. UNCHANGED disc \/ \E moved, seen : disc' = Changed(moved, seen)
    BY <1>2 DEF Disturbed
  <2> QED BY <2>2, <2>3, <2>4
<1>3. ASSUME NEW s \in Slots, Vanish(s)
      PROVE  disc'.at = disc.at /\ disc'.list = disc.list
  BY <1>1, <1>3 DEF Vanish, Calls
<1> QED BY <1>2, <1>3 DEF Environment, OpenSocket, ShareSocket, CloseSocket, Exit, Spawn

-----------------------------------------------------------------------------
(***************************************************************************)
(* The steps of a command.                                                 *)
(***************************************************************************)

\* A command line.
LEMMA LineFacts ==
    ASSUME NEW line \in CommandLines
    PROVE  /\ line.pid \in Text /\ line.upload \in Text /\ line.download \in Text
           /\ line.stdin \in Seq({"y", "n", "newline"})
           /\ line["upload"] = line.upload /\ line["download"] = line.download
<1>1. line \in CommandLine
  BY CliAssumption
<1> QED BY <1>1 DEF CommandLine

\* A command is given.
LEMMA ExecNext ==
    ASSUME CliInv, Inv', NEW line \in CommandLines, exec(line)
    PROVE  CliInv'
<1> DEFINE in == line.stdin
           main_label == "main"
           c == [CliIdle EXCEPT !.at = main_label, !.line = {line}, !.stdin = in]
<1>1. cli' = c /\ UNCHANGED <<limits, said>> /\ disc' = disc /\ cli.at = "idle"
  BY DEF exec, vars, CliAt
<1>2. main_label \in CliLabels /\ in \in Seq({"y", "n", "newline"}) /\ {line} \in SUBSET CommandLines
  BY LineFacts DEF CliLabels
<1>3. CliIdle \in Commands /\ CliIdle.shown = <<>> /\ CliIdle.blind = {}
  BY IdleFacts
<1> HIDE DEF in
<1>4. c \in Commands /\ c.shown = <<>> /\ c.blind = {} /\ c.at = "main" /\ c.line = {line}
  BY <1>2, <1>3 DEF Commands
<1> HIDE DEF c
<1>5. disc'.at = "off"
  BY <1>1, NoCall
<1>6. Phase(c, disc')
  BY <1>4, <1>5 DEF Phase
<1> QED BY <1>1, <1>4, <1>6, MovesNext

\* The arguments of limit set.
LEMMA SetFacts ==
    ASSUME NEW line \in CommandLines, cli \in Commands, cli.shown = <<>> /\ cli.blind = {},
           cli.line = {line}, NEW c \in cmd_limit_set(line)
    PROVE  /\ c \in Commands /\ c.shown = <<>> /\ c.blind = {} /\ c.at = "discover" /\ c.line = {line}
           /\ Typed(c)
<1>1. PICK arg \in parse_pid(line.pid) \X parse_rate(line.upload) \X parse_rate(line.download) :
          c = [cli EXCEPT !.at = "discover", !.op = "set", !.pid = arg[1],
                          !.config = [upload |-> arg[2], download |-> arg[3]]]
  BY DEF cmd_limit_set
<1> DEFINE p == arg[1]
           config == [upload |-> arg[2], download |-> arg[3]]
<1>2. /\ p \in parse_pid(line.pid) /\ arg[2] \in parse_rate(line.upload)
      /\ arg[3] \in parse_rate(line.download)
  OBVIOUS
<1>3. p \in Nat
  <2>1. p = line.pid.int /\ p > 0
    BY <1>2 DEF parse_pid
  <2>2. line.pid.int \in Int
    BY LineFacts DEF Text
  <2> QED BY <2>1, <2>2
<1>4. \A d \in Directions : config[d] \in parse_rate(line[d])
  BY <1>2, LineFacts DEF Directions
<1>5. arg[2] \in 0 .. Unlimited /\ arg[3] \in 0 .. Unlimited
  BY <1>2, LineFacts, RateFacts
<1>6. config \in Rates
  BY <1>5 DEF Rates, Directions
<1>7. "discover" \in CliLabels
  BY DEF CliLabels
<1>8. c = [cli EXCEPT !.at = "discover", !.op = "set", !.pid = p, !.config = config]
  BY <1>1
<1> HIDE DEF p, config
<1>9. /\ c \in Commands /\ c.shown = <<>> /\ c.blind = {} /\ c.at = "discover" /\ c.line = {line}
      /\ c.config = config
  BY <1>3, <1>6, <1>7, <1>8 DEF Commands
<1> QED BY <1>4, <1>9 DEF Typed

\* What main and the handlers go on to.
LEMMA HandledFacts ==
    ASSUME NEW line \in CommandLines, cli \in Commands, cli.shown = <<>> /\ cli.blind = {},
           cli.line = {line}, NEW c \in Handled(line)
    PROVE  /\ c \in Commands /\ c.shown = <<>> /\ c.blind = {}
           /\ c.at \in {"discover", "unset", "confirm", "clean"}
           /\ c.at = "discover" => Typed(c)
           /\ c.line \subseteq {line}
<1>1. "discover" \in CliLabels /\ "unset" \in CliLabels /\ "confirm" \in CliLabels
      /\ "clean" \in CliLabels
  BY DEF CliLabels
<1>2. CASE c \in cmd_list(line)
  <2>1. c \in Commands /\ c.shown = <<>> /\ c.blind = {} /\ c.at = "discover" /\ c.line = {}
    BY <1>1, <1>2 DEF cmd_list, Commands
  <2> QED BY <2>1 DEF Typed
<1>3. CASE c \in cmd_limit_set(line)
  BY <1>3, SetFacts
<1>4. CASE c \in cmd_limit_unset(line)
  <2>1. PICK p \in parse_pid(line.pid) : c = [cli EXCEPT !.at = "unset", !.pid = p, !.line = {}]
    BY <1>4 DEF cmd_limit_unset
  <2>2. p \in Nat
    <3>1. p = line.pid.int /\ p > 0
      BY <2>1 DEF parse_pid
    <3>2. line.pid.int \in Int
      BY LineFacts DEF Text
    <3> QED BY <3>1, <3>2
  <2>3. c \in Commands /\ c.shown = <<>> /\ c.blind = {} /\ c.at = "unset" /\ c.line = {}
    BY <1>1, <2>1, <2>2 DEF Commands
  <2> QED BY <2>3
<1>5. CASE c \in cmd_clean(line)
  <2>1. PICK to \in {"clean", "confirm"} : c = [cli EXCEPT !.at = to, !.line = {}]
    BY <1>5 DEF cmd_clean
  <2>2. c \in Commands /\ c.shown = <<>> /\ c.blind = {} /\ c.at = to /\ c.line = {}
    BY <1>1, <2>1 DEF Commands
  <2> QED BY <2>2
<1> QED BY <1>2, <1>3, <1>4, <1>5 DEF Handled, handle_limit

\* main.
LEMMA MainNext == ASSUME CliInv, Inv', main PROVE CliInv'
<1>1. /\ disc' = disc /\ UNCHANGED <<limits, said>> /\ cli.at = "main"
  BY DEF main, CliAt, vars
<1>2. cli \in Commands /\ cli.shown = <<>> /\ cli.blind = {} /\ disc'.at = "off"
  BY <1>1, CliFacts, NoCall, NoRows
<1>3. PICK line \in cli.line : cli' \in Handled(line) \/ CliExit
  BY DEF main
<1>4. line \in CommandLines /\ cli.line = {line}
  <2>1. cli.line \subseteq CommandLines
    BY <1>2 DEF Commands
  <2>2. \A a, b \in cli.line : a = b
    BY CliFacts DEF Phase
  <2> QED BY <2>1, <2>2
<1>5. CASE cli' \in Handled(line)
  <2> DEFINE c == cli'
  <2>1. /\ c \in Commands /\ c.shown = <<>> /\ c.blind = {}
        /\ c.at \in {"discover", "unset", "confirm", "clean"}
        /\ c.at = "discover" => Typed(c)
        /\ c.line \subseteq {line}
    BY <1>2, <1>4, <1>5, HandledFacts
  <2>2. Phase(c, disc')
    BY <1>2, <2>1 DEF Phase
  <2> QED BY <1>1, <2>1, <2>2, MovesNext
<1>6. CASE CliExit
  BY <1>1, <1>2, <1>6, CliFacts, ExitNext
<1> QED BY <1>3, <1>5, <1>6

\* The prompt of clean.
LEMMA ConfirmNext ==
    ASSUME CliInv, Inv', cmd_clean_confirm \/ cmd_clean_drain
    PROVE  CliInv'
<1>1. disc' = disc /\ UNCHANGED <<limits, said>> /\ cli.at \in {"confirm", "drain"}
  BY DEF cmd_clean_confirm, cmd_clean_drain, CliAt, vars
<1>2. cli \in Commands /\ cli.shown = <<>> /\ cli.blind = {} /\ disc'.at = "off"
      /\ \A a, b \in cli.line : a = b
  BY <1>1, CliFacts, NoCall, NoRows DEF Phase
<1>3. CliExit \/ \E to \in {"drain", "clean"} :
          cli.stdin # <<>> /\ cli' = [cli EXCEPT !.at = to, !.stdin = Tail(@)]
  BY <1>1 DEF cmd_clean_confirm, cmd_clean_drain, CliAt
<1>4. CASE CliExit
  BY <1>1, <1>2, <1>4, CliFacts, ExitNext
<1>5. ASSUME NEW to \in {"drain", "clean"}, cli.stdin # <<>>,
             cli' = [cli EXCEPT !.at = to, !.stdin = Tail(@)]
      PROVE  CliInv'
  <2> DEFINE in == Tail(cli.stdin)
             c == [cli EXCEPT !.at = to, !.stdin = in]
  <2>1. in \in Seq({"y", "n", "newline"})
    <3>1. cli.stdin \in Seq({"y", "n", "newline"})
      BY <1>2 DEF Commands
    <3> QED BY <1>5, <3>1, HeadTailProperties
  <2>2. to \in CliLabels /\ cli' = c
    BY <1>5 DEF CliLabels
  <2> HIDE DEF in
  <2>3. c \in Commands /\ c.shown = <<>> /\ c.blind = {} /\ c.at = to /\ c.line = cli.line
    BY <1>2, <2>1, <2>2 DEF Commands
  <2> HIDE DEF c
  <2>4. Phase(c, disc')
    BY <1>2, <2>3 DEF Phase
  <2> QED BY <1>1, <2>2, <2>3, <2>4, MovesNext
<1> QED BY <1>3, <1>4, <1>5

\* The call of get_network_processes.
LEMMA DiscoverNext == ASSUME CliInv, Inv', discover \/ discovering PROVE CliInv'
<1>1. cli.at = "discover" /\ UNCHANGED <<limits, cli, said>>
  BY DEF discover, discovering, CliAt
<1>2. cli \in Commands /\ cli.shown = <<>> /\ cli.blind = {} /\ Phase(cli, disc)
  BY <1>1, CliFacts, NoRows
<1>3. Phase(cli, disc')
  BY <1>1, <1>2 DEF Phase
<1> QED BY <1>1, <1>2, <1>3, MovesNext

\* A pid that was found is a pid, and had an eligible socket.
LEMMA FoundFacts ==
    ASSUME Inv, PidFound
    PROVE  cli.pid \in Pids /\ HadSocket
<1>1. PICK i \in DOMAIN disc.list : cli.pid = disc.list[i].pid
  BY DEF PidFound, Listed
<1>2. disc.list[i].pid \in Pids
  BY CallFacts, CallTypes
<1>3. EntrySound(disc.list[i], disc.seen)
  BY DEF Inv, CallInv, Sound
<1> QED BY <1>1, <1>2, <1>3 DEF EntrySound, HadSocket

\* Its answer.
LEMMA DiscoveredNext == ASSUME CliInv, Inv', discovered PROVE CliInv'
<1>1. cli.at = "discover" /\ disc.at = "done" /\ UNCHANGED <<limits, said>>
  BY DEF discovered, CliAt, At
<1>2. /\ cli \in Commands /\ cli.shown = <<>> /\ cli.blind = {} /\ Phase(cli, disc) /\ Inv
      /\ disc \in Calls
      /\ limits \in [Pids -> Rates] /\ said \subseteq Sayings /\ SaidHolds(said, limits)
  BY <1>1, CliFacts, NoRows
<1>3. CASE cli' = [cli EXCEPT !.at = "rows"] /\ UNCHANGED disc
  <2> DEFINE c == [cli EXCEPT !.at = "rows"]
  <2>1. "rows" \in CliLabels
    BY DEF CliLabels
  <2>2. c \in Commands /\ c.shown = <<>> /\ c.blind = {} /\ c.at = "rows" /\ c.line = cli.line
    BY <1>2, <2>1 DEF Commands
  <2>3. cli' = c /\ disc' = disc
    BY <1>3
  <2> HIDE DEF c
  <2>4. Phase(c, disc')
    <3>1. Len(c.shown) <= Len(disc.list)
      <4>1. Len(disc.list) \in Nat
        BY <1>2, CallTypes
      <4> QED BY <2>2, <4>1
    <3> QED BY <1>1, <1>2, <2>2, <2>3, <3>1 DEF Phase
  <2> QED BY <1>1, <2>2, <2>3, <2>4, MovesNext
<1>4. CASE PidFound /\ cli' = [cli EXCEPT !.at = "limit", !.had = HadSocket] /\ destroy_process_list
  <2>1. cli.pid \in Pids /\ HadSocket
    BY <1>2, <1>4, FoundFacts
  <2> DEFINE c == [cli EXCEPT !.at = "limit", !.had = TRUE]
  <2>2. "limit" \in CliLabels
    BY DEF CliLabels
  <2>3. cli' = c /\ disc' = Off
    <3>1. HadSocket \in BOOLEAN
      BY DEF HadSocket
    <3>2. HadSocket = TRUE
      BY <2>1, <3>1
    <3> QED BY <1>4, <3>2 DEF destroy_process_list, Set
  <2>4. /\ c \in Commands /\ c.shown = <<>> /\ c.blind = {} /\ c.at = "limit" /\ c.had
        /\ c.pid = cli.pid
        /\ c.line = cli.line /\ c.config = cli.config
    BY <1>2, <2>2 DEF Commands
  <2> HIDE DEF c
  <2>5. Typed(c)
    BY <1>1, <1>2, <2>4 DEF Phase, Typed
  <2>6. Phase(c, disc')
    BY <1>2, <2>1, <2>3, <2>4, <2>5, OffFacts DEF Phase
  <2> QED BY <1>1, <2>3, <2>4, <2>6, MovesNext
<1>5. CASE CliExit /\ (destroy_process_list \/ disc' = Off)
  <2>1. disc'.at = "off"
    BY <1>5, OffFacts DEF destroy_process_list, Set
  <2> QED BY <1>1, <1>2, <1>5, <2>1, ExitNext
<1> QED BY <1>3, <1>4, <1>5 DEF discovered

\* limit_process_bandwidth.
LEMMA LimitNext == ASSUME CliInv, Inv', limit_process_bandwidth PROVE CliInv'
<1>1. cli.at = "limit" /\ CliExit /\ disc' = disc
  BY DEF limit_process_bandwidth, CliAt, vars
<1>2. /\ cli \in Commands /\ Phase(cli, disc) /\ limits \in [Pids -> Rates] /\ disc'.at = "off"
  BY <1>1, CliFacts, NoCall
<1>3. cli.pid \in Pids /\ cli.config \in Rates /\ cli.line \subseteq CommandLines /\ Typed(cli)
  BY <1>1, <1>2 DEF Phase, Commands
<1>4. CASE /\ limits' = [limits EXCEPT ![cli.pid] = cli.config]
           /\ said' = {[pid |-> cli.pid, upload |-> line.upload, download |-> line.download]
                          : line \in cli.line}
  <2>1. limits' \in [Pids -> Rates] /\ limits'[cli.pid] = cli.config
    BY <1>2, <1>3, <1>4
  <2>2. ASSUME NEW s \in said'
        PROVE  s \in Sayings /\ s.pid = cli.pid
               /\ \A d \in Directions : cli.config[d] \in parse_rate(s[d])
    <3>1. PICK line \in cli.line :
              s = [pid |-> cli.pid, upload |-> line.upload, download |-> line.download]
      BY <1>4, <2>2
    <3>2. line \in CommandLines
      BY <1>3
    <3>3. s \in Sayings /\ s.pid = cli.pid
      BY <1>3, <3>1, <3>2, LineFacts DEF Sayings
    <3>4. s["upload"] = line["upload"] /\ s["download"] = line["download"]
      BY <3>1, <3>2, LineFacts
    <3>5. \A d \in Directions : s[d] = line[d]
      BY <3>4 DEF Directions
    <3>6. \A d \in Directions : cli.config[d] \in parse_rate(line[d])
      BY <1>3 DEF Typed
    <3> QED BY <3>3, <3>5, <3>6
  <2>3. SaidHolds(said', limits')
    BY <2>1, <2>2 DEF SaidHolds
  <2>4. said' \subseteq Sayings
    BY <2>2
  <2> QED BY <1>1, <1>2, <2>1, <2>3, <2>4, ExitNext
<1>5. CASE /\ limits' \in {limits, [limits EXCEPT ![cli.pid] = NoLimits]}
           /\ Voids({cli.pid})
  <2>1. limits' \in [Pids -> Rates]
    BY <1>2, <1>5, IdleFacts
  <2>2. said' \subseteq Sayings /\ SaidHolds(said', limits')
    BY <1>5, VoidsFacts
  <2> QED BY <1>1, <1>2, <2>1, <2>2, ExitNext
<1> QED BY <1>4, <1>5 DEF limit_process_bandwidth

\* limit unset and clean.
LEMMA RemoveNext ==
    ASSUME CliInv, Inv', unregister_rate_limiter_by_pid \/ ratelimit_cleanup_all
    PROVE  CliInv'
<1>1. cli.at \in {"unset", "clean"} /\ CliExit /\ disc' = disc /\ Voids({})
  BY DEF unregister_rate_limiter_by_pid, ratelimit_cleanup_all, CliAt, vars
<1>2. limits \in [Pids -> Rates] /\ disc'.at = "off" /\ NoLimits \in Rates
  BY <1>1, CliFacts, NoCall, IdleFacts
<1>3. limits' \in [Pids -> Rates]
  BY <1>2 DEF unregister_rate_limiter_by_pid, ratelimit_cleanup_all
<1>4. said' \subseteq Sayings /\ SaidHolds(said', limits')
  BY <1>1, VoidsFacts
<1> QED BY <1>1, <1>2, <1>3, <1>4, ExitNext

\* The rows of list.
LEMMA RowsNext == ASSUME CliInv, Inv', get_rate_limits_from_cgroup PROVE CliInv'
<1> DEFINE i == Len(cli.shown) + 1
<1>1. cli.at = "rows" /\ UNCHANGED <<limits, said>>
  BY DEF get_rate_limits_from_cgroup, CliAt
<1>2. /\ cli \in Commands /\ Phase(cli, disc) /\ disc \in Calls /\ limits \in [Pids -> Rates]
      /\ said \subseteq Sayings /\ SaidHolds(said, limits)
      /\ ShownHolds(cli, disc, said, limits)
  BY CliFacts
<1>3. CASE CliExit /\ destroy_process_list
  <2>1. disc'.at = "off"
    BY <1>3, OffFacts DEF destroy_process_list, Set
  <2> QED BY <1>1, <1>2, <1>3, <2>1, ExitNext
<1>4. ASSUME i <= Len(disc.list), UNCHANGED disc,
             NEW read \in Readings(limits[disc.list[i].pid]),
             cli' = [cli EXCEPT !.shown = Append(@, print_process_list(read)),
                                !.blind = @ \cup {<<i, x>> : x \in {y \in Directions :
                                              read[y] # limits[disc.list[i].pid][y]}}]
      PROVE  CliInv'
  <2> DEFINE config == limits[disc.list[i].pid]
             row == print_process_list(read)
             rows == Append(cli.shown, row)
             dark == {<<i, x>> : x \in {y \in Directions : read[y] # config[y]}}
             all == cli.blind \cup dark
             c == [cli EXCEPT !.shown = rows, !.blind = all]
  <2>1. cli.shown \in Seq(Rows) /\ Len(cli.shown) \in Nat /\ Len(disc.list) \in Nat
        /\ DOMAIN disc.list = 1 .. Len(disc.list) /\ i \in Nat
        /\ cli.blind \subseteq Nat \X Directions
    BY <1>2, CallTypes, LenProperties DEF Commands
  <2>2. i \in DOMAIN disc.list
    BY <1>4, <2>1
  <2>3. /\ read \in Rates
        /\ \A x \in Directions : read[x] = config[x] \/ read[x] = Unlimited
        /\ row \in Rows
        /\ \A x \in Directions : row[x] = IF read[x] = config[x] THEN format_limit(config[x])
                                                              ELSE <<>>
    <3>1. /\ read \in Rates
          /\ \A x \in Directions : read[x] = config[x] \/ read[x] = Unlimited
      BY <1>4 DEF Readings, Rates
    <3>2. row \in Rows
      BY <3>1, RowFacts
    <3>3. \A x \in Directions : row[x] = format_limit(read[x])
      BY DEF print_process_list
    <3> QED BY <3>1, <3>2, <3>3 DEF format_limit
  <2>4. cli' = c /\ disc' = disc
    BY <1>4
  <2>5. /\ all \in SUBSET (Nat \X Directions)
        /\ \A j, x : <<j, x>> \in all => <<j, x>> \in cli.blind \/ j = i
        /\ \A x \in Directions : <<i, x>> \in all <=> <<i, x>> \in cli.blind \/ read[x] # config[x]
        /\ \A j, x : j # i => (<<j, x>> \in all <=> <<j, x>> \in cli.blind)
    <3>1. dark \subseteq Nat \X Directions
      BY <2>1
    <3>2. \A j, x : <<j, x>> \in dark <=> j = i /\ x \in Directions /\ read[x] # config[x]
      OBVIOUS
    <3> HIDE DEF dark
    <3> QED BY <2>1, <3>1, <3>2
  <2> HIDE DEF row, all
  <2>6. rows \in Seq(Rows) /\ Len(rows) = i /\ rows[i] = row
        /\ \A j \in 1 .. Len(cli.shown) : rows[j] = cli.shown[j]
    BY <2>1, <2>3, AppendProperties
  <2>7. DOMAIN rows = 1 .. i /\ DOMAIN cli.shown = 1 .. Len(cli.shown)
    BY <2>1, <2>6, LenProperties
  <2> HIDE DEF rows
  <2>8. c \in Commands /\ c.at = "rows" /\ c.shown = rows /\ c.line = cli.line /\ c.blind = all
    BY <1>1, <1>2, <2>5, <2>6 DEF Commands
  <2> HIDE DEF c
  <2>9. \A j, x : <<j, x>> \in cli.blind => j \in Nat /\ j <= Len(cli.shown)
    BY <1>2, <2>1 DEF Phase
  <2>10. Phase(c, disc')
    <3>1. \A j, x : <<j, x>> \in c.blind => j <= Len(c.shown)
      <4>1. \A j \in Nat : j <= Len(cli.shown) => j <= i
        BY <2>1
      <4>2. i <= i
        BY <2>1
      <4> QED BY <2>5, <2>6, <2>8, <2>9, <4>1, <4>2
    <3> QED BY <1>1, <1>2, <1>4, <2>4, <2>6, <2>8, <3>1 DEF Phase
  <2>11. ShownHolds(c, disc', said', limits')
    <3> SUFFICES ASSUME NEW j \in DOMAIN rows, NEW s \in said, disc.list[j].pid = s.pid,
                        NEW x \in Directions
                 PROVE  rows[j][x] = IF <<j, x>> \in all THEN <<>> ELSE format_limit(limits[s.pid][x])
      BY <1>1, <2>4, <2>8 DEF ShownHolds
    <3>1. CASE j = i
      <4>1. <<i, x>> \notin cli.blind
        <5>1. ~(i <= Len(cli.shown))
          BY <2>1
        <5> QED BY <2>9, <5>1
      <4>2. rows[j] = row /\ limits[s.pid][x] = config[x]
        BY <2>6, <3>1
      <4> QED BY <2>3, <2>5, <3>1, <4>1, <4>2
    <3>2. CASE j # i
      <4>1. j \in 1 .. Len(cli.shown)
        BY <2>1, <2>7, <3>2
      <4> QED BY <1>2, <2>5, <2>6, <2>7, <3>2, <4>1 DEF ShownHolds
    <3> QED BY <3>1, <3>2
  <2> QED BY <1>1, <1>2, <2>4, <2>8, <2>10, <2>11 DEF CliInv, CliTypes
<1> QED BY <1>3, <1>4 DEF get_rate_limits_from_cgroup

\* The daemon, the GUI and other commands.
LEMMA WritersNext ==
    ASSUME CliInv, Inv', NEW p \in Pids, reap(p) \/ other_writer(p)
    PROVE  CliInv'
<1>1. UNCHANGED cli /\ disc' = disc /\ Voids({}) /\ limits' = [limits EXCEPT ![p] = NoLimits]
  BY DEF reap, other_writer, vars
<1>2. limits' \in [Pids -> Rates]
  BY <1>1, CliFacts, IdleFacts
<1>3. /\ said' \subseteq Sayings /\ SaidHolds(said', limits')
      /\ ShownHolds(cli, disc, said', limits')
  BY <1>1, VoidsFacts
<1> QED BY <1>1, <1>2, <1>3, OthersNext

-----------------------------------------------------------------------------
(***************************************************************************)
(* The results.                                                            *)
(***************************************************************************)

\* No command and no limits at first.
LEMMA CliInitInv == CliInit => CliInv
<1> SUFFICES ASSUME CliInit PROVE CliInv
  OBVIOUS
<1>1. Inv /\ disc = Off
  BY InitInv DEF CliInit, Init
<1>2. cli = CliIdle /\ said = {} /\ limits \in [Pids -> Rates]
  BY IdleFacts DEF CliInit
<1>3. SaidHolds(said, limits)
  BY <1>2 DEF SaidHolds
<1>4. Phase(cli, disc) /\ ShownHolds(cli, disc, said, limits) /\ cli \in Commands
  BY <1>1, <1>2, IdleFacts, OffFacts
<1> QED BY <1>1, <1>2, <1>3, <1>4 DEF CliInv, CliTypes

\* Every step keeps the invariant.
LEMMA CliNextInv == CliInv /\ [CliNext]_cliVars => CliInv'
<1> SUFFICES ASSUME CliInv, [CliNext]_cliVars PROVE CliInv'
  OBVIOUS
<1>1. Inv'
  BY CliStepIsStep, NextInv, CliFacts
<1>2. ASSUME NEW line \in CommandLines, exec(line)
      PROVE  CliInv'
  BY <1>1, <1>2, ExecNext
<1>3. CASE CliStep
  BY <1>1, <1>3, MainNext, ConfirmNext, DiscoverNext, DiscoveredNext, LimitNext, RemoveNext,
     RowsNext DEF CliStep
<1>4. CASE Environment /\ UNCHANGED <<limits, cli, said>>
  <2>1. disc'.at = disc.at /\ disc'.list = disc.list
    BY <1>4, CliFacts, EnvironmentFacts
  <2> QED BY <1>1, <1>4, <2>1, CliFacts, OthersNext
<1>5. ASSUME NEW p \in Pids, reap(p) \/ other_writer(p)
      PROVE  CliInv'
  BY <1>1, <1>5, WritersNext
<1>6. CASE UNCHANGED cliVars
  BY <1>1, <1>6 DEF cliVars, vars, CliInv, CliTypes
<1> QED BY <1>2, <1>3, <1>4, <1>5, <1>6 DEF CliNext

\* The invariant of every reachable state.
LEMMA CliInvariance == CliSpec => []CliInv
BY CliInitInv, CliNextInv, PTL DEF CliSpec

\* It gives the types.
LEMMA CliInvTypes == CliInv => CliTypeOK
<1> SUFFICES ASSUME CliInv PROVE CliTypeOK
  OBVIOUS
<1>1. TypeOK
  BY CliFacts, InvTypes
<1>2. /\ cli \in Commands /\ Phase(cli, disc) /\ disc \in Calls /\ limits \in [Pids -> Rates]
  BY CliFacts
<1>3. cli.at \in CliLabels /\ cli.line \subseteq CommandLines
  BY <1>2 DEF Commands
<1>4. Len(cli.shown) <= Len(disc.list)
  <2>1. Len(disc.list) \in Nat
    BY <1>2, CallTypes
  <2>2. CASE cli.at = "rows"
    BY <1>2, <2>2 DEF Phase
  <2>3. CASE cli.at # "rows"
    <3>1. cli.shown = <<>> /\ cli.blind = {}
      BY <2>3, NoRows
    <3> QED BY <2>1, <3>1
  <2> QED BY <2>2, <2>3
<1>5. ~At("off") => CliAt("discover") \/ CliAt("rows")
  BY <1>2 DEF Phase, At, CliAt
<1>6. DOMAIN limits = Pids /\ \A p \in Pids : \A d \in Directions : limits[p][d] \in 0 .. Unlimited
  BY <1>2 DEF Rates
<1> QED BY <1>1, <1>3, <1>4, <1>5, <1>6 DEF CliTypeOK, CliLabels

\* And that what is shown is what was typed.
LEMMA CliInvShows == CliInv => ListShowsTyped
<1> SUFFICES ASSUME CliInv, NEW i \in DOMAIN cli.shown, NEW s \in said,
                    disc.list[i].pid = s.pid, NEW d \in Directions
             PROVE  LET n == s[d].int % (ULONG_MAX + 1)
                        dash == s[d].int = -1 \/ n = Unlimited \/ <<i, d>> \in cli.blind
                    IN  cli.shown[i][d] = IF dash THEN <<>> ELSE <<n>>
  BY DEF ListShowsTyped
<1> DEFINE n == s[d].int % (ULONG_MAX + 1)
           rate == limits[s.pid][d]
<1>1. cli.shown[i][d] = IF <<i, d>> \in cli.blind THEN <<>> ELSE format_limit(rate)
  BY CliFacts DEF ShownHolds
<1>2. rate \in parse_rate(s[d])
  BY CliFacts DEF SaidHolds
<1>3. s[d] \in Text
  <2>1. s \in Sayings
    BY CliFacts
  <2> QED BY <2>1 DEF Sayings, Directions
<1>4. \/ s[d].int = -1 /\ rate = Unlimited
      \/ s[d].int # -1 /\ rate = n
  BY <1>2, <1>3, RateFacts
<1> HIDE DEF n, rate
<1> QED BY <1>1, <1>4 DEF format_limit, n

\* The limits are rates, no row is read beyond the list, and the list does
\* not outlive its use.
THEOREM CliTypeCorrect == CliSpec => []CliTypeOK
BY CliInvariance, CliInvTypes, PTL

\* What list shows is what was typed, for every number the user may write,
\* as long as unsigned long is no narrower than the 32 bits of a rate; a cell
\* that could not be read shows the dash of no limit instead.
THEOREM ListIsTyped == CliSpec => []ListShowsTyped
BY CliInvariance, CliInvShows, PTL

\* limit set limits only a process that had an eligible socket since the
\* command began.
THEOREM LimitsOnlyListed == CliSpec => LimitsTheListed
<1> DEFINE Limits == \A p \in Pids :
               CliAt("limit") /\ ~CliAt("limit")' /\ limits'[p] \notin {limits[p], NoLimits}
                  => cli.pid = p /\ cli.had
<1>1. CliInv /\ [CliNext]_cliVars => [Limits]_cliVars
  <2> SUFFICES ASSUME CliInv, [CliNext]_cliVars, NEW p \in Pids, cli.at = "limit",
                      ~(cli'.at = "limit"), limits'[p] \notin {limits[p], NoLimits}
               PROVE  cli.pid = p /\ cli.had
    BY DEF CliAt
  <2>1. cli.had /\ cli.pid \in Pids /\ limits \in [Pids -> Rates]
    BY CliFacts DEF Phase
  <2>2. cli' # cli
    OBVIOUS
  <2>3. limit_process_bandwidth
    BY <2>2 DEF CliNext, CliStep, exec, main, cmd_clean_confirm, cmd_clean_drain, discover,
                discovering, discovered, unregister_rate_limiter_by_pid, ratelimit_cleanup_all,
                get_rate_limits_from_cgroup, reap, other_writer, CliAt, cliVars
  <2>4. \/ limits' = [limits EXCEPT ![cli.pid] = cli.config]
        \/ limits' \in {limits, [limits EXCEPT ![cli.pid] = NoLimits]}
    BY <2>3 DEF limit_process_bandwidth
  <2> QED BY <2>1, <2>4
<1> QED BY <1>1, CliInvariance, PTL DEF CliSpec, LimitsTheListed
=============================================================================
