----------------------------- MODULE GuiBackend -----------------------------
(***************************************************************************)
(* The GUI and its privileged backend, one program run twice: the GUI      *)
(* (gui/main.c, gui/backend.c, the rows of gui/processes.c) writes command *)
(* lines to the backend's stdin and blocks in its only thread until it has *)
(* read the answer from the backend's stdout (run_privileged).             *)
(*                                                                         *)
(* The library calls of the backend are one step each here; RateLimit has  *)
(* the detail.  The rows change only in handlers of buttons and dialogs,   *)
(* which have taken the focus by then: the entry that has it belongs to a  *)
(* row, and one step takes the user from there to what apply_limit sends   *)
(* when the entry is activated or left.                                    *)
(***************************************************************************)
EXTENDS Integers, FiniteSets, Sequences

CONSTANTS
    Pids,        \* process ids
    Unlimited,   \* RATELIMIT_UNLIMITED
    Texts,       \* what the user types into an entry
    PipeLines,   \* lines that fit in a pipe
    Faults,      \* what may go wrong
    Others       \* whether the CLI changes limits and pids are used again

Directions == {"upload", "download"}
Rates == 0 .. Unlimited
Configs == [Directions -> Rates]
NoLimits == [d \in Directions |-> Unlimited]

\* A text is blank ("" or "-"), a number or something else.  A row is two
\* lines, written at once; a pid is positive.
ASSUME GuiBackendAssumption ==
    /\ Pids \subseteq Nat \ {0} /\ IsFiniteSet(Pids)
    /\ Unlimited \in Nat \ {0}
    /\ Texts \subseteq [form : {"blank", "number", "junk"}, int : Int]
    /\ PipeLines \in Nat \ {0, 1}
    /\ Faults \subseteq {"INIT", "DISCOVERY", "READ", "LIMIT", "CLEAN", "GUI_KILLED", "BACKEND_KILLED"}
    /\ Others \in BOOLEAN

BACKEND_RESPONSE_READY == 0
BACKEND_RESPONSE_OK == 1
BACKEND_RESPONSE_ERROR == 2

VARIABLES
    alive,     \* the pids that name a running process
    limits,    \* the limits in force
    heir,      \* who forked the running monitor daemon, and left it its descriptors
    stdin,     \* the pipe of commands
    stdout,    \* the pipe of answers
    backend,   \* the privileged process
    gui,       \* the GUI's main thread
    store,     \* the rows on display: the limits shown for each pid
    dirty      \* history: the pids whose limits somebody else changed, or the backend
               \* could not read, since the GUI last asked for the rows, and those for
               \* which it has seen a request fail

vars == <<alive, limits, heir, stdin, stdout, backend, gui, store, dirty>>

\* A line, by what its readers make of it: parse_protocol_int gives its
\* leading integer or -1, and the sscanf of a row line gives a pid and its
\* limits.
Line(n) == [int |-> n, row |-> {}]
RowLines(p, shown) == << [int |-> p, row |-> {<<p, shown>>}], Line(-1) >>

Command(name) == [cmd |-> name, pid |-> 0, config |-> NoLimits]

Init ==
    /\ alive = Pids
    /\ limits \in [Pids -> {NoLimits, [d \in Directions |-> 0]}]
    /\ heir \in {"none", "cli"}
    /\ (\E p \in Pids : limits[p] # NoLimits) => heir = "cli"
    /\ stdin = <<>>
    /\ stdout = <<>>
    /\ backend = [at |-> "off", todo |-> {}, failed |-> FALSE]
    /\ gui = [at |-> "off", left |-> 0, rows |-> {}, why |-> "start",
              pid |-> 0, dir |-> "upload", value |-> Unlimited, number |-> FALSE]
    /\ store = << >>
    /\ dirty = {}

MayFail(f) == f \in Faults
system == <<alive, limits, heir>>
-----------------------------------------------------------------------------
(***************************************************************************)
(* The GUI.                                                                *)
(***************************************************************************)

GuiGone == gui.at \in {"waitpid", "gone"}   \* its ends of the pipes are closed

\* A command written to a backend that is gone is lost; nobody looks.
Send(command) == stdin' = IF backend.at = "exited" THEN stdin ELSE Append(stdin, command)

\* The end of file comes when nobody is left to write: neither the backend
\* nor a daemon that it forked.
AtEof == stdout = <<>> /\ backend.at = "exited" /\ heir # "backend"

backend_start ==
    /\ gui.at = "off"
    /\ gui' = [gui EXCEPT !.at = "await_ready"]
    /\ backend' = [backend EXCEPT !.at = "init"]
    /\ UNCHANGED <<system, stdin, stdout, store, dirty>>

\* The write half of backend_list, for the handler named why.
RequestList(why) ==
    /\ Send(Command("LIST"))
    /\ dirty' = {}
    /\ gui' = [gui EXCEPT !.at = "await_count", !.why = why, !.rows = {}]

\* backend_stop: ask the backend to quit, close the pipes and wait for it.
RequestQuit ==
    /\ Send(Command("QUIT"))
    /\ gui' = [gui EXCEPT !.at = "waitpid"]

\* on_activate goes on with a list when the first line says READY.
read_ready ==
    /\ gui.at = "await_ready"
    /\ \/ /\ stdout # <<>>
          /\ stdout' = Tail(stdout)
          /\ IF Head(stdout).int = BACKEND_RESPONSE_READY
             THEN RequestList("start")
             ELSE gui' = [gui EXCEPT !.at = "gone"] /\ UNCHANGED <<stdin, dirty>>
       \/ AtEof /\ gui' = [gui EXCEPT !.at = "gone"] /\ UNCHANGED <<stdin, stdout, dirty>>
    /\ UNCHANGED <<system, backend, store>>

\* populate_store_from_raw replaces the rows.
Shown(rows) ==
    [p \in {r[1] : r \in rows} |-> (CHOOSE r \in rows : r[1] = p)[2]]

Ready == [gui EXCEPT !.at = "ready", !.left = 0, !.rows = {}, !.number = FALSE]

\* Mutant: a count of zero is taken for a list with lines.
read_count_zero ==
    /\ gui.at = "await_count"
    /\ stdout # <<>>
    /\ stdout' = Tail(stdout)
    /\ gui' = IF Head(stdout).int < 0 THEN Ready
              ELSE [gui EXCEPT !.at = "await_lines", !.left = 2 * Head(stdout).int]
    /\ UNCHANGED <<system, stdin, backend, store, dirty>>

\* Mutant: one line is read for every row.
read_count_single ==
    /\ gui.at = "await_count"
    /\ stdout # <<>>
    /\ stdout' = Tail(stdout)
    /\ gui' = IF Head(stdout).int <= 0 THEN Ready
              ELSE [gui EXCEPT !.at = "await_lines", !.left = Head(stdout).int]
    /\ UNCHANGED <<system, stdin, backend, store, dirty>>

\* The first line of a list is its count, whatever the backend meant by it.
\* Without one the GUI gives up at the start, and later keeps its rows.
read_count ==
    /\ gui.at = "await_count"
    /\ \/ /\ stdout # <<>>
          /\ stdout' = Tail(stdout)
          /\ IF Head(stdout).int <= 0
             THEN gui' = Ready /\ store' = << >>
             ELSE /\ gui' = [gui EXCEPT !.at = "await_lines", !.left = 2 * Head(stdout).int]
                  /\ UNCHANGED store
          /\ UNCHANGED <<stdin, dirty>>
       \/ /\ AtEof
          /\ IF gui.why = "start" THEN RequestQuit ELSE gui' = Ready /\ UNCHANGED stdin
          /\ dirty' = Pids
          /\ UNCHANGED <<stdout, store>>
    /\ UNCHANGED <<system, backend>>

\* Two lines a row; what was read before an end of file is shown.
read_list_line ==
    LET rows == IF gui.left % 2 = 0 THEN gui.rows \cup Head(stdout).row ELSE gui.rows
    IN  /\ gui.at = "await_lines"
        /\ \/ /\ stdout # <<>>
              /\ stdout' = Tail(stdout)
              /\ IF gui.left > 1
                 THEN gui' = [gui EXCEPT !.left = @ - 1, !.rows = rows] /\ UNCHANGED store
                 ELSE gui' = Ready /\ store' = Shown(rows)
           \/ AtEof /\ gui' = Ready /\ store' = Shown(gui.rows) /\ UNCHANGED stdout
        /\ UNCHANGED <<system, stdin, backend, dirty>>

on_refresh_clicked ==
    /\ gui.at = "ready"
    /\ RequestList("refresh")
    /\ UNCHANGED <<system, stdout, backend, store>>

\* Mutant: a number above the range is not clamped.
parse_limit_value_unclamped(text) ==
    IF text.form = "blank" \/ (text.form = "number" /\ text.int = -1) THEN {Unlimited}
    ELSE {IF n < Unlimited THEN n ELSE Unlimited :
             n \in {m \in {text.int} : text.form = "number" /\ m >= 0}}

\* The value of a text, if it has one.  Blank and -1 are no limit; a number
\* never is.
parse_limit_value(text) ==
    IF text.form = "blank" \/ (text.form = "number" /\ text.int = -1) THEN {Unlimited}
    ELSE {IF n < Unlimited THEN n ELSE Unlimited - 1 :
             n \in {m \in {text.int} : text.form = "number" /\ m >= 0}}

\* What the entry of a row holds before the user types.
set_entry_to_value(value) ==
    IF value = Unlimited THEN [form |-> "blank", int |-> 0] ELSE [form |-> "number", int |-> value]

\* The limits of the row found for p; without one there are none.
find_process_by_pid(p) == IF p \in DOMAIN store THEN store[p] ELSE NoLimits

\* The user leaves an entry, edited or not, or presses return: the other
\* direction goes with the value on display.  Text that has no value is
\* replaced by the one on display, and nothing is sent.
apply_limit(p, d) ==
    /\ gui.at = "ready"
    /\ p \in DOMAIN store
    /\ \E text \in Texts \cup {set_entry_to_value(find_process_by_pid(p)[d])} :
          \E value \in parse_limit_value(text) :
             /\ Send([cmd |-> "LIMIT", pid |-> p,
                      config |-> [find_process_by_pid(p) EXCEPT ![d] = value]])
             /\ gui' = [gui EXCEPT !.at = "await_code", !.why = "limit", !.pid = p, !.dir = d,
                                   !.value = value, !.number = (text.form = "number" /\ text.int # -1)]
    /\ UNCHANGED <<system, stdout, backend, store, dirty>>

\* The dialog has the focus until it is answered.
on_clean_clicked ==
    /\ gui.at = "ready"
    /\ gui' = [gui EXCEPT !.at = "dialog"]
    /\ UNCHANGED <<system, stdin, stdout, backend, store, dirty>>

on_clean_response(response) ==
    /\ gui.at = "dialog"
    /\ IF response = "clean"
       THEN Send(Command("CLEAN")) /\ gui' = [gui EXCEPT !.at = "await_code", !.why = "clean"]
       ELSE gui' = Ready /\ UNCHANGED stdin
    /\ UNCHANGED <<system, stdout, backend, store, dirty>>

\* The rest of backend_set_limit and apply_limit, and of backend_clean and
\* on_clean_response: the row changes, or the rows are read again, only
\* after an OK.
read_code ==
    LET ok == stdout # <<>> /\ Head(stdout).int = BACKEND_RESPONSE_OK
    IN  /\ gui.at = "await_code"
        /\ \/ stdout # <<>> /\ stdout' = Tail(stdout)
           \/ AtEof /\ UNCHANGED stdout
        /\ IF ok /\ gui.why = "clean" THEN RequestList("clean")
           ELSE /\ gui' = Ready
                /\ dirty' = IF ok THEN dirty ELSE IF gui.why = "limit" THEN dirty \cup {gui.pid} ELSE Pids
                /\ UNCHANGED stdin
        /\ store' = IF ok /\ gui.why = "limit" THEN [store EXCEPT ![gui.pid][gui.dir] = gui.value]
                    ELSE store
        /\ UNCHANGED <<system, backend>>

on_close_request ==
    /\ gui.at = "ready"
    /\ RequestQuit
    /\ UNCHANGED <<system, stdout, backend, store, dirty>>

waitpid ==
    /\ gui.at = "waitpid"
    /\ backend.at = "exited"
    /\ gui' = [gui EXCEPT !.at = "gone"]
    /\ UNCHANGED <<system, stdin, stdout, backend, store, dirty>>

KillGui ==
    /\ MayFail("GUI_KILLED")
    /\ gui.at \notin {"off", "gone"}
    /\ gui' = [gui EXCEPT !.at = "gone"]
    /\ UNCHANGED <<system, stdin, stdout, backend, store, dirty>>
-----------------------------------------------------------------------------
(***************************************************************************)
(* The backend: run_privileged.                                            *)
(***************************************************************************)

Exited == [backend EXCEPT !.at = "exited", !.todo = {}]

\* printf on the unbuffered stdout, going on as next; it waits for room.
\* SIGPIPE ends a backend whose GUI is gone, and a kill may come first.
PrintLines(lines, next) ==
    \/ ~GuiGone /\ Len(stdout) + Len(lines) <= PipeLines
         /\ stdout' = stdout \o lines /\ backend' = next
    \/ (GuiGone \/ MayFail("BACKEND_KILLED")) /\ backend' = Exited /\ UNCHANGED stdout

Looping == [backend EXCEPT !.at = "loop"]

\* A refused authentication ends pkexec before the backend says anything.
ratelimit_init ==
    /\ backend.at = "init"
    /\ \/ PrintLines(<<Line(BACKEND_RESPONSE_READY)>>, Looping)
       \/ MayFail("INIT") /\ PrintLines(<<Line(BACKEND_RESPONSE_ERROR)>>, Exited)
       \/ MayFail("INIT") /\ backend' = Exited /\ UNCHANGED stdout
    /\ UNCHANGED <<system, stdin, gui, store, dirty>>

\* fgets has a line with command cmd.
Reads(cmd) == backend.at = "loop" /\ stdin # <<>> /\ Head(stdin).cmd = cmd

handle_list_cmd ==
    /\ Reads("LIST")
    /\ stdin' = Tail(stdin)
    /\ \/ \E found \in SUBSET alive :
             PrintLines(<<Line(Cardinality(found))>>,
                        [backend EXCEPT !.at = "list", !.todo = found])
       \/ /\ MayFail("DISCOVERY")
          /\ PrintLines(<<Line(BACKEND_RESPONSE_ERROR)>>, [backend EXCEPT !.failed = TRUE])
    /\ UNCHANGED <<system, gui, store, dirty>>

\* What may be read of p's limits: a direction whose program or map cannot be
\* opened, or both when the cgroup cannot, are left unlimited.
get_rate_limits_from_cgroup(p) ==
    {shown \in Configs : \A d \in Directions :
        shown[d] = limits[p][d] \/ (MayFail("READ") /\ shown[d] = Unlimited)}

\* The loop over the processes; each one's limits are read as it is printed,
\* and nobody looks whether that worked.
print_row ==
    /\ backend.at = "list"
    /\ \/ \E p \in backend.todo : \E shown \in get_rate_limits_from_cgroup(p) :
             /\ PrintLines(RowLines(p, shown), [backend EXCEPT !.todo = @ \ {p}])
             /\ dirty' = IF shown = limits[p] THEN dirty ELSE dirty \cup {p}
       \/ backend.todo = {} /\ backend' = Looping /\ UNCHANGED <<stdout, dirty>>
    /\ UNCHANGED <<system, stdin, gui, store>>

\* The result of a library call: the limits and the daemon it leaves behind,
\* and its answer.  A failure has changed nothing or removed the limits.
Succeeds(after, owner) ==
    /\ limits' = after
    /\ heir' = owner
    /\ PrintLines(<<Line(BACKEND_RESPONSE_OK)>>, backend)
Fails(removed, owner) ==
    /\ limits' \in {limits, removed}
    /\ heir' \in {heir, owner}
    /\ PrintLines(<<Line(BACKEND_RESPONSE_ERROR)>>, backend)

\* Mutant: the two rates change places on the way to the library.
handle_limit_cmd_swapped ==
    LET p == Head(stdin).pid
        config == Head(stdin).config
        swapped == [d \in Directions |-> IF d = "upload" THEN config["download"]
                                         ELSE config["upload"]]
    IN  /\ Reads("LIMIT")
        /\ stdin' = Tail(stdin)
        /\ \/ p \in alive /\ Succeeds([limits EXCEPT ![p] = swapped], "backend")
           \/ p \notin alive /\ Fails([limits EXCEPT ![p] = NoLimits], heir)
        /\ UNCHANGED <<alive, gui, store, dirty>>

\* Mutant: a failed limit is not answered.
handle_limit_cmd_silent ==
    LET p == Head(stdin).pid
    IN  /\ Reads("LIMIT")
        /\ stdin' = Tail(stdin)
        /\ IF p \in alive THEN Succeeds([limits EXCEPT ![p] = Head(stdin).config], "backend")
           ELSE UNCHANGED <<limits, heir, stdout, backend>>
        /\ UNCHANGED <<alive, gui, store, dirty>>

\* No limit in either direction unregisters the pid, and a pid without a
\* limit is fine; a limit needs the process.  Both talk to the daemon, which
\* is forked if there is none.
handle_limit_cmd ==
    LET p == Head(stdin).pid
        config == Head(stdin).config
        owner == IF heir = "none" THEN "backend" ELSE heir
        works == config = NoLimits \/ p \in alive
    IN  /\ Reads("LIMIT")
        /\ stdin' = Tail(stdin)
        /\ \/ works /\ Succeeds([limits EXCEPT ![p] = config], owner)
           \/ (~works \/ MayFail("LIMIT")) /\ Fails([limits EXCEPT ![p] = NoLimits], owner)
        /\ UNCHANGED <<alive, gui, store, dirty>>

handle_clean_cmd ==
    LET none == [p \in Pids |-> NoLimits]
    IN  /\ Reads("CLEAN")
        /\ stdin' = Tail(stdin)
        /\ \/ Succeeds(none, "none")
           \/ MayFail("CLEAN") /\ Fails(none, heir)
        /\ UNCHANGED <<alive, gui, store, dirty>>

\* Mutant: the end of file is not noticed.
leave_loop_on_quit ==
    /\ Reads("QUIT")
    /\ stdin' = Tail(stdin)
    /\ backend' = Exited
    /\ UNCHANGED <<system, stdout, gui, store, dirty>>

\* QUIT, or fgets at the end of file.
leave_loop ==
    /\ \/ Reads("QUIT") /\ stdin' = Tail(stdin)
       \/ backend.at = "loop" /\ stdin = <<>> /\ GuiGone /\ UNCHANGED stdin
    /\ backend' = Exited
    /\ UNCHANGED <<system, stdout, gui, store, dirty>>

KillBackend ==
    /\ MayFail("BACKEND_KILLED")
    /\ backend.at \notin {"off", "exited"}
    /\ backend' = Exited
    /\ UNCHANGED <<system, stdin, stdout, gui, store, dirty>>
-----------------------------------------------------------------------------
(***************************************************************************)
(* The rest of the system.                                                 *)
(***************************************************************************)

Die(p) ==
    /\ p \in alive
    /\ alive' = alive \ {p}
    /\ UNCHANGED <<limits, heir, stdin, stdout, backend, gui, store, dirty>>

\* The daemon removes the limits of a process that exited,
reap(p) ==
    /\ p \notin alive /\ limits[p] # NoLimits
    /\ limits' = [limits EXCEPT ![p] = NoLimits]
    /\ dirty' = dirty \cup {p}
    /\ UNCHANGED <<alive, heir, stdin, stdout, backend, gui, store>>

\* and leaves when there is none left.
daemon_exits ==
    /\ heir # "none"
    /\ \A p \in Pids : limits[p] = NoLimits
    /\ heir' = "none"
    /\ UNCHANGED <<alive, limits, stdin, stdout, backend, gui, store, dirty>>

\* limit set, limit unset and clean of the CLI.
cli_sets(p, config) ==
    /\ Others /\ p \in alive
    /\ limits' = [limits EXCEPT ![p] = config]
    /\ heir' = IF heir = "none" THEN "cli" ELSE heir
    /\ dirty' = dirty \cup {p}
    /\ UNCHANGED <<alive, stdin, stdout, backend, gui, store>>

\* A pid is used again once its limits are gone.
Spawn(p) ==
    /\ Others /\ p \notin alive /\ limits[p] = NoLimits
    /\ alive' = alive \cup {p}
    /\ UNCHANGED <<limits, heir, stdin, stdout, backend, gui, store, dirty>>
-----------------------------------------------------------------------------
GuiReads == read_ready \/ read_count \/ read_list_line \/ read_code \/ waitpid

UserActs ==
    \/ on_refresh_clicked \/ on_clean_clicked \/ on_close_request
    \/ \E response \in {"clean", "cancel"} : on_clean_response(response)
    \/ \E p \in Pids, d \in Directions : apply_limit(p, d)

BackendStep ==
    \/ ratelimit_init \/ handle_list_cmd \/ print_row \/ handle_limit_cmd \/ handle_clean_cmd
    \/ leave_loop

Next ==
    \/ backend_start \/ GuiReads \/ UserActs \/ KillGui
    \/ BackendStep \/ KillBackend
    \/ daemon_exits
    \/ \E p \in Pids : Die(p) \/ reap(p) \/ Spawn(p)
    \/ \E p \in Pids, config \in Configs : cli_sets(p, config)

Spec == Init /\ [][Next]_vars

\* Both processes run when they can; the user, the kills and the rest of the
\* system owe nothing.
FairSpec == Spec /\ WF_vars(GuiReads) /\ WF_vars(BackendStep)
-----------------------------------------------------------------------------
(***************************************************************************)
(* Properties.                                                             *)
(***************************************************************************)

Waiting == gui.at \in {"await_ready", "await_count", "await_lines", "await_code", "waitpid"}

\* Every variable keeps its type, and the GUI asks for another line of a
\* list only while one is left to read.
TypeOK ==
    /\ alive \subseteq Pids
    /\ limits \in [Pids -> Configs]
    /\ heir \in {"none", "cli", "backend"}
    /\ Len(stdout) <= PipeLines /\ Len(stdin) <= 1
    /\ backend.at \in {"off", "init", "loop", "list", "exited"} /\ backend.todo \subseteq Pids
    /\ Waiting \/ gui.at \in {"off", "ready", "dialog", "gone"}
    /\ gui.left \in Nat /\ (gui.at = "await_lines" => gui.left > 0)
    /\ dirty \subseteq Pids
    /\ DOMAIN store \subseteq Pids /\ \A p \in DOMAIN store : store[p] \in Configs

\* The two processes never lose step, whatever fails, dies or is changed
\* behind their backs: the GUI is ready only with both pipes empty, so that
\* no answer is taken for that of a later command, and while it waits on a
\* backend that lives it has exactly the lines to read that are in the pipe
\* or still to come.  The one exception is the list that failed.
InStep ==
    LET coming == Len(stdout) + 2 * Cardinality(backend.todo)
        asked == Len(stdin) = 1 /\ coming = 0
    IN  backend.at # "exited" /\ ~backend.failed =>
        CASE gui.at \in {"ready", "dialog"} -> stdin = <<>> /\ coming = 0
          [] gui.at = "await_count" ->
               asked \/ (stdin = <<>> /\ stdout # <<>> /\ coming = 1 + 2 * Head(stdout).int)
          [] gui.at = "await_lines" -> stdin = <<>> /\ coming = gui.left
          [] gui.at = "await_code" -> asked \/ (stdin = <<>> /\ coming = 1)
          [] OTHER -> TRUE

\* The rows show what is in force, whatever else failed, died or was killed on
\* the way, but for the dirty processes: those that somebody else has changed
\* or whose limits could not be read since the rows were asked for, and those
\* for which the GUI has seen a request fail.  Each entry is sent, applied and
\* shown for its own process and direction, no answer is lost, and cleaning
\* empties all.
ShownIsReal ==
    gui.at \in {"ready", "dialog"} => \A p \in DOMAIN store \ dirty : store[p] = limits[p]

\* A limit that is applied for the GUI changes the direction that was edited
\* and no other, and a number, however large, is never taken for no limit.
\* The exception is a dirty process: its row may show no limit for the other
\* direction, after a failed read for one, and the edit then lifts that limit.
EditsOneDirection ==
    [][LET p == Head(stdin).pid
           answered == stdout' = <<Line(BACKEND_RESPONSE_OK)>>
       IN  Reads("LIMIT") /\ stdin' # stdin /\ answered =>
             /\ \A q \in Pids \ {p} : limits'[q] = limits[q]
             /\ p \notin dirty => \A d \in Directions \ {gui.dir} : limits'[p][d] = limits[p][d]
             /\ gui.number => limits'[p][gui.dir] # Unlimited]_vars

\* The GUI, blocked in its only thread, always gets its answer, also when
\* the library call fails or the backend is killed.  There are two ways to
\* wait for ever: a list that failed is answered with a code that reads as a
\* count, and a backend that died leaves its end of the pipe to the daemon
\* that it forked.
RequestsReturn ==
    Waiting ~> \/ gui.at \in {"ready", "gone"}
               \/ backend.failed
               \/ backend.at = "exited" /\ heir = "backend"

\* The privileged process does not outlive the GUI, however the GUI ended
\* and whatever the backend was doing.
BackendFollows ==
    gui.at = "gone" ~> backend.at = "exited"
=============================================================================
