-------------------------- MODULE GuiBackendProofs --------------------------
(***************************************************************************)
(* Proofs about GuiBackend, for any processes, rates, texts, pipe size and *)
(* any set of things that go wrong: its types, that the GUI and its        *)
(* backend stay in step, that the rows show what is in force, and that an  *)
(* edit changes one direction of one process.                              *)
(***************************************************************************)
EXTENDS GuiBackend, FiniteSetTheorems, SequenceTheorems, TLAPS

-----------------------------------------------------------------------------
(***************************************************************************)
(* The inductive invariant.                                                *)
(***************************************************************************)

\* What the pipes carry and what the two processes remember.
Rows == Pids \X Configs
Lines == [int : Int, row : SUBSET Rows]
Commands == [cmd : {"LIST", "LIMIT", "CLEAN", "QUIT"}, pid : Pids \cup {0}, config : Configs]
Backends == [at : {"off", "init", "loop", "list", "exited"}, todo : SUBSET Pids, failed : BOOLEAN]
Guis == [at : {"off", "await_ready", "await_count", "await_lines", "await_code", "waitpid",
               "ready", "dialog", "gone"},
         left : Nat, rows : SUBSET Rows, why : {"start", "refresh", "clean", "limit"},
         pid : Pids \cup {0}, dir : Directions, value : Rates, number : BOOLEAN]

Types ==
    /\ alive \subseteq Pids
    /\ limits \in [Pids -> Configs]
    /\ heir \in {"none", "cli", "backend"}
    /\ stdout \in Seq(Lines) /\ Len(stdout) <= PipeLines
    /\ stdin \in Seq(Commands) /\ Len(stdin) <= 1
    /\ backend \in Backends
    /\ gui \in Guis
    /\ DOMAIN store \subseteq Pids /\ store \in [DOMAIN store -> Configs]
    /\ dirty \subseteq Pids

\* The edit that the GUI waits to hear of.
Edited == [store[gui.pid] EXCEPT ![gui.dir] = gui.value]

\* Where the two processes are, and what the command in the pipe is.
Lives == backend.at # "exited"
Session ==
    /\ backend.at = "off" <=> gui.at = "off"
    /\ backend.at \in {"off", "init"} => stdin = <<>> /\ stdout = <<>>
    /\ backend.at = "init" => gui.at \in {"await_ready", "gone"}
    /\ backend.at # "list" => backend.todo = {}
    /\ Lives /\ gui.at = "await_ready" /\ stdout = <<>> => backend.at = "init"
    /\ gui.at = "await_ready" => stdin = <<>> /\ Len(stdout) <= 1 /\ backend.at # "list"
    /\ gui.at = "await_lines" => gui.left > 0
    /\ gui.at = "await_code" => gui.why \in {"limit", "clean"}
    /\ gui.at = "await_code" /\ gui.why = "limit" => gui.pid \in DOMAIN store
    /\ gui.number => gui.value # Unlimited

\* A command in the pipe of a backend that lives is what the GUI waits for.
Pending ==
    Lives /\ stdin # <<>> =>
        /\ backend.at \in {"loop", "list"} /\ backend.todo = {} /\ stdout = <<>>
        /\ ~backend.failed
        /\ gui.at \in {"await_count", "await_code", "waitpid", "gone"}
        /\ gui.at = "await_count" => stdin[1].cmd = "LIST"
        /\ gui.at = "waitpid" => stdin[1].cmd = "QUIT"
        /\ gui.at = "await_code" /\ gui.why = "clean" => stdin[1].cmd = "CLEAN"
        /\ gui.at = "await_code" /\ gui.why = "limit" =>
              stdin[1] = [cmd |-> "LIMIT", pid |-> gui.pid, config |-> Edited]

\* After a list that failed the two are out of step until the backend ends.
OutOfStep ==
    Lives /\ backend.failed =>
        /\ backend.at = "loop" /\ stdin = <<>>
        /\ gui.at \in {"await_count", "await_lines", "gone"}
        /\ gui.at = "await_count" => stdout = <<Line(BACKEND_RESPONSE_ERROR)>>
        /\ gui.at = "await_lines" => stdout = <<>>

\* No line is in the pipe that the GUI will not read, backend or not.
Bounded ==
    /\ gui.at \in {"ready", "dialog"} => stdout = <<>>
    /\ gui.at = "await_lines" => Len(stdout) <= gui.left
    /\ gui.at = "await_count" /\ stdout # <<>> =>
          stdout[1].int >= 0 /\ Len(stdout) <= 1 + 2 * stdout[1].int
    /\ gui.at = "await_code" => Len(stdout) <= 1

\* The rows on their way are those in force, but for the dirty processes.
Real(row) == row[1] \in dirty \/ row[2] = limits[row[1]]
RowsReal ==
    gui.at \in {"await_count", "await_lines"} =>
        /\ \A r \in gui.rows : Real(r)
        /\ \A i \in DOMAIN stdout : \A r \in stdout[i].row : Real(r)

\* So are the rows on display while an edit is on its way, and the edit is
\* in force once it is confirmed.
EditReal ==
    gui.at = "await_code" /\ gui.why = "limit" =>
        /\ \A p \in DOMAIN store \ (dirty \cup {gui.pid}) : store[p] = limits[p]
        /\ Lives /\ stdin # <<>> /\ gui.pid \notin dirty => store[gui.pid] = limits[gui.pid]
        /\ stdout # <<>> /\ stdout[1].int = BACKEND_RESPONSE_OK /\ gui.pid \notin dirty =>
              limits[gui.pid] = Edited

\* InStep, case by case.
Coming == Len(stdout) + 2 * Cardinality(backend.todo)
Asked == Len(stdin) = 1 /\ Coming = 0
Steps ==
    Lives /\ ~backend.failed =>
        /\ gui.at \in {"ready", "dialog"} => stdin = <<>> /\ Coming = 0
        /\ gui.at = "await_count" =>
              Asked \/ (stdin = <<>> /\ stdout # <<>> /\ Coming = 1 + 2 * stdout[1].int)
        /\ gui.at = "await_lines" => stdin = <<>> /\ Coming = gui.left
        /\ gui.at = "await_code" => Asked \/ (stdin = <<>> /\ Coming = 1)

Control == Session /\ Pending /\ OutOfStep /\ Bounded /\ Steps
Data == RowsReal /\ EditReal /\ ShownIsReal

Inv == Types /\ Control /\ Data

-----------------------------------------------------------------------------
(***************************************************************************)
(* Facts about the pipes and the records.                                  *)
(***************************************************************************)

\* A pipe is empty, or it holds a line.
LEMMA PipeEmpty ==
    ASSUME NEW S, NEW s \in Seq(S)
    PROVE  Len(s) \in Nat /\ (s = <<>> <=> Len(s) = 0)
BY EmptySeq, LenProperties

\* The first line of a pipe, and the rest of it.
LEMMA PipeRead ==
    ASSUME NEW S, NEW s \in Seq(S), s # <<>>
    PROVE  /\ Head(s) = s[1] /\ s[1] \in S /\ 1 \in DOMAIN s
           /\ Tail(s) \in Seq(S) /\ Len(Tail(s)) = Len(s) - 1
           /\ Len(s) = 1 => Tail(s) = <<>>
           /\ \A i \in DOMAIN Tail(s) : i + 1 \in DOMAIN s /\ Tail(s)[i] = s[i + 1]
<1>1. Tail(s) \in Seq(S) /\ Len(Tail(s)) = Len(s) - 1
      /\ \A i \in 1 .. Len(Tail(s)) : Tail(s)[i] = s[i + 1]
  BY HeadTailProperties
<1>2. Len(s) \in Nat \ {0} /\ DOMAIN s = 1 .. Len(s)
  BY EmptySeq, LenProperties
<1>3. DOMAIN Tail(s) = 1 .. Len(s) - 1
  BY <1>1, LenProperties
<1>4. Len(s) = 1 => Tail(s) = <<>>
  <2> DEFINE t == Tail(s)
  <2>1. t \in Seq(S) /\ Len(t) = Len(s) - 1
    BY <1>1
  <2> HIDE DEF t
  <2>2. t = <<>> <=> Len(t) = 0
    BY <2>1, PipeEmpty
  <2>3. Len(s) = 1 => t = <<>>
    BY <2>1, <2>2
  <2> QED BY <2>3 DEF t
<1>5. Head(s) = s[1] /\ s[1] \in S
  BY <1>2
<1> QED BY <1>1, <1>2, <1>3, <1>4, <1>5

\* The only line of a pipe.
LEMMA PipeOnly ==
    ASSUME NEW S, NEW s \in Seq(S), s # <<>>, Len(s) <= 1
    PROVE  Len(s) = 1 /\ Tail(s) = <<>>
<1> DEFINE n == Len(s)
<1>1. n \in Nat /\ n # 0
  BY PipeEmpty
<1>2. n <= 1
  OBVIOUS
<1> HIDE DEF n
<1>3. n = 1
  BY <1>1, <1>2
<1> QED BY <1>3, PipeRead DEF n

\* A pipe with one line.
LEMMA PipeOne ==
    ASSUME NEW S, NEW x \in S
    PROVE  /\ <<x>> \in Seq(S) /\ Len(<<x>>) = 1 /\ <<x>>[1] = x /\ <<x>> # <<>>
           /\ \A i \in DOMAIN <<x>> : <<x>>[i] = x
OBVIOUS

\* One line written to a pipe.
LEMMA PipeAppend ==
    ASSUME NEW S, NEW s \in Seq(S), NEW x \in S
    PROVE  /\ Append(s, x) \in Seq(S) /\ Len(Append(s, x)) = Len(s) + 1
           /\ Append(s, x) # <<>>
           /\ s = <<>> => Append(s, x)[1] = x
BY AppendProperties

\* Several lines written to a pipe.
LEMMA PipeConcat ==
    ASSUME NEW S, NEW s \in Seq(S), NEW t \in Seq(S)
    PROVE  /\ s \o t \in Seq(S) /\ Len(s \o t) = Len(s) + Len(t)
           /\ s # <<>> => (s \o t)[1] = s[1] /\ s \o t # <<>>
           /\ s = <<>> => s \o t = t
           /\ \A i \in DOMAIN (s \o t) :
                 \/ i \in DOMAIN s /\ (s \o t)[i] = s[i]
                 \/ i - Len(s) \in DOMAIN t /\ (s \o t)[i] = t[i - Len(s)]
<1>1. s \o t \in Seq(S) /\ Len(s \o t) = Len(s) + Len(t)
  BY ConcatProperties
<1>2. \A i \in 1 .. Len(s) + Len(t) : (s \o t)[i] = IF i <= Len(s) THEN s[i] ELSE t[i - Len(s)]
  BY ConcatProperties
<1>3. DOMAIN s = 1 .. Len(s) /\ DOMAIN t = 1 .. Len(t) /\ DOMAIN (s \o t) = 1 .. Len(s) + Len(t)
      /\ Len(s) \in Nat /\ Len(t) \in Nat
  BY <1>1, LenProperties
<1>4. s # <<>> => Len(s) > 0
  BY EmptySeq, <1>3
<1>5. s = <<>> => s \o t = t
  BY ConcatEmptySeq
<1>6. s # <<>> => (s \o t)[1] = s[1] /\ s \o t # <<>>
  BY <1>1, <1>2, <1>3, <1>4, EmptySeq
<1>7. \A i \in DOMAIN (s \o t) :
         \/ i \in DOMAIN s /\ (s \o t)[i] = s[i]
         \/ i - Len(s) \in DOMAIN t /\ (s \o t)[i] = t[i - Len(s)]
  BY <1>2, <1>3
<1> QED BY <1>1, <1>5, <1>6, <1>7

\* The number of processes still to print.
LEMMA TodoCount ==
    ASSUME NEW todo \in SUBSET Pids
    PROVE  /\ Cardinality(todo) \in Nat
           /\ todo = {} => Cardinality(todo) = 0
           /\ \A p \in todo : Cardinality(todo \ {p}) = Cardinality(todo) - 1
<1>1. IsFiniteSet(todo)
  BY GuiBackendAssumption, FS_Subset
<1> QED BY <1>1, FS_CardinalityType, FS_EmptySet, FS_RemoveElement

\* InStep is its cases.
LEMMA StepsInStep ==
    ASSUME Types
    PROVE  InStep <=> Steps
<1>1. stdout # <<>> => Head(stdout) = stdout[1]
  BY PipeRead DEF Types
<1> QED BY <1>1 DEF InStep, Steps, Coming, Asked, Lives

\* The types are those the model checker tests.
LEMMA TypesTypeOK ==
    ASSUME Types, Session
    PROVE  TypeOK
BY DEF Types, Session, TypeOK, Waiting, Backends, Guis
-----------------------------------------------------------------------------
(***************************************************************************)
(* The initial states and the rest of the system.                          *)
(***************************************************************************)

\* The invariant holds to begin with.
LEMMA InitInv == Init => Inv
<1> SUFFICES ASSUME Init PROVE Inv
  OBVIOUS
<1>1. NoLimits \in Configs /\ [d \in Directions |-> 0] \in Configs
  BY GuiBackendAssumption DEF NoLimits, Configs, Rates
<1>2. gui \in Guis /\ backend \in Backends /\ gui.at = "off" /\ backend.at = "off"
      /\ backend.todo = {} /\ ~backend.failed /\ ~gui.number
  BY GuiBackendAssumption DEF Init, Guis, Backends, Directions, Rates
<1>3. stdin \in Seq(Commands) /\ stdout \in Seq(Lines) /\ Len(stdin) = 0 /\ Len(stdout) = 0
  BY EmptySeq DEF Init
<1>4. DOMAIN store = {} /\ store \in [DOMAIN store -> Configs]
  BY DEF Init
<1>5. Types
  BY <1>1, <1>2, <1>3, <1>4, GuiBackendAssumption DEF Types, Init
<1>6. Control
  BY <1>2, <1>3 DEF Init, Control, Session, Pending, OutOfStep, Bounded, Steps, Lives
<1>7. Data
  BY <1>2, <1>4 DEF Data, RowsReal, EditReal, ShownIsReal
<1> QED BY <1>5, <1>6, <1>7 DEF Inv

\* The control part of the invariant is about the two processes and the
\* pipes, and the rows that the GUI may edit.
LEMMA SameControl ==
    ASSUME Control, UNCHANGED <<gui, backend, stdin, stdout, store>>
    PROVE  Control'
BY DEF Control, Session, Pending, OutOfStep, Bounded, Steps, Lives, Coming, Asked, Edited

\* Processes come and go, and the daemon leaves.
LEMMA AliveNext ==
    ASSUME Inv, alive' \subseteq Pids, heir' \in {"none", "cli", "backend"},
           UNCHANGED <<limits, stdin, stdout, backend, gui, store, dirty>>
    PROVE  Inv'
<1>1. Types'
  BY DEF Inv, Types
<1>2. Data'
  BY DEF Inv, Data, RowsReal, EditReal, ShownIsReal, Real, Lives, Edited
<1> QED BY <1>1, <1>2, SameControl DEF Inv

\* Somebody else changes the limits of a process.
LEMMA OthersNext ==
    ASSUME Inv, NEW p \in Pids, NEW config \in Configs,
           limits' = [limits EXCEPT ![p] = config], dirty' = dirty \cup {p},
           heir' \in {"none", "cli", "backend"},
           UNCHANGED <<alive, stdin, stdout, backend, gui, store>>
    PROVE  Inv'
<1>1. limits' \in [Pids -> Configs] /\ \A q \in Pids \ {p} : limits'[q] = limits[q]
  BY DEF Inv, Types
<1>2. Types'
  BY <1>1 DEF Inv, Types
<1>3. ShownIsReal'
  BY <1>1 DEF Inv, Types, Data, ShownIsReal
<1>4. RowsReal'
  <2>1. ASSUME NEW r \in Rows, Real(r)
        PROVE  Real(r)'
    BY <1>1, <2>1 DEF Real, Rows
  <2>2. gui.rows \subseteq Rows /\ \A i \in DOMAIN stdout : stdout[i].row \subseteq Rows
    <3>1. \A i \in DOMAIN stdout : stdout[i] \in Lines
      BY LenProperties DEF Inv, Types
    <3> QED BY <3>1 DEF Inv, Types, Guis, Lines
  <2> QED BY <2>1, <2>2 DEF Inv, Data, RowsReal
<1>5. EditReal'
  BY <1>1 DEF Inv, Types, Guis, Data, EditReal, Control, Session, Lives, Edited
<1> QED BY <1>2, <1>3, <1>4, <1>5, SameControl DEF Inv, Data
-----------------------------------------------------------------------------
(***************************************************************************)
(* The GUI.                                                                *)
(***************************************************************************)

\* A request the GUI makes: one command in an empty pipe, or none.
LEMMA SendStep ==
    ASSUME Types, Session, NEW command \in Commands, Send(command), Lives => stdin = <<>>
    PROVE  /\ stdin' \in Seq(Commands) /\ Len(stdin') <= 1
           /\ Lives => stdin' # <<>> /\ Len(stdin') = 1 /\ stdin'[1] = command
<1>1. CASE Lives
  <2>1. stdin' = Append(stdin, command) /\ stdin = <<>> /\ Len(stdin) = 0
    BY <1>1, PipeEmpty DEF Send, Lives, Types
  <2>2. stdin \in Seq(Commands)
    BY DEF Types
  <2> QED BY <2>1, <2>2, PipeAppend
<1>2. CASE ~Lives
  BY <1>2 DEF Send, Lives, Types
<1> QED BY <1>1, <1>2

\* A command without arguments.
LEMMA CommandType ==
    ASSUME NEW name \in {"LIST", "LIMIT", "CLEAN", "QUIT"}
    PROVE  Command(name) \in Commands /\ Command(name).cmd = name
BY GuiBackendAssumption DEF Command, Commands, NoLimits, Configs, Rates

\* The GUI asks for the rows.
LEMMA RequestListNext ==
    ASSUME Inv, NEW why \in {"start", "refresh", "clean"}, RequestList(why),
           Lives => stdin = <<>> /\ backend.todo = {} /\ ~backend.failed
                    /\ backend.at \in {"loop", "list"},
           gui.at # "off",
           stdout' = <<>>,
           UNCHANGED <<alive, limits, heir, backend, store>>
    PROVE  Inv'
<1>1. gui \in Guis /\ backend \in Backends
  BY DEF Inv, Types
<1>2. gui' \in Guis /\ gui'.at = "await_count" /\ gui'.rows = {} /\ gui'.left = gui.left
      /\ gui'.number = gui.number /\ gui'.value = gui.value
  BY <1>1 DEF RequestList, Guis
<1>3. stdin' \in Seq(Commands) /\ Len(stdin') <= 1
      /\ (Lives => stdin' # <<>> /\ Len(stdin') = 1 /\ stdin'[1].cmd = "LIST")
  BY SendStep, CommandType DEF RequestList, Inv, Control
<1>4. stdout' \in Seq(Lines) /\ Len(stdout') = 0 /\ Lives' = Lives
  BY EmptySeq DEF Lives
<1>5. Types'
  BY <1>2, <1>3, <1>4, GuiBackendAssumption DEF RequestList, Inv, Types
<1>6. Session' /\ Bounded'
  BY <1>2, <1>4 DEF Inv, Control, Session, Bounded, Lives
<1>7. Pending' /\ OutOfStep'
  BY <1>2, <1>3, <1>4 DEF Pending, OutOfStep, Lives, Inv, Control
<1>8. Steps'
  <2>1. Lives => Coming' = 0
    BY <1>1, <1>4, TodoCount DEF Coming, Backends
  <2> QED BY <1>2, <1>3, <1>4, <2>1 DEF Steps, Asked, Lives
<1>9. Data'
  BY <1>2, <1>4 DEF Data, RowsReal, EditReal, ShownIsReal
<1> QED BY <1>5, <1>6, <1>7, <1>8, <1>9 DEF Inv, Control

\* The GUI's main loop has no request on its way.
LEMMA ReadyQuiet ==
    ASSUME Inv, gui.at \in {"ready", "dialog"}
    PROVE  /\ stdout = <<>>
           /\ Lives => /\ stdin = <<>> /\ backend.todo = {} /\ ~backend.failed
                       /\ backend.at \in {"loop", "list"}
<1>1. stdout = <<>> /\ backend \in Backends /\ gui \in Guis
  BY DEF Inv, Types, Control, Bounded
<1>2. Lives => ~backend.failed
  BY DEF Inv, Control, OutOfStep
<1>3. Lives => stdin = <<>> /\ Coming = 0
  BY <1>2 DEF Inv, Control, Steps
<1>4. Lives => backend.todo = {}
  <2>1. IsFiniteSet(backend.todo)
    BY <1>1, GuiBackendAssumption, FS_Subset DEF Backends
  <2>2. Len(stdout) = 0
    BY <1>1, EmptySeq
  <2>3. Cardinality(backend.todo) = 0 => backend.todo = {}
    BY <2>1, FS_EmptySet
  <2>4. Cardinality(backend.todo) \in Nat
    BY <2>1, FS_CardinalityType
  <2>5. Coming = 0 => Cardinality(backend.todo) = 0
    BY <2>2, <2>4 DEF Coming
  <2> QED BY <1>3, <2>3, <2>5
<1>5. Lives => backend.at \in {"loop", "list"}
  BY <1>1 DEF Inv, Control, Session, Lives, Backends
<1> QED BY <1>1, <1>2, <1>3, <1>4, <1>5

\* on_refresh_clicked.
LEMMA RefreshNext == ASSUME Inv, on_refresh_clicked PROVE Inv'
BY ReadyQuiet, RequestListNext DEF on_refresh_clicked, system

\* The GUI is ready again, its rows real.
LEMMA ReadyNext ==
    ASSUME Inv, gui' = Ready, gui.at \notin {"off", "await_ready", "waitpid", "gone"},
           stdout' = <<>>, stdin' = stdin,
           Lives => stdin = <<>> /\ backend.todo = {} /\ ~backend.failed,
           DOMAIN store' \subseteq Pids, store' \in [DOMAIN store' -> Configs],
           dirty' \subseteq Pids,
           \A p \in DOMAIN store' \ dirty' : store'[p] = limits[p],
           UNCHANGED <<alive, limits, heir, backend>>
    PROVE  Inv'
<1>1. gui \in Guis /\ backend \in Backends
  BY DEF Inv, Types
<1>2. gui' \in Guis /\ gui'.at = "ready" /\ ~gui'.number
  BY <1>1 DEF Ready, Guis
<1>3. stdout' \in Seq(Lines) /\ Len(stdout') = 0 /\ Lives' = Lives
  BY EmptySeq DEF Lives
<1>4. Types'
  BY <1>2, <1>3, GuiBackendAssumption DEF Inv, Types
<1>5. Session' /\ Bounded' /\ Pending' /\ OutOfStep'
  BY <1>1, <1>2, <1>3
     DEF Inv, Control, Session, Bounded, Pending, OutOfStep, Lives, Backends
<1>6. Steps'
  <2>1. Lives => Coming' = 0
    BY <1>1, <1>3, TodoCount DEF Coming, Backends
  <2> QED BY <1>2, <1>3, <2>1 DEF Steps, Lives
<1>7. Data'
  BY <1>2 DEF Data, RowsReal, EditReal, ShownIsReal
<1> QED BY <1>4, <1>5, <1>6, <1>7 DEF Inv, Control

\* The GUI starts its backend.
LEMMA StartNext == ASSUME Inv, backend_start PROVE Inv'
<1>1. gui \in Guis /\ backend \in Backends /\ gui.at = "off" /\ backend.at = "off"
      /\ stdin = <<>> /\ stdout = <<>> /\ backend.todo = {}
  BY DEF Inv, Types, Control, Session, backend_start
<1>2. gui' \in Guis /\ gui'.at = "await_ready" /\ gui'.number = gui.number /\ gui'.value = gui.value
  BY <1>1 DEF backend_start, Guis
<1>3. backend' \in Backends /\ backend'.at = "init" /\ backend'.todo = {}
      /\ backend'.failed = backend.failed
  BY <1>1 DEF backend_start, Backends
<1>4. UNCHANGED <<alive, limits, heir, stdin, stdout, store, dirty>>
  BY DEF backend_start, system
<1>5. Types'
  BY <1>2, <1>3, <1>4 DEF Inv, Types
<1>6. ~backend.failed
  BY <1>1 DEF Inv, Control, OutOfStep, Lives
<1>7. Control'
  BY <1>1, <1>2, <1>3, <1>4, <1>6, EmptySeq
     DEF Inv, Control, Session, Pending, OutOfStep, Bounded, Steps, Lives
<1>8. Data'
  BY <1>2 DEF Data, RowsReal, EditReal, ShownIsReal
<1> QED BY <1>5, <1>7, <1>8 DEF Inv

\* The GUI ends: killed, refused, or after waitpid.
LEMMA GoneNext ==
    ASSUME Inv, gui.at # "off", gui' = [gui EXCEPT !.at = "gone"],
           stdout' \in Seq(Lines), Len(stdout') <= Len(stdout), stdin' = stdin,
           UNCHANGED <<alive, limits, heir, backend, store, dirty>>
    PROVE  Inv'
<1>1. gui \in Guis /\ backend \in Backends
  BY DEF Inv, Types
<1>2. gui' \in Guis /\ gui'.at = "gone" /\ gui'.number = gui.number /\ gui'.value = gui.value
  BY <1>1 DEF Guis
<1>3. Len(stdout) \in Nat /\ Len(stdout') \in Nat /\ (stdout = <<>> => stdout' = <<>>)
  <2>1. Len(stdout) \in Nat /\ (stdout = <<>> <=> Len(stdout) = 0)
    BY PipeEmpty DEF Inv, Types
  <2>2. Len(stdout') \in Nat /\ (stdout' = <<>> <=> Len(stdout') = 0)
    BY PipeEmpty
  <2> QED BY <2>1, <2>2
<1>4. Types'
  BY <1>2, <1>3, GuiBackendAssumption DEF Inv, Types
<1>5. Control'
  BY <1>2, <1>3
     DEF Inv, Control, Session, Pending, OutOfStep, Bounded, Steps, Lives
<1>6. Data'
  BY <1>2 DEF Data, RowsReal, EditReal, ShownIsReal
<1> QED BY <1>4, <1>5, <1>6 DEF Inv

\* KillGui and waitpid.
LEMMA KillGuiNext == ASSUME Inv, KillGui \/ waitpid PROVE Inv'
<1>1. stdout' = stdout /\ stdout \in Seq(Lines) /\ Len(stdout) \in Nat
  BY PipeEmpty DEF KillGui, waitpid, Inv, Types
<1> QED BY <1>1, GoneNext DEF KillGui, waitpid, system

\* The GUI asks the backend to quit.
LEMMA QuitNext ==
    ASSUME Inv, RequestQuit, gui.at # "off",
           Lives => stdin = <<>> /\ backend.todo = {} /\ ~backend.failed
                    /\ backend.at \in {"loop", "list"},
           stdout = <<>>,
           dirty' \subseteq Pids,
           UNCHANGED <<alive, limits, heir, stdout, backend, store>>
    PROVE  Inv'
<1>1. gui \in Guis /\ backend \in Backends
  BY DEF Inv, Types
<1>2. gui' \in Guis /\ gui'.at = "waitpid" /\ gui'.number = gui.number /\ gui'.value = gui.value
  BY <1>1 DEF RequestQuit, Guis
<1>3. stdin' \in Seq(Commands) /\ Len(stdin') <= 1
      /\ (Lives => stdin' # <<>> /\ Len(stdin') = 1 /\ stdin'[1].cmd = "QUIT")
  BY SendStep, CommandType DEF RequestQuit, Inv, Control
<1>4. Lives' = Lives
  BY DEF Lives
<1>5. Types'
  BY <1>2, <1>3, <1>4 DEF Inv, Types
<1>6. Session' /\ Bounded' /\ Pending' /\ OutOfStep' /\ Steps'
  BY <1>1, <1>2, <1>3, <1>4
     DEF Inv, Control, Session, Bounded, Pending, OutOfStep, Lives, Backends, Steps
<1>7. Data'
  BY <1>2 DEF Data, RowsReal, EditReal, ShownIsReal
<1> QED BY <1>5, <1>6, <1>7 DEF Inv, Control

\* on_close_request.
LEMMA CloseNext == ASSUME Inv, on_close_request PROVE Inv'
<1>1. dirty' \subseteq Pids
  BY DEF on_close_request, Inv, Types
<1> QED BY <1>1, ReadyQuiet, QuitNext DEF on_close_request, system

\* read_ready.
LEMMA ReadReadyNext == ASSUME Inv, read_ready PROVE Inv'
<1>1. gui.at = "await_ready" /\ UNCHANGED <<alive, limits, heir, backend, store>>
  BY DEF read_ready, system
<1>2. stdin = <<>> /\ Len(stdout) <= 1 /\ stdout \in Seq(Lines) /\ backend \in Backends
      /\ gui \in Guis
  BY <1>1 DEF Inv, Types, Control, Session
<1>3. CASE stdout # <<>> /\ stdout' = Tail(stdout)
           /\ Head(stdout).int = BACKEND_RESPONSE_READY /\ RequestList("start")
  <2>1. stdout' = <<>>
    BY <1>2, <1>3, PipeEmpty, PipeRead
  <2>2. Lives => backend.todo = {} /\ ~backend.failed /\ backend.at \in {"loop", "list"}
    BY <1>1, <1>2, <1>3 DEF Inv, Control, Session, OutOfStep, Lives, Backends
  <2> QED BY <1>1, <1>2, <1>3, <2>1, <2>2, RequestListNext
<1>4. CASE stdout # <<>> /\ stdout' = Tail(stdout) /\ gui' = [gui EXCEPT !.at = "gone"]
           /\ UNCHANGED <<stdin, dirty>>
  <2>1. stdout' \in Seq(Lines) /\ Len(stdout') <= Len(stdout)
    BY <1>2, <1>4, PipeRead, PipeEmpty
  <2> QED BY <1>1, <1>4, <2>1, GoneNext
<1>5. CASE AtEof /\ gui' = [gui EXCEPT !.at = "gone"] /\ UNCHANGED <<stdin, stdout, dirty>>
  <2>1. stdout' \in Seq(Lines) /\ Len(stdout') <= Len(stdout)
    BY <1>2, <1>5, PipeEmpty
  <2> QED BY <1>1, <1>5, <2>1, GoneNext
<1> QED BY <1>3, <1>4, <1>5 DEF read_ready

\* The next line is read and more are expected.
LEMMA ReadOne ==
    ASSUME Inv, stdout # <<>>, stdout' = Tail(stdout)
    PROVE  /\ stdout' \in Seq(Lines) /\ Len(stdout) \in Nat \ {0} /\ Len(stdout') = Len(stdout) - 1
           /\ Len(stdout) <= 1 => stdout' = <<>>
           /\ Head(stdout) = stdout[1] /\ stdout[1] \in Lines /\ 1 \in DOMAIN stdout
           /\ \A i \in DOMAIN stdout' : i + 1 \in DOMAIN stdout /\ stdout'[i] = stdout[i + 1]
<1>1. stdout \in Seq(Lines)
  BY DEF Inv, Types
<1>2. Len(stdout) \in Nat \ {0}
  BY <1>1, PipeEmpty
<1> QED BY <1>1, <1>2, PipeRead

\* What the backend still owes is counted.
LEMMA Counted ==
    ASSUME Inv
    PROVE  /\ Len(stdout) \in Nat /\ (stdout = <<>> <=> Len(stdout) = 0)
           /\ Len(stdin) \in Nat /\ (stdin = <<>> <=> Len(stdin) = 0)
           /\ Coming \in Nat /\ Coming >= Len(stdout)
           /\ Coming = Len(stdout) => backend.todo = {}
           /\ backend.todo = {} => Coming = Len(stdout)
<1>1. Len(stdout) \in Nat /\ (stdout = <<>> <=> Len(stdout) = 0)
  BY PipeEmpty DEF Inv, Types
<1>2. Len(stdin) \in Nat /\ (stdin = <<>> <=> Len(stdin) = 0)
  BY PipeEmpty DEF Inv, Types
<1>3. backend.todo \in SUBSET Pids
  BY DEF Inv, Types, Backends
<1>4. IsFiniteSet(backend.todo)
  BY <1>3, GuiBackendAssumption, FS_Subset
<1>5. Cardinality(backend.todo) \in Nat /\ (Cardinality(backend.todo) = 0 <=> backend.todo = {})
  BY <1>4, FS_CardinalityType, FS_EmptySet
<1> DEFINE n == Cardinality(backend.todo)
<1>6. Coming = Len(stdout) + 2 * n
  BY DEF Coming
<1> HIDE DEF n
<1>7. n \in Nat /\ (n = 0 <=> backend.todo = {})
  BY <1>5 DEF n
<1>8. Coming \in Nat /\ Coming >= Len(stdout) /\ (Coming = Len(stdout) <=> n = 0)
  BY <1>1, <1>6, <1>7
<1> QED BY <1>1, <1>2, <1>7, <1>8

\* The rows that are shown are rows that were read.
LEMMA ShownRows ==
    ASSUME NEW rows \in SUBSET Rows
    PROVE  /\ DOMAIN Shown(rows) \subseteq Pids
           /\ Shown(rows) \in [DOMAIN Shown(rows) -> Configs]
           /\ \A p \in DOMAIN Shown(rows) : \E r \in rows : r[1] = p /\ r[2] = Shown(rows)[p]
<1>1. DOMAIN Shown(rows) = {r[1] : r \in rows}
  BY DEF Shown
<1>2. ASSUME NEW p \in DOMAIN Shown(rows)
      PROVE  \E r \in rows : r[1] = p /\ r[2] = Shown(rows)[p]
  <2>1. \E r \in rows : r[1] = p
    BY <1>1, <1>2
  <2>2. (CHOOSE r \in rows : r[1] = p) \in rows /\ (CHOOSE r \in rows : r[1] = p)[1] = p
    BY <2>1
  <2>3. Shown(rows)[p] = (CHOOSE r \in rows : r[1] = p)[2]
    BY <1>1, <1>2 DEF Shown
  <2> QED BY <2>2, <2>3
<1>3. DOMAIN Shown(rows) \subseteq Pids
  BY <1>1 DEF Rows
<1>4. \A p \in DOMAIN Shown(rows) : Shown(rows)[p] \in Configs
  BY <1>2 DEF Rows
<1>5. Shown(rows) = [p \in DOMAIN Shown(rows) |-> Shown(rows)[p]]
  BY DEF Shown
<1> QED BY <1>2, <1>3, <1>4, <1>5

\* read_count.
LEMMA ReadCountNext == ASSUME Inv, read_count PROVE Inv'
<1>1. gui.at = "await_count" /\ UNCHANGED <<alive, limits, heir, backend>> /\ gui \in Guis
      /\ backend \in Backends
  BY DEF read_count, system, Inv, Types
<1>2. CASE stdout # <<>> /\ stdout' = Tail(stdout) /\ Head(stdout).int <= 0
           /\ gui' = Ready /\ store' = << >> /\ UNCHANGED <<stdin, dirty>>
  <2>1. stdout[1].int <= 0 /\ stdout[1].int \in Int
    BY <1>2, ReadOne DEF Lines
  <2>2. stdout[1].int = 0 /\ Len(stdout) <= 1 /\ stdout' = <<>>
    BY <1>1, <1>2, <2>1, ReadOne DEF Inv, Control, Bounded
  <2>3. Lives => ~backend.failed
    <3>1. Line(BACKEND_RESPONSE_ERROR).int = 2
      BY DEF Line, BACKEND_RESPONSE_ERROR
    <3>2. stdout = <<Line(BACKEND_RESPONSE_ERROR)>> => stdout[1].int = 2
      BY <3>1
    <3> QED BY <1>1, <2>2, <3>2 DEF Inv, Control, OutOfStep
  <2>4. Lives => stdin = <<>> /\ Coming = 1
    <3>1. Len(stdout) \in Nat \ {0} /\ Coming \in Nat /\ Coming >= Len(stdout)
      BY <1>2, ReadOne, Counted
    <3> QED BY <1>1, <1>2, <2>2, <2>3, <3>1 DEF Inv, Control, Steps, Asked
  <2>5. Lives => backend.todo = {}
    <3>1. Len(stdout) = 1
      BY <1>2, <2>2, ReadOne
    <3> QED BY <2>4, <3>1, Counted
  <2>6. DOMAIN store' = {} /\ store' \in [DOMAIN store' -> Configs]
    BY <1>2
  <2>7. dirty' \subseteq Pids
    BY <1>2 DEF Inv, Types
  <2> QED BY <1>1, <1>2, <2>2, <2>3, <2>4, <2>5, <2>6, <2>7, ReadyNext
<1>3. CASE stdout # <<>> /\ stdout' = Tail(stdout) /\ Head(stdout).int > 0
           /\ gui' = [gui EXCEPT !.at = "await_lines", !.left = 2 * Head(stdout).int]
           /\ UNCHANGED <<stdin, dirty, store>>
  <2>1. Head(stdout) = stdout[1] /\ stdout[1].int \in Nat \ {0} /\ stdout' \in Seq(Lines)
        /\ Len(stdout) \in Nat \ {0} /\ Len(stdout') = Len(stdout) - 1
    BY <1>3, ReadOne DEF Lines
  <2>2. gui' \in Guis /\ gui'.at = "await_lines" /\ gui'.left = 2 * stdout[1].int
        /\ gui'.rows = gui.rows /\ gui'.number = gui.number /\ gui'.value = gui.value
    <3> DEFINE n == 2 * stdout[1].int
    <3>1. n \in Nat
      BY <2>1
    <3>2. gui' = [gui EXCEPT !.at = "await_lines", !.left = n]
      BY <1>3, <2>1, Zenon
    <3> HIDE DEF n
    <3>3. gui' \in Guis /\ gui'.at = "await_lines" /\ gui'.left = n
          /\ gui'.rows = gui.rows /\ gui'.number = gui.number /\ gui'.value = gui.value
      BY <1>1, <3>1, <3>2 DEF Guis
    <3> QED BY <3>3 DEF n
  <2>3. Lives' = Lives
    BY <1>1 DEF Lives
  <2>4. Types'
    BY <1>1, <1>3, <2>1, <2>2, GuiBackendAssumption DEF Inv, Types
  <2>5. Session' /\ Bounded'
    BY <1>1, <1>3, <2>1, <2>2 DEF Inv, Control, Session, Bounded, Lives
  <2>6. Lives => stdin = <<>>
    BY <1>3 DEF Inv, Control, Pending
  <2>7. Pending'
    BY <1>3, <2>3, <2>6 DEF Pending
  <2>8. OutOfStep'
    <3>1. stdout = <<Line(BACKEND_RESPONSE_ERROR)>> => Len(stdout) = 1
      OBVIOUS
    <3>2. stdout = <<Line(BACKEND_RESPONSE_ERROR)>> => stdout' = <<>>
      BY <1>3, <3>1, ReadOne
    <3> QED BY <1>1, <1>3, <2>2, <2>3, <3>2 DEF OutOfStep, Inv, Control
  <2>9. Steps'
    <3>1. Coming \in Nat /\ Coming' = Coming - 1
      <4> DEFINE n == Cardinality(backend.todo)
      <4>1. n \in Nat
        BY <1>1, TodoCount DEF Backends
      <4>2. Coming = Len(stdout) + 2 * n /\ Coming' = Len(stdout') + 2 * n
        BY <1>1 DEF Coming
      <4> HIDE DEF n
      <4> QED BY <2>1, <4>1, <4>2
    <3>2. Lives /\ ~backend.failed => Coming = 1 + 2 * stdout[1].int
      BY <1>1, <1>3, <2>6, Counted DEF Inv, Control, Steps, Asked
    <3> QED BY <1>1, <1>3, <2>1, <2>2, <2>3, <2>6, <3>1, <3>2 DEF Steps
  <2>10. RowsReal'
    <3>1. \A i \in DOMAIN stdout' : \A r \in stdout'[i].row : Real(r)
      BY <1>1, <1>3, ReadOne DEF Inv, Data, RowsReal
    <3> QED BY <1>1, <1>3, <2>2, <3>1 DEF RowsReal, Inv, Data, Real
  <2>11. EditReal' /\ ShownIsReal'
    BY <2>2 DEF EditReal, ShownIsReal
  <2> QED BY <2>4, <2>5, <2>7, <2>8, <2>9, <2>10, <2>11 DEF Inv, Control, Data
<1>4. CASE AtEof /\ dirty' = Pids /\ UNCHANGED <<stdout, store>>
           /\ IF gui.why = "start" THEN RequestQuit ELSE gui' = Ready /\ UNCHANGED stdin
  <2>1. ~Lives /\ stdout = <<>> /\ DOMAIN store \subseteq Pids /\ store \in [DOMAIN store -> Configs]
    BY <1>4 DEF AtEof, Lives, Inv, Types
  <2>2. CASE RequestQuit
    BY <1>1, <1>4, <2>1, <2>2, QuitNext
  <2>3. CASE gui' = Ready /\ UNCHANGED stdin
    BY <1>1, <1>4, <2>1, <2>3, ReadyNext
  <2> QED BY <1>4, <2>2, <2>3
<1>5. stdout # <<>> => Head(stdout).int \in Int
  <2>1. stdout # <<>> => Head(stdout) \in Lines
    BY PipeRead DEF Inv, Types
  <2> QED BY <2>1 DEF Lines
<1> QED BY <1>2, <1>3, <1>4, <1>5 DEF read_count

\* read_list_line.
LEMMA ReadLineNext == ASSUME Inv, read_list_line PROVE Inv'
<1> DEFINE rows == IF gui.left % 2 = 0 THEN gui.rows \cup Head(stdout).row ELSE gui.rows
<1>1. gui.at = "await_lines" /\ UNCHANGED <<alive, limits, heir, stdin, backend, dirty>>
      /\ gui \in Guis /\ backend \in Backends /\ gui.rows \subseteq Rows /\ gui.left \in Nat \ {0}
      /\ dirty \subseteq Pids
  BY DEF read_list_line, system, Inv, Types, Guis, Control, Session
<1>2. \A r \in gui.rows : Real(r)
  BY <1>1 DEF Inv, Data, RowsReal
<1>3. ASSUME stdout # <<>>, stdout' = Tail(stdout)
      PROVE  rows \in SUBSET Rows /\ \A r \in rows : Real(r)
  <2>1. Head(stdout) = stdout[1] /\ stdout[1].row \subseteq Rows /\ 1 \in DOMAIN stdout
    BY <1>3, ReadOne DEF Lines
  <2>2. \A r \in stdout[1].row : Real(r)
    BY <1>1, <2>1 DEF Inv, Data, RowsReal
  <2> QED BY <1>1, <1>2, <2>1, <2>2
<1> HIDE DEF rows
<1>4. ASSUME NEW S \in SUBSET Rows, \A r \in S : Real(r), gui' = Ready, store' = Shown(S),
             stdout' = <<>>, Lives => backend.todo = {} /\ ~backend.failed
      PROVE  Inv'
  <2>1. DOMAIN store' \subseteq Pids /\ store' \in [DOMAIN store' -> Configs]
    BY <1>4, ShownRows
  <2>2. ASSUME NEW p \in DOMAIN store' \ dirty'
        PROVE  store'[p] = limits[p]
    <3>1. PICK r \in S : r[1] = p /\ r[2] = store'[p]
      BY <1>4, ShownRows
    <3> QED BY <1>1, <1>4, <3>1 DEF Real
  <2>3. Lives => stdin = <<>>
    BY <1>1 DEF Inv, Control, Pending
  <2> QED BY <1>1, <1>4, <2>1, <2>2, <2>3, ReadyNext
<1>5. CASE stdout # <<>> /\ stdout' = Tail(stdout) /\ gui.left > 1
           /\ gui' = [gui EXCEPT !.left = @ - 1, !.rows = rows] /\ UNCHANGED store
  <2>1. gui' \in Guis /\ gui'.at = "await_lines" /\ gui'.left = gui.left - 1
        /\ gui'.rows = rows /\ gui'.number = gui.number /\ gui'.value = gui.value
    <3> DEFINE n == gui.left - 1
    <3>1. n \in Nat
      BY <1>1
    <3>2. gui' = [gui EXCEPT !.left = n, !.rows = rows]
      BY <1>5, Zenon
    <3> HIDE DEF n
    <3>3. gui' \in Guis /\ gui'.at = gui.at /\ gui'.left = n
          /\ gui'.rows = rows /\ gui'.number = gui.number /\ gui'.value = gui.value
      BY <1>1, <1>3, <1>5, <3>1, <3>2 DEF Guis
    <3> QED BY <1>1, <3>3 DEF n
  <2>2. stdout' \in Seq(Lines) /\ Len(stdout) \in Nat \ {0} /\ Len(stdout') = Len(stdout) - 1
    BY <1>5, ReadOne
  <2>3. Lives' = Lives /\ (Lives => stdin = <<>>)
    BY <1>1 DEF Lives, Inv, Control, Pending
  <2>4. Types'
    BY <1>1, <1>5, <2>1, <2>2, GuiBackendAssumption DEF Inv, Types
  <2>5. Session' /\ Bounded'
    BY <1>1, <1>5, <2>1, <2>2 DEF Inv, Control, Session, Bounded, Lives
  <2>6. Pending' /\ OutOfStep'
    BY <1>1, <1>5, <2>1, <2>3 DEF Pending, OutOfStep, Inv, Control
  <2>7. Steps'
    <3>1. Coming \in Nat /\ Coming' = Coming - 1
      <4> DEFINE n == Cardinality(backend.todo)
      <4>1. n \in Nat /\ Coming = Len(stdout) + 2 * n /\ Coming' = Len(stdout') + 2 * n
        BY <1>1, TodoCount DEF Coming, Backends
      <4> HIDE DEF n
      <4> QED BY <2>2, <4>1
    <3> QED BY <1>1, <1>5, <2>1, <2>3, <3>1 DEF Steps, Inv, Control
  <2>8. RowsReal'
    <3>1. \A i \in DOMAIN stdout' : \A r \in stdout'[i].row : Real(r)
      BY <1>1, <1>5, ReadOne DEF Inv, Data, RowsReal
    <3>2. \A r \in rows : Real(r)
      BY <1>3, <1>5
    <3> QED BY <1>1, <1>5, <2>1, <3>1, <3>2 DEF RowsReal, Real
  <2>9. EditReal' /\ ShownIsReal'
    BY <2>1 DEF EditReal, ShownIsReal
  <2> QED BY <2>4, <2>5, <2>6, <2>7, <2>8, <2>9 DEF Inv, Control, Data
<1>6. CASE stdout # <<>> /\ stdout' = Tail(stdout) /\ ~(gui.left > 1)
           /\ gui' = Ready /\ store' = Shown(rows)
  <2>1. gui.left = 1
    BY <1>1, <1>6
  <2>2. Len(stdout) = 1 /\ stdout' = <<>>
    <3>1. Len(stdout) <= 1
      BY <1>1, <2>1 DEF Inv, Control, Bounded
    <3> QED BY <1>6, <3>1, ReadOne
  <2>3. Lives => ~backend.failed
    BY <1>1, <1>6 DEF Inv, Control, OutOfStep
  <2>4. Lives => Coming = 1
    BY <1>1, <2>1, <2>3 DEF Inv, Control, Steps
  <2>5. Lives => backend.todo = {}
    BY <2>2, <2>4, Counted
  <2> QED BY <1>3, <1>4, <1>6, <2>2, <2>3, <2>5
<1>7. CASE AtEof /\ gui' = Ready /\ store' = Shown(gui.rows) /\ UNCHANGED stdout
  <2>1. ~Lives /\ stdout' = <<>>
    BY <1>7 DEF AtEof, Lives
  <2> QED BY <1>1, <1>2, <1>4, <1>7, <2>1
<1> QED BY <1>5, <1>6, <1>7 DEF read_list_line, rows

\* A text that has a value has a rate, and a number is not taken for none.
LEMMA ParsedValue ==
    ASSUME NEW config \in Configs, NEW d \in Directions,
           NEW text \in Texts \cup {set_entry_to_value(config[d])},
           NEW value \in parse_limit_value(text)
    PROVE  /\ value \in Rates
           /\ text.form = "number" /\ text.int # -1 => value # Unlimited
<1>1. config[d] \in Rates
  BY DEF Configs
<1>2. text.int \in Int
  BY <1>1, GuiBackendAssumption DEF set_entry_to_value, Rates
<1>3. CASE text.form = "blank" \/ (text.form = "number" /\ text.int = -1)
  <2>1. value = Unlimited
    BY <1>3 DEF parse_limit_value
  <2> QED BY <1>3, <2>1, GuiBackendAssumption DEF Rates
<1>4. CASE ~(text.form = "blank" \/ (text.form = "number" /\ text.int = -1))
  <2>1. text.int >= 0 /\ value = IF text.int < Unlimited THEN text.int ELSE Unlimited - 1
    BY <1>4 DEF parse_limit_value
  <2> QED BY <1>2, <2>1, GuiBackendAssumption DEF Rates
<1> QED BY <1>3, <1>4

\* apply_limit.
LEMMA ApplyNext ==
    ASSUME Inv, NEW p \in Pids, NEW d \in Directions, apply_limit(p, d)
    PROVE  Inv'
<1>1. gui.at = "ready" /\ p \in DOMAIN store
      /\ UNCHANGED <<alive, limits, heir, stdout, backend, store, dirty>>
      /\ gui \in Guis /\ backend \in Backends /\ store[p] \in Configs
  BY DEF apply_limit, system, Inv, Types
<1>2. PICK text \in Texts \cup {set_entry_to_value(store[p][d])} :
         \E value \in parse_limit_value(text) :
            /\ Send([cmd |-> "LIMIT", pid |-> p, config |-> [store[p] EXCEPT ![d] = value]])
            /\ gui' = [gui EXCEPT !.at = "await_code", !.why = "limit", !.pid = p, !.dir = d,
                          !.value = value, !.number = (text.form = "number" /\ text.int # -1)]
  BY <1>1 DEF apply_limit, find_process_by_pid
<1>3. PICK value \in parse_limit_value(text) :
            /\ Send([cmd |-> "LIMIT", pid |-> p, config |-> [store[p] EXCEPT ![d] = value]])
            /\ gui' = [gui EXCEPT !.at = "await_code", !.why = "limit", !.pid = p, !.dir = d,
                          !.value = value, !.number = (text.form = "number" /\ text.int # -1)]
  BY <1>2
<1> DEFINE number == text.form = "number" /\ text.int # -1
           command == [cmd |-> "LIMIT", pid |-> p, config |-> [store[p] EXCEPT ![d] = value]]
<1>4. value \in Rates /\ (number => value # Unlimited)
  BY <1>1, ParsedValue
<1>5. number \in BOOLEAN
  OBVIOUS
<1>6. command \in Commands
  BY <1>1, <1>4 DEF Commands, Configs
<1>7. gui' = [gui EXCEPT !.at = "await_code", !.why = "limit", !.pid = p, !.dir = d,
                         !.value = value, !.number = number]
      /\ Send(command)
  BY <1>3
<1> HIDE DEF number
<1>8. gui' \in Guis /\ gui'.at = "await_code" /\ gui'.why = "limit" /\ gui'.pid = p
      /\ gui'.dir = d /\ gui'.value = value /\ gui'.number = number
  BY <1>1, <1>4, <1>5, <1>7 DEF Guis
<1>9. command = [cmd |-> "LIMIT", pid |-> gui'.pid, config |-> Edited']
  BY <1>1, <1>8 DEF Edited
<1> HIDE DEF command
<1>10. stdout = <<>> /\ (Lives => stdin = <<>> /\ backend.todo = {} /\ ~backend.failed
                                /\ backend.at \in {"loop", "list"})
  BY <1>1, ReadyQuiet
<1>11. stdin' \in Seq(Commands) /\ Len(stdin') <= 1
       /\ (Lives => stdin' # <<>> /\ Len(stdin') = 1 /\ stdin'[1] = command)
  BY <1>6, <1>7, <1>10, SendStep DEF Inv, Control
<1>12. Lives' = Lives /\ Len(stdout) = 0
  BY <1>1, <1>10, EmptySeq DEF Lives
<1>13. Types'
  BY <1>1, <1>8, <1>11 DEF Inv, Types
<1>14. Session' /\ Bounded'
  BY <1>1, <1>4, <1>8, <1>10, <1>12 DEF Inv, Control, Session, Bounded, Lives
<1>15. Pending'
  BY <1>1, <1>8, <1>9, <1>10, <1>11, <1>12 DEF Pending
<1>16. OutOfStep'
  BY <1>1, <1>10, <1>12 DEF OutOfStep
<1>17. Steps'
  <2>1. Lives => Coming' = 0
    BY <1>1, <1>10, <1>12, TodoCount DEF Coming, Backends
  <2> QED BY <1>8, <1>11, <1>12, <2>1 DEF Steps, Asked
<1>18. RowsReal' /\ ShownIsReal'
  BY <1>8 DEF RowsReal, ShownIsReal
<1>19. EditReal'
  BY <1>1, <1>8, <1>10 DEF EditReal, Inv, Data, ShownIsReal
<1> QED BY <1>13, <1>14, <1>15, <1>16, <1>17, <1>18, <1>19 DEF Inv, Control, Data

\* on_clean_clicked: the dialog opens.
LEMMA DialogNext == ASSUME Inv, on_clean_clicked PROVE Inv'
<1>1. gui.at = "ready" /\ UNCHANGED <<alive, limits, heir, stdin, stdout, backend, store, dirty>>
      /\ gui \in Guis
  BY DEF on_clean_clicked, system, Inv, Types
<1>2. gui' \in Guis /\ gui'.at = "dialog" /\ gui'.number = gui.number /\ gui'.value = gui.value
  BY <1>1 DEF on_clean_clicked, Guis
<1>3. Lives' = Lives /\ Coming' = Coming
  BY <1>1 DEF Lives, Coming
<1>4. Types'
  BY <1>1, <1>2 DEF Inv, Types
<1>5. Control'
  BY <1>1, <1>2, <1>3 DEF Inv, Control, Session, Pending, OutOfStep, Bounded, Steps, Lives
<1>6. Data'
  BY <1>1, <1>2 DEF Inv, Data, RowsReal, EditReal, ShownIsReal
<1> QED BY <1>4, <1>5, <1>6 DEF Inv

\* on_clean_response.
LEMMA ResponseNext ==
    ASSUME Inv, NEW response \in {"clean", "cancel"}, on_clean_response(response)
    PROVE  Inv'
<1>1. gui.at = "dialog" /\ UNCHANGED <<alive, limits, heir, stdout, backend, store, dirty>>
      /\ gui \in Guis /\ backend \in Backends /\ DOMAIN store \subseteq Pids
      /\ store \in [DOMAIN store -> Configs] /\ dirty \subseteq Pids
  BY DEF on_clean_response, system, Inv, Types
<1>2. stdout = <<>> /\ (Lives => stdin = <<>> /\ backend.todo = {} /\ ~backend.failed
                                /\ backend.at \in {"loop", "list"})
  BY <1>1, ReadyQuiet
<1>3. CASE gui' = Ready /\ UNCHANGED stdin
  <2>1. \A p \in DOMAIN store \ dirty : store[p] = limits[p]
    BY <1>1 DEF Inv, Data, ShownIsReal
  <2> QED BY <1>1, <1>2, <1>3, <2>1, ReadyNext
<1>4. CASE Send(Command("CLEAN")) /\ gui' = [gui EXCEPT !.at = "await_code", !.why = "clean"]
  <2>1. gui' \in Guis /\ gui'.at = "await_code" /\ gui'.why = "clean"
        /\ gui'.number = gui.number /\ gui'.value = gui.value
    BY <1>1, <1>4 DEF Guis
  <2>2. stdin' \in Seq(Commands) /\ Len(stdin') <= 1
        /\ (Lives => stdin' # <<>> /\ Len(stdin') = 1 /\ stdin'[1].cmd = "CLEAN")
    BY <1>2, <1>4, SendStep, CommandType DEF Inv, Control
  <2>3. Lives' = Lives /\ Len(stdout) = 0
    BY <1>1, <1>2, EmptySeq DEF Lives
  <2>4. Types'
    BY <1>1, <2>1, <2>2 DEF Inv, Types
  <2>5. Session' /\ Bounded' /\ Pending' /\ OutOfStep'
    BY <1>1, <1>2, <2>1, <2>2, <2>3
       DEF Inv, Control, Session, Bounded, Pending, OutOfStep, Lives
  <2>6. Steps'
    <3>1. Lives => Coming' = 0
      BY <1>1, <1>2, <2>3, TodoCount DEF Coming, Backends
    <3> QED BY <2>1, <2>2, <2>3, <3>1 DEF Steps, Asked
  <2>7. Data'
    BY <2>1 DEF Data, RowsReal, EditReal, ShownIsReal
  <2> QED BY <2>4, <2>5, <2>6, <2>7 DEF Inv, Control
<1> QED BY <1>3, <1>4 DEF on_clean_response

\* read_code.
LEMMA ReadCodeNext == ASSUME Inv, read_code PROVE Inv'
<1> DEFINE ok == stdout # <<>> /\ Head(stdout).int = BACKEND_RESPONSE_OK
<1>1. gui.at = "await_code" /\ UNCHANGED <<alive, limits, heir, backend>>
      /\ gui \in Guis /\ backend \in Backends /\ DOMAIN store \subseteq Pids
      /\ store \in [DOMAIN store -> Configs] /\ dirty \subseteq Pids
      /\ gui.why \in {"limit", "clean"} /\ (gui.why = "limit" => gui.pid \in DOMAIN store)
  BY DEF read_code, system, Inv, Types, Control, Session
<1>2. /\ stdout' = <<>>
      /\ Lives => stdin = <<>> /\ backend.todo = {} /\ ~backend.failed /\ stdout # <<>>
                  /\ backend.at \in {"loop", "list"}
  <2>1. CASE stdout # <<>> /\ stdout' = Tail(stdout)
    <3>1. Len(stdout) = 1 /\ stdout' = <<>>
      <4>1. Len(stdout) <= 1
        BY <1>1 DEF Inv, Control, Bounded
      <4> QED BY <2>1, <4>1, ReadOne
    <3>2. Lives => stdin = <<>> /\ ~backend.failed
      BY <1>1, <2>1 DEF Inv, Control, Pending, OutOfStep
    <3>3. Lives => Coming = 1
      <4>1. Coming \in Nat /\ Coming >= Len(stdout)
        BY Counted
      <4> QED BY <1>1, <3>1, <3>2, <4>1 DEF Inv, Control, Steps, Asked
    <3>4. Lives => backend.todo = {}
      BY <3>1, <3>3, Counted
    <3>5. Lives => backend.at \in {"loop", "list"}
      BY <1>1 DEF Inv, Control, Session, Lives, Backends
    <3> QED BY <2>1, <3>1, <3>2, <3>4, <3>5
  <2>2. CASE AtEof /\ UNCHANGED stdout
    BY <2>2 DEF AtEof, Lives
  <2> QED BY <2>1, <2>2 DEF read_code
<1>3. CASE ok /\ gui.why = "clean" /\ RequestList("clean") /\ store' = store
  BY <1>1, <1>2, <1>3, RequestListNext
<1>4. CASE ok /\ gui.why = "limit" /\ gui' = Ready /\ dirty' = dirty /\ UNCHANGED stdin
           /\ store' = [store EXCEPT ![gui.pid][gui.dir] = gui.value]
  <2>1. store' = [store EXCEPT ![gui.pid] = Edited]
    BY <1>4 DEF Edited
  <2>2. gui.pid \in DOMAIN store /\ gui.dir \in Directions /\ gui.value \in Rates
    BY <1>1, <1>4 DEF Guis
  <2>3. Edited \in Configs
    BY <1>1, <2>2 DEF Edited, Configs
  <2>4. DOMAIN store' = DOMAIN store /\ store' \in [DOMAIN store' -> Configs]
        /\ store'[gui.pid] = Edited
        /\ \A p \in DOMAIN store \ {gui.pid} : store'[p] = store[p]
    BY <1>1, <2>1, <2>2, <2>3
  <2>5. stdout # <<>> /\ stdout[1].int = BACKEND_RESPONSE_OK
    <3>1. stdout # <<>> => Head(stdout) = stdout[1]
      BY PipeRead DEF Inv, Types
    <3> QED BY <1>4, <3>1
  <2>6. \A p \in DOMAIN store' \ dirty' : store'[p] = limits[p]
    BY <1>1, <1>4, <2>4, <2>5 DEF Inv, Data, EditReal
  <2> QED BY <1>1, <1>2, <1>4, <2>4, <2>6, ReadyNext
<1>5. CASE ~ok /\ gui.why = "limit" /\ gui' = Ready /\ dirty' = dirty \cup {gui.pid}
           /\ UNCHANGED stdin /\ store' = store
  <2>1. \A p \in DOMAIN store' \ dirty' : store'[p] = limits[p]
    BY <1>1, <1>5 DEF Inv, Data, EditReal
  <2>2. dirty' \subseteq Pids
    BY <1>1, <1>5
  <2> QED BY <1>1, <1>2, <1>5, <2>1, <2>2, ReadyNext
<1>6. CASE ~ok /\ gui.why = "clean" /\ gui' = Ready /\ dirty' = Pids
           /\ UNCHANGED stdin /\ store' = store
  BY <1>1, <1>2, <1>6, ReadyNext
<1> HIDE DEF ok
<1>7. /\ IF ok /\ gui.why = "clean" THEN RequestList("clean")
         ELSE /\ gui' = Ready
              /\ dirty' = IF ok THEN dirty
                          ELSE IF gui.why = "limit" THEN dirty \cup {gui.pid} ELSE Pids
              /\ UNCHANGED stdin
      /\ store' = IF ok /\ gui.why = "limit" THEN [store EXCEPT ![gui.pid][gui.dir] = gui.value]
                  ELSE store
  BY DEF read_code, ok
<1>8. gui.why = "limit" \/ gui.why = "clean"
  BY <1>1
<1>9. CASE ok /\ gui.why = "clean"
  BY <1>3, <1>7, <1>9
<1>10. CASE ok /\ gui.why = "limit"
  BY <1>4, <1>7, <1>10, Zenon
<1>11. CASE ~ok /\ gui.why = "limit"
  BY <1>5, <1>7, <1>11
<1>12. CASE ~ok /\ gui.why = "clean"
  BY <1>6, <1>7, <1>12
<1> QED BY <1>8, <1>9, <1>10, <1>11, <1>12
-----------------------------------------------------------------------------
(***************************************************************************)
(* The backend.                                                            *)
(***************************************************************************)

\* The backend ends; a command it had read may have changed the limits.
LEMMA ExitedDirty ==
    ASSUME Inv, backend' = Exited, backend.at \notin {"off", "exited"},
           stdin' = stdin \/ stdin' = <<>>,
           limits' \in [Pids -> Configs], heir' \in {"none", "cli", "backend"},
           \/ limits' = limits
           \/ /\ stdout = <<>> /\ gui.at \in {"await_code", "waitpid", "gone"}
              /\ gui.at = "await_code" /\ gui.why = "limit" =>
                    \A q \in Pids \ {gui.pid} : limits'[q] = limits[q],
           dirty' \in SUBSET Pids, dirty \subseteq dirty',
           UNCHANGED <<alive, stdout, gui, store>>
    PROVE  Inv'
<1>1. backend \in Backends /\ gui \in Guis /\ DOMAIN store \subseteq Pids
  BY DEF Inv, Types
<1>2. backend' \in Backends /\ backend'.at = "exited" /\ backend'.todo = {}
  BY <1>1 DEF Exited, Backends
<1>3. stdin' \in Seq(Commands) /\ Len(stdin') <= 1 /\ (stdin = <<>> => stdin' = <<>>)
  <2>1. stdin \in Seq(Commands) /\ Len(stdin) <= 1
    BY DEF Inv, Types
  <2>2. CASE stdin' = stdin
    BY <2>1, <2>2
  <2>3. CASE stdin' = <<>>
    BY <2>3, EmptySeq
  <2> QED BY <2>2, <2>3
<1>4. ~Lives'
  BY <1>2 DEF Lives
<1>5. Types'
  BY <1>2, <1>3 DEF Inv, Types
<1>6. Control'
  BY <1>2, <1>3, <1>4
     DEF Inv, Control, Session, Pending, OutOfStep, Bounded, Steps
<1>7. ASSUME limits' = limits
      PROVE  Data'
  BY <1>4, <1>7 DEF Inv, Data, RowsReal, EditReal, ShownIsReal, Real, Edited
<1>8. ASSUME stdout = <<>>, gui.at \in {"await_code", "waitpid", "gone"},
             gui.at = "await_code" /\ gui.why = "limit" =>
                \A q \in Pids \ {gui.pid} : limits'[q] = limits[q]
      PROVE  Data'
  BY <1>1, <1>4, <1>8 DEF Inv, Data, RowsReal, EditReal, ShownIsReal
<1>9. Data'
  BY <1>7, <1>8
<1> QED BY <1>5, <1>6, <1>9 DEF Inv

\* The same, with the dirty processes as they were.
LEMMA ExitedNext ==
    ASSUME Inv, backend' = Exited, backend.at \notin {"off", "exited"},
           stdin' = stdin \/ stdin' = <<>>,
           limits' \in [Pids -> Configs], heir' \in {"none", "cli", "backend"},
           \/ limits' = limits
           \/ /\ stdout = <<>> /\ gui.at \in {"await_code", "waitpid", "gone"}
              /\ gui.at = "await_code" /\ gui.why = "limit" =>
                    \A q \in Pids \ {gui.pid} : limits'[q] = limits[q],
           UNCHANGED <<alive, stdout, gui, store, dirty>>
    PROVE  Inv'
<1>1. dirty' \in SUBSET Pids /\ dirty \subseteq dirty'
  BY DEF Inv, Types
<1> QED BY <1>1, ExitedDirty

\* KillBackend.
LEMMA KillBackendNext == ASSUME Inv, KillBackend PROVE Inv'
<1>1. limits' \in [Pids -> Configs] /\ heir' \in {"none", "cli", "backend"}
  BY DEF KillBackend, system, Inv, Types
<1> QED BY <1>1, ExitedNext DEF KillBackend, system

\* There is one command at most in the pipe.
LEMMA OneCommand ==
    ASSUME Inv, stdin # <<>>
    PROVE  Head(stdin) = stdin[1] /\ stdin[1] \in Commands /\ Tail(stdin) = <<>>
<1>1. stdin \in Seq(Commands) /\ Len(stdin) <= 1
  BY DEF Inv, Types
<1>2. Tail(stdin) = <<>>
  BY <1>1, PipeOnly
<1> QED BY <1>1, <1>2, PipeRead

\* The command that the backend reads is the only one.
LEMMA ReadCommand ==
    ASSUME Inv, NEW cmd, Reads(cmd)
    PROVE  /\ backend.at = "loop" /\ backend.todo = {} /\ ~backend.failed
           /\ stdout = <<>> /\ stdin # <<>> /\ Tail(stdin) = <<>>
           /\ Head(stdin) = stdin[1] /\ stdin[1] \in Commands /\ stdin[1].cmd = cmd
           /\ gui.at \in {"await_count", "await_code", "waitpid", "gone"}
<1>1. stdin \in Seq(Commands) /\ stdin # <<>> /\ Len(stdin) <= 1 /\ backend.at = "loop" /\ Lives
  BY DEF Reads, Inv, Types, Lives
<1>2. Head(stdin) = stdin[1] /\ stdin[1] \in Commands /\ Tail(stdin) = <<>>
  BY <1>1, OneCommand, Zenon
<1> QED BY <1>1, <1>2 DEF Reads, Inv, Control, Pending

\* leave_loop.
LEMMA LeaveNext == ASSUME Inv, leave_loop PROVE Inv'
<1>1. limits' \in [Pids -> Configs] /\ heir' \in {"none", "cli", "backend"} /\ limits' = limits
      /\ UNCHANGED <<alive, stdout, gui, store, dirty>> /\ backend' = Exited
  BY DEF leave_loop, system, Inv, Types
<1>2. backend.at = "loop" /\ (stdin' = stdin \/ stdin' = <<>>)
  BY ReadCommand DEF leave_loop, Reads
<1> QED BY <1>1, <1>2, ExitedNext

\* The answer to a limit or a clean.
LEMMA CodeNext ==
    ASSUME Inv, backend.at = "loop", stdout = <<>>, backend.todo = {}, ~backend.failed,
           gui.at = "await_code", stdin' = <<>>,
           NEW code \in {BACKEND_RESPONSE_OK, BACKEND_RESPONSE_ERROR},
           stdout' = <<Line(code)>>,
           limits' \in [Pids -> Configs], heir' \in {"none", "cli", "backend"},
           gui.why = "limit" =>
              /\ \A q \in Pids \ {gui.pid} : limits'[q] = limits[q]
              /\ code = BACKEND_RESPONSE_OK => limits'[gui.pid] = Edited,
           UNCHANGED <<alive, backend, gui, store, dirty>>
    PROVE  Inv'
<1>1. Line(code) \in Lines /\ Line(code).int = code
  BY DEF Line, Lines, BACKEND_RESPONSE_OK, BACKEND_RESPONSE_ERROR
<1>2. stdout' \in Seq(Lines) /\ Len(stdout') = 1 /\ stdout'[1].int = code /\ stdout' # <<>>
  BY <1>1
<1>3. stdin' \in Seq(Commands) /\ Len(stdin') = 0
  BY EmptySeq
<1>4. Types'
  BY <1>2, <1>3, GuiBackendAssumption DEF Inv, Types
<1>5. Session' /\ Bounded' /\ Pending' /\ OutOfStep'
  BY <1>2 DEF Inv, Control, Session, Bounded, Pending, OutOfStep, Lives
<1>6. Steps'
  <2>1. Coming' = 1
    BY <1>2, TodoCount DEF Coming
  <2> QED BY <2>1 DEF Steps
<1>7. Edited' = Edited /\ DOMAIN store \subseteq Pids
  BY DEF Edited, Inv, Types
<1>8. EditReal'
  BY <1>2, <1>7, Zenon DEF EditReal, Inv, Data
<1>9. RowsReal' /\ ShownIsReal'
  BY DEF RowsReal, ShownIsReal
<1> QED BY <1>4, <1>5, <1>6, <1>8, <1>9 DEF Inv, Control, Data

\* The two outcomes of a printf.
LEMMA PrintCases ==
    ASSUME NEW lines, NEW next, PrintLines(lines, next)
    PROVE  \/ /\ gui.at \notin {"waitpid", "gone"} /\ Len(stdout) + Len(lines) <= PipeLines
              /\ stdout' = stdout \o lines /\ backend' = next
           \/ backend' = Exited /\ UNCHANGED stdout
BY DEF PrintLines, GuiGone

\* ratelimit_init.
LEMMA InitBackendNext == ASSUME Inv, ratelimit_init PROVE Inv'
<1>1. backend.at = "init" /\ stdin = <<>> /\ stdout = <<>> /\ gui.at \in {"await_ready", "gone"}
      /\ backend.todo = {} /\ ~backend.failed /\ backend \in Backends /\ gui \in Guis
      /\ limits' \in [Pids -> Configs] /\ heir' \in {"none", "cli", "backend"} /\ limits' = limits
      /\ UNCHANGED <<alive, heir, stdin, gui, store, dirty>>
  BY DEF ratelimit_init, system, Inv, Types, Control, Session, OutOfStep, Lives
<1>2. CASE backend' = Exited /\ UNCHANGED stdout
  BY <1>1, <1>2, ExitedNext
<1>3. ASSUME NEW code \in {BACKEND_RESPONSE_READY, BACKEND_RESPONSE_ERROR},
             gui.at \notin {"waitpid", "gone"}, stdout' = stdout \o <<Line(code)>>,
             backend' = Looping \/ backend' = Exited
      PROVE  Inv'
  <2>1. gui.at = "await_ready"
    BY <1>1, <1>3
  <2>2. Line(code) \in Lines
    BY DEF Line, Lines, BACKEND_RESPONSE_READY, BACKEND_RESPONSE_ERROR
  <2>3. stdout' = <<Line(code)>>
    BY <1>1, <1>3, <2>2, ConcatEmptySeq
  <2>4. stdout' \in Seq(Lines) /\ Len(stdout') = 1 /\ stdout' # <<>>
    BY <2>2, <2>3
  <2>5. backend' \in Backends /\ backend'.at \in {"loop", "exited"} /\ backend'.todo = {}
        /\ ~backend'.failed
    BY <1>1, <1>3 DEF Looping, Exited, Backends
  <2>6. Types'
    BY <1>1, <2>4, <2>5, GuiBackendAssumption DEF Inv, Types
  <2>7. Control'
    BY <1>1, <2>1, <2>4, <2>5
       DEF Inv, Control, Session, Pending, OutOfStep, Bounded, Steps, Lives
  <2>8. Data'
    BY <1>1, <2>1 DEF Data, RowsReal, EditReal, ShownIsReal
  <2> QED BY <2>6, <2>7, <2>8 DEF Inv
<1>4. CASE PrintLines(<<Line(BACKEND_RESPONSE_READY)>>, Looping)
  BY <1>2, <1>3, <1>4, PrintCases
<1>5. CASE PrintLines(<<Line(BACKEND_RESPONSE_ERROR)>>, Exited)
  BY <1>2, <1>3, <1>5, PrintCases
<1> QED BY <1>2, <1>4, <1>5 DEF ratelimit_init

\* handle_list_cmd.
LEMMA ListNext == ASSUME Inv, handle_list_cmd PROVE Inv'
<1>1. Reads("LIST") /\ stdin' = Tail(stdin) /\ UNCHANGED <<alive, limits, heir, gui, store, dirty>>
  BY DEF handle_list_cmd, system
<1>2. backend.at = "loop" /\ backend.todo = {} /\ ~backend.failed /\ stdout = <<>>
      /\ stdin' = <<>> /\ stdin # <<>> /\ stdin[1].cmd = "LIST"
      /\ gui.at \in {"await_count", "await_code", "waitpid", "gone"}
  BY <1>1, ReadCommand
<1>3. backend \in Backends /\ gui \in Guis /\ alive \subseteq Pids
      /\ (gui.at = "await_code" => gui.why \in {"limit", "clean"})
  BY DEF Inv, Types, Control, Session
<1>4. gui.at # "await_code"
  BY <1>2, <1>3 DEF Inv, Control, Pending, Lives
<1>5. CASE backend' = Exited /\ UNCHANGED stdout
  <2>1. limits' \in [Pids -> Configs] /\ heir' \in {"none", "cli", "backend"} /\ limits' = limits
    BY <1>1 DEF Inv, Types
  <2> QED BY <1>1, <1>2, <1>5, <2>1, ExitedNext
<1>6. ASSUME NEW line \in Lines, line.row = {}, stdout' = stdout \o <<line>>,
             gui.at \notin {"waitpid", "gone"}, line.int \in Nat,
             backend' \in Backends, backend'.at \in {"loop", "list"},
             \/ /\ ~backend'.failed /\ Cardinality(backend'.todo) = line.int
                /\ backend'.at = "list"
             \/ /\ backend'.failed /\ backend'.todo = {} /\ line = Line(BACKEND_RESPONSE_ERROR)
                /\ backend'.at = "loop"
      PROVE  Inv'
  <2>1. gui.at = "await_count"
    BY <1>2, <1>4, <1>6
  <2>2. stdout' = <<line>>
    BY <1>2, <1>6, ConcatEmptySeq
  <2>3. stdout' \in Seq(Lines) /\ Len(stdout') = 1 /\ stdout' # <<>> /\ stdout'[1] = line
    BY <2>2, PipeOne, Zenon
  <2>4. stdin' \in Seq(Commands) /\ Len(stdin') = 0
    BY <1>2, EmptySeq
  <2>5. Types'
    BY <1>1, <1>6, <2>3, <2>4, GuiBackendAssumption DEF Inv, Types
  <2>6. Session' /\ Pending' /\ OutOfStep'
    BY <1>1, <1>2, <1>6, <2>1, <2>2, <2>3
       DEF Inv, Control, Session, Pending, OutOfStep, Lives
  <2>7. Bounded'
    BY <1>1, <1>6, <2>1, <2>3 DEF Bounded
  <2>8. Steps'
    <3>1. ~backend'.failed => Coming' = 1 + 2 * line.int
      BY <1>6, <2>3 DEF Coming
    <3> QED BY <1>1, <1>2, <2>1, <2>3, <3>1 DEF Steps
  <2>9. RowsReal'
    <3>1. \A i \in DOMAIN stdout' : stdout'[i].row = {}
      <4>1. \A i \in DOMAIN stdout' : stdout'[i] = line
        BY <2>2, PipeOne, Zenon
      <4> QED BY <1>6, <4>1, Zenon
    <3>2. \A r \in gui.rows : Real(r)
      BY <2>1 DEF Inv, Data, RowsReal
    <3> QED BY <1>1, <3>1, <3>2 DEF RowsReal, Real
  <2>10. EditReal' /\ ShownIsReal'
    BY <1>1, <2>1 DEF EditReal, ShownIsReal
  <2> QED BY <2>5, <2>6, <2>7, <2>8, <2>9, <2>10 DEF Inv, Control, Data
<1>7. ASSUME NEW found \in SUBSET alive,
             PrintLines(<<Line(Cardinality(found))>>,
                        [backend EXCEPT !.at = "list", !.todo = found])
      PROVE  Inv'
  <2> DEFINE n == Cardinality(found)
  <2>1. n \in Nat /\ found \in SUBSET Pids
    BY <1>3, TodoCount
  <2>2. CASE /\ gui.at \notin {"waitpid", "gone"} /\ stdout' = stdout \o <<Line(n)>>
             /\ backend' = [backend EXCEPT !.at = "list", !.todo = found]
    <3>1. backend' \in Backends /\ backend'.at = "list" /\ backend'.todo = found
          /\ backend'.failed = backend.failed
      BY <1>3, <2>1, <2>2 DEF Backends
    <3>2. n = Cardinality(backend'.todo)
      BY <3>1
    <3> HIDE DEF n
    <3>3. Line(n) \in Lines /\ Line(n).row = {} /\ Line(n).int = n
      BY <2>1 DEF Line, Lines
    <3> QED BY <1>2, <1>6, <2>1, <2>2, <3>1, <3>2, <3>3
  <2> QED BY <1>5, <1>7, <2>2, PrintCases
<1>8. ASSUME PrintLines(<<Line(BACKEND_RESPONSE_ERROR)>>, [backend EXCEPT !.failed = TRUE])
      PROVE  Inv'
  <2>1. CASE /\ gui.at \notin {"waitpid", "gone"}
             /\ stdout' = stdout \o <<Line(BACKEND_RESPONSE_ERROR)>>
             /\ backend' = [backend EXCEPT !.failed = TRUE]
    <3>1. backend' \in Backends /\ backend'.at = "loop" /\ backend'.todo = {} /\ backend'.failed
      BY <1>2, <1>3, <2>1 DEF Backends
    <3>2. Line(BACKEND_RESPONSE_ERROR) \in Lines /\ Line(BACKEND_RESPONSE_ERROR).row = {}
          /\ Line(BACKEND_RESPONSE_ERROR).int \in Nat
      BY DEF Line, Lines, BACKEND_RESPONSE_ERROR
    <3> QED BY <1>6, <2>1, <3>1, <3>2
  <2> QED BY <1>5, <1>8, <2>1, PrintCases
<1> QED BY <1>7, <1>8 DEF handle_list_cmd

\* What is read of a process is a configuration.
LEMMA ReadType ==
    ASSUME Inv, NEW p \in Pids, NEW shown \in get_rate_limits_from_cgroup(p)
    PROVE  shown \in Configs
BY DEF get_rate_limits_from_cgroup

\* The lines of one process.
LEMMA RowLinesType ==
    ASSUME NEW p \in Pids, NEW shown \in Configs
    PROVE  /\ RowLines(p, shown) \in Seq(Lines) /\ Len(RowLines(p, shown)) = 2
           /\ \A i \in DOMAIN RowLines(p, shown) : \A r \in RowLines(p, shown)[i].row : r = <<p, shown>>
<1> DEFINE one == [int |-> p, row |-> {<<p, shown>>}]
           two == Line(-1)
<1>1. p \in Int
  BY GuiBackendAssumption
<1>2. one \in Lines /\ \A r \in one.row : r = <<p, shown>>
  BY <1>1 DEF Lines, Rows
<1>3. two \in Lines /\ \A r \in two.row : r = <<p, shown>>
  BY DEF Line, Lines
<1>4. RowLines(p, shown) = <<one, two>>
  BY DEF RowLines
<1> HIDE DEF one, two
<1>5. <<one, two>> \in Seq(Lines) /\ Len(<<one, two>>) = 2
      /\ \A i \in DOMAIN <<one, two>> : <<one, two>>[i] \in {one, two}
  BY <1>2, <1>3
<1> QED BY <1>2, <1>3, <1>4, <1>5, Zenon

\* print_row.
LEMMA PrintRowNext == ASSUME Inv, print_row PROVE Inv'
<1>1. backend.at = "list" /\ UNCHANGED <<alive, limits, heir, stdin, gui, store>>
      /\ backend \in Backends /\ gui \in Guis /\ backend.todo \in SUBSET Pids
      /\ stdout \in Seq(Lines) /\ Lives
  BY DEF print_row, system, Inv, Types, Backends, Lives
<1>2. ASSUME backend' = Exited, UNCHANGED stdout, dirty' \in SUBSET Pids, dirty \subseteq dirty'
      PROVE  Inv'
  <2>1. limits' \in [Pids -> Configs] /\ heir' \in {"none", "cli", "backend"} /\ limits' = limits
    BY <1>1 DEF Inv, Types
  <2> QED BY <1>1, <1>2, <2>1, ExitedDirty
<1>3. CASE backend.todo = {} /\ backend' = Looping /\ UNCHANGED <<stdout, dirty>>
  <2>1. backend' \in Backends /\ backend'.at = "loop" /\ backend'.todo = backend.todo
        /\ backend'.failed = backend.failed
    BY <1>1, <1>3 DEF Looping, Backends
  <2>2. Types'
    BY <1>1, <1>3, <2>1 DEF Inv, Types
  <2>3. Edited' = Edited /\ Coming' = Coming /\ Lives' = Lives
    BY <1>1, <1>3, <2>1 DEF Edited, Coming, Lives
  <2>4. Session' /\ OutOfStep' /\ Bounded'
    BY <1>1, <1>3, <2>1, <2>3
       DEF Inv, Control, Session, OutOfStep, Bounded, Lives
  <2>5. Pending' /\ Steps'
    BY <1>1, <1>3, <2>1, <2>3 DEF Inv, Control, Pending, Steps, Asked
  <2>6. Data'
    BY <1>1, <1>3, <2>3 DEF Inv, Data, RowsReal, EditReal, ShownIsReal, Real
  <2> QED BY <2>2, <2>4, <2>5, <2>6 DEF Inv, Control
<1>4. ASSUME NEW p \in backend.todo, NEW shown \in get_rate_limits_from_cgroup(p),
             PrintLines(RowLines(p, shown), [backend EXCEPT !.todo = @ \ {p}]),
             dirty' = IF shown = limits[p] THEN dirty ELSE dirty \cup {p}
      PROVE  Inv'
  <2> DEFINE lines == RowLines(p, shown)
  <2>0. /\ dirty' \in SUBSET Pids /\ dirty \subseteq dirty'
        /\ shown = limits[p] \/ p \in dirty'
    BY <1>1, <1>4 DEF Inv, Types
  <2>1. lines \in Seq(Lines) /\ Len(lines) = 2
        /\ \A i \in DOMAIN lines : \A r \in lines[i].row : Real(r)'
    <3>1. p \in Pids /\ shown \in Configs
      BY <1>1, <1>4, ReadType
    <3>2. lines \in Seq(Lines) /\ Len(lines) = 2
          /\ \A i \in DOMAIN lines : \A r \in lines[i].row : r = <<p, shown>>
      BY <3>1, RowLinesType
    <3>3. Real(<<p, shown>>)'
      BY <1>1, <2>0 DEF Real
    <3> QED BY <3>2, <3>3
  <2>2. /\ stdin = <<>> /\ ~backend.failed /\ gui.at \notin {"off", "await_ready", "ready", "dialog"}
    <3>1. Lives => ~(Coming = Len(stdout))
      BY <1>4, Counted
    <3>2. ~backend.failed /\ gui.at \notin {"off", "await_ready"} /\ stdin = <<>>
      BY <1>1, <1>4 DEF Inv, Control, OutOfStep, Session, Pending
    <3>3. gui.at \notin {"ready", "dialog"}
      BY <1>1, <1>4, ReadyQuiet
    <3> QED BY <3>2, <3>3
  <2>3. CASE /\ gui.at \notin {"waitpid", "gone"} /\ Len(stdout) + Len(lines) <= PipeLines
             /\ stdout' = stdout \o lines /\ backend' = [backend EXCEPT !.todo = @ \ {p}]
    <3> HIDE DEF lines
    <3>1. backend' \in Backends /\ backend'.at = "list" /\ backend'.todo = backend.todo \ {p}
          /\ backend'.failed = backend.failed
      BY <1>1, <2>3 DEF Backends
    <3>2. stdout' \in Seq(Lines) /\ Len(stdout') = Len(stdout) + 2 /\ Len(stdout) \in Nat
          /\ (stdout # <<>> => stdout'[1] = stdout[1] /\ stdout' # <<>>)
      <4>1. stdout' \in Seq(Lines) /\ Len(stdout') = Len(stdout) + Len(lines)
            /\ (stdout # <<>> => stdout'[1] = stdout[1] /\ stdout' # <<>>)
        <5>1. stdout \in Seq(Lines) /\ lines \in Seq(Lines) /\ stdout' = stdout \o lines
          BY <1>1, <2>1, <2>3
        <5>2. /\ stdout \o lines \in Seq(Lines) /\ Len(stdout \o lines) = Len(stdout) + Len(lines)
              /\ stdout # <<>> => (stdout \o lines)[1] = stdout[1] /\ stdout \o lines # <<>>
          BY <5>1, PipeConcat, Zenon
        <5> QED BY <5>1, <5>2, Zenon
      <4>2. Len(lines) = 2
        BY <2>1
      <4>3. Len(stdout) \in Nat
        BY <1>1, PipeEmpty
      <4> QED BY <4>1, <4>2, <4>3, Zenon
    <3>3. Len(stdout') <= PipeLines
      BY <2>1, <2>3, <3>2
    <3>4. Coming' = Coming /\ Coming \in Nat /\ Coming >= Len(stdout') /\ Coming >= 2
      <4> DEFINE n == Cardinality(backend.todo)
      <4>1. n \in Nat /\ Cardinality(backend'.todo) = n - 1 /\ Cardinality(backend'.todo) \in Nat
        BY <1>1, <1>4, <3>1, TodoCount
      <4>2. Coming = Len(stdout) + 2 * n /\ Coming' = Len(stdout') + 2 * Cardinality(backend'.todo)
        BY DEF Coming
      <4> HIDE DEF n
      <4> QED BY <3>2, <4>1, <4>2
    <3>5. Types'
      BY <1>1, <2>0, <3>1, <3>2, <3>3 DEF Inv, Types
    <3>6. gui.at \in {"await_count", "await_lines"}
      <4>1. gui.at # "await_code"
        BY <1>1, <2>2, <3>4, Counted DEF Inv, Control, Steps, Asked
      <4> QED BY <1>1, <2>2, <2>3, <4>1 DEF Guis
    <3>7. gui.at = "await_lines" => Coming = gui.left
      BY <1>1, <2>2 DEF Inv, Control, Steps
    <3>8. gui.at = "await_count" => stdout # <<>> /\ Coming = 1 + 2 * stdout[1].int
      <4>1. ~Asked
        BY <3>4 DEF Asked
      <4> QED BY <1>1, <2>2, <4>1 DEF Inv, Control, Steps
    <3>9. Session' /\ Pending' /\ OutOfStep'
      BY <1>1, <2>2, <3>1, <3>6 DEF Inv, Control, Session, Pending, OutOfStep, Lives
    <3>10. Bounded'
      BY <1>1, <3>2, <3>4, <3>6, <3>7, <3>8 DEF Inv, Control, Bounded
    <3>11. Steps'
      BY <1>1, <2>2, <3>1, <3>2, <3>4, <3>6, <3>7, <3>8 DEF Steps
    <3>12. RowsReal'
      <4>1. \A i \in DOMAIN stdout : \A r \in stdout[i].row : Real(r)'
        BY <1>1, <2>0, <3>6 DEF Inv, Data, RowsReal, Real
      <4>2. \A i \in DOMAIN stdout' : \A r \in stdout'[i].row : Real(r)'
        BY <1>1, <2>1, <2>3, <4>1, PipeConcat
      <4>3. \A r \in gui.rows : Real(r)'
        BY <1>1, <2>0, <3>6 DEF Inv, Data, RowsReal, Real
      <4> QED BY <1>1, <4>2, <4>3 DEF RowsReal
    <3>13. EditReal' /\ ShownIsReal'
      BY <1>1, <3>6 DEF EditReal, ShownIsReal
    <3> QED BY <3>5, <3>9, <3>10, <3>11, <3>12, <3>13 DEF Inv, Control, Data
  <2> QED BY <1>2, <1>4, <2>0, <2>3, PrintCases
<1> QED BY <1>3, <1>4 DEF print_row

\* The answer of a library call.
LEMMA AnswerNext ==
    ASSUME Inv, backend.at = "loop", stdout = <<>>, backend.todo = {}, ~backend.failed,
           gui.at \in {"await_code", "waitpid", "gone"}, stdin' = <<>>,
           NEW code \in {BACKEND_RESPONSE_OK, BACKEND_RESPONSE_ERROR},
           PrintLines(<<Line(code)>>, backend),
           limits' \in [Pids -> Configs], heir' \in {"none", "cli", "backend"},
           gui.at = "await_code" /\ gui.why = "limit" =>
              /\ \A q \in Pids \ {gui.pid} : limits'[q] = limits[q]
              /\ code = BACKEND_RESPONSE_OK => limits'[gui.pid] = Edited,
           UNCHANGED <<alive, gui, store, dirty>>
    PROVE  Inv'
<1>1. CASE backend' = Exited /\ UNCHANGED stdout
  BY <1>1, ExitedNext
<1>2. CASE gui.at \notin {"waitpid", "gone"} /\ stdout' = stdout \o <<Line(code)>>
           /\ backend' = backend
  <2>1. Line(code) \in Lines
    BY DEF Line, Lines, BACKEND_RESPONSE_OK, BACKEND_RESPONSE_ERROR
  <2>2. <<Line(code)>> \in Seq(Lines)
    BY <2>1, PipeOne
  <2>3. stdout' = <<Line(code)>>
    BY <1>2, <2>2, ConcatEmptySeq
  <2>4. gui.at = "await_code"
    BY <1>2
  <2> QED BY <1>2, <2>3, <2>4, CodeNext
<1> QED BY <1>1, <1>2, PrintCases

\* What a limit in the pipe is for.
LEMMA ReadLimit ==
    ASSUME Inv, Reads("LIMIT")
    PROVE  /\ gui.at \in {"await_code", "waitpid", "gone"} /\ gui.at # "waitpid"
           /\ gui.at = "await_code" =>
                 /\ gui.why = "limit" /\ gui.pid \in DOMAIN store /\ gui.pid \in Pids
                 /\ stdin[1].pid = gui.pid /\ stdin[1].config = Edited
<1>1. backend.at = "loop" /\ stdin # <<>> /\ stdin[1].cmd = "LIMIT"
      /\ gui.at \in {"await_count", "await_code", "waitpid", "gone"}
  BY ReadCommand
<1>2. gui.at \notin {"await_count", "waitpid"}
  BY <1>1 DEF Inv, Control, Pending, Lives
<1>3. gui.at = "await_code" => gui.why \in {"limit", "clean"} /\ gui.why # "clean"
  BY <1>1 DEF Inv, Control, Pending, Lives, Session
<1>4. gui.at = "await_code" =>
         /\ gui.pid \in DOMAIN store
         /\ stdin[1] = [cmd |-> "LIMIT", pid |-> gui.pid, config |-> Edited]
  BY <1>1, <1>3 DEF Inv, Control, Pending, Session, Lives
<1> QED BY <1>1, <1>2, <1>3, <1>4 DEF Inv, Types

\* handle_limit_cmd.
LEMMA LimitNext == ASSUME Inv, handle_limit_cmd PROVE Inv'
<1> DEFINE p == Head(stdin).pid
           config == Head(stdin).config
           owner == IF heir = "none" THEN "backend" ELSE heir
<1>1. Reads("LIMIT") /\ stdin' = Tail(stdin) /\ UNCHANGED <<alive, gui, store, dirty>>
  BY DEF handle_limit_cmd
<1>2. backend.at = "loop" /\ backend.todo = {} /\ ~backend.failed /\ stdout = <<>>
      /\ stdin' = <<>> /\ Head(stdin) = stdin[1] /\ stdin[1] \in Commands
  BY <1>1, ReadCommand
<1>3. gui.at \in {"await_code", "waitpid", "gone"}
      /\ (gui.at = "await_code" => gui.why = "limit" /\ gui.pid \in Pids /\ p = gui.pid
                                   /\ config = Edited)
  BY <1>1, <1>2, ReadLimit
<1>4. config \in Configs /\ NoLimits \in Configs
      /\ limits \in [Pids -> Configs] /\ heir \in {"none", "cli", "backend"}
      /\ owner \in {"none", "cli", "backend"}
  BY <1>2, GuiBackendAssumption DEF Commands, Inv, Types, NoLimits, Configs, Rates
<1> HIDE DEF p, config, owner
<1>5. CASE Succeeds([limits EXCEPT ![p] = config], owner)
  <2>1. limits' = [limits EXCEPT ![p] = config] /\ heir' = owner
        /\ PrintLines(<<Line(BACKEND_RESPONSE_OK)>>, backend)
    BY <1>5 DEF Succeeds
  <2>2. limits' \in [Pids -> Configs] /\ \A q \in Pids \ {p} : limits'[q] = limits[q]
    BY <1>4, <2>1
  <2>3. p \in Pids => limits'[p] = config
    BY <1>4, <2>1
  <2>4. heir' \in {"none", "cli", "backend"}
    BY <1>4, <2>1
  <2>5. gui.at = "await_code" /\ gui.why = "limit" =>
           /\ \A q \in Pids \ {gui.pid} : limits'[q] = limits[q]
           /\ limits'[gui.pid] = Edited
    BY <1>3, <2>2, <2>3
  <2> QED BY <1>1, <1>2, <1>3, <2>1, <2>2, <2>4, <2>5, AnswerNext
<1>6. CASE Fails([limits EXCEPT ![p] = NoLimits], owner)
  <2>1. (limits' = limits \/ limits' = [limits EXCEPT ![p] = NoLimits]) /\ heir' \in {heir, owner}
        /\ PrintLines(<<Line(BACKEND_RESPONSE_ERROR)>>, backend)
    BY <1>6 DEF Fails
  <2>2. limits' \in [Pids -> Configs] /\ \A q \in Pids \ {p} : limits'[q] = limits[q]
    BY <1>4, <2>1
  <2>3. heir' \in {"none", "cli", "backend"}
    BY <1>4, <2>1
  <2>4. BACKEND_RESPONSE_ERROR # BACKEND_RESPONSE_OK
    BY DEF BACKEND_RESPONSE_OK, BACKEND_RESPONSE_ERROR
  <2>5. gui.at = "await_code" /\ gui.why = "limit" =>
           \A q \in Pids \ {gui.pid} : limits'[q] = limits[q]
    BY <1>3, <2>2
  <2> QED BY <1>1, <1>2, <1>3, <2>1, <2>2, <2>3, <2>4, <2>5, AnswerNext
<1> QED BY <1>5, <1>6 DEF handle_limit_cmd, p, config, owner

\* handle_clean_cmd.
LEMMA CleanNext == ASSUME Inv, handle_clean_cmd PROVE Inv'
<1> DEFINE none == [p \in Pids |-> NoLimits]
<1>1. Reads("CLEAN") /\ stdin' = Tail(stdin) /\ UNCHANGED <<alive, gui, store, dirty>>
  BY DEF handle_clean_cmd
<1>2. backend.at = "loop" /\ backend.todo = {} /\ ~backend.failed /\ stdout = <<>>
      /\ stdin' = <<>> /\ stdin # <<>> /\ stdin[1].cmd = "CLEAN"
      /\ gui.at \in {"await_count", "await_code", "waitpid", "gone"}
  BY <1>1, ReadCommand
<1>3. gui.at \notin {"await_count", "waitpid"} /\ (gui.at = "await_code" => gui.why # "limit")
  BY <1>2 DEF Inv, Control, Pending, Lives
<1>4. limits \in [Pids -> Configs] /\ heir \in {"none", "cli", "backend"}
      /\ none \in [Pids -> Configs]
  BY GuiBackendAssumption DEF Inv, Types, NoLimits, Configs, Rates
<1> HIDE DEF none
<1>5. ASSUME NEW code \in {BACKEND_RESPONSE_OK, BACKEND_RESPONSE_ERROR},
             PrintLines(<<Line(code)>>, backend), limits' \in {limits, none},
             heir' \in {"none", heir}
      PROVE  Inv'
  <2>1. limits' \in [Pids -> Configs] /\ heir' \in {"none", "cli", "backend"}
    BY <1>4, <1>5
  <2>2. gui.at \in {"await_code", "waitpid", "gone"} /\ ~(gui.at = "await_code" /\ gui.why = "limit")
    BY <1>2, <1>3
  <2> QED BY <1>1, <1>2, <1>5, <2>1, <2>2, AnswerNext
<1>6. CASE Succeeds(none, "none")
  BY <1>5, <1>6 DEF Succeeds
<1>7. CASE Fails(none, heir)
  BY <1>5, <1>7 DEF Fails
<1> QED BY <1>6, <1>7 DEF handle_clean_cmd, none
-----------------------------------------------------------------------------
(***************************************************************************)
(* The theorems.                                                           *)
(***************************************************************************)

\* A step of the GUI.
LEMMA GuiNext == ASSUME Inv, backend_start \/ GuiReads \/ UserActs \/ KillGui PROVE Inv'
<1>1. CASE GuiReads
  BY <1>1, ReadReadyNext, ReadCountNext, ReadLineNext, ReadCodeNext, KillGuiNext DEF GuiReads
<1>2. CASE UserActs
  <2>1. ASSUME NEW response \in {"clean", "cancel"}, on_clean_response(response)
        PROVE  Inv'
    BY <2>1, ResponseNext
  <2>2. ASSUME NEW p \in Pids, NEW d \in Directions, apply_limit(p, d)
        PROVE  Inv'
    BY <2>2, ApplyNext
  <2> QED BY <1>2, <2>1, <2>2, RefreshNext, DialogNext, CloseNext DEF UserActs
<1> QED BY <1>1, <1>2, StartNext, KillGuiNext

\* A step of the backend.
LEMMA BackendNext == ASSUME Inv, BackendStep \/ KillBackend PROVE Inv'
BY InitBackendNext, ListNext, PrintRowNext, LimitNext, CleanNext, LeaveNext, KillBackendNext
   DEF BackendStep

\* A step of the rest of the system.
LEMMA SystemNext ==
    ASSUME Inv,
           \/ daemon_exits
           \/ \E p \in Pids : Die(p) \/ reap(p) \/ Spawn(p)
           \/ \E p \in Pids, config \in Configs : cli_sets(p, config)
    PROVE  Inv'
<1>1. alive \subseteq Pids /\ heir \in {"none", "cli", "backend"} /\ NoLimits \in Configs
  BY GuiBackendAssumption DEF Inv, Types, NoLimits, Configs, Rates
<1>2. CASE daemon_exits
  <2>1. alive' \subseteq Pids /\ heir' \in {"none", "cli", "backend"}
    BY <1>1, <1>2 DEF daemon_exits
  <2> QED BY <1>2, <2>1, AliveNext DEF daemon_exits
<1>3. ASSUME NEW p \in Pids, Die(p) \/ Spawn(p)
      PROVE  Inv'
  <2>1. alive' \subseteq Pids /\ heir' \in {"none", "cli", "backend"}
    BY <1>1, <1>3 DEF Die, Spawn
  <2> QED BY <1>3, <2>1, AliveNext DEF Die, Spawn
<1>4. ASSUME NEW p \in Pids, reap(p)
      PROVE  Inv'
  BY <1>1, <1>4, OthersNext DEF reap
<1>5. ASSUME NEW p \in Pids, NEW config \in Configs, cli_sets(p, config)
      PROVE  Inv'
  <2>1. heir' \in {"none", "cli", "backend"}
    BY <1>1, <1>5 DEF cli_sets
  <2> QED BY <1>5, <2>1, OthersNext DEF cli_sets
<1> QED BY <1>2, <1>3, <1>4, <1>5

\* The invariant is inductive.
LEMMA Invariance == Spec => []Inv
<1>1. Inv /\ [Next]_vars => Inv'
  <2> SUFFICES ASSUME Inv, [Next]_vars PROVE Inv'
    OBVIOUS
  <2>1. CASE Next
    BY <2>1, GuiNext, BackendNext, SystemNext DEF Next
  <2>2. CASE UNCHANGED vars
    <3>1. alive' \subseteq Pids /\ heir' \in {"none", "cli", "backend"}
      BY <2>2 DEF vars, Inv, Types
    <3> QED BY <2>2, <3>1, AliveNext DEF vars
  <2> QED BY <2>1, <2>2
<1> QED BY <1>1, InitInv, PTL DEF Spec

\* Every variable keeps its type: the two pipes keep within their bounds,
\* there is never more than one command on its way to the backend
\* (backend_send of gui/backend.c), and backend_list reads another line only
\* while one is left.
THEOREM TypeCorrect == Spec => []TypeOK
<1>1. Inv => TypeOK
  BY TypesTypeOK DEF Inv, Control
<1> QED BY <1>1, Invariance, PTL

\* The GUI and its backend stay in step, for any number of processes and any
\* size of the pipe: no answer is taken for that of a later command, and a
\* list has as many lines as the GUI will read.
THEOREM StaysInStep == Spec => []InStep
<1>1. Inv => InStep
  BY StepsInStep DEF Inv, Control
<1> QED BY <1>1, Invariance, PTL

\* The rows show the limits in force, but for the processes that somebody
\* else changed, whose limits handle_list_cmd failed to read, or for which the
\* GUI saw a request fail.
THEOREM RowsAreReal == Spec => []ShownIsReal
<1>1. Inv => ShownIsReal
  BY DEF Inv, Data
<1> QED BY <1>1, Invariance, PTL

\* Only handle_limit_cmd takes a limit from the pipe.
LEMMA LimitTaken ==
    ASSUME Inv, Next, Reads("LIMIT"), stdin' # stdin
    PROVE  handle_limit_cmd
<1>1. gui.at \in {"await_code", "gone"} /\ stdout = <<>> /\ backend.at = "loop" /\ stdin # <<>>
      /\ Head(stdin).cmd = "LIMIT"
  BY ReadLimit, ReadCommand DEF Reads
<1>2. ~(backend_start \/ KillGui \/ KillBackend \/ daemon_exits)
  BY DEF backend_start, KillGui, KillBackend, daemon_exits
<1>3. ~GuiReads
  BY <1>1 DEF GuiReads, read_ready, read_count, read_list_line, read_code, waitpid, AtEof
<1>4. ~UserActs
  BY <1>1 DEF UserActs, on_refresh_clicked, on_clean_clicked, on_close_request,
              on_clean_response, apply_limit
<1>5. ~(\E p \in Pids : Die(p) \/ reap(p) \/ Spawn(p))
  BY DEF Die, reap, Spawn
<1>6. ~(\E p \in Pids, config \in Configs : cli_sets(p, config))
  BY DEF cli_sets
<1>7. ~(ratelimit_init \/ handle_list_cmd \/ print_row \/ handle_clean_cmd \/ leave_loop)
  BY <1>1 DEF ratelimit_init, handle_list_cmd, print_row, handle_clean_cmd, leave_loop, Reads
<1> QED BY <1>2, <1>3, <1>4, <1>5, <1>6, <1>7 DEF Next, BackendStep

\* What a limit that is confirmed has done.
LEMMA LimitConfirmed ==
    ASSUME Inv, handle_limit_cmd, stdout' = <<Line(BACKEND_RESPONSE_OK)>>
    PROVE  LET p == Head(stdin).pid
           IN  /\ \A q \in Pids \ {p} : limits'[q] = limits[q]
               /\ p \notin dirty => \A d \in Directions \ {gui.dir} : limits'[p][d] = limits[p][d]
               /\ gui.number => limits'[p][gui.dir] # Unlimited
<1> DEFINE owner == IF heir = "none" THEN "backend" ELSE heir
<1>1. Reads("LIMIT")
  BY DEF handle_limit_cmd
<1>2. backend.at = "loop" /\ stdout = <<>> /\ stdin # <<>> /\ Head(stdin) = stdin[1]
  BY <1>1, ReadCommand
<1>3. Line(BACKEND_RESPONSE_OK) \in Lines /\ Line(BACKEND_RESPONSE_ERROR) \in Lines
      /\ Line(BACKEND_RESPONSE_OK) # Line(BACKEND_RESPONSE_ERROR)
  <2>1. Line(BACKEND_RESPONSE_OK).int = 1 /\ Line(BACKEND_RESPONSE_ERROR).int = 2
    BY DEF Line, BACKEND_RESPONSE_OK, BACKEND_RESPONSE_ERROR
  <2> QED BY <2>1 DEF Line, Lines, BACKEND_RESPONSE_OK, BACKEND_RESPONSE_ERROR
<1>4. stdout' # stdout
  BY <1>2, <1>3, PipeOne
<1>5. ~PrintLines(<<Line(BACKEND_RESPONSE_ERROR)>>, backend)
  <2> SUFFICES ASSUME PrintLines(<<Line(BACKEND_RESPONSE_ERROR)>>, backend)
               PROVE  FALSE
    OBVIOUS
  <2>1. stdout' = stdout \o <<Line(BACKEND_RESPONSE_ERROR)>>
    BY <1>4, PrintCases
  <2>2. stdout' = <<Line(BACKEND_RESPONSE_ERROR)>>
    BY <1>2, <1>3, <2>1, PipeOne, ConcatEmptySeq
  <2>3. stdout'[1] = Line(BACKEND_RESPONSE_ERROR) /\ stdout'[1] = Line(BACKEND_RESPONSE_OK)
    BY <1>3, <2>2, PipeOne
  <2> QED BY <1>3, <2>3
<1>6. Succeeds([limits EXCEPT ![Head(stdin).pid] = Head(stdin).config], owner)
  BY <1>5 DEF handle_limit_cmd, Fails
<1>7. limits' = [limits EXCEPT ![Head(stdin).pid] = Head(stdin).config]
      /\ PrintLines(<<Line(BACKEND_RESPONSE_OK)>>, backend)
  BY <1>6 DEF Succeeds
<1>8. gui.at \notin {"waitpid", "gone"}
  BY <1>4, <1>7, PrintCases
<1>9. gui.at = "await_code" /\ gui.why = "limit" /\ gui.pid \in DOMAIN store /\ gui.pid \in Pids
      /\ Head(stdin).pid = gui.pid /\ Head(stdin).config = Edited
  BY <1>1, <1>2, <1>8, ReadLimit
<1>10. gui \in Guis /\ store[gui.pid] \in Configs /\ limits \in [Pids -> Configs]
  BY <1>9 DEF Inv, Types
<1>11. limits' = [limits EXCEPT ![gui.pid] = Edited]
  BY <1>7, <1>9
<1>12. limits'[gui.pid] = Edited /\ \A q \in Pids \ {gui.pid} : limits'[q] = limits[q]
  BY <1>9, <1>10, <1>11
<1>13. /\ Edited[gui.dir] = gui.value
       /\ \A d \in Directions \ {gui.dir} : Edited[d] = store[gui.pid][d]
  BY <1>10 DEF Edited, Configs, Guis
<1>14. gui.pid \notin dirty => store[gui.pid] = limits[gui.pid]
  BY <1>2, <1>9 DEF Inv, Data, EditReal, Lives
<1>15. gui.number => gui.value # Unlimited
  BY DEF Inv, Control, Session
<1> QED BY <1>9, <1>12, <1>13, <1>14, <1>15

\* A limit that handle_limit_cmd confirms changes the edited direction of the
\* edited process and no other, unless its row is out of date (somebody else
\* changed it, its limits could not be read, or a request failed), and a number
\* that the user typed never ends as no limit.
THEOREM OneDirection == Spec => EditsOneDirection
<1> DEFINE edit ==
       LET p == Head(stdin).pid
           answered == stdout' = <<Line(BACKEND_RESPONSE_OK)>>
       IN  Reads("LIMIT") /\ stdin' # stdin /\ answered =>
             /\ \A q \in Pids \ {p} : limits'[q] = limits[q]
             /\ p \notin dirty => \A d \in Directions \ {gui.dir} : limits'[p][d] = limits[p][d]
             /\ gui.number => limits'[p][gui.dir] # Unlimited
<1>1. Inv /\ [Next]_vars => [edit]_vars
  BY LimitTaken, LimitConfirmed
<1>2. (Spec => [][edit]_vars) <=> (Spec => EditsOneDirection)
  BY DEF EditsOneDirection
<1> HIDE DEF edit
<1> QED BY <1>1, <1>2, Invariance, PTL DEF Spec
=============================================================================
