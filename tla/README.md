# A TLA+ verification of pidnl

pidnl caps the upload and download bandwidth of single Linux processes. This
directory models the parts of it where several actors meet: packets on several
CPUs, callers of the library, the monitor daemon and its clients, the GUI and
its privileged backend, the CLI and the processes it discovers. TLC checks the
models on small instances. TLAPS proves every safety property that the passing
runs check, and the refinement of the library's abstract specification, for
every instance; liveness is checked by TLC alone.

Paths below are relative to the repository; `PROJECT.json` maps each definition
to the lines it models.

## Inventory

| Component | State | Operations | Talks to |
|---|---|---|---|
| Token bucket, `lib/src/ratelimit.bpf.c` | per direction: `tokens`, `last_update_ns`, a spin lock; the limit | `egress_rl`, `ingress_rl` | run by the kernel on any CPU, for every packet of a cgroup |
| Rate limit library, `lib/src/ratelimit.c` | none of its own: cgroups `pidnl/<pid>`, BPF links, pins on bpffs | `limit_process_bandwidth`, `unregister_rate_limiter_by_pid`, `ratelimit_cleanup_all`, `get_rate_limits_from_cgroup` | kernel, libcgroup, the daemon |
| Monitor daemon, `lib/src/monitor.c` | table of pidfds, a socket at a fixed path, its backlog | `WATCH`, `UNWATCH`, `STOP`; exits of watched processes | clients over the socket; the library, which it calls to unregister |
| Discovery, `lib/src/discovery.c` | none between calls | list of processes that own sockets | netlink, `/proc` |
| CLI, `cli/main.c` | none | `list`, `limit set`, `limit unset`, `clean` | discovery, library |
| GUI backend, `gui/backend.c`, `gui/main.c` | a loop over command lines, as root through pkexec | `LIST`, `LIMIT`, `CLEAN`, `QUIT` | the GUI over two pipes; the library; discovery |
| GUI view, `gui/processes.c` | the rows on display | refresh, edit of a limit, clean, close | the backend, blocking, from its only thread |

What is hard here, and what makes each part correct:

- **Token bucket.** Several CPUs, a timestamp that is read before the lock is
  taken, unsigned subtraction, integer truncation. Correct means: in no window
  does more go through than the burst and the rate allow, and nothing is
  dropped that stays within the rate.
- **Library.** Each operation is a dozen system calls on shared kernel objects
  with no lock, any of which may fail, and any caller may be killed between two.
  Correct means: no limit escapes `detach_pinned_links`, a call that reports
  success has done what it says whatever was left behind, every limit is in the
  daemon's hands and goes with its process.
- **Daemon.** Started on demand by whoever finds none, so two may start; it exits
  when it has nothing to watch, which races with new commands; clients time out
  or die half way. Correct means: commands reach a daemon, exits are handled,
  nobody waits for ever.
- **Discovery.** Four dumps of the kernel's sockets, and for each socket a walk of
  `/proc`, while sockets and processes come and go. Correct means: whatever
  changes, only processes that had a socket are listed, each once and within
  the buffer, and a call that nobody disturbed lists exactly the owners.
- **CLI.** Numbers typed by hand, a check (`limit set` wants a listed pid) whose
  answer is stale when it is used, a prompt. Correct means: what is typed is
  what is enforced and shown, for a process that was listed, and commands end.
- **GUI.** Two processes in lock step over pipes, one of them blocked without a
  timeout. Correct means: answers match their requests, rows show what is in
  force, every request returns, and root's half ends with the GUI.

`PROJECT.json` lists the hazards line by line, with the properties that would
catch each one going wrong.

## Modules

### TokenBucket (MCTokenBucket, MCTokenBucketStream, TokenBucketProofs)

`apply_rate_limit` in five steps per packet: `Enter` (`egress_rl`, `ingress_rl`)
reads the clock, `bpf_spin_lock` waits for the direction's lock, `Refill` adds
tokens, `Enough` or `Drop` tests them, `Allow` subtracts. Every product, sum and
difference is taken modulo `Word`, as in the `__u64` arithmetic of the code; in
particular `ElapsedUs` wraps for a timestamp older than the last update. Units
are parameters: the code has `NsPerUs = 1000`, `UsPerSec = 1000000` and
`Word = 2^64`. The map lookups, which cannot fail on array maps, are left out.

`obs` is a history variable. It observes one direction from one time on, both
chosen arbitrarily in `Init`, so that an invariant about it speaks of every
window. `obs.excess` adds up, over the updates in the window with a timestamp
older than the previous one, a second plus the distance the timestamp went back.
MCTokenBucketStream adds the history of what is offered in the window, dropped
or not, and whether every packet came as long after the one before as the rate
asks.

### RateLimit (MCRateLimit, LimitStore, RateLimitProofs, RateLimitRefinement)

One action per system call, or group of calls on private state, of the three
operations. `call[c]` is the program counter and the locals of actor `c`; the
kernel's part is `dirs`, `member`, `attached`, `pinned`, `pindirs`. The links
behave as in the kernel: a link lives while it is pinned or held by a
descriptor, `bpf_link_detach` and the removal of the cgroup take it out of
force, a removed cgroup takes no link through an old descriptor. Error paths
follow the code: a failure before the cgroup is open deletes it without detaching
pins, a later one detaches first, the result of deletion is ignored; an unregister
that cannot read or open the cgroup has unwatched its pid by then and leaves it;
a clean that cannot read the parent cgroup returns `RATELIMIT_OK` with nothing
done (`OK_UNREAD` in the model, so that the properties can tell it apart), and
one whose walk breaks off goes on as if it had seen everything. The daemon
appears by its effect: the table `watched`, and the unregister it runs. `Kill`
stops an actor between any two steps. `Faults` names the calls that may fail;
`LIBCG_GET` stands for every way in which libcgroup cannot read a cgroup or the
tree.

`solo` is history: nobody else was in a call during this one, and its pid was not
given to another process. It separates what a call owes from what a race may do.

*The abstract store.* `LimitStore` is what callers of `ratelimit.h` may count
on, without cgroups, links or pins: `force` has the rates in force for each
process and direction, `open` the call each actor is in. A rate appears only
because an open call asks for it, goes only through an open call on its
process, and a call that was alone and reports success leaves exactly what it
asked for. RateLimit implements it (`ImplementsStore`): `force` is the set of
rates of the attached links (`StoreRates`), and a call frame is mapped to its
scope, what it asks for and whether it was alone (`StoreCall`); a call on its
error path asks for nothing. Every step of RateLimit is then a step of the store
or a stutter. The exits and reuse of pids are `Disturb`, a command to the daemon
that makes it unregister a process is `HandOver`, a clean that ends without a look
at the store is `Skip`: it promises nothing, whatever it reports.

### Monitor (MCMonitor, MCMonitorLive, MonitorProofs)

`send_command` with `monitor_connect` and the double fork on the client's side;
`unlink`, `bind`, `listen`, the ready pipe, `poll`, `accept`, `read`, serving,
deaths and exit on the daemon's. A connection is a record in the backlog that
remembers whether its command was sent and whether its client still has it open.
`sock` is the daemon bound to the path, which another daemon may unlink at any
time. The rate limits are one set here. `calm` is history: a command that ran
alone, with no exit during it and every daemon at rest when it began; `fresh` says
that a daemon has not served a command yet. MCMonitorLive lets one client be
killed once, at any point.

### GuiBackend (MCGuiBackend, GuiBackendProofs)

Two pipes of lines, the GUI's thread and `run_privileged`. A line is what its
readers make of it: `parse_protocol_int` takes the leading integer of whatever
line comes next, so the code of a failed list is a count to `read_count`. The
library's operations are single steps with a success and a failure, and the
backend may be killed between such a step and its answer. `heir` says who forked
the running daemon: a daemon forked by the backend keeps the backend's stdout
open, which delays the GUI's end of file.

An entry of a row is read as the code reads it: `parse_limit_value` takes blank
and -1 for no limit, clamps what is too large and refuses the rest; an entry
that is left unedited sends what `set_entry_to_value` has put there. The clean
dialog holds the focus until it is answered. `dirty` is history: the processes
that others changed or whose limits the backend could not read since the rows
were asked for, and those for which the GUI has seen a failure. A limit that
cannot be read is printed as no limit, as the code ignores the failure
(`get_rate_limits_from_cgroup`). `dirty` separates what a row owes from what it cannot know.

### Discovery and Cli (MCCli, DiscoveryProofs, CliProofs)

Discovery is one call of `get_network_processes`. `open` and `holders` are the
kernel's sockets, one to a slot in the order of a dump, and who has them open;
`disc` holds the call's locals. `recvmsg` takes the sockets of the next slots as
they are then, in a buffer of any size; `next_message` filters by user;
`find_pid_by_inode` takes one directory of `/proc` a step and stops at the first
process that has the socket; `add_process_list` counts, appends or grows.
Between any two steps a socket may open, be shared, close or vanish, a process
exit and its pid be used again, up to `MaxChanges` times in a call (`Vanish`,
of a socket nobody holds, is not counted). `disc.seen` is history: who had an
eligible socket of which protocol at some time during the call. A slot that is
used again is a new socket with another inode. A dump that sockets join or leave
behind the place it has reached resumes in another one (`Shifts`, `Resume`), and
it may end early without an error (`nlmsg_done`); `/proc`, or a process's
descriptors, may not be there to list. `disc.missed` is history: the call missed
something in one of these ways.

Cli extends it with the command line: `exec` gives a command, `main` dispatches
it, the handlers parse their arguments. A number is what `strtol` makes of it
and whether something is left over, and `strtoul` keeps the width of its type:
a negative number counts from the top. `list` and `limit set` run Discovery's
steps; the library's calls are one step each. A limit that cannot be read is
shown as the dash of no limit (`Readings`), and `cli.blind` is the history of
such cells. `reap` and `other_writer` change
limits at any time. `said` is history: the last limit that was confirmed, as it
was typed, while nobody has changed it; `cli.had` says whether the pid had a
socket during the discovery.

## Runs

| Run | Instance | Shows |
|---|---|---|
| `bucket_race` | 2 CPUs, 2 directions (one of them blocked), 4 clock units a second, clock up to 5 | types and the absence of wrap-around; `RateBoundUpToLateness`; the proof's invariant `Inv` |
| `limit_race` | 2 callers and the daemon, 1 pid, failures of creation, attachment and pinning | types, and that no call leaves its descriptor open; the refinement `ImplementsStore`; `NoUnwatchedLimit`, `DeadLimitsGo`, `CallsReturn` |
| `limit_faults` | the same, `clean` too, two configurations, all the failures that `Faults` names, kills and pid reuse | `PinnedOrHeld`, `SoloLimit`, `SoloUnregister`, `SoloClean` |
| `monitor_stop` | 1 client, 2 pids, 2 daemons, one table slot, timeouts and kills | the table's bound, `CalmCommand` |
| `monitor_live` | 2 clients, one of them killed, 1 pid, 2 daemons | `WatchedDeathCleaned`, `ClientsReturn`, `IdleDaemonExits` |
| `gui_session` | 1 process, failures of initialisation, discovery, reads and calls, kills, changes by the CLI, pid reuse | `InStep`, `ShownIsReal`, `RequestsReturn`, `BackendFollows` |
| `gui_rows` | 2 processes, the same failures, no kills | `EditsOneDirection` |
| `cli` | 2 processes, 3 sockets (user's, root's, a system service's), a list that starts with room for one, one change per call, failures of discovery, reads and calls, limits removed by others | `ListSound`, `ListExact`, `ListShowsTyped`, `LimitsTheListed`, `CommandsEnd` |

Four runs reproduce disagreements between the code and what the repository says
of it; `PROJECT.json` quotes the lines.

| Run | The code does |
|---|---|
| `bucket_stale` (`RateBound`) | a packet stamped before another one and processed after it earns a full second of tokens and sets the bucket's time back |
| `bucket_drop` (`DropOnlyAboveRate`) | what truncation discards at each packet is never given back: of a stream at 83 % of its rate, and within it at every packet, the fourth packet is dropped |
| `limit_orphans` (`NoOrphanPins`) | a limit that is set again as the process exits deletes the cgroup and leaves its pins, which the daemon then does not find |
| `monitor_lost_watch` (`DeathCleaned`) | a `WATCH` that meets a leaving daemon is lost, the caller ignores it, and the limit outlives its process |

### Bounds

- *One pid and two callers* in the library runs: the objects of different pids
  are disjoint except for the parent cgroup, and every race found needs two
  actors, with the daemon as a third. Two configurations let a call replace a
  limit and drop a direction.
- *Clock up to 5, four units a second*: an update beyond one full second, a
  late timestamp and truncation all occur. `Word = 4096` is above every
  product, as `CodeConstantsFit` shows for the code's own numbers.
- *`bucket_drop`* has one CPU and 13-byte packets: the trace offers them at ticks 4,
  7, 10 and 13, where the rate allows 15.6 bytes in three ticks.
- *One slot and `BACKLOG = 0`* (one waiting connection, `monitor_stop`) reach the
  full table and the full backlog; two daemons are what it takes to steal a path.
  `monitor_live` has room for two, one for each client.
- *One kill* in `monitor_live` is what it takes to lose a client between the
  daemon's start and its command; clients are alike, so it does not matter which.
- *A pipe of two lines* makes the backend wait for the reader in every list.
  A real pipe is larger, and a row is written at once in both.
- *Two processes and three sockets* in `cli`: one process with TCP and UDP, a
  socket with two owners, an entry beyond the first capacity, a message that is
  filtered out and dumps of more than one buffer all occur. `MaxChanges = 1`
  puts a change at every point of a call; changes between calls are free.
  `MCSpec` keeps the service's socket with process 2 and root's with process 1,
  and process 2 alive, so that it is the user's socket that is shared and
  process 1 that comes and goes.
- *Numbers*: `Unlimited` stands for `UINT32_MAX` and `ULONG_MAX` for the top of
  `unsigned long`. 2 and 5 in `cli` leave room for a rate, the mark, a number
  above the mark and one out of range, and for a negative number that is
  accepted and one that is not. Confirmed limits come from the texts -5 (which is
  1), -1 and 2 (no limit) and 0 or nothing (which block). In the GUI runs `Unlimited = 1` leaves the rate
  0, below it -1 and -2, and 3 to be clamped.
- `ImplementsStore` is checked in `limit_race`, where the first step, the task's
  attachment and the pinning may fail, so that each error path is taken; `clean`
  and pid reuse are not in that run. The theorem `Implementation` covers them.
- `bpffs` mounted and not mounted are both initial states of RateLimit.
- The largest runs are `monitor_stop` (3.4 million distinct states), `gui_rows` (2.6)
  and `limit_faults` (1.8); those with liveness are `limit_race` (91 thousand),
  `gui_session` (129), `monitor_live` (228) and `cli` (535).

Symmetry is used in safety runs only: callers, and in Monitor clients, daemons
and pids, are interchangeable model values. The views drop what no guard and no
invariant of the run reads: the set of limits in `monitor_stop`; in
`limit_faults` which error a call returns, and the locals of a call that it no
longer uses. Views are not used with liveness.

Deadlock is not an error in `monitor_live` (all processes may be dead and every
daemon at rest) and in the GUI runs (the session is over). It is one in `cli`,
where a command that hangs shows as a violation of `CommandsEnd` anyway.

### Fairness

Weak fairness of each process' own steps, and nothing else: the kernel runs a
process that can go on. Users, exits of processes, kills, timeouts and failures
owe nothing. In `cli` it is the command in progress that is fair; the changes
around a discovery are bounded by `MaxChanges`, as a dump that sockets keep
joining has no end. In `monitor_live` the kills stop after one: clients killed for
ever between connecting and their command could keep a backlog full. `limit_race` has no pid reuse, so that commands wait for finitely
many exits. `ClientsReturn` is checked without timeouts, and the GUI has none:
calls return because somebody answers, not because somebody gives up.

## Proofs

A proof module extends the module it is about. Each rests on an inductive
invariant `Inv`: `Init` implies it, every action preserves it (one lemma per
action or group of alike actions), and it implies the property. TLC checked
each `Inv` on the instances of the runs before it was proved; the one of
TokenBucket is a property of `bucket_race`.

| Module | Theorem | States, for every value of the constants |
|---|---|---|
| TokenBucketProofs | `TypeCorrect`, `Invariance` | types, two seconds' worth at most in a bucket, no subtraction wraps |
| | `RateBoundTheorem` | `RateBoundUpToLateness` |
| | `OneCpuRateBound` | the cap `RateBound` itself, on one CPU |
| | `CodeConstantsFit` | the code's `__u32` limits and `__u64` arithmetic meet the assumption |
| RateLimitProofs | `TypeCorrect`, `LinksInReach` | `TypeOK`, `PinnedOrHeld` |
| | `SoloLimitCorrect`, `SoloUnregisterCorrect`, `SoloCleanCorrect` | `SoloLimit`, `SoloUnregister`, `SoloClean` |
| RateLimitRefinement | `LimitsAreWatched` | `NoUnwatchedLimit`, under `Reliable` |
| | `Implementation` | `ImplementsStore` |
| GuiBackendProofs | `TypeCorrect`, `StaysInStep`, `RowsAreReal`, `OneDirection` | `TypeOK`, `InStep`, `ShownIsReal`, `EditsOneDirection` |
| MonitorProofs | `TypeCorrect`, `CalmCommandCorrect` | `TypeOK` with the table's bound, `CalmCommand` |
| DiscoveryProofs | `TypeCorrect`, `ListIsSound`, `ListIsExact` | `TypeOK`, `ListSound`, `ListExact` |
| CliProofs | `CliCallsDiscovery` | every behaviour of Cli is one of Discovery |
| | `CliListIsSound`, `CliListIsExact` | the two above, of the commands' lists |
| | `CliTypeCorrect`, `ListIsTyped`, `LimitsOnlyListed` | `CliTypeOK`, `ListShowsTyped`, `LimitsTheListed` |

*Assumptions.* Each is the named `ASSUME` of the module, and TLC evaluates it in
every run: words that no product of a refill overflows (which `CodeConstantsFit`
discharges), pids that are positive numbers, at least one pid and one
configuration in RateLimit, configurations that limit some direction (both
front ends refuse others), finitely many pids in GuiBackend, a pipe with room
for the two lines of a row, a table with a slot, an `unsigned long` at least as
wide as `UINT32_MAX`. `Faults`, `Kills`, `Timeouts`, `PidReuse` and `Others` are
arbitrary. Two theorems assume more. `LimitsAreWatched` assumes `Reliable`: no
`clean`, no kill, a daemon that is reached, and cgroups that can be read, opened and
deleted. Each of these does leave an unwatched limit otherwise: `unregister`
unwatches the pid first and returns `CGROUP_NOT_FOUND` for a cgroup it cannot
open. `OneCpuRateBound` assumes that there is one CPU:
`bucket_stale` shows that it fails on two.

**TokenBucket.** `RateBoundUpToLateness` is not inductive: it forgets what the
bucket still holds. `Inv` adds `Budget` (bytes out plus tokens in fit what the
window has earned up to the last update), `OneHolder` and `Covered` (tokens
tested under the lock are still there when they are spent; without them the
unsigned subtraction could wrap), `OpenedBefore` (a packet stamped in the window
is let through after its own update) and `StampsPast` (no timestamp is ahead of
the clock). The arithmetic is in `RefillBound` (a refill is worth at most the
elapsed time, or one second if the timestamp is late), `RefilledBound` and
`BudgetGrows`. On one CPU `InOrder` is inductive too: no update goes back in
time, so `excess` stays 0.

**RateLimit.** `Inv` adds to the types and `PinnedOrHeld` what a program counter
tells of a frame (`Control`) and of the kernel (`KernelInv`: an open descriptor
that is not stale is on a cgroup that exists, pin directories are on a bpffs), that
a call marked `solo` has the library to itself (`Exclusive`), and how far such a
call has come (`SoloPath`): what its detach loop has cleared, and which of its
own links are established, attached or still to come. Without `Exclusive` a
step of another caller could undo that progress.

**The refinement.** `Effect(c)` is one account of what a step of a call does to
the calls, the links, the cgroups and the daemon's table: links appear only as
the call's own and go only on its process, a cgroup appears only through a call
that answers for it, and a call that answers for one goes on, deletes it or hands
it over. `StepEffect` shows it of every step but those that return or hand over.
From `Effect` follow both results. Each step of RateLimit maps to `Work` of
LimitStore, to `Begin`, `Skip`, `Return`, `HandOver` or `Disturb`, or to a stutter;
`Return` needs `SoloPath` for what an undisturbed call leaves. And `AnsweredInv`, every cgroup
is watched or a call will still answer for it, is inductive under `Reliable`.

**GuiBackend.** `Inv` is `Types`, `Control` and `Data`. `Control` says which
command may be in the pipe while the GUI waits for what (`Session`, `Pending`),
what the two are like after a list that failed (`OutOfStep`), that the GUI will
read every line in the pipe (`Bounded`), and `InStep` case by case, as a balance
of lines in the pipe and rows still to be written against lines the GUI wants
(`Steps`). `Data` says that the rows on their way are those in force unless
somebody else changed them (`RowsReal`) and what a confirmed edit means
(`EditReal`). `ShownIsReal` alone is not inductive: a row becomes the display's
only when the list is complete. `OneDirection` then follows from `Inv` at the
step that confirms.

**Monitor.** `CalmCommand` speaks of the end of a command. `Calm` says, phase by
phase, where the command's connection is (in the backlog or in the daemon's
hands), that the other daemons rest, how far a daemon it forked has come and
what the table will show. `DaemonInv` is about all daemons: one told to stop is
on its way out, one that is off has left nothing, one that accepts has a
connection to accept.

**Discovery.** For `ListSound`, `Reported` and `Current` say that who holds an eligible
socket of the current dump is in `seen`, and `Room` that the list is within its
capacity. For
`ListExact`, the calls that nobody disturbed and that missed nothing keep `Tally`, the list accounts
for exactly the sockets that are settled, each for its first holder, and `Walk`, the
walk of `/proc` has passed no holder. That there is a first holder is the well-ordering of the
natural numbers (`LeastFacts`).

**Cli.** Every step of Cli is a step of Discovery or leaves its variables alone
(`CliCallsDiscovery`), so Discovery's theorems carry over. `CliInv` adds where
the command is and what it has (`Phase`: the list lives while rows are read, the
pid was found before a limit is set, the configuration is what was typed),
and that the limit last confirmed is still what `parse_rate` makes of the text
(`SaidHolds`, `ShownHolds`, the latter for every cell that is not in `blind`). `RateFacts` is the arithmetic of `strtoul`: what is
accepted is a rate, no limit for -1 and else the number modulo the width of
`unsigned long`.

*Only model-checked:* the liveness properties `DeadLimitsGo`, `CallsReturn`,
`WatchedDeathCleaned`, `ClientsReturn`, `IdleDaemonExits`, `RequestsReturn`,
`BackendFollows` and `CommandsEnd`. They depend on fairness, and so on `ENABLED`,
which the prover does not handle. The violations of the four runs above are
counterexamples that TLC finds.

## Limits of the properties

Some statements one would like do not hold of the code, and the runs are set up
around them; the hazards in `PROJECT.json` record each.

- `NoUnwatchedLimit` is checked without `clean`, whose `STOP` ends a daemon that may
  already watch a new limit, and with cgroups that can be read, opened and deleted.
- `SoloClean` excepts a `clean` that could not read the parent cgroup: it reports
  success with every limit in force. It does not speak of pins without a cgroup,
  which `clean` never looks for (`limit_orphans`).
- `SoloUnregister` excepts a cgroup that could not be deleted and a watch that
  could not be withdrawn, as the code reports success in both cases.
- `WatchedDeathCleaned` is checked without timeouts: an `UNWATCH` whose client
  gave up can remove the watch of a newer limit.
- `IdleDaemonExits` excepts a daemon whose path another one took: it stays in
  `poll` for ever, where no command can reach it. It excepts as well a daemon
  whose first client was lost before its command (`Abandoned`): the test for an
  empty table comes after a command or an exit, and `poll` has no timeout, so it
  waits for the next command.
- `InStep` and `RequestsReturn` except a list that failed: its answer `ERROR` is
  2, which the GUI reads as a count, and it then waits for rows that never come.
- `RequestsReturn` excepts a backend that died after it forked the daemon: the
  daemon keeps the pipe open as long as it lives.
- `ShownIsReal` and `EditsOneDirection` except the processes in `dirty`: a failed
  change leaves old values on display, a failed read shows no limit where there is
  one, and an edit sends the other direction's value as last shown, over what
  others have set since and over a limit that could not be read.
- `ListShowsTyped` excepts a cell whose limit could not be read: the CLI ignores
  that and shows a dash.
- `ListExact` excepts a call that missed something: a dump that ends early or
  shifts, or a part of `/proc` that cannot be listed, is no error to the code. A
  shifted dump may count a socket twice.
- `LimitsTheListed` speaks of the pid: a process that takes it over between the
  discovery and the limit is limited in place of the one that was listed.
- `CommandsEnd` excepts a `clean` that is confirmed with a `y` and no newline: at
  the end of its input the CLI reads on for ever.
- Two concurrent `limit_process_bandwidth` on one pid may leave two links on a
  direction, which the query shows as unlimited; `SoloLimit` speaks of calls
  that nobody disturbed.

## Not modelled

- *Library*: `ratelimit_init`, which changes nothing, and the texts of codes.
  `bpf_obj_get` and `bpf_link_detach` on what it opened are one step: a pin that is
  unlinked between the two would be detached all the same.
- *Daemon*: partial reads and writes, `EINTR`, the credentials test and the
  checks of the socket's directory; a client that connects and is stopped
  without dying; the reuse of a pid while its old pidfd is in the table.
- *Discovery*: the characters of names and paths (only whether the process was
  still there to ask), an inode number that the kernel uses again during a call,
  how far a shifted dump slips (any place is allowed).
- *CLI*: the text and layout of its output, and spellings of a number that
  `strtol` reads alike (leading blanks, a plus sign, `" -1"`).
- *GUI*: building the window, widgets, icons, sorting; signals of GTK that would
  re-enter `apply_limit` while it blocks; lines that are not valid UTF-8. The pipes
  close when the GUI drops its channels, which is later in GLib. `apply_limit` for a
  pid without a row is defined (`find_process_by_pid`) and does not happen: the
  entry that has the focus belongs to a row.
- Build files, packaging and the test scripts.

## Plan

Done: TokenBucket, RateLimit and its refinement of LimitStore, Monitor,
GuiBackend with the view's entries, Discovery and Cli are modelled, and every
safety property of the passing runs is proved. What is left:

1. *LimitStore*: consequences of the abstract store alone, such as that a rate is
   in force only if some call asked for it, which `Implementation` then carries
   over to the library.
2. *Monitor*: what a client may count on when its command is not calm, for
   instance that an answer of a daemon is the one to its own command.
3. Liveness stays with TLC.
