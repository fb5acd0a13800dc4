------------------------------ MODULE RateLimit ------------------------------
(***************************************************************************)
(* The library of lib/src/ratelimit.c: processes (the CLI, the GUI's       *)
(* backend and the monitor daemon) call it concurrently, and every call is *)
(* a sequence of system calls on shared kernel objects, the cgroup tree    *)
(* pidnl/<pid>, the BPF links attached to it and their pins on bpffs, with *)
(* no lock between them.  One action is one call that changes or reads the *)
(* shared state.                                                           *)
(*                                                                         *)
(* The daemon of monitor.c appears by what it does to this state: the      *)
(* table of watched pids, and the unregister it runs when one dies.        *)
(***************************************************************************)
EXTENDS FiniteSets

CONSTANTS
    Pids,        \* process ids
    Callers,     \* processes that call the library
    Monitor,     \* the monitor daemon, which calls it too
    Unlimited,   \* RATELIMIT_UNLIMITED
    Configs,     \* the values of rate_limit_config
    Ops,         \* the operations the callers use
    Faults,      \* the calls that may fail, named by the code they return; "LIBCG_GET":
                 \* libcgroup has no memory for a cgroup or cannot read one or the tree
    PidReuse     \* whether a pid may be given to a new process

Directions == {"egress", "ingress"}
Actors == Callers \cup {Monitor}

\* A configuration has a rate for each direction, and both front ends refuse
\* one that limits none.
ASSUME RateLimitAssumption ==
    /\ Pids # {} /\ Configs # {}
    /\ Monitor \notin Callers
    /\ \A config \in Configs :
          /\ config = [d \in Directions |-> config[d]]
          /\ \E d \in Directions : config[d] # Unlimited
    /\ Ops \subseteq {"limit", "unregister", "clean"}
    /\ Faults \subseteq {"LIBCG_CREATE", "LIBCG_ATTACH", "OPEN_CGROUP", "ALLOC", "BPF_PIN",
                         "BPF_LOAD", "BPF_LINK", "LIBCG_DELETE", "LIBCG_GET", "MONITOR", "KILLED"}
    /\ PidReuse \in BOOLEAN

VARIABLES
    alive,      \* the pids that name a running process
    parent,     \* whether the cgroup pidnl exists
    dirs,       \* the pids whose cgroup pidnl/<pid> exists
    member,     \* the cgroup each process is in, as far as pidnl's tree goes
    attached,   \* the BPF links attached to a cgroup
    pinned,     \* the BPF links pinned under pidnl/<pid>/<direction> on bpffs
    pindirs,    \* the pids whose pin directory exists
    bpffs,      \* whether a bpffs is mounted
    watched,    \* the daemon's table: not watched, watched, or its pidfd is readable
    call        \* the library call each actor is in

kernel == <<alive, parent, dirs, member, attached, pinned, pindirs, bpffs>>
vars == <<kernel, watched, call>>

\* A link belongs to a cgroup and direction, enforces a rate and was made by
\* one call; "by" tells the links of different callers apart.
Link(c) == [pid |-> call[c].pid, dir |-> call[c].dir,
            kbps |-> call[c].config[call[c].dir], by |-> c]

LinksOn(p, d) == {l \in attached : l.pid = p /\ l.dir = d}
PinnedAt(p, d) == {l \in pinned : l.pid = p /\ l.dir = d}

AnyPid == CHOOSE p \in Pids : TRUE
AnyConfig == CHOOSE config \in Configs : TRUE
Idle == [at |-> "idle", op |-> "none", pid |-> AnyPid, config |-> AnyConfig, dir |-> "egress",
         fd |-> "none", todo |-> {}, ret |-> "OK", solo |-> FALSE]

Init ==
    /\ alive = Pids
    /\ parent = FALSE
    /\ dirs = {}
    /\ member = [p \in Pids |-> "outside"]
    /\ attached = {}
    /\ pinned = {}
    /\ pindirs = {}
    /\ bpffs \in BOOLEAN
    /\ watched = [p \in Pids |-> "none"]
    /\ call = [c \in Actors |-> Idle]
-----------------------------------------------------------------------------
(***************************************************************************)
(* The bookkeeping of a call.                                              *)
(***************************************************************************)

At(c, label) == call[c].at = label

Set(c, frame) == call' = [call EXCEPT ![c] = frame]
Goto(c, label) == Set(c, [call[c] EXCEPT !.at = label])
Done(c, code) == Set(c, [call[c] EXCEPT !.at = "done", !.ret = code])

MayFail(code) == code \in Faults

\* After detach_pinned_links, limit_process_bandwidth goes on; a failed one
\* and the other operations delete the cgroup.
AfterDetach(frame) ==
    IF frame.op = "limit" /\ frame.ret = "OK" THEN "create_pin_dir" ELSE "delete"

\* detach_pinned_links does nothing without a bpffs.
Detaching(frame) ==
    [frame EXCEPT !.at = IF bpffs THEN "detach" ELSE AfterDetach(frame), !.dir = "egress"]

\* delete_cgroup(cg, cgroup_fd, pid) with an open descriptor, and return code.
Fail(c, code) == Set(c, Detaching([call[c] EXCEPT !.ret = code]))

\* History: a call is solo when no other call overlaps it and its pid does not
\* become another process's.
Begin(c, frame) ==
    call' = [x \in Actors |->
                IF x = c
                THEN [frame EXCEPT !.solo = \A y \in Actors \ {c} : At(y, "idle") \/ At(y, "done")]
                ELSE [call[x] EXCEPT !.solo = FALSE]]

Return(c) ==
    /\ At(c, "done")
    /\ Set(c, Idle)
    /\ UNCHANGED <<kernel, watched>>
-----------------------------------------------------------------------------
(***************************************************************************)
(* limit_process_bandwidth: the front ends call it for a process they have *)
(* just seen.                                                              *)
(***************************************************************************)

limit_process_bandwidth(c, p, config) ==
    /\ "limit" \in Ops
    /\ At(c, "idle")
    /\ p \in alive
    /\ Begin(c, [Idle EXCEPT !.at = "create_parent", !.op = "limit", !.pid = p, !.config = config])
    /\ UNCHANGED <<kernel, watched>>

create_parent(c) ==
    /\ At(c, "create_parent")
    /\ \/ parent' = TRUE /\ Goto(c, "create_child")
       \/ MayFail("LIBCG_CREATE") /\ Done(c, "LIBCG_CREATE") /\ UNCHANGED parent
    /\ UNCHANGED <<alive, dirs, member, attached, pinned, pindirs, bpffs, watched>>

\* libcgroup makes the missing parents of the directory as well, and a
\* directory that exists is used as it is.
create_child(c) ==
    /\ At(c, "create_child")
    /\ \/ parent' = TRUE /\ dirs' = dirs \cup {call[c].pid} /\ Goto(c, "attach_task")
       \/ MayFail("LIBCG_CREATE") /\ Done(c, "LIBCG_CREATE") /\ UNCHANGED <<parent, dirs>>
    /\ UNCHANGED <<alive, member, attached, pinned, pindirs, bpffs, watched>>

\* The task moves to its cgroup if both are still there.  On failure the
\* cgroup is deleted without a descriptor: its pins are not detached.
attach_task(c) ==
    LET p == call[c].pid
        works == p \in alive /\ p \in dirs
    IN  /\ At(c, "attach_task")
        /\ \/ works /\ member' = [member EXCEPT ![p] = "child"] /\ Goto(c, "open")
           \/ /\ ~works \/ MayFail("LIBCG_ATTACH")
              /\ Set(c, [call[c] EXCEPT !.at = "delete", !.ret = "LIBCG_ATTACH"])
              /\ UNCHANGED member
        /\ UNCHANGED <<alive, parent, dirs, attached, pinned, pindirs, bpffs, watched>>

\* Open the cgroup and allocate the handle.  The stale pins of an earlier
\* configuration are detached next.
open_cgroup_fd(c) ==
    LET exists == call[c].pid \in dirs
        opened == [call[c] EXCEPT !.fd = "open"]
    IN  /\ At(c, "open") /\ call[c].op = "limit"
        /\ \/ exists /\ Set(c, Detaching(opened))
           \/ exists /\ MayFail("ALLOC") /\ Set(c, Detaching([opened EXCEPT !.ret = "ALLOC"]))
           \/ /\ ~exists \/ MayFail("OPEN_CGROUP")
              /\ Set(c, [call[c] EXCEPT !.at = "delete", !.ret = "OPEN_CGROUP"])
        /\ UNCHANGED <<kernel, watched>>

\* Without a bpffs there is nowhere to pin, and the limit is refused.
create_pin_dir(c) ==
    LET made == bpffs
    IN  /\ At(c, "create_pin_dir")
        /\ \/ made /\ pindirs' = pindirs \cup {call[c].pid} /\ Goto(c, "load")
           \/ ~made /\ Fail(c, "NO_BPFFS") /\ UNCHANGED pindirs
           \/ made /\ MayFail("BPF_PIN") /\ Fail(c, "BPF_PIN") /\ UNCHANGED pindirs
        /\ UNCHANGED <<alive, parent, dirs, member, attached, pinned, bpffs, watched>>

\* Mutant: the loop over the two directions starts at the second.
load_starts_late(c) ==
    /\ At(c, "load")
    /\ \/ Set(c, [call[c] EXCEPT !.at = "attach", !.dir = "ingress"])
       \/ MayFail("BPF_LOAD") /\ Fail(c, "BPF_LOAD")
    /\ UNCHANGED <<kernel, watched>>

\* ratelimit_bpf__open and ratelimit_bpf__load.
load(c) ==
    /\ At(c, "load")
    /\ \/ Set(c, [call[c] EXCEPT !.at = "attach", !.dir = "egress"])
       \/ MayFail("BPF_LOAD") /\ Fail(c, "BPF_LOAD")
    /\ UNCHANGED <<kernel, watched>>

\* Mutant: close_rate_limiter_handle forgets the descriptor of the cgroup.
NextDirection_keeps_fd(c) ==
    IF call[c].dir = "egress" THEN [call[c] EXCEPT !.at = "attach", !.dir = "ingress"]
    ELSE [call[c] EXCEPT !.at = "watch"]

\* The loop of attach_bpf_programs goes to the other direction or ends, and
\* limit_process_bandwidth closes what it opened.
NextDirection(c) ==
    IF call[c].dir = "egress" THEN [call[c] EXCEPT !.at = "attach", !.dir = "ingress"]
    ELSE [call[c] EXCEPT !.at = "watch", !.fd = "none"]

\* Mutant: a link that could not be created is not reported.
attach_cgroup_unchecked(c) ==
    LET unlimited == call[c].config[call[c].dir] = Unlimited
        works == call[c].fd = "open"
    IN  /\ At(c, "attach")
        /\ \/ ~unlimited /\ works /\ attached' = attached \cup {Link(c)} /\ Goto(c, "pin")
           \/ (unlimited \/ ~works \/ MayFail("BPF_LINK")) /\ Set(c, NextDirection(c)) /\ UNCHANGED attached
        /\ UNCHANGED <<alive, parent, dirs, member, pinned, pindirs, bpffs, watched>>

\* Write the direction's limit to the program's map and attach the program; a
\* failure of either ends the call in the same way.  A removed cgroup takes no
\* links, whatever descriptor is open on it.
attach_cgroup(c) ==
    LET unlimited == call[c].config[call[c].dir] = Unlimited
        works == call[c].fd = "open"
    IN  /\ At(c, "attach")
        /\ \/ unlimited /\ Set(c, NextDirection(c)) /\ UNCHANGED attached
           \/ ~unlimited /\ works /\ attached' = attached \cup {Link(c)} /\ Goto(c, "pin")
           \/ /\ ~unlimited /\ (~works \/ MayFail("BPF_LINK"))
              /\ Fail(c, "BPF_LINK")
              /\ UNCHANGED attached
        /\ UNCHANGED <<alive, parent, dirs, member, pinned, pindirs, bpffs, watched>>

\* Mutant: the link that could not be pinned is not destroyed.
pin_leaks_link(c) ==
    LET p == call[c].pid
        works == bpffs /\ PinnedAt(p, call[c].dir) = {}
    IN  /\ At(c, "pin")
        /\ \/ /\ works
              /\ pinned' = pinned \cup {Link(c)} /\ pindirs' = pindirs \cup {p}
              /\ Set(c, NextDirection(c))
           \/ ~works /\ Fail(c, "BPF_PIN") /\ UNCHANGED <<pinned, pindirs>>
        /\ UNCHANGED <<alive, parent, dirs, member, attached, bpffs, watched>>

\* Pin the link and close its descriptor: a link that could not be pinned
\* is gone with its last reference.  libbpf makes a pin directory that
\* another call has removed.
pin(c) ==
    LET p == call[c].pid
        works == bpffs /\ PinnedAt(p, call[c].dir) = {}
    IN  /\ At(c, "pin")
        /\ \/ /\ works
              /\ pinned' = pinned \cup {Link(c)} /\ pindirs' = pindirs \cup {p}
              /\ Set(c, NextDirection(c))
              /\ UNCHANGED attached
           \/ /\ ~works \/ MayFail("BPF_PIN")
              /\ attached' = attached \ {Link(c)}
              /\ Fail(c, "BPF_PIN")
              /\ UNCHANGED <<pinned, pindirs>>
        /\ UNCHANGED <<alive, parent, dirs, member, bpffs, watched>>
-----------------------------------------------------------------------------
(***************************************************************************)
(* detach_pinned_links and delete_cgroup, which every operation uses.      *)
(***************************************************************************)

\* bpf_obj_get and bpf_link_detach on the pin of one direction.
bpf_link_detach(c) ==
    /\ At(c, "detach")
    /\ attached' = attached \ PinnedAt(call[c].pid, call[c].dir)
    /\ Goto(c, "unlink")
    /\ UNCHANGED <<alive, parent, dirs, member, pinned, pindirs, bpffs, watched>>

\* Mutant: the loop over the two pin names stops after the first.
unlink_pin_first_only(c) ==
    LET there == PinnedAt(call[c].pid, call[c].dir)
    IN  /\ At(c, "unlink")
        /\ pinned' = pinned \ there
        /\ attached' = attached \ there
        /\ Goto(c, "rmdir")
        /\ UNCHANGED <<alive, parent, dirs, member, pindirs, bpffs, watched>>

\* Whatever is pinned at the path by now loses its pin, its last reference.
unlink_pin(c) ==
    LET there == PinnedAt(call[c].pid, call[c].dir)
    IN  /\ At(c, "unlink")
        /\ pinned' = pinned \ there
        /\ attached' = attached \ there
        /\ IF call[c].dir = "egress"
           THEN Set(c, [call[c] EXCEPT !.at = "detach", !.dir = "ingress"])
           ELSE Goto(c, "rmdir")
        /\ UNCHANGED <<alive, parent, dirs, member, pindirs, bpffs, watched>>

rmdir_pins(c) ==
    LET p == call[c].pid
    IN  /\ At(c, "rmdir")
        /\ pindirs' = IF \A d \in Directions : PinnedAt(p, d) = {} THEN pindirs \ {p} ELSE pindirs
        /\ Goto(c, AfterDetach(call[c]))
        /\ UNCHANGED <<alive, parent, dirs, member, attached, pinned, bpffs, watched>>

\* Where a call goes once its cgroup has been deleted.
AfterDelete(c) ==
    IF call[c].op = "clean"
    THEN [call[c] EXCEPT !.at = "next"]
    ELSE [call[c] EXCEPT !.at = "done", !.fd = "none"]

\* cgroup_delete_cgroup on pidnl/<pid>: the task moves to the parent, the
\* links of the cgroup are detached, other descriptors on it go stale.  The
\* code ignores the result.
delete_cgroup(c) ==
    LET p == call[c].pid
        moved == [member EXCEPT ![p] = IF @ = "child" THEN "parent" ELSE @]
    IN  /\ At(c, "delete")
        /\ \/ /\ dirs' = dirs \ {p}
              /\ member' = moved
              /\ attached' = {l \in attached : l.pid # p}
              /\ call' = [x \in Actors |->
                            IF x = c THEN AfterDelete(c)
                            ELSE IF call[x].pid = p /\ call[x].fd = "open"
                            THEN [call[x] EXCEPT !.fd = "stale"] ELSE call[x]]
           \/ /\ MayFail("LIBCG_DELETE")
              /\ member' \in {member, moved}
              /\ Set(c, AfterDelete(c))
              /\ UNCHANGED <<dirs, attached>>
        /\ UNCHANGED <<alive, parent, pinned, pindirs, bpffs, watched>>
-----------------------------------------------------------------------------
(***************************************************************************)
(* unregister_rate_limiter_by_pid.                                         *)
(***************************************************************************)

unregister_rate_limiter_by_pid(c, p) ==
    /\ "unregister" \in Ops
    /\ At(c, "idle")
    /\ Begin(c, [Idle EXCEPT !.at = "unwatch", !.op = "unregister", !.pid = p])
    /\ UNCHANGED <<kernel, watched>>

\* delete_pid_cgroup: a cgroup that is not there, or that cannot be read or
\* opened, ends an unregister, the daemon having forgotten the pid by then,
\* and cleanup_all goes on.
delete_pid_cgroup(c) ==
    /\ At(c, "open") /\ call[c].op \in {"unregister", "clean"}
    /\ \/ call[c].pid \in dirs /\ Set(c, Detaching(call[c]))
       \/ /\ call[c].pid \notin dirs \/ MayFail("LIBCG_GET") \/ MayFail("OPEN_CGROUP")
          /\ \/ call[c].op = "clean" /\ Goto(c, "next")
             \/ call[c].op = "unregister" /\ Done(c, "CGROUP_NOT_FOUND")
       \/ call[c].op = "unregister" /\ MayFail("LIBCG_GET") /\ Done(c, "LIBCG_DELETE")
    /\ UNCHANGED <<kernel, watched>>
-----------------------------------------------------------------------------
(***************************************************************************)
(* ratelimit_cleanup_all.                                                  *)
(***************************************************************************)

\* Without the parent cgroup there is nothing to clean.  The code returns
\* RATELIMIT_OK as well when libcgroup cannot read the parent: the result
\* "OK_UNREAD" is that RATELIMIT_OK, which the properties tell apart.
ratelimit_cleanup_all(c) ==
    LET begun == [Idle EXCEPT !.op = "clean"]
    IN  /\ "clean" \in Ops
        /\ At(c, "idle")
        /\ \/ parent /\ Begin(c, [begun EXCEPT !.at = "walk"])
           \/ ~parent /\ Begin(c, [begun EXCEPT !.at = "done"])
           \/ parent /\ MayFail("LIBCG_GET") /\ Begin(c, [begun EXCEPT !.at = "done", !.ret = "OK_UNREAD"])
        /\ UNCHANGED <<kernel, watched>>

\* cgroup_walk_tree_begin reads the directory once; a walk that fails ends
\* there, as one that has seen everything does.
walk(c) ==
    /\ At(c, "walk")
    /\ \E seen \in SUBSET dirs :
          /\ seen = dirs \/ MayFail("LIBCG_GET")
          /\ Set(c, [call[c] EXCEPT !.at = "next", !.todo = seen])
    /\ UNCHANGED <<kernel, watched>>

walk_next(c) ==
    /\ At(c, "next")
    /\ \/ \E p \in call[c].todo :
             Set(c, [call[c] EXCEPT !.at = "open", !.pid = p, !.todo = @ \ {p}])
       \/ call[c].todo = {} /\ Goto(c, "delete_parent")
    /\ UNCHANGED <<kernel, watched>>

\* Mutant: the result of removing the parent is ignored.
delete_parent_unchecked(c) ==
    /\ At(c, "delete_parent")
    /\ parent' = (dirs # {})
    /\ member' = [p \in Pids |-> IF dirs = {} THEN "outside" ELSE member[p]]
    /\ Goto(c, "stop")
    /\ UNCHANGED <<alive, dirs, attached, pinned, pindirs, bpffs, watched>>

\* A cgroup with children cannot be removed; whether libcgroup reports the
\* removal of one that is already gone is left open.
delete_parent(c) ==
    /\ At(c, "delete_parent")
    /\ \/ /\ dirs = {}
          /\ parent' = FALSE
          /\ member' = [p \in Pids |-> "outside"]
          /\ Goto(c, "stop")
       \/ /\ dirs # {} \/ ~parent \/ MayFail("LIBCG_DELETE")
          /\ Done(c, "LIBCG_DELETE")
          /\ UNCHANGED <<parent, member>>
    /\ UNCHANGED <<alive, dirs, attached, pinned, pindirs, bpffs, watched>>
-----------------------------------------------------------------------------
(***************************************************************************)
(* The monitor daemon, one thread: it takes a command between two reaps.   *)
(* A command may be lost, and the callers ignore that.                     *)
(***************************************************************************)

MonitorFree == At(Monitor, "idle")

\* Mutant: the daemon sends the unwatch command to itself.
MonitorUnregister_by_command(p) == [Idle EXCEPT !.at = "unwatch", !.op = "unregister", !.pid = p]

\* The daemon's own unregister_rate_limiter_by_pid needs no command.
MonitorUnregister(p) == [Idle EXCEPT !.at = "open", !.op = "unregister", !.pid = p]

\* Mutant: a process that is gone when it is registered is not unregistered.
monitor_watch_pid_forgets_dead(c) ==
    LET p == call[c].pid
    IN  /\ At(c, "watch")
        /\ MonitorFree
        /\ watched' = IF p \in alive /\ watched[p] = "none" THEN [watched EXCEPT ![p] = "live"]
                      ELSE watched
        /\ Goto(c, "done")
        /\ UNCHANGED kernel

\* A pid that is already in the table keeps its pidfd; a process that is
\* already gone is unregistered at once, and the caller's wait for that, which
\* may time out, is left out.
monitor_watch_pid(c) ==
    LET p == call[c].pid
        done == [call[c] EXCEPT !.at = "done"]
    IN  /\ At(c, "watch")
        /\ \/ /\ MonitorFree
              /\ watched[p] # "none" \/ p \in alive
              /\ watched' = [watched EXCEPT ![p] = IF @ = "none" THEN "live" ELSE @]
              /\ Set(c, done)
           \/ /\ MonitorFree
              /\ watched[p] = "none" /\ p \notin alive
              /\ call' = [x \in Actors |-> CASE x = c -> [done EXCEPT !.solo = FALSE]
                                             [] x = Monitor -> MonitorUnregister(p)
                                             [] OTHER -> [call[x] EXCEPT !.solo = FALSE]]
              /\ UNCHANGED watched
           \/ MayFail("MONITOR") /\ Set(c, done) /\ UNCHANGED watched
        /\ UNCHANGED kernel

monitor_unwatch_pid(c) ==
    /\ At(c, "unwatch")
    /\ \/ MonitorFree /\ watched' = [watched EXCEPT ![call[c].pid] = "none"]
       \/ MayFail("MONITOR") /\ UNCHANGED watched
    /\ Goto(c, "open")
    /\ UNCHANGED kernel

monitor_stop(c) ==
    /\ At(c, "stop")
    /\ \/ MonitorFree /\ watched' = [p \in Pids |-> "none"]
       \/ MayFail("MONITOR") /\ UNCHANGED watched
    /\ Done(c, "OK")
    /\ UNCHANGED kernel

\* A pidfd became readable: the daemon unregisters the pid.
monitor_reap(p) ==
    /\ MonitorFree
    /\ watched[p] = "dead"
    /\ watched' = [watched EXCEPT ![p] = "none"]
    /\ Begin(Monitor, MonitorUnregister(p))
    /\ UNCHANGED kernel
-----------------------------------------------------------------------------
(***************************************************************************)
(* The processes that are limited.                                         *)
(***************************************************************************)

Die(p) ==
    /\ p \in alive
    /\ alive' = alive \ {p}
    /\ member' = [member EXCEPT ![p] = "outside"]
    /\ watched' = [watched EXCEPT ![p] = IF @ = "live" THEN "dead" ELSE @]
    /\ UNCHANGED <<parent, dirs, attached, pinned, pindirs, bpffs, call>>

\* A new process is given the pid.
Spawn(p) ==
    /\ PidReuse
    /\ p \notin alive
    /\ alive' = alive \cup {p}
    /\ call' = [c \in Actors |-> [call[c] EXCEPT !.solo = @ /\ call[c].pid # p]]
    /\ UNCHANGED <<parent, dirs, member, attached, pinned, pindirs, bpffs, watched>>

\* An actor is killed in the middle of a call: its descriptors are closed, a
\* link it had not pinned yet is freed, and the daemon's table is lost.
Kill(c) ==
    /\ MayFail("KILLED")
    /\ attached' = IF At(c, "pin") THEN attached \ {Link(c)} ELSE attached
    /\ watched' = IF c = Monitor THEN [p \in Pids |-> "none"] ELSE watched
    /\ Set(c, Idle)
    /\ UNCHANGED <<alive, parent, dirs, member, pinned, pindirs, bpffs>>
-----------------------------------------------------------------------------
Step(c) ==
    \/ create_parent(c) \/ create_child(c) \/ attach_task(c) \/ open_cgroup_fd(c)
    \/ create_pin_dir(c) \/ load(c) \/ attach_cgroup(c) \/ pin(c)
    \/ bpf_link_detach(c) \/ unlink_pin(c) \/ rmdir_pins(c) \/ delete_cgroup(c)
    \/ delete_pid_cgroup(c)
    \/ walk(c) \/ walk_next(c) \/ delete_parent(c)
    \/ monitor_watch_pid(c) \/ monitor_unwatch_pid(c) \/ monitor_stop(c)
    \/ Return(c)

Start(c) ==
    \/ \E p \in Pids, config \in Configs : limit_process_bandwidth(c, p, config)
    \/ \E p \in Pids : unregister_rate_limiter_by_pid(c, p)
    \/ ratelimit_cleanup_all(c)

Next ==
    \/ \E c \in Actors : Step(c)
    \/ \E c \in Callers : Start(c)
    \/ \E c \in Actors : Kill(c)
    \/ \E p \in Pids : monitor_reap(p) \/ Die(p) \/ Spawn(p)

Spec == Init /\ [][Next]_vars

\* The kernel runs every process that can go on, the daemon included.
FairSpec ==
    /\ Spec
    /\ \A c \in Actors : WF_vars(Step(c))
    /\ \A p \in Pids : WF_vars(monitor_reap(p))
-----------------------------------------------------------------------------
(***************************************************************************)
(* What the library reports, and the properties.                           *)
(***************************************************************************)

\* The query has room for one program: with two or more it fails, and the
\* direction is shown as unlimited.
read_limit_from_cgroup_progs(p, d) ==
    IF Cardinality(LinksOn(p, d)) = 1 THEN (CHOOSE l \in LinksOn(p, d) : TRUE).kbps ELSE Unlimited

get_rate_limits_from_cgroup(p) ==
    [d \in Directions |-> IF p \in dirs THEN read_limit_from_cgroup_progs(p, d) ELSE Unlimited]

(***************************************************************************)
(* The abstract store: the rates that links enforce, and the calls by what *)
(* they are about and ask for.                                             *)
(***************************************************************************)

StoreRates(p) == [d \in Directions |-> {l.kbps : l \in LinksOn(p, d)}]

StoreCall(frame) ==
    LET busy == frame.at \notin {"idle", "done"}
        asks == busy /\ frame.op = "limit" /\ frame.ret = "OK"
    IN  [st |-> CASE frame.at = "idle" -> "idle"
                  [] frame.at = "done" /\ frame.solo /\ frame.ret = "OK" -> "ok"
                  [] frame.at = "done" /\ ~(frame.solo /\ frame.ret = "OK") -> "done"
                  [] OTHER -> "busy",
         scope |-> IF ~busy THEN {} ELSE IF frame.op = "clean" THEN Pids ELSE {frame.pid},
         asked |-> [d \in Directions |-> IF asks THEN {frame.config[d]} \ {Unlimited} ELSE {}],
         alone |-> busy /\ frame.solo]

Store == INSTANCE LimitStore WITH
    force <- [p \in Pids |-> StoreRates(p)],
    open <- [c \in Actors |-> StoreCall(call[c])]

Labels == {"idle", "create_parent", "create_child", "attach_task", "open", "create_pin_dir",
           "load", "attach", "pin", "detach", "unlink", "rmdir", "delete", "walk", "next",
           "delete_parent", "watch", "unwatch", "stop", "done"}

Codes == {"OK", "OK_UNREAD", "LIBCG_CREATE", "LIBCG_ATTACH", "OPEN_CGROUP", "ALLOC", "NO_BPFFS", "BPF_PIN",
          "BPF_LOAD", "BPF_LINK", "LIBCG_DELETE", "CGROUP_NOT_FOUND"}

\* The labels of limit_process_bandwidth from the descriptor it opens to the
\* one it closes, in close_rate_limiter_handle or delete_cgroup.
OpenLabels == {"detach", "unlink", "rmdir", "create_pin_dir", "load", "attach", "pin", "delete"}

Frame == [at : Labels, op : {"none", "limit", "unregister", "clean"}, pid : Pids,
          config : Configs, dir : Directions, fd : {"none", "open", "stale"},
          todo : SUBSET Pids, ret : Codes, solo : BOOLEAN]

Links == [pid : Pids, dir : Directions, kbps : {config[d] : config \in Configs, d \in Directions},
          by : Actors]

\* The types of the variables.  The kernel's objects hang together: a child
\* cgroup has its parent, a member its cgroup, a link its cgroup.
Types ==
    /\ alive \subseteq Pids /\ dirs \subseteq Pids /\ pindirs \subseteq Pids
    /\ parent \in BOOLEAN /\ bpffs \in BOOLEAN
    /\ dirs # {} => parent
    /\ member \in [Pids -> {"outside", "parent", "child"}]
    /\ \A p \in Pids : member[p] = "child" => p \in dirs
    /\ attached \subseteq Links /\ pinned \subseteq Links
    /\ \A l \in attached : l.pid \in dirs
    /\ \A l \in pinned : l.pid \in pindirs
    /\ watched \in [Pids -> {"none", "live", "dead"}]
    /\ call \in [Actors -> Frame]

\* Every variable keeps its type, and no call leaves the descriptor of its
\* cgroup open, on whatever path it ends.
TypeOK ==
    /\ Types
    /\ \A c \in Actors :
          call[c].fd # "none" => call[c].op = "limit" /\ call[c].at \in OpenLabels

\* No limit is out of reach of detach_pinned_links: whatever the calls do to
\* one another, a link that is attached is pinned under its own path or
\* still held by the call that is about to pin it.
PinnedOrHeld ==
    \A l \in attached : l \in pinned \/ (At(l.by, "pin") /\ Link(l.by) = l)

\* A limit_process_bandwidth that nobody disturbed and that reports success
\* has established its own configuration, whatever pins, cgroups and watches
\* earlier calls, failures and races left behind: the process is in its
\* cgroup, each direction reads back as asked, no other link of an earlier
\* configuration is left, and the daemon has the pid.
SoloLimit ==
    \A c \in Callers :
        At(c, "done") /\ call[c].op = "limit" /\ call[c].ret = "OK" /\ call[c].solo =>
            LET p == call[c].pid
            IN  /\ p \in dirs
                /\ p \in alive => member[p] = "child"
                /\ get_rate_limits_from_cgroup(p) = call[c].config
                /\ {l \in pinned : l.pid = p} = {l \in attached : l.pid = p}
                /\ watched[p] # "none" \/ MayFail("MONITOR") \/ MayFail("KILLED")

\* An undisturbed unregister_rate_limiter_by_pid that reports success leaves
\* nothing of the pid's limit: no link, no pin and, as far as libcgroup and
\* the daemon did their part, no cgroup and no watch.
SoloUnregister ==
    \A c \in Callers :
        At(c, "done") /\ call[c].op = "unregister" /\ call[c].ret = "OK" /\ call[c].solo =>
            LET p == call[c].pid
            IN  /\ \A l \in attached \cup pinned : l.pid # p
                /\ p \notin dirs \/ MayFail("LIBCG_DELETE")
                /\ watched[p] = "none" \/ MayFail("MONITOR")

\* An undisturbed ratelimit_cleanup_all that could read the parent cgroup and
\* reports success leaves no cgroup and no limit in force, and every process
\* is out of pidnl's tree.  One that could not reports success as well, with
\* nothing done; and pins without a cgroup (NoOrphanPins) are not its concern.
SoloClean ==
    \A c \in Callers :
        At(c, "done") /\ call[c].op = "clean" /\ call[c].ret = "OK" /\ call[c].solo =>
            ~parent /\ dirs = {} /\ attached = {} /\ \A p \in Pids : member[p] = "outside"

\* The library implements LimitStore, whatever calls interleave, fail or are
\* killed half way: a rate comes into force only through an open call that
\* asked for it and goes only through an open call on its process, and a
\* successful call that nobody disturbed leaves exactly what it asked for.
ImplementsStore == Store!Spec

\* Whenever no call is in progress, every limit is in the daemon's hands: the
\* order unwatch-then-delete and create-then-watch never leaves a cgroup
\* that nobody will remove when its process exits.  It takes a daemon that is
\* reached, cgroups that can be read, opened and deleted, and neither kills nor
\* a clean: an unregister that fails to open the cgroup leaves it unwatched.
NoUnwatchedLimit ==
    (\A c \in Actors : At(c, "idle") \/ At(c, "done")) => \A p \in dirs : watched[p] # "none"

\* When no call is in progress and the daemon has no exit left to handle, a
\* pid without a cgroup has no pinned links.
NoOrphanPins ==
    (/\ \A c \in Actors : At(c, "idle") \/ At(c, "done")
     /\ \A p \in Pids : watched[p] # "dead")
        => \A l \in pinned : l.pid \in dirs

\* A pid whose process has exited and is not used again ends up without a
\* cgroup and without a limit, for good: no call in progress, late watch or
\* exit of a process that used the pid before brings one back.
DeadLimitsGo ==
    \A p \in Pids : <>[](p \notin alive) => <>[](p \notin dirs /\ \A l \in attached : l.pid # p)

\* Every library call returns: no call waits for the daemon while the
\* daemon's own unregister waits for it.
CallsReturn ==
    \A c \in Actors : ~At(c, "idle") ~> At(c, "idle")
=============================================================================
