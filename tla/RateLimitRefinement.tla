------------------------ MODULE RateLimitRefinement ------------------------
(***************************************************************************)
(* RateLimit implements LimitStore, and keeps every limit in the daemon's  *)
(* hands.  Both rest on one account of what a step of a call does to the   *)
(* calls, the links, the cgroups and the daemon's table.                   *)
(***************************************************************************)
EXTENDS RateLimitProofs

-----------------------------------------------------------------------------
(***************************************************************************)
(* What a step of a call does to the calls, to the links and to the        *)
(* cgroups, apart from a call that returns or hands its process over.      *)
(***************************************************************************)

\* The labels at which a call on one process will still hand its cgroup to
\* the daemon or delete it.
AnswerLabels == {"attach_task", "open", "detach", "unlink", "rmdir", "create_pin_dir", "load",
                 "attach", "pin", "watch", "delete"}

\* An actor's call is the same, but perhaps for its descriptor and direction.
SameCall(x) ==
    /\ call'[x].at = call[x].at /\ call'[x].op = call[x].op /\ call'[x].pid = call[x].pid
    /\ call'[x].config = call[x].config /\ call'[x].ret = call[x].ret
    /\ call'[x].solo = call[x].solo

\* The call stays on its process, except ratelimit_cleanup_all, and changes
\* its result only to fail a limit or to end.
CallEffect(c) ==
    /\ call'[c].op = call[c].op /\ call'[c].config = call[c].config
    /\ call'[c].solo = call[c].solo
    /\ call'[c].pid = call[c].pid \/ call[c].op = "clean"
    /\ call'[c].at # "idle"
    /\ call'[c].ret # call[c].ret =>
          call[c].ret = "OK" /\ (call[c].op = "limit" \/ call'[c].at = "done")
    /\ \A x \in Actors \ {c} : SameCall(x)

\* Links appear only as the call's own and go only on its process.
LinkEffect(c) ==
    /\ \A l \in attached' \ attached :
          /\ l = Link(c) /\ call[c].op = "limit" /\ call[c].ret = "OK"
          /\ call[c].config[call[c].dir] # Unlimited
    /\ \A l \in attached \ attached' : l.pid = call[c].pid

\* Somewhere between a process and its cgroup's end a call may give up.
MayGiveUp == \E code \in {"LIBCG_DELETE", "LIBCG_GET", "OPEN_CGROUP"} : MayFail(code)

\* A cgroup appears only through a call that answers for it, and a call that
\* answers for one goes on, deletes it or hands it over; the daemon forgets a
\* process only for a call that answers for it.
LimitEffect(c) ==
    /\ \A p \in dirs' \ dirs :
          call[c].op = "limit" /\ call[c].pid = p /\ call'[c].at = "attach_task"
    /\ call[c].op \in {"limit", "unregister"} /\ call[c].at \in AnswerLabels =>
          \/ call'[c].at \in AnswerLabels
          \/ call[c].pid \notin dirs'
          \/ watched'[call[c].pid] # "none"
          \/ MayFail("MONITOR") \/ MayGiveUp
    /\ \A p \in Pids : watched[p] # "none" /\ watched'[p] = "none" =>
          \/ call[c].op = "clean"
          \/ call[c].op = "unregister" /\ call[c].pid = p /\ call'[c].at = "open"

Effect(c) == CallEffect(c) /\ LinkEffect(c) /\ LimitEffect(c)

\* A call hands its process, which has exited, to the daemon.
HandsOver(c) ==
    /\ At(c, "watch") /\ MonitorFree /\ UNCHANGED <<kernel, watched>>
    /\ call[c].pid \notin alive
    /\ call' = [x \in Actors |-> CASE x = c -> [[call[c] EXCEPT !.at = "done"] EXCEPT !.solo = FALSE]
                                   [] x = Monitor -> MonitorUnregister(call[c].pid)
                                   [] OTHER -> [call[x] EXCEPT !.solo = FALSE]]

\* A move that changes no link, cgroup or watch.
LEMMA PlainEffect ==
    ASSUME NEW c \in Actors, NEW at, NEW ret, NEW dir, NEW fd, Moves(c, at, ret, dir, fd),
           UNCHANGED <<dirs, attached, watched>>, at # "idle",
           ret # call[c].ret => call[c].ret = "OK" /\ (call[c].op = "limit" \/ at = "done"),
           call[c].op \in {"limit", "unregister"} /\ call[c].at \in AnswerLabels =>
              at \in AnswerLabels \/ call[c].pid \notin dirs \/ MayGiveUp
    PROVE  Effect(c)
<1>1. CallEffect(c)
  BY DEF Moves, Steps, CallEffect, SameCall
<1>2. LinkEffect(c)
  BY DEF LinkEffect
<1>3. LimitEffect(c)
  BY DEF LimitEffect, Moves
<1> QED BY <1>1, <1>2, <1>3 DEF Effect

\* A failure of limit_process_bandwidth with an open descriptor.
LEMMA FailEffect ==
    ASSUME Inv, NEW c \in Actors, NEW code \in Codes \ {"OK"}, Fail(c, code),
           call[c].op = "limit", call[c].ret = "OK", UNCHANGED <<dirs, watched>>,
           attached' = attached \/ attached' = attached \ {Link(c)}
    PROVE  Effect(c)
<1>1. Moves(c, IF bpffs THEN "detach" ELSE "delete", code, "egress", call[c].fd)
  BY FailMoves DEF Inv
<1>2. CallEffect(c)
  BY <1>1 DEF Moves, Steps, CallEffect, SameCall
<1>3. LinkEffect(c)
  BY DEF LinkEffect, Link
<1>4. LimitEffect(c)
  BY <1>1 DEF LimitEffect, Moves, AnswerLabels
<1> QED BY <1>2, <1>3, <1>4 DEF Effect

\* The steps of limit_process_bandwidth.
LEMMA LimitStepEffect ==
    ASSUME Inv, NEW c \in Actors,
           \/ create_parent(c) \/ create_child(c) \/ attach_task(c) \/ open_cgroup_fd(c)
           \/ create_pin_dir(c) \/ load(c) \/ attach_cgroup(c) \/ pin(c)
    PROVE  Effect(c)
<1> DEFINE f == call[c]
<1>1. Types /\ ControlOf(f) /\ f \in Frame /\ f.pid \in Pids /\ f.dir \in Directions
  BY CallFacts, FrameType DEF Inv
<1>2. CASE create_parent(c)
  <2>1. f.at = "create_parent" /\ f.ret = "OK" /\ UNCHANGED <<dirs, attached, watched>>
    BY <1>1, <1>2 DEF create_parent, At, ControlOf, OpenLabels
  <2>2. CASE Goto(c, "create_child")
    BY <1>1, <2>1, <2>2, GotoMoves, PlainEffect DEF Labels, AnswerLabels
  <2>3. CASE Done(c, "LIBCG_CREATE")
    BY <1>1, <2>1, <2>3, DoneMoves, PlainEffect DEF Codes, AnswerLabels
  <2> QED BY <1>2, <2>2, <2>3 DEF create_parent
<1>3. CASE create_child(c)
  <2>1. f.at = "create_child" /\ f.op = "limit" /\ f.ret = "OK" /\ UNCHANGED <<attached, watched>>
    BY <1>1, <1>3 DEF create_child, At, ControlOf, OpenLabels
  <2>2. CASE dirs' = dirs \cup {f.pid} /\ Goto(c, "attach_task")
    <3>1. Moves(c, "attach_task", f.ret, f.dir, f.fd)
      BY <1>1, <2>2, GotoMoves DEF Labels
    <3>2. CallEffect(c)
      BY <3>1 DEF Moves, Steps, CallEffect, SameCall
    <3>3. LinkEffect(c) /\ LimitEffect(c)
      BY <2>1, <2>2, <3>1 DEF LinkEffect, LimitEffect, Moves, AnswerLabels
    <3> QED BY <3>2, <3>3 DEF Effect
  <2>3. CASE UNCHANGED dirs /\ Done(c, "LIBCG_CREATE")
    BY <1>1, <2>1, <2>3, DoneMoves, PlainEffect DEF Codes, AnswerLabels
  <2> QED BY <1>3, <2>2, <2>3 DEF create_child
<1>4. CASE attach_task(c)
  <2>1. f.at = "attach_task" /\ f.op = "limit" /\ f.ret = "OK" /\ UNCHANGED <<dirs, attached, watched>>
    BY <1>1, <1>4 DEF attach_task, At, ControlOf, OpenLabels
  <2>2. CASE Goto(c, "open")
    BY <1>1, <2>1, <2>2, GotoMoves, PlainEffect DEF Labels, AnswerLabels
  <2>3. CASE Set(c, [f EXCEPT !.at = "delete", !.ret = "LIBCG_ATTACH"])
    BY <1>1, <2>1, <2>3, EarlyFailMoves, PlainEffect DEF Codes, AnswerLabels
  <2> QED BY <1>4, <2>2, <2>3 DEF attach_task
<1>5. CASE open_cgroup_fd(c)
  <2>1. /\ f.at = "open" /\ f.op = "limit" /\ f.ret = "OK"
        /\ UNCHANGED <<dirs, attached, watched>>
    BY <1>1, <1>5 DEF open_cgroup_fd, At, ControlOf, OpenLabels, kernel
  <2>2. ASSUME NEW g \in Frame, Set(c, Detaching(g)), g.op = f.op, g.pid = f.pid,
               g.config = f.config, g.todo = f.todo, g.solo = f.solo
        PROVE  Effect(c)
    <3>1. Moves(c, DetachAt(g), g.ret, "egress", g.fd)
      BY <1>1, <2>2, DetachMoves
    <3>2. DetachAt(g) \in AnswerLabels /\ DetachAt(g) # "idle"
      BY DEF DetachAt, AfterDetach, AnswerLabels
    <3> QED BY <2>1, <3>1, <3>2, PlainEffect
  <2>3. CASE Set(c, Detaching([f EXCEPT !.fd = "open"]))
    <3> DEFINE g == [f EXCEPT !.fd = "open"]
    <3>1. /\ g \in Frame /\ g.op = f.op /\ g.pid = f.pid /\ g.config = f.config
          /\ g.todo = f.todo /\ g.solo = f.solo
      BY <1>1 DEF Frame
    <3>2. Set(c, Detaching(g))
      BY <2>3
    <3> HIDE DEF g
    <3> QED BY <2>2, <3>1, <3>2
  <2>4. CASE Set(c, Detaching([[f EXCEPT !.fd = "open"] EXCEPT !.ret = "ALLOC"]))
    <3> DEFINE g == [[f EXCEPT !.fd = "open"] EXCEPT !.ret = "ALLOC"]
    <3>1. /\ g \in Frame /\ g.op = f.op /\ g.pid = f.pid /\ g.config = f.config
          /\ g.todo = f.todo /\ g.solo = f.solo
      BY <1>1 DEF Frame, Codes
    <3>2. Set(c, Detaching(g))
      BY <2>4
    <3> HIDE DEF g
    <3> QED BY <2>2, <3>1, <3>2
  <2>5. CASE Set(c, [f EXCEPT !.at = "delete", !.ret = "OPEN_CGROUP"])
    BY <1>1, <2>1, <2>5, EarlyFailMoves, PlainEffect DEF Codes, AnswerLabels
  <2> QED BY <1>5, <2>3, <2>4, <2>5 DEF open_cgroup_fd
<1>6. CASE create_pin_dir(c)
  <2>1. /\ f.at = "create_pin_dir" /\ f.op = "limit" /\ f.ret = "OK"
        /\ UNCHANGED <<dirs, attached, watched>>
    BY <1>1, <1>6 DEF create_pin_dir, At, ControlOf, OpenLabels
  <2>2. CASE Goto(c, "load")
    BY <1>1, <2>1, <2>2, GotoMoves, PlainEffect DEF Labels, AnswerLabels
  <2>3. CASE Fail(c, "NO_BPFFS") \/ Fail(c, "BPF_PIN")
    BY <2>1, <2>3, FailEffect DEF Codes
  <2> QED BY <1>6, <2>2, <2>3 DEF create_pin_dir
<1>7. CASE load(c)
  <2>1. f.at = "load" /\ f.op = "limit" /\ f.ret = "OK" /\ UNCHANGED <<dirs, attached, watched>>
    BY <1>1, <1>7 DEF load, At, ControlOf, OpenLabels, kernel
  <2>2. CASE Set(c, [f EXCEPT !.at = "attach", !.dir = "egress"])
    <3> DEFINE g == [f EXCEPT !.at = "attach", !.dir = "egress"]
    <3>1. /\ g \in Frame /\ g.at = "attach" /\ g.dir = "egress" /\ g.ret = f.ret /\ g.fd = f.fd
          /\ g.op = f.op /\ g.pid = f.pid /\ g.config = f.config /\ g.solo = f.solo
      BY <1>1 DEF Frame, Labels, Directions
    <3>2. Set(c, g)
      BY <2>2
    <3> HIDE DEF g
    <3>3. Moves(c, "attach", f.ret, "egress", f.fd)
      BY <1>1, <3>1, <3>2, SetFrame DEF Moves, Steps
    <3> QED BY <2>1, <3>3, PlainEffect DEF AnswerLabels
  <2>3. CASE Fail(c, "BPF_LOAD")
    BY <2>1, <2>3, FailEffect DEF Codes
  <2> QED BY <1>7, <2>2, <2>3 DEF load
<1>8. ASSUME Set(c, NextDirection(c)), UNCHANGED <<dirs, attached, watched>> PROVE Effect(c)
  BY <1>1, <1>8, NextDirectionMoves, PlainEffect DEF AnswerLabels
<1>9. CASE attach_cgroup(c)
  <2>1. f.at = "attach" /\ f.op = "limit" /\ f.ret = "OK" /\ UNCHANGED <<dirs, watched>>
    BY <1>1, <1>9 DEF attach_cgroup, At, ControlOf, OpenLabels
  <2>2. CASE Set(c, NextDirection(c)) /\ UNCHANGED attached
    BY <1>8, <2>1, <2>2
  <2>3. CASE /\ f.config[f.dir] # Unlimited
             /\ attached' = attached \cup {Link(c)} /\ Goto(c, "pin")
    <3>1. Moves(c, "pin", f.ret, f.dir, f.fd)
      BY <1>1, <2>3, GotoMoves DEF Labels
    <3>2. CallEffect(c)
      BY <3>1 DEF Moves, Steps, CallEffect, SameCall
    <3>3. LinkEffect(c) /\ LimitEffect(c)
      BY <2>1, <2>3, <3>1 DEF LinkEffect, LimitEffect, Moves, AnswerLabels
    <3> QED BY <3>2, <3>3 DEF Effect
  <2>4. CASE Fail(c, "BPF_LINK") /\ UNCHANGED attached
    BY <2>1, <2>4, FailEffect DEF Codes
  <2> QED BY <1>9, <2>2, <2>3, <2>4 DEF attach_cgroup
<1>10. CASE pin(c)
  <2>1. f.at = "pin" /\ f.op = "limit" /\ f.ret = "OK" /\ UNCHANGED <<dirs, watched>>
    BY <1>1, <1>10 DEF pin, At, ControlOf, OpenLabels
  <2>2. CASE Set(c, NextDirection(c)) /\ UNCHANGED attached
    BY <1>8, <2>1, <2>2
  <2>3. CASE attached' = attached \ {Link(c)} /\ Fail(c, "BPF_PIN")
    BY <2>1, <2>3, FailEffect DEF Codes
  <2> QED BY <1>10, <2>2, <2>3 DEF pin
<1> QED BY <1>2, <1>3, <1>4, <1>5, <1>6, <1>7, <1>9, <1>10

\* The steps that detach and delete.
LEMMA DeleteStepEffect ==
    ASSUME Inv, NEW c \in Actors,
           \/ bpf_link_detach(c) \/ unlink_pin(c) \/ rmdir_pins(c) \/ delete_cgroup(c)
           \/ delete_pid_cgroup(c)
    PROVE  Effect(c)
<1> DEFINE f == call[c]
<1>1. Types /\ ControlOf(f) /\ f \in Frame /\ f.pid \in Pids /\ f.dir \in Directions
  BY CallFacts, FrameType DEF Inv
<1>2. ASSUME NEW at \in AnswerLabels, NEW dir, Moves(c, at, f.ret, dir, f.fd),
             UNCHANGED <<dirs, watched>>, attached' = attached \ PinnedAt(f.pid, f.dir)
      PROVE  Effect(c)
  <2>1. CallEffect(c)
    BY <1>2 DEF Moves, Steps, CallEffect, SameCall, AnswerLabels
  <2>2. LinkEffect(c) /\ LimitEffect(c)
    BY <1>2 DEF LinkEffect, LimitEffect, Moves, PinnedAt
  <2> QED BY <2>1, <2>2 DEF Effect
<1>3. CASE bpf_link_detach(c)
  <2>1. Moves(c, "unlink", f.ret, f.dir, f.fd)
    BY <1>1, <1>3, GotoMoves DEF bpf_link_detach, Labels
  <2> QED BY <1>2, <1>3, <2>1 DEF bpf_link_detach, AnswerLabels
<1>4. CASE unlink_pin(c)
  <2>1. UNCHANGED <<dirs, watched>> /\ attached' = attached \ PinnedAt(f.pid, f.dir)
    BY <1>4 DEF unlink_pin
  <2>2. CASE Set(c, [f EXCEPT !.at = "detach", !.dir = "ingress"])
    <3> DEFINE g == [f EXCEPT !.at = "detach", !.dir = "ingress"]
    <3>1. /\ g \in Frame /\ g.at = "detach" /\ g.dir = "ingress" /\ g.ret = f.ret /\ g.fd = f.fd
          /\ g.op = f.op /\ g.pid = f.pid /\ g.config = f.config /\ g.solo = f.solo
      BY <1>1 DEF Frame, Labels, Directions
    <3>2. Set(c, g)
      BY <2>2
    <3> HIDE DEF g
    <3>3. Moves(c, "detach", f.ret, "ingress", f.fd)
      BY <1>1, <3>1, <3>2, SetFrame DEF Moves, Steps
    <3> QED BY <1>2, <2>1, <3>3 DEF AnswerLabels
  <2>3. CASE Goto(c, "rmdir")
    <3>1. Moves(c, "rmdir", f.ret, f.dir, f.fd)
      BY <1>1, <2>3, GotoMoves DEF Labels
    <3> QED BY <1>2, <2>1, <3>1 DEF AnswerLabels
  <2> QED BY <1>4, <2>2, <2>3 DEF unlink_pin
<1>5. CASE rmdir_pins(c)
  <2>1. /\ AfterDetach(f) \in Labels /\ AfterDetach(f) \in AnswerLabels /\ AfterDetach(f) # "idle"
        /\ UNCHANGED <<dirs, attached, watched>> /\ Goto(c, AfterDetach(f))
    BY <1>5 DEF rmdir_pins, AfterDetach, Labels, AnswerLabels
  <2>2. Moves(c, AfterDetach(f), f.ret, f.dir, f.fd)
    BY <1>1, <2>1, GotoMoves
  <2> QED BY <2>1, <2>2, PlainEffect
<1>6. CASE delete_cgroup(c)
  <2> DEFINE g == AfterDelete(c)
  <2>1. f.at = "delete" /\ UNCHANGED watched
    BY <1>6 DEF delete_cgroup, At
  <2>2. /\ g \in Frame /\ g.fd = "none" /\ g.at = IF f.op = "clean" THEN "next" ELSE "done"
        /\ g.ret = f.ret /\ g.dir = f.dir /\ g.op = f.op /\ g.pid = f.pid /\ g.config = f.config
        /\ g.solo = f.solo
    BY <2>1, AfterDeleteFrame
  <2>3. CASE MayFail("LIBCG_DELETE") /\ Set(c, g) /\ UNCHANGED <<dirs, attached>>
    <3> HIDE DEF g
    <3>1. Moves(c, g.at, f.ret, f.dir, g.fd)
      BY <1>1, <2>2, <2>3, SetFrame DEF Moves, Steps
    <3> QED BY <2>1, <2>2, <2>3, <3>1, PlainEffect DEF AnswerLabels, MayGiveUp
  <2>4. CASE /\ dirs' = dirs \ {f.pid} /\ attached' = {l \in attached : l.pid # f.pid}
             /\ call' = [x \in Actors |->
                           IF x = c THEN g
                           ELSE IF call[x].pid = f.pid /\ call[x].fd = "open"
                           THEN [call[x] EXCEPT !.fd = "stale"] ELSE call[x]]
    <3> HIDE DEF g
    <3>1. call'[c] = g
      BY <2>4
    <3>2. ASSUME NEW x \in Actors \ {c} PROVE SameCall(x)
      <4>1. call[x] \in Frame
        BY <1>1, FrameType
      <4>2. call'[x] = [call[x] EXCEPT !.fd = "stale"] \/ call'[x] = call[x]
        BY <2>4
      <4> QED BY <4>1, <4>2 DEF SameCall, Frame
    <3>3. CallEffect(c)
      BY <2>2, <3>1, <3>2 DEF CallEffect
    <3>4. LinkEffect(c) /\ LimitEffect(c)
      BY <2>1, <2>4 DEF LinkEffect, LimitEffect
    <3> QED BY <3>3, <3>4 DEF Effect
  <2> QED BY <1>6, <2>3, <2>4 DEF delete_cgroup
<1>7. CASE delete_pid_cgroup(c)
  <2>1. /\ f.at = "open" /\ f.ret = "OK" /\ f.op \in {"unregister", "clean"}
        /\ UNCHANGED <<dirs, attached, watched>>
    BY <1>1, <1>7 DEF delete_pid_cgroup, At, ControlOf, OpenLabels, kernel
  <2>2. CASE Set(c, Detaching(f))
    <3>1. Moves(c, DetachAt(f), f.ret, "egress", f.fd)
      BY <1>1, <2>2, DetachMoves
    <3>2. DetachAt(f) \in AnswerLabels /\ DetachAt(f) # "idle"
      BY DEF DetachAt, AfterDetach, AnswerLabels
    <3> QED BY <2>1, <3>1, <3>2, PlainEffect
  <2>3. CASE f.op = "clean" /\ Goto(c, "next")
    BY <1>1, <2>1, <2>3, GotoMoves, PlainEffect DEF Labels
  <2>4. CASE f.pid \notin dirs \/ MayGiveUp
    <3>1. CASE Done(c, "CGROUP_NOT_FOUND")
      BY <1>1, <2>1, <2>4, <3>1, DoneMoves, PlainEffect DEF Codes
    <3>2. CASE Done(c, "LIBCG_DELETE")
      BY <1>1, <2>1, <2>4, <3>2, DoneMoves, PlainEffect DEF Codes
    <3> QED BY <1>7, <2>2, <2>3, <3>1, <3>2 DEF delete_pid_cgroup
  <2> QED BY <1>7, <2>2, <2>3, <2>4 DEF delete_pid_cgroup, MayGiveUp
<1> QED BY <1>3, <1>4, <1>5, <1>6, <1>7

\* The steps of ratelimit_cleanup_all.
LEMMA CleanStepEffect ==
    ASSUME Inv, NEW c \in Actors,
           walk(c) \/ walk_next(c) \/ delete_parent(c) \/ monitor_stop(c)
    PROVE  Effect(c)
<1> DEFINE f == call[c]
<1>1. /\ Types /\ f \in Frame /\ f.op = "clean" /\ f.ret = "OK"
      /\ f.at \notin AnswerLabels /\ f.todo \subseteq Pids
      /\ UNCHANGED <<dirs, attached>>
  BY CallFacts, FrameType
     DEF Inv, walk, walk_next, delete_parent, monitor_stop, At, ControlOf, OpenLabels, AnswerLabels, kernel
<1>2. ASSUME CallEffect(c) PROVE Effect(c)
  BY <1>1, <1>2 DEF Effect, LinkEffect, LimitEffect
<1>3. ASSUME NEW at, NEW ret, NEW dir, NEW fd, Moves(c, at, ret, dir, fd), at # "idle",
             ret # "OK" => at = "done"
      PROVE  Effect(c)
  BY <1>1, <1>2, <1>3 DEF Moves, Steps, CallEffect, SameCall
<1>4. ASSUME NEW g \in Frame, Set(c, g), g.ret = f.ret, g.op = f.op, g.config = f.config,
             g.solo = f.solo, g.at # "idle"
      PROVE  Effect(c)
  <2>1. call'[c] = g /\ \A x \in Actors \ {c} : call'[x] = call[x]
    BY <1>1, <1>4, SetFrame
  <2> QED BY <1>1, <1>2, <1>4, <2>1 DEF CallEffect, SameCall
<1>5. CASE walk(c)
  <2> PICK seen \in SUBSET dirs : Set(c, [f EXCEPT !.at = "next", !.todo = seen])
    BY <1>5 DEF walk
  <2> DEFINE g == [f EXCEPT !.at = "next", !.todo = seen]
  <2>1. seen \in SUBSET Pids /\ Set(c, g)
    BY <1>1 DEF Types
  <2>2. /\ g \in Frame /\ g.at = "next" /\ g.ret = f.ret /\ g.op = f.op /\ g.config = f.config
        /\ g.solo = f.solo
    BY <1>1, <2>1 DEF Frame, Labels
  <2> HIDE DEF g
  <2> QED BY <1>4, <2>1, <2>2
<1>6. CASE walk_next(c)
  <2>1. ASSUME NEW p \in f.todo, Set(c, [f EXCEPT !.at = "open", !.pid = p, !.todo = @ \ {p}])
        PROVE  Effect(c)
    <3> DEFINE g == [f EXCEPT !.at = "open", !.pid = p, !.todo = @ \ {p}]
    <3>1. p \in Pids /\ f.todo \ {p} \in SUBSET Pids /\ Set(c, g)
      BY <1>1, <2>1
    <3>2. /\ g \in Frame /\ g.at = "open" /\ g.ret = f.ret /\ g.op = f.op /\ g.config = f.config
          /\ g.solo = f.solo
      BY <1>1, <3>1 DEF Frame, Labels
    <3> HIDE DEF g
    <3> QED BY <1>4, <3>1, <3>2
  <2>2. CASE Goto(c, "delete_parent")
    BY <1>1, <1>3, <2>2, GotoMoves DEF Labels
  <2> QED BY <1>6, <2>1, <2>2 DEF walk_next
<1>7. CASE delete_parent(c)
  <2>1. CASE Goto(c, "stop")
    BY <1>1, <1>3, <2>1, GotoMoves DEF Labels
  <2>2. CASE Done(c, "LIBCG_DELETE")
    BY <1>1, <1>3, <2>2, DoneMoves DEF Codes
  <2> QED BY <1>7, <2>1, <2>2 DEF delete_parent
<1>8. CASE monitor_stop(c)
  BY <1>1, <1>3, <1>8, DoneMoves DEF monitor_stop, Codes
<1> QED BY <1>5, <1>6, <1>7, <1>8

\* The steps that talk to the daemon.
LEMMA WatchStepEffect ==
    ASSUME Inv, NEW c \in Actors, monitor_watch_pid(c) \/ monitor_unwatch_pid(c)
    PROVE  Effect(c) \/ HandsOver(c)
<1> DEFINE f == call[c]
           p == f.pid
           g == [f EXCEPT !.at = "done"]
<1>1. Types /\ ControlOf(f) /\ f \in Frame /\ p \in Pids /\ UNCHANGED <<dirs, attached>>
  BY CallFacts, FrameType DEF Inv, monitor_watch_pid, monitor_unwatch_pid, kernel
<1>2. CASE monitor_unwatch_pid(c)
  <2>1. /\ f.at = "unwatch" /\ f.op = "unregister" /\ Goto(c, "open")
        /\ watched' = [watched EXCEPT ![p] = "none"] \/ UNCHANGED watched
    BY <1>1, <1>2 DEF monitor_unwatch_pid, At, ControlOf, OpenLabels
  <2>2. Moves(c, "open", f.ret, f.dir, f.fd)
    BY <1>1, <2>1, GotoMoves DEF Labels
  <2>3. CallEffect(c)
    BY <2>2 DEF Moves, Steps, CallEffect, SameCall
  <2>4. LinkEffect(c)
    BY <1>1 DEF LinkEffect
  <2>5. LimitEffect(c)
    BY <1>1, <2>1, <2>2 DEF LimitEffect, Moves, Types, AnswerLabels
  <2> QED BY <2>3, <2>4, <2>5 DEF Effect
<1>3. CASE monitor_watch_pid(c)
  <2>1. /\ g \in Frame /\ g.at = "done" /\ g.ret = f.ret /\ g.dir = f.dir /\ g.fd = f.fd
        /\ g.op = f.op /\ g.pid = f.pid /\ g.config = f.config /\ g.solo = f.solo
    BY <1>1 DEF Frame, Labels
  <2>2. ASSUME Set(c, g), watched'[p] # "none" \/ MayFail("MONITOR"),
               \A q \in Pids : watched[q] # "none" => watched'[q] # "none"
        PROVE  Effect(c)
    <3> HIDE DEF g
    <3>1. Moves(c, "done", f.ret, f.dir, f.fd)
      BY <1>1, <2>1, <2>2, SetFrame DEF Moves, Steps
    <3>2. CallEffect(c)
      BY <3>1 DEF Moves, Steps, CallEffect, SameCall
    <3>3. LinkEffect(c) /\ LimitEffect(c)
      BY <1>1, <2>2 DEF LinkEffect, LimitEffect
    <3> QED BY <3>2, <3>3 DEF Effect
  <2>3. CASE /\ watched[p] # "none" \/ p \in alive
             /\ watched' = [watched EXCEPT ![p] = IF @ = "none" THEN "live" ELSE @]
             /\ Set(c, g)
    BY <1>1, <2>2, <2>3 DEF Types
  <2>4. CASE MayFail("MONITOR") /\ Set(c, g) /\ UNCHANGED watched
    BY <2>2, <2>4
  <2> QED BY <1>3, <2>3, <2>4 DEF monitor_watch_pid, HandsOver
<1> QED BY <1>2, <1>3

\* Every step of a call is one of these, or the return.
LEMMA StepEffect ==
    ASSUME Inv, NEW c \in Actors, Step(c)
    PROVE  Return(c) \/ HandsOver(c) \/ (Working(c) /\ Effect(c))
<1>1. CASE Return(c)
  BY <1>1
<1>2. CASE ~Return(c)
  <2>1. Effect(c) \/ HandsOver(c)
    BY <1>2, LimitStepEffect, DeleteStepEffect, CleanStepEffect, WatchStepEffect DEF Step
  <2>2. Working(c)
    BY <1>2 DEF Step, Working, At, create_parent, create_child, attach_task, open_cgroup_fd,
       create_pin_dir, load, attach_cgroup, pin, bpf_link_detach, unlink_pin, rmdir_pins,
       delete_cgroup, delete_pid_cgroup, walk, walk_next, delete_parent, monitor_watch_pid,
       monitor_unwatch_pid, monitor_stop
  <2> QED BY <2>1, <2>2
<1> QED BY <1>1, <1>2

-----------------------------------------------------------------------------
(***************************************************************************)
(* Limits and the daemon.                                                  *)
(***************************************************************************)

\* A call answers for the limit of a process: it will hand it to the daemon
\* or delete it before it ends.
Answers(c, p) ==
    /\ call[c].pid = p
    /\ call[c].op \in {"limit", "unregister"}
    /\ call[c].at \in AnswerLabels

AnsweredInv == \A p \in dirs : watched[p] # "none" \/ \E c \in Actors : Answers(c, p)

\* The daemon takes every command and lives on, libcgroup reads and deletes
\* what it is told to, a cgroup that exists can be opened, and nobody stops the
\* daemon under other callers' limits.
Reliable ==
    /\ Faults \cap {"LIBCG_DELETE", "LIBCG_GET", "OPEN_CGROUP", "MONITOR", "KILLED"} = {}
    /\ "clean" \notin Ops

\* Limits stay answered for.
LEMMA AnsweredNext ==
    ASSUME Reliable, Inv, AnsweredInv, [Next]_vars
    PROVE  AnsweredInv'
<1> SUFFICES ASSUME NEW p \in dirs'
             PROVE  watched'[p] # "none" \/ \E x \in Actors : Answers(x, p)'
  BY DEF AnsweredInv
<1>1. Types /\ Types' /\ p \in Pids
  BY NextInv DEF Inv, Types
<1>2. ASSUME UNCHANGED dirs, \A x \in Actors : Answers(x, p) => Answers(x, p)',
             watched[p] # "none" => watched'[p] # "none"
      PROVE  watched'[p] # "none" \/ \E x \in Actors : Answers(x, p)'
  BY <1>2 DEF AnsweredInv
<1>3. ASSUME NEW c \in Actors, Working(c), Effect(c)
      PROVE  watched'[p] # "none" \/ \E x \in Actors : Answers(x, p)'
  <2>1. call[c].op # "clean" /\ call'[c].pid = call[c].pid /\ call'[c].op = call[c].op
    BY <1>3, CallFacts DEF Reliable, ControlOf, OpenLabels, Effect, CallEffect
  <2>2. CASE p \notin dirs
    BY <1>3, <2>1, <2>2 DEF Effect, LimitEffect, Answers, AnswerLabels
  <2>3. CASE watched[p] # "none"
    BY <1>1, <1>3, <2>1, <2>3 DEF Effect, LimitEffect, Answers, AnswerLabels
  <2>4. ASSUME NEW x \in Actors, Answers(x, p)
        PROVE  watched'[p] # "none" \/ \E y \in Actors : Answers(y, p)'
    <3>1. CASE x = c
      <4>1. ~MayFail("MONITOR") /\ ~MayGiveUp
        BY DEF Reliable, MayFail, MayGiveUp
      <4> QED BY <1>3, <2>1, <2>4, <3>1, <4>1 DEF Effect, LimitEffect, Answers
    <3>2. CASE x # c
      BY <1>3, <2>4, <3>2 DEF Effect, CallEffect, SameCall, Answers
    <3> QED BY <3>1, <3>2
  <2> QED BY <2>2, <2>3, <2>4 DEF AnsweredInv
<1>4. ASSUME NEW c \in Actors, HandsOver(c)
      PROVE  watched'[p] # "none" \/ \E x \in Actors : Answers(x, p)'
  <2>1. /\ UNCHANGED <<dirs, watched>> /\ Monitor \in Actors /\ c # Monitor
        /\ ~Answers(Monitor, p) /\ call[c].pid \in Pids
    BY <1>4, CallFacts
       DEF HandsOver, kernel, Actors, MonitorFree, At, Answers, AnswerLabels
  <2>2. Answers(c, p) => Answers(Monitor, p)'
    <3>1. call'[Monitor] = MonitorUnregister(call[c].pid)
      BY <1>4, <2>1 DEF HandsOver
    <3>2. /\ call'[Monitor].pid = call[c].pid /\ call'[Monitor].op = "unregister"
          /\ call'[Monitor].at = "open"
      <4> DEFINE m == MonitorUnregister(call[c].pid)
      <4>1. m.at = "open" /\ m.op = "unregister" /\ m.pid = call[c].pid
        BY <2>1, MonitorUnregisterFrame
      <4>2. call'[Monitor] = m
        BY <3>1
      <4> HIDE DEF m
      <4> QED BY <4>1, <4>2
    <3> QED BY <3>2 DEF Answers, AnswerLabels
  <2>3. ASSUME NEW x \in Actors \ {c, Monitor}, Answers(x, p) PROVE Answers(x, p)'
    <3>1. call[x] \in Frame /\ call'[x] = [call[x] EXCEPT !.solo = FALSE]
      BY <1>1, <1>4, FrameType DEF HandsOver
    <3>2. call'[x].pid = call[x].pid /\ call'[x].op = call[x].op /\ call'[x].at = call[x].at
      BY <3>1 DEF Frame
    <3> QED BY <2>3, <3>2 DEF Answers
  <2> QED BY <2>1, <2>2, <2>3 DEF AnsweredInv
<1>5. ASSUME NEW c \in Actors, Return(c)
      PROVE  watched'[p] # "none" \/ \E x \in Actors : Answers(x, p)'
  <2>1. /\ UNCHANGED <<dirs, watched>> /\ ~Answers(c, p)
        /\ \A x \in Actors \ {c} : call'[x] = call[x]
    BY <1>1, <1>5, IdleType, SetFrame DEF Return, kernel, At, Answers, AnswerLabels
  <2> QED BY <1>2, <2>1 DEF Answers
<1>6. ASSUME NEW c \in Actors, NEW frame \in Frame, Begin(c, frame), At(c, "idle"),
             UNCHANGED dirs, watched[p] # "none" => watched'[p] # "none" \/ Answers(c, p)'
      PROVE  watched'[p] # "none" \/ \E x \in Actors : Answers(x, p)'
  <2>1. ~Answers(c, p)
    BY <1>6 DEF At, Answers, AnswerLabels
  <2>2. \A x \in Actors \ {c} : SameFrame(x)
    BY <1>1, <1>6, BeginFrames
  <2> QED BY <1>6, <2>1, <2>2 DEF Answers, SameFrame, AnsweredInv
<1>7. ASSUME NEW c \in Callers, Start(c)
      PROVE  watched'[p] # "none" \/ \E x \in Actors : Answers(x, p)'
  <2>1. c \in Actors /\ At(c, "idle") /\ UNCHANGED <<dirs, watched>> /\ Idle \in Frame
    BY <1>7, IdleType DEF Start, Actors, limit_process_bandwidth, unregister_rate_limiter_by_pid,
       ratelimit_cleanup_all, kernel
  <2>2. PICK frame \in Frame : Begin(c, frame)
    <3>1. ASSUME NEW q \in Pids, NEW config \in Configs
          PROVE  [Idle EXCEPT !.at = "create_parent", !.op = "limit", !.pid = q,
                              !.config = config] \in Frame
      BY <2>1, <3>1 DEF Frame, Labels
    <3>2. ASSUME NEW q \in Pids
          PROVE  [Idle EXCEPT !.at = "unwatch", !.op = "unregister", !.pid = q] \in Frame
      BY <2>1, <3>2 DEF Frame, Labels
    <3>3. ~ratelimit_cleanup_all(c)
      BY DEF Reliable, ratelimit_cleanup_all
    <3> QED BY <1>7, <3>1, <3>2, <3>3
            DEF Start, limit_process_bandwidth, unregister_rate_limiter_by_pid
  <2> QED BY <1>6, <2>1, <2>2
<1>8. ASSUME NEW q \in Pids, monitor_reap(q)
      PROVE  watched'[p] # "none" \/ \E x \in Actors : Answers(x, p)'
  <2> DEFINE g == MonitorUnregister(q)
  <2>1. /\ g \in Frame /\ g.at = "open" /\ g.op = "unregister" /\ g.pid = q
    BY MonitorUnregisterFrame
  <2>2. /\ Begin(Monitor, g) /\ At(Monitor, "idle") /\ UNCHANGED dirs /\ Monitor \in Actors
        /\ watched' = [watched EXCEPT ![q] = "none"]
    BY <1>8 DEF monitor_reap, MonitorFree, kernel, Actors
  <2> HIDE DEF g
  <2>3. p = q => Answers(Monitor, p)'
    BY <1>1, <2>1, <2>2, BeginFrames DEF Answers, AnswerLabels
  <2>4. p # q => watched'[p] = watched[p]
    BY <1>1, <2>2 DEF Types
  <2> QED BY <1>6, <2>1, <2>2, <2>3, <2>4
<1>9. ASSUME NEW q \in Pids, Die(q)
      PROVE  watched'[p] # "none" \/ \E x \in Actors : Answers(x, p)'
  <2>1. UNCHANGED <<dirs, call>> /\ (watched[p] # "none" => watched'[p] # "none")
    BY <1>1, <1>9 DEF Die, Types
  <2> QED BY <1>2, <2>1 DEF Answers
<1>10. ASSUME NEW q \in Pids, Spawn(q)
       PROVE  watched'[p] # "none" \/ \E x \in Actors : Answers(x, p)'
  <2>1. UNCHANGED <<dirs, watched>>
    BY <1>10 DEF Spawn
  <2>2. ASSUME NEW x \in Actors, Answers(x, p) PROVE Answers(x, p)'
    <3>1. call[x] \in Frame /\ call'[x] = [call[x] EXCEPT !.solo = @ /\ call[x].pid # q]
      BY <1>1, <1>10, FrameType DEF Spawn
    <3>2. call'[x].pid = call[x].pid /\ call'[x].op = call[x].op /\ call'[x].at = call[x].at
      BY <3>1 DEF Frame
    <3> QED BY <2>2, <3>2 DEF Answers
  <2> QED BY <1>2, <2>1, <2>2
<1>11. \A c \in Actors : ~Kill(c)
  BY DEF Reliable, Kill, MayFail
<1>12. CASE UNCHANGED vars
  BY <1>2, <1>12 DEF vars, kernel, Answers
<1> QED BY <1>3, <1>4, <1>5, <1>7, <1>8, <1>9, <1>10, <1>11, <1>12, StepEffect DEF Next

\* With a daemon that is there and cgroups that can be read, opened and
\* deleted, every cgroup that exists while no call is in progress is in the
\* daemon's table, however the calls of any number of callers interleave, meet
\* exits or fail in any other step: no limit is left that nobody will remove.
THEOREM LimitsAreWatched ==
    ASSUME Reliable
    PROVE  Spec => []NoUnwatchedLimit
<1>1. Init => AnsweredInv
  BY DEF Init, AnsweredInv
<1>2. Inv /\ AnsweredInv /\ [Next]_vars => AnsweredInv'
  BY AnsweredNext
<1>3. AnsweredInv => NoUnwatchedLimit
  BY DEF AnsweredInv, NoUnwatchedLimit, Answers, AnswerLabels, At
<1> QED BY <1>1, <1>2, <1>3, Invariance, PTL DEF Spec

-----------------------------------------------------------------------------
(***************************************************************************)
(* The abstract store.                                                     *)
(***************************************************************************)

\* A frame by its state, its operation and its result, as LimitStore has it.
LEMMA StoreCallIdle ==
    ASSUME NEW f \in Frame, f.at = "idle"
    PROVE  StoreCall(f) = Store!Idle
BY DEF StoreCall, Store!Idle, Store!Call, Store!Nothing

\* A call that has returned: what it still promises.
LEMMA StoreCallDone ==
    ASSUME NEW f \in Frame, f.at = "done"
    PROVE  StoreCall(f) = Store!Ended(IF f.solo /\ f.ret = "OK" THEN "ok" ELSE "done")
BY DEF StoreCall, Store!Ended, Store!Call, Store!Nothing

\* A call in progress: what it asks for, or nothing once it was disturbed.
LEMMA StoreCallBusy ==
    ASSUME NEW f \in Frame, f.at # "idle", f.at # "done"
    PROVE  StoreCall(f) =
             [st |-> "busy",
              scope |-> IF f.op = "clean" THEN Pids ELSE {f.pid},
              asked |-> [d \in Directions |->
                           IF f.op = "limit" /\ f.ret = "OK" THEN {f.config[d]} \ {Unlimited} ELSE {}],
              alone |-> f.solo]
BY DEF StoreCall, Frame

\* The abstract call depends on six fields of the frame.
LEMMA SameStoreCall ==
    ASSUME NEW f \in Frame, NEW g \in Frame, g.at = f.at, g.op = f.op, g.pid = f.pid,
           g.config = f.config, g.ret = f.ret, g.solo = f.solo
    PROVE  StoreCall(g) = StoreCall(f)
BY DEF StoreCall

\* What Disturbed does in each state of a call.
LEMMA DisturbedStates ==
    /\ Store!Disturbed(Store!Idle) = Store!Idle
    /\ Store!Disturbed(Store!Ended("ok")) = Store!Ended("done")
    /\ Store!Disturbed(Store!Ended("done")) = Store!Ended("done")
    /\ \A S, A, a : Store!Disturbed([st |-> "busy", scope |-> S, asked |-> A, alone |-> a])
                    = [st |-> "busy", scope |-> S, asked |-> A, alone |-> FALSE]
<1>1. Store!Disturbed(Store!Idle) = Store!Idle
  BY DEF Store!Disturbed, Store!Idle, Store!Call
<1>2. Store!Disturbed(Store!Ended("ok")) = Store!Ended("done")
  BY DEF Store!Disturbed, Store!Ended, Store!Call
<1>3. Store!Disturbed(Store!Ended("done")) = Store!Ended("done")
  BY DEF Store!Disturbed, Store!Ended, Store!Call
<1>4. ASSUME NEW S, NEW A, NEW a
      PROVE  Store!Disturbed([st |-> "busy", scope |-> S, asked |-> A, alone |-> a])
             = [st |-> "busy", scope |-> S, asked |-> A, alone |-> FALSE]
  <2> DEFINE r == [st |-> "busy", scope |-> S, asked |-> A, alone |-> a]
  <2>1. r.st = "busy"
    OBVIOUS
  <2>2. ASSUME NEW b
        PROVE  [r EXCEPT !.alone = b] = [st |-> "busy", scope |-> S, asked |-> A, alone |-> b]
    BY SMT
  <2> HIDE DEF r
  <2>3. Store!Disturbed(r) = [r EXCEPT !.alone = FALSE]
    BY <2>1 DEF Store!Disturbed
  <2> QED BY <2>2, <2>3 DEF r
<1> QED BY <1>1, <1>2, <1>3, <1>4

\* A call that is disturbed owes nothing to the abstract store either.
LEMMA DisturbedCall ==
    ASSUME NEW f \in Frame, NEW g \in Frame, g.at = f.at, g.op = f.op, g.pid = f.pid,
           g.config = f.config, g.ret = f.ret, g.solo = FALSE
    PROVE  StoreCall(g) = Store!Disturbed(StoreCall(f))
<1>1. CASE f.at = "idle"
  <2>1. StoreCall(f) = Store!Idle /\ StoreCall(g) = Store!Idle
    BY <1>1, StoreCallIdle
  <2> QED BY <2>1, DisturbedStates
<1>2. CASE f.at = "done"
  <2>1. /\ StoreCall(f) = Store!Ended(IF f.solo /\ f.ret = "OK" THEN "ok" ELSE "done")
        /\ StoreCall(g) = Store!Ended("done")
    BY <1>2, StoreCallDone
  <2> QED BY <2>1, DisturbedStates
<1>3. CASE f.at # "idle" /\ f.at # "done"
  <2> DEFINE A == [d \in Directions |->
                     IF f.op = "limit" /\ f.ret = "OK" THEN {f.config[d]} \ {Unlimited} ELSE {}]
             S == IF f.op = "clean" THEN Pids ELSE {f.pid}
  <2>1. StoreCall(f) = [st |-> "busy", scope |-> S, asked |-> A, alone |-> f.solo]
    BY <1>3, StoreCallBusy
  <2>2. StoreCall(g) = [st |-> "busy", scope |-> S, asked |-> A, alone |-> FALSE]
    BY <1>3, StoreCallBusy
  <2> HIDE DEF A, S
  <2> QED BY <2>1, <2>2, DisturbedStates
<1> QED BY <1>1, <1>2, <1>3

\* The rates in force are those of the attached links.
LEMMA RateInForce ==
    ASSUME NEW p, NEW d \in Directions, NEW k
    PROVE  k \in StoreRates(p)[d] <=> \E l \in attached : l.pid = p /\ l.dir = d /\ l.kbps = k
BY DEF StoreRates, LinksOn

-----------------------------------------------------------------------------
(***************************************************************************)
(* The step simulation.                                                    *)
(***************************************************************************)

InForce == [p \in Pids |-> StoreRates(p)]
Open == [c \in Actors |-> StoreCall(call[c])]

\* A step leaves the rates of the processes it is not about, and adds to those
\* it is about only what the call asks for.
LEMMA RatesEffect ==
    ASSUME Inv, NEW c \in Actors, LinkEffect(c), NEW p \in Pids, NEW d \in Directions
    PROVE  /\ p # call[c].pid => StoreRates(p)'[d] = StoreRates(p)[d]
           /\ \A k \in StoreRates(p)'[d] :
                \/ k \in StoreRates(p)[d]
                \/ /\ p = call[c].pid /\ call[c].op = "limit" /\ call[c].ret = "OK"
                   /\ k = call[c].config[d] /\ k # Unlimited
<1>1. Link(c).pid = call[c].pid /\ Link(c).dir = call[c].dir
      /\ Link(c).kbps = call[c].config[call[c].dir]
  BY DEF Link
<1>2. \A k : k \in StoreRates(p)'[d] <=> \E l \in attached' : l.pid = p /\ l.dir = d /\ l.kbps = k
  BY DEF StoreRates, LinksOn
<1>3. \A k : k \in StoreRates(p)[d] <=> \E l \in attached : l.pid = p /\ l.dir = d /\ l.kbps = k
  BY RateInForce
<1>4. ASSUME p # call[c].pid PROVE StoreRates(p)'[d] = StoreRates(p)[d]
  <2>1. \A l : l.pid = p => (l \in attached' <=> l \in attached)
    BY <1>1, <1>4 DEF LinkEffect
  <2> QED BY <2>1 DEF StoreRates, LinksOn
<1>5. ASSUME NEW k \in StoreRates(p)'[d], k \notin StoreRates(p)[d]
      PROVE  /\ p = call[c].pid /\ call[c].op = "limit" /\ call[c].ret = "OK"
             /\ k = call[c].config[d] /\ k # Unlimited
  <2>1. PICK l \in attached' : l.pid = p /\ l.dir = d /\ l.kbps = k
    BY <1>2
  <2>2. l \in attached' \ attached
    BY <1>3, <1>5, <2>1
  <2> QED BY <1>1, <2>1, <2>2 DEF LinkEffect
<1> QED BY <1>4, <1>5

\* What is in force after an undisturbed call that reports success.
KeptInv ==
    \A c \in Actors : call[c].at = "done" /\ call[c].solo /\ call[c].ret = "OK" =>
        /\ call[c].op = "limit" => \A d \in Directions :
              StoreRates(call[c].pid)[d] = {call[c].config[d]} \ {Unlimited}
        /\ call[c].op = "unregister" => \A d \in Directions : StoreRates(call[c].pid)[d] = {}
        /\ call[c].op = "clean" => \A p \in Pids, d \in Directions : StoreRates(p)[d] = {}

\* The invariant of RateLimitProofs gives it.
LEMMA KeptAtEnd == Inv => KeptInv
<1> SUFFICES ASSUME Inv, NEW c \in Actors, call[c].at = "done", call[c].solo, call[c].ret = "OK"
             PROVE  /\ call[c].op = "limit" => \A d \in Directions :
                          StoreRates(call[c].pid)[d] = {call[c].config[d]} \ {Unlimited}
                    /\ call[c].op = "unregister" =>
                          \A d \in Directions : StoreRates(call[c].pid)[d] = {}
                    /\ call[c].op = "clean" =>
                          \A p \in Pids, d \in Directions : StoreRates(p)[d] = {}
  BY DEF KeptInv
<1> DEFINE f == call[c]
<1>1. SoloPath(c)
  BY CallFacts
<1>2. ASSUME f.op = "limit", NEW d \in Directions
      PROVE  StoreRates(f.pid)[d] = {f.config[d]} \ {Unlimited}
  <2>1. Established(c, d)
    BY <1>1, <1>2 DEF SoloPath, LimitPath
  <2>2. LinkOf(c, d).pid = f.pid /\ LinkOf(c, d).dir = d /\ LinkOf(c, d).kbps = f.config[d]
    BY DEF LinkOf
  <2>3. CASE f.config[d] = Unlimited
    <3>1. Cleared(f.pid, d)
      BY <2>1, <2>3 DEF Established
    <3> QED BY <2>3, <3>1, RateInForce DEF Cleared
  <2>4. CASE f.config[d] # Unlimited
    <3>1. /\ LinkOf(c, d) \in attached
          /\ \A l \in attached : l.pid = f.pid /\ l.dir = d => l = LinkOf(c, d)
      BY <2>1, <2>4 DEF Established
    <3> QED BY <2>2, <2>4, <3>1, RateInForce
  <2> QED BY <2>3, <2>4
<1>3. ASSUME f.op = "unregister", NEW d \in Directions
      PROVE  StoreRates(f.pid)[d] = {}
  <2>1. Cleared(f.pid, d)
    BY <1>1, <1>3 DEF SoloPath, UnregisterPath
  <2> QED BY <2>1, RateInForce DEF Cleared
<1>4. ASSUME f.op = "clean", NEW p \in Pids, NEW d \in Directions
      PROVE  StoreRates(p)[d] = {}
  <2>1. attached = {}
    BY <1>1, <1>4 DEF SoloPath, CleanPath, Inv, Types
  <2> QED BY <2>1, RateInForce
<1> QED BY <1>2, <1>3, <1>4

\* A step of a call is a Work step of the store.
LEMMA WorkStep ==
    ASSUME Inv, Inv', KeptInv', NEW c \in Actors, Working(c), Effect(c)
    PROVE  Store!Work(c)
<1> DEFINE f == call[c]
           g == call'[c]
           A == [d \in Directions |->
                   IF f.op = "limit" /\ f.ret = "OK" THEN {f.config[d]} \ {Unlimited} ELSE {}]
           S == IF f.op = "clean" THEN Pids ELSE {f.pid}
<1>1. /\ f \in Frame /\ g \in Frame /\ f.at # "idle" /\ f.at # "done" /\ f.op # "none"
      /\ f.pid \in Pids /\ f.op \in {"none", "limit", "unregister", "clean"}
  BY FrameType, CallFacts DEF Inv, Types, Working, At, ControlOf, OpenLabels
<1>2. StoreCall(f) = [st |-> "busy", scope |-> S, asked |-> A, alone |-> f.solo]
  BY <1>1, StoreCallBusy
<1>3. /\ g.op = f.op /\ g.config = f.config /\ g.solo = f.solo /\ (g.pid = f.pid \/ f.op = "clean")
      /\ g.at # "idle"
      /\ g.ret # f.ret => f.ret = "OK" /\ (f.op = "limit" \/ g.at = "done")
  BY DEF Effect, CallEffect
<1>4. \A p \in Pids : IF p \in S
                      THEN \A d \in Directions : StoreRates(p)'[d] \subseteq StoreRates(p)[d] \cup A[d]
                      ELSE StoreRates(p)' = StoreRates(p)
  <2> SUFFICES ASSUME NEW p \in Pids
               PROVE  /\ p \in S => \A d \in Directions :
                                       StoreRates(p)'[d] \subseteq StoreRates(p)[d] \cup A[d]
                      /\ p \notin S => StoreRates(p)' = StoreRates(p)
    OBVIOUS
  <2>1. ASSUME NEW d \in Directions PROVE StoreRates(p)'[d] \subseteq StoreRates(p)[d] \cup A[d]
    BY RatesEffect DEF Effect
  <2>2. ASSUME p \notin S PROVE StoreRates(p)' = StoreRates(p)
    <3>1. p # f.pid
      BY <2>2
    <3>2. \A d \in Directions : StoreRates(p)'[d] = StoreRates(p)[d]
      BY <3>1, RatesEffect DEF Effect
    <3> QED BY <3>2 DEF StoreRates
  <2> QED BY <2>1, <2>2
<1>5. \A x \in Actors \ {c} : StoreCall(call'[x]) = StoreCall(call[x])
  <2> SUFFICES ASSUME NEW x \in Actors \ {c} PROVE StoreCall(call'[x]) = StoreCall(call[x])
    OBVIOUS
  <2>1. call[x] \in Frame /\ call'[x] \in Frame
    BY DEF Inv, Types
  <2> QED BY <2>1, SameStoreCall DEF Effect, CallEffect, SameCall
<1>6. \/ StoreCall(g) \in {StoreCall(f), [StoreCall(f) EXCEPT !.asked = Store!Nothing],
                           Store!Ended("done")}
      \/ /\ StoreCall(g) = Store!Ended("ok") /\ f.solo
         /\ \A p \in S : StoreRates(p)' = A
  <2>1. CASE g.at = "done" /\ ~(g.solo /\ g.ret = "OK")
    BY <1>1, <2>1, StoreCallDone
  <2>2. CASE g.at = "done" /\ g.solo /\ g.ret = "OK"
    <3>1. StoreCall(g) = Store!Ended("ok")
      BY <1>1, <2>2, StoreCallDone
    <3>2. f.ret = "OK" /\ f.solo
      BY <1>3, <2>2
    <3>3. ASSUME NEW p \in S, NEW d \in Directions PROVE StoreRates(p)'[d] = A[d]
      <4>1. /\ g.op = "limit" => \A e \in Directions :
                 StoreRates(call[c].pid)'[e] = {g.config[e]} \ {Unlimited}
            /\ g.op = "unregister" => \A e \in Directions : StoreRates(call[c].pid)'[e] = {}
            /\ g.op = "clean" => \A q \in Pids, e \in Directions : StoreRates(q)'[e] = {}
        BY <2>2 DEF KeptInv
      <4>2. CASE f.op = "clean"
        <5>1. p \in Pids /\ A[d] = {} /\ g.op = "clean"
          BY <1>3, <3>3, <4>2
        <5> QED BY <3>3, <4>1, <5>1
      <4>3. CASE f.op # "clean"
        <5>1. p = f.pid /\ g.pid = f.pid /\ g.op = f.op /\ g.config = f.config
          BY <1>3, <3>3, <4>3
        <5>2. A[d] = IF f.op = "limit" THEN {f.config[d]} \ {Unlimited} ELSE {}
          BY <3>2, <3>3
        <5>3. StoreRates(p)' = StoreRates(call[c].pid)'
          BY <5>1 DEF StoreRates, LinksOn
        <5> HIDE DEF A, S
        <5>4. f.op = "limit" \/ f.op = "unregister"
          BY <1>1, <4>3
        <5> QED BY <3>3, <4>1, <5>1, <5>2, <5>3, <5>4
      <4> QED BY <4>2, <4>3
    <3>4. \A p \in S : StoreRates(p)' = A
      BY <3>3 DEF StoreRates
    <3> QED BY <3>1, <3>2, <3>4
  <2>3. CASE g.at # "done" /\ g.ret = f.ret
    <3>1. StoreCall(g) = [st |-> "busy", scope |-> S, asked |-> A, alone |-> f.solo]
      BY <1>1, <1>3, <2>3, StoreCallBusy
    <3> QED BY <1>2, <3>1
  <2>4. CASE g.at # "done" /\ g.ret # f.ret
    <3>1. f.op = "limit" /\ f.ret = "OK" /\ g.ret # "OK"
      BY <1>3, <2>4
    <3>2. StoreCall(g) = [st |-> "busy", scope |-> S, asked |-> Store!Nothing, alone |-> f.solo]
      BY <1>1, <1>3, <2>4, <3>1, StoreCallBusy DEF Store!Nothing
    <3>3. ASSUME NEW N
          PROVE  [StoreCall(f) EXCEPT !.asked = N]
                 = [st |-> "busy", scope |-> S, asked |-> N, alone |-> f.solo]
      <4> HIDE DEF A, S
      <4> QED BY <1>2, SMT
    <3> QED BY <3>2, <3>3
  <2> QED BY <2>1, <2>2, <2>3, <2>4
<1> HIDE DEF A, S
<1>7. /\ StoreCall(f).st = "busy" /\ StoreCall(f).scope = S /\ StoreCall(f).asked = A
      /\ StoreCall(f).alone = f.solo
  BY <1>2
<1>8. Store!Busy(c)
  BY <1>7 DEF Store!Busy
<1>9. \A p \in Pids : IF p \in Open[c].scope
                      THEN \A d \in Directions : InForce'[p][d] \subseteq InForce[p][d] \cup Open[c].asked[d]
                      ELSE InForce'[p] = InForce[p]
  BY <1>4, <1>7 DEF InForce, Open
<1>10. \/ Open'[c] \in {Open[c], [Open[c] EXCEPT !.asked = Store!Nothing], Store!Ended("done"),
                        Store!Idle}
       \/ Open'[c] = Store!Ended("ok") /\ Open[c].alone /\ \A p \in Open[c].scope : InForce'[p] = Open[c].asked
  <2>1. S \subseteq Pids
    BY <1>1 DEF S
  <2> QED BY <1>6, <1>7, <2>1 DEF InForce, Open
<1>11. \A x \in Actors \ {c} : Open'[x] = Open[x]
  BY <1>5 DEF Open
<1> QED BY <1>8, <1>9, <1>10, <1>11 DEF Store!Work, Store!Kept, InForce, Open

\* Whether a call is in progress shows in the store.
LEMMA BusyCall ==
    ASSUME Types, NEW x \in Actors
    PROVE  Store!Busy(x) <=> Working(x)
<1>1. call[x] \in Frame
  BY FrameType
<1>2. CASE call[x].at = "idle"
  BY <1>1, <1>2, StoreCallIdle DEF Store!Busy, Store!Idle, Store!Call, Working, At
<1>3. CASE call[x].at = "done"
  BY <1>1, <1>3, StoreCallDone DEF Store!Busy, Store!Ended, Store!Call, Working, At
<1>4. CASE call[x].at # "idle" /\ call[x].at # "done"
  BY <1>1, <1>4, StoreCallBusy DEF Store!Busy, Working, At
<1> QED BY <1>2, <1>3, <1>4

\* A call that begins is alone when no other is in progress.
LEMMA EnterStep ==
    ASSUME Types, NEW c \in Actors, NEW frame \in Frame, At(c, "idle"), Begin(c, frame),
           UNCHANGED attached
    PROVE  /\ Store!Enter(c, Open'[c])
           /\ Store!Alone(c) <=> call'[c].solo
           /\ call'[c] \in Frame /\ call'[c].at = frame.at
           /\ call'[c].op = frame.op /\ call'[c].ret = frame.ret
<1>1. /\ call' \in [Actors -> Frame]
      /\ call'[c].at = frame.at /\ call'[c].op = frame.op /\ call'[c].ret = frame.ret
      /\ call'[c].solo <=> \A y \in Actors \ {c} : At(y, "idle") \/ At(y, "done")
      /\ \A x \in Actors \ {c} : SameFrame(x) /\ call'[x].solo = FALSE
  BY BeginFrames
<1>2. Store!Alone(c) <=> call'[c].solo
  <2>1. \A x \in Actors \ {c} : ~Store!Busy(x) <=> At(x, "idle") \/ At(x, "done")
    BY BusyCall DEF Working
  <2> QED BY <1>1, <2>1 DEF Store!Alone
<1>3. \A x \in Actors \ {c} : StoreCall(call'[x]) = Store!Disturbed(StoreCall(call[x]))
  <2> SUFFICES ASSUME NEW x \in Actors \ {c}
               PROVE  StoreCall(call'[x]) = Store!Disturbed(StoreCall(call[x]))
    OBVIOUS
  <2>1. call[x] \in Frame /\ call'[x] \in Frame
    BY <1>1, FrameType
  <2> QED BY <1>1, <2>1, DisturbedCall DEF SameFrame
<1>4. Open[c].st = "idle"
  <2>1. StoreCall(call[c]) = Store!Idle
    BY FrameType, StoreCallIdle DEF At
  <2> QED BY <2>1 DEF Open, Store!Idle, Store!Call
<1>5. Open' = [x \in Actors |-> IF x = c THEN Open'[c] ELSE Store!Disturbed(Open[x])]
  BY <1>3 DEF Open
<1>6. InForce' = InForce
  BY DEF InForce, StoreRates, LinksOn
<1>7. Store!Enter(c, Open'[c])
  BY <1>4, <1>5, <1>6 DEF Store!Enter, Open, InForce
<1> QED BY <1>1, <1>2, <1>7

\* A call that begins is a Begin step of the store.
LEMMA BeginStep ==
    ASSUME Types, NEW c \in Actors, NEW frame \in Frame, At(c, "idle"), Begin(c, frame),
           UNCHANGED attached, frame.at # "idle", frame.at # "done"
    PROVE  Store!Begin(c, Open'[c])
<1>1. /\ Store!Enter(c, Open'[c])
      /\ Store!Alone(c) <=> call'[c].solo
      /\ call'[c] \in Frame /\ call'[c].at = frame.at
  BY EnterStep
<1>2. Open'[c].st = "busy" /\ Open'[c].alone = call'[c].solo
  <2>1. StoreCall(call'[c]).st = "busy" /\ StoreCall(call'[c]).alone = call'[c].solo
    BY <1>1, StoreCallBusy
  <2> QED BY <2>1 DEF Open
<1>3. call'[c].solo \in BOOLEAN /\ Store!Alone(c) \in BOOLEAN
  BY <1>1 DEF Frame, Store!Alone
<1>4. Open'[c].alone = Store!Alone(c)
  BY <1>1, <1>2, <1>3
<1> QED BY <1>1, <1>2, <1>4 DEF Store!Begin

\* A cleanup that finds no parent cgroup, or cannot read it, is a Skip step of
\* the store.
LEMMA SkipStep ==
    ASSUME Inv, NEW c \in Actors, NEW frame \in Frame, At(c, "idle"), Begin(c, frame),
           UNCHANGED attached, frame.at = "done", (frame.ret = "OK" /\ ~parent) \/ frame.ret # "OK"
    PROVE  Store!Skip(c)
<1>1. /\ Store!Enter(c, Open'[c])
      /\ Store!Alone(c) <=> call'[c].solo
      /\ call'[c] \in Frame /\ call'[c].at = "done" /\ call'[c].ret = frame.ret
  BY EnterStep DEF Inv
<1>2. Open'[c] = Store!Ended(IF call'[c].solo /\ call'[c].ret = "OK" THEN "ok" ELSE "done")
  BY <1>1, StoreCallDone DEF Open
<1>3. CASE call'[c].solo /\ call'[c].ret = "OK"
  <2>1. Store!Enter(c, Store!Ended("ok")) /\ Store!Alone(c)
    BY <1>1, <1>2, <1>3
  <2>2. attached = {}
    BY <1>1, <1>3 DEF Inv, Types
  <2>3. \A p \in Pids : InForce[p] = Store!Nothing
    BY <2>2 DEF InForce, StoreRates, LinksOn, Store!Nothing
  <2> QED BY <2>1, <2>3 DEF Store!Skip, InForce
<1>4. CASE ~(call'[c].solo /\ call'[c].ret = "OK")
  <2>1. Store!Enter(c, Store!Ended("done"))
    BY <1>1, <1>2, <1>4
  <2> QED BY <2>1 DEF Store!Skip
<1> QED BY <1>3, <1>4

\* The operations that callers begin.
LEMMA StartStep ==
    ASSUME Inv, NEW c \in Callers, Start(c)
    PROVE  Store!Begin(c, Open'[c]) \/ Store!Skip(c)
<1>1. /\ c \in Actors /\ Types /\ Idle \in Frame /\ At(c, "idle") /\ UNCHANGED attached
      /\ Idle.ret = "OK"
  BY IdleType DEF Actors, Inv, Start, limit_process_bandwidth, unregister_rate_limiter_by_pid,
     ratelimit_cleanup_all, kernel, Idle
<1>2. ASSUME NEW p \in Pids, NEW config \in Configs, limit_process_bandwidth(c, p, config)
      PROVE  Store!Begin(c, Open'[c])
  <2> DEFINE g == [Idle EXCEPT !.at = "create_parent", !.op = "limit", !.pid = p, !.config = config]
  <2>1. g \in Frame /\ g.at = "create_parent"
    BY <1>1, <1>2 DEF Frame, Labels
  <2>2. Begin(c, g)
    BY <1>2 DEF limit_process_bandwidth
  <2> HIDE DEF g
  <2> QED BY <1>1, <2>1, <2>2, BeginStep
<1>3. ASSUME NEW p \in Pids, unregister_rate_limiter_by_pid(c, p)
      PROVE  Store!Begin(c, Open'[c])
  <2> DEFINE g == [Idle EXCEPT !.at = "unwatch", !.op = "unregister", !.pid = p]
  <2>1. g \in Frame /\ g.at = "unwatch"
    BY <1>1, <1>3 DEF Frame, Labels
  <2>2. Begin(c, g)
    BY <1>3 DEF unregister_rate_limiter_by_pid
  <2> HIDE DEF g
  <2> QED BY <1>1, <2>1, <2>2, BeginStep
<1>4. CASE ratelimit_cleanup_all(c)
  <2> DEFINE begun == [Idle EXCEPT !.op = "clean"]
  <2>1. begun \in Frame /\ begun.ret = "OK"
    BY <1>1 DEF Frame
  <2>2. \/ Begin(c, [begun EXCEPT !.at = "walk"])
        \/ ~parent /\ Begin(c, [begun EXCEPT !.at = "done"])
        \/ Begin(c, [begun EXCEPT !.at = "done", !.ret = "OK_UNREAD"])
    BY <1>4 DEF ratelimit_cleanup_all
  <2> HIDE DEF begun
  <2>3. ASSUME NEW g \in Frame, Begin(c, g), g.at = "walk" PROVE Store!Begin(c, Open'[c])
    BY <1>1, <2>3, BeginStep
  <2>4. ASSUME NEW g \in Frame, Begin(c, g), g.at = "done",
               (g.ret = "OK" /\ ~parent) \/ g.ret # "OK"
        PROVE  Store!Skip(c)
    BY <1>1, <2>4, SkipStep
  <2>5. /\ [begun EXCEPT !.at = "walk"] \in Frame /\ [begun EXCEPT !.at = "walk"].at = "walk"
        /\ [begun EXCEPT !.at = "done"] \in Frame /\ [begun EXCEPT !.at = "done"].at = "done"
        /\ [begun EXCEPT !.at = "done"].ret = "OK"
    BY <2>1 DEF Frame, Labels
  <2>6. /\ [begun EXCEPT !.at = "done", !.ret = "OK_UNREAD"] \in Frame
        /\ [begun EXCEPT !.at = "done", !.ret = "OK_UNREAD"].at = "done"
        /\ [begun EXCEPT !.at = "done", !.ret = "OK_UNREAD"].ret = "OK_UNREAD"
    BY <2>1 DEF Frame, Labels, Codes
  <2> QED BY <2>2, <2>3, <2>4, <2>5, <2>6
<1> QED BY <1>2, <1>3, <1>4 DEF Start

\* The daemon's reap begins its unregister.
LEMMA ReapStep ==
    ASSUME Inv, NEW p \in Pids, monitor_reap(p)
    PROVE  Store!Begin(Monitor, Open'[Monitor])
<1> DEFINE g == MonitorUnregister(p)
<1>1. g \in Frame /\ g.at = "open"
  BY MonitorUnregisterFrame
<1>2. Begin(Monitor, g) /\ At(Monitor, "idle") /\ UNCHANGED attached /\ Monitor \in Actors /\ Types
  BY DEF monitor_reap, MonitorFree, kernel, Actors, Inv
<1> HIDE DEF g
<1> QED BY <1>1, <1>2, BeginStep

\* An actor leaves the library with its result, or is killed.
LEMMA LeaveStep ==
    ASSUME Inv, NEW c \in Actors, Set(c, Idle),
           attached' = IF At(c, "pin") THEN attached \ {Link(c)} ELSE attached
    PROVE  Store!Work(c) \/ Store!Return(c) \/ (InForce' = InForce /\ Open' = Open)
<1> DEFINE f == call[c]
<1>1. /\ Types /\ f \in Frame /\ Idle \in Frame /\ Idle.at = "idle" /\ f.pid \in Pids
  BY IdleType, FrameType DEF Inv, Idle
<1>2. call' \in [Actors -> Frame] /\ call'[c] = Idle /\ \A x \in Actors \ {c} : call'[x] = call[x]
  BY <1>1, SetFrame
<1>3. Open'[c] = Store!Idle /\ \A x \in Actors \ {c} : Open'[x] = Open[x]
  BY <1>1, <1>2, StoreCallIdle DEF Open
<1>4. Open' = [Open EXCEPT ![c] = Store!Idle]
  BY <1>3 DEF Open
<1>5. CASE Working(c)
  <2>1. LinkEffect(c)
    BY DEF LinkEffect, Link
  <2>2. /\ Open[c].st = "busy" /\ Open[c].scope = IF f.op = "clean" THEN Pids ELSE {f.pid}
        /\ \A d \in Directions : f.op = "limit" /\ f.ret = "OK" =>
              Open[c].asked[d] = {f.config[d]} \ {Unlimited}
    <3>1. f.at # "idle" /\ f.at # "done"
      BY <1>5 DEF Working, At
    <3>2. StoreCall(f) =
             [st |-> "busy",
              scope |-> IF f.op = "clean" THEN Pids ELSE {f.pid},
              asked |-> [d \in Directions |->
                           IF f.op = "limit" /\ f.ret = "OK" THEN {f.config[d]} \ {Unlimited} ELSE {}],
              alone |-> f.solo]
      BY <1>1, <3>1, StoreCallBusy
    <3> QED BY <3>2 DEF Open
  <2>3. ASSUME NEW p \in Pids
        PROVE  IF p \in Open[c].scope
               THEN \A d \in Directions : InForce'[p][d] \subseteq InForce[p][d] \cup Open[c].asked[d]
               ELSE InForce'[p] = InForce[p]
    <3>1. \A d \in Directions : InForce'[p][d] \subseteq InForce[p][d] \cup Open[c].asked[d]
      BY <2>1, <2>2, RatesEffect DEF InForce
    <3>2. ASSUME p # f.pid PROVE InForce'[p] = InForce[p]
      <4>1. \A d \in Directions : StoreRates(p)'[d] = StoreRates(p)[d]
        BY <2>1, <3>2, RatesEffect
      <4>2. StoreRates(p)' = StoreRates(p)
        BY <4>1 DEF StoreRates
      <4> QED BY <4>2 DEF InForce
    <3>3. p \notin Open[c].scope => p # f.pid
      BY <2>2
    <3> QED BY <3>1, <3>2, <3>3
  <2>4. Store!Busy(c)
    BY <1>1, <1>5, BusyCall
  <2> QED BY <1>3, <2>3, <2>4 DEF Store!Work, InForce, Open
<1>6. CASE ~Working(c)
  <2>1. ~At(c, "pin")
    BY <1>6 DEF Working, At
  <2>2. InForce' = InForce
    BY <2>1 DEF InForce, StoreRates, LinksOn
  <2>3. CASE f.at = "idle"
    <3>1. Open[c] = Store!Idle
      BY <1>1, <2>3, StoreCallIdle DEF Open
    <3>2. Open' = Open
      BY <1>3, <3>1 DEF Open
    <3> QED BY <2>2, <3>2
  <2>4. CASE f.at = "done"
    <3>1. Open[c].st \in {"ok", "done"}
      BY <1>1, <2>4, StoreCallDone DEF Open, Store!Ended, Store!Call
    <3> QED BY <1>4, <2>2, <3>1 DEF Store!Return, InForce, Open
  <2> QED BY <1>6, <2>3, <2>4 DEF Working, At
<1> QED BY <1>5, <1>6

\* A call that ends by handing its process to the daemon.
LEMMA HandOverStep ==
    ASSUME Inv, NEW c \in Actors, HandsOver(c)
    PROVE  Monitor \in Actors /\ c # Monitor /\ Store!HandOver(c, Monitor, Open'[Monitor])
<1> DEFINE f == call[c]
           g == [f EXCEPT !.at = "done"]
           h == [g EXCEPT !.solo = FALSE]
           m == MonitorUnregister(f.pid)
<1>1. /\ Types /\ f \in Frame /\ f.pid \in Pids /\ f.at = "watch" /\ Monitor \in Actors
      /\ call[Monitor].at = "idle" /\ call[Monitor] \in Frame /\ UNCHANGED attached
  BY FrameType DEF Inv, HandsOver, At, MonitorFree, Actors, kernel
<1>2. c # Monitor
  BY <1>1
<1>3. h \in Frame /\ h.at = "done" /\ h.solo = FALSE
  <2>1. g \in Frame /\ g.at = "done"
    BY <1>1 DEF Frame, Labels
  <2> HIDE DEF g
  <2> QED BY <2>1 DEF Frame
<1>4. m \in Frame /\ m.at = "open" /\ m.solo = FALSE
  BY <1>1, MonitorUnregisterFrame
<1>5. call'[c] = h /\ call'[Monitor] = m
  BY <1>1, <1>2 DEF HandsOver
<1>6. \A x \in Actors \ {c, Monitor} : call'[x] = [call[x] EXCEPT !.solo = FALSE]
  BY DEF HandsOver
<1> HIDE DEF h, m
<1>7. Store!Busy(c)
  BY <1>1, BusyCall DEF Working, At
<1>8. Open[Monitor].st = "idle"
  <2>1. StoreCall(call[Monitor]) = Store!Idle
    BY <1>1, StoreCallIdle
  <2> QED BY <1>1, <2>1 DEF Open, Store!Idle, Store!Call
<1>9. Open'[Monitor].st = "busy" /\ ~Open'[Monitor].alone
  <2>1. StoreCall(m).st = "busy" /\ StoreCall(m).alone = FALSE
    BY <1>4, StoreCallBusy
  <2> QED BY <1>1, <1>5, <2>1 DEF Open
<1>10. Open'[c] = Store!Ended("done")
  <2>1. StoreCall(h) = Store!Ended("done")
    BY <1>3, StoreCallDone
  <2> QED BY <1>5, <2>1 DEF Open
<1>11. ASSUME NEW x \in Actors \ {c, Monitor}
       PROVE  Open'[x] = Store!Disturbed(Open[x])
  <2>1. call[x] \in Frame /\ call'[x] = [call[x] EXCEPT !.solo = FALSE]
    BY <1>1, <1>6, FrameType
  <2>2. /\ call'[x] \in Frame /\ SameFrame(x) /\ call'[x].solo = FALSE
    BY <2>1 DEF Frame, SameFrame
  <2>3. StoreCall(call'[x]) = Store!Disturbed(StoreCall(call[x]))
    BY <2>1, <2>2, DisturbedCall DEF SameFrame
  <2> QED BY <2>3 DEF Open
<1>12. Open' = [x \in Actors |-> CASE x = c -> Store!Ended("done") [] x = Monitor -> Open'[Monitor]
                                   [] OTHER -> Store!Disturbed(Open[x])]
  <2>1. ASSUME NEW x \in Actors
        PROVE  Open'[x] = CASE x = c -> Store!Ended("done") [] x = Monitor -> Open'[Monitor]
                            [] OTHER -> Store!Disturbed(Open[x])
    BY <1>2, <1>10, <1>11
  <2>2. Open' = [x \in Actors |-> Open'[x]]
    BY DEF Open
  <2> QED BY <2>1, <2>2
<1>13. InForce' = InForce
  BY <1>1 DEF InForce, StoreRates, LinksOn
<1>14. Store!HandOver(c, Monitor, Open'[Monitor])
  BY <1>7, <1>8, <1>9, <1>12, <1>13 DEF Store!HandOver, Open, InForce
<1> QED BY <1>1, <1>2, <1>14

\* A pid that changes hands disturbs the calls on it.
LEMMA SpawnStep ==
    ASSUME Inv, NEW p \in Pids, Spawn(p)
    PROVE  Store!Disturb
<1>1. InForce' = InForce
  BY DEF Spawn, InForce, StoreRates, LinksOn
<1>2. ASSUME NEW x \in Actors PROVE Open'[x] \in {Open[x], Store!Disturbed(Open[x])}
  <2> DEFINE solo == call[x].solo /\ call[x].pid # p
  <2>1. call[x] \in Frame /\ call[x].solo \in BOOLEAN
    BY FrameType DEF Inv
  <2>2. solo \in BOOLEAN
    OBVIOUS
  <2>3. call'[x] = [call[x] EXCEPT !.solo = solo]
    BY DEF Spawn
  <2>4. solo = call[x].solo \/ solo = FALSE
    BY <2>1
  <2> HIDE DEF solo
  <2>5. call'[x] \in Frame /\ SameFrame(x) /\ call'[x].solo = solo
    BY <2>1, <2>2, <2>3 DEF Frame, SameFrame
  <2>6. StoreCall(call'[x]) \in {StoreCall(call[x]), Store!Disturbed(StoreCall(call[x]))}
    BY <2>1, <2>4, <2>5, SameStoreCall, DisturbedCall DEF SameFrame
  <2> QED BY <2>6 DEF Open
<1> QED BY <1>1, <1>2 DEF Store!Disturb, Open, InForce

\* Every step of the library is a step of the store or none.
LEMMA StoreSimulation ==
    Inv /\ Inv' /\ KeptInv' /\ [Next]_vars => [Store!Next]_(Store!vars)
<1> SUFFICES ASSUME Inv, Inv', KeptInv', [Next]_vars
             PROVE  Store!Next \/ (InForce' = InForce /\ Open' = Open)
  BY DEF Store!vars, InForce, Open
<1>1. ASSUME NEW c \in Actors, Working(c), Effect(c) PROVE Store!Next
  BY <1>1, WorkStep DEF Store!Next
<1>2. ASSUME NEW c \in Actors, HandsOver(c) PROVE Store!Next
  <2>1. Monitor \in Actors /\ c # Monitor /\ Store!HandOver(c, Monitor, Open'[Monitor])
    BY <1>2, HandOverStep
  <2> QED BY <2>1 DEF Store!Next, Open
<1>3. ASSUME NEW c \in Actors, Return(c) \/ Kill(c)
      PROVE  Store!Next \/ (InForce' = InForce /\ Open' = Open)
  <2>1. Set(c, Idle) /\ attached' = IF At(c, "pin") THEN attached \ {Link(c)} ELSE attached
    BY <1>3 DEF Return, Kill, kernel, At
  <2> QED BY <2>1, LeaveStep DEF Store!Next
<1>4. ASSUME NEW c \in Callers, Start(c) PROVE Store!Next
  BY <1>4, StartStep DEF Store!Next, Actors, Open
<1>5. ASSUME NEW p \in Pids, monitor_reap(p) PROVE Store!Next
  <2>1. Monitor \in Actors
    BY DEF Actors
  <2> QED BY <1>5, <2>1, ReapStep DEF Store!Next, Open
<1>6. ASSUME NEW p \in Pids, Die(p) PROVE InForce' = InForce /\ Open' = Open
  BY <1>6 DEF Die, InForce, StoreRates, LinksOn, Open
<1>7. ASSUME NEW p \in Pids, Spawn(p) PROVE Store!Next
  BY <1>7, SpawnStep DEF Store!Next
<1>8. CASE UNCHANGED vars
  BY <1>8 DEF vars, kernel, InForce, StoreRates, LinksOn, Open
<1> QED BY <1>1, <1>2, <1>3, <1>4, <1>5, <1>6, <1>7, <1>8, StepEffect DEF Next

\* The library of ratelimit.c implements LimitStore, whatever calls
\* interleave, fail or are killed: a rate comes into force only through an
\* open call that asks for it, goes only through an open call on its
\* process, and an undisturbed call that succeeds leaves what it asked for.
THEOREM Implementation == Spec => ImplementsStore
<1>1. Init => Store!Init
  <2> SUFFICES ASSUME Init PROVE Store!Init
    OBVIOUS
  <2>1. InForce = [p \in Pids |-> Store!Nothing]
    BY DEF Init, InForce, StoreRates, LinksOn, Store!Nothing
  <2>2. StoreCall(Idle) = Store!Idle
    BY IdleType, StoreCallIdle DEF Idle
  <2>3. Open = [c \in Actors |-> Store!Idle]
    BY <2>2 DEF Init, Open
  <2> QED BY <2>1, <2>3 DEF Store!Init, InForce, Open
<1>2. Spec => []KeptInv
  BY Invariance, KeptAtEnd, PTL
<1> QED BY <1>1, <1>2, Invariance, StoreSimulation, PTL DEF Spec, ImplementsStore, Store!Spec

=============================================================================
