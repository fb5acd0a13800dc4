-------------------------- MODULE RateLimitProofs --------------------------
(***************************************************************************)
(* Proofs about RateLimit, for any number of callers and processes, any    *)
(* configurations and any set of failing calls: its types, that no link is *)
(* out of reach of detach_pinned_links, and what an undisturbed call       *)
(* leaves behind.  RateLimitRefinement builds on the invariant found here. *)
(***************************************************************************)
EXTENDS RateLimit, FiniteSetTheorems, TLAPS

-----------------------------------------------------------------------------
(***************************************************************************)
(* The inductive invariant.                                                *)
(***************************************************************************)

\* What the operation, the result and the descriptor of a call are at each
\* step of it.
ControlOf(frame) ==
    /\ frame.at = "idle" <=> frame.op = "none"
    /\ frame.at \in {"create_parent", "create_child", "attach_task", "create_pin_dir", "load",
                     "attach", "pin", "watch"}
          => frame.op = "limit" /\ frame.ret = "OK"
    /\ frame.at = "unwatch" => frame.op = "unregister"
    /\ frame.at \in {"walk", "next", "delete_parent", "stop"} => frame.op = "clean"
    /\ frame.at = "open" => frame.ret = "OK"
    /\ frame.at = "delete" => (frame.op = "limit" <=> frame.ret # "OK")
    /\ frame.op # "limit" /\ frame.at # "done" => frame.ret = "OK"
    /\ frame.fd # "none" => frame.op = "limit" /\ frame.at \in OpenLabels
    /\ frame.at = "pin" => frame.config[frame.dir] # Unlimited
    /\ frame.op \in Ops \cup {"none", "unregister"}

Control == \A c \in Actors : ControlOf(call[c])

\* The kernel's objects: a descriptor that is not stale is on a cgroup that
\* exists, pin directories are on a bpffs, a process in pidnl's tree has the
\* tree, and no link is made for an unlimited direction.
KernelInv ==
    /\ \A c \in Actors : call[c].fd = "open" => call[c].pid \in dirs
    /\ pindirs # {} => bpffs
    /\ \A p \in Pids : member[p] # "outside" => parent
    /\ \A l \in attached : l.kbps # Unlimited

\* A call that nobody disturbed has the library to itself.
Exclusive ==
    \A c \in Actors : call[c].solo =>
        \A x \in Actors \ {c} : At(x, "idle") \/ At(x, "done")

\* Nothing is left of a limit in one direction.
Cleared(p, d) == \A l \in attached \cup pinned : l.pid = p => l.dir # d

\* The call's own limit, and no other, is in force in one direction.
LinkOf(c, d) == [pid |-> call[c].pid, dir |-> d, kbps |-> call[c].config[d], by |-> c]
Established(c, d) ==
    IF call[c].config[d] = Unlimited THEN Cleared(call[c].pid, d)
    ELSE /\ LinkOf(c, d) \in attached \cap pinned
         /\ \A l \in attached \cup pinned : l.pid = call[c].pid /\ l.dir = d => l = LinkOf(c, d)

\* The call's own link, and no other, is attached in the direction at hand,
\* and nothing is pinned there.
Attached(c) ==
    LET f == call[c]
    IN  /\ LinkOf(c, f.dir) \in attached
        /\ \A l \in attached : l.pid = f.pid /\ l.dir = f.dir => l = LinkOf(c, f.dir)
        /\ \A l \in pinned : l.pid = f.pid => l.dir # f.dir

\* How far an undisturbed limit_process_bandwidth has come.
LimitPath(c) ==
    LET f == call[c]
    IN  f.op = "limit" /\ f.ret = "OK" =>
          /\ f.at \notin {"create_parent", "create_child"} => f.pid \in dirs
          /\ f.at \notin {"create_parent", "create_child", "attach_task"} =>
                (f.pid \in alive => member[f.pid] = "child")
          /\ f.at = "attach" /\ f.dir = "egress" => \A d \in Directions : Cleared(f.pid, d)
          /\ f.at = "attach" /\ f.dir = "ingress" =>
                Established(c, "egress") /\ Cleared(f.pid, "ingress")
          /\ f.at = "pin" =>
                /\ Attached(c)
                /\ f.dir = "egress" => Cleared(f.pid, "ingress")
                /\ f.dir = "ingress" => Established(c, "egress")
          /\ f.at \in {"watch", "done"} => \A d \in Directions : Established(c, d)
          /\ f.at = "done" => watched[f.pid] # "none" \/ MayFail("MONITOR") \/ MayFail("KILLED")

\* How far the detach loop of an undisturbed call has come.
DetachPath(c) ==
    LET f == call[c]
    IN  /\ f.at \in {"detach", "unlink"} /\ f.dir = "ingress" => Cleared(f.pid, "egress")
        /\ f.at \in {"rmdir", "create_pin_dir", "load"} => \A d \in Directions : Cleared(f.pid, d)

\* How far an undisturbed unregister_rate_limiter_by_pid has come.
UnregisterPath(c) ==
    LET f == call[c]
    IN  f.op = "unregister" =>
          /\ f.at # "unwatch" => watched[f.pid] = "none" \/ MayFail("MONITOR")
          /\ f.at = "delete" => \A d \in Directions : Cleared(f.pid, d)
          /\ f.at = "done" /\ f.ret = "OK" =>
                /\ \A d \in Directions : Cleared(f.pid, d)
                /\ f.pid \notin dirs \/ MayFail("LIBCG_DELETE")

\* Where an undisturbed ratelimit_cleanup_all has removed the parent cgroup.
CleanPath(c) ==
    LET f == call[c]
    IN  f.op = "clean" /\ f.ret = "OK" /\ f.at \in {"stop", "done"} => ~parent

SoloPath(c) == LimitPath(c) /\ DetachPath(c) /\ UnregisterPath(c) /\ CleanPath(c)

SoloInv == \A c \in Actors : call[c].solo => SoloPath(c)

Inv == Types /\ Control /\ KernelInv /\ PinnedOrHeld /\ Exclusive /\ SoloInv

-----------------------------------------------------------------------------
(***************************************************************************)
(* What the steps of a call do to its frame.                               *)
(***************************************************************************)

\* The frame of an actor outside the library has its type.
LEMMA IdleType == Idle \in Frame
<1>1. AnyPid \in Pids /\ AnyConfig \in Configs
  BY RateLimitAssumption DEF AnyPid, AnyConfig
<1> QED BY <1>1 DEF Idle, Frame, Labels, Codes, Directions

\* A direction and a configuration give the rate of a link.
LEMMA LinkType ==
    ASSUME Types, NEW c \in Actors
    PROVE  Link(c) \in Links
BY DEF Types, Link, Links, Frame

\* An actor's frame is a frame.
LEMMA FrameType ==
    ASSUME Types, NEW c \in Actors
    PROVE  /\ call[c] \in Frame
           /\ call[c].at \in Labels /\ call[c].op \in {"none", "limit", "unregister", "clean"}
           /\ call[c].pid \in Pids /\ call[c].config \in Configs /\ call[c].dir \in Directions
           /\ call[c].fd \in {"none", "open", "stale"} /\ call[c].todo \subseteq Pids
           /\ call[c].ret \in Codes /\ call[c].solo \in BOOLEAN
<1>1. call[c] \in Frame
  BY DEF Types
<1> QED BY <1>1 DEF Frame

\* A step of call c changes its frame and nobody else's.
Steps(c) ==
    /\ call' \in [Actors -> Frame]
    /\ call'[c].solo = call[c].solo
    /\ \A x \in Actors \ {c} : call'[x] = call[x]

\* A step that moves call c on, keeping what it is about.
Moves(c, at, ret, dir, fd) ==
    /\ Steps(c)
    /\ call'[c].at = at /\ call'[c].ret = ret /\ call'[c].dir = dir /\ call'[c].fd = fd
    /\ call'[c].op = call[c].op /\ call'[c].pid = call[c].pid
    /\ call'[c].config = call[c].config

\* What is known of the frame of an actor.
LEMMA CallFacts ==
    ASSUME Inv, NEW c \in Actors
    PROVE  /\ ControlOf(call[c])
           /\ call[c].fd = "open" => call[c].pid \in dirs
           /\ call[c].solo => SoloPath(c)
           /\ call[c].pid \in Pids /\ call[c].config \in Configs /\ call[c].dir \in Directions
BY FrameType DEF Inv, Control, KernelInv, SoloInv

\* Setting a frame of the right type.
LEMMA SetFrame ==
    ASSUME Types, NEW c \in Actors, NEW frame \in Frame, Set(c, frame)
    PROVE  /\ call' \in [Actors -> Frame]
           /\ call'[c] = frame
           /\ \A x \in Actors \ {c} : call'[x] = call[x]
BY DEF Types, Set

\* Goto changes the label only.
LEMMA GotoMoves ==
    ASSUME Types, NEW c \in Actors, NEW at \in Labels, Goto(c, at)
    PROVE  Moves(c, at, call[c].ret, call[c].dir, call[c].fd)
<1> DEFINE frame == [call[c] EXCEPT !.at = at]
<1>1. call[c] \in Frame
  BY FrameType
<1>2. /\ frame \in Frame
      /\ frame.at = at
      /\ frame.ret = call[c].ret /\ frame.dir = call[c].dir /\ frame.fd = call[c].fd
      /\ frame.op = call[c].op /\ frame.pid = call[c].pid /\ frame.config = call[c].config
      /\ frame.todo = call[c].todo /\ frame.solo = call[c].solo
  BY <1>1 DEF Frame
<1> HIDE DEF frame
<1>3. Set(c, frame)
  BY DEF Goto, frame
<1> QED BY <1>2, <1>3, SetFrame DEF Moves, Steps

\* Done ends the call with a code.
LEMMA DoneMoves ==
    ASSUME Types, NEW c \in Actors, NEW code \in Codes, Done(c, code)
    PROVE  Moves(c, "done", code, call[c].dir, call[c].fd)
<1> DEFINE frame == [call[c] EXCEPT !.at = "done", !.ret = code]
<1>1. call[c] \in Frame
  BY FrameType
<1>2. /\ frame \in Frame
      /\ frame.at = "done" /\ frame.ret = code
      /\ frame.dir = call[c].dir /\ frame.fd = call[c].fd
      /\ frame.op = call[c].op /\ frame.pid = call[c].pid /\ frame.config = call[c].config
      /\ frame.todo = call[c].todo /\ frame.solo = call[c].solo
  BY <1>1 DEF Frame, Labels
<1> HIDE DEF frame
<1>3. Set(c, frame)
  BY DEF Done, frame
<1> QED BY <1>2, <1>3, SetFrame DEF Moves, Steps

\* Where Detaching sends a frame.
DetachAt(frame) == IF bpffs THEN "detach" ELSE AfterDetach(frame)

\* Detaching changes the label and the direction.
LEMMA DetachingFrame ==
    ASSUME NEW frame \in Frame
    PROVE  LET g == Detaching(frame)
           IN  /\ g \in Frame
               /\ g.at = DetachAt(frame) /\ g.dir = "egress"
               /\ g.ret = frame.ret /\ g.fd = frame.fd /\ g.op = frame.op /\ g.pid = frame.pid
               /\ g.config = frame.config /\ g.todo = frame.todo /\ g.solo = frame.solo
<1>1. DetachAt(frame) \in Labels
  BY DEF DetachAt, AfterDetach, Labels
<1>2. Detaching(frame) = [frame EXCEPT !.at = DetachAt(frame), !.dir = "egress"]
  BY DEF Detaching, DetachAt
<1> HIDE DEF DetachAt
<1> QED BY <1>1, <1>2 DEF Frame, Directions

\* A call that goes to the detach loop, with a new result or descriptor.
LEMMA DetachMoves ==
    ASSUME Types, NEW c \in Actors, NEW f \in Frame, Set(c, Detaching(f)),
           f.op = call[c].op, f.pid = call[c].pid, f.config = call[c].config,
           f.todo = call[c].todo, f.solo = call[c].solo
    PROVE  Moves(c, DetachAt(f), f.ret, "egress", f.fd)
<1> DEFINE g == Detaching(f)
<1>1. /\ g \in Frame /\ g.at = DetachAt(f) /\ g.dir = "egress" /\ g.ret = f.ret /\ g.fd = f.fd
      /\ g.op = f.op /\ g.pid = f.pid /\ g.config = f.config /\ g.todo = f.todo /\ g.solo = f.solo
  BY DetachingFrame
<1> HIDE DEF g
<1>2. Set(c, g)
  BY DEF g
<1> QED BY <1>1, <1>2, SetFrame DEF Moves, Steps

\* Fail takes the call, with its code, to the detach loop.
LEMMA FailMoves ==
    ASSUME Types, NEW c \in Actors, NEW code \in Codes \ {"OK"}, Fail(c, code)
    PROVE  Moves(c, IF bpffs THEN "detach" ELSE "delete", code, "egress", call[c].fd)
<1> DEFINE f == [call[c] EXCEPT !.ret = code]
<1>1. call[c] \in Frame
  BY FrameType
<1>2. /\ f \in Frame /\ f.ret = code /\ f.fd = call[c].fd
      /\ f.op = call[c].op /\ f.pid = call[c].pid /\ f.config = call[c].config
      /\ f.todo = call[c].todo /\ f.solo = call[c].solo
  BY <1>1 DEF Frame
<1>3. Set(c, Detaching(f))
  BY DEF Fail
<1> HIDE DEF f
<1>4. DetachAt(f) = IF bpffs THEN "detach" ELSE "delete"
  BY <1>2 DEF DetachAt, AfterDetach
<1>5. Moves(c, DetachAt(f), f.ret, "egress", f.fd)
  BY <1>2, <1>3, DetachMoves
<1> QED BY <1>2, <1>4, <1>5

\* Leaving a direction of attach_bpf_programs goes to the other one or ends
\* the loop.
LEMMA NextDirectionMoves ==
    ASSUME Types, NEW c \in Actors, Set(c, NextDirection(c))
    PROVE  IF call[c].dir = "egress" THEN Moves(c, "attach", call[c].ret, "ingress", call[c].fd)
           ELSE Moves(c, "watch", call[c].ret, call[c].dir, "none")
<1>1. call[c] \in Frame
  BY FrameType
<1>2. CASE call[c].dir = "egress"
  <2> DEFINE f == [call[c] EXCEPT !.at = "attach", !.dir = "ingress"]
  <2>1. /\ f \in Frame /\ f.at = "attach" /\ f.dir = "ingress"
        /\ f.ret = call[c].ret /\ f.fd = call[c].fd
        /\ f.op = call[c].op /\ f.pid = call[c].pid /\ f.config = call[c].config
        /\ f.todo = call[c].todo /\ f.solo = call[c].solo
    BY <1>1 DEF Frame, Labels, Directions
  <2>2. Set(c, f)
    BY <1>2 DEF NextDirection
  <2> HIDE DEF f
  <2> QED BY <1>2, <2>1, <2>2, SetFrame DEF Moves, Steps
<1>3. CASE call[c].dir # "egress"
  <2> DEFINE f == [call[c] EXCEPT !.at = "watch", !.fd = "none"]
  <2>1. /\ f \in Frame /\ f.at = "watch" /\ f.fd = "none"
        /\ f.ret = call[c].ret /\ f.dir = call[c].dir
        /\ f.op = call[c].op /\ f.pid = call[c].pid /\ f.config = call[c].config
        /\ f.todo = call[c].todo /\ f.solo = call[c].solo
    BY <1>1 DEF Frame, Labels
  <2>2. Set(c, f)
    BY <1>3 DEF NextDirection
  <2> HIDE DEF f
  <2> QED BY <1>3, <2>1, <2>2, SetFrame DEF Moves, Steps
<1> QED BY <1>2, <1>3

-----------------------------------------------------------------------------
(***************************************************************************)
(* What a step of a call leaves of the invariant, whatever it is.          *)
(***************************************************************************)

\* A call is in progress.
Working(c) == ~At(c, "idle") /\ ~At(c, "done")

\* A step of one call leaves the frames of the others as they control them,
\* and none of those was undisturbed.
LEMMA MoveInv ==
    ASSUME Inv, NEW c \in Actors, Steps(c), Working(c),
           Types', KernelInv', PinnedOrHeld',
           ControlOf(call'[c]),
           call[c].solo => SoloPath(c)'
    PROVE  Inv'
<1>1. /\ call'[c].solo = call[c].solo
      /\ \A x \in Actors \ {c} : call'[x] = call[x] /\ ~call[x].solo
  BY DEF Steps, Inv, Exclusive, Working, At
<1>2. Control'
  BY <1>1 DEF Inv, Control
<1>3. Exclusive'
  BY <1>1 DEF Inv, Exclusive, At
<1>4. SoloInv'
  BY <1>1 DEF SoloInv
<1> QED BY <1>2, <1>3, <1>4 DEF Inv

\* A held link stays held while its call stays at the pin, and a pinned link
\* stays pinned unless it is detached too.
LEMMA MovePinned ==
    ASSUME Inv, NEW c \in Actors, Steps(c),
           At(c, "pin") => Link(c) \notin attached' \/ Link(c) \in pinned',
           \A l \in attached' : l \in attached /\ (l \in pinned => l \in pinned')
    PROVE  PinnedOrHeld'
<1> SUFFICES ASSUME NEW l \in attached', l \notin pinned'
             PROVE  At(l.by, "pin")' /\ (Link(l.by) = l)'
  BY DEF PinnedOrHeld
<1>1. l \in attached /\ At(l.by, "pin") /\ Link(l.by) = l /\ l \in Links
  BY DEF Inv, PinnedOrHeld, Types
<1>2. l.by \in Actors /\ l.by # c
  BY <1>1 DEF Links
<1>3. call'[l.by] = call[l.by]
  BY <1>1, <1>2 DEF Steps
<1> QED BY <1>1, <1>3 DEF At, Link

\* Links that do not change clear and establish the same directions.
LEMMA SameLinks ==
    ASSUME NEW c \in Actors, UNCHANGED <<attached, pinned>>,
           call'[c].pid = call[c].pid, call'[c].config = call[c].config
    PROVE  \A d \in Directions :
              /\ Cleared(call[c].pid, d)' <=> Cleared(call[c].pid, d)
              /\ Established(c, d)' <=> Established(c, d)
BY DEF Cleared, Established, LinkOf

\* A step that changes no link and removes no cgroup.
LEMMA KernelMove ==
    ASSUME Inv, NEW c \in Actors, Steps(c), Working(c), ~At(c, "pin"),
           UNCHANGED <<alive, attached, pinned, bpffs>>,
           dirs \subseteq dirs', dirs' \subseteq Pids, parent' \in BOOLEAN, dirs' # {} => parent',
           member' \in [Pids -> {"outside", "parent", "child"}],
           \A p \in Pids : /\ member'[p] = "child" => p \in dirs'
                           /\ member'[p] # "outside" => parent',
           pindirs' \subseteq Pids, \A l \in pinned : l.pid \in pindirs', pindirs' # {} => bpffs,
           watched' \in [Pids -> {"none", "live", "dead"}],
           call'[c].fd = "open" => call'[c].pid \in dirs',
           ControlOf(call'[c]),
           call[c].solo => SoloPath(c)'
    PROVE  Inv'
<1>1. Types'
  BY DEF Inv, Types, Steps
<1>2. KernelInv'
  BY DEF Inv, KernelInv, Steps
<1>3. PinnedOrHeld'
  BY MovePinned
<1> QED BY <1>1, <1>2, <1>3, MoveInv

\* A step that changes the frame and the daemon's table only.
LEMMA FrameMove ==
    ASSUME Inv, NEW c \in Actors, Steps(c), Working(c), ~At(c, "pin"),
           UNCHANGED kernel,
           watched' \in [Pids -> {"none", "live", "dead"}],
           call'[c].fd = "open" => call'[c].pid \in dirs,
           ControlOf(call'[c]),
           call[c].solo => SoloPath(c)'
    PROVE  Inv'
BY KernelMove DEF Inv, Types, KernelInv, kernel

\* A step that changes links, no cgroups, and of the pin directories at most
\* the one of the call.
LEMMA LinkMove ==
    ASSUME Inv, NEW c \in Actors, Steps(c), Working(c),
           UNCHANGED <<alive, parent, dirs, member, bpffs, watched>>,
           pindirs' = pindirs \/ (bpffs /\ pindirs' = pindirs \cup {call[c].pid}),
           attached' \subseteq Links, \A l \in attached' : l.pid \in dirs /\ l.kbps # Unlimited,
           pinned' \subseteq Links, \A l \in pinned' : l.pid \in pindirs',
           PinnedOrHeld',
           call'[c].fd = "open" => call'[c].pid \in dirs,
           ControlOf(call'[c]),
           call[c].solo => SoloPath(c)'
    PROVE  Inv'
<1>0. call[c].pid \in Pids
  BY FrameType DEF Inv
<1>1. Types'
  BY <1>0 DEF Inv, Types, Steps
<1>2. KernelInv'
  BY DEF Inv, KernelInv, Steps
<1> QED BY <1>1, <1>2, MoveInv

\* With no other call in progress, every link is pinned, except the one the
\* call itself is about to pin.
LEMMA SoloPinned ==
    ASSUME Inv, NEW c \in Actors, call[c].solo, ~At(c, "pin")
    PROVE  attached \subseteq pinned
<1> SUFFICES ASSUME NEW l \in attached, l \notin pinned
             PROVE  FALSE
  OBVIOUS
<1>1. At(l.by, "pin") /\ l.by \in Actors
  BY DEF Inv, PinnedOrHeld, Types, Links
<1>2. l.by # c
  BY <1>1
<1> QED BY <1>1, <1>2 DEF Inv, Exclusive, At

\* Without a bpffs an undisturbed call finds no links at all.
LEMMA SoloNoBpffs ==
    ASSUME Inv, NEW c \in Actors, call[c].solo, ~At(c, "pin"), ~bpffs
    PROVE  \A p \in Pids, d \in Directions : Cleared(p, d)
<1>1. pindirs = {}
  BY DEF Inv, KernelInv
<1>2. pinned = {}
  BY <1>1 DEF Inv, Types
<1> QED BY <1>2, SoloPinned DEF Cleared

\* Links that only go away stay clear where they were.
LEMMA ShrinkCleared ==
    ASSUME attached' \subseteq attached, pinned' \subseteq pinned, NEW c \in Actors,
           call'[c].pid = call[c].pid, NEW d \in Directions, Cleared(call[c].pid, d)
    PROVE  Cleared(call[c].pid, d)'
BY DEF Cleared

-----------------------------------------------------------------------------
(***************************************************************************)
(* Each step of a call preserves the invariant.                            *)
(***************************************************************************)

\* The parent cgroup.
LEMMA create_parentInv ==
    ASSUME Inv, NEW c \in Actors, create_parent(c)
    PROVE  Inv'
<1> DEFINE f == call[c]
<1>1. Working(c) /\ ~At(c, "pin") /\ ControlOf(f) /\ f.at = "create_parent"
  BY CallFacts DEF create_parent, At, Working
<1>2. CASE parent' = TRUE /\ Goto(c, "create_child")
  <2>1. Moves(c, "create_child", f.ret, f.dir, f.fd)
    BY <1>2, GotoMoves DEF Inv, Labels
  <2>2. ControlOf(call'[c]) /\ f.fd = "none"
    BY <1>1, <2>1 DEF Moves, ControlOf, OpenLabels
  <2>3. SoloPath(c)'
    BY <1>1, <2>1 DEF Moves, ControlOf, OpenLabels, SoloPath, LimitPath, DetachPath, UnregisterPath, CleanPath
  <2> QED BY <1>1, <1>2, <2>1, <2>2, <2>3, KernelMove DEF create_parent, Inv, Types, KernelInv, Moves
<1>3. CASE Done(c, "LIBCG_CREATE") /\ UNCHANGED parent
  <2>1. Moves(c, "done", "LIBCG_CREATE", f.dir, f.fd)
    BY <1>3, DoneMoves DEF Inv, Codes
  <2>2. ControlOf(call'[c]) /\ f.fd = "none"
    BY <1>1, <2>1 DEF Moves, ControlOf, OpenLabels
  <2>3. SoloPath(c)'
    BY <1>1, <2>1 DEF Moves, ControlOf, OpenLabels, SoloPath, LimitPath, DetachPath, UnregisterPath, CleanPath
  <2> QED BY <1>1, <1>3, <2>1, <2>2, <2>3, FrameMove DEF create_parent, kernel, Inv, Types, Moves
<1> QED BY <1>2, <1>3 DEF create_parent

\* The process's cgroup.
LEMMA create_childInv ==
    ASSUME Inv, NEW c \in Actors, create_child(c)
    PROVE  Inv'
<1> DEFINE f == call[c]
<1>1. /\ Working(c) /\ ~At(c, "pin") /\ ControlOf(f) /\ f.at = "create_child"
      /\ f.pid \in Pids
  BY CallFacts DEF create_child, At, Working
<1>2. CASE parent' = TRUE /\ dirs' = dirs \cup {f.pid} /\ Goto(c, "attach_task")
  <2>1. Moves(c, "attach_task", f.ret, f.dir, f.fd)
    BY <1>2, GotoMoves DEF Inv, Labels
  <2>2. ControlOf(call'[c]) /\ f.fd = "none"
    BY <1>1, <2>1 DEF Moves, ControlOf, OpenLabels
  <2>3. SoloPath(c)'
    BY <1>1, <1>2, <2>1 DEF Moves, ControlOf, OpenLabels, SoloPath, LimitPath, DetachPath, UnregisterPath, CleanPath
  <2> QED BY <1>1, <1>2, <2>1, <2>2, <2>3, KernelMove DEF create_child, Inv, Types, KernelInv, Moves
<1>3. CASE Done(c, "LIBCG_CREATE") /\ UNCHANGED <<parent, dirs>>
  <2>1. Moves(c, "done", "LIBCG_CREATE", f.dir, f.fd)
    BY <1>3, DoneMoves DEF Inv, Codes
  <2>2. ControlOf(call'[c]) /\ f.fd = "none"
    BY <1>1, <2>1 DEF Moves, ControlOf, OpenLabels
  <2>3. SoloPath(c)'
    BY <1>1, <2>1 DEF Moves, ControlOf, OpenLabels, SoloPath, LimitPath, DetachPath, UnregisterPath, CleanPath
  <2> QED BY <1>1, <1>3, <2>1, <2>2, <2>3, FrameMove DEF create_child, kernel, Inv, Types, Moves
<1> QED BY <1>2, <1>3 DEF create_child

\* A failure before the cgroup is open goes to its deletion.
LEMMA EarlyFailMoves ==
    ASSUME Types, NEW c \in Actors, NEW code \in Codes,
           Set(c, [call[c] EXCEPT !.at = "delete", !.ret = code])
    PROVE  Moves(c, "delete", code, call[c].dir, call[c].fd)
<1> DEFINE frame == [call[c] EXCEPT !.at = "delete", !.ret = code]
<1>1. call[c] \in Frame
  BY FrameType
<1>2. /\ frame \in Frame
      /\ frame.at = "delete" /\ frame.ret = code
      /\ frame.dir = call[c].dir /\ frame.fd = call[c].fd
      /\ frame.op = call[c].op /\ frame.pid = call[c].pid /\ frame.config = call[c].config
      /\ frame.todo = call[c].todo /\ frame.solo = call[c].solo
  BY <1>1 DEF Frame, Labels
<1> HIDE DEF frame
<1>3. Set(c, frame)
  BY DEF frame
<1> QED BY <1>2, <1>3, SetFrame DEF Moves, Steps

\* The task moves to its cgroup, or the cgroup is deleted.
LEMMA attach_taskInv ==
    ASSUME Inv, NEW c \in Actors, attach_task(c)
    PROVE  Inv'
<1> DEFINE f == call[c]
<1>1. /\ Working(c) /\ ~At(c, "pin") /\ ControlOf(f) /\ f.at = "attach_task"
      /\ f.pid \in Pids /\ (f.solo => SoloPath(c))
  BY CallFacts DEF attach_task, At, Working
<1>2. CASE /\ f.pid \in alive /\ f.pid \in dirs
           /\ member' = [member EXCEPT ![f.pid] = "child"] /\ Goto(c, "open")
  <2>1. Moves(c, "open", f.ret, f.dir, f.fd)
    BY <1>2, GotoMoves DEF Inv, Labels
  <2>2. ControlOf(call'[c]) /\ f.fd = "none"
    BY <1>1, <2>1 DEF Moves, ControlOf, OpenLabels
  <2>3. /\ member' \in [Pids -> {"outside", "parent", "child"}] /\ member'[f.pid] = "child"
        /\ \A p \in Pids : member'[p] = "child" => p \in dirs
        /\ \A p \in Pids : member'[p] # "outside" => parent
    BY <1>1, <1>2 DEF Inv, Types, KernelInv
  <2>4. SoloPath(c)'
    BY <1>1, <1>2, <2>1, <2>3 DEF attach_task, Moves, ControlOf, OpenLabels, SoloPath, LimitPath, DetachPath,
       UnregisterPath, CleanPath
  <2> QED BY <1>1, <1>2, <2>1, <2>2, <2>3, <2>4, KernelMove DEF attach_task, Inv, Types, KernelInv, Moves
<1>3. CASE Set(c, [f EXCEPT !.at = "delete", !.ret = "LIBCG_ATTACH"]) /\ UNCHANGED member
  <2>1. Moves(c, "delete", "LIBCG_ATTACH", f.dir, f.fd)
    BY <1>3, EarlyFailMoves DEF Inv, Codes
  <2>2. ControlOf(call'[c]) /\ f.fd = "none"
    BY <1>1, <2>1 DEF Moves, ControlOf, OpenLabels
  <2>3. SoloPath(c)'
    BY <1>1, <2>1 DEF Moves, ControlOf, OpenLabels, SoloPath, LimitPath, DetachPath, UnregisterPath, CleanPath
  <2> QED BY <1>1, <1>3, <2>1, <2>2, <2>3, FrameMove DEF attach_task, kernel, Inv, Types, Moves
<1> QED BY <1>2, <1>3 DEF attach_task

\* The descriptor is opened and the detach loop begins, or the call fails.
LEMMA open_cgroup_fdInv ==
    ASSUME Inv, NEW c \in Actors, open_cgroup_fd(c)
    PROVE  Inv'
<1> DEFINE f == call[c]
<1>1. /\ Working(c) /\ ~At(c, "pin") /\ ControlOf(f) /\ f.at = "open" /\ f.op = "limit"
      /\ f.pid \in Pids /\ f.ret = "OK" /\ (f.solo => SoloPath(c)) /\ Types /\ f \in Frame
      /\ UNCHANGED <<kernel, watched>>
  BY CallFacts, FrameType DEF open_cgroup_fd, At, Working, ControlOf, OpenLabels, Inv
<1>2. CASE f.pid \in dirs /\ Set(c, Detaching([f EXCEPT !.fd = "open"]))
  <2> DEFINE g == [f EXCEPT !.fd = "open"]
  <2>1. /\ g \in Frame /\ g.ret = "OK" /\ g.fd = "open" /\ g.op = f.op /\ g.pid = f.pid
        /\ g.config = f.config /\ g.todo = f.todo /\ g.solo = f.solo
    BY <1>1 DEF Frame
  <2>2. Set(c, Detaching(g))
    BY <1>2
  <2> HIDE DEF g
  <2>3. Moves(c, DetachAt(g), g.ret, "egress", g.fd)
    BY <1>1, <2>1, <2>2, DetachMoves
  <2>4. DetachAt(g) = IF bpffs THEN "detach" ELSE "create_pin_dir"
    BY <1>1, <2>1 DEF DetachAt, AfterDetach
  <2>5. ControlOf(call'[c])
    BY <1>1, <2>1, <2>3, <2>4 DEF Moves, ControlOf, OpenLabels
  <2>6. f.solo /\ ~bpffs => \A d \in Directions : Cleared(f.pid, d)
    BY <1>1, SoloNoBpffs
  <2>7. \A d \in Directions : Cleared(f.pid, d)' <=> Cleared(f.pid, d)
    BY <1>1, <2>3, SameLinks DEF Moves, kernel
  <2>8. f.solo => SoloPath(c)'
    BY <1>1, <2>1, <2>3, <2>4, <2>6, <2>7
       DEF Moves, kernel, SoloPath, LimitPath, DetachPath, UnregisterPath, CleanPath
  <2> QED BY <1>1, <1>2, <2>1, <2>3, <2>5, <2>8, FrameMove DEF Types, Moves
<1>3. CASE f.pid \in dirs /\ Set(c, Detaching([[f EXCEPT !.fd = "open"] EXCEPT !.ret = "ALLOC"]))
  <2> DEFINE g == [[f EXCEPT !.fd = "open"] EXCEPT !.ret = "ALLOC"]
  <2>1. /\ g \in Frame /\ g.ret = "ALLOC" /\ g.fd = "open" /\ g.op = f.op /\ g.pid = f.pid
        /\ g.config = f.config /\ g.todo = f.todo /\ g.solo = f.solo
    BY <1>1 DEF Frame, Codes
  <2>2. Set(c, Detaching(g))
    BY <1>3
  <2> HIDE DEF g
  <2>3. Moves(c, DetachAt(g), g.ret, "egress", g.fd)
    BY <1>1, <2>1, <2>2, DetachMoves
  <2>4. DetachAt(g) = IF bpffs THEN "detach" ELSE "delete"
    BY <1>1, <2>1 DEF DetachAt, AfterDetach
  <2>5. ControlOf(call'[c])
    BY <1>1, <2>1, <2>3, <2>4 DEF Moves, ControlOf, OpenLabels
  <2>6. SoloPath(c)'
    BY <1>1, <2>1, <2>3, <2>4 DEF Moves, SoloPath, LimitPath, DetachPath, UnregisterPath, CleanPath
  <2> QED BY <1>1, <1>3, <2>1, <2>3, <2>5, <2>6, FrameMove DEF Types, Moves
<1>4. CASE Set(c, [f EXCEPT !.at = "delete", !.ret = "OPEN_CGROUP"])
  <2>1. Moves(c, "delete", "OPEN_CGROUP", f.dir, f.fd)
    BY <1>1, <1>4, EarlyFailMoves DEF Codes
  <2>2. ControlOf(call'[c]) /\ f.fd = "none"
    BY <1>1, <2>1 DEF Moves, ControlOf, OpenLabels
  <2>3. SoloPath(c)'
    BY <1>1, <2>1 DEF Moves, SoloPath, LimitPath, DetachPath, UnregisterPath, CleanPath
  <2> QED BY <1>1, <2>1, <2>2, <2>3, FrameMove DEF Types, Moves
<1> QED BY <1>2, <1>3, <1>4 DEF open_cgroup_fd

\* A failure with an open descriptor leads back to the detach loop.
LEMMA FailInv ==
    ASSUME Inv, NEW c \in Actors, NEW code \in Codes \ {"OK"}, Fail(c, code),
           Working(c), call[c].op = "limit",
           UNCHANGED <<alive, parent, dirs, member, pindirs, bpffs, watched, pinned>>,
           attached' = IF At(c, "pin") THEN attached \ {Link(c)} ELSE attached
    PROVE  Inv'
<1> DEFINE f == call[c]
<1>1. Moves(c, IF bpffs THEN "detach" ELSE "delete", code, "egress", f.fd)
  BY FailMoves DEF Inv
<1>2. ControlOf(call'[c])
  BY <1>1, CallFacts DEF Moves, ControlOf, OpenLabels
<1>3. SoloPath(c)'
  BY <1>1 DEF Moves, SoloPath, LimitPath, DetachPath, UnregisterPath, CleanPath
<1>4. PinnedOrHeld'
  BY <1>1, MovePinned DEF Moves
<1>5. call'[c].fd = "open" => call'[c].pid \in dirs
  BY <1>1, CallFacts DEF Moves
<1>6. /\ attached' \subseteq Links /\ pinned' \subseteq Links
      /\ \A l \in attached' : l.pid \in dirs /\ l.kbps # Unlimited
      /\ \A l \in pinned' : l.pid \in pindirs
  BY DEF Inv, Types, KernelInv
<1>7. Steps(c)
  BY <1>1 DEF Moves
<1> QED BY <1>2, <1>3, <1>4, <1>5, <1>6, <1>7, LinkMove

\* The pin directory.
LEMMA create_pin_dirInv ==
    ASSUME Inv, NEW c \in Actors, create_pin_dir(c)
    PROVE  Inv'
<1> DEFINE f == call[c]
<1>1. /\ Working(c) /\ ~At(c, "pin") /\ ControlOf(f) /\ f.at = "create_pin_dir"
      /\ f.op = "limit" /\ f.ret = "OK"
      /\ f.pid \in Pids /\ (f.solo => SoloPath(c)) /\ Types
      /\ f.fd = "open" => f.pid \in dirs
      /\ UNCHANGED <<alive, parent, dirs, member, attached, pinned, bpffs, watched>>
  BY CallFacts DEF create_pin_dir, At, Working, ControlOf, OpenLabels, Inv
<1>2. CASE bpffs /\ pindirs' = pindirs \cup {f.pid} /\ Goto(c, "load")
  <2>1. Moves(c, "load", f.ret, f.dir, f.fd)
    BY <1>1, <1>2, GotoMoves DEF Labels
  <2>2. ControlOf(call'[c])
    BY <1>1, <2>1 DEF Moves, ControlOf, OpenLabels
  <2>3. \A d \in Directions : Cleared(f.pid, d)' <=> Cleared(f.pid, d)
    BY <1>1, <2>1, SameLinks DEF Moves
  <2>4. f.solo => SoloPath(c)'
    BY <1>1, <2>1, <2>3 DEF Moves, SoloPath, LimitPath, DetachPath, UnregisterPath, CleanPath
  <2> QED BY <1>1, <1>2, <2>1, <2>2, <2>4, KernelMove DEF Inv, Types, KernelInv, Moves
<1>3. CASE UNCHANGED pindirs /\ (Fail(c, "NO_BPFFS") \/ Fail(c, "BPF_PIN"))
  BY <1>1, <1>3, FailInv DEF Codes
<1> QED BY <1>2, <1>3 DEF create_pin_dir

\* The programs are loaded and the loop over the directions begins.
LEMMA loadInv ==
    ASSUME Inv, NEW c \in Actors, load(c)
    PROVE  Inv'
<1> DEFINE f == call[c]
<1>1. /\ Working(c) /\ ~At(c, "pin") /\ ControlOf(f) /\ f.at = "load"
      /\ f.op = "limit" /\ f.ret = "OK" /\ f \in Frame
      /\ f.pid \in Pids /\ (f.solo => SoloPath(c)) /\ Types
      /\ f.fd = "open" => f.pid \in dirs
      /\ UNCHANGED <<kernel, watched>>
  BY CallFacts, FrameType DEF load, At, Working, ControlOf, OpenLabels, Inv
<1>2. CASE Set(c, [f EXCEPT !.at = "attach", !.dir = "egress"])
  <2> DEFINE g == [f EXCEPT !.at = "attach", !.dir = "egress"]
  <2>1. /\ g \in Frame /\ g.at = "attach" /\ g.dir = "egress" /\ g.ret = f.ret /\ g.fd = f.fd
        /\ g.op = f.op /\ g.pid = f.pid /\ g.config = f.config /\ g.solo = f.solo
    BY <1>1 DEF Frame, Labels, Directions
  <2>2. Set(c, g)
    BY <1>2
  <2> HIDE DEF g
  <2>3. Moves(c, "attach", f.ret, "egress", f.fd)
    BY <1>1, <2>1, <2>2, SetFrame DEF Moves, Steps
  <2>4. ControlOf(call'[c])
    BY <1>1, <2>3 DEF Moves, ControlOf, OpenLabels
  <2>5. \A d \in Directions : Cleared(f.pid, d)' <=> Cleared(f.pid, d)
    BY <1>1, <2>3, SameLinks DEF Moves, kernel
  <2>6. f.solo => SoloPath(c)'
    BY <1>1, <2>3, <2>5
       DEF Moves, kernel, SoloPath, LimitPath, DetachPath, UnregisterPath, CleanPath
  <2> QED BY <1>1, <2>3, <2>4, <2>6, FrameMove DEF Types, Moves
<1>3. CASE Fail(c, "BPF_LOAD")
  BY <1>1, <1>3, FailInv DEF Codes, kernel
<1> QED BY <1>2, <1>3 DEF load

\* The loop over the directions goes on from one that is settled.
LEMMA NextDirectionInv ==
    ASSUME Inv, NEW c \in Actors, NEW d \in Directions, call[c].dir = d,
           Set(c, NextDirection(c)), call[c].at \in {"attach", "pin"},
           UNCHANGED <<alive, parent, dirs, member, bpffs, watched>>,
           pindirs' = pindirs \/ (bpffs /\ pindirs' = pindirs \cup {call[c].pid}),
           attached' \subseteq Links, \A l \in attached' : l.pid \in dirs /\ l.kbps # Unlimited,
           pinned' \subseteq Links, \A l \in pinned' : l.pid \in pindirs',
           PinnedOrHeld',
           call[c].solo => /\ Established(c, d)'
                           /\ d = "egress" => Cleared(call[c].pid, "ingress")'
                           /\ d = "ingress" => Established(c, "egress")'
    PROVE  Inv'
<1> DEFINE f == call[c]
<1>1. /\ f.fd = "open" => f.pid \in dirs
      /\ ControlOf(f) /\ f.op = "limit" /\ f.ret = "OK" /\ Working(c)
      /\ f.solo => SoloPath(c)
  BY CallFacts DEF ControlOf, OpenLabels, Working, At
<1>2. CASE d = "egress"
  <2>1. Moves(c, "attach", f.ret, "ingress", f.fd)
    BY <1>2, NextDirectionMoves DEF Inv
  <2>2. ControlOf(call'[c])
    BY <1>1, <2>1 DEF Moves, ControlOf, OpenLabels
  <2>3. f.solo => SoloPath(c)'
    BY <1>1, <1>2, <2>1 DEF Moves, SoloPath, LimitPath, DetachPath, UnregisterPath, CleanPath
  <2> QED BY <1>1, <2>1, <2>2, <2>3, LinkMove DEF Moves
<1>3. CASE d = "ingress"
  <2>1. Moves(c, "watch", f.ret, "ingress", "none")
    BY <1>3, NextDirectionMoves DEF Inv
  <2>2. ControlOf(call'[c])
    BY <1>1, <2>1 DEF Moves, ControlOf, OpenLabels
  <2>3. f.solo => SoloPath(c)'
    BY <1>1, <1>3, <2>1
       DEF Moves, SoloPath, LimitPath, DetachPath, UnregisterPath, CleanPath, Directions
  <2> QED BY <1>1, <2>1, <2>2, <2>3, LinkMove DEF Moves
<1> QED BY <1>2, <1>3 DEF Directions

\* A direction is skipped, attached or refused.
LEMMA attach_cgroupInv ==
    ASSUME Inv, NEW c \in Actors, attach_cgroup(c)
    PROVE  Inv'
<1> DEFINE f == call[c]
<1>1. /\ Working(c) /\ ~At(c, "pin") /\ ControlOf(f) /\ f.at = "attach"
      /\ f.op = "limit" /\ f.ret = "OK" /\ f.dir \in Directions
      /\ f.pid \in Pids /\ (f.solo => LimitPath(c)) /\ Types
      /\ f.fd = "open" => f.pid \in dirs
      /\ UNCHANGED <<alive, parent, dirs, member, pinned, pindirs, bpffs, watched>>
  BY CallFacts DEF attach_cgroup, At, Working, ControlOf, OpenLabels, Inv, SoloPath
<1>2. /\ attached \subseteq Links /\ pinned \subseteq Links
      /\ \A l \in attached : l.pid \in dirs /\ l.kbps # Unlimited
      /\ \A l \in pinned : l.pid \in pindirs
  BY DEF Inv, Types, KernelInv
<1>3. CASE f.config[f.dir] = Unlimited /\ Set(c, NextDirection(c)) /\ UNCHANGED attached
  <2>0. PICK d \in Directions : f.dir = d
    BY <1>1
  <2>1. IF f.dir = "egress" THEN Moves(c, "attach", f.ret, "ingress", f.fd)
        ELSE Moves(c, "watch", f.ret, f.dir, "none")
    BY <1>1, <1>3, NextDirectionMoves
  <2>2. call'[c].pid = f.pid /\ call'[c].config = f.config /\ Steps(c)
    BY <2>1 DEF Moves
  <2>3. PinnedOrHeld'
    BY <1>1, <1>3, <2>2, MovePinned
  <2>4. \A e \in Directions : /\ Cleared(f.pid, e)' <=> Cleared(f.pid, e)
                              /\ Established(c, e)' <=> Established(c, e)
    BY <1>1, <1>3, <2>2, SameLinks
  <2>5. f.solo => /\ Established(c, d)
                  /\ d = "egress" => Cleared(f.pid, "ingress")
                  /\ d = "ingress" => Established(c, "egress")
    BY <1>1, <1>3, <2>0 DEF LimitPath, Established, Directions
  <2>6. f.solo => /\ Established(c, d)'
                  /\ d = "egress" => Cleared(f.pid, "ingress")'
                  /\ d = "ingress" => Established(c, "egress")'
    BY <2>4, <2>5 DEF Directions
  <2> QED BY <1>1, <1>2, <1>3, <2>0, <2>3, <2>6, NextDirectionInv
<1>4. CASE /\ f.config[f.dir] # Unlimited /\ f.fd = "open"
           /\ attached' = attached \cup {Link(c)} /\ Goto(c, "pin")
  <2>1. Moves(c, "pin", f.ret, f.dir, f.fd)
    BY <1>1, <1>4, GotoMoves DEF Labels
  <2>2. ControlOf(call'[c])
    BY <1>1, <1>4, <2>1 DEF Moves, ControlOf, OpenLabels
  <2>3. Link(c) \in Links /\ Link(c).pid = f.pid /\ Link(c).kbps = f.config[f.dir]
    BY <1>1, LinkType DEF Link
  <2>4. /\ attached' \subseteq Links
        /\ \A l \in attached' : l.pid \in dirs /\ l.kbps # Unlimited
    BY <1>1, <1>2, <1>4, <2>3
  <2>5. PinnedOrHeld'
    <3> SUFFICES ASSUME NEW l \in attached', l \notin pinned'
                 PROVE  At(l.by, "pin")' /\ (Link(l.by) = l)'
      BY DEF PinnedOrHeld
    <3>1. CASE l = Link(c)
      BY <3>1, <2>1 DEF Link, At, Moves
    <3>2. CASE l # Link(c)
      <4>1. l \in attached /\ At(l.by, "pin") /\ Link(l.by) = l /\ l.by \in Actors
        BY <1>1, <1>2, <1>4, <3>2 DEF Inv, PinnedOrHeld, Links
      <4>2. call'[l.by] = call[l.by]
        BY <1>1, <2>1, <4>1 DEF Moves, Steps
      <4> QED BY <4>1, <4>2 DEF At, Link
    <3> QED BY <3>1, <3>2
  <2>6. f.solo => SoloPath(c)'
    <3> SUFFICES ASSUME f.solo PROVE SoloPath(c)'
      OBVIOUS
    <3>1. /\ call'[c].at = "pin" /\ call'[c].pid = f.pid /\ call'[c].config = f.config
          /\ call'[c].dir = f.dir /\ call'[c].op = "limit" /\ call'[c].ret = "OK"
      BY <1>1, <2>1 DEF Moves
    <3>2. /\ Cleared(f.pid, f.dir)
          /\ f.dir = "egress" => Cleared(f.pid, "ingress")
          /\ f.dir = "ingress" => Established(c, "egress")
      BY <1>1 DEF LimitPath, Directions
    <3>3. Attached(c)'
      <4>1. LinkOf(c, f.dir)' = Link(c) /\ LinkOf(c, call[c].dir)' = Link(c)
        BY <3>1 DEF LinkOf, Link
      <4> QED BY <1>1, <1>4, <3>1, <3>2, <4>1 DEF Attached, Cleared
    <3>4. /\ f.dir = "egress" => Cleared(f.pid, "ingress")'
          /\ f.dir = "ingress" => Established(c, "egress")'
      <4>1. Link(c).dir = f.dir /\ LinkOf(c, "egress")' = LinkOf(c, "egress")
        BY <3>1 DEF LinkOf, Link
      <4> QED BY <1>1, <1>4, <3>1, <3>2, <4>1 DEF Cleared, Established
    <3> QED BY <1>1, <3>1, <3>3, <3>4
            DEF SoloPath, LimitPath, DetachPath, UnregisterPath, CleanPath
  <2> QED BY <1>1, <1>2, <2>1, <2>2, <2>4, <2>5, <2>6, LinkMove DEF Moves
<1>5. CASE Fail(c, "BPF_LINK") /\ UNCHANGED attached
  BY <1>1, <1>5, FailInv DEF Codes
<1> QED BY <1>3, <1>4, <1>5 DEF attach_cgroup

\* The link is pinned, or destroyed with the call.
LEMMA pinInv ==
    ASSUME Inv, NEW c \in Actors, pin(c)
    PROVE  Inv'
<1> DEFINE f == call[c]
<1>1. /\ Working(c) /\ At(c, "pin") /\ ControlOf(f) /\ f.at = "pin"
      /\ f.op = "limit" /\ f.ret = "OK" /\ f.config[f.dir] # Unlimited
      /\ f.pid \in Pids /\ (f.solo => LimitPath(c)) /\ Types
      /\ UNCHANGED <<alive, parent, dirs, member, bpffs, watched>>
  BY CallFacts DEF pin, At, Working, ControlOf, OpenLabels, Inv, SoloPath
<1>2. /\ attached \subseteq Links /\ pinned \subseteq Links
      /\ \A l \in attached : l.pid \in dirs /\ l.kbps # Unlimited
      /\ \A l \in pinned : l.pid \in pindirs
  BY DEF Inv, Types, KernelInv
<1>3. CASE /\ bpffs /\ PinnedAt(f.pid, f.dir) = {}
           /\ pinned' = pinned \cup {Link(c)} /\ pindirs' = pindirs \cup {f.pid}
           /\ Set(c, NextDirection(c)) /\ UNCHANGED attached
  <2>1. PICK d \in Directions : f.dir = d
    BY CallFacts
  <2>2. IF f.dir = "egress" THEN Moves(c, "attach", f.ret, "ingress", f.fd)
        ELSE Moves(c, "watch", f.ret, f.dir, "none")
    BY <1>1, <1>3, NextDirectionMoves
  <2>3. call'[c].pid = f.pid /\ call'[c].config = f.config /\ Steps(c)
    BY <2>2 DEF Moves
  <2>4. PinnedOrHeld'
    BY <1>3, <2>3, MovePinned
  <2>5. Link(c) \in Links /\ Link(c).pid = f.pid /\ Link(c).dir = d /\ Link(c) = LinkOf(c, d)
    BY <1>1, <2>1, LinkType DEF Link, LinkOf
  <2>6. pinned' \subseteq Links /\ \A l \in pinned' : l.pid \in pindirs'
    BY <1>2, <1>3, <2>5
  <2>7. ASSUME f.solo
        PROVE  /\ Established(c, d)'
               /\ d = "egress" => Cleared(f.pid, "ingress")'
               /\ d = "ingress" => Established(c, "egress")'
    <3>1. /\ Attached(c)
          /\ d = "egress" => Cleared(f.pid, "ingress")
          /\ d = "ingress" => Established(c, "egress")
      BY <1>1, <2>1, <2>7 DEF LimitPath
    <3>2. LinkOf(c, d)' = Link(c) /\ LinkOf(c, "egress")' = LinkOf(c, "egress")
      BY <2>1, <2>3 DEF LinkOf, Link
    <3>3. Established(c, d)'
      BY <1>1, <1>3, <2>1, <2>3, <2>5, <3>1, <3>2 DEF Established, Attached
    <3>4. d = "egress" => Cleared(f.pid, "ingress")'
      BY <1>3, <2>3, <2>5, <3>1 DEF Cleared
    <3>5. d = "ingress" => Established(c, "egress")'
      BY <1>3, <2>3, <2>5, <3>1, <3>2 DEF Cleared, Established
    <3> QED BY <3>3, <3>4, <3>5
  <2> QED BY <1>1, <1>2, <1>3, <2>1, <2>4, <2>6, <2>7, NextDirectionInv
<1>4. CASE attached' = attached \ {Link(c)} /\ Fail(c, "BPF_PIN") /\ UNCHANGED <<pinned, pindirs>>
  BY <1>1, <1>4, FailInv DEF Codes
<1> QED BY <1>3, <1>4 DEF pin

\* A step of the detach loop takes links away and leaves the rest.
LEMMA DetachStepInv ==
    ASSUME Inv, NEW c \in Actors, Steps(c), call[c].at \in {"detach", "unlink"},
           UNCHANGED <<alive, parent, dirs, member, pindirs, bpffs, watched>>,
           attached' \subseteq attached, pinned' \subseteq pinned,
           \A l \in attached' : l \in pinned => l \in pinned',
           call'[c].fd = call[c].fd, call'[c].pid = call[c].pid,
           ControlOf(call'[c]),
           call[c].solo => SoloPath(c)'
    PROVE  Inv'
<1>1. Working(c) /\ ~At(c, "pin")
  BY DEF Working, At
<1>2. PinnedOrHeld'
  BY <1>1, MovePinned
<1>3. /\ attached' \subseteq Links /\ \A l \in attached' : l.pid \in dirs /\ l.kbps # Unlimited
      /\ pinned' \subseteq Links /\ \A l \in pinned' : l.pid \in pindirs
  BY DEF Inv, Types, KernelInv
<1> QED BY <1>1, <1>2, <1>3, CallFacts, LinkMove

\* The link that is pinned for the direction is detached.
LEMMA bpf_link_detachInv ==
    ASSUME Inv, NEW c \in Actors, bpf_link_detach(c)
    PROVE  Inv'
<1> DEFINE f == call[c]
<1>1. /\ ControlOf(f) /\ f.at = "detach" /\ f.dir \in Directions /\ (f.solo => SoloPath(c))
      /\ Types /\ attached' = attached \ PinnedAt(f.pid, f.dir) /\ Goto(c, "unlink")
      /\ UNCHANGED <<alive, parent, dirs, member, pinned, pindirs, bpffs, watched>>
  BY CallFacts DEF bpf_link_detach, At, Inv
<1>2. Moves(c, "unlink", f.ret, f.dir, f.fd)
  BY <1>1, GotoMoves DEF Labels
<1>3. ControlOf(call'[c])
  BY <1>1, <1>2 DEF Moves, ControlOf, OpenLabels
<1>4. Cleared(f.pid, "egress") => Cleared(f.pid, "egress")'
  BY <1>1, <1>2, ShrinkCleared DEF Moves, Directions
<1>5. f.solo => SoloPath(c)'
  BY <1>1, <1>2, <1>4 DEF Moves, SoloPath, LimitPath, DetachPath, UnregisterPath, CleanPath
<1> QED BY <1>1, <1>2, <1>3, <1>5, DetachStepInv DEF Moves

\* The pin goes, and with it the last of the direction's links.
LEMMA unlink_pinInv ==
    ASSUME Inv, NEW c \in Actors, unlink_pin(c)
    PROVE  Inv'
<1> DEFINE f == call[c]
           there == PinnedAt(f.pid, f.dir)
<1>1. /\ ControlOf(f) /\ f.at = "unlink" /\ f.dir \in Directions /\ (f.solo => SoloPath(c))
      /\ Types /\ f \in Frame
      /\ attached' = attached \ there /\ pinned' = pinned \ there
      /\ UNCHANGED <<alive, parent, dirs, member, pindirs, bpffs, watched>>
  BY CallFacts, FrameType DEF unlink_pin, At, Inv
<1>2. ASSUME f.solo, call'[c].pid = f.pid, NEW d \in Directions, d = f.dir
      PROVE  Cleared(f.pid, d)'
  <2>1. attached \subseteq pinned
    BY <1>1, <1>2, SoloPinned DEF At
  <2> QED BY <1>1, <1>2, <2>1 DEF Cleared, PinnedAt
<1>3. CASE f.dir = "egress" /\ Set(c, [f EXCEPT !.at = "detach", !.dir = "ingress"])
  <2> DEFINE g == [f EXCEPT !.at = "detach", !.dir = "ingress"]
  <2>1. /\ g \in Frame /\ g.at = "detach" /\ g.dir = "ingress" /\ g.ret = f.ret /\ g.fd = f.fd
        /\ g.op = f.op /\ g.pid = f.pid /\ g.config = f.config /\ g.solo = f.solo
    BY <1>1 DEF Frame, Labels, Directions
  <2>2. Set(c, g)
    BY <1>3
  <2> HIDE DEF g
  <2>3. Moves(c, "detach", f.ret, "ingress", f.fd)
    BY <1>1, <2>1, <2>2, SetFrame DEF Moves, Steps
  <2>4. ControlOf(call'[c])
    BY <1>1, <2>3 DEF Moves, ControlOf, OpenLabels
  <2>5. f.solo => Cleared(f.pid, "egress")'
    BY <1>2, <1>3, <2>3 DEF Moves, Directions
  <2>6. f.solo => SoloPath(c)'
    BY <1>1, <2>3, <2>5 DEF Moves, SoloPath, LimitPath, DetachPath, UnregisterPath, CleanPath
  <2> QED BY <1>1, <2>3, <2>4, <2>6, DetachStepInv DEF Moves
<1>4. CASE f.dir # "egress" /\ Goto(c, "rmdir")
  <2>1. Moves(c, "rmdir", f.ret, f.dir, f.fd) /\ f.dir = "ingress"
    BY <1>1, <1>4, GotoMoves DEF Labels, Directions
  <2>2. ControlOf(call'[c])
    BY <1>1, <2>1 DEF Moves, ControlOf, OpenLabels
  <2>3. f.solo => Cleared(f.pid, "egress")' /\ Cleared(f.pid, "ingress")'
    BY <1>1, <1>2, <2>1, ShrinkCleared DEF Moves, Directions, SoloPath, DetachPath
  <2>4. f.solo => SoloPath(c)'
    BY <1>1, <2>1, <2>3
       DEF Moves, SoloPath, LimitPath, DetachPath, UnregisterPath, CleanPath, Directions
  <2> QED BY <1>1, <2>1, <2>2, <2>4, DetachStepInv DEF Moves
<1> QED BY <1>3, <1>4 DEF unlink_pin

\* The pin directory goes if it is empty.
LEMMA rmdir_pinsInv ==
    ASSUME Inv, NEW c \in Actors, rmdir_pins(c)
    PROVE  Inv'
<1> DEFINE f == call[c]
           at == AfterDetach(f)
<1>1. /\ Working(c) /\ ~At(c, "pin") /\ ControlOf(f) /\ f.at = "rmdir" /\ f.pid \in Pids
      /\ f.fd = "open" => f.pid \in dirs
      /\ (f.solo => SoloPath(c)) /\ Types /\ Goto(c, at)
      /\ UNCHANGED <<alive, parent, dirs, member, attached, pinned, bpffs, watched>>
  BY CallFacts DEF rmdir_pins, At, Inv, Working
<1>2. /\ at \in Labels /\ at \in {"create_pin_dir", "delete"}
      /\ at = "create_pin_dir" <=> f.op = "limit" /\ f.ret = "OK"
  BY DEF AfterDetach, Labels
<1> HIDE DEF at
<1>3. Moves(c, at, f.ret, f.dir, f.fd)
  BY <1>1, <1>2, GotoMoves
<1>4. ControlOf(call'[c])
  BY <1>1, <1>2, <1>3 DEF Moves, ControlOf, OpenLabels
<1>5. \A d \in Directions : Cleared(f.pid, d)' <=> Cleared(f.pid, d)
  BY <1>1, <1>3, SameLinks DEF Moves
<1>6. f.solo => SoloPath(c)'
  BY <1>1, <1>2, <1>3, <1>5 DEF Moves, SoloPath, LimitPath, DetachPath, UnregisterPath, CleanPath
<1>7. /\ pindirs' \subseteq pindirs
      /\ \A l \in pinned : l.pid \in pindirs'
  BY <1>1 DEF rmdir_pins, PinnedAt, Types, Links
<1> QED BY <1>1, <1>3, <1>4, <1>6, <1>7, KernelMove DEF Inv, Types, KernelInv, Moves

\* The call ends, or ratelimit_cleanup_all goes to the next cgroup.
LEMMA AfterDeleteFrame ==
    ASSUME Inv, NEW c \in Actors, call[c].at = "delete"
    PROVE  LET g == AfterDelete(c)
           IN  /\ g \in Frame /\ g.fd = "none"
               /\ g.at = IF call[c].op = "clean" THEN "next" ELSE "done"
               /\ g.ret = call[c].ret /\ g.dir = call[c].dir /\ g.op = call[c].op
               /\ g.pid = call[c].pid /\ g.config = call[c].config /\ g.solo = call[c].solo
               /\ g.todo = call[c].todo
<1>1. call[c] \in Frame /\ (call[c].op = "clean" => call[c].fd = "none")
  BY FrameType, CallFacts DEF Inv, ControlOf, OpenLabels
<1>2. CASE call[c].op = "clean"
  <2>1. AfterDelete(c) = [call[c] EXCEPT !.at = "next"]
    BY <1>2 DEF AfterDelete
  <2> QED BY <1>1, <1>2, <2>1 DEF Frame, Labels
<1>3. CASE call[c].op # "clean"
  <2>1. AfterDelete(c) = [call[c] EXCEPT !.at = "done", !.fd = "none"]
    BY <1>3 DEF AfterDelete
  <2> QED BY <1>1, <1>3, <2>1 DEF Frame, Labels
<1> QED BY <1>2, <1>3

\* The cgroup goes with its links, or libcgroup fails and the call goes on.
LEMMA delete_cgroupInv ==
    ASSUME Inv, NEW c \in Actors, delete_cgroup(c)
    PROVE  Inv'
<1> DEFINE f == call[c]
           g == AfterDelete(c)
           p == f.pid
           moved == [member EXCEPT ![p] = IF @ = "child" THEN "parent" ELSE @]
<1>1. /\ Working(c) /\ ~At(c, "pin") /\ ControlOf(f) /\ f.at = "delete" /\ f.pid \in Pids
      /\ (f.solo => SoloPath(c)) /\ Types
      /\ UNCHANGED <<alive, parent, pinned, pindirs, bpffs, watched>>
  BY CallFacts DEF delete_cgroup, At, Inv, Working
<1>2. /\ g \in Frame /\ g.fd = "none" /\ g.at = IF f.op = "clean" THEN "next" ELSE "done"
      /\ g.ret = f.ret /\ g.dir = f.dir /\ g.op = f.op /\ g.pid = f.pid /\ g.config = f.config
      /\ g.solo = f.solo /\ g.todo = f.todo
  BY <1>1, AfterDeleteFrame
<1> HIDE DEF g
<1>3. ControlOf(g)
  BY <1>1, <1>2 DEF ControlOf, OpenLabels
<1>4. /\ moved \in [Pids -> {"outside", "parent", "child"}]
      /\ \A q \in Pids : moved[q] = "child" => q \in dirs /\ q # p
      /\ \A q \in Pids : moved[q] # "outside" => parent
  BY <1>1 DEF Inv, Types, KernelInv
<1>5. CASE /\ MayFail("LIBCG_DELETE") /\ member' \in {member, moved} /\ Set(c, g)
           /\ UNCHANGED <<dirs, attached>>
  <2>1. Moves(c, g.at, g.ret, g.dir, g.fd) /\ call'[c] = g
    BY <1>1, <1>2, <1>5, SetFrame DEF Moves, Steps
  <2>2. \A d \in Directions : Cleared(p, d)' <=> Cleared(p, d)
    BY <1>1, <1>5, <2>1, SameLinks DEF Moves
  <2>3. f.solo => SoloPath(c)'
    BY <1>1, <1>2, <1>5, <2>1, <2>2
       DEF Moves, ControlOf, OpenLabels, SoloPath, LimitPath, DetachPath, UnregisterPath, CleanPath
  <2>4. /\ member' \in [Pids -> {"outside", "parent", "child"}]
        /\ \A q \in Pids : member'[q] = "child" => q \in dirs
        /\ \A q \in Pids : member'[q] # "outside" => parent
    BY <1>4, <1>5 DEF Inv, Types, KernelInv
  <2> QED BY <1>1, <1>2, <1>3, <1>5, <2>1, <2>3, <2>4, KernelMove DEF Inv, Types, KernelInv, Moves
<1>6. CASE /\ dirs' = dirs \ {p} /\ member' = moved /\ attached' = {l \in attached : l.pid # p}
           /\ call' = [x \in Actors |->
                         IF x = c THEN g
                         ELSE IF call[x].pid = p /\ call[x].fd = "open"
                         THEN [call[x] EXCEPT !.fd = "stale"] ELSE call[x]]
  <2>1. call'[c] = g
    BY <1>6
  <2>2. ASSUME NEW x \in Actors \ {c}
        PROVE  /\ call'[x] \in Frame
               /\ call'[x].at = call[x].at /\ call'[x].op = call[x].op
               /\ call'[x].pid = call[x].pid /\ call'[x].config = call[x].config
               /\ call'[x].dir = call[x].dir /\ call'[x].ret = call[x].ret
               /\ call'[x].solo = call[x].solo
               /\ call'[x].fd = IF call[x].pid = p /\ call[x].fd = "open" THEN "stale" ELSE call[x].fd
    <3>1. call[x] \in Frame
      BY <1>1, FrameType
    <3>2. CASE call[x].pid = p /\ call[x].fd = "open"
      <4>1. call'[x] = [call[x] EXCEPT !.fd = "stale"]
        BY <1>6, <2>2, <3>2
      <4> QED BY <3>1, <3>2, <4>1 DEF Frame
    <3>3. CASE ~(call[x].pid = p /\ call[x].fd = "open")
      <4>1. call'[x] = call[x]
        BY <1>6, <2>2, <3>3
      <4> QED BY <3>1, <3>3, <4>1
    <3> QED BY <3>2, <3>3
  <2>3. call' \in [Actors -> Frame]
    <3>1. \A x \in Actors : call'[x] \in Frame
      BY <1>2, <2>1, <2>2
    <3>2. call' = [x \in Actors |-> call'[x]]
      BY <1>6
    <3> QED BY <3>1, <3>2
  <2>4. Types'
    BY <1>1, <1>4, <1>6, <2>3 DEF Types
  <2>5. Control'
    <3>1. ASSUME NEW x \in Actors \ {c} PROVE ControlOf(call'[x])
      BY <2>2, CallFacts DEF ControlOf, OpenLabels
    <3> QED BY <1>3, <2>1, <3>1 DEF Control
  <2>6. KernelInv'
    <3>1. ASSUME NEW x \in Actors, call'[x].fd = "open" PROVE call'[x].pid \in dirs'
      BY <1>2, <1>6, <2>1, <2>2, <3>1, CallFacts
    <3> QED BY <1>1, <1>4, <1>6, <3>1 DEF Inv, KernelInv
  <2>7. PinnedOrHeld'
    <3> SUFFICES ASSUME NEW l \in attached', l \notin pinned'
                 PROVE  At(l.by, "pin")' /\ (Link(l.by) = l)'
      BY DEF PinnedOrHeld
    <3>1. l \in attached /\ At(l.by, "pin") /\ Link(l.by) = l /\ l \in Links
      BY <1>1, <1>6 DEF Inv, PinnedOrHeld, Types
    <3>2. l.by \in Actors \ {c}
      BY <1>1, <3>1 DEF Links, At
    <3> QED BY <2>2, <3>1, <3>2 DEF At, Link
  <2>8. Exclusive'
    <3>1. \A x \in Actors \ {c} : ~call[x].solo
      BY <1>1 DEF Inv, Exclusive, Working
    <3>2. \A x \in Actors \ {c} : ~call'[x].solo
      BY <2>2, <3>1
    <3> QED BY <1>2, <2>1, <2>2, <3>2 DEF Inv, Exclusive, At
  <2>9. SoloInv'
    <3>1. \A x \in Actors \ {c} : ~call'[x].solo
      BY <1>1, <2>2 DEF Inv, Exclusive, Working
    <3>2. \A d \in Directions : Cleared(p, d) => Cleared(p, d)'
      BY <1>1, <1>2, <1>6, <2>1, ShrinkCleared
    <3>3. f.solo => SoloPath(c)'
      BY <1>1, <1>2, <1>6, <2>1, <3>2
         DEF ControlOf, OpenLabels, SoloPath, LimitPath, DetachPath, UnregisterPath, CleanPath
    <3> QED BY <1>2, <2>1, <3>1, <3>3 DEF SoloInv
  <2> QED BY <2>4, <2>5, <2>6, <2>7, <2>8, <2>9 DEF Inv
<1> QED BY <1>5, <1>6 DEF delete_cgroup, g

\* A cgroup that exists goes to the detach loop.
LEMMA delete_pid_cgroupInv ==
    ASSUME Inv, NEW c \in Actors, delete_pid_cgroup(c)
    PROVE  Inv'
<1> DEFINE f == call[c]
<1>1. /\ Working(c) /\ ~At(c, "pin") /\ ControlOf(f) /\ f.at = "open" /\ f.ret = "OK"
      /\ f.op \in {"unregister", "clean"} /\ f.fd = "none"
      /\ f.pid \in Pids /\ (f.solo => SoloPath(c)) /\ Types /\ f \in Frame
      /\ UNCHANGED <<kernel, watched>>
  BY CallFacts, FrameType DEF delete_pid_cgroup, At, Working, ControlOf, OpenLabels, Inv
<1>2. CASE Set(c, Detaching(f))
  <2>1. Moves(c, DetachAt(f), f.ret, "egress", f.fd)
    BY <1>1, <1>2, DetachMoves
  <2>2. DetachAt(f) = IF bpffs THEN "detach" ELSE "delete"
    BY <1>1 DEF DetachAt, AfterDetach
  <2>3. ControlOf(call'[c])
    BY <1>1, <2>1, <2>2 DEF Moves, ControlOf, OpenLabels
  <2>4. f.solo /\ ~bpffs => \A d \in Directions : Cleared(f.pid, d)
    BY <1>1, SoloNoBpffs
  <2>5. \A d \in Directions : Cleared(f.pid, d)' <=> Cleared(f.pid, d)
    BY <1>1, <2>1, SameLinks DEF Moves, kernel
  <2>6. f.solo => SoloPath(c)'
    BY <1>1, <2>1, <2>2, <2>4, <2>5
       DEF Moves, kernel, SoloPath, LimitPath, DetachPath, UnregisterPath, CleanPath
  <2> QED BY <1>1, <2>1, <2>3, <2>6, FrameMove DEF Types, Moves
<1>3. CASE f.op = "clean" /\ Goto(c, "next")
  <2>1. Moves(c, "next", f.ret, f.dir, f.fd)
    BY <1>1, <1>3, GotoMoves DEF Labels
  <2>2. ControlOf(call'[c])
    BY <1>1, <1>3, <2>1 DEF Moves, ControlOf, OpenLabels
  <2>3. SoloPath(c)'
    BY <1>1, <1>3, <2>1 DEF Moves, SoloPath, LimitPath, DetachPath, UnregisterPath, CleanPath
  <2> QED BY <1>1, <2>1, <2>2, <2>3, FrameMove DEF Types, Moves
<1>4. ASSUME NEW code \in {"CGROUP_NOT_FOUND", "LIBCG_DELETE"}, f.op = "unregister", Done(c, code)
      PROVE  Inv'
  <2>1. Moves(c, "done", code, f.dir, f.fd) /\ code # "OK"
    BY <1>1, <1>4, DoneMoves DEF Codes
  <2>2. ControlOf(call'[c])
    BY <1>1, <2>1 DEF Moves, ControlOf, OpenLabels
  <2>3. f.solo => SoloPath(c)'
    BY <1>1, <1>4, <2>1 DEF Moves, SoloPath, LimitPath, DetachPath, UnregisterPath, CleanPath
  <2> QED BY <1>1, <2>1, <2>2, <2>3, FrameMove DEF Types, Moves
<1> QED BY <1>2, <1>3, <1>4 DEF delete_pid_cgroup

\* cgroup_walk_tree_begin.
LEMMA walkInv ==
    ASSUME Inv, NEW c \in Actors, walk(c)
    PROVE  Inv'
<1> PICK seen \in SUBSET dirs : Set(c, [call[c] EXCEPT !.at = "next", !.todo = seen])
  BY DEF walk
<1> DEFINE f == call[c]
           g == [f EXCEPT !.at = "next", !.todo = seen]
<1>1. /\ Working(c) /\ ~At(c, "pin") /\ ControlOf(f) /\ f.at = "walk" /\ f.op = "clean"
      /\ Types /\ f \in Frame /\ dirs \subseteq Pids /\ Set(c, g) /\ UNCHANGED <<kernel, watched>>
  BY CallFacts, FrameType DEF walk, At, Working, ControlOf, OpenLabels, Inv, Types
<1>2. /\ g \in Frame /\ g.at = "next" /\ g.ret = f.ret /\ g.fd = f.fd
      /\ g.op = f.op /\ g.pid = f.pid /\ g.config = f.config /\ g.solo = f.solo
  BY <1>1 DEF Frame, Labels
<1> HIDE DEF g
<1>3. Steps(c) /\ call'[c] = g
  BY <1>1, <1>2, SetFrame DEF Steps
<1>4. ControlOf(call'[c])
  BY <1>1, <1>2, <1>3 DEF ControlOf, OpenLabels
<1>5. SoloPath(c)'
  BY <1>1, <1>2, <1>3 DEF SoloPath, LimitPath, DetachPath, UnregisterPath, CleanPath
<1> QED BY <1>1, <1>2, <1>3, <1>4, <1>5, FrameMove DEF Types, ControlOf, OpenLabels

\* The walk goes to a cgroup that it found, or ends.
LEMMA walk_nextInv ==
    ASSUME Inv, NEW c \in Actors, walk_next(c)
    PROVE  Inv'
<1> DEFINE f == call[c]
<1>1. /\ Working(c) /\ ~At(c, "pin") /\ ControlOf(f) /\ f.at = "next" /\ f.op = "clean"
      /\ Types /\ f \in Frame /\ f.todo \subseteq Pids /\ UNCHANGED <<kernel, watched>>
  BY CallFacts, FrameType DEF walk_next, At, Working, ControlOf, OpenLabels, Inv
<1>2. ASSUME NEW p \in f.todo, Set(c, [f EXCEPT !.at = "open", !.pid = p, !.todo = @ \ {p}])
      PROVE  Inv'
  <2> DEFINE g == [f EXCEPT !.at = "open", !.pid = p, !.todo = @ \ {p}]
  <2>1. p \in Pids /\ f.todo \ {p} \in SUBSET Pids
    BY <1>1
  <2>2. /\ g \in Frame /\ g.at = "open" /\ g.ret = f.ret /\ g.fd = f.fd
        /\ g.op = f.op /\ g.config = f.config /\ g.solo = f.solo
    BY <1>1, <2>1 DEF Frame, Labels
  <2>3. Set(c, g)
    BY <1>2
  <2> HIDE DEF g
  <2>4. Steps(c) /\ call'[c] = g
    BY <1>1, <2>2, <2>3, SetFrame DEF Steps
  <2>5. ControlOf(call'[c])
    BY <1>1, <2>2, <2>4 DEF ControlOf, OpenLabels
  <2>6. SoloPath(c)'
    BY <1>1, <2>2, <2>4 DEF SoloPath, LimitPath, DetachPath, UnregisterPath, CleanPath
  <2> QED BY <1>1, <2>2, <2>4, <2>5, <2>6, FrameMove DEF Types, ControlOf, OpenLabels
<1>3. CASE Goto(c, "delete_parent")
  <2>1. Moves(c, "delete_parent", f.ret, f.dir, f.fd)
    BY <1>1, <1>3, GotoMoves DEF Labels
  <2>2. ControlOf(call'[c])
    BY <1>1, <2>1 DEF Moves, ControlOf, OpenLabels
  <2>3. SoloPath(c)'
    BY <1>1, <2>1 DEF Moves, SoloPath, LimitPath, DetachPath, UnregisterPath, CleanPath
  <2> QED BY <1>1, <2>1, <2>2, <2>3, FrameMove DEF Types, Moves, ControlOf, OpenLabels
<1> QED BY <1>2, <1>3 DEF walk_next

\* The parent cgroup is removed, or the cleanup fails.
LEMMA delete_parentInv ==
    ASSUME Inv, NEW c \in Actors, delete_parent(c)
    PROVE  Inv'
<1> DEFINE f == call[c]
<1>1. /\ Working(c) /\ ~At(c, "pin") /\ ControlOf(f) /\ f.at = "delete_parent" /\ f.op = "clean"
      /\ f.fd = "none" /\ Types
      /\ UNCHANGED <<alive, dirs, attached, pinned, pindirs, bpffs, watched>>
  BY CallFacts DEF delete_parent, At, Working, ControlOf, OpenLabels, Inv
<1>2. CASE /\ dirs = {} /\ parent' = FALSE /\ member' = [p \in Pids |-> "outside"]
           /\ Goto(c, "stop")
  <2>1. Moves(c, "stop", f.ret, f.dir, f.fd)
    BY <1>1, <1>2, GotoMoves DEF Labels
  <2>2. ControlOf(call'[c])
    BY <1>1, <2>1 DEF Moves, ControlOf, OpenLabels
  <2>3. SoloPath(c)'
    BY <1>1, <1>2, <2>1 DEF Moves, SoloPath, LimitPath, DetachPath, UnregisterPath, CleanPath
  <2> QED BY <1>1, <1>2, <2>1, <2>2, <2>3, KernelMove DEF Inv, Types, KernelInv, Moves
<1>3. CASE Done(c, "LIBCG_DELETE") /\ UNCHANGED <<parent, member>>
  <2>1. Moves(c, "done", "LIBCG_DELETE", f.dir, f.fd)
    BY <1>1, <1>3, DoneMoves DEF Codes
  <2>2. ControlOf(call'[c])
    BY <1>1, <2>1 DEF Moves, ControlOf, OpenLabels
  <2>3. SoloPath(c)'
    BY <1>1, <2>1 DEF Moves, SoloPath, LimitPath, DetachPath, UnregisterPath, CleanPath
  <2> QED BY <1>1, <1>3, <2>1, <2>2, <2>3, FrameMove DEF Types, Moves, kernel
<1> QED BY <1>2, <1>3 DEF delete_parent

\* unregister_rate_limiter_by_pid tells the daemon first.
LEMMA monitor_unwatch_pidInv ==
    ASSUME Inv, NEW c \in Actors, monitor_unwatch_pid(c)
    PROVE  Inv'
<1> DEFINE f == call[c]
<1>1. /\ Working(c) /\ ~At(c, "pin") /\ ControlOf(f) /\ f.at = "unwatch" /\ f.op = "unregister"
      /\ f.fd = "none" /\ f.ret = "OK" /\ Types /\ f.pid \in Pids
      /\ Goto(c, "open") /\ UNCHANGED kernel
  BY CallFacts DEF monitor_unwatch_pid, At, Working, ControlOf, OpenLabels, Inv
<1>2. Moves(c, "open", f.ret, f.dir, f.fd)
  BY <1>1, GotoMoves DEF Labels
<1>3. /\ watched' \in [Pids -> {"none", "live", "dead"}]
      /\ watched'[f.pid] = "none" \/ MayFail("MONITOR")
  BY <1>1 DEF monitor_unwatch_pid, Types
<1>4. ControlOf(call'[c])
  BY <1>1, <1>2 DEF Moves, ControlOf, OpenLabels
<1>5. SoloPath(c)'
  BY <1>1, <1>2, <1>3 DEF Moves, SoloPath, LimitPath, DetachPath, UnregisterPath, CleanPath
<1> QED BY <1>1, <1>2, <1>3, <1>4, <1>5, FrameMove DEF Moves

\* ratelimit_cleanup_all stops the daemon last.
LEMMA monitor_stopInv ==
    ASSUME Inv, NEW c \in Actors, monitor_stop(c)
    PROVE  Inv'
<1> DEFINE f == call[c]
<1>1. /\ Working(c) /\ ~At(c, "pin") /\ ControlOf(f) /\ f.at = "stop" /\ f.op = "clean"
      /\ f.fd = "none" /\ f.ret = "OK" /\ Types /\ (f.solo => SoloPath(c))
      /\ Done(c, "OK") /\ UNCHANGED kernel
  BY CallFacts DEF monitor_stop, At, Working, ControlOf, OpenLabels, Inv
<1>2. Moves(c, "done", "OK", f.dir, f.fd)
  BY <1>1, DoneMoves DEF Codes
<1>3. watched' \in [Pids -> {"none", "live", "dead"}]
  BY <1>1 DEF monitor_stop, Types
<1>4. ControlOf(call'[c])
  BY <1>1, <1>2 DEF Moves, ControlOf, OpenLabels
<1>5. f.solo => SoloPath(c)'
  BY <1>1, <1>2 DEF Moves, kernel, SoloPath, LimitPath, DetachPath, UnregisterPath, CleanPath
<1> QED BY <1>1, <1>2, <1>3, <1>4, <1>5, FrameMove DEF Moves

-----------------------------------------------------------------------------
(***************************************************************************)
(* Steps that begin, end or disturb calls.                                 *)
(***************************************************************************)

\* An actor's frame is the same except for the history of its call.
SameFrame(x) ==
    /\ call'[x].at = call[x].at /\ call'[x].op = call[x].op /\ call'[x].pid = call[x].pid
    /\ call'[x].config = call[x].config /\ call'[x].dir = call[x].dir
    /\ call'[x].ret = call[x].ret /\ call'[x].fd = call[x].fd

\* A step that gives the actors of C other frames, and takes their held links.
LEMMA FramesInv ==
    ASSUME Inv, NEW C \in SUBSET Actors, call' \in [Actors -> Frame],
           \A x \in Actors \ C : SameFrame(x),
           \A x \in C : /\ At(x, "pin") => Link(x) \notin attached'
                        /\ ControlOf(call'[x])
                        /\ call'[x].fd = "none",
           attached' \subseteq attached, alive' \subseteq Pids,
           UNCHANGED <<parent, dirs, member, pinned, pindirs, bpffs>>,
           watched' \in [Pids -> {"none", "live", "dead"}],
           Exclusive', SoloInv'
    PROVE  Inv'
<1>1. Types'
  BY DEF Inv, Types
<1>2. Control'
  <2>1. ASSUME NEW x \in Actors \ C PROVE ControlOf(call'[x])
    BY CallFacts DEF ControlOf, OpenLabels, SameFrame
  <2> QED BY <2>1 DEF Control
<1>3. KernelInv'
  <2>1. ASSUME NEW x \in Actors, call'[x].fd = "open" PROVE call'[x].pid \in dirs'
    BY <2>1, CallFacts DEF SameFrame
  <2> QED BY <2>1 DEF Inv, KernelInv
<1>4. PinnedOrHeld'
  <2> SUFFICES ASSUME NEW l \in attached', l \notin pinned'
               PROVE  At(l.by, "pin")' /\ (Link(l.by) = l)'
    BY DEF PinnedOrHeld
  <2>1. l \in attached /\ At(l.by, "pin") /\ Link(l.by) = l /\ l \in Links
    BY DEF Inv, PinnedOrHeld, Types
  <2>2. l.by \in Actors \ C
    BY <2>1 DEF Links
  <2> QED BY <2>1, <2>2 DEF At, Link, SameFrame
<1> QED BY <1>1, <1>2, <1>3, <1>4 DEF Inv

\* What an undisturbed call has reached stays when its frame and the kernel's
\* objects do, and the daemon neither takes up nor drops its process.
LEMMA SoloPathSame ==
    ASSUME Inv, NEW x \in Actors, call[x].solo, SameFrame(x),
           UNCHANGED <<parent, dirs, attached, pinned, bpffs>>,
           call[x].pid \in alive' =>
              call[x].pid \in alive /\ member'[call[x].pid] = member[call[x].pid],
           watched'[call[x].pid] = "none" <=> watched[call[x].pid] = "none"
    PROVE  SoloPath(x)'
<1>1. SoloPath(x)
  BY CallFacts
<1>2. \A d \in Directions : /\ Cleared(call[x].pid, d)' <=> Cleared(call[x].pid, d)
                            /\ Established(x, d)' <=> Established(x, d)
  BY SameLinks DEF SameFrame
<1>3. Attached(x)' <=> Attached(x)
  BY DEF Attached, SameFrame, LinkOf
<1> QED BY <1>1, <1>2, <1>3
        DEF SameFrame, SoloPath, LimitPath, DetachPath, UnregisterPath, CleanPath, Directions

\* The frames after a call begins.
LEMMA BeginFrames ==
    ASSUME Types, NEW c \in Actors, NEW frame \in Frame, Begin(c, frame)
    PROVE  /\ call' \in [Actors -> Frame]
           /\ call'[c].at = frame.at /\ call'[c].op = frame.op /\ call'[c].pid = frame.pid
           /\ call'[c].config = frame.config /\ call'[c].dir = frame.dir
           /\ call'[c].ret = frame.ret /\ call'[c].fd = frame.fd
           /\ call'[c].solo <=> \A y \in Actors \ {c} : At(y, "idle") \/ At(y, "done")
           /\ \A x \in Actors \ {c} : SameFrame(x) /\ call'[x].solo = FALSE
<1> DEFINE alone == \A y \in Actors \ {c} : At(y, "idle") \/ At(y, "done")
           g == [frame EXCEPT !.solo = alone]
<1>1. alone \in BOOLEAN
  OBVIOUS
<1>2. call' = [x \in Actors |-> IF x = c THEN g ELSE [call[x] EXCEPT !.solo = FALSE]]
  BY DEF Begin
<1> HIDE DEF alone
<1>3. /\ g \in Frame /\ g.at = frame.at /\ g.op = frame.op /\ g.pid = frame.pid
      /\ g.config = frame.config /\ g.dir = frame.dir /\ g.ret = frame.ret /\ g.fd = frame.fd
      /\ g.solo = alone
  BY <1>1 DEF Frame
<1>4. call'[c] = g
  BY <1>2
<1>5. ASSUME NEW x \in Actors \ {c}
      PROVE  SameFrame(x) /\ call'[x].solo = FALSE /\ call'[x] \in Frame
  <2>1. call[x] \in Frame
    BY FrameType
  <2>2. call'[x] = [call[x] EXCEPT !.solo = FALSE]
    BY <1>2
  <2> QED BY <2>1, <2>2 DEF Frame, SameFrame
<1> HIDE DEF g
<1>6. call' \in [Actors -> Frame]
  <2>1. \A x \in Actors : call'[x] \in Frame
    BY <1>3, <1>4, <1>5
  <2>2. call' = [x \in Actors |-> call'[x]]
    BY <1>2
  <2> QED BY <2>1, <2>2
<1>7. call'[c].solo <=> alone
  BY <1>3, <1>4
<1> QED BY <1>3, <1>4, <1>5, <1>6, <1>7 DEF alone

\* A call begins.
LEMMA BeginInv ==
    ASSUME Inv, NEW c \in Actors, NEW frame \in Frame, Begin(c, frame), At(c, "idle"),
           ControlOf(frame), frame.fd = "none",
           UNCHANGED kernel, watched' \in [Pids -> {"none", "live", "dead"}],
           SoloPath(c)'
    PROVE  Inv'
<1>1. /\ call' \in [Actors -> Frame]
      /\ call'[c].at = frame.at /\ call'[c].op = frame.op /\ call'[c].pid = frame.pid
      /\ call'[c].config = frame.config /\ call'[c].dir = frame.dir
      /\ call'[c].ret = frame.ret /\ call'[c].fd = frame.fd
      /\ call'[c].solo <=> \A y \in Actors \ {c} : At(y, "idle") \/ At(y, "done")
      /\ \A x \in Actors \ {c} : SameFrame(x) /\ call'[x].solo = FALSE
  BY BeginFrames DEF Inv
<1>2. ControlOf(call'[c])
  BY <1>1 DEF ControlOf, OpenLabels
<1>3. Exclusive'
  BY <1>1 DEF Exclusive, SameFrame, At
<1>4. SoloInv'
  BY <1>1 DEF SoloInv
<1>5. ~At(c, "pin")
  BY DEF At
<1>6. /\ {c} \in SUBSET Actors
      /\ \A x \in Actors \ {c} : SameFrame(x)
      /\ \A x \in {c} : /\ At(x, "pin") => Link(x) \notin attached'
                       /\ ControlOf(call'[x])
                       /\ call'[x].fd = "none"
  BY <1>1, <1>2, <1>5
<1>7. /\ attached' \subseteq attached /\ alive' \subseteq Pids
      /\ UNCHANGED <<parent, dirs, member, pinned, pindirs, bpffs>>
  BY DEF kernel, Inv, Types
<1> QED BY <1>1, <1>3, <1>4, <1>6, <1>7, FramesInv

\* The operations that callers begin.
LEMMA StartInv ==
    ASSUME Inv, NEW c \in Callers, Start(c)
    PROVE  Inv'
<1>1. /\ c \in Actors /\ Types /\ Idle \in Frame /\ watched \in [Pids -> {"none", "live", "dead"}]
      /\ Idle.fd = "none" /\ Idle.ret = "OK"
  BY IdleType DEF Actors, Inv, Types, Idle
<1>2. ASSUME NEW p \in Pids, NEW config \in Configs, limit_process_bandwidth(c, p, config)
      PROVE  Inv'
  <2> DEFINE g == [Idle EXCEPT !.at = "create_parent", !.op = "limit", !.pid = p, !.config = config]
  <2>1. /\ g \in Frame /\ g.at = "create_parent" /\ g.op = "limit" /\ g.ret = "OK" /\ g.fd = "none"
    BY <1>1, <1>2 DEF Frame, Labels
  <2>2. Begin(c, g) /\ At(c, "idle") /\ UNCHANGED <<kernel, watched>> /\ "limit" \in Ops
    BY <1>2 DEF limit_process_bandwidth
  <2> HIDE DEF g
  <2>3. ControlOf(g)
    BY <2>1, <2>2 DEF ControlOf, OpenLabels
  <2>4. SoloPath(c)'
    BY <1>1, <2>1, <2>2, BeginFrames
       DEF SoloPath, LimitPath, DetachPath, UnregisterPath, CleanPath
  <2> QED BY <1>1, <2>1, <2>2, <2>3, <2>4, BeginInv
<1>3. ASSUME NEW p \in Pids, unregister_rate_limiter_by_pid(c, p)
      PROVE  Inv'
  <2> DEFINE g == [Idle EXCEPT !.at = "unwatch", !.op = "unregister", !.pid = p]
  <2>1. /\ g \in Frame /\ g.at = "unwatch" /\ g.op = "unregister" /\ g.ret = "OK" /\ g.fd = "none"
    BY <1>1, <1>3 DEF Frame, Labels
  <2>2. Begin(c, g) /\ At(c, "idle") /\ UNCHANGED <<kernel, watched>>
    BY <1>3 DEF unregister_rate_limiter_by_pid
  <2> HIDE DEF g
  <2>3. ControlOf(g)
    BY <2>1, <2>2 DEF ControlOf, OpenLabels
  <2>4. SoloPath(c)'
    BY <1>1, <2>1, <2>2, BeginFrames
       DEF SoloPath, LimitPath, DetachPath, UnregisterPath, CleanPath
  <2> QED BY <1>1, <2>1, <2>2, <2>3, <2>4, BeginInv
<1>4. CASE ratelimit_cleanup_all(c)
  <2>1. At(c, "idle") /\ UNCHANGED <<kernel, watched>> /\ "clean" \in Ops
    BY <1>4 DEF ratelimit_cleanup_all
  <2>2. ASSUME NEW g \in Frame, Begin(c, g), g.op = "clean", g.fd = "none",
               \/ g.at = "walk" /\ g.ret = "OK"
               \/ g.at = "done" /\ g.ret = "OK" /\ ~parent
               \/ g.at = "done" /\ g.ret = "OK_UNREAD"
        PROVE  Inv'
    <3>1. ControlOf(g)
      BY <2>1, <2>2 DEF ControlOf, OpenLabels
    <3>2. SoloPath(c)'
      BY <1>1, <2>1, <2>2, BeginFrames
         DEF SoloPath, LimitPath, DetachPath, UnregisterPath, CleanPath, kernel
    <3> QED BY <1>1, <2>1, <2>2, <3>1, <3>2, BeginInv
  <2> DEFINE begun == [Idle EXCEPT !.op = "clean"]
  <2>3. begun \in Frame /\ begun.op = "clean" /\ begun.fd = "none" /\ begun.ret = "OK"
    BY <1>1 DEF Frame
  <2>4. \/ parent /\ Begin(c, [begun EXCEPT !.at = "walk"])
        \/ ~parent /\ Begin(c, [begun EXCEPT !.at = "done"])
        \/ Begin(c, [begun EXCEPT !.at = "done", !.ret = "OK_UNREAD"])
    BY <1>4 DEF ratelimit_cleanup_all
  <2> HIDE DEF begun
  <2>5. ASSUME NEW at \in {"walk", "done"}, Begin(c, [begun EXCEPT !.at = at]),
               at = "done" => ~parent
        PROVE  Inv'
    <3> DEFINE g == [begun EXCEPT !.at = at]
    <3>1. g \in Frame /\ g.op = "clean" /\ g.fd = "none" /\ g.at = at /\ g.ret = "OK"
      BY <2>3 DEF Frame, Labels
    <3>2. Begin(c, g)
      BY <2>5
    <3> HIDE DEF g
    <3> QED BY <2>2, <2>5, <3>1, <3>2
  <2>6. CASE Begin(c, [begun EXCEPT !.at = "done", !.ret = "OK_UNREAD"])
    <3> DEFINE g == [begun EXCEPT !.at = "done", !.ret = "OK_UNREAD"]
    <3>1. g \in Frame /\ g.op = "clean" /\ g.fd = "none" /\ g.at = "done" /\ g.ret = "OK_UNREAD"
      BY <2>3 DEF Frame, Labels, Codes
    <3>2. Begin(c, g)
      BY <2>6
    <3> HIDE DEF g
    <3> QED BY <2>2, <3>1, <3>2
  <2> QED BY <2>4, <2>5, <2>6
<1> QED BY <1>2, <1>3, <1>4 DEF Start

\* The daemon's own unregister.
LEMMA MonitorUnregisterFrame ==
    ASSUME NEW p \in Pids
    PROVE  LET g == MonitorUnregister(p)
           IN  /\ g \in Frame /\ g.at = "open" /\ g.op = "unregister" /\ g.ret = "OK"
               /\ g.fd = "none" /\ g.pid = p /\ g.solo = FALSE /\ ControlOf(g)
<1> DEFINE g == MonitorUnregister(p)
<1>1. /\ g \in Frame /\ g.at = "open" /\ g.op = "unregister" /\ g.ret = "OK"
      /\ g.fd = "none" /\ g.pid = p /\ g.solo = FALSE
  BY IdleType DEF MonitorUnregister, Frame, Labels, Idle
<1> HIDE DEF g
<1>2. ControlOf(g)
  BY <1>1 DEF ControlOf, OpenLabels
<1> QED BY <1>1, <1>2 DEF g

\* The daemon handles an exit.
LEMMA monitor_reapInv ==
    ASSUME Inv, NEW p \in Pids, monitor_reap(p)
    PROVE  Inv'
<1> DEFINE g == MonitorUnregister(p)
<1>1. /\ g \in Frame /\ g.at = "open" /\ g.op = "unregister" /\ g.ret = "OK"
      /\ g.fd = "none" /\ g.pid = p /\ ControlOf(g)
  BY MonitorUnregisterFrame
<1>2. /\ Begin(Monitor, g) /\ At(Monitor, "idle") /\ UNCHANGED kernel
      /\ watched' = [watched EXCEPT ![p] = "none"]
  BY DEF monitor_reap, MonitorFree
<1> HIDE DEF g
<1>3. /\ watched' \in [Pids -> {"none", "live", "dead"}] /\ watched'[p] = "none" /\ Types
      /\ Monitor \in Actors
  BY <1>2 DEF Inv, Types, Actors
<1>4. /\ call'[Monitor].at = "open" /\ call'[Monitor].op = "unregister" /\ call'[Monitor].pid = p
  <2>1. call'[Monitor].at = g.at /\ call'[Monitor].op = g.op /\ call'[Monitor].pid = g.pid
    <3>1. g \in Frame /\ Begin(Monitor, g) /\ Types /\ Monitor \in Actors
      BY <1>1, <1>2, <1>3
    <3> QED BY <3>1, BeginFrames, Zenon
  <2> QED BY <1>1, <2>1
<1>5. SoloPath(Monitor)'
  BY <1>3, <1>4 DEF SoloPath, LimitPath, DetachPath, UnregisterPath, CleanPath
<1> QED BY <1>1, <1>2, <1>3, <1>5, BeginInv

\* A call hands its process to the daemon.
LEMMA monitor_watch_pidInv ==
    ASSUME Inv, NEW c \in Actors, monitor_watch_pid(c)
    PROVE  Inv'
<1> DEFINE f == call[c]
           p == f.pid
           g == [f EXCEPT !.at = "done"]
<1>1. /\ Working(c) /\ ~At(c, "pin") /\ ControlOf(f) /\ f.at = "watch" /\ f.op = "limit"
      /\ f.fd = "none" /\ f.ret = "OK" /\ Types /\ f.pid \in Pids /\ (f.solo => SoloPath(c))
      /\ f \in Frame /\ UNCHANGED kernel
  BY CallFacts, FrameType DEF monitor_watch_pid, At, Working, ControlOf, OpenLabels, Inv
<1>2. /\ g \in Frame /\ g.at = "done" /\ g.ret = f.ret /\ g.dir = f.dir /\ g.fd = f.fd
      /\ g.op = f.op /\ g.pid = f.pid /\ g.config = f.config /\ g.solo = f.solo
  BY <1>1 DEF Frame, Labels
<1>3. ASSUME Set(c, g), watched' \in [Pids -> {"none", "live", "dead"}],
             watched'[p] # "none" \/ MayFail("MONITOR")
      PROVE  Inv'
  <2> HIDE DEF g
  <2>1. Moves(c, "done", f.ret, f.dir, f.fd)
    BY <1>1, <1>2, <1>3, SetFrame DEF Moves, Steps
  <2>2. ControlOf(call'[c])
    BY <1>1, <2>1 DEF Moves, ControlOf, OpenLabels
  <2>3. \A d \in Directions : Established(c, d)' <=> Established(c, d)
    BY <1>1, <2>1, SameLinks DEF Moves, kernel
  <2>4. f.solo => SoloPath(c)'
    BY <1>1, <1>3, <2>1, <2>3
       DEF Moves, kernel, SoloPath, LimitPath, DetachPath, UnregisterPath, CleanPath
  <2> QED BY <1>1, <1>3, <2>1, <2>2, <2>4, FrameMove DEF Moves
<1>4. CASE /\ watched[p] # "none" \/ p \in alive
           /\ watched' = [watched EXCEPT ![p] = IF @ = "none" THEN "live" ELSE @]
           /\ Set(c, g)
  <2>1. /\ watched' \in [Pids -> {"none", "live", "dead"}]
        /\ watched'[p] # "none"
    BY <1>1, <1>4 DEF Types
  <2> QED BY <1>3, <1>4, <2>1
<1>5. CASE MayFail("MONITOR") /\ Set(c, g) /\ UNCHANGED watched
  BY <1>1, <1>3, <1>5 DEF Types
<1>6. CASE /\ MonitorFree /\ UNCHANGED watched
           /\ call' = [x \in Actors |-> CASE x = c -> [g EXCEPT !.solo = FALSE]
                                          [] x = Monitor -> MonitorUnregister(p)
                                          [] OTHER -> [call[x] EXCEPT !.solo = FALSE]]
  <2> DEFINE h == [g EXCEPT !.solo = FALSE]
             m == MonitorUnregister(p)
             C == {c, Monitor}
  <2>1. c # Monitor /\ Monitor \in Actors /\ C \in SUBSET Actors /\ ~At(Monitor, "pin")
    BY <1>1, <1>6 DEF MonitorFree, At, Working, Actors
  <2>2. /\ h \in Frame /\ h.at = "done" /\ h.ret = f.ret /\ h.fd = f.fd
        /\ h.op = f.op /\ h.config = f.config /\ h.solo = FALSE
    BY <1>2 DEF Frame
  <2>3. /\ m \in Frame /\ m.fd = "none" /\ m.solo = FALSE /\ ControlOf(m)
    BY <1>1, MonitorUnregisterFrame
  <2>4. call'[c] = h /\ call'[Monitor] = m
    BY <1>6, <2>1
  <2>5. ASSUME NEW x \in Actors \ C
        PROVE  SameFrame(x) /\ call'[x].solo = FALSE /\ call'[x] \in Frame
    <3>1. call[x] \in Frame
      BY <1>1, FrameType
    <3>2. call'[x] = [call[x] EXCEPT !.solo = FALSE]
      BY <1>6
    <3> QED BY <3>1, <3>2 DEF Frame, SameFrame
  <2>6. ControlOf(h)
    BY <1>1, <2>2 DEF ControlOf, OpenLabels
  <2> HIDE DEF h, m
  <2>7. call' \in [Actors -> Frame]
    <3>1. \A x \in Actors : call'[x] \in Frame
      BY <2>2, <2>3, <2>4, <2>5
    <3>2. call' = [x \in Actors |-> call'[x]]
      BY <1>6
    <3> QED BY <3>1, <3>2
  <2>8. \A x \in Actors : ~call'[x].solo
    BY <2>2, <2>3, <2>4, <2>5
  <2>9. Exclusive' /\ SoloInv'
    BY <2>8 DEF Exclusive, SoloInv
  <2>10. \A x \in C : /\ At(x, "pin") => Link(x) \notin attached'
                      /\ ControlOf(call'[x])
                      /\ call'[x].fd = "none"
    BY <1>1, <2>1, <2>2, <2>3, <2>4, <2>6
  <2>11. /\ attached' \subseteq attached /\ alive' \subseteq Pids
         /\ UNCHANGED <<parent, dirs, member, pinned, pindirs, bpffs>>
         /\ watched' \in [Pids -> {"none", "live", "dead"}]
    BY <1>1, <1>6 DEF kernel, Types
  <2> HIDE DEF C
  <2> QED BY <2>1, <2>5, <2>7, <2>9, <2>10, <2>11, FramesInv
<1> QED BY <1>4, <1>5, <1>6 DEF monitor_watch_pid

\* An actor that leaves the library, whether its call has ended or it is
\* killed.
LEMMA LeaveInv ==
    ASSUME Inv, NEW c \in Actors, Set(c, Idle),
           UNCHANGED <<alive, parent, dirs, member, pinned, pindirs, bpffs>>,
           attached' = IF At(c, "pin") THEN attached \ {Link(c)} ELSE attached,
           watched' \in [Pids -> {"none", "live", "dead"}],
           UNCHANGED watched \/ (MayFail("KILLED") /\ \A p \in Pids : watched'[p] = "none")
    PROVE  Inv'
<1>1. Types /\ Idle \in Frame /\ Idle.solo = FALSE /\ Idle.fd = "none"
  BY IdleType DEF Inv, Idle
<1>2. ControlOf(Idle) /\ Idle.at = "idle"
  BY DEF ControlOf, OpenLabels, Idle
<1>3. call' \in [Actors -> Frame] /\ call'[c] = Idle /\ \A x \in Actors \ {c} : call'[x] = call[x]
  BY <1>1, SetFrame
<1>4. Exclusive'
  BY <1>1, <1>2, <1>3 DEF Inv, Exclusive, At
<1>5. SoloInv'
  <2> SUFFICES ASSUME NEW x \in Actors, call'[x].solo
               PROVE  SoloPath(x)'
    BY DEF SoloInv
  <2>1. x # c /\ call'[x] = call[x] /\ call[x].solo /\ call[x].pid \in Pids
    BY <1>1, <1>3, CallFacts
  <2>2. ~At(c, "pin")
    BY <2>1 DEF Inv, Exclusive, At
  <2>3. CASE UNCHANGED watched
    BY <2>1, <2>2, <2>3, SoloPathSame DEF SameFrame
  <2>4. CASE MayFail("KILLED") /\ \A p \in Pids : watched'[p] = "none"
    <3>1. SoloPath(x)
      BY <2>1, CallFacts
    <3>2. \A d \in Directions : /\ Cleared(call[x].pid, d)' <=> Cleared(call[x].pid, d)
                                /\ Established(x, d)' <=> Established(x, d)
      BY <2>1, <2>2, SameLinks
    <3>3. Attached(x)' <=> Attached(x)
      BY <2>1, <2>2 DEF Attached, LinkOf
    <3> QED BY <2>1, <2>2, <2>4, <3>1, <3>2, <3>3
            DEF SoloPath, LimitPath, DetachPath, UnregisterPath, CleanPath, Directions
  <2> QED BY <2>3, <2>4
<1>6. /\ {c} \in SUBSET Actors
      /\ \A x \in Actors \ {c} : SameFrame(x)
      /\ \A x \in {c} : /\ At(x, "pin") => Link(x) \notin attached'
                       /\ ControlOf(call'[x])
                       /\ call'[x].fd = "none"
  BY <1>1, <1>2, <1>3 DEF SameFrame
<1>7. attached' \subseteq attached /\ alive' \subseteq Pids
  BY <1>1 DEF Types
<1> QED BY <1>3, <1>4, <1>5, <1>6, <1>7, FramesInv

\* A caller takes its result.
LEMMA ReturnInv ==
    ASSUME Inv, NEW c \in Actors, Return(c)
    PROVE  Inv'
<1>1. At(c, "done") /\ ~At(c, "pin") /\ Set(c, Idle) /\ UNCHANGED <<kernel, watched>>
  BY DEF Return, At
<1> QED BY <1>1, LeaveInv DEF kernel, Inv, Types

\* An actor is killed.
LEMMA KillInv ==
    ASSUME Inv, NEW c \in Actors, Kill(c)
    PROVE  Inv'
BY LeaveInv DEF Kill, Inv, Types

\* A process exits.
LEMMA DieInv ==
    ASSUME Inv, NEW p \in Pids, Die(p)
    PROVE  Inv'
<1>1. /\ alive' = alive \ {p} /\ member' = [member EXCEPT ![p] = "outside"]
      /\ watched' = [watched EXCEPT ![p] = IF @ = "live" THEN "dead" ELSE @]
      /\ UNCHANGED <<parent, dirs, attached, pinned, pindirs, bpffs, call>>
      /\ member \in [Pids -> {"outside", "parent", "child"}]
      /\ watched \in [Pids -> {"none", "live", "dead"}]
  BY DEF Die, Inv, Types
<1>2. Types'
  BY <1>1 DEF Inv, Types
<1>3. Control' /\ Exclusive'
  BY <1>1 DEF Inv, Control, Exclusive, At
<1>4. KernelInv'
  BY <1>1 DEF Inv, KernelInv
<1>5. PinnedOrHeld'
  BY <1>1 DEF Inv, PinnedOrHeld, At, Link
<1>6. SoloInv'
  <2> SUFFICES ASSUME NEW x \in Actors, call[x].solo
               PROVE  SoloPath(x)'
    BY <1>1 DEF SoloInv
  <2>1. call[x].pid \in Pids /\ SameFrame(x)
    BY <1>1, CallFacts DEF SameFrame
  <2> QED BY <1>1, <2>1, SoloPathSame
<1> QED BY <1>2, <1>3, <1>4, <1>5, <1>6 DEF Inv

\* A pid is given to a new process.
LEMMA SpawnInv ==
    ASSUME Inv, NEW p \in Pids, Spawn(p)
    PROVE  Inv'
<1>1. /\ alive' = alive \cup {p}
      /\ UNCHANGED <<parent, dirs, member, attached, pinned, pindirs, bpffs, watched>>
      /\ call' = [c \in Actors |-> [call[c] EXCEPT !.solo = @ /\ call[c].pid # p]]
  BY DEF Spawn
<1>2. ASSUME NEW x \in Actors
      PROVE  /\ call'[x] \in Frame /\ SameFrame(x)
             /\ call'[x].solo <=> call[x].solo /\ call[x].pid # p
  <2>1. call[x] \in Frame
    BY FrameType DEF Inv
  <2> DEFINE solo == call[x].solo /\ call[x].pid # p
  <2>2. solo \in BOOLEAN
    OBVIOUS
  <2>3. call'[x] = [call[x] EXCEPT !.solo = solo]
    BY <1>1
  <2> HIDE DEF solo
  <2>4. call'[x] \in Frame /\ SameFrame(x) /\ call'[x].solo = solo
    BY <2>1, <2>2, <2>3 DEF Frame, SameFrame
  <2> QED BY <2>4 DEF solo
<1>3. call' \in [Actors -> Frame]
  <2>1. call' = [x \in Actors |-> call'[x]]
    BY <1>1
  <2> QED BY <1>2, <2>1
<1>4. Exclusive'
  BY <1>2 DEF Inv, Exclusive, At, SameFrame
<1>5. SoloInv'
  <2> SUFFICES ASSUME NEW x \in Actors, call'[x].solo
               PROVE  SoloPath(x)'
    BY DEF SoloInv
  <2> QED BY <1>1, <1>2, SoloPathSame
<1>6. /\ {} \in SUBSET Actors /\ \A x \in Actors \ {} : SameFrame(x)
      /\ attached' \subseteq attached /\ alive' \subseteq Pids
      /\ watched' \in [Pids -> {"none", "live", "dead"}]
  BY <1>1, <1>2 DEF Inv, Types
<1> QED BY <1>1, <1>3, <1>4, <1>5, <1>6, FramesInv

-----------------------------------------------------------------------------
(***************************************************************************)
(* The theorems about the library's invariants.                            *)
(***************************************************************************)

\* Nothing is limited, pinned or watched at first.
LEMMA InitInv == Init => Inv
<1> SUFFICES ASSUME Init PROVE Inv
  OBVIOUS
<1>1. \A c \in Actors : call[c] = Idle
  BY DEF Init
<1>2. Idle \in Frame /\ Idle.solo = FALSE /\ Idle.fd = "none" /\ ControlOf(Idle)
  BY IdleType DEF Idle, ControlOf, OpenLabels
<1>3. Types
  BY <1>2 DEF Init, Types
<1>4. Control /\ Exclusive /\ SoloInv
  BY <1>1, <1>2 DEF Control, Exclusive, SoloInv
<1>5. KernelInv /\ PinnedOrHeld
  BY <1>1, <1>2 DEF Init, KernelInv, PinnedOrHeld
<1> QED BY <1>3, <1>4, <1>5 DEF Inv

\* No step of a caller, of the daemon or of a process breaks the invariant.
LEMMA NextInv == Inv /\ [Next]_vars => Inv'
<1> SUFFICES ASSUME Inv, [Next]_vars PROVE Inv'
  OBVIOUS
<1>1. ASSUME NEW c \in Actors, Step(c) PROVE Inv'
  BY <1>1, create_parentInv, create_childInv, attach_taskInv, open_cgroup_fdInv,
     create_pin_dirInv, loadInv, attach_cgroupInv, pinInv, bpf_link_detachInv, unlink_pinInv,
     rmdir_pinsInv, delete_cgroupInv, delete_pid_cgroupInv, walkInv, walk_nextInv,
     delete_parentInv, monitor_watch_pidInv, monitor_unwatch_pidInv, monitor_stopInv, ReturnInv
     DEF Step
<1>2. ASSUME NEW p \in Pids, monitor_reap(p) \/ Die(p) \/ Spawn(p) PROVE Inv'
  BY <1>2, monitor_reapInv, DieInv, SpawnInv
<1>3. CASE UNCHANGED vars
  <2>1. UNCHANGED <<alive, parent, dirs, member, attached, pinned, pindirs, bpffs, watched, call>>
    BY <1>3 DEF vars, kernel
  <2>2. Types' /\ Control' /\ KernelInv' /\ PinnedOrHeld' /\ Exclusive'
    BY <2>1 DEF Inv, Types, Control, KernelInv, PinnedOrHeld, Exclusive, At, Link
  <2>3. SoloInv'
    BY <2>1, SoloPathSame DEF SoloInv, SameFrame
  <2> QED BY <2>2, <2>3 DEF Inv
<1> QED BY <1>1, <1>2, <1>3, StartInv, KillInv DEF Next

\* The invariant holds throughout.
LEMMA Invariance == Spec => []Inv
BY InitInv, NextInv, PTL DEF Spec

\* Every variable of the library keeps its type, a cgroup its parent, a
\* member and a link their cgroup and a pin its directory, and no call of
\* ratelimit.c ends with a descriptor open, whatever calls interleave, fail or
\* are killed.
THEOREM TypeCorrect == Spec => []TypeOK
<1>1. Inv => TypeOK
  BY DEF Inv, Control, ControlOf, OpenLabels, TypeOK
<1> QED BY <1>1, Invariance, PTL

\* No link of a limit is ever out of reach of detach_pinned_links: it is
\* pinned, or held by the call that is about to pin it.
THEOREM LinksInReach == Spec => []PinnedOrHeld
BY Invariance, PTL DEF Inv

\* A direction that is established reads back as the call's own rate.
LEMMA EstablishedReads ==
    ASSUME NEW c \in Actors, NEW d \in Directions, Established(c, d)
    PROVE  read_limit_from_cgroup_progs(call[c].pid, d) = call[c].config[d]
<1> DEFINE p == call[c].pid
           l == LinkOf(c, d)
<1>1. l.pid = p /\ l.dir = d /\ l.kbps = call[c].config[d]
  BY DEF LinkOf
<1>2. CASE call[c].config[d] = Unlimited
  <2>1. LinksOn(p, d) = {}
    BY <1>2 DEF Established, Cleared, LinksOn
  <2> QED BY <1>2, <2>1, FS_EmptySet DEF read_limit_from_cgroup_progs
<1>3. CASE call[c].config[d] # Unlimited
  <2> HIDE DEF l
  <2>1. l \in attached /\ \A k \in attached : k.pid = p /\ k.dir = d => k = l
    BY <1>3 DEF Established, l
  <2>2. LinksOn(p, d) = {l}
    BY <1>1, <2>1 DEF LinksOn
  <2>3. Cardinality({l}) = 1
    BY FS_Singleton
  <2>4. (CHOOSE k \in {l} : TRUE) = l
    OBVIOUS
  <2> QED BY <1>1, <2>2, <2>3, <2>4 DEF read_limit_from_cgroup_progs
<1> QED BY <1>2, <1>3

\* An undisturbed limit_process_bandwidth that reports success has put
\* exactly its own configuration in force, in pidnl/<pid>, pinned and
\* watched, for any leftovers of earlier calls.
THEOREM SoloLimitCorrect == Spec => []SoloLimit
<1>1. ASSUME Inv PROVE SoloLimit
  <2> SUFFICES ASSUME NEW c \in Callers, At(c, "done"), call[c].op = "limit",
                      call[c].ret = "OK", call[c].solo
               PROVE  LET p == call[c].pid
                      IN  /\ p \in dirs
                          /\ p \in alive => member[p] = "child"
                          /\ get_rate_limits_from_cgroup(p) = call[c].config
                          /\ {l \in pinned : l.pid = p} = {l \in attached : l.pid = p}
                          /\ watched[p] # "none" \/ MayFail("MONITOR") \/ MayFail("KILLED")
    BY DEF SoloLimit
  <2> DEFINE p == call[c].pid
  <2>1. c \in Actors
    BY DEF Actors
  <2>2. /\ p \in dirs /\ (p \in alive => member[p] = "child")
        /\ watched[p] # "none" \/ MayFail("MONITOR") \/ MayFail("KILLED")
        /\ \A d \in Directions : Established(c, d)
    BY <1>1, <2>1, CallFacts DEF At, SoloPath, LimitPath
  <2>3. call[c].config = [d \in Directions |-> call[c].config[d]]
    BY <1>1, <2>1, CallFacts, RateLimitAssumption
  <2>4. get_rate_limits_from_cgroup(p) = call[c].config
    BY <2>1, <2>2, <2>3, EstablishedReads DEF get_rate_limits_from_cgroup
  <2>5. ASSUME NEW l \in Links, l.pid = p PROVE l \in pinned <=> l \in attached
    <3>1. l.dir \in Directions
      BY <2>5 DEF Links
    <3>2. Established(c, l.dir)
      BY <2>2, <3>1
    <3> QED BY <2>5, <3>2 DEF Established, Cleared
  <2>6. {l \in pinned : l.pid = p} = {l \in attached : l.pid = p}
    BY <1>1, <2>5 DEF Inv, Types
  <2> QED BY <2>2, <2>4, <2>6
<1> QED BY <1>1, Invariance, PTL

\* An undisturbed unregister_rate_limiter_by_pid that reports success leaves
\* no link, no pin and, where libcgroup and the daemon did their part, no
\* cgroup and no watch.
THEOREM SoloUnregisterCorrect == Spec => []SoloUnregister
<1>1. ASSUME Inv PROVE SoloUnregister
  <2> SUFFICES ASSUME NEW c \in Callers, At(c, "done"), call[c].op = "unregister",
                      call[c].ret = "OK", call[c].solo
               PROVE  LET p == call[c].pid
                      IN  /\ \A l \in attached \cup pinned : l.pid # p
                          /\ p \notin dirs \/ MayFail("LIBCG_DELETE")
                          /\ watched[p] = "none" \/ MayFail("MONITOR")
    BY DEF SoloUnregister
  <2> DEFINE p == call[c].pid
  <2>1. c \in Actors
    BY DEF Actors
  <2>2. /\ \A d \in Directions : Cleared(p, d)
        /\ p \notin dirs \/ MayFail("LIBCG_DELETE")
        /\ watched[p] = "none" \/ MayFail("MONITOR")
    BY <1>1, <2>1, CallFacts DEF At, SoloPath, UnregisterPath
  <2>3. \A l \in attached \cup pinned : l.dir \in Directions
    BY <1>1 DEF Inv, Types, Links
  <2> QED BY <2>2, <2>3 DEF Cleared
<1> QED BY <1>1, Invariance, PTL

\* An undisturbed ratelimit_cleanup_all that could read the parent cgroup and
\* reports success leaves no cgroup, no limit and no process in pidnl's tree.
THEOREM SoloCleanCorrect == Spec => []SoloClean
<1>1. ASSUME Inv PROVE SoloClean
  <2> SUFFICES ASSUME NEW c \in Callers, At(c, "done"), call[c].op = "clean",
                      call[c].ret = "OK", call[c].solo
               PROVE  ~parent /\ dirs = {} /\ attached = {} /\ \A p \in Pids : member[p] = "outside"
    BY DEF SoloClean
  <2>1. ~parent
    BY <1>1, CallFacts DEF Actors, At, SoloPath, CleanPath
  <2> QED BY <1>1, <2>1 DEF Inv, Types, KernelInv
<1> QED BY <1>1, Invariance, PTL

=============================================================================
