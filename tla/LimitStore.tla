----------------------------- MODULE LimitStore -----------------------------
(***************************************************************************)
(* What the library of ratelimit.c promises its callers, without cgroups,  *)
(* links or pins: a store of the rates in force, and calls that are in     *)
(* progress on it.  There is no lock, so that calls that overlap may leave *)
(* the rates of either or of both.  But a rate appears only because an     *)
(* open call asks for it, a rate goes only through an open call on its     *)
(* process, and a call that had the store to itself and reports success    *)
(* leaves exactly what it asked for.                                       *)
(***************************************************************************)
CONSTANTS
    Pids,         \* process ids
    Directions,   \* upload and download
    Actors        \* the processes that call the library

VARIABLES
    force,   \* the rates in force for each process and direction
    open     \* the call each actor is in

vars == <<force, open>>

\* A call is about the processes of its scope and asks for a rate, or for
\* none, in each direction.
Nothing == [d \in Directions |-> {}]
Call(st, scope, asked, alone) == [st |-> st, scope |-> scope, asked |-> asked, alone |-> alone]
Idle == Call("idle", {}, Nothing, FALSE)
Ended(st) == Call(st, {}, Nothing, FALSE)

Init ==
    /\ force = [p \in Pids |-> Nothing]
    /\ open = [c \in Actors |-> Idle]

Busy(c) == open[c].st = "busy"

\* The store holds what the call asks for.
Kept(call, rates) == \A p \in call.scope : rates[p] = call.asked

\* A call that another one overlaps, or whose process gives way to another
\* with the same pid, owes no result, nor does one that has returned.
Disturbed(call) ==
    CASE call.st = "busy" -> [call EXCEPT !.alone = FALSE]
      [] call.st = "ok" -> Ended("done")
      [] OTHER -> call

\* The calls that are open when c begins one are no longer alone.
Enter(c, call) ==
    /\ open[c].st = "idle"
    /\ open' = [x \in Actors |-> IF x = c THEN call ELSE Disturbed(open[x])]
    /\ UNCHANGED force

Alone(c) == \A x \in Actors \ {c} : ~Busy(x)

Begin(c, call) == call.st = "busy" /\ call.alone = Alone(c) /\ Enter(c, call)

\* A cleanup that finds nothing to do ends at once; one that ends without a
\* look at the store promises nothing, whatever it reports.
Skip(c) ==
    \/ Alone(c) /\ (\A p \in Pids : force[p] = Nothing) /\ Enter(c, Ended("ok"))
    \/ Enter(c, Ended("done"))

\* A step of a call: it may put its rates in force and lift others, give up
\* what it asked for, end, or be killed.
Work(c) ==
    /\ Busy(c)
    /\ \A p \in Pids :
          IF p \in open[c].scope
          THEN \A d \in Directions : force'[p][d] \subseteq force[p][d] \cup open[c].asked[d]
          ELSE force'[p] = force[p]
    /\ \/ open'[c] \in {open[c], [open[c] EXCEPT !.asked = Nothing], Ended("done"), Idle}
       \/ open'[c] = Ended("ok") /\ open[c].alone /\ Kept(open[c], force')
    /\ \A x \in Actors \ {c} : open'[x] = open[x]

\* The call ends by having another actor begin one.
HandOver(c, m, call) ==
    /\ Busy(c) /\ open[m].st = "idle" /\ call.st = "busy" /\ ~call.alone
    /\ open' = [x \in Actors |-> CASE x = c -> Ended("done") [] x = m -> call
                                   [] OTHER -> Disturbed(open[x])]
    /\ UNCHANGED force

\* The caller has its result.
Return(c) ==
    /\ open[c].st \in {"ok", "done"}
    /\ open' = [open EXCEPT ![c] = Idle]
    /\ UNCHANGED force

\* A pid changes hands.
Disturb ==
    /\ \A c \in Actors : open'[c] \in {open[c], Disturbed(open[c])}
    /\ UNCHANGED force

Next ==
    \/ \E c \in Actors : Begin(c, open'[c]) \/ Skip(c) \/ Work(c) \/ Return(c)
    \/ \E c, m \in Actors : c # m /\ HandOver(c, m, open'[m])
    \/ Disturb

Spec == Init /\ [][Next]_vars
=============================================================================
