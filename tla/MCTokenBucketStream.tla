------------------------ MODULE MCTokenBucketStream ------------------------
(***************************************************************************)
(* The policer of TokenBucket with one more history: what is offered to    *)
(* it.  TokenBucket's own window, obs, counts what is let through.         *)
(***************************************************************************)
EXTENDS MCTokenBucket

VARIABLES
    offered,   \* the bytes of all packets stamped in the window, dropped or not
    previous,  \* when the last of them was stamped
    calm       \* no packet came sooner after the previous one than the rate allows

stream == <<offered, previous, calm>>

\* The direction's rate allows the bytes in the time.
Allowed(bytes, time) == bytes * NsPerSec <= LimitBps(obs.dir) * time

\* CPU c has just stamped a packet of the observed direction in the window.
Stamped(c) ==
    /\ pc[c] = "idle" /\ pc'[c] = "lock"
    /\ frame'[c].dir = obs.dir /\ frame'[c].now >= obs.from

ObserveOffer(c) ==
    IF Stamped(c)
    THEN /\ offered' = offered + frame'[c].size
         /\ previous' = frame'[c].now
         /\ calm' = (calm /\ Allowed(frame'[c].size, frame'[c].now - previous))
    ELSE UNCHANGED stream

StreamInit == Init /\ offered = 0 /\ previous = obs.from /\ calm = TRUE

StreamNext ==
    \/ Tick /\ UNCHANGED stream
    \/ \E c \in CPUs :
          /\ \/ egress_rl(c) \/ ingress_rl(c) \/ bpf_spin_lock(c)
             \/ Refill(c) \/ Enough(c) \/ Drop(c) \/ Allow(c)
          /\ ObserveOffer(c)

StreamSpec == StreamInit /\ [][StreamNext]_<<vars, stream>>

\* A packet is dropped only when the direction exceeds its rate (the
\* README's "drops packets that exceed the configured rate"): never when the
\* window is at most a second, every packet in it, dropped or not, came as
\* long after the one before as the rate asks for its size, and all of them
\* together are within the rate even with a byte and a microsecond of
\* rounding set aside.
DropOnlyAboveRate ==
    [][\A c \in CPUs :
          Drop(c) /\ frame[c].dir = obs.dir /\ frame[c].now - obs.from \in 0 .. NsPerSec =>
             ~(calm /\ Allowed(offered + 1, frame[c].now - obs.from - NsPerUs))]_<<vars, stream>>
=============================================================================
