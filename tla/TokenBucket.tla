----------------------------- MODULE TokenBucket -----------------------------
(***************************************************************************)
(* The in-kernel policer of lib/src/ratelimit.bpf.c: the programs          *)
(* egress_rl and ingress_rl run on several CPUs at once, each reads its    *)
(* limit and the clock, takes the direction's spin lock, refills the token *)
(* bucket and lets the packet through or drops it.                         *)
(*                                                                         *)
(* Time is in the clock's own unit (ns in the code).  The unit ratios are  *)
(* parameters so that TLC can use small ones: the code has NsPerUs = 1000, *)
(* UsPerSec = 1000000 and Word = 2^64.                                     *)
(***************************************************************************)
EXTENDS Integers

CONSTANTS
    CPUs,          \* the CPUs that run the programs
    LimitKbps,     \* the map rate_limits, as written by attach_bpf_programs
    PacketSizes,   \* the values of skb->len
    NsPerUs,       \* clock units in a microsecond
    UsPerSec,      \* microseconds in a second
    Word,          \* the modulus of __u64 arithmetic
    MaxTime        \* bound on the clock

\* The keys of the two array maps, rate_limits and rate_state.
DIRECTION_UPLOAD == 0
DIRECTION_DOWNLOAD == 1
Directions == {DIRECTION_UPLOAD, DIRECTION_DOWNLOAD}

\* (__u64)limit_kbps * 1000 / 8
LimitBps(d) == ((LimitKbps[d] * 1000) % Word) \div 8

NsPerSec == NsPerUs * UsPerSec

ASSUME TokenBucketAssumption ==
    /\ LimitKbps \in [Directions -> Nat]
    /\ PacketSizes \subseteq Nat
    /\ NsPerUs \in Nat \ {0}
    /\ UsPerSec \in Nat \ {0}
    /\ Word \in Nat \ {0}
    /\ MaxTime \in Nat
    /\ MaxTime < Word                           \* ns since boot fit in a __u64
    /\ \A d \in Directions :
          /\ LimitKbps[d] * 1000 < Word         \* no product or sum of a refill wraps
          /\ LimitBps(d) * UsPerSec < Word
          /\ 3 * LimitBps(d) < Word

VARIABLES
    clock,            \* bpf_ktime_get_ns()
    pc,               \* where each CPU is in apply_rate_limit
    frame,            \* each CPU's direction, packet_size and now
    tokens,           \* rate_state[d].tokens
    last_update_ns,   \* rate_state[d].last_update_ns
    obs               \* history: what left in an observed direction and window

vars == <<clock, pc, frame, tokens, last_update_ns, obs>>

Labels == {"idle", "lock", "refill", "decide", "spend"}
Frames == [dir : Directions, size : PacketSizes \cup {0}, now : 0 .. MaxTime]

\* No program is running: its local variables do not exist.
NoFrame == [dir |-> DIRECTION_UPLOAD, size |-> 0, now |-> 0]

(***************************************************************************)
(* The history variable observes the direction obs.dir from the time       *)
(* obs.from on, both arbitrary: obs.open says that an update stamped in    *)
(* the window has happened, obs.bytes counts what was let through for      *)
(* packets stamped in the window, and obs.excess adds up, over the updates *)
(* in the window that ran with a timestamp older than the previous one,    *)
(* one second and the distance the timestamp went back.                    *)
(***************************************************************************)
Observations ==
    [dir : Directions, from : 0 .. MaxTime, open : BOOLEAN, bytes : Nat, excess : Nat]

\* The maps of a freshly loaded skeleton are zeroed.
Init ==
    /\ clock \in 0 .. MaxTime
    /\ pc = [c \in CPUs |-> "idle"]
    /\ frame = [c \in CPUs |-> NoFrame]
    /\ tokens = [d \in Directions |-> 0]
    /\ last_update_ns = [d \in Directions |-> 0]
    /\ \E d \in Directions, t \in 0 .. MaxTime :
          obs = [dir |-> d, from |-> t, open |-> FALSE, bytes |-> 0, excess |-> 0]

Goto(c, l) == pc' = [pc EXCEPT ![c] = l]

\* A packet of direction d reaches its program, which reads the clock
\* before it asks for the lock.
Enter(c, d) ==
    /\ pc[c] = "idle"
    /\ \E size \in PacketSizes :
          frame' = [frame EXCEPT ![c] = [dir |-> d, size |-> size, now |-> clock]]
    /\ Goto(c, "lock")
    /\ UNCHANGED <<clock, tokens, last_update_ns, obs>>

egress_rl(c) == Enter(c, DIRECTION_UPLOAD)
ingress_rl(c) == Enter(c, DIRECTION_DOWNLOAD)

\* The CPUs inside the critical section of direction d.
Holders(d) == {c \in CPUs : pc[c] \in {"refill", "decide", "spend"} /\ frame[c].dir = d}

\* Mutant: the lock is not taken.
bpf_spin_lock_skipped(c) ==
    /\ pc[c] = "lock"
    /\ Goto(c, "refill")
    /\ UNCHANGED <<clock, frame, tokens, last_update_ns, obs>>

bpf_spin_lock(c) ==
    /\ pc[c] = "lock"
    /\ Holders(frame[c].dir) = {}
    /\ Goto(c, "refill")
    /\ UNCHANGED <<clock, frame, tokens, last_update_ns, obs>>

\* Microseconds since the last update, capped at one second.  The
\* subtraction is unsigned: a timestamp older than the last update wraps.
ElapsedUs(now, last) ==
    LET elapsed_us == ((now - last) % Word) \div NsPerUs
    IN  IF elapsed_us > UsPerSec THEN UsPerSec ELSE elapsed_us

TokensToAdd(d, elapsed_us) == ((LimitBps(d) * elapsed_us) % Word) \div UsPerSec

MaxTokens(d) == (LimitBps(d) * 2) % Word

\* Mutant: the bucket is not capped.
Refilled_uncapped(d, now) ==
    (tokens[d] + TokensToAdd(d, ElapsedUs(now, last_update_ns[d]))) % Word

\* The bucket after a refill, capped at twice the rate.
Refilled(d, now) ==
    LET sum == (tokens[d] + TokensToAdd(d, ElapsedUs(now, last_update_ns[d]))) % Word
    IN  IF sum > MaxTokens(d) THEN MaxTokens(d) ELSE sum

ObserveUpdate(d, now) ==
    IF d # obs.dir THEN obs
    ELSE [obs EXCEPT
            !.open   = @ \/ now >= obs.from,
            !.excess = IF obs.open /\ now < last_update_ns[d]
                       THEN @ + NsPerSec + (last_update_ns[d] - now) ELSE @]

\* Mutant: last_update_ns is set once and never moved on.
Refill_keeps_stamp(c) ==
    LET d == frame[c].dir
        now == frame[c].now
        first == last_update_ns[d] = 0
    IN  /\ pc[c] = "refill"
        /\ tokens' = [tokens EXCEPT ![d] = Refilled(d, now)]
        /\ last_update_ns' = IF first THEN [last_update_ns EXCEPT ![d] = now] ELSE last_update_ns
        /\ obs' = ObserveUpdate(d, now)
        /\ Goto(c, "decide")
        /\ UNCHANGED <<clock, frame>>

Refill(c) ==
    LET d == frame[c].dir
        now == frame[c].now
    IN  /\ pc[c] = "refill"
        /\ tokens' = [tokens EXCEPT ![d] = Refilled(d, now)]
        /\ last_update_ns' = [last_update_ns EXCEPT ![d] = now]
        /\ obs' = ObserveUpdate(d, now)
        /\ Goto(c, "decide")
        /\ UNCHANGED <<clock, frame>>

ObserveAllowed(d, now, size) ==
    IF d = obs.dir /\ now >= obs.from THEN [obs EXCEPT !.bytes = @ + size] ELSE obs

\* The program returns: the lock is released and its locals are gone.
Return(c) ==
    /\ Goto(c, "idle")
    /\ frame' = [frame EXCEPT ![c] = NoFrame]

\* state->tokens >= packet_size: enough tokens, or drop the packet.
Enough(c) ==
    /\ pc[c] = "decide"
    /\ tokens[frame[c].dir] >= frame[c].size
    /\ Goto(c, "spend")
    /\ UNCHANGED <<clock, frame, tokens, last_update_ns, obs>>

Drop(c) ==
    /\ pc[c] = "decide"
    /\ tokens[frame[c].dir] < frame[c].size
    /\ Return(c)
    /\ UNCHANGED <<clock, tokens, last_update_ns, obs>>

\* state->tokens -= packet_size, and the packet goes through.
Allow(c) ==
    LET d == frame[c].dir
    IN  /\ pc[c] = "spend"
        /\ tokens' = [tokens EXCEPT ![d] = (@ - frame[c].size) % Word]
        /\ obs' = ObserveAllowed(d, frame[c].now, frame[c].size)
        /\ Return(c)
        /\ UNCHANGED <<clock, last_update_ns>>

Tick ==
    /\ clock < MaxTime
    /\ clock' = clock + 1
    /\ UNCHANGED <<pc, frame, tokens, last_update_ns, obs>>

Next ==
    \/ Tick
    \/ \E c \in CPUs :
          \/ egress_rl(c)
          \/ ingress_rl(c)
          \/ bpf_spin_lock(c)
          \/ Refill(c)
          \/ Enough(c)
          \/ Drop(c)
          \/ Allow(c)

Spec == Init /\ [][Next]_vars
-----------------------------------------------------------------------------
(***************************************************************************)
(* Properties.                                                             *)
(***************************************************************************)

\* Every variable keeps its type; the cap at line 62-66 keeps each bucket
\* within twice the rate, and no subtraction at line 71 wraps.
TypeOK ==
    /\ clock \in 0 .. MaxTime
    /\ pc \in [CPUs -> Labels]
    /\ frame \in [CPUs -> Frames]
    /\ tokens \in [Directions -> Nat]
    /\ \A d \in Directions : tokens[d] <= 2 * LimitBps(d)
    /\ last_update_ns \in [Directions -> 0 .. MaxTime]
    /\ obs \in Observations

\* What the policer promises over any window (obs.from .. clock), whatever
\* the CPUs do: the bytes let through are at most the burst of two seconds,
\* the rate times the window, and the rate times the excess that updates
\* with an out-of-order timestamp were granted.
RateBoundUpToLateness ==
    clock >= obs.from =>
        obs.bytes * NsPerSec
            <= LimitBps(obs.dir) * (2 * NsPerSec + (clock - obs.from) + obs.excess)

\* The bandwidth cap itself: in any window no more bytes go through than
\* the burst allowance and the configured rate times the window.
RateBound ==
    clock >= obs.from =>
        obs.bytes * NsPerSec <= LimitBps(obs.dir) * (2 * NsPerSec + (clock - obs.from))
-----------------------------------------------------------------------------
(***************************************************************************)
(* The inductive invariant behind RateBoundUpToLateness.                   *)
(***************************************************************************)

\* No timestamp is ahead of the clock.
StampsPast ==
    /\ \A c \in CPUs : frame[c].now <= clock
    /\ \A d \in Directions : last_update_ns[d] <= clock

\* The spin lock of a direction has at most one holder.
OneHolder ==
    \A d \in Directions : \A c1, c2 \in Holders(d) : c1 = c2

\* The tokens seen by the test at line 70 are still there at line 71.
Covered ==
    \A c \in CPUs : pc[c] = "spend" => tokens[frame[c].dir] >= frame[c].size

\* A packet stamped in the window is let through only after its own update.
OpenedBefore ==
    \A c \in CPUs :
        pc[c] \in {"decide", "spend"} /\ frame[c].dir = obs.dir /\ frame[c].now >= obs.from
            => obs.open

\* What went through and what the bucket still holds fit in the budget that
\* the window has earned up to the last update.
Budget ==
    IF obs.open
    THEN (obs.bytes + tokens[obs.dir]) * NsPerSec
            <= LimitBps(obs.dir)
                 * (2 * NsPerSec + (last_update_ns[obs.dir] - obs.from) + obs.excess)
    ELSE obs.bytes = 0

\* Under the lock a token is spent once and never missing, so that bytes out
\* and tokens in never exceed the budget; with TypeOK it is inductive.
Inv ==
    /\ TypeOK
    /\ StampsPast
    /\ OneHolder
    /\ Covered
    /\ OpenedBefore
    /\ Budget
=============================================================================
