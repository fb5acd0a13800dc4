------------------------- MODULE TokenBucketProofs -------------------------
(***************************************************************************)
(* Proofs about TokenBucket: its types, and the rate bound in any window.  *)
(* The nonlinear arithmetic of the refill is kept in small lemmas.         *)
(***************************************************************************)
EXTENDS TokenBucket, TLAPS

\* The division of lines 40, 53 and 57 rounds down.
LEMMA DivMul ==
    ASSUME NEW a \in Nat, NEW b \in Nat \ {0}
    PROVE  a \div b \in Nat /\ (a \div b) * b <= a
BY SMT

\* A value that fits in a word is not changed by unsigned arithmetic.
LEMMA ModSmall ==
    ASSUME NEW a \in Nat, NEW b \in Nat \ {0}, a < b
    PROVE  a % b = a
BY SMT

\* A wrapped value fits in a word.
LEMMA ModRange ==
    ASSUME NEW a \in Int, NEW b \in Nat \ {0}
    PROVE  a % b \in Nat /\ a % b < b
BY SMT

\* Multiplication by a natural number is monotonic.
LEMMA MulMono ==
    ASSUME NEW a \in Nat, NEW b \in Nat, NEW c \in Nat, a <= b
    PROVE  /\ a * c \in Nat
           /\ a * c <= b * c
           /\ c * a <= c * b
BY SMT

\* The code's own types meet the assumption: with half a machine word of
\* Half values (2^32 in the code, whose __u64 then holds Half * Half), no
\* limit a __u32 can hold makes a product or sum of apply_rate_limit wrap
\* (lines 40, 57, 59 and 63 of ratelimit.bpf.c).
THEOREM CodeConstantsFit ==
    ASSUME NEW Half \in Nat, Half > 1000000000, NEW kbps \in 0 .. Half - 1
    PROVE  /\ kbps * 1000 < Half * Half
           /\ ((kbps * 1000) \div 8) * 1000000 < Half * Half
           /\ 3 * ((kbps * 1000) \div 8) < Half * Half
<1> DEFINE bps == (kbps * 1000) \div 8
<1>1. kbps \in Nat /\ kbps < Half
  BY SMT
<1>2. bps \in Nat /\ bps * 8 <= kbps * 1000
  <2>1. kbps * 1000 \in Nat
    BY <1>1, SMT
  <2> QED BY <2>1, DivMul, SMT
<1> HIDE DEF bps
<1>3. /\ bps * 1000000 <= kbps * 1000000000
      /\ bps * 3 <= kbps * 1000000000
      /\ kbps * 1000 <= kbps * 1000000000
  BY <1>1, <1>2, SMT
<1>4. kbps * 1000000000 < Half * Half
  <2>1. kbps * 1000000000 <= kbps * Half
    BY <1>1, MulMono, SMT
  <2>2. kbps * Half <= (Half - 1) * Half
    BY <1>1, MulMono, SMT
  <2> QED BY <1>1, <2>1, <2>2, SMT
<1>5. Half * Half \in Nat
  BY SMT
<1> QED BY <1>1, <1>2, <1>3, <1>4, <1>5, SMT DEF bps

\* The rate in bytes per second, without the modulus.
LEMMA LimitBpsType ==
    ASSUME NEW d \in Directions
    PROVE  /\ LimitBps(d) \in Nat
           /\ LimitBps(d) * UsPerSec < Word
           /\ 3 * LimitBps(d) < Word
           /\ MaxTokens(d) = 2 * LimitBps(d)
<1>1. LimitKbps[d] * 1000 \in Nat /\ LimitKbps[d] * 1000 < Word
  BY TokenBucketAssumption
<1>2. (LimitKbps[d] * 1000) % Word \in Nat
  BY <1>1, ModSmall, TokenBucketAssumption
<1>3. LimitBps(d) \in Nat
  BY <1>2, DivMul DEF LimitBps
<1>4. LimitBps(d) * UsPerSec < Word /\ 3 * LimitBps(d) < Word
  BY TokenBucketAssumption
<1>5. MaxTokens(d) = 2 * LimitBps(d)
  BY <1>3, <1>4, ModSmall, TokenBucketAssumption DEF MaxTokens
<1> QED BY <1>3, <1>4, <1>5

\* What one refill adds, in bytes scaled by a second: no more than the rate
\* times the time since the last update, and never more than one second's
\* worth, which is what a timestamp older than the last update is granted.
LEMMA RefillBound ==
    ASSUME NEW d \in Directions,
           NEW now \in 0 .. MaxTime, NEW last \in 0 .. MaxTime
    PROVE  LET add == TokensToAdd(d, ElapsedUs(now, last))
           IN  /\ add \in Nat
               /\ add <= LimitBps(d)
               /\ add * NsPerSec <= LimitBps(d) * NsPerSec
               /\ now >= last => add * NsPerSec <= LimitBps(d) * (now - last)
<1> DEFINE gap == (now - last) % Word
           us  == gap \div NsPerUs
           el  == ElapsedUs(now, last)
           bps == LimitBps(d)
           prod == bps * el
           add == TokensToAdd(d, el)
<1> USE TokenBucketAssumption
<1>1. gap \in Nat
  BY ModRange
<1> HIDE DEF gap
<1>0. us \in Nat /\ us * NsPerUs <= gap
  BY <1>1, DivMul
<1>2. el \in Nat /\ el <= UsPerSec /\ el <= us
  BY <1>0 DEF ElapsedUs, gap
<1>3. bps \in Nat /\ bps * UsPerSec < Word
  BY LimitBpsType
<1> HIDE DEF el, bps, us
<1>4. prod \in Nat /\ prod <= bps * UsPerSec
  BY <1>2, <1>3, MulMono
<1>5. prod % Word = prod
  BY <1>3, <1>4, ModSmall
<1>6. add = prod \div UsPerSec
  BY <1>5 DEF TokensToAdd, el, bps
<1>7. add \in Nat /\ add * UsPerSec <= prod
  BY <1>4, <1>6, DivMul
<1> HIDE DEF add, prod
<1>8. add <= bps
  BY <1>3, <1>4, <1>7
<1>9. NsPerSec \in Nat
  BY MulMono DEF NsPerSec
<1>10. add * NsPerSec <= bps * NsPerSec
  BY <1>3, <1>7, <1>8, <1>9, MulMono
<1>11. ASSUME now >= last PROVE add * NsPerSec <= bps * (now - last)
  <2>1. gap = now - last
    BY <1>11, ModSmall DEF gap
  <2>2. el * NsPerUs <= now - last
    <3>1. el * NsPerUs <= us * NsPerUs
      BY <1>0, <1>2, MulMono
    <3>2. us * NsPerUs <= now - last
      BY <1>0, <2>1
    <3>3. us * NsPerUs \in Nat /\ el * NsPerUs \in Nat /\ now - last \in Int
      BY <1>0, <1>2, MulMono
    <3> QED BY <3>1, <3>2, <3>3
  <2>3. (add * UsPerSec) * NsPerUs <= prod * NsPerUs
    BY <1>4, <1>7, MulMono DEF prod
  <2>4. prod * NsPerUs = bps * (el * NsPerUs)
    BY <1>2, <1>3 DEF prod
  <2>5. bps * (el * NsPerUs) <= bps * (now - last)
    BY <1>2, <1>3, <1>11, <2>2, MulMono
  <2>6. add * NsPerSec = (add * UsPerSec) * NsPerUs
    BY <1>7 DEF NsPerSec
  <2> QED BY <2>3, <2>4, <2>5, <2>6, <1>2, <1>3, <1>7
<1> QED BY <1>7, <1>8, <1>10, <1>11 DEF add, bps, el

\* A refill leaves a bucket within its type and cap, and no fuller than the
\* old content and what was added.
LEMMA RefilledBound ==
    ASSUME TypeOK, NEW d \in Directions, NEW now \in 0 .. MaxTime
    PROVE  /\ Refilled(d, now) \in Nat
           /\ Refilled(d, now) <= 2 * LimitBps(d)
           /\ Refilled(d, now) <= tokens[d] + TokensToAdd(d, ElapsedUs(now, last_update_ns[d]))
<1> DEFINE add == TokensToAdd(d, ElapsedUs(now, last_update_ns[d]))
           bps == LimitBps(d)
<1>1. tokens[d] \in Nat /\ tokens[d] <= 2 * bps /\ last_update_ns[d] \in 0 .. MaxTime
  BY DEF TypeOK
<1>2. add \in Nat /\ add <= bps
  BY <1>1, RefillBound
<1>3. bps \in Nat /\ 3 * bps < Word /\ MaxTokens(d) = 2 * bps
  BY LimitBpsType
<1> HIDE DEF add, bps
<1>4. tokens[d] + add \in Nat /\ tokens[d] + add < Word
  BY <1>1, <1>2, <1>3, TokenBucketAssumption
<1>5. (tokens[d] + add) % Word = tokens[d] + add
  BY <1>4, ModSmall, TokenBucketAssumption
<1>6. Refilled(d, now) = IF tokens[d] + add > 2 * bps THEN 2 * bps ELSE tokens[d] + add
  BY <1>3, <1>5 DEF Refilled, add, bps
<1> QED BY <1>1, <1>2, <1>3, <1>6 DEF add, bps

\* The arithmetic of the budget: new tokens that the rate earned over g
\* clock units fit in a budget that grew by g.
LEMMA BudgetGrows ==
    ASSUME NEW bytes \in Nat, NEW tok \in Nat, NEW tok2 \in Nat, NEW add \in Nat,
           NEW N \in Nat, NEW bps \in Nat, NEW w \in Int, NEW g \in Int,
           (bytes + tok) * N <= bps * w,
           add * N <= bps * g,
           tok2 <= tok + add
    PROVE  (bytes + tok2) * N <= bps * (w + g)
<1>1. (bytes + tok2) * N <= (bytes + tok + add) * N
  BY MulMono
<1>2. (bytes + tok + add) * N = (bytes + tok) * N + add * N
  OBVIOUS
<1>3. bps * (w + g) = bps * w + bps * g
  OBVIOUS
<1> QED BY <1>1, <1>2, <1>3

\* The initial states satisfy the invariant: nothing ran, nothing left.
LEMMA InitInv == Init => Inv
<1> SUFFICES ASSUME Init PROVE Inv
  OBVIOUS
<1> USE TokenBucketAssumption
<1>1. \A d \in Directions : LimitBps(d) \in Nat
  BY LimitBpsType
<1>2. TypeOK
  <2>1. NoFrame \in Frames
    BY DEF NoFrame, Frames, Directions
  <2>2. obs \in Observations
    BY DEF Init, Observations
  <2> QED BY <1>1, <2>1, <2>2 DEF Init, TypeOK, Labels
<1>3. StampsPast
  BY DEF Init, StampsPast, NoFrame
<1>4. OneHolder /\ Covered /\ OpenedBefore
  BY DEF Init, OneHolder, Holders, Covered, OpenedBefore
<1>5. Budget
  BY DEF Init, Budget
<1> QED BY <1>2, <1>3, <1>4, <1>5 DEF Inv

\* A packet that enters its program disturbs no bucket.
LEMMA EnterStep ==
    ASSUME Inv, NEW c \in CPUs, NEW d \in Directions, Enter(c, d)
    PROVE  Inv'
<1> USE DEF Inv
<1>1. PICK size \in PacketSizes :
         frame' = [frame EXCEPT ![c] = [dir |-> d, size |-> size, now |-> clock]]
  BY DEF Enter
<1>2. TypeOK'
  <2>1. frame' \in [CPUs -> Frames]
    BY <1>1 DEF TypeOK, Frames
  <2>2. pc' \in [CPUs -> Labels]
    BY DEF Enter, Goto, TypeOK, Labels
  <2> QED BY <2>1, <2>2 DEF Enter, TypeOK
<1>3. StampsPast'
  BY <1>1 DEF Enter, StampsPast, TypeOK
<1>4. \A c1 \in CPUs : c1 # c => pc'[c1] = pc[c1] /\ frame'[c1] = frame[c1]
  BY <1>1 DEF Enter, Goto, TypeOK
<1>5. pc'[c] = "lock"
  BY DEF Enter, Goto, TypeOK
<1>6. OneHolder'
  BY <1>4, <1>5 DEF OneHolder, Holders
<1>7. Covered' /\ OpenedBefore'
  BY <1>4, <1>5 DEF Enter, Covered, OpenedBefore
<1>8. Budget'
  BY DEF Enter, Budget
<1> QED BY <1>2, <1>3, <1>6, <1>7, <1>8

\* The lock is taken only when it is free.
LEMMA LockStep ==
    ASSUME Inv, NEW c \in CPUs, bpf_spin_lock(c)
    PROVE  Inv'
<1> USE DEF Inv
<1>1. \A c1 \in CPUs : c1 # c => pc'[c1] = pc[c1]
  BY DEF bpf_spin_lock, Goto, TypeOK
<1>2. pc'[c] = "refill" /\ UNCHANGED <<clock, frame, tokens, last_update_ns, obs>>
  BY DEF bpf_spin_lock, Goto, TypeOK
<1>3. TypeOK'
  BY <1>2 DEF bpf_spin_lock, Goto, TypeOK, Labels
<1>4. OneHolder'
  BY <1>1, <1>2 DEF bpf_spin_lock, OneHolder, Holders
<1>5. StampsPast' /\ Covered' /\ OpenedBefore'
  BY <1>1, <1>2 DEF StampsPast, Covered, OpenedBefore
<1>6. Budget'
  BY <1>2 DEF Budget
<1> QED BY <1>3, <1>4, <1>5, <1>6

\* The decision, either way, changes no bucket.
LEMMA DecideStep ==
    ASSUME Inv, NEW c \in CPUs, Enough(c) \/ Drop(c)
    PROVE  Inv'
<1> USE DEF Inv
<1>1. \A c1 \in CPUs : c1 # c => pc'[c1] = pc[c1] /\ frame'[c1] = frame[c1]
  BY DEF Enough, Drop, Return, Goto, TypeOK
<1>2. UNCHANGED <<clock, tokens, last_update_ns, obs>> /\ pc[c] = "decide"
  BY DEF Enough, Drop
<1>3. \/ pc'[c] = "spend" /\ frame' = frame /\ tokens[frame[c].dir] >= frame[c].size
      \/ pc'[c] = "idle" /\ frame'[c] = NoFrame
  BY DEF Enough, Drop, Return, Goto, TypeOK
<1>4. TypeOK'
  <2>1. NoFrame \in Frames
    BY TokenBucketAssumption DEF NoFrame, Frames, Directions
  <2> QED BY <1>2, <2>1 DEF Enough, Drop, Return, Goto, TypeOK, Labels
<1>5. OneHolder'
  BY <1>1, <1>2, <1>3 DEF OneHolder, Holders
<1>6. StampsPast'
  BY <1>1, <1>2, <1>3 DEF StampsPast, NoFrame, TypeOK
<1>7. Covered' /\ OpenedBefore'
  BY <1>1, <1>2, <1>3 DEF Covered, OpenedBefore
<1>8. Budget'
  BY <1>2 DEF Budget
<1> QED BY <1>4, <1>5, <1>6, <1>7, <1>8

\* A refill keeps the budget: what it adds is earned by the time since the
\* last update or, when the timestamp went back, is put down as excess.
LEMMA RefillStep ==
    ASSUME Inv, NEW c \in CPUs, Refill(c)
    PROVE  Inv'
<1> USE DEF Inv
<1> DEFINE d == frame[c].dir
           now == frame[c].now
           last == last_update_ns[d]
           add == TokensToAdd(d, ElapsedUs(now, last))
           bps == LimitBps(d)
<1>1. d \in Directions /\ now \in 0 .. MaxTime /\ now <= clock
  BY DEF TypeOK, Frames, StampsPast
<1>2. /\ pc[c] = "refill"
      /\ tokens' = [tokens EXCEPT ![d] = Refilled(d, now)]
      /\ last_update_ns' = [last_update_ns EXCEPT ![d] = now]
      /\ obs' = ObserveUpdate(d, now)
      /\ pc' = [pc EXCEPT ![c] = "decide"]
      /\ clock' = clock /\ frame' = frame
  BY DEF Refill, Goto
<1>3. /\ Refilled(d, now) \in Nat
      /\ Refilled(d, now) <= 2 * bps
      /\ Refilled(d, now) <= tokens[d] + add
  BY <1>1, RefilledBound
<1>4. last \in 0 .. MaxTime /\ clock \in 0 .. MaxTime /\ obs \in Observations
  BY <1>1 DEF TypeOK
<1>5. /\ add \in Nat
      /\ add * NsPerSec <= bps * NsPerSec
      /\ now >= last => add * NsPerSec <= bps * (now - last)
  BY <1>1, <1>4, RefillBound
<1>6. bps \in Nat
  BY <1>1, LimitBpsType
<1>7. NsPerSec \in Nat
  BY MulMono, TokenBucketAssumption DEF NsPerSec
<1> HIDE DEF d, now, last, add, bps
<1>8. /\ obs' \in Observations
      /\ obs'.dir = obs.dir /\ obs'.from = obs.from /\ obs'.bytes = obs.bytes
  <2>1. CASE d # obs.dir
    BY <1>2, <1>4, <2>1 DEF ObserveUpdate
  <2>2. CASE d = obs.dir
    <3> DEFINE opened == obs.open \/ now >= obs.from
               excess == IF obs.open /\ now < last THEN obs.excess + NsPerSec + (last - now)
                         ELSE obs.excess
    <3>1. opened \in BOOLEAN
      OBVIOUS
    <3>2. excess \in Nat
      BY <1>1, <1>4, <1>7 DEF Observations
    <3>3. obs' = [obs EXCEPT !.open = opened, !.excess = excess]
      BY <1>2, <2>2 DEF ObserveUpdate, last
    <3> HIDE DEF opened, excess
    <3> QED BY <1>4, <3>1, <3>2, <3>3 DEF Observations
  <2> QED BY <2>1, <2>2
<1>9. TypeOK'
  <2>1. tokens' \in [Directions -> Nat]
    BY <1>1, <1>2, <1>3 DEF TypeOK
  <2>2. \A e \in Directions : tokens'[e] <= 2 * LimitBps(e)
    BY <1>1, <1>2, <1>3 DEF TypeOK, bps
  <2>3. last_update_ns' \in [Directions -> 0 .. MaxTime]
    BY <1>1, <1>2 DEF TypeOK
  <2>4. pc' \in [CPUs -> Labels]
    BY <1>2 DEF TypeOK, Labels
  <2> QED BY <1>2, <1>8, <2>1, <2>2, <2>3, <2>4 DEF TypeOK
<1>10. StampsPast'
  BY <1>1, <1>2 DEF StampsPast, TypeOK
<1>11. \A c1 \in CPUs : c1 # c => pc'[c1] = pc[c1]
  BY <1>2 DEF TypeOK
<1>12. pc'[c] = "decide"
  BY <1>2 DEF TypeOK
<1>13. OneHolder'
  BY <1>2, <1>11, <1>12 DEF OneHolder, Holders
<1>14. \A c1 \in CPUs : pc[c1] \in {"decide", "spend"} => frame[c1].dir # d
  BY <1>1, <1>2 DEF OneHolder, Holders, d
<1>15. Covered'
  BY <1>2, <1>11, <1>12, <1>14 DEF Covered, TypeOK
<1>16. OpenedBefore'
  <2>1. obs.open => obs'.open
    BY <1>2, <1>4 DEF ObserveUpdate, Observations
  <2>2. d = obs.dir /\ now >= obs.from => obs'.open
    BY <1>2, <1>4 DEF ObserveUpdate, Observations
  <2> QED BY <1>2, <1>8, <1>11, <1>12, <2>1, <2>2 DEF OpenedBefore, d, now
<1>17. Budget'
  <2>1. CASE d # obs.dir
    <3>1. obs' = obs /\ tokens'[obs.dir] = tokens[obs.dir]
            /\ last_update_ns'[obs.dir] = last_update_ns[obs.dir]
      BY <1>1, <1>2, <1>4, <2>1 DEF ObserveUpdate, Observations, TypeOK
    <3> QED BY <3>1 DEF Budget
  <2>2. CASE d = obs.dir /\ obs.open
    <3> DEFINE w == 2 * NsPerSec + (last - obs.from) + obs.excess
               g == (now - last) + (obs'.excess - obs.excess)
    <3>1. obs'.open /\ tokens'[d] = Refilled(d, now) /\ last_update_ns'[d] = now
      BY <1>1, <1>2, <1>4, <2>2 DEF ObserveUpdate, Observations, TypeOK
    <3>2. add * NsPerSec <= bps * g
      <4>1. CASE now >= last
        <5>1. obs'.excess = obs.excess
          BY <1>1, <1>2, <1>4, <2>2, <4>1 DEF ObserveUpdate, Observations, last
        <5>2. g = now - last
          BY <1>1, <1>4, <5>1 DEF Observations
        <5> QED BY <1>5, <4>1, <5>2
      <4>2. CASE now < last
        <5>1. obs'.excess = obs.excess + NsPerSec + (last - now)
          BY <1>1, <1>2, <1>4, <2>2, <4>2 DEF ObserveUpdate, Observations, last
        <5>2. g = NsPerSec
          BY <1>1, <1>4, <1>7, <5>1 DEF Observations
        <5> QED BY <1>5, <5>2
      <4> QED BY <1>1, <1>4, <4>1, <4>2
    <3>3. (obs.bytes + tokens[d]) * NsPerSec <= bps * w
      BY <2>2 DEF Budget, bps, last
    <3>4. obs.bytes \in Nat /\ tokens[d] \in Nat /\ w \in Int /\ g \in Int
      BY <1>1, <1>4, <1>7, <1>8 DEF Observations, TypeOK
    <3> HIDE DEF w, g
    <3>5. (obs.bytes + Refilled(d, now)) * NsPerSec <= bps * (w + g)
      BY <1>3, <1>5, <1>6, <1>7, <3>2, <3>3, <3>4, BudgetGrows
    <3>6. w + g = 2 * NsPerSec + (now - obs.from) + obs'.excess
      BY <1>1, <1>4, <1>7, <1>8 DEF w, g, Observations
    <3> QED BY <1>8, <2>2, <3>1, <3>5, <3>6 DEF Budget, bps
  <2>3. CASE d = obs.dir /\ ~obs.open
    <3>1. obs.bytes = 0 /\ obs'.bytes = 0
      BY <1>8, <2>3 DEF Budget
    <3>2. CASE ~obs'.open
      BY <3>1, <3>2 DEF Budget
    <3>3. CASE obs'.open
      <4>1. now >= obs.from /\ obs'.excess = obs.excess
        BY <1>2, <1>4, <2>3, <3>3 DEF ObserveUpdate, Observations
      <4>2. Refilled(d, now) * NsPerSec <= (2 * bps) * NsPerSec
        BY <1>3, <1>6, <1>7, MulMono
      <4> DEFINE k == (now - obs.from) + obs.excess
      <4>3. k \in Nat /\ 2 * NsPerSec \in Nat
        BY <1>1, <1>4, <1>7, <4>1 DEF Observations
      <4> HIDE DEF k
      <4>4. bps * (2 * NsPerSec) <= bps * (2 * NsPerSec + k)
        BY <1>6, <4>3, MulMono
      <4>5. (2 * bps) * NsPerSec = bps * (2 * NsPerSec)
        BY <1>6, <1>7
      <4>6. Refilled(d, now) * NsPerSec <= bps * (2 * NsPerSec + k)
        BY <1>3, <1>6, <1>7, <4>2, <4>3, <4>4, <4>5
      <4>7. 2 * NsPerSec + k = 2 * NsPerSec + (now - obs.from) + obs'.excess
        BY <1>1, <1>4, <1>7, <4>1 DEF k, Observations
      <4>8. tokens'[d] = Refilled(d, now) /\ last_update_ns'[d] = now
        BY <1>1, <1>2 DEF TypeOK
      <4> QED BY <1>3, <1>8, <2>3, <3>1, <3>3, <4>6, <4>7, <4>8 DEF Budget, bps
    <3> QED BY <3>2, <3>3
  <2> QED BY <2>1, <2>2, <2>3
<1> QED BY <1>9, <1>10, <1>13, <1>15, <1>16, <1>17

\* A packet let through moves its size from the bucket to what went out.
LEMMA AllowStep ==
    ASSUME Inv, NEW c \in CPUs, Allow(c)
    PROVE  Inv'
<1> USE DEF Inv
<1> DEFINE d == frame[c].dir
           now == frame[c].now
           size == frame[c].size
           left == tokens[d] - size
<1>1. d \in Directions /\ now \in 0 .. MaxTime /\ size \in Nat
  <2>1. PacketSizes \cup {0} \subseteq Nat
    BY TokenBucketAssumption
  <2>2. frame[c] \in Frames
    BY DEF TypeOK
  <2> QED BY <2>1, <2>2 DEF Frames
<1>2. /\ pc[c] = "spend"
      /\ tokens' = [tokens EXCEPT ![d] = (tokens[d] - size) % Word]
      /\ obs' = ObserveAllowed(d, now, size)
      /\ pc' = [pc EXCEPT ![c] = "idle"]
      /\ frame' = [frame EXCEPT ![c] = NoFrame]
      /\ clock' = clock /\ last_update_ns' = last_update_ns
  BY DEF Allow, Return, Goto, TypeOK
<1>3. tokens[d] \in Nat /\ size <= tokens[d] /\ tokens[d] <= 2 * LimitBps(d)
  BY <1>1, <1>2 DEF Covered, TypeOK
<1>4. obs \in Observations
  BY DEF TypeOK
<1> HIDE DEF d, now, size
<1>5. left \in Nat /\ left <= tokens[d]
  BY <1>1, <1>3
<1>6. tokens' = [tokens EXCEPT ![d] = left]
  <2>1. LimitBps(d) \in Nat /\ 3 * LimitBps(d) < Word
    BY <1>1, LimitBpsType
  <2>2. left < Word
    BY <1>3, <1>5, <2>1, TokenBucketAssumption
  <2>3. left % Word = left
    BY <1>5, <2>2, ModSmall, TokenBucketAssumption
  <2> QED BY <1>2, <2>3
<1>7. tokens'[d] = left /\ \A e \in Directions : e # d => tokens'[e] = tokens[e]
  BY <1>1, <1>6 DEF TypeOK
<1>8. /\ obs' \in Observations
      /\ obs'.dir = obs.dir /\ obs'.from = obs.from
      /\ obs'.open = obs.open /\ obs'.excess = obs.excess
  <2>1. obs' = obs \/ obs' = [obs EXCEPT !.bytes = obs.bytes + size]
    BY <1>2 DEF ObserveAllowed
  <2>2. obs.bytes + size \in Nat
    BY <1>1, <1>4 DEF Observations
  <2> QED BY <1>4, <2>1, <2>2 DEF Observations
<1>9. \A c1 \in CPUs : c1 # c => pc'[c1] = pc[c1] /\ frame'[c1] = frame[c1]
  BY <1>2 DEF TypeOK
<1>10. pc'[c] = "idle" /\ frame'[c] = NoFrame
  BY <1>2 DEF TypeOK
<1> HIDE DEF left
<1>11. TypeOK'
  <2>1. NoFrame \in Frames
    BY TokenBucketAssumption DEF NoFrame, Frames, Directions
  <2>2. tokens' \in [Directions -> Nat]
    BY <1>1, <1>5, <1>6 DEF TypeOK
  <2>3. \A e \in Directions : tokens'[e] <= 2 * LimitBps(e)
    <3>1. \A e \in Directions : LimitBps(e) \in Nat
      BY LimitBpsType
    <3> QED BY <1>1, <1>3, <1>5, <1>7, <3>1 DEF TypeOK
  <2> QED BY <1>2, <1>8, <2>1, <2>2, <2>3 DEF TypeOK, Labels
<1>12. StampsPast'
  BY <1>2, <1>9, <1>10 DEF StampsPast, NoFrame, TypeOK
<1>13. OneHolder'
  BY <1>9, <1>10 DEF OneHolder, Holders
<1>14. Covered'
  <2>1. \A c1 \in CPUs : c1 # c /\ pc[c1] = "spend" => frame[c1].dir # d
    BY <1>1, <1>2 DEF OneHolder, Holders, d
  <2>2. \A c1 \in CPUs : frame[c1].dir \in Directions
    BY DEF TypeOK, Frames
  <2> QED BY <1>7, <1>9, <1>10, <2>1, <2>2 DEF Covered
<1>15. OpenedBefore'
  BY <1>8, <1>9, <1>10 DEF OpenedBefore
<1>16. Budget'
  <2>1. CASE d # obs.dir
    <3>1. obs' = obs /\ tokens'[obs.dir] = tokens[obs.dir]
      BY <1>2, <1>4, <1>7, <2>1 DEF ObserveAllowed, Observations
    <3> QED BY <1>2, <3>1 DEF Budget
  <2>2. CASE d = obs.dir /\ now >= obs.from
    <3>1. obs.open
      BY <1>2, <2>2 DEF OpenedBefore, d, now
    <3>2. obs'.bytes = obs.bytes + size
      BY <1>2, <1>4, <2>2 DEF ObserveAllowed, Observations
    <3>3. obs'.bytes + tokens'[d] = obs.bytes + tokens[d]
      BY <1>1, <1>3, <1>4, <1>7, <3>2 DEF left, Observations
    <3> QED BY <1>2, <1>8, <2>2, <3>1, <3>3 DEF Budget
  <2>3. CASE d = obs.dir /\ ~(now >= obs.from)
    <3>1. obs' = obs
      BY <1>2, <2>3 DEF ObserveAllowed
    <3>2. CASE ~obs.open
      BY <3>1, <3>2 DEF Budget
    <3>3. CASE obs.open
      <4> DEFINE total == LimitBps(d)
                   * (2 * NsPerSec + (last_update_ns[d] - obs.from) + obs.excess)
      <4>1. NsPerSec \in Nat /\ obs.bytes \in Nat
        BY <1>4, MulMono, TokenBucketAssumption DEF NsPerSec, Observations
      <4>2. (obs.bytes + left) * NsPerSec <= (obs.bytes + tokens[d]) * NsPerSec
        BY <1>3, <1>5, <4>1, MulMono
      <4>3. (obs.bytes + tokens[d]) * NsPerSec <= total
        BY <2>3, <3>3 DEF Budget
      <4>4. total \in Int
        <5>1. 2 * NsPerSec + (last_update_ns[d] - obs.from) + obs.excess \in Int
          BY <1>1, <1>4, <4>1 DEF TypeOK, Observations
        <5>2. LimitBps(d) \in Int
          BY <1>1, LimitBpsType
        <5> QED BY <5>1, <5>2
      <4> HIDE DEF total
      <4>5. (obs.bytes + left) * NsPerSec <= total
        BY <1>3, <1>5, <4>1, <4>2, <4>3, <4>4
      <4> QED BY <1>2, <1>7, <2>3, <3>1, <3>3, <4>5 DEF Budget, total
    <3> QED BY <3>2, <3>3
  <2> QED BY <2>1, <2>2, <2>3
<1> QED BY <1>11, <1>12, <1>13, <1>14, <1>15, <1>16

\* Time only makes the stamps older.
LEMMA TickStep ==
    ASSUME Inv, Tick
    PROVE  Inv'
<1> USE DEF Inv
<1>1. UNCHANGED <<pc, frame, tokens, last_update_ns, obs>>
  BY DEF Tick
<1>2. TypeOK'
  BY <1>1, TokenBucketAssumption DEF Tick, TypeOK
<1>3. StampsPast'
  BY <1>1 DEF Tick, StampsPast, TypeOK, Frames
<1>4. OneHolder' /\ Covered' /\ OpenedBefore' /\ Budget'
  BY <1>1 DEF OneHolder, Holders, Covered, OpenedBefore, Budget
<1> QED BY <1>2, <1>3, <1>4

\* Inv is an invariant of the policer, whatever the interleaving of the CPUs.
THEOREM Invariance == Spec => []Inv
<1>1. Inv /\ [Next]_vars => Inv'
  <2> SUFFICES ASSUME Inv, [Next]_vars PROVE Inv'
    OBVIOUS
  <2>1. CASE Tick
    BY <2>1, TickStep
  <2>2. ASSUME NEW c \in CPUs, egress_rl(c) PROVE Inv'
    BY <2>2, EnterStep DEF egress_rl, Directions
  <2>3. ASSUME NEW c \in CPUs, ingress_rl(c) PROVE Inv'
    BY <2>3, EnterStep DEF ingress_rl, Directions
  <2>4. ASSUME NEW c \in CPUs, bpf_spin_lock(c) PROVE Inv'
    BY <2>4, LockStep
  <2>5. ASSUME NEW c \in CPUs, Refill(c) PROVE Inv'
    BY <2>5, RefillStep
  <2>6. ASSUME NEW c \in CPUs, Enough(c) \/ Drop(c) PROVE Inv'
    BY <2>6, DecideStep
  <2>7. ASSUME NEW c \in CPUs, Allow(c) PROVE Inv'
    BY <2>7, AllowStep
  <2>8. CASE UNCHANGED vars
    BY <2>8 DEF vars, Inv, TypeOK, StampsPast, OneHolder, Holders, Covered, OpenedBefore, Budget
  <2> QED BY <2>1, <2>2, <2>3, <2>4, <2>5, <2>6, <2>7, <2>8 DEF Next
<1> QED BY <1>1, InitInv, PTL DEF Spec

\* The types hold, the cap of twice the rate among them (lines 62-66), and
\* so the subtraction at line 71 never wraps.
THEOREM TypeCorrect == Spec => []TypeOK
<1>1. Inv => TypeOK
  BY DEF Inv
<1> QED BY <1>1, Invariance, PTL

\* For every number of CPUs, rate, packet size and interleaving, what the
\* policer lets through in any window is bounded by the burst, the rate and
\* the excess of the out-of-order updates.
THEOREM RateBoundTheorem == Spec => []RateBoundUpToLateness
<1>1. Inv => RateBoundUpToLateness
  <2> SUFFICES ASSUME Inv, clock >= obs.from
               PROVE  obs.bytes * NsPerSec
                        <= LimitBps(obs.dir) * (2 * NsPerSec + (clock - obs.from) + obs.excess)
    BY DEF RateBoundUpToLateness
  <2> DEFINE bps == LimitBps(obs.dir)
             last == last_update_ns[obs.dir]
             w == 2 * NsPerSec + (last - obs.from) + obs.excess
             full == 2 * NsPerSec + (clock - obs.from) + obs.excess
  <2>1. /\ obs.dir \in Directions /\ obs.from \in Nat /\ obs.bytes \in Nat
        /\ obs.excess \in Nat /\ clock \in Nat
    BY TokenBucketAssumption DEF Inv, TypeOK, Observations
  <2>2. bps \in Nat /\ NsPerSec \in Nat
    BY <2>1, LimitBpsType, MulMono, TokenBucketAssumption DEF NsPerSec
  <2>3. tokens[obs.dir] \in Nat /\ last \in Nat /\ last <= clock
    BY <2>1, TokenBucketAssumption DEF Inv, TypeOK, StampsPast
  <2>4. CASE ~obs.open
    <3>1. obs.bytes = 0
      BY <2>4 DEF Inv, Budget
    <3>2. full \in Nat
      BY <2>1, <2>2
    <3>3. bps * full \in Nat
      BY <2>2, <3>2, MulMono
    <3> QED BY <2>2, <3>1, <3>3
  <2>5. CASE obs.open
    <3>1. (obs.bytes + tokens[obs.dir]) * NsPerSec <= bps * w
      BY <2>5 DEF Inv, Budget
    <3>2. w \in Int /\ clock - last \in Nat /\ w + (clock - last) = full
      BY <2>1, <2>2, <2>3
    <3>3. 0 * NsPerSec <= bps * (clock - last)
      BY <2>2, <3>2, MulMono
    <3> HIDE DEF bps, w, full, last
    <3>4. (obs.bytes + 0) * NsPerSec <= bps * (w + (clock - last))
      <4>1. 0 <= tokens[obs.dir] + 0 /\ clock - last \in Int /\ 0 \in Nat
        BY <2>3, <3>2
      <4> QED BY <2>1, <2>2, <2>3, <3>1, <3>2, <3>3, <4>1, BudgetGrows
    <3> QED BY <2>1, <3>2, <3>4 DEF bps, full
  <2> QED BY <2>4, <2>5
<1> QED BY <1>1, Invariance, PTL

\* With one CPU, the update of a packet that has read the clock and not yet
\* refilled the bucket will not go back in time, and none has.
InOrder ==
    /\ obs.excess = 0
    /\ \A c \in CPUs : pc[c] \in {"lock", "refill"} =>
          \A d \in Directions : last_update_ns[d] <= frame[c].now

\* A step of the only CPU keeps the updates in order.
LEMMA InOrderStep ==
    ASSUME \A c1, c2 \in CPUs : c1 = c2, Inv, InOrder, [Next]_vars
    PROVE  InOrder'
<1>1. /\ pc \in [CPUs -> Labels] /\ frame \in [CPUs -> Frames] /\ StampsPast
      /\ last_update_ns \in [Directions -> 0 .. MaxTime] /\ clock \in 0 .. MaxTime
      /\ obs \in Observations
  BY DEF Inv, TypeOK
<1>2. MaxTime \in Nat
  BY TokenBucketAssumption
<1>3. \A c \in CPUs : frame[c].dir \in Directions /\ frame[c].now \in Nat
  BY <1>1, <1>2 DEF Frames
<1>4. CASE Tick \/ UNCHANGED vars
  BY <1>4 DEF Tick, vars, InOrder
<1>5. ASSUME NEW c \in CPUs, NEW d \in Directions, Enter(c, d)
      PROVE  InOrder'
  <2>1. PICK size \in PacketSizes :
            frame' = [frame EXCEPT ![c] = [dir |-> d, size |-> size, now |-> clock]]
    BY <1>5 DEF Enter
  <2>2. frame'[c].now = clock
    BY <1>1, <2>1
  <2>3. UNCHANGED <<last_update_ns, obs>> /\ \A e \in Directions : last_update_ns[e] <= clock
    BY <1>1, <1>5 DEF Enter, StampsPast
  <2> QED BY <2>2, <2>3 DEF InOrder
<1>6. ASSUME NEW c \in CPUs, bpf_spin_lock(c)
      PROVE  InOrder'
  BY <1>1, <1>6 DEF bpf_spin_lock, Goto, InOrder
<1>7. ASSUME NEW c \in CPUs, Refill(c)
      PROVE  InOrder'
  <2>1. pc[c] = "refill" /\ pc' = [pc EXCEPT ![c] = "decide"]
        /\ obs' = ObserveUpdate(frame[c].dir, frame[c].now)
    BY <1>7 DEF Refill, Goto
  <2>2. last_update_ns[frame[c].dir] <= frame[c].now
    BY <1>3, <2>1 DEF InOrder
  <2>3. ~(frame[c].now < last_update_ns[frame[c].dir])
    <3>1. last_update_ns[frame[c].dir] \in Nat
      BY <1>1, <1>2, <1>3
    <3> QED BY <1>3, <2>2, <3>1
  <2>4. obs'.excess = obs.excess
    BY <1>1, <2>1, <2>3 DEF ObserveUpdate, Observations
  <2>5. \A c1 \in CPUs : pc'[c1] = "decide"
    BY <1>1, <2>1
  <2> QED BY <2>4, <2>5 DEF InOrder
<1>8. ASSUME NEW c \in CPUs, Enough(c) \/ Drop(c)
      PROVE  InOrder'
  <2>1. UNCHANGED obs /\ pc'[c] \in {"spend", "idle"}
    BY <1>1, <1>8 DEF Enough, Drop, Return, Goto
  <2> QED BY <2>1 DEF InOrder
<1>9. ASSUME NEW c \in CPUs, Allow(c)
      PROVE  InOrder'
  <2>1. pc'[c] = "idle" /\ obs' = ObserveAllowed(frame[c].dir, frame[c].now, frame[c].size)
    BY <1>1, <1>9 DEF Allow, Return, Goto
  <2>2. obs'.excess = obs.excess
    BY <1>1, <2>1 DEF ObserveAllowed, Observations
  <2> QED BY <2>1, <2>2 DEF InOrder
<1> QED BY <1>4, <1>5, <1>6, <1>7, <1>8, <1>9 DEF Next, egress_rl, ingress_rl, Directions

\* On one CPU the cap itself holds: it takes two CPUs, one of which is
\* overtaken between bpf_ktime_get_ns and bpf_spin_lock, to exceed it.
THEOREM OneCpuRateBound ==
    ASSUME \A c1, c2 \in CPUs : c1 = c2
    PROVE  Spec => []RateBound
<1>1. Init => InOrder
  BY DEF Init, InOrder
<1>2. RateBoundUpToLateness /\ InOrder /\ Inv => RateBound
  <2> SUFFICES ASSUME RateBoundUpToLateness, obs.excess = 0, Inv, clock >= obs.from
               PROVE  obs.bytes * NsPerSec
                        <= LimitBps(obs.dir) * (2 * NsPerSec + (clock - obs.from))
    BY DEF RateBound, InOrder
  <2> DEFINE w == 2 * NsPerSec + (clock - obs.from)
  <2>1. obs.from \in Nat /\ clock \in Nat /\ NsPerSec \in Nat
    BY MulMono, TokenBucketAssumption DEF Inv, TypeOK, Observations, NsPerSec
  <2>2. w + obs.excess = w
    BY <2>1
  <2>3. obs.bytes * NsPerSec <= LimitBps(obs.dir) * (w + obs.excess)
    BY DEF RateBoundUpToLateness
  <2> QED BY <2>2, <2>3
<1>3. Inv /\ InOrder /\ [Next]_vars => InOrder'
  BY InOrderStep
<1> QED BY <1>1, <1>2, <1>3, Invariance, RateBoundTheorem, PTL DEF Spec
=============================================================================
