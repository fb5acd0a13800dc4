--------------------------- MODULE MCTokenBucket ---------------------------
(* Small instances of TokenBucket for TLC.                                 *)
EXTENDS TokenBucket

\* 1 kbit/s (125 byte/s) up; down is blocked, the limit 0 that both front ends accept.
MCLimitKbps == [d \in Directions |-> IF d = DIRECTION_UPLOAD THEN 1 ELSE 0]
=============================================================================
