------------------------------ MODULE MCMonitor ------------------------------
(* Small instances of Monitor for TLC.                                     *)
EXTENDS Monitor, TLC

\* Clients, daemons and pids are interchangeable.
MCSymmetry == Permutations(Clients) \cup Permutations(Daemons) \cup Permutations(Pids)

\* No guard and no invariant of the safety run reads the set of limits.
MCView == <<alive, sock, daemon, client>>
=============================================================================
