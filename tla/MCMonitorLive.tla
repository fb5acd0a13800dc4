---------------------------- MODULE MCMonitorLive ----------------------------
(* The instance of Monitor for the liveness properties: one client is      *)
(* killed, at any point of any command.                                    *)
EXTENDS MCMonitor

\* Whether the client was killed already.
VARIABLE killed

\* The properties treat the clients alike: it does not matter which one it is.
Victim == CHOOSE c \in Clients : TRUE

LiveInit == Init /\ killed = FALSE

LiveNext ==
    \/ \E d \in Daemons : DaemonStep(d) /\ UNCHANGED killed
    \/ \E c \in Clients : (ClientStep(c) \/ Start(c)) /\ UNCHANGED killed
    \/ ~killed /\ Kill(Victim) /\ killed' = TRUE
    \/ \E p \in Pids : Die(p) /\ UNCHANGED killed

\* The fairness of FairSpec.
LiveSpec ==
    /\ LiveInit /\ [][LiveNext]_<<vars, killed>>
    /\ \A d \in Daemons : WF_vars(DaemonStep(d))
    /\ \A c \in Clients : WF_vars(ClientStep(c))
=============================================================================
