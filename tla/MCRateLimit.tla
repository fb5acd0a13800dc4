---------------------------- MODULE MCRateLimit ----------------------------
(* Small instances of RateLimit for TLC.                                   *)
EXTENDS RateLimit, TLC

\* One direction limited, and both: a call may replace a limit and drop one.
MCUpload == [d \in Directions |-> IF d = "egress" THEN 1 ELSE Unlimited]
MCBoth == [d \in Directions |-> 2]
MCUploadOnly == {MCUpload}
MCConfigs == {MCUpload, MCBoth}
MCAllFaults == {"LIBCG_CREATE", "LIBCG_ATTACH", "OPEN_CGROUP", "ALLOC", "BPF_PIN",
                "BPF_LOAD", "BPF_LINK", "LIBCG_DELETE", "LIBCG_GET", "MONITOR", "KILLED"}

\* The callers are interchangeable.
MCSymmetry == Permutations(Callers)

\* Two states look alike when they differ only in what no later step and no
\* invariant of the run reads: which error a call returns, and whether a call
\* that has failed, or one of the daemon's, was disturbed; the configuration,
\* direction and descriptor of a call that no longer uses them; what a call that
\* was disturbed asked for once it is done; and the pin directories, which
\* change no other object.
MCFrame(c) ==
    LET frame == call[c]
        failed == frame.ret # "OK"
    IN  IF frame.at = "done" /\ (failed \/ ~frame.solo \/ c = Monitor)
        THEN [Idle EXCEPT !.at = "done"]
        ELSE [frame EXCEPT !.ret = (@ = "OK"),
                           !.solo = @ /\ ~failed /\ c # Monitor,
                           !.config = IF failed THEN AnyConfig ELSE @,
                           !.dir = IF frame.at \in {"attach", "pin", "detach", "unlink"} THEN @
                                   ELSE "egress",
                           !.fd = IF failed \/ frame.at = "delete" THEN "none" ELSE @]
MCView == <<alive, parent, dirs, member, attached, pinned, bpffs, watched,
            [c \in Actors |-> MCFrame(c)]>>
=============================================================================
