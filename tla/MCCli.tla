------------------------------- MODULE MCCli -------------------------------
(* A small instance of Cli, and of Discovery in it, for TLC.               *)
EXTENDS Cli

\* The sockets of a system service and of a user in one dump, and one of root.
MCKind == [s \in Slots |-> Queries[<<1, 1, 4>>[s]]]
MCUid == [s \in Slots |-> <<1, 2, 0>>[s]]

MCText(n) == [int |-> n, rest |-> ""]
MCJunk == [int |-> 0, rest |-> "junk"]

MCLine == [help |-> FALSE, cmd |-> "list", sub |-> "none", argc |-> 0, pid |-> MCText(1),
           upload |-> MCText(0), download |-> MCText(0), yes |-> FALSE, root |-> TRUE,
           stdin |-> <<>>]
MCLimit(sub, argc) == [MCLine EXCEPT !.cmd = "limit", !.sub = sub, !.argc = argc]
MCSet(p, u, d) == [MCLimit("set", 3) EXCEPT !.pid = MCText(p), !.upload = u, !.download = d]

\* With Unlimited = 2 and ULONG_MAX = 5: accepted texts are -1 and 2 (no
\* limit), -5 (which is 1) and the empty text (0, which blocks); refused ones
\* -2, 3, 6 and junk, and no limit in both directions.
MCCommandLines ==
    { MCLine, [MCLine EXCEPT !.help = TRUE], [MCLine EXCEPT !.root = FALSE],
      [MCLine EXCEPT !.cmd = "none"], [MCLine EXCEPT !.cmd = "unknown"],
      MCLimit("none", 0), MCLimit("unknown", 1), MCLimit("set", 2), MCLimit("unset", 0),
      MCLimit("unset", 1), [MCLimit("unset", 1) EXCEPT !.pid = MCText(0)],
      [MCLine EXCEPT !.cmd = "clean", !.yes = TRUE] }
    \cup {MCSet(1, u, MCText(-5)) : u \in {MCText(n) : n \in {-2, -1, 3, 6}} \cup {MCJunk}}
    \cup {MCSet(1, MCText(0), MCText(2)), MCSet(2, MCText(-1), MCText(2))}
    \cup {[MCLine EXCEPT !.cmd = "clean", !.stdin = answer] :
             answer \in {<<>>, <<"n">>, <<"y">>, <<"y", "n", "newline">>}}

\* Bounds: only the user's socket is shared, the service's is process 2's and
\* root's is process 1's, and process 2 does not exit.
MCInit == CliInit /\ holders[1] \subseteq {2} /\ holders[3] \subseteq {1}
MCNext ==
    CliNext /\ holders'[1] \subseteq {2} /\ holders'[3] \subseteq {1} /\ 2 \in alive'
MCSpec == MCInit /\ [][MCNext]_cliVars /\ WF_cliVars(CliStep)
=============================================================================
