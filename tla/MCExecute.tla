----------------------------- MODULE MCExecute ------------------------------
(* Two calls, one of them with hooks of the user's, and two pids, so that a *)
(* pid freed by one is given to the other.                                 *)
EXTENDS Execute, TLC

CONSTANTS c1, c2, q1, q2

MCCall == {c1, c2}
MCPid == {q1, q2}
MCCustom == {c2}
SamePid == Permutations(MCPid)

NoCustom == {}
CloneFaults == {"clone"}
MapFaults == {"map"}
=============================================================================
