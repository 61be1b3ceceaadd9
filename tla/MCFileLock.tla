----------------------------- MODULE MCFileLock -----------------------------
(* Two independent processes, the first with two guards, and a clone. *)
EXTENDS FileLock

CONSTANTS p1, p2, c1, g1, g2, g3

MCProc == {p1, p2, c1}
MCRoot == {p1, p2}
MCGuard == {g1, g2, g3}
MCOwner == [g \in MCGuard |-> IF g = g3 THEN p2 ELSE p1]
=============================================================================
