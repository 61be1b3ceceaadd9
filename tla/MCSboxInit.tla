----------------------------- MODULE MCSboxInit -----------------------------
(* Two independent processes, the first with two threads, and a clone; for *)
(* liveness the first and its clone, which is a process of its own too.    *)
EXTENDS SboxInit, TLC

CONSTANTS p1, p2, c1, t1, t2, t3, t4

MCProc == {p1, p2, c1}
MCRoot == {p1, p2}
MCThread == {t1, t2, t3, t4}
MCOwner == [t \in MCThread |->
  CASE t \in {t1, t2} -> p1 [] t = t3 -> p2 [] t = t4 -> c1]

LiveProc == {p1, c1}
LiveRoot == {p1}
LiveThread == {t1, t2, t4}
LiveOwner == [t \in LiveThread |-> IF t = t4 THEN c1 ELSE p1]

SameProcess == Permutations({t1, t2})

Interruptions == {"crash", "throw", "clone"}
Anything == {"crash", "throw", "cut", "lost", "clone"}
Cut == {"throw", "cut"}
=============================================================================
