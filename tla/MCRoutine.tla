----------------------------- MODULE MCRoutine ------------------------------
(* A small callable and a big one, each with a captured holder, two         *)
(* functions beside Execute's parameter, and two holders of the program's, *)
(* over two numbers, which are soon given out again.                       *)
EXTENDS Routine, TLC

CONSTANTS r, s, p, small, big, h1, h2, k1, k2, n1, n2, x1, x2, x3

MCFn == {r, s, p}
MCCallable == {small, big}
MCSmall == {small}
MCHolder == {h1, h2, k1, k2}
MCCapture == [c \in MCCallable |-> IF c = small THEN k1 ELSE k2]
MCNumber == {n1, n2}
MCFile == {x1, x2, x3}
MCFaults == {"clone", "throw", "alloc", "close", "share"}
Same ==
  Permutations(MCNumber) \cup Permutations(MCFile) \cup Permutations({r, s})
    \cup Permutations({h1, h2})

(* Nothing is followed that comes after a number has gone astray.  A        *)
(* failing close, a throwing assignment and a file that another process has *)
(* closed are not followed together, nor is a child that is born after one *)
(* of the first two.                                                       *)
Bound ==
  /\ ~ astray
  /\ failed => thrown = {}
  /\ lost # {} \/ child = "born" => thrown = {} /\ ~ failed
=============================================================================
