------------------------------ MODULE MCCgroup ------------------------------
(* Two controllers of one name: one after the other, or both at once. *)
EXTENDS Cgroup, TLC
CONSTANTS c1, c2, sandbox

MCNameOf == [c \in Ctl |-> sandbox]
MCAsked == (c1 :> {3}) @@ (c2 :> {})
MCTuned == {3}
=============================================================================
