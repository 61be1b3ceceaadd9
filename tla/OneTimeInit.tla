---------------------------- MODULE OneTimeInit -----------------------------
(***************************************************************************)
(* What Once-guarded initialisation under a file lock promises its         *)
(* callers, of whatever processes: what it sets up (TMPDIR/sbox,           *)
(* /sys/fs/cgroup/sbox) appears whole in one step, at most once, while     *)
(* somebody asks for it, and no call returns before.  A call may fail with *)
(* an exception, and its process may die.                                  *)
(***************************************************************************)
CONSTANT Thread

VARIABLES
  ready,     \* is everything set up?
  status     \* of each thread's call

vars == <<ready, status>>

Init ==
  /\ ready \in BOOLEAN      \* an earlier program may have set it up
  /\ status = [t \in Thread |-> "out"]

Ask(t) ==
  /\ status[t] \in {"out", "thrown"}
  /\ status' = [status EXCEPT ![t] = "in"]
  /\ UNCHANGED ready

SetUp(t) ==
  /\ status[t] = "in"
  /\ ~ready
  /\ ready' = TRUE
  /\ UNCHANGED status

Return(t) ==
  /\ status[t] \in {"out", "thrown", "in"}
  /\ ready
  /\ status' = [status EXCEPT ![t] = "returned"]
  /\ UNCHANGED ready

Fail(t) ==
  /\ status[t] = "in"
  /\ status' = [status EXCEPT ![t] = "thrown"]
  /\ UNCHANGED ready

Die(T) ==
  /\ status' = [t \in Thread |-> IF t \in T THEN "dead" ELSE status[t]]
  /\ UNCHANGED ready

Next ==
  \/ \E t \in Thread : Ask(t) \/ SetUp(t) \/ Return(t) \/ Fail(t)
  \/ \E T \in SUBSET Thread : Die(T)

Spec == Init /\ [][Next]_vars
=============================================================================
