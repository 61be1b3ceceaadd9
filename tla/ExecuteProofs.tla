--------------------------- MODULE ExecuteProofs ----------------------------
(***************************************************************************)
(* Proofs about Execute for any number of calls and pids.                  *)
(*                                                                         *)
(* Why a bare number is enough, for so long: until wait() of this knob has *)
(* reaped it, the child is there, as a zombie at least, and holds its pid. *)
(***************************************************************************)
EXTENDS Execute, TLAPS

(* The processes there are have pids of their own.                         *)
PidsApart ==
  \A c \in Call : child[c] \in Present =>
    /\ pid[c] \notin strangers
    /\ \A d \in Call : child[d] \in Present /\ pid[d] = pid[c] => d = c

(* A call has no child before the clone, and keeps it as long as it has a  *)
(* knob that wait() has not used up.                                       *)
KnobHasChild ==
  \A c \in Call :
    /\ caller[c] \in {"idle", "clone"} => child[c] = "none"
    /\ caller[c] \in {"after", "knob", "wait"} => child[c] \in Present
    /\ caller[c] \in {"reaped", "waited"} => child[c] = "gone"

(* A status is final, and wait() has it only after the child is gone.      *)
ResultIsFinal ==
  \A c \in Call :
    result[c] # "none" => child[c] = "gone" /\ result[c] = status[c]

(* Nobody else was reached before that. *)
NoneStrays == \A c \in Call : <<c, "before">> \notin strayed

Inv ==
  /\ TypeOK
  /\ PidsApart
  /\ KnobHasChild
  /\ ResultIsFinal
  /\ NoneStrays
-----------------------------------------------------------------------------
LEMMA InitInv == Init => Inv
BY DEF Init, Inv, TypeOK, PidsApart, KnobHasChild, ResultIsFinal, NoneStrays,
  Present, Outcome, ExitStatus, Arguments, Target

(* Steps that leave alone what the invariant but TypeOK is about.          *)
LEMMA CallerMoves ==
  ASSUME Inv, TypeOK', NEW c \in Call, NEW l,
         caller' = [caller EXCEPT ![c] = l],
         l \notin {"idle", "clone"} \/ child[c] = "none",
         l \in {"after", "knob", "wait"} => child[c] \in Present,
         l \in {"reaped", "waited"} => child[c] = "gone",
         UNCHANGED <<child, pid, status, result, strangers, strayed>>
  PROVE  Inv'
<1>1. PidsApart' /\ ResultIsFinal' /\ NoneStrays'
  BY DEF Inv, PidsApart, ResultIsFinal, NoneStrays
<1>2. KnobHasChild'
  BY DEF Inv, TypeOK, KnobHasChild, Present
<1> QED
  BY <1>1, <1>2 DEF Inv

LEMMA BeforeCloneKeeps ==
  ASSUME Inv, NEW c \in Call, BeforeClone(c) PROVE Inv'
<1>1. PICK a \in Arguments, w \in Target :
        flags' = [flags EXCEPT ![c] = a] /\ aim' = [aim EXCEPT ![c] = w]
  BY DEF BeforeClone, Target
<1>2. TypeOK'
  BY <1>1 DEF Inv, TypeOK, BeforeClone
<1> QED
  BY <1>2, CallerMoves DEF BeforeClone, Inv, KnobHasChild

LEMMA CloneKeeps == ASSUME Inv, NEW c \in Call, Clone(c) PROVE Inv'
<1>1. PICK p \in Pid \ PidsInUse : pid' = [pid EXCEPT ![c] = p]
  BY DEF Clone
<1>2. TypeOK'
  <2>1. pidfd' \in [Call -> {"none", "local", "hook", "held", "lost"}]
    BY DEF Inv, TypeOK, Clone, CanClone, Target
  <2> QED
    BY <1>1, <2>1 DEF Inv, TypeOK, Clone, Present
<1>3. p \notin strangers /\ \A d \in Call : child[d] \in Present => pid[d] # p
  BY <1>1 DEF PidsInUse
<1>4. /\ pid'[c] = p /\ child'[c] = "hook"
      /\ \A d \in Call \ {c} : pid'[d] = pid[d] /\ child'[d] = child[d]
      /\ strangers' = strangers
  BY <1>1 DEF Clone, Inv, TypeOK
<1>5. PidsApart'
  BY <1>3, <1>4 DEF Inv, PidsApart
<1>6. child[c] = "none" /\ result[c] = "none"
  BY DEF Inv, KnobHasChild, ResultIsFinal, Clone
<1>7. KnobHasChild' /\ ResultIsFinal' /\ NoneStrays'
  BY <1>4, <1>6
  DEF Inv, TypeOK, Clone, KnobHasChild, ResultIsFinal, NoneStrays,
    Present
<1> QED
  BY <1>2, <1>5, <1>7 DEF Inv

LEMMA KnobMovesKeep ==
  ASSUME Inv, NEW c \in Call,
         \/ CloneFails(c) \/ ReturnKnob(c) \/ HookThrows(c) \/ Wait(c)
         \/ Waited(c) \/ WaitThrows(c) \/ DropKnob(c)
  PROVE  Inv'
<1>1. TypeOK'
  BY DEF Inv, TypeOK, CloneFails, ReturnKnob, HookThrows, Wait, Waited,
    WaitThrows, DropKnob
<1> QED
  BY <1>1, CallerMoves DEF CloneFails, ReturnKnob, HookThrows, Wait,
    Waited, WaitThrows, DropKnob, Inv, KnobHasChild

LEMMA ReapKeeps == ASSUME Inv, NEW c \in Call, Reap(c) PROVE Inv'
<1>1. Reapable(c) \subseteq {c}
  BY DEF Reapable, Reap, Inv, KnobHasChild, PidsApart, Present
<1>2. /\ child[c] = "zombie"
      /\ child' = [child EXCEPT ![c] = "gone"]
      /\ result' = [result EXCEPT ![c] = status[c]]
  BY <1>1 DEF Reap, Reapable
<1>3. TypeOK'
  BY <1>2 DEF Inv, TypeOK, Reap, Present
<1>4. PidsApart' /\ NoneStrays'
  BY <1>2 DEF Inv, TypeOK, PidsApart, NoneStrays, Reap, Present
<1>5. KnobHasChild'
  BY <1>2 DEF Inv, TypeOK, KnobHasChild, Reap
<1>6. ResultIsFinal'
  BY <1>2 DEF Inv, TypeOK, ResultIsFinal, Reap
<1> QED
  BY <1>3, <1>4, <1>5, <1>6 DEF Inv

(* The child of a call goes on or ends.                                    *)
LEMMA ChildMoves ==
  ASSUME Inv, TypeOK', NEW c \in Call, child[c] \in Alive,
         NEW l \in Present, child' = [child EXCEPT ![c] = l],
         \A d \in Call \ {c} : status'[d] = status[d],
         UNCHANGED <<caller, pid, result, strangers, strayed>>
  PROVE  Inv'
<1>1. child'[c] = l /\ \A d \in Call \ {c} : child'[d] = child[d]
  BY DEF Inv, TypeOK
<1>2. child[c] \in Present
  BY DEF Alive
<1>3. PidsApart' /\ KnobHasChild' /\ NoneStrays'
  BY <1>1, <1>2 DEF Inv, PidsApart, KnobHasChild, NoneStrays, Present
<1>4. ResultIsFinal'
  BY <1>1, <1>2 DEF Inv, ResultIsFinal, Present
<1> QED
  BY <1>3, <1>4 DEF Inv

LEMMA ChildKeeps == ASSUME Inv, NEW c \in Call, ChildStep(c) PROVE Inv'
<1>1. child[c] \in Alive
  BY DEF ChildStep, EnterF, EndOfF, Escape, Unwind, Killed, Alive, Present
<1>2. /\ \E l \in Present : child' = [child EXCEPT ![c] = l]
      /\ \A d \in Call \ {c} : status'[d] = status[d]
      /\ UNCHANGED <<caller, pid, result, strangers, strayed>>
  <2>1. CASE EnterF(c)
    BY <2>1 DEF EnterF, Present
  <2>2. CASE Escape(c)
    BY <2>2 DEF Escape, Present
  <2>3. ASSUME NEW s, End(c, s)
        PROVE  /\ child' = [child EXCEPT ![c] = "zombie"]
               /\ \A d \in Call \ {c} : status'[d] = status[d]
    BY <2>3 DEF End, Inv, TypeOK, ExitStatus, Outcome
  <2>4. CASE EndOfF(c) \/ Unwind(c) \/ Killed(c)
    BY <2>3, <2>4 DEF EndOfF, Unwind, Killed, Present
  <2> QED
    BY <2>1, <2>2, <2>4 DEF ChildStep
<1>3. TypeOK'
  <2>1. CASE EnterF(c)
    BY <2>1 DEF EnterF, Inv, TypeOK, Present
  <2>2. CASE Escape(c)
    BY <2>2 DEF Escape, Inv, TypeOK, Present
  <2>3. ASSUME NEW s \in ExitStatus, End(c, s)
        PROVE  /\ child' \in [Call -> Present \cup {"none", "gone"}]
               /\ status' \in [Call -> ExitStatus \cup {"none"}]
    BY <2>3 DEF End, Inv, TypeOK, Present, ExitStatus
  <2>4. CASE EndOfF(c) \/ Killed(c)
    BY <2>3, <2>4 DEF EndOfF, Killed, Inv, TypeOK, ExitStatus
  <2>5. CASE Unwind(c)
    BY <2>3, <2>5 DEF Unwind, Inv, TypeOK
  <2> QED
    BY <2>1, <2>2, <2>4, <2>5 DEF ChildStep
<1> QED
  BY <1>1, <1>2, <1>3, ChildMoves

LEMMA SignalKeeps == ASSUME Inv, NEW c \in Call, SendSignal(c) PROVE Inv'
<1> DEFINE reached == {d \in Call : child[d] \in Present /\ pid[d] = pid[c]}
           others == (reached \ {c}) \cup (strangers \cap {pid[c]})
           when == IF child[c] = "gone" THEN "after" ELSE "before"
<1>1. strayed' = strayed \cup {<<c, when>> : x \in others}
  BY DEF SendSignal
<1>2. NoneStrays' /\ strayed' \subseteq Call \X {"before", "after"}
  <2>1. CASE child[c] = "gone"
    BY <1>1, <2>1 DEF Inv, NoneStrays, TypeOK
  <2>2. CASE child[c] # "gone"
    <3>1. child[c] \in Present
      BY <2>2 DEF SendSignal, HasKnob, Inv, KnobHasChild
    <3>2. others = {}
      BY <3>1 DEF Inv, PidsApart
    <3>3. strayed' = strayed
      BY <1>1, <3>2
    <3> QED
      BY <3>3 DEF Inv, NoneStrays, TypeOK
  <2> QED
    BY <2>1, <2>2
<1>3. PICK dead \in SUBSET {d \in reached : child[d] \in Alive} :
        /\ child' = [d \in Call |-> IF d \in dead THEN "zombie" ELSE child[d]]
        /\ status' =
             [d \in Call |-> IF d \in dead THEN "signal" ELSE status[d]]
  BY DEF SendSignal
<1>4. \A d \in Call :
        \/ child'[d] = child[d] /\ status'[d] = status[d]
        \/ child[d] \in Alive /\ child'[d] = "zombie"
  BY <1>3
<1>5. TypeOK'
  BY <1>2, <1>3 DEF SendSignal, Inv, TypeOK, Present, ExitStatus
<1>6. PidsApart' /\ KnobHasChild'
  BY <1>4 DEF SendSignal, Inv, PidsApart, KnobHasChild, Alive, Present
<1>7. ResultIsFinal'
  BY <1>4 DEF SendSignal, Inv, ResultIsFinal, Alive, Present
<1> QED
  BY <1>2, <1>5, <1>6, <1>7 DEF Inv

LEMMA StrangerKeeps == ASSUME Inv, StrangerStep PROVE Inv'
<1>1. TypeOK'
  BY DEF StrangerStep, Inv, TypeOK
<1>2. \A c \in Call : child[c] \in Present => pid[c] \notin strangers'
  BY DEF StrangerStep, PidsInUse, Inv, PidsApart
<1>3. UNCHANGED <<caller, child, pid, status, result, strayed>>
  BY DEF StrangerStep
<1> QED
  BY <1>1, <1>2, <1>3
  DEF Inv, PidsApart, KnobHasChild, ResultIsFinal, NoneStrays

LEMMA NextKeeps == ASSUME Inv, [Next]_vars PROVE Inv'
<1>1. CASE UNCHANGED vars
  BY <1>1 DEF vars, Inv, TypeOK, PidsApart, KnobHasChild, ResultIsFinal,
    NoneStrays
<1> QED
  BY <1>1, BeforeCloneKeeps, CloneKeeps, KnobMovesKeep, ReapKeeps,
    ChildKeeps, SignalKeeps, StrangerKeeps DEF Next, CallerStep

(* The state of the calls, their knobs and their children is what           *)
(* execute.cpp and process_knob.hpp declare.                               *)
THEOREM TypeCorrect == Spec => []TypeOK
<1>1. Inv => TypeOK
  BY DEF Inv
<1> QED
  BY <1>1, InitInv, NextKeeps, PTL DEF Spec

(* Nobody takes a knob's child away from its wait(), which returns its     *)
(* status, and until that has reaped it a signal through the knob reaches  *)
(* it or nobody.  (process_knob.cpp:21-39)                                 *)
THEOREM OwnChildren == Spec => []OwnChild
<1>1. Inv => OwnChild
  BY DEF Inv, OwnChild, KnobHasChild, ResultIsFinal, NoneStrays
<1> QED
  BY <1>1, InitInv, NextKeeps, PTL DEF Spec
-----------------------------------------------------------------------------
(* Where the pidfd is, from the clone on. *)
Created(c) ==
  IF "pidfd" \in flags[c] THEN aim[c] ELSE "none"

PidfdInv ==
  \A c \in Call :
    /\ caller[c] \in {"idle", "clone"} => pidfd[c] = "none"
    /\ caller[c] = "after" =>
         pidfd[c] = Created(c) /\ CanClone(c)
    /\ caller[c] \in HasKnob =>
         pidfd[c] = IF Created(c) = "local" THEN "held" ELSE Created(c)
    /\ caller[c] \in HasKnob => CanClone(c)
    /\ aim[c] = "hook" => c \in Custom
    /\ pidfd[c] \in {"hook", "lost"} => c \in Custom

(* A knob owns the pidfd that clone3 was asked for, also when BeforeClone   *)
(* rewrites the flag and the pointer between the two reads of the flag,    *)
(* unless it points to a variable of its own.  (execute.cpp:17-45)         *)
THEOREM PidfdOwned == Spec => []KnobPidfd
<1>1. Init => PidfdInv
  BY DEF Init, PidfdInv, HasKnob
<1>2. Inv /\ PidfdInv /\ [Next]_vars => PidfdInv'
  <2> SUFFICES ASSUME Inv, PidfdInv, [Next]_vars PROVE PidfdInv'
    OBVIOUS
  <2>1. ASSUME NEW c \in Call, CallerStep(c) PROVE PidfdInv'
    <3>1. \A d \in Call \ {c} :
            /\ caller'[d] = caller[d] /\ flags'[d] = flags[d]
            /\ aim'[d] = aim[d] /\ pidfd'[d] = pidfd[d]
      BY <2>1 DEF CallerStep, BeforeClone, Clone, CloneFails, ReturnKnob,
        HookThrows, SendSignal, Wait, Reap, Waited, WaitThrows, DropKnob, Inv,
        TypeOK
    <3>2. CASE BeforeClone(c)
      <4>1. pidfd' = pidfd /\ pidfd[c] = "none" /\ caller'[c] = "clone"
        BY <3>2 DEF BeforeClone, Inv, TypeOK, PidfdInv
      <4>2. aim'[c] = "hook" => c \in Custom
        BY <3>2 DEF BeforeClone, Inv, TypeOK
      <4> QED
        BY <3>1, <4>1, <4>2 DEF PidfdInv, HasKnob, Created, CanClone
    <3>3. CASE Clone(c)
      <4>1. /\ flags' = flags /\ aim' = aim /\ caller'[c] = "after"
            /\ pidfd'[c] = Created(c) /\ CanClone(c)
        BY <3>3 DEF Clone, Inv, TypeOK, PidfdInv, Created
      <4>2. aim[c] \in Target
        BY DEF Inv, TypeOK
      <4> QED
        BY <3>1, <4>1, <4>2 DEF PidfdInv, HasKnob, Created, CanClone, Target
    <3>4. ASSUME flags' = flags, aim' = aim, caller'[c] \in {"knob"},
                 caller[c] = "after",
                 pidfd'[c] =
                   IF Created(c) = "local" THEN "held" ELSE Created(c)
          PROVE  PidfdInv'
      BY <3>1, <3>4 DEF PidfdInv, HasKnob, Created, CanClone
    <3>5. CASE ReturnKnob(c)
      <4>1. pidfd[c] = Created(c)
        BY <3>5 DEF ReturnKnob, PidfdInv
      <4>2. pidfd'[c] =
              IF Created(c) = "local" THEN "held" ELSE Created(c)
        BY <3>5, <4>1 DEF ReturnKnob, Inv, TypeOK, Created
      <4> QED
        BY <3>4, <3>5, <4>2 DEF ReturnKnob, Inv, TypeOK
    <3>6. CASE CloneFails(c)
      BY <3>1, <3>6 DEF CloneFails, Inv, TypeOK, PidfdInv, HasKnob, Created,
        CanClone
    <3>7. CASE HookThrows(c) \/ DropKnob(c)
      BY <3>1, <3>7 DEF HookThrows, DropKnob, Inv, TypeOK, PidfdInv, HasKnob,
        Created, CanClone
    <3>8. CASE SendSignal(c)
      BY <3>8 DEF SendSignal, PidfdInv, HasKnob, Created, CanClone
    <3>9. CASE Wait(c) \/ Reap(c) \/ Waited(c) \/ WaitThrows(c)
      <4>1. /\ flags' = flags /\ aim' = aim /\ pidfd' = pidfd
            /\ caller[c] \in HasKnob /\ caller'[c] \in HasKnob
        BY <3>9 DEF Wait, Reap, Waited, WaitThrows, Inv, TypeOK, HasKnob
      <4> QED
        BY <3>1, <4>1 DEF PidfdInv, HasKnob, Created, CanClone
    <3> QED
      BY <2>1, <3>2, <3>3, <3>5, <3>6, <3>7, <3>8, <3>9 DEF CallerStep
  <2>2. ASSUME UNCHANGED <<caller, flags, aim, pidfd>> PROVE PidfdInv'
    BY <2>2 DEF PidfdInv, HasKnob, Created, CanClone
  <2>3. ASSUME NEW c \in Call, ChildStep(c) PROVE PidfdInv'
    BY <2>2, <2>3 DEF ChildStep, EnterF, EndOfF, Escape, Unwind, Killed
  <2>4. CASE StrangerStep \/ UNCHANGED vars
    BY <2>2, <2>4 DEF StrangerStep, vars
  <2> QED
    BY <2>1, <2>3, <2>4 DEF Next
<1>3. Inv /\ PidfdInv => KnobPidfd
  BY DEF Inv, TypeOK, PidfdInv, KnobPidfd, HasKnob, Created, CanClone, Target
<1> QED
  BY <1>1, <1>2, <1>3, InitInv, NextKeeps, PTL DEF Spec
=============================================================================
