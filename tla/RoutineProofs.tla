--------------------------- MODULE RoutineProofs ----------------------------
(***************************************************************************)
(* Proofs about Routine for any number of functions, callables, holders    *)
(* and numbers: what FdHolder and UniqueFunction promise, and that the     *)
(* composition is no more than its parts and keeps the promises of both.   *)
(*                                                                         *)
(* Why holders own what they have: a number means a file only because no    *)
(* two numbers are of one file, what is opened is new to all holders, and   *)
(* every number is in one hand: that of a holder that was given its file,  *)
(* or the program's.                                                       *)
(*                                                                         *)
(* Why functions know what they hold: a callable in a function is the one  *)
(* its vtable is for, whoever else has been left without by a throw.       *)
(***************************************************************************)
EXTENDS Routine, TLAPS

-----------------------------------------------------------------------------
(* Holders. *)

(* No file has two numbers. *)
TableApart ==
  \A m, n \in Number : table[m] = table[n] /\ table[m] # None => m = n

(* A holder that is not constructed has nothing. *)
DeadHaveNothing == \A h \in Holder \ live : fd[h] = None /\ given[h] = None

(* As long as nothing is astray, what the program has in its hands is open, *)
(* and a holder that was given a file has its number, alone, unless another *)
(* process has closed it.                                                  *)
OwnersApart ==
  ~ astray =>
    /\ \A n \in loose : table[n] # None
    /\ \A h \in Holder : given[h] # None =>
         /\ \A g \in Holder : given[g] = given[h] => g = h
         /\ given[h] \notin lost =>
              /\ fd[h] \in Number /\ table[fd[h]] = given[h]
              /\ fd[h] \notin loose

(* What another process has closed has no number any more. *)
LostAreGone == None \notin lost /\ \A n \in Number : table[n] \notin lost

(* Neither a failing close() nor another process has done any harm. *)
Calm == ~ failed /\ lost = {}

(* Nothing goes wrong as long as that is so. *)
FailedFirst ==
  Calm => ~ astray /\ ~ ended /\ \A h \in Holder : ~ H!Stale(h)

HolderInv ==
  /\ H!HolderConstants
  /\ H!TypeOK /\ TableApart /\ DeadHaveNothing /\ LostAreGone
  /\ OwnersApart /\ FailedFirst
-----------------------------------------------------------------------------
LEMMA HolderInitInv == H!Init => HolderInv
BY RoutineAssumption
DEF H!HolderConstants, H!Init, HolderInv, H!TypeOK, TableApart,
  DeadHaveNothing, LostAreGone, OwnersApart, FailedFirst, Calm, H!Stale,
  H!Has

LEMMA OpenKeeps == ASSUME HolderInv, H!Open PROVE HolderInv'
<1>1. PICK n \in {m \in Number : table[m] = None} \ loose,
           x \in File \ ({table[m] : m \in Number} \cup
                         {given[h] : h \in Holder} \cup lost) :
        table' = [table EXCEPT ![n] = x] /\ loose' = loose \cup {n}
  BY DEF H!Open
<1>2. /\ x # None /\ table'[n] = x /\ table[n] = None
      /\ \A m \in Number : table[m] # x
      /\ \A m \in Number \ {n} : table'[m] = table[m]
      /\ \A h \in Holder : given[h] # x
      /\ x \notin lost
  BY <1>1 DEF H!HolderConstants, HolderInv, H!TypeOK
<1>3. H!TypeOK' /\ TableApart' /\ DeadHaveNothing' /\ LostAreGone'
  BY <1>1, <1>2 DEF HolderInv, H!TypeOK, TableApart, DeadHaveNothing,
    LostAreGone, H!Open
<1>4. OwnersApart'
  BY <1>1, <1>2 DEF HolderInv, H!TypeOK, OwnersApart, H!Open
<1>5. FailedFirst'
  BY <1>1, <1>2
  DEF HolderInv, H!TypeOK, FailedFirst, Calm, OwnersApart, H!Open, H!Stale,
    H!Has
<1> QED
  BY <1>3, <1>4, <1>5 DEF HolderInv

LEMMA CloseLooseKeeps ==
  ASSUME HolderInv, NEW n \in loose, H!CloseLoose(n) PROVE HolderInv'
<1>1. /\ \A m \in Number : table'[m] = IF m = n THEN None ELSE table[m]
      /\ loose' = loose \ {n}
  BY DEF H!CloseLoose, H!Closed
<1>2. H!TypeOK' /\ TableApart' /\ DeadHaveNothing' /\ LostAreGone'
  BY <1>1
  DEF HolderInv, H!TypeOK, TableApart, DeadHaveNothing,
    LostAreGone, H!CloseLoose, H!Closed
<1>3. OwnersApart' /\ FailedFirst'
  BY <1>1, <1>2
  DEF HolderInv, H!TypeOK, OwnersApart, FailedFirst, Calm, H!CloseLoose,
    H!Stale, H!Has
<1> QED
  BY <1>2, <1>3 DEF HolderInv

LEMMA HolderDefaultKeeps ==
  ASSUME HolderInv, NEW h \in Holder, H!Default(h) PROVE HolderInv'
BY DEF HolderInv, H!TypeOK, TableApart, DeadHaveNothing, LostAreGone,
  OwnersApart, FailedFirst, Calm, H!Default, H!Stale, H!Has

LEMMA AdoptKeeps ==
  ASSUME HolderInv, NEW h \in Holder, NEW n \in loose, H!Adopt(h, n)
  PROVE  HolderInv'
<1>1. /\ fd'[h] = n /\ given'[h] = table[n] /\ loose' = loose \ {n}
      /\ \A g \in Holder \ {h} : fd'[g] = fd[g] /\ given'[g] = given[g]
      /\ n \in Number
      /\ UNCHANGED <<table, failed, astray, ended, lost>>
  BY DEF H!Adopt, HolderInv, H!TypeOK
<1>2. H!TypeOK' /\ TableApart' /\ DeadHaveNothing' /\ LostAreGone'
  BY <1>1 DEF HolderInv, H!TypeOK, TableApart, DeadHaveNothing,
    LostAreGone, H!Adopt
<1>3. OwnersApart'
  BY <1>1 DEF HolderInv, H!TypeOK, TableApart, LostAreGone, OwnersApart
<1>4. FailedFirst'
  BY <1>1 DEF HolderInv, OwnersApart, FailedFirst, Calm, H!Stale, H!Has
<1> QED
  BY <1>2, <1>3, <1>4 DEF HolderInv

(* The contents of two holders change places. *)
LEMMA ExchangeKeeps ==
  ASSUME HolderInv, NEW g \in Holder, NEW h \in Holder, H!Exchange(g, h),
         live' \subseteq Holder, live \subseteq live',
         g \in live', h \in live',
         UNCHANGED <<table, loose, failed, astray, ended, lost>>
  PROVE  HolderInv'
<1>1. /\ fd'[g] = fd[h] /\ fd'[h] = fd[g]
      /\ given'[g] = given[h] /\ given'[h] = given[g]
      /\ \A k \in Holder \ {g, h} : fd'[k] = fd[k] /\ given'[k] = given[k]
  BY DEF H!Exchange, HolderInv, H!TypeOK
<1>2. H!TypeOK' /\ TableApart' /\ DeadHaveNothing' /\ LostAreGone'
  BY <1>1 DEF HolderInv, H!TypeOK, TableApart, DeadHaveNothing,
    LostAreGone, H!Exchange
<1>3. OwnersApart'
  BY <1>1 DEF HolderInv, OwnersApart
<1>4. FailedFirst'
  BY <1>1 DEF HolderInv, FailedFirst, Calm, H!Stale, H!Has
<1> QED
  BY <1>2, <1>3, <1>4 DEF HolderInv

(* What a holder has that is not stale nobody else has. *)
LEMMA OwnIsOwn ==
  ASSUME HolderInv, ~ astray, NEW h \in Holder, ~ H!Stale(h), H!Has(h)
  PROVE  /\ given[h] # None /\ fd[h] \in Number /\ table[fd[h]] = given[h]
         /\ fd[h] \notin loose
         /\ \A g \in Holder \ {h} :
              /\ given[g] # given[h]
              /\ given[g] \notin {None} \cup lost => fd[g] # fd[h]
BY DEF HolderInv, H!TypeOK, LostAreGone, OwnersApart, H!Stale, H!Has

LEMMA ResetKeeps ==
  ASSUME HolderInv, NEW h \in Holder, NEW n \in loose \cup {None},
         H!Reset(h, n)
  PROVE  HolderInv'
<1>1. /\ fd'[h] = n
      /\ given'[h] = IF n = None THEN None ELSE table[n]
      /\ \A g \in Holder \ {h} : fd'[g] = fd[g] /\ given'[g] = given[g]
      /\ \A m \in Number : table'[m] = IF m = fd[h] THEN None ELSE table[m]
      /\ loose' = loose \ {n} /\ n \in Number \cup {None}
      /\ astray' = (astray \/ H!Stale(h))
      /\ UNCHANGED <<live, failed, ended, lost>>
  BY DEF H!Reset, HolderInv, H!TypeOK, H!Closed
<1>2. H!TypeOK'
  BY <1>1 DEF HolderInv, H!TypeOK, H!Reset, H!Closed
<1>3. TableApart' /\ LostAreGone'
  BY <1>1 DEF HolderInv, TableApart, LostAreGone
<1>4. DeadHaveNothing'
  BY <1>1 DEF HolderInv, DeadHaveNothing, H!Reset
<1>5. ASSUME ~ H!Stale(h), ~ astray
      PROVE  /\ fd[h] \notin loose
             /\ \A g \in Holder \ {h} :
               given[g] \notin {None} \cup lost => fd[g] # fd[h]
  BY <1>5
  DEF H!HolderConstants, HolderInv, H!TypeOK, LostAreGone, OwnersApart,
    H!Stale, H!Has
<1>6. OwnersApart'
  <2> SUFFICES ASSUME ~ astray, ~ H!Stale(h)
               PROVE  OwnersApart'
    BY <1>1 DEF OwnersApart
  <2>1. \A m \in loose' : table'[m] # None
    BY <1>1, <1>5 DEF HolderInv, H!TypeOK, OwnersApart
  <2>2. \A g \in Holder \ {h} : given[g] # None => given[g] # given'[h]
    BY <1>1 DEF HolderInv, H!TypeOK, LostAreGone, OwnersApart, TableApart
  <2>3. ASSUME NEW k \in Holder, given'[k] # None
        PROVE  \A g \in Holder : given'[g] = given'[k] => g = k
    BY <2>2, <2>3, <1>1 DEF HolderInv, OwnersApart
  <2>4. ASSUME NEW k \in Holder, given'[k] \notin {None} \cup lost'
        PROVE  /\ fd'[k] \in Number /\ table'[fd'[k]] = given'[k]
               /\ fd'[k] \notin loose'
    <3>1. CASE k = h
      BY <3>1, <2>4, <1>1, <1>5 DEF HolderInv, OwnersApart
    <3>2. CASE k # h
      BY <3>2, <2>4, <1>1, <1>5 DEF HolderInv, OwnersApart
    <3> QED
      BY <3>1, <3>2
  <2> QED
    BY <2>1, <2>3, <2>4 DEF OwnersApart
<1>7. FailedFirst'
  <2> SUFFICES ASSUME Calm
               PROVE  ~ astray' /\ ~ ended' /\ \A g \in Holder : ~ H!Stale(g)'
    BY <1>1 DEF FailedFirst, Calm
  <2>1. ~ astray /\ ~ ended /\ \A g \in Holder : ~ H!Stale(g)
    BY DEF HolderInv, FailedFirst
  <2>2. \A g \in Holder \ {h} : ~ H!Stale(g)'
    BY <2>1, <1>1, <1>5
    DEF Calm, H!HolderConstants, HolderInv, H!TypeOK, H!Stale, H!Has
  <2>3. ~ H!Stale(h)'
    BY <2>1, <1>1, <1>5 DEF HolderInv, H!TypeOK, OwnersApart, H!Stale, H!Has
  <2> QED
    BY <2>1, <2>2, <2>3, <1>1
<1> QED
  BY <1>2, <1>3, <1>4, <1>6, <1>7 DEF HolderInv

LEMMA ResetThrowsKeeps ==
  ASSUME HolderInv, NEW h \in Holder, H!ResetThrows(h) PROVE HolderInv'
<1>1. /\ given'[h] = None
      /\ \A g \in Holder \ {h} : given'[g] = given[g]
      /\ \A m \in Number : table'[m] = IF m = fd[h] THEN None ELSE table[m]
      /\ failed' = (failed \/ table[fd[h]] # None)
      /\ astray' = (astray \/ H!Stale(h))
      /\ UNCHANGED <<live, fd, loose, ended, lost>>
  BY DEF H!ResetThrows, HolderInv, H!TypeOK, H!Closed
<1>2. H!TypeOK' /\ TableApart' /\ DeadHaveNothing' /\ LostAreGone'
  BY <1>1
  DEF HolderInv, H!TypeOK, TableApart, DeadHaveNothing,
    LostAreGone, H!ResetThrows,
    H!Closed
<1>3. OwnersApart'
  <2> SUFFICES ASSUME ~ astray, ~ H!Stale(h)
               PROVE  OwnersApart'
    BY <1>1 DEF OwnersApart
  <2>1. /\ fd[h] \notin loose
        /\ \A g \in Holder \ {h} :
               given[g] \notin {None} \cup lost => fd[g] # fd[h]
    BY OwnIsOwn DEF H!ResetThrows
  <2> QED
    BY <1>1, <2>1 DEF HolderInv, H!TypeOK, OwnersApart
<1>4. ~ Calm'
  BY <1>1
  DEF H!HolderConstants, HolderInv, FailedFirst, Calm, H!Stale,
    H!ResetThrows, H!TypeOK
<1> QED
  BY <1>2, <1>3, <1>4 DEF HolderInv, FailedFirst

LEMMA ReleaseKeeps ==
  ASSUME HolderInv, NEW h \in Holder, H!Release(h) PROVE HolderInv'
<1>1. /\ fd'[h] = None /\ given'[h] = None
      /\ \A g \in Holder \ {h} : fd'[g] = fd[g] /\ given'[g] = given[g]
      /\ loose' = loose \cup ({fd[h]} \ {None})
      /\ astray' = (astray \/ H!Stale(h))
      /\ UNCHANGED <<live, table, failed, ended, lost>>
  BY DEF H!Release, HolderInv, H!TypeOK
<1>2. H!TypeOK' /\ TableApart' /\ DeadHaveNothing' /\ LostAreGone'
  BY <1>1 DEF HolderInv, H!TypeOK, TableApart, DeadHaveNothing,
    LostAreGone, H!Release
<1>3. OwnersApart'
  <2> SUFFICES ASSUME ~ astray, ~ H!Stale(h)
               PROVE  OwnersApart'
    BY <1>1 DEF OwnersApart
  <2>1. CASE fd[h] = None
    BY <1>1, <2>1 DEF HolderInv, OwnersApart
  <2>2. CASE fd[h] # None
    <3>1. /\ table[fd[h]] # None
          /\ \A g \in Holder \ {h} :
               given[g] \notin {None} \cup lost => fd[g] # fd[h]
      BY <2>2, OwnIsOwn DEF H!Has
    <3> QED
      BY <1>1, <3>1 DEF HolderInv, OwnersApart
  <2> QED
    BY <2>1, <2>2
<1>4. FailedFirst'
  BY <1>1 DEF HolderInv, FailedFirst, Calm, H!Stale, H!Has
<1> QED
  BY <1>2, <1>3, <1>4 DEF HolderInv

LEMMA HolderDestroyKeeps ==
  ASSUME HolderInv, NEW S, H!Destroy(S) PROVE HolderInv'
<1>1. /\ \A h \in S : fd'[h] = None /\ given'[h] = None
      /\ \A g \in Holder \ S : fd'[g] = fd[g] /\ given'[g] = given[g]
      /\ \A m \in Number :
           table'[m] = IF m \in {fd[h] : h \in S} THEN None ELSE table[m]
      /\ live' = live \ S /\ S \subseteq Holder
      /\ astray' = (astray \/ \E h \in S : H!Stale(h))
      /\ UNCHANGED <<loose, failed, ended, lost>>
  BY DEF H!Destroy, HolderInv, H!TypeOK, H!Closed
<1>2. H!TypeOK'
  BY <1>1 DEF HolderInv, H!TypeOK, H!Destroy, H!Closed
<1>3. TableApart' /\ DeadHaveNothing' /\ LostAreGone'
  BY <1>1 DEF HolderInv, TableApart, DeadHaveNothing, LostAreGone
<1>4. ASSUME ~ astray, \A h \in S : ~ H!Stale(h)
      PROVE  \A m \in {fd[h] : h \in S} \ {None} :
               /\ m \notin loose
               /\ \A g \in Holder \ S :
                    given[g] \notin {None} \cup lost => fd[g] # m
  BY <1>1, <1>4, OwnIsOwn DEF H!Has
<1>5. OwnersApart'
  <2> SUFFICES ASSUME ~ astray, \A h \in S : ~ H!Stale(h)
               PROVE  OwnersApart'
    BY <1>1 DEF OwnersApart
  <2>1. \A n \in loose' : table'[n] # None
    BY <1>1, <1>4 DEF H!HolderConstants, HolderInv, H!TypeOK, OwnersApart
  <2>2. ASSUME NEW g \in Holder, given'[g] \notin {None} \cup lost'
        PROVE  /\ fd'[g] \in Number /\ table'[fd'[g]] = given'[g]
               /\ fd'[g] \notin loose'
    BY <1>1, <1>4, <2>2 DEF H!HolderConstants, HolderInv, H!TypeOK, OwnersApart
  <2>3. \A g, h \in Holder :
          given'[h] # None /\ given'[g] = given'[h] => g = h
    BY <1>1 DEF HolderInv, OwnersApart
  <2> QED
    BY <2>1, <2>2, <2>3 DEF OwnersApart
<1>6. FailedFirst'
  BY <1>1, <1>4
  DEF H!HolderConstants, HolderInv, H!TypeOK, FailedFirst, Calm,
    OwnersApart, H!Stale, H!Has
<1> QED
  BY <1>2, <1>3, <1>5, <1>6 DEF HolderInv

LEMMA HolderDestroyTerminatesKeeps ==
  ASSUME HolderInv, NEW S, H!DestroyTerminates(S) PROVE HolderInv'
<1>1. ~ Calm'
  BY DEF H!HolderConstants, H!DestroyTerminates, HolderInv, H!TypeOK,
    FailedFirst, Calm, H!Stale, H!Has
<1> QED
  BY <1>1
  DEF H!DestroyTerminates, HolderInv, H!TypeOK, TableApart,
    DeadHaveNothing, LostAreGone, OwnersApart, FailedFirst

LEMMA LoseKeeps ==
  ASSUME HolderInv, NEW n \in Number, H!Lose(n) PROVE HolderInv'
<1>1. /\ \A m \in Number : table'[m] = IF m = n THEN None ELSE table[m]
      /\ table[n] # None /\ table[n] \in File
      /\ lost' = lost \cup {table[n]}
      /\ astray' = (astray \/ n \in loose)
      /\ UNCHANGED <<live, fd, loose, given, failed, ended>>
  BY DEF H!Lose, H!Closed, HolderInv, H!TypeOK
<1>2. H!TypeOK' /\ TableApart' /\ DeadHaveNothing'
  BY <1>1
  DEF HolderInv, H!TypeOK, TableApart, DeadHaveNothing, H!Lose, H!Closed
<1>3. LostAreGone'
  BY <1>1
  DEF H!HolderConstants, HolderInv, H!TypeOK, TableApart, LostAreGone
<1>4. OwnersApart'
  BY <1>1 DEF HolderInv, H!TypeOK, OwnersApart
<1>5. FailedFirst'
  BY <1>1 DEF FailedFirst, Calm
<1> QED
  BY <1>2, <1>3, <1>4, <1>5 DEF HolderInv

LEMMA HolderStepKeeps ==
  ASSUME HolderInv, NEW h \in Holder, H!HolderStep(h) PROVE HolderInv'
<1>1. CASE H!Default(h)
  BY <1>1, HolderDefaultKeeps
<1>2. CASE \E n \in loose : H!Adopt(h, n)
  BY <1>2, AdoptKeeps
<1>3. CASE \E n \in loose \cup {None} : H!Reset(h, n)
  BY <1>3, ResetKeeps
<1>4. CASE H!ResetThrows(h)
  BY <1>4, ResetThrowsKeeps
<1>5. CASE H!Release(h)
  BY <1>5, ReleaseKeeps
<1>6. CASE \E g \in Holder :
             H!MoveConstruct(h, g) \/ H!Swap(h, g) \/ H!MoveAssign(h, g)
  BY <1>6, ExchangeKeeps
  DEF H!MoveConstruct, H!Swap, H!MoveAssign, HolderInv, H!TypeOK
<1> QED
  BY <1>1, <1>2, <1>3, <1>4, <1>5, <1>6 DEF H!HolderStep

LEMMA HolderNextKeeps == HolderInv /\ [H!Next]_holderVars => HolderInv'
<1> SUFFICES ASSUME HolderInv, [H!Next]_holderVars PROVE HolderInv'
  OBVIOUS
<1>1. CASE H!Open
  BY <1>1, OpenKeeps
<1>2. CASE \E n \in loose : H!CloseLoose(n)
  BY <1>2, CloseLooseKeeps
<1>3. CASE \E h \in Holder : H!HolderStep(h)
  BY <1>3, HolderStepKeeps
<1>4. CASE \E S \in SUBSET live : H!Destroy(S) \/ H!DestroyTerminates(S)
  BY <1>4, HolderDestroyKeeps, HolderDestroyTerminatesKeeps
<1>5. CASE UNCHANGED holderVars
  BY <1>5
  DEF holderVars, HolderInv, H!TypeOK, TableApart, DeadHaveNothing,
    LostAreGone, OwnersApart, FailedFirst, Calm, H!Stale, H!Has
<1>6. CASE \E n \in Number : H!Lose(n)
  BY <1>6, LoseKeeps
<1> QED
  BY <1>1, <1>2, <1>3, <1>4, <1>5, <1>6 DEF H!Next

LEMMA HolderInvOwn == HolderInv => H!HoldersOwn
BY DEF H!HolderConstants, HolderInv, H!TypeOK, OwnersApart, FailedFirst,
  Calm, H!HoldersOwn, H!Has
-----------------------------------------------------------------------------
(* What is open is in somebody's hands. *)
OpenOwned ==
  \A n \in Number :
    table[n] # None => n \in loose \/ \E h \in live : fd[h] = n

LEMMA HolderInitOwned == H!Init => OpenOwned
BY DEF H!Init, OpenOwned

LEMMA ExchangeOwned ==
  ASSUME HolderInv, OpenOwned, NEW g \in Holder, NEW h \in Holder,
         H!Exchange(g, h),
         live \subseteq live', g \in live', h \in live',
         UNCHANGED <<table, loose>>
  PROVE  OpenOwned'
<1>1. /\ fd'[g] = fd[h] /\ fd'[h] = fd[g]
      /\ \A k \in Holder \ {g, h} : fd'[k] = fd[k]
  BY DEF H!Exchange, HolderInv, H!TypeOK
<1> QED
  BY <1>1 DEF OpenOwned, HolderInv, H!TypeOK

LEMMA HolderStepOwned ==
  ASSUME HolderInv, OpenOwned, NEW h \in Holder, H!HolderStep(h)
  PROVE  OpenOwned'
<1>1. CASE H!Default(h)
  BY <1>1 DEF H!Default, OpenOwned
<1>2. CASE \E n \in loose : H!Adopt(h, n)
  BY <1>2 DEF H!Adopt, OpenOwned, HolderInv, H!TypeOK
<1>3. CASE \E n \in loose \cup {None} : H!Reset(h, n)
  <2>1. PICK n \in loose \cup {None} : H!Reset(h, n)
    BY <1>3
  <2>2. /\ fd'[h] = n /\ h \in live /\ live' = live
        /\ \A g \in Holder \ {h} : fd'[g] = fd[g]
        /\ \A m \in Number : table'[m] = IF m = fd[h] THEN None ELSE table[m]
        /\ loose' = loose \ {n}
    BY <2>1 DEF H!Reset, H!Closed, HolderInv, H!TypeOK
  <2> QED
    BY <2>2 DEF OpenOwned, HolderInv, H!TypeOK
<1>4. CASE H!ResetThrows(h)
  BY <1>4 DEF H!ResetThrows, H!Closed, OpenOwned
<1>5. CASE H!Release(h)
  BY <1>5 DEF H!Release, H!HolderConstants, OpenOwned, HolderInv, H!TypeOK
<1>6. CASE \E g \in Holder :
             H!MoveConstruct(h, g) \/ H!Swap(h, g) \/ H!MoveAssign(h, g)
  BY <1>6, ExchangeOwned
  DEF H!MoveConstruct, H!Swap, H!MoveAssign, HolderInv, H!TypeOK
<1> QED
  BY <1>1, <1>2, <1>3, <1>4, <1>5, <1>6 DEF H!HolderStep

LEMMA HolderNextOwned ==
  HolderInv /\ OpenOwned /\ [H!Next]_holderVars => OpenOwned'
<1> SUFFICES ASSUME HolderInv, OpenOwned, [H!Next]_holderVars PROVE OpenOwned'
  OBVIOUS
<1>1. CASE H!Open
  BY <1>1 DEF H!Open, OpenOwned, HolderInv, H!TypeOK
<1>2. CASE \E n \in loose : H!CloseLoose(n)
  BY <1>2 DEF H!CloseLoose, H!Closed, OpenOwned
<1>3. CASE \E h \in Holder : H!HolderStep(h)
  BY <1>3, HolderStepOwned
<1>4. CASE \E S \in SUBSET live : H!Destroy(S) \/ H!DestroyTerminates(S)
  BY <1>4
  DEF H!Destroy, H!DestroyTerminates, H!Closed, OpenOwned, HolderInv, H!TypeOK
<1>5. CASE UNCHANGED holderVars
  BY <1>5 DEF holderVars, OpenOwned
<1>6. CASE \E n \in Number : H!Lose(n)
  BY <1>6 DEF H!Lose, H!Closed, OpenOwned
<1> QED
  BY <1>1, <1>2, <1>3, <1>4, <1>5, <1>6 DEF H!Next

(* The descriptors of the process, and what the holders have of them, are   *)
(* what fd_holder.hpp:9 declares.                                          *)
THEOREM HoldersTyped == H!Spec => []H!TypeOK
<1>1. HolderInv => H!TypeOK
  BY DEF HolderInv
<1>2. HolderInv /\ [H!Next]_(H!vars) => HolderInv'
  BY HolderNextKeeps DEF holderVars, H!vars
<1> QED
  BY HolderInitInv, <1>1, <1>2, PTL DEF H!Spec

(* However many holders are moved, swapped, reset and released, and however *)
(* numbers are reused, none has what it was not given or what somebody     *)
(* else has, and none closes twice, before a close() has failed; after     *)
(* that, the others still have their own until the one that failed is used *)
(* again (fd_holder.cpp:32).                                               *)
THEOREM HoldersOwnAlone == H!Spec => []H!HoldersOwn
<1>1. HolderInv /\ [H!Next]_(H!vars) => HolderInv'
  BY HolderNextKeeps DEF holderVars, H!vars
<1> QED
  BY HolderInitInv, HolderInvOwn, <1>1, PTL DEF H!Spec

(* No step of a holder loses an open descriptor: whatever is moved, a live  *)
(* holder or the program has it (fd_holder.cpp:11).                        *)
THEOREM HoldersLoseNone == H!Spec => []OpenOwned
<1>1. /\ HolderInv /\ [H!Next]_(H!vars) => HolderInv'
      /\ HolderInv /\ OpenOwned /\ [H!Next]_(H!vars) => OpenOwned'
  BY HolderNextKeeps, HolderNextOwned DEF holderVars, H!vars
<1> QED
  BY HolderInitInv, HolderInitOwned, <1>1, PTL DEF H!Spec
-----------------------------------------------------------------------------
(* Functions. *)

(* A vtable that is for something has something. *)
FullHasBox == \A f \in Fn : vtable[f] \in U!Full => box[f] # None

(* What is in a function is what its vtable is for. *)
InsideIsKnown ==
  \A c \in Callable : place[c] \in Fn => c \in U!Content(place[c])

(* And it is there, unless a throw has left the function without. *)
KnownIsInside ==
  \A f \in Fn \ thrown, c \in Callable : c \in U!Content(f) => place[c] = f

(* Nothing is followed beyond undefined behaviour, which needs a throw. *)
FunctionsOK ==
  IF undefined THEN thrown # {}
  ELSE FullHasBox /\ InsideIsKnown /\ KnownIsInside

FunctionInv == U!TypeOK /\ FunctionsOK
-----------------------------------------------------------------------------
LEMMA FunctionInitInv == U!Init => FunctionInv
BY RoutineAssumption
DEF U!FunctionConstants, U!Init, FunctionInv, U!TypeOK, FunctionsOK,
  FullHasBox, InsideIsKnown, KnownIsInside, U!Full, U!Content

(* A function that is sound loses what it had, and nothing takes its place. *)
LEMMA HeldIs ==
  ASSUME FunctionInv, ~ undefined, NEW f \in Fn
  PROVE  /\ U!Held(f) = {c \in Callable : place[c] = f}
         /\ U!Sound(f) => U!Content(f) = {c \in Callable : place[c] = f}
         /\ f \notin thrown => U!Sound(f)
         /\ U!Content(f) \subseteq Callable
BY DEF FunctionInv, U!TypeOK, FunctionsOK, FullHasBox, InsideIsKnown,
  KnownIsInside, U!Held, U!Sound, U!Content, U!Full

LEMMA MakeKeeps ==
  ASSUME FunctionInv, ~ undefined, NEW c \in Callable,
         U!Make(c)
  PROVE  FunctionInv'
<1>1. U!TypeOK'
  BY RoutineAssumption
  DEF U!FunctionConstants, FunctionInv, U!TypeOK, FunctionsOK, FullHasBox,
    U!Make, U!Put, U!Content, U!Held, U!Full
<1>2. FunctionsOK'
  BY RoutineAssumption, HeldIs
  DEF U!FunctionConstants, FunctionInv, U!TypeOK, FunctionsOK, FullHasBox,
    InsideIsKnown, KnownIsInside, U!Make, U!Put, U!Content, U!Held, U!Sound,
    U!Full
<1> QED
  BY <1>1, <1>2 DEF FunctionInv

LEMMA DiscardKeeps ==
  ASSUME FunctionInv, ~ undefined, NEW c \in Callable,
         U!Discard(c)
  PROVE  FunctionInv'
<1>1. U!TypeOK'
  BY RoutineAssumption
  DEF U!FunctionConstants, FunctionInv, U!TypeOK, FunctionsOK, FullHasBox,
    U!Discard, U!Put, U!Content, U!Held, U!Full
<1>2. FunctionsOK'
  BY RoutineAssumption, HeldIs
  DEF U!FunctionConstants, FunctionInv, U!TypeOK, FunctionsOK, FullHasBox,
    InsideIsKnown, KnownIsInside, U!Discard, U!Put, U!Content, U!Held,
    U!Sound, U!Full
<1> QED
  BY <1>1, <1>2 DEF FunctionInv

LEMMA DefaultKeeps ==
  ASSUME FunctionInv, ~ undefined, NEW f \in Fn,
         U!Default(f)
  PROVE  FunctionInv'
<1>1. U!TypeOK'
  BY RoutineAssumption
  DEF U!FunctionConstants, FunctionInv, U!TypeOK, FunctionsOK, FullHasBox,
    U!Default, U!Exists, U!Content, U!Held, U!Full
<1>2. FunctionsOK'
  BY RoutineAssumption, HeldIs
  DEF U!FunctionConstants, FunctionInv, U!TypeOK, FunctionsOK, FullHasBox,
    InsideIsKnown, KnownIsInside, U!Default, U!Exists, U!Content, U!Held,
    U!Sound, U!Full
<1> QED
  BY <1>1, <1>2 DEF FunctionInv

LEMMA ConstructKeeps ==
  ASSUME FunctionInv, ~ undefined, NEW f \in Fn, NEW c \in Callable,
         U!Construct(f, c)
  PROVE  FunctionInv'
<1>1. U!TypeOK'
  BY RoutineAssumption
  DEF U!FunctionConstants, FunctionInv, U!TypeOK, FunctionsOK, FullHasBox,
    U!Construct, U!Exists, U!Put, U!SetVtable, U!Storage, U!Content, U!Held,
    U!Full
<1>2. FunctionsOK'
  BY RoutineAssumption, HeldIs
  DEF U!FunctionConstants, FunctionInv, U!TypeOK, FunctionsOK, FullHasBox,
    InsideIsKnown, KnownIsInside, U!Construct, U!Exists, U!Put, U!SetVtable,
    U!Storage, U!Content, U!Held, U!Sound, U!Full
<1> QED
  BY <1>1, <1>2 DEF FunctionInv

LEMMA ConstructThrowsKeeps ==
  ASSUME FunctionInv, ~ undefined, NEW f \in Fn, NEW c \in Callable,
         U!ConstructThrows(f, c)
  PROVE  FunctionInv'
<1>1. U!TypeOK'
  BY RoutineAssumption
  DEF U!FunctionConstants, FunctionInv, U!TypeOK, FunctionsOK, FullHasBox,
    U!ConstructThrows, U!Exists, U!Put, U!BoxThrows, U!Content, U!Held,
    U!Full
<1>2. FunctionsOK'
  BY RoutineAssumption, HeldIs
  DEF U!FunctionConstants, FunctionInv, U!TypeOK, FunctionsOK, FullHasBox,
    InsideIsKnown, KnownIsInside, U!ConstructThrows, U!Exists, U!Put,
    U!BoxThrows, U!Content, U!Held, U!Sound, U!Full
<1> QED
  BY <1>1, <1>2 DEF FunctionInv

LEMMA MoveConstructKeeps ==
  ASSUME FunctionInv, ~ undefined, NEW f \in Fn, NEW g \in Fn,
         U!MoveConstruct(f, g)
  PROVE  FunctionInv'
<1>1. U!TypeOK'
  BY RoutineAssumption
  DEF FunctionInv, U!TypeOK, U!MoveConstruct, U!Transfer, U!Put, U!Misused,
    U!Held, U!Full
<1>2. CASE ~ U!Sound(g)
  BY <1>1, <1>2, HeldIs
  DEF FunctionInv, FunctionsOK, U!MoveConstruct, U!Misused
<1>3. CASE U!Sound(g)
  <2>1. /\ \A h \in Fn : U!Content(h)' =
             IF h = f THEN U!Content(g) ELSE IF h = g THEN {} ELSE U!Content(h)
        /\ U!Content(f) = {} /\ f # g
    BY DEF FunctionInv, U!TypeOK, U!MoveConstruct, U!Transfer, U!Content,
      U!Exists, U!Full
  <2>2. U!Content(g) = {c \in Callable : place[c] = g}
    BY <1>3, HeldIs
  <2>3. /\ ~ undefined' /\ thrown' = thrown
        /\ \A c \in Callable : place'[c] = IF place[c] = g THEN f ELSE place[c]
    BY <1>3, HeldIs
    DEF FunctionInv, U!TypeOK, U!MoveConstruct, U!Put, U!Misused
  <2>4. FullHasBox'
    BY DEF FunctionInv, U!TypeOK, FunctionsOK, FullHasBox, U!MoveConstruct,
      U!Transfer, U!Full
  <2>5. InsideIsKnown' /\ KnownIsInside'
    BY <2>1, <2>2, <2>3
    DEF FunctionInv, U!TypeOK, FunctionsOK, InsideIsKnown, KnownIsInside
  <2> QED
    BY <1>1, <2>3, <2>4, <2>5 DEF FunctionInv, FunctionsOK
<1> QED
  BY <1>2, <1>3

LEMMA MoveAssignKeeps ==
  ASSUME FunctionInv, ~ undefined, NEW f \in Fn, NEW g \in Fn,
         U!MoveAssign(f, g)
  PROVE  FunctionInv'
<1>1. U!TypeOK'
  BY DEF FunctionInv, U!TypeOK, U!MoveAssign, U!Transfer, U!Misused,
    U!Recovered, U!Held, U!Full
<1>2. CASE ~ (U!Sound(f) /\ U!Sound(g))
  BY <1>1, <1>2, HeldIs
  DEF FunctionInv, FunctionsOK, U!MoveAssign, U!Misused, U!Recovered
<1>3. CASE U!Sound(f) /\ U!Sound(g)
  <2>1. /\ \A h \in Fn : U!Content(h)' =
             IF h = f THEN U!Content(g) ELSE IF h = g THEN {} ELSE U!Content(h)
        /\ f # g
    BY DEF FunctionInv, U!TypeOK, U!MoveAssign, U!Transfer, U!Content, U!Full
  <2>2. U!Content(g) = {c \in Callable : place[c] = g}
    BY <1>3, HeldIs
  <2>3. /\ ~ undefined' /\ thrown' = thrown \ {f}
        /\ \A c \in Callable : place'[c] =
             IF place[c] = f THEN "destroyed"
             ELSE IF place[c] = g THEN f ELSE place[c]
    BY <1>3, HeldIs
    DEF FunctionInv, U!TypeOK, U!MoveAssign, U!Misused, U!Recovered
  <2>4. FullHasBox'
    BY DEF FunctionInv, U!TypeOK, FunctionsOK, FullHasBox, U!MoveAssign,
      U!Transfer, U!Full
  <2>5. InsideIsKnown' /\ KnownIsInside'
    BY <2>1, <2>2, <2>3, RoutineAssumption
    DEF U!FunctionConstants, FunctionInv, U!TypeOK, FunctionsOK,
      InsideIsKnown, KnownIsInside
  <2> QED
    BY <1>1, <2>3, <2>4, <2>5 DEF FunctionInv, FunctionsOK
<1> QED
  BY <1>2, <1>3

LEMMA MoveAssignThrowsKeeps ==
  ASSUME FunctionInv, ~ undefined, NEW f \in Fn, NEW g \in Fn,
         U!MoveAssignThrows(f, g)
  PROVE  FunctionInv'
<1>1. U!TypeOK'
  BY RoutineAssumption
  DEF U!FunctionConstants, FunctionInv, U!TypeOK, FunctionsOK, FullHasBox,
    U!MoveAssignThrows, U!Exists, U!Held, U!Misused, U!Put, U!SetVtable,
    U!Content, U!Storage, U!Full
<1>2. FunctionsOK'
  BY RoutineAssumption, HeldIs
  DEF U!FunctionConstants, FunctionInv, U!TypeOK, FunctionsOK, FullHasBox,
    InsideIsKnown, KnownIsInside, U!MoveAssignThrows, U!Exists, U!Held,
    U!Misused, U!Put, U!SetVtable, U!Content, U!Sound, U!Storage, U!Full
<1> QED
  BY <1>1, <1>2 DEF FunctionInv

LEMMA AssignKeeps ==
  ASSUME FunctionInv, ~ undefined, NEW f \in Fn, NEW c \in Callable,
         U!Assign(f, c)
  PROVE  FunctionInv'
<1>1. U!TypeOK'
  BY RoutineAssumption
  DEF U!FunctionConstants, FunctionInv, U!TypeOK, FunctionsOK, FullHasBox,
    U!Assign, U!Exists, U!Held, U!Misused, U!Recovered, U!Put, U!SetVtable,
    U!Content, U!Storage, U!Full
<1>2. FunctionsOK'
  BY RoutineAssumption, HeldIs
  DEF U!FunctionConstants, FunctionInv, U!TypeOK, FunctionsOK, FullHasBox,
    InsideIsKnown, KnownIsInside, U!Assign, U!Exists, U!Held, U!Misused,
    U!Recovered, U!Put, U!SetVtable, U!Content, U!Sound, U!Storage, U!Full
<1> QED
  BY <1>1, <1>2 DEF FunctionInv

LEMMA AssignThrowsKeeps ==
  ASSUME FunctionInv, ~ undefined, NEW f \in Fn, NEW c \in Callable,
         U!AssignThrows(f, c)
  PROVE  FunctionInv'
<1>1. U!TypeOK'
  BY RoutineAssumption
  DEF U!FunctionConstants, FunctionInv, U!TypeOK, FunctionsOK, FullHasBox,
    U!AssignThrows, U!Exists, U!Held, U!Misused, U!Put, U!SetVtable,
    U!BoxThrows, U!Content, U!Storage, U!Full
<1>2. FunctionsOK'
  BY RoutineAssumption, HeldIs
  DEF U!FunctionConstants, FunctionInv, U!TypeOK, FunctionsOK, FullHasBox,
    InsideIsKnown, KnownIsInside, U!AssignThrows, U!Exists, U!Held,
    U!Misused, U!Put, U!SetVtable, U!BoxThrows, U!Content, U!Sound,
    U!Storage, U!Full
<1> QED
  BY <1>1, <1>2 DEF FunctionInv

LEMMA VacateKeeps ==
  ASSUME FunctionInv, ~ undefined, NEW f \in Fn,
         NEW v \in {"absent", "empty"},
         U!Vacate(f, v)
  PROVE  FunctionInv'
<1>1. U!TypeOK'
  BY RoutineAssumption
  DEF U!FunctionConstants, FunctionInv, U!TypeOK, FunctionsOK, FullHasBox,
    U!Vacate, U!Held, U!Misused, U!Recovered, U!Put, U!Content, U!Full
<1>2. FunctionsOK'
  BY RoutineAssumption, HeldIs
  DEF U!FunctionConstants, FunctionInv, U!TypeOK, FunctionsOK, FullHasBox,
    InsideIsKnown, KnownIsInside, U!Vacate, U!Held, U!Misused, U!Recovered,
    U!Put, U!Content, U!Sound, U!Full
<1> QED
  BY <1>1, <1>2 DEF FunctionInv

LEMMA SwapKeeps ==
  ASSUME FunctionInv, ~ undefined, NEW f \in Fn, NEW g \in Fn,
         U!Swap(f, g)
  PROVE  FunctionInv'
<1>1. U!TypeOK'
  BY DEF FunctionInv, U!TypeOK, U!Swap, U!Misused, U!Held, U!Full
<1>2. CASE ~ (U!Sound(f) /\ U!Sound(g))
  BY <1>1, <1>2, HeldIs DEF FunctionInv, FunctionsOK, U!Swap, U!Misused
<1>3. CASE U!Sound(f) /\ U!Sound(g)
  <2>1. /\ \A h \in Fn : U!Content(h)' =
             IF h = f THEN U!Content(g)
             ELSE IF h = g THEN U!Content(f) ELSE U!Content(h)
        /\ f # g
    BY DEF FunctionInv, U!TypeOK, U!Swap, U!Content, U!Full
  <2>3. /\ ~ undefined' /\ thrown' = thrown
        /\ \A c \in Callable : place'[c] =
             IF place[c] = f THEN g ELSE IF place[c] = g THEN f ELSE place[c]
    BY <1>3, HeldIs DEF FunctionInv, U!TypeOK, U!Swap, U!Misused
  <2>2. /\ U!Content(f) = {c \in Callable : place[c] = f}
        /\ U!Content(g) = {c \in Callable : place[c] = g}
    BY <1>3, HeldIs
  <2>4. FullHasBox'
    BY DEF FunctionInv, U!TypeOK, FunctionsOK, FullHasBox, U!Swap, U!Full
  <2>5. InsideIsKnown' /\ KnownIsInside'
    BY <2>1, <2>2, <2>3
    DEF FunctionInv, U!TypeOK, FunctionsOK, InsideIsKnown, KnownIsInside
  <2> QED
    BY <1>1, <2>3, <2>4, <2>5 DEF FunctionInv, FunctionsOK
<1> QED
  BY <1>2, <1>3

LEMMA SwapThrowsKeeps ==
  ASSUME FunctionInv, ~ undefined, NEW f \in Fn, NEW g \in Fn,
         U!SwapThrows(f, g)
  PROVE  FunctionInv'
<1>1. U!TypeOK'
  BY DEF FunctionInv, U!TypeOK, FunctionsOK, FullHasBox,
    U!SwapThrows, U!SetVtable, U!Storage, U!Put, U!Misused, U!Held, U!Full
<1>2. CASE ~ (U!Sound(f) /\ U!Sound(g))
  BY <1>1, <1>2 DEF FunctionInv, FunctionsOK, U!SwapThrows, U!Misused
<1>3. CASE U!Sound(f) /\ U!Sound(g)
  <2>1. ~ undefined' /\ f # g
    BY <1>3 DEF U!SwapThrows, U!Misused, FunctionInv
  <2>2. FullHasBox'
    BY DEF FunctionInv, U!TypeOK, FunctionsOK, FullHasBox, U!SwapThrows,
      U!SetVtable, U!Full
  <2>3. /\ U!Content(f) = {c \in Callable : place[c] = f}
        /\ U!Content(g) = {c \in Callable : place[c] = g}
    BY <1>3, HeldIs
  <2>4. CASE /\ vtable[f] = "inplace"
             /\ U!SetVtable(g, box[f])
             /\ place' = U!Put(U!Held(g), "destroyed")
             /\ thrown' = thrown \cup {g}
    <3>1. \A h \in Fn : U!Content(h)' =
            IF h = g THEN {box[f]} ELSE U!Content(h)
      BY <2>4
      DEF FunctionInv, U!TypeOK, U!SetVtable, U!Storage, U!Content, U!Full
    <3>2. \A c \in Callable : place'[c] =
            IF place[c] = g THEN "destroyed" ELSE place[c]
      BY <2>4, HeldIs DEF FunctionInv, U!TypeOK, U!Put
    <3>3. InsideIsKnown' /\ KnownIsInside'
      BY <2>3, <2>4, <3>1, <3>2, RoutineAssumption
      DEF U!FunctionConstants, FunctionInv, FunctionsOK, InsideIsKnown,
        KnownIsInside
    <3> QED
      BY <1>1, <2>1, <2>2, <3>3 DEF FunctionInv, FunctionsOK
  <2>5. CASE /\ vtable[g] = "inplace"
             /\ vtable' = [vtable EXCEPT ![f] = vtable[g], ![g] = vtable[f]]
             /\ box' = [box EXCEPT ![f] = box[g], ![g] = box[f]]
             /\ place' = [c \in Callable |->
                            CASE c \in U!Held(g) -> "destroyed"
                              [] c \in U!Held(f) -> g
                              [] OTHER -> place[c]]
             /\ thrown' = thrown \cup {f}
    <3>1. \A h \in Fn : U!Content(h)' =
            IF h = f THEN U!Content(g)
            ELSE IF h = g THEN U!Content(f) ELSE U!Content(h)
      BY <2>1, <2>5 DEF FunctionInv, U!TypeOK, U!Content, U!Full
    <3>2. \A c \in Callable : place'[c] =
            IF place[c] = g THEN "destroyed"
            ELSE IF place[c] = f THEN g ELSE place[c]
      BY <2>1, <2>5, HeldIs DEF FunctionInv, U!TypeOK
    <3>3. InsideIsKnown' /\ KnownIsInside'
      BY <2>1, <2>3, <2>5, <3>1, <3>2, RoutineAssumption
      DEF U!FunctionConstants, FunctionInv, FunctionsOK, InsideIsKnown,
        KnownIsInside
    <3> QED
      BY <1>1, <2>1, <2>2, <3>3 DEF FunctionInv, FunctionsOK
  <2> QED
    BY <2>4, <2>5 DEF U!SwapThrows
<1> QED
  BY <1>2, <1>3

LEMMA FunctionNextKeeps ==
  ASSUME FunctionInv, [U!Next]_functionVars PROVE FunctionInv'
<1>1. CASE UNCHANGED functionVars
  BY <1>1
  DEF functionVars, FunctionInv, U!TypeOK, FunctionsOK, FullHasBox,
    InsideIsKnown, KnownIsInside, U!Content
<1>2. CASE U!Next
  <2>1. CASE \E c \in Callable : U!Make(c) \/ U!Discard(c)
    BY <1>2, <2>1, MakeKeeps, DiscardKeeps DEF U!Next
  <2>2. CASE \E f \in Fn : U!Default(f) \/ U!AssignNull(f) \/ U!Destroy(f)
    BY <1>2, <2>2, DefaultKeeps, VacateKeeps
    DEF U!Next, U!AssignNull, U!Destroy
  <2>3. CASE \E f \in Fn, c \in Callable :
               U!Construct(f, c) \/ U!ConstructThrows(f, c)
                 \/ U!Assign(f, c) \/ U!AssignThrows(f, c)
    BY <1>2, <2>3, ConstructKeeps, ConstructThrowsKeeps, AssignKeeps,
      AssignThrowsKeeps DEF U!Next
  <2>4. CASE \E f, g \in Fn :
               U!MoveConstruct(f, g) \/ U!MoveAssign(f, g)
                 \/ U!MoveAssignThrows(f, g) \/ U!Swap(f, g)
                 \/ U!SwapThrows(f, g)
    BY <1>2, <2>4, MoveConstructKeeps, MoveAssignKeeps,
      MoveAssignThrowsKeeps, SwapKeeps, SwapThrowsKeeps DEF U!Next
  <2> QED
    BY <1>2, <2>1, <2>2, <2>3, <2>4 DEF U!Next
<1> QED
  BY <1>1, <1>2

LEMMA FunctionInvTruthful == FunctionInv => Truthful
BY HeldIs DEF FunctionInv, FunctionsOK, Truthful, U!Truthful, U!Sound, U!Held

(* Whatever is done with functions, in any order and whatever throws, each  *)
(* knows what it holds, unless it was left by a throwing assignment or     *)
(* swap (function2.hpp:1161).                                              *)
THEOREM FunctionsAreTruthful == U!Spec => []U!Truthful
<1>1. FunctionInv => U!Truthful
  BY FunctionInvTruthful DEF Truthful
<1>2. FunctionInv /\ [U!Next]_(U!vars) => FunctionInv'
  BY FunctionNextKeeps DEF functionVars, U!vars
<1> QED
  BY FunctionInitInv, <1>1, <1>2, PTL DEF U!Spec
-----------------------------------------------------------------------------
(* The composition takes no step that is not one of the parts'. *)

LEMMA HolderNext == [Next]_vars => [H!Next]_holderVars
<1> SUFFICES ASSUME [Next]_vars PROVE [H!Next]_holderVars
  OBVIOUS
<1>1. ASSUME ~ ended, NEW C \in SUBSET Callable, Captures(C)
      PROVE  H!Next
  BY <1>1, RoutineAssumption
  DEF Captures, H!Next, H!Destroy, H!DestroyTerminates
<1>2. Dying \subseteq Callable
  BY DEF Dying
<1>3. CASE ~ ended /\ \E c \in Callable : MakeCallable(c)
  BY <1>3, RoutineAssumption
  DEF MakeCallable, Local, H!Next, H!HolderStep
<1>4. CASE ~ ended /\ (FunctionStep \/ CallThrows \/ Leave)
  BY <1>1, <1>2, <1>4 DEF FunctionStep, CallThrows, Leave
<1>5. CASE ~ ended /\ HolderStep
  BY <1>5
  DEF HolderStep, LocalStep, Local, H!Next, H!HolderStep, H!Destroy,
    H!DestroyTerminates
<1>6. CASE Call \/ Clone \/ ChildBegins \/ ChildExit \/ UNCHANGED vars
  BY <1>6 DEF Call, Clone, ChildBegins, ChildExit, vars, holderVars
<1>7. CASE ~ ended /\ ChildEscapes
  <2>1. UNCHANGED holderVars \/ \E n \in Number : H!Lose(n)
    BY <1>7 DEF ChildEscapes
  <2> QED
    BY <1>7, <2>1 DEF H!Next
<1> QED
  BY <1>3, <1>4, <1>5, <1>6, <1>7 DEF Next

LEMMA FunctionNext == [Next]_vars => [U!Next]_functionVars
<1> SUFFICES ASSUME [Next]_vars PROVE [U!Next]_functionVars
  OBVIOUS
<1>1. CASE ~ undefined /\ \E c \in Callable : MakeCallable(c)
  BY <1>1 DEF MakeCallable, U!Next
<1>2. CASE ~ undefined /\ FunctionStep
  BY <1>2 DEF FunctionStep, Mine, U!Next
<1>3. CASE ~ undefined /\ (Call \/ CallThrows \/ Leave)
  BY <1>3, RoutineAssumption DEF Call, CallThrows, Leave, Mine, U!Next
<1>4. CASE \/ HolderStep \/ Clone \/ ChildEscapes \/ ChildBegins \/ ChildExit
           \/ UNCHANGED vars
  BY <1>4 DEF HolderStep, Clone, ChildEscapes, ChildBegins, ChildExit, vars,
    functionVars
<1> QED
  BY <1>1, <1>2, <1>3, <1>4 DEF Next

(* What Execute, its callers and its child do with holders and functions is *)
(* what holders and functions can do (execute.cpp, routine.hpp:5).         *)
THEOREM ImplementsParts == Spec => H!Spec /\ U!Spec
<1>1. Init => H!Init /\ U!Init
  BY DEF Init
<1>2. [Next]_vars => [H!Next]_(H!vars) /\ [U!Next]_(U!vars)
  BY HolderNext, FunctionNext DEF holderVars, functionVars, H!vars, U!vars
<1> QED
  BY <1>1, <1>2, PTL DEF Spec, H!Spec, U!Spec

PartsInv == HolderInv /\ OpenOwned /\ FunctionInv

LEMMA PartsInit == Init => PartsInv
BY HolderInitInv, HolderInitOwned, FunctionInitInv DEF Init, PartsInv

LEMMA PartsNext == PartsInv /\ [Next]_vars => PartsInv'
BY HolderNext, FunctionNext, FunctionNextKeeps, HolderNextKeeps,
  HolderNextOwned DEF PartsInv

(* See FdHolder: the holders in the captures of functions, and those of the *)
(* program that calls Execute, are never the owners of another's           *)
(* descriptor, and none closes twice, until a close() fails or the child    *)
(* destroys f with the caller's table: after that, all but what it closed  *)
(* is still its owner's (execute.cpp:27).                                  *)
THEOREM HoldersOwnInCalls == Spec => []HoldersOwn
<1>1. PartsInv => HoldersOwn
  BY HolderInvOwn DEF PartsInv, HoldersOwn
<1> QED
  BY PartsInit, PartsNext, <1>1, PTL DEF Spec

(* See UniqueFunction: so do the functions that come and go with the calls  *)
(* of Execute know what they hold.                                         *)
THEOREM TruthfulInCalls == Spec => []Truthful
<1>1. PartsInv => Truthful
  BY FunctionInvTruthful DEF PartsInv
<1> QED
  BY PartsInit, PartsNext, <1>1, PTL DEF Spec
-----------------------------------------------------------------------------
(* Between the parts: what a callable has captured, and what Execute knows  *)
(* of it.                                                                  *)

(* The captured holder lives as long as the callable. *)
CapturesLive ==
  ~ ended => \A c \in Callable : Capture[c] \in live <=> place[c] # "destroyed"

(* Execute's parameter is there during the call, and no throw gets at it. *)
ParamThere == Param \notin thrown /\ (pc # "out" => U!Exists(Param))

CallTyped ==
  /\ pc \in {"out", "before", "after"}
  /\ child \in {"none", "born", "f"}
  /\ shared \in BOOLEAN
  /\ saw \in [number : Number \cup {None}, file : File \cup {None}]
  /\ copy \in File \cup {None}

(* Until the call ends, the parameter still has what it had at the clone. *)
SawIsCaptured ==
  (/\ Calm /\ ~ undefined
   /\ child # "none" /\ pc = "after" /\ saw.number # None)
  => /\ vtable[Param] \in U!Full
     /\ fd[Capture[box[Param]]] = saw.number
     /\ given[Capture[box[Param]]] = saw.file

CopyIsCaptured ==
  Calm /\ child # "none" /\ ~ shared /\ saw.number # None => copy = saw.file

CallInv ==
  CapturesLive /\ ParamThere /\ CallTyped /\ SawIsCaptured /\ CopyIsCaptured

LEMMA CallInit == ASSUME Init PROVE CallInv
<1>1. CapturesLive
  BY RoutineAssumption DEF Init, H!Init, U!Init, CapturesLive
<1>2. ParamThere
  BY DEF Init, U!Init, ParamThere
<1>3. CallTyped
  BY DEF Init, Nothing, CallTyped
<1>4. SawIsCaptured /\ CopyIsCaptured
  BY DEF Init, SawIsCaptured, CopyIsCaptured
<1> QED
  BY <1>1, <1>2, <1>3, <1>4 DEF CallInv

(* The steps of the program's holders leave the captured ones alone. *)
LEMMA LocalOnly ==
  ASSUME PartsInv, HolderStep, NEW c \in Callable
  PROVE  /\ fd'[Capture[c]] = fd[Capture[c]]
         /\ given'[Capture[c]] = given[Capture[c]]
         /\ Capture[c] \in live' <=> Capture[c] \in live
<1> DEFINE k == Capture[c]
<1>1. k \in Holder /\ k \notin Local
  BY RoutineAssumption DEF Local
<1>2. CASE H!Open \/ \E n \in loose : H!CloseLoose(n)
  BY <1>2 DEF H!Open, H!CloseLoose
<1>3. CASE \E h \in Local : LocalStep(h)
  <2>1. PICK h \in Local : LocalStep(h)
    BY <1>3
  <2>2. k # h /\ \A g \in Local : k # g
    BY <1>1
  <2>3. /\ fd \in [Holder -> Number \cup {None}]
        /\ given \in [Holder -> File \cup {None}]
    BY DEF PartsInv, HolderInv, H!TypeOK
  <2>4. CASE H!Default(h) \/ \E n \in loose : H!Adopt(h, n)
    BY <2>2, <2>3, <2>4, <1>1 DEF H!Default, H!Adopt
  <2>5. CASE \/ \E n \in loose \cup {None} : H!Reset(h, n)
             \/ H!ResetThrows(h) \/ H!Release(h)
    BY <2>2, <2>3, <2>5, <1>1 DEF H!Reset, H!ResetThrows, H!Release
  <2>6. CASE \E g \in Local :
               H!MoveConstruct(h, g) \/ H!Swap(h, g) \/ H!MoveAssign(h, g)
    BY <2>2, <2>3, <2>6, <1>1
    DEF H!MoveConstruct, H!Swap, H!MoveAssign, H!Exchange
  <2>7. CASE H!Destroy({h}) \/ H!DestroyTerminates({h})
    BY <2>2, <2>3, <2>7, <1>1 DEF H!Destroy, H!DestroyTerminates
  <2> QED
    BY <2>1, <2>4, <2>5, <2>6, <2>7 DEF LocalStep
<1> QED
  BY <1>2, <1>3 DEF HolderStep

(* What dies takes its captures with it, and nothing else. *)
LEMMA CapturesOnly ==
  ASSUME PartsInv, Captures(Dying), ~ ended'
  PROVE  /\ \A c \in Callable \ Dying :
              /\ fd'[Capture[c]] = fd[Capture[c]]
              /\ given'[Capture[c]] = given[Capture[c]]
              /\ Capture[c] \in live' <=> Capture[c] \in live
         /\ \A c \in Dying : Capture[c] \notin live'
         /\ failed' = failed /\ lost' = lost
<1>1. H!Destroy({Capture[c] : c \in Dying})
  BY DEF Captures, H!DestroyTerminates
<1>2. \A c \in Callable \ Dying :
        Capture[c] \in Holder /\ Capture[c] \notin {Capture[d] : d \in Dying}
  BY RoutineAssumption DEF Dying
<1> QED
  BY <1>1, <1>2 DEF H!Destroy

(* The steps of the program's functions leave the parameter alone. *)
LEMMA MineOnly ==
  ASSUME PartsInv, ~ undefined, FunctionStep
  PROVE  /\ vtable'[Param] = vtable[Param] /\ box'[Param] = box[Param]
         /\ Param \in thrown' => Param \in thrown
         /\ \A c \in Callable :
              /\ place[c] = Param => place'[c] = Param
              /\ place[c] = "destroyed" => place'[c] = "destroyed"
<1>1. \A f \in Mine : f \in Fn /\ f # Param
  BY DEF Mine
<1>2. /\ \A f \in Fn : U!Held(f) = {c \in Callable : place[c] = f}
      /\ Param \in Fn /\ Param # "destroyed" /\ Param # "outside"
      /\ \A f \in Fn : f # "destroyed"
  BY HeldIs, RoutineAssumption DEF PartsInv, U!FunctionConstants
<1>3. U!TypeOK
  BY DEF PartsInv, FunctionInv
<1>4. CASE \E c \in Callable : U!Discard(c)
  BY <1>2, <1>3, <1>4 DEF U!TypeOK, U!Discard, U!Put
<1>5. CASE \E f \in Mine : U!Default(f) \/ U!AssignNull(f) \/ U!Destroy(f)
  BY <1>1, <1>2, <1>3, <1>5
  DEF U!TypeOK, U!Default, U!AssignNull, U!Destroy, U!Vacate, U!Put,
    U!Recovered
<1>6. CASE \E f \in Mine, c \in Callable :
             U!Construct(f, c) \/ U!ConstructThrows(f, c)
  BY <1>1, <1>2, <1>3, <1>6
  DEF U!TypeOK, U!Construct, U!ConstructThrows, U!SetVtable, U!Put
<1>7. CASE \E f \in Mine, c \in Callable : U!Assign(f, c)
  BY <1>1, <1>2, <1>3, <1>7
  DEF U!TypeOK, U!Assign, U!SetVtable, U!Put, U!Recovered
<1>8. CASE \E f \in Mine, c \in Callable : U!AssignThrows(f, c)
  <2>1. PICK f \in Mine, c \in Callable, p \in {"outside", "destroyed"} :
          /\ place[c] = "outside"
          /\ place' = [U!Put(U!Held(f), "destroyed") EXCEPT ![c] = p]
          /\ UNCHANGED <<vtable, box>> \/ U!SetVtable(f, c)
          /\ thrown' = thrown \cup {f}
    BY <1>8 DEF U!AssignThrows
  <2> QED
    BY <1>1, <1>2, <1>3, <2>1 DEF U!TypeOK, U!SetVtable, U!Put
<1>9. CASE \E f, g \in Mine : U!MoveConstruct(f, g)
  BY <1>1, <1>2, <1>3, <1>9
  DEF U!TypeOK, U!MoveConstruct, U!Transfer, U!Put
<1>10. CASE \E f, g \in Mine : U!MoveAssign(f, g)
  BY <1>1, <1>2, <1>3, <1>10
  DEF U!TypeOK, U!MoveAssign, U!Transfer, U!Recovered
<1>11. CASE \E f, g \in Mine : U!MoveAssignThrows(f, g)
  BY <1>1, <1>2, <1>3, <1>11
  DEF U!TypeOK, U!MoveAssignThrows, U!SetVtable, U!Put
<1>12. CASE \E f, g \in Mine : U!Swap(f, g)
  BY <1>1, <1>2, <1>3, <1>12 DEF U!TypeOK, U!Swap
<1>13. CASE \E f, g \in Mine : U!SwapThrows(f, g)
  BY <1>1, <1>2, <1>3, <1>13
  DEF U!TypeOK, U!SwapThrows, U!SetVtable, U!Put
<1> QED
  BY <1>4, <1>5, <1>6, <1>7, <1>8, <1>9, <1>10, <1>11, <1>12, <1>13
  DEF FunctionStep

LEMMA CalmStays == [H!Next]_holderVars /\ Calm' => Calm
<1>1. [H!Next]_holderVars /\ ~ failed' => ~ failed
  BY DEF holderVars, H!Next, H!Open, H!CloseLoose, H!Lose, H!HolderStep,
    H!Default, H!Adopt, H!Reset, H!ResetThrows, H!Release, H!MoveConstruct,
    H!Swap, H!MoveAssign, H!Destroy, H!DestroyTerminates
<1>2. [H!Next]_holderVars => lost \subseteq lost'
  BY DEF holderVars, H!Next, H!Open, H!CloseLoose, H!Lose, H!HolderStep,
    H!Default, H!Adopt, H!Reset, H!ResetThrows, H!Release, H!MoveConstruct,
    H!Swap, H!MoveAssign, H!Destroy, H!DestroyTerminates
<1> QED
  BY <1>1, <1>2 DEF Calm

LEMMA MakeCallableCall ==
  ASSUME PartsInv, CallInv, ~ ended, ~ undefined,
         NEW c \in Callable, MakeCallable(c)
  PROVE  CallInv'
<1>1. PICK h \in Local : H!MoveConstruct(Capture[c], h)
  BY DEF MakeCallable
<1>2. /\ Capture \in [Callable -> Holder]
      /\ \A d \in Callable : Capture[d] # h
      /\ \A d \in Callable \ {c} : Capture[d] # Capture[c]
      /\ h \in Holder /\ Param \in Fn /\ Param # "destroyed"
  BY RoutineAssumption DEF Local, U!FunctionConstants
<1>3. /\ live' = live \cup {Capture[c]} /\ ended' = ended
      /\ failed' = failed /\ lost' = lost
      /\ \A d \in Callable \ {c} : /\ fd'[Capture[d]] = fd[Capture[d]]
                                   /\ given'[Capture[d]] = given[Capture[d]]
  BY <1>1, <1>2
  DEF H!MoveConstruct, H!Exchange, PartsInv, HolderInv, H!TypeOK
<1>4. /\ place[c] = "destroyed" /\ place'[c] = "outside"
      /\ \A d \in Callable \ {c} : place'[d] = place[d]
      /\ UNCHANGED <<vtable, box, thrown, undefined>>
  BY DEF MakeCallable, U!Make, U!Put, PartsInv, FunctionInv, U!TypeOK
<1>5. UNCHANGED callVars
  BY DEF MakeCallable
<1>6. CapturesLive'
  BY <1>2, <1>3, <1>4 DEF CallInv, CapturesLive
<1>7. ParamThere' /\ CallTyped' /\ CopyIsCaptured'
  BY <1>3, <1>4, <1>5
  DEF callVars, CallInv, ParamThere, CallTyped, CopyIsCaptured, Calm,
    U!Exists
<1>8. ASSUME vtable[Param] \in U!Full PROVE box[Param] \in Callable \ {c}
  BY <1>2, <1>4, <1>8
  DEF PartsInv, FunctionInv, FunctionsOK, U!TypeOK, FullHasBox, KnownIsInside,
    U!Content, CallInv, ParamThere
<1>9. SawIsCaptured'
  BY <1>3, <1>4, <1>5, <1>8 DEF callVars, CallInv, SawIsCaptured, Calm
<1> QED
  BY <1>6, <1>7, <1>9 DEF CallInv

LEMMA FunctionStepCall ==
  ASSUME PartsInv, CallInv, ~ ended, ~ undefined, FunctionStep, [Next]_vars
  PROVE  CallInv'
<1>1. /\ Captures(Dying) /\ UNCHANGED callVars
      /\ Param \in Fn /\ Param # "destroyed"
  BY RoutineAssumption DEF FunctionStep, U!FunctionConstants
<1>2. \A c \in Callable :
        c \in Dying <=> place[c] # "destroyed" /\ place'[c] = "destroyed"
  BY DEF Dying
<1>3. CapturesLive'
  BY <1>1, <1>2, CapturesOnly, MineOnly DEF CallInv, CapturesLive
<1>4. ParamThere'
  BY <1>1, MineOnly DEF callVars, CallInv, ParamThere, U!Exists
<1>5. CallTyped'
  BY <1>1 DEF callVars, CallInv, CallTyped
<1>6. ASSUME Calm', vtable[Param] \in U!Full
      PROVE  /\ Calm
             /\ fd'[Capture[box[Param]]] = fd[Capture[box[Param]]]
             /\ given'[Capture[box[Param]]] = given[Capture[box[Param]]]
  <2>1. ~ ended'
    BY <1>6, PartsNext DEF PartsInv, HolderInv, FailedFirst
  <2>2. place[box[Param]] = Param /\ box[Param] \in Callable
    BY <1>1, <1>6
    DEF PartsInv, FunctionInv, FunctionsOK, U!TypeOK, FullHasBox,
      KnownIsInside, U!Content, CallInv, ParamThere
  <2>3. box[Param] \in Callable \ Dying
    BY <1>1, <1>2, <2>2, MineOnly
  <2> QED
    BY <1>1, <1>6, <2>1, <2>3, CapturesOnly DEF Calm
<1>7. SawIsCaptured'
  <2>1. vtable'[Param] = vtable[Param] /\ box'[Param] = box[Param]
    BY MineOnly
  <2>2. Calm' => Calm
    BY HolderNext, CalmStays
  <2> QED
    BY <1>1, <1>6, <2>1, <2>2 DEF callVars, CallInv, SawIsCaptured
<1>8. CopyIsCaptured'
  BY <1>1, HolderNext, CalmStays DEF callVars, CallInv, CopyIsCaptured
<1> QED
  BY <1>3, <1>4, <1>5, <1>7, <1>8 DEF CallInv

LEMMA HolderStepCall ==
  ASSUME PartsInv, CallInv, ~ ended, ~ undefined, HolderStep, [Next]_vars
  PROVE  CallInv'
<1>1. UNCHANGED <<functionVars, callVars>> /\ (Calm' => Calm)
  BY HolderNext, CalmStays DEF HolderStep
<1>2. CapturesLive'
  BY <1>1, LocalOnly DEF functionVars, CallInv, CapturesLive
<1>3. ParamThere' /\ CallTyped' /\ CopyIsCaptured'
  BY <1>1
  DEF functionVars, callVars, CallInv, ParamThere, CallTyped, CopyIsCaptured,
    U!Exists
<1>4. vtable[Param] \in U!Full => box[Param] \in Callable
  BY RoutineAssumption
  DEF PartsInv, FunctionInv, FunctionsOK, U!TypeOK, FullHasBox
<1>5. SawIsCaptured'
  BY <1>1, <1>4, LocalOnly DEF functionVars, callVars, CallInv, SawIsCaptured
<1> QED
  BY <1>2, <1>3, <1>5 DEF CallInv

LEMMA CallCall ==
  ASSUME PartsInv, CallInv, ~ ended, ~ undefined, Call PROVE CallInv'
<1>1. /\ pc = "out" /\ pc' = "before" /\ child = "none"
      /\ UNCHANGED <<holderVars, child, shared, saw, copy>>
      /\ Param \in Fn /\ Param # "destroyed"
      /\ \A f \in Fn : f # "destroyed"
  BY RoutineAssumption DEF Call, U!FunctionConstants
<1>2. /\ \A c \in Callable : place'[c] = "destroyed" <=> place[c] = "destroyed"
      /\ U!Exists(Param)' /\ thrown' = thrown
  <2>1. CASE \E r \in Mine : U!MoveConstruct(Param, r)
    <3>1. PICK r \in Fn : U!MoveConstruct(Param, r)
      BY <2>1 DEF Mine
    <3>2. U!Held(r) = {c \in Callable : place[c] = r}
      BY HeldIs DEF PartsInv
    <3> QED
      BY <1>1, <3>1, <3>2
      DEF U!MoveConstruct, U!Transfer, U!Put, U!Exists, PartsInv,
        FunctionInv, U!TypeOK
  <2>2. CASE \E c \in Callable : U!Construct(Param, c)
    BY <1>1, <2>2
    DEF U!Construct, U!SetVtable, U!Storage, U!Put, U!Exists, PartsInv,
      FunctionInv, U!TypeOK
  <2> QED
    BY <2>1, <2>2 DEF Call
<1> QED
  BY <1>1, <1>2
  DEF holderVars, CallInv, CapturesLive, ParamThere, CallTyped,
    SawIsCaptured, CopyIsCaptured, Calm

LEMMA CallThrowsCall ==
  ASSUME PartsInv, CallInv, ~ ended, ~ undefined, CallThrows, [Next]_vars
  PROVE  CallInv'
<1>1. /\ pc = "out" /\ Captures(Dying)
      /\ UNCHANGED <<callVars, vtable, box, thrown, undefined>>
      /\ \A c \in Callable :
           c \in Dying <=> place[c] # "destroyed" /\ place'[c] = "destroyed"
      /\ \A c \in Callable :
           place[c] = "destroyed" => place'[c] = "destroyed"
  BY DEF CallThrows, U!ConstructThrows, U!Put, Dying, PartsInv, FunctionInv,
    U!TypeOK
<1>2. CapturesLive'
  BY <1>1, CapturesOnly DEF CallInv, CapturesLive
<1>3. Calm' => Calm
  BY HolderNext, CalmStays
<1> QED
  BY <1>1, <1>2, <1>3
  DEF callVars, CallInv, ParamThere, CallTyped, SawIsCaptured,
    CopyIsCaptured, U!Exists

LEMMA CloneCall ==
  ASSUME PartsInv, CallInv, ~ ended, ~ undefined, Clone PROVE CallInv'
<1>1. /\ pc = "before" /\ pc' = "after"
      /\ child' = "born" /\ shared' \in BOOLEAN
      /\ UNCHANGED <<holderVars, functionVars>>
      /\ copy' = IF saw'.number = None THEN None ELSE table[saw'.number]
  BY DEF Clone, Start
<1>2. CASE U!Empty(Param)
  <2>1. saw' = [number |-> None, file |-> None] /\ copy' = None
    BY <1>1, <1>2 DEF Clone, Start, Nothing
  <2> QED
    BY <1>1, <2>1
    DEF holderVars, functionVars, CallInv, CapturesLive, ParamThere,
      CallTyped, SawIsCaptured, CopyIsCaptured, U!Exists
<1>3. CASE ~ U!Empty(Param)
  <2> DEFINE k == Capture[box[Param]]
  <2>1. saw' = [number |-> fd[k], file |-> given[k]]
    BY <1>3 DEF Clone, Start, U!Invoked
  <2>2. vtable[Param] \in U!Full /\ k \in Holder
    BY <1>1, <1>3, RoutineAssumption
    DEF CallInv, ParamThere, PartsInv, FunctionInv, U!TypeOK, FunctionsOK,
      FullHasBox, U!Exists, U!Empty
  <2>3. /\ fd[k] \in Number \cup {None} /\ given[k] \in File \cup {None}
        /\ fd[k] # None => table[fd[k]] \in File \cup {None}
        /\ Calm /\ fd[k] # None => table[fd[k]] = given[k]
    BY <2>2
    DEF PartsInv, HolderInv, H!TypeOK, FailedFirst, H!Stale, H!Has
  <2> HIDE DEF k
  <2>4. CallTyped'
    BY <1>1, <2>1, <2>3 DEF CallTyped
  <2>5. SawIsCaptured'
    BY <1>1, <2>1, <2>2 DEF holderVars, functionVars, SawIsCaptured, Calm, k
  <2>6. CopyIsCaptured'
    BY <1>1, <2>1, <2>3 DEF holderVars, CopyIsCaptured, Calm
  <2>7. CapturesLive' /\ ParamThere'
    BY <1>1
    DEF holderVars, functionVars, CallInv, CapturesLive, ParamThere, U!Exists
  <2> QED
    BY <2>4, <2>5, <2>6, <2>7 DEF CallInv
<1> QED
  BY <1>2, <1>3

LEMMA LeaveCall ==
  ASSUME PartsInv, CallInv, ~ ended, ~ undefined, Leave, [Next]_vars
  PROVE  CallInv'
<1>1. /\ pc' = "out" /\ Captures(Dying) /\ U!Destroy(Param)
      /\ UNCHANGED <<child, shared, saw, copy>>
      /\ Param \in Fn
  BY RoutineAssumption DEF Leave
<1>2. /\ \A c \in Callable :
           c \in Dying <=> place[c] # "destroyed" /\ place'[c] = "destroyed"
      /\ \A c \in Callable :
           place[c] = "destroyed" => place'[c] = "destroyed"
      /\ thrown' \subseteq thrown
  BY <1>1
  DEF U!Destroy, U!Vacate, U!Put, U!Recovered, Dying, PartsInv, FunctionInv,
    U!TypeOK
<1>3. CapturesLive'
  BY <1>1, <1>2, CapturesOnly DEF CallInv, CapturesLive
<1>4. Calm' => Calm
  BY HolderNext, CalmStays
<1> QED
  BY <1>1, <1>2, <1>3, <1>4
  DEF CallInv, ParamThere, CallTyped, SawIsCaptured, CopyIsCaptured

LEMMA CallNext == PartsInv /\ CallInv /\ [Next]_vars => CallInv'
<1> SUFFICES ASSUME PartsInv, CallInv, [Next]_vars PROVE CallInv'
  OBVIOUS
<1>1. CASE ChildExit \/ ChildBegins
  <2>1. /\ UNCHANGED <<holderVars, functionVars, pc>> /\ child # "none"
        /\ \/ /\ child' = "none" /\ shared' = FALSE
              /\ saw' = Nothing /\ copy' = None
           \/ child' = "f" /\ UNCHANGED <<shared, saw, copy>>
    BY <1>1 DEF ChildExit, ChildBegins, End
  <2>2. CapturesLive' /\ ParamThere'
    BY <2>1
    DEF holderVars, functionVars, CallInv, CapturesLive, ParamThere, U!Exists
  <2>3. CallTyped'
    <3>1. Nothing \in [number : Number \cup {None}, file : File \cup {None}]
      BY DEF Nothing
    <3>2. /\ child' \in {"none", "born", "f"} /\ shared' \in BOOLEAN
          /\ copy' \in File \cup {None} /\ pc' = pc
      BY <2>1 DEF CallInv, CallTyped
    <3>3. saw' \in [number : Number \cup {None}, file : File \cup {None}]
      BY <2>1, <3>1 DEF CallInv, CallTyped
    <3> QED
      BY <3>2, <3>3 DEF CallInv, CallTyped
  <2>4. SawIsCaptured' /\ CopyIsCaptured'
    BY <2>1
    DEF holderVars, functionVars, CallInv, SawIsCaptured, CopyIsCaptured,
      Calm
  <2> QED
    BY <2>2, <2>3, <2>4 DEF CallInv
<1>2. CASE UNCHANGED vars
  BY <1>2
  DEF vars, holderVars, functionVars, callVars, CallInv, CapturesLive, Calm,
    ParamThere, CallTyped, SawIsCaptured, CopyIsCaptured, U!Exists
<1>3. CASE /\ ~ ended /\ ~ undefined
           /\ \/ \E c \in Callable : MakeCallable(c)
              \/ FunctionStep \/ HolderStep
              \/ Call \/ CallThrows \/ Clone \/ Leave
  BY <1>3, MakeCallableCall, FunctionStepCall, HolderStepCall, CallCall,
    CallThrowsCall, CloneCall, LeaveCall
<1>4. CASE ChildEscapes
  <2>1. /\ UNCHANGED <<functionVars, pc, live, fd, given, ended>>
        /\ child' = "none" /\ shared' = FALSE /\ saw' = Nothing /\ copy' = None
    BY <1>4 DEF ChildEscapes, End, H!Lose, holderVars
  <2> QED
    BY <2>1, RoutineAssumption
    DEF Nothing, functionVars, CallInv, CapturesLive, ParamThere, CallTyped,
      SawIsCaptured, CopyIsCaptured, U!Exists
<1> QED
  BY <1>1, <1>2, <1>3, <1>4 DEF Next
-----------------------------------------------------------------------------
(* The variables of the parts and of the call are what execute.hpp and      *)
(* routine.hpp:5 declare.                                                  *)
THEOREM Typed == Spec => []TypeOK
<1>1. PartsInv /\ CallInv => TypeOK
  BY DEF PartsInv, FunctionInv, HolderInv, H!TypeOK, CallInv, CallTyped,
    TypeOK, H!TypeOK
<1> QED
  BY PartsInit, PartsNext, CallInit, CallNext, <1>1, PTL DEF Spec

(* Whatever path a call of Execute takes, and whatever is done with         *)
(* functions and holders meanwhile, each open descriptor has an owner who  *)
(* can still close it (execute.cpp:45).                                    *)
THEOREM NothingLost == Spec => []NothingLeaks
<1>1. PartsInv /\ CallInv => NothingLeaks
  <2> SUFFICES ASSUME PartsInv, CallInv, Orderly,
                      NEW n \in Number, table[n] # None, n \notin loose,
                      NEW h \in live, fd[h] = n
               PROVE  \/ h \in Local
                      \/ \E c \in Callable :
                           /\ Capture[c] = h
                           /\ \/ place[c] = "outside"
                              \/ \E f \in Fn : c \in U!Content(f)
    BY DEF NothingLeaks, PartsInv, OpenOwned
  <2>1. CASE h \in Local
    BY <2>1
  <2>2. CASE h \notin Local
    <3>1. PICK c \in Callable : Capture[c] = h
      BY <2>2 DEF Local, PartsInv, HolderInv, H!TypeOK
    <3>2. ~ ended
      BY DEF Orderly, PartsInv, HolderInv, FailedFirst, Calm
    <3>3. place[c] # "destroyed"
      BY <3>1, <3>2 DEF CallInv, CapturesLive
    <3>4. place[c] = "outside" \/ c \in U!Content(place[c])
      BY <3>3
      DEF Orderly, PartsInv, FunctionInv, FunctionsOK, InsideIsKnown,
        U!TypeOK
    <3> QED
      BY <3>1, <3>3, <3>4 DEF PartsInv, FunctionInv, U!TypeOK
  <2> QED
    BY <2>1, <2>2
<1> QED
  BY PartsInit, PartsNext, CallInit, CallNext, <1>1, PTL DEF Spec

(* As long as the child runs f, or, if it has the caller's table, until     *)
(* the call returns, what f captured is open under its number and the file *)
(* it was (execute.cpp:24).                                                *)
THEOREM CapturesStayOpen == Spec => []CapturesOpen
<1>1. PartsInv /\ CallInv => CapturesOpen
  <2> SUFFICES ASSUME PartsInv, CallInv, Calm, ~ undefined,
                      child = "f", saw.number # None,
                      shared => pc = "after"
               PROVE  saw.file = IF shared THEN table[saw.number] ELSE copy
    BY DEF CapturesOpen, Orderly, Calm
  <2>1. CASE ~ shared
    BY <2>1 DEF CallInv, CopyIsCaptured
  <2>2. CASE shared
    <3>1. /\ vtable[Param] \in U!Full
          /\ fd[Capture[box[Param]]] = saw.number
          /\ given[Capture[box[Param]]] = saw.file
      BY <2>2 DEF CallInv, SawIsCaptured
    <3>2. Capture[box[Param]] \in Holder
      BY <3>1, RoutineAssumption
      DEF PartsInv, FunctionInv, FunctionsOK, FullHasBox, U!TypeOK
    <3> QED
      BY <2>2, <3>1, <3>2 DEF PartsInv, HolderInv, FailedFirst, H!Stale,
        H!Has
  <2> QED
    BY <2>1, <2>2
<1> QED
  BY PartsInit, PartsNext, CallInit, CallNext, <1>1, PTL DEF Spec
=============================================================================
