--------------------------- MODULE SboxInitProofs ---------------------------
(***************************************************************************)
(* Proofs about SboxInit for any processes, clones and threads.            *)
(*                                                                         *)
(* The lock's invariant comes from FileLockProofs: every step of SboxInit  *)
(* is a step of FileLock.  What a thread may assume at each location (the  *)
(* grant it has, what the body has built) is added to it.                  *)
(***************************************************************************)
EXTENDS SboxInit, TLAPS

F == INSTANCE FileLockProofs WITH Guard <- Thread

(* The grants that go with a thread's location, and the lock it waits for. *)
Granted ==
  \A t \in Thread :
    /\ pc[t] = "rwait" => want[t] = F!RLock
    /\ pc[t] = "xwait" => want[t] = F!RWLock
    /\ pc[t] = "check1" => granted[t] = "read"
    /\ pc[t] \in {"check2"} \cup Body => granted[t] = "write"

LockInv ==
  /\ F!IInv
  /\ pc \in [Thread -> Locations]
  /\ invoked \in [Proc -> BOOLEAN]
  /\ mutex \in [Proc -> Thread \cup {Nobody}]
  /\ done \subseteq Complete
  /\ \A t \in Thread : pc[t] \in {"root", "sbox"} => Delegate
  /\ Granted

USE SboxAssumption
-----------------------------------------------------------------------------
(* SboxInit's steps as FileLock's. *)

LEMMA LockAssumption == F!OwnerAssumption
BY DEF F!OwnerAssumption

LEMMA SameSteps ==
  /\ \A t \in Thread :
       /\ L!Open(t) => F!GuardNext(t)
       /\ L!Lock(t, L!RLock) => F!GuardNext(t)
       /\ L!Lock(t, L!RWLock) => F!GuardNext(t)
       /\ L!Locked(t) => F!GuardNext(t)
       /\ L!LockThrows(t) => F!GuardNext(t)
       /\ L!Unlock(t) => F!GuardNext(t)
       /\ L!Destroy(t) => F!GuardNext(t)
  /\ \A p, c \in Proc : L!Clone(p, c) => F!ProcNext(p)
  /\ \A p \in Proc : L!Exit(p) => F!ProcNext(p)
<1>1. ASSUME NEW t \in Thread, NEW ty, L!Lock(t, ty) PROVE F!Lock(t, ty)
  BY <1>1 DEF L!Lock, F!Lock, L!State, F!State, L!Unlocked, F!Unlocked,
    L!RLock, F!RLock, L!RWLock, F!RWLock, L!Flag, F!Flag
<1>2. ASSUME NEW t \in Thread
      PROVE  /\ L!Lock(t, L!RLock) => F!GuardNext(t)
             /\ L!Lock(t, L!RWLock) => F!GuardNext(t)
  BY <1>1 DEF F!GuardNext, F!LockType, L!RLock, F!RLock, L!RWLock, F!RWLock
<1>3. ASSUME NEW t \in Thread
      PROVE  /\ L!Open(t) => F!GuardNext(t)
             /\ L!LockThrows(t) => F!GuardNext(t)
  BY DEF F!GuardNext, L!Open, F!Open, L!LockThrows, F!LockThrows, L!State,
    F!State, L!Unlocked, F!Unlocked, L!RLock, F!RLock, L!RWLock, F!RWLock
<1>4. ASSUME NEW t \in Thread, L!Locked(t) PROVE F!Locked(t)
  BY <1>4 DEF L!Locked, F!Locked, L!Compatible, F!Compatible, L!Flag, F!Flag,
    L!Promise, F!Promise, L!toState, F!toState, L!State, F!State,
    L!Unlocked, F!Unlocked, L!RLock, F!RLock, L!RWLock, F!RWLock
<1>5. ASSUME NEW t \in Thread
      PROVE  L!LockAfterUnlock(t) = F!LockAfterUnlock(t)
  BY DEF L!LockAfterUnlock, F!LockAfterUnlock, L!State, F!State, L!Unlocked,
    F!Unlocked, L!RLock, F!RLock, L!RWLock, F!RWLock
<1>6. ASSUME NEW t \in Thread
      PROVE  /\ L!Unlock(t) => F!Unlock(t)
             /\ L!Destroy(t) => F!Destroy(t)
  BY <1>5 DEF L!Unlock, F!Unlock, L!Destroy, F!Destroy, L!State, F!State,
    L!Unlocked, F!Unlocked, L!RLock, F!RLock, L!RWLock, F!RWLock
<1>7. ASSUME NEW p \in Proc, NEW c \in Proc, L!Clone(p, c) PROVE F!Clone(p, c)
  BY <1>7 DEF L!Clone, F!Clone
<1>8. ASSUME NEW p \in Proc, L!Exit(p) PROVE F!Exit(p)
  BY <1>8 DEF L!Exit, F!Exit, L!State, F!State, L!Unlocked, F!Unlocked,
    L!RLock, F!RLock, L!RWLock, F!RWLock
<1> QED
  BY <1>2, <1>3, <1>4, <1>6, <1>7, <1>8 DEF F!GuardNext, F!ProcNext

LEMMA StepIsLockStep == ASSUME [Next]_vars PROVE [F!Next]_F!vars
<1>1. ASSUME NEW t \in Thread, F!GuardNext(t) PROVE F!Next
  BY <1>1 DEF F!Next
<1>2. ASSUME NEW p \in Proc, F!ProcNext(p) PROVE F!Next
  BY <1>2 DEF F!Next
<1>3. ASSUME UNCHANGED lockVars PROVE UNCHANGED F!vars
  BY <1>3 DEF lockVars, F!vars
<1>4. ASSUME NEW t \in Thread, Call(t) \/ Advance(t) \/ Throw(t)
      PROVE  [F!Next]_F!vars
  BY <1>1, <1>3, <1>4, SameSteps DEF Advance, Throw, Call, Enter, Store,
    Release, OpenLock, LockRead, LockedRead, CheckRead, UnlockRead,
    LockWrite, LockedWrite, CheckWrite, WriteRoot, MkDir, WriteSbox, Leave,
    Unwind, GuardStep, Check, WriteControl, OpenThrows, WaitThrows, StepThrows
<1>5. ASSUME NEW t \in Thread, NEW c \in Proc, Clone(t, c)
      PROVE  F!Next
  BY <1>2, <1>5, SameSteps DEF Clone
<1>6. ASSUME NEW p \in Proc, Exit(p) PROVE F!Next
  BY <1>2, <1>6, SameSteps DEF Exit
<1>7. CASE UNCHANGED vars
  BY <1>3, <1>7 DEF vars
<1> QED
  BY <1>4, <1>5, <1>6, <1>7 DEF Next

LEMMA LockKept == ASSUME F!IInv, [Next]_vars PROVE F!IInv'
BY StepIsLockStep, LockAssumption, F!NextKeeps
-----------------------------------------------------------------------------
(* The locations and their grants. *)

LEMMA InitLockInv == Init => LockInv
<1> SUFFICES ASSUME Init PROVE LockInv
  OBVIOUS
<1>1. L!Init => F!Init
  BY DEF L!Init, F!Init, L!State, F!State, L!Unlocked, F!Unlocked,
    L!RLock, F!RLock, L!RWLock, F!RWLock
<1>2. F!IInv
  BY <1>1, LockAssumption, F!InitIInv DEF Init
<1> QED
  BY <1>2 DEF Init, LockInv, Granted, Locations, Body, Complete

(* A thread's step changes nothing that the invariant says of the others.  *)
LEMMA LocalStep ==
  ASSUME LockInv, NEW t \in Thread, NEW l \in Locations, Goto(t, l),
         F!IInv',
         invoked' \in [Proc -> BOOLEAN],
         mutex' \in [Proc -> Thread \cup {Nobody}],
         done' \subseteq Complete,
         l \in {"root", "sbox"} => Delegate,
         \A u \in Thread \ {t} :
           want'[u] = want[u] /\ granted'[u] = granted[u],
         l = "rwait" => want'[t] = F!RLock,
         l = "xwait" => want'[t] = F!RWLock,
         l = "check1" => granted'[t] = "read",
         l \in {"check2"} \cup Body => granted'[t] = "write"
  PROVE  LockInv'
<1>1. pc' \in [Thread -> Locations] /\ pc'[t] = l
  BY DEF Goto, LockInv
<1>2. \A u \in Thread \ {t} : pc'[u] = pc[u]
  BY DEF Goto, LockInv
<1>3. Granted'
  BY <1>1, <1>2 DEF LockInv, Granted
<1>4. \A u \in Thread : pc'[u] \in {"root", "sbox"} => Delegate
  BY <1>1, <1>2 DEF LockInv
<1> QED
  BY <1>1, <1>3, <1>4 DEF LockInv, Complete

LEMMA OnceKeeps ==
  ASSUME LockInv, F!IInv', NEW t \in Thread,
         Call(t) \/ Enter(t) \/ Store(t) \/ Release(t)
  PROVE  LockInv'
<1> DEFINE l == pc'[t]
<1>1. l \in {"returned", "mutex", "opening", "release", "thrown"} /\ Goto(t, l)
  BY DEF Call, Enter, Store, Release, Goto, LockInv
<1>2. UNCHANGED <<lockVars, done>>
  BY DEF Call, Enter, Store, Release
<1>3. /\ invoked' \in [Proc -> BOOLEAN]
      /\ mutex' \in [Proc -> Thread \cup {Nobody}]
  BY DEF Call, Enter, Store, Release, LockInv
<1> HIDE DEF l
<1> QED
  BY <1>1, <1>2, <1>3, LocalStep DEF lockVars, LockInv, Locations, Body

(* What FileLock's operations leave a thread and the others with.          *)
LEMMA LockEffects ==
  ASSUME F!IInv, NEW t \in Thread
  PROVE  /\ L!Open(t) \/ L!LockThrows(t)
              => UNCHANGED <<want, granted>>
         /\ L!Unlock(t) \/ L!Destroy(t)
              => /\ UNCHANGED want
                 /\ \A u \in Thread \ {t} : granted'[u] = granted[u]
         /\ \A ty \in {L!RLock, L!RWLock} : L!Lock(t, ty)
              => /\ want'[t] = ty
                 /\ \A u \in Thread \ {t} :
                      want'[u] = want[u] /\ granted'[u] = granted[u]
         /\ L!Locked(t)
              => /\ UNCHANGED want
                 /\ granted'[t] = L!Promise(want[t])
                 /\ \A u \in Thread \ {t} : granted'[u] = granted[u]
BY DEF F!IInv, F!TypeOK, L!Open, L!LockThrows, L!Unlock, L!Destroy, L!Lock,
  L!Locked

LEMMA LockTypes ==
  /\ L!RLock = F!RLock /\ L!RWLock = F!RWLock
  /\ L!Promise(F!RLock) = "read" /\ L!Promise(F!RWLock) = "write"
BY DEF L!RLock, F!RLock, L!RWLock, F!RWLock, L!Promise

LEMMA GuardKeeps ==
  ASSUME LockInv, F!IInv', NEW t \in Thread,
         \/ OpenLock(t) \/ LockRead(t) \/ LockedRead(t) \/ UnlockRead(t)
         \/ LockWrite(t) \/ LockedWrite(t) \/ Leave(t) \/ Unwind(t)
         \/ WaitThrows(t)
  PROVE  LockInv'
<1>1. UNCHANGED <<invoked, mutex, done>>
  BY DEF OpenLock, LockRead, LockedRead, UnlockRead, LockWrite, LockedWrite,
    Leave, Unwind, WaitThrows, GuardStep
<1>2. F!IInv
  BY DEF LockInv
<1>3. ASSUME NEW l \in {"rlock", "xlock", "store", "rethrow", "unwind"},
             Goto(t, l),
             L!Open(t) \/ L!Unlock(t) \/ L!Destroy(t) \/ L!LockThrows(t)
      PROVE  LockInv'
  BY <1>1, <1>2, <1>3, LockEffects, LocalStep DEF LockInv, Locations, Body
<1>4. CASE LockRead(t) \/ LockWrite(t)
  BY <1>1, <1>2, <1>4, LockEffects, LockTypes, LocalStep
  DEF LockRead, LockWrite, GuardStep, LockInv, Locations, Body
<1>5. CASE LockedRead(t) \/ LockedWrite(t)
  <2>1. /\ LockedRead(t) => want[t] = F!RLock
        /\ LockedWrite(t) => want[t] = F!RWLock
    BY DEF LockedRead, LockedWrite, GuardStep, LockInv, Granted
  <2> QED
    BY <1>1, <1>2, <1>5, <2>1, LockEffects, LockTypes, LocalStep
    DEF LockedRead, LockedWrite, GuardStep, LockInv, Locations, Body
<1> QED
  BY <1>3, <1>4, <1>5 DEF OpenLock, UnlockRead, Leave, Unwind, WaitThrows,
    GuardStep

LEMMA BodyKeeps ==
  ASSUME LockInv, F!IInv', NEW t \in Thread,
         \/ CheckRead(t) \/ CheckWrite(t) \/ WriteRoot(t) \/ MkDir(t)
         \/ WriteSbox(t) \/ OpenThrows(t) \/ StepThrows(t)
  PROVE  LockInv'
<1>1. UNCHANGED <<lockVars, invoked, mutex>>
  BY DEF CheckRead, CheckWrite, Check, WriteRoot, WriteSbox, WriteControl,
    MkDir, OpenThrows, StepThrows
<1>2. done' \subseteq Complete
  BY DEF CheckRead, CheckWrite, Check, WriteRoot, WriteSbox, WriteControl,
    MkDir, OpenThrows, StepThrows, LockInv, Complete, Body
<1>3. ASSUME NEW l \in {"leave", "unlock", "unwind", "rethrow"}, Goto(t, l)
      PROVE  LockInv'
  BY <1>1, <1>2, <1>3, LocalStep DEF lockVars, LockInv, Locations, Body
<1>4. ASSUME NEW l \in Body, Goto(t, l), granted[t] = "write",
             l \in {"root", "sbox"} => Delegate
      PROVE  LockInv'
  BY <1>1, <1>2, <1>4, LocalStep DEF lockVars, LockInv, Locations, Body
<1>5. CASE CheckWrite(t)
  <2>1. granted[t] = "write"
    BY <1>5 DEF CheckWrite, Check, LockInv, Granted
  <2> QED
    BY <1>3, <1>4, <1>5, <2>1 DEF CheckWrite, Check, Body
<1>6. CASE WriteRoot(t) \/ MkDir(t) \/ WriteSbox(t)
  <2>1. granted[t] = "write"
    BY <1>6 DEF WriteRoot, WriteSbox, WriteControl, MkDir, LockInv, Granted,
      Body
  <2> QED
    BY <1>3, <1>4, <1>6, <2>1 DEF WriteRoot, WriteSbox, WriteControl, MkDir,
      Body
<1> QED
  BY <1>3, <1>5, <1>6 DEF CheckRead, Check, OpenThrows, StepThrows

LEMMA ProcessKeeps ==
  ASSUME LockInv, F!IInv',
         \/ \E t \in Thread, c \in Proc : Clone(t, c)
         \/ \E p \in Proc : Exit(p)
  PROVE  LockInv'
<1>1. ASSUME NEW t \in Thread, NEW c \in Proc, Clone(t, c) PROVE LockInv'
  <2>1. UNCHANGED <<want, granted, pc, done>>
    BY <1>1 DEF Clone, L!Clone
  <2>2. Granted'
    BY <2>1 DEF LockInv, Granted
  <2>3. /\ invoked' \in [Proc -> BOOLEAN]
        /\ mutex' \in [Proc -> Thread \cup {Nobody}]
    BY <1>1 DEF Clone, LockInv
  <2> QED
    BY <2>1, <2>2, <2>3 DEF LockInv, Complete
<1>2. ASSUME NEW p \in Proc, Exit(p) PROVE LockInv'
  <2>1. UNCHANGED <<want, invoked, mutex, done>>
    BY <1>2 DEF Exit, L!Exit
  <2>2. \A t \in Thread :
          \/ pc'[t] = "dead"
          \/ pc'[t] = pc[t] /\ granted'[t] = granted[t]
    BY <1>2 DEF Exit, L!Exit
  <2>3. pc' \in [Thread -> Locations]
    BY <1>2 DEF Exit, LockInv, Locations
  <2>4. Granted'
    BY <2>1, <2>2 DEF LockInv, Granted, Body
  <2> QED
    BY <2>1, <2>2, <2>3, <2>4 DEF LockInv, Complete
<1> QED
  BY <1>1, <1>2

LEMMA LockInvKept == ASSUME LockInv, [Next]_vars PROVE LockInv'
<1>1. F!IInv'
  BY LockKept DEF LockInv
<1>2. CASE UNCHANGED vars
  BY <1>1, <1>2 DEF vars, lockVars, LockInv, Granted, Complete
<1>3. CASE Next
  BY <1>1, <1>3, OnceKeeps, GuardKeeps, BodyKeeps, ProcessKeeps
  DEF Next, Advance, Throw
<1> QED
  BY <1>2, <1>3

LEMMA LockInvariance == Spec => []LockInv
BY InitLockInv, LockInvKept, PTL DEF Spec

(* The mutexes, the guards and the locations of all threads are what        *)
(* once.hpp and flock.hpp declare, and only body steps count as done.      *)
THEOREM TypeCorrect == Spec => []TypeOK
<1>1. LockInv => TypeOK
  BY DEF LockInv, F!IInv, F!TypeOK, TypeOK, L!TypeOK, F!State, L!State,
    F!RLock, L!RLock, F!RWLock, L!RWLock, F!Unlocked, L!Unlocked,
    F!LockType, L!LockType
<1> QED
  BY LockInvariance, <1>1, PTL

LEMMA Exclusion == LockInv => BodyAlone
<1> SUFFICES ASSUME LockInv, NEW t \in Thread, NEW u \in Thread, t # u,
                    pc[u] \in Body
             PROVE  pc[t] \notin Body \cup {"check1", "check2"}
  BY DEF BodyAlone
<1>1. granted[u] = "write"
  BY DEF LockInv, Granted
<1>2. lock[u] = "EX" /\ F!Compatible(lock[t], lock[u])
  BY <1>1 DEF LockInv, F!IInv, F!GrantBacked, F!LocksCompatible
<1>3. granted[t] = "none"
  BY <1>2 DEF F!Compatible, LockInv, F!IInv, F!GrantBacked, F!TypeOK
<1> QED
  BY <1>3 DEF LockInv, Granted

(* The body runs in one thread of one process at a time, and no thread     *)
(* looks at a half-built sbox, whatever crashes, exceptions, lost writes   *)
(* and clones there are.  (container.cpp:24-34, cgroup_controller.cpp:44)  *)
THEOREM BodyExclusion == Spec => []BodyAlone
BY LockInvariance, Exclusion, PTL
-----------------------------------------------------------------------------
(* What the body has built.                                                *)

LEMMA BodyOnceKept == ASSUME LockInv, BodyOnce, [Next]_vars PROVE BodyOnce'
<1>0. BodyAlone /\ pc \in [Thread -> Locations]
  BY Exclusion DEF LockInv
<1>1. ASSUME NEW t \in Thread, MkDir(t) PROVE BodyOnce'
  BY <1>0, <1>1 DEF MkDir, Goto, BodyOnce, BodyAlone, Body
<1>2. ASSUME NEW t \in Thread, CheckWrite(t) PROVE BodyOnce'
  BY <1>2, <1>0 DEF CheckWrite, Check, Goto, BodyOnce
<1>3. ASSUME NEW t \in Thread, WriteRoot(t) \/ WriteSbox(t) PROVE BodyOnce'
  BY <1>3, <1>0 DEF WriteRoot, WriteSbox, WriteControl, Goto, BodyOnce
<1>4. ASSUME UNCHANGED done,
             \A t \in Thread : pc'[t] \in {"root", "mkdir"} => pc'[t] = pc[t]
      PROVE  BodyOnce'
  BY <1>4 DEF BodyOnce
<1>5. ASSUME NEW t \in Thread,
             \/ Call(t) \/ Enter(t) \/ Store(t) \/ Release(t)
             \/ OpenLock(t) \/ LockRead(t) \/ LockedRead(t) \/ CheckRead(t)
             \/ UnlockRead(t) \/ LockWrite(t) \/ LockedWrite(t)
             \/ Leave(t) \/ Unwind(t) \/ Throw(t)
      PROVE  BodyOnce'
  <2>1. UNCHANGED done /\ \E l \in Locations \ {"root", "mkdir"} : Goto(t, l)
    BY <1>5 DEF Call, Enter, Store, Release, OpenLock, LockRead, LockedRead,
      CheckRead, UnlockRead, LockWrite, LockedWrite, Leave, Unwind, Throw,
      GuardStep, Check, OpenThrows, WaitThrows, StepThrows, Locations
  <2> QED
    BY <1>0, <1>4, <2>1 DEF Goto
<1>6. ASSUME NEW t \in Thread, NEW c \in Proc, Clone(t, c) PROVE BodyOnce'
  BY <1>4, <1>6 DEF Clone
<1>7. ASSUME NEW p \in Proc, Exit(p) PROVE BodyOnce'
  BY <1>4, <1>7 DEF Exit
<1>8. CASE UNCHANGED vars
  BY <1>4, <1>8 DEF vars
<1> QED
  BY <1>1, <1>2, <1>3, <1>5, <1>6, <1>7, <1>8 DEF Next, Advance

(* Nobody runs the body over an sbox that is there, because the second     *)
(* check is made under the lock.  (container.cpp:29-34)                    *)
THEOREM RunsOnce == Spec => []BodyOnce
<1>1. Init => BodyOnce
  BY DEF Init, BodyOnce
<1>2. LockInv /\ BodyOnce /\ [Next]_vars => BodyOnce'
  BY BodyOnceKept
<1> QED
  BY <1>1, <1>2, LockInvariance, PTL DEF Spec

(* The cgroup's body takes three steps.  It may be interrupted anywhere but *)
(* between the last two: an exception or a crash there, or a lost write,   *)
(* leaves a bare sbox that check() takes for a complete one.               *)
Uninterrupted == Delegate => Events \cap {"cut", "lost"} = {}

Built ==
  /\ "sbox" \in done => done = Complete
  /\ (\A t \in Thread : pc[t] # "sbox")
       => ("mkdir" \in done => done = Complete)
  /\ \A t \in Thread :
       /\ pc[t] = "root" => "mkdir" \notin done
       /\ pc[t] = "mkdir" => done = IF Delegate THEN {"root"} ELSE {}
       /\ pc[t] = "sbox" => done = {"root", "mkdir"}
       /\ pc[t] \in {"leave", "store", "release", "returned"}
            => done = Complete
  /\ \A p \in Proc : invoked[p] => done = Complete

LEMMA InitBuilt == Init => Built
BY DEF Init, Built

(* A step from outside the body to outside the body.                       *)
LEMMA QuietStep ==
  ASSUME LockInv, Built, NEW t \in Thread, NEW l \in Locations \ Body,
         Goto(t, l), UNCHANGED done,
         pc[t] # "sbox",
         l \in {"leave", "store", "release", "returned"} => done = Complete,
         \A p \in Proc : invoked'[p] => invoked[p] \/ done = Complete
  PROVE  Built'
<1>1. pc'[t] = l /\ \A u \in Thread \ {t} : pc'[u] = pc[u]
  BY DEF Goto, LockInv
<1>2. pc'[t] \notin Body
  BY <1>1
<1>3. Complete' = Complete
  BY DEF Complete, Body
<1>4. \A u \in Thread :
        /\ pc'[u] = "root" => "mkdir" \notin done'
        /\ pc'[u] = "mkdir" => done' = IF Delegate THEN {"root"} ELSE {}
        /\ pc'[u] = "sbox" => done' = {"root", "mkdir"}
        /\ pc'[u] \in {"leave", "store", "release", "returned"}
             => done' = Complete
  BY <1>1, <1>2 DEF Built, Body
<1>5. (\A u \in Thread : pc'[u] # "sbox")
        => \A u \in Thread : pc[u] # "sbox"
  BY <1>1
<1> QED
  BY <1>3, <1>4, <1>5 DEF Built

(* A step of the body, which leaves done at v and the thread at l.         *)
LEMMA BodyStep ==
  ASSUME LockInv, Built, NEW t \in Thread, NEW l \in Locations,
         Goto(t, l), UNCHANGED invoked,
         \A u \in Thread \ {t} : pc[u] \notin Body,
         done # Complete \/ UNCHANGED done,
         l \in Body \cup {"leave"},
         "sbox" \in done' => done' = Complete,
         l = "root" => "mkdir" \notin done',
         l = "mkdir" => done' = IF Delegate THEN {"root"} ELSE {},
         l = "sbox" => done' = {"root", "mkdir"},
         l = "leave" => done' = Complete
  PROVE  Built'
<1>1. pc'[t] = l /\ \A u \in Thread \ {t} : pc'[u] = pc[u]
  BY DEF Goto, LockInv
<1>2. Complete' = Complete
  BY DEF Complete, Body
<1>3. \A u \in Thread \ {t} :
        pc[u] \in {"leave", "store", "release", "returned"}
          => done' = Complete
  BY DEF Built
<1>4. \A p \in Proc : invoked'[p] => done' = Complete
  BY DEF Built
<1>5. (\A u \in Thread : pc'[u] # "sbox")
        => ("mkdir" \in done' => done' = Complete)
  BY <1>1 DEF Body, Complete
<1>6. \A u \in Thread :
        /\ pc'[u] = "root" => "mkdir" \notin done'
        /\ pc'[u] = "mkdir" => done' = IF Delegate THEN {"root"} ELSE {}
        /\ pc'[u] = "sbox" => done' = {"root", "mkdir"}
        /\ pc'[u] \in {"leave", "store", "release", "returned"}
             => done' = Complete
  BY <1>1, <1>3 DEF Body
<1> QED
  BY <1>2, <1>4, <1>5, <1>6 DEF Built

LEMMA BuiltByOnce ==
  ASSUME LockInv, Built, NEW t \in Thread,
         Call(t) \/ Enter(t) \/ Store(t) \/ Release(t)
  PROVE  Built'
<1>1. Owner[t] \in Proc /\ UNCHANGED done
  BY DEF Call, Enter, Store, Release
<1>2. \A p \in Proc : invoked'[p] => invoked[p] \/ done = Complete
  BY DEF Call, Enter, Store, Release, LockInv, Built
<1>3. \E l \in {"returned", "mutex", "opening", "release", "thrown"} :
        Goto(t, l) /\ (l \in {"release", "returned"} => done = Complete)
  BY <1>1 DEF Call, Enter, Store, Release, Built
<1>4. pc[t] # "sbox"
  BY DEF Call, Enter, Store, Release
<1> QED
  BY <1>1, <1>2, <1>3, <1>4, QuietStep DEF Locations, Body

LEMMA BuiltByGuard ==
  ASSUME LockInv, Built, NEW t \in Thread,
         \/ OpenLock(t) \/ LockRead(t) \/ LockedRead(t) \/ UnlockRead(t)
         \/ LockWrite(t) \/ LockedWrite(t) \/ Leave(t) \/ Unwind(t)
         \/ WaitThrows(t) \/ OpenThrows(t)
  PROVE  Built'
<1>1. /\ UNCHANGED <<done, invoked>>
      /\ pc[t] # "sbox"
      /\ \E l \in {"rlock", "rwait", "check1", "xlock", "xwait", "check2",
                  "store", "rethrow", "unwind"} :
           Goto(t, l) /\ (l = "store" => done = Complete)
  BY DEF OpenLock, LockRead, LockedRead, UnlockRead, LockWrite, LockedWrite,
    Leave, Unwind, WaitThrows, OpenThrows, GuardStep, Built
<1> QED
  BY <1>1, QuietStep DEF Locations, Body

LEMMA BuiltByCheck ==
  ASSUME LockInv, Built, NEW t \in Thread, CheckRead(t) \/ CheckWrite(t)
  PROVE  Built'
<1>1. pc[t] \in {"check1", "check2"} /\ UNCHANGED <<done, invoked>>
  BY DEF CheckRead, CheckWrite, Check
<1>2. \A u \in Thread \ {t} : pc[u] \notin Body
  <2>1. CASE pc[t] = "check1"
    BY <2>1, Exclusion DEF BodyAlone
  <2>2. CASE pc[t] = "check2"
    BY <2>2, Exclusion DEF BodyAlone
  <2> QED
    BY <1>1, <2>1, <2>2
<1>3. /\ "mkdir" \in done => done = Complete
      /\ "mkdir" \notin done /\ ~Delegate => done = {}
      /\ "mkdir" \in Complete
  BY <1>1, <1>2 DEF Built, Body, Complete, LockInv
<1>4. CASE "mkdir" \in done
  BY <1>1, <1>3, <1>4, QuietStep
  DEF CheckRead, CheckWrite, Check, Locations, Body
<1>5. CASE "mkdir" \notin done /\ CheckRead(t)
  BY <1>1, <1>5, QuietStep DEF CheckRead, Check, Locations, Body
<1>6. CASE "mkdir" \notin done /\ CheckWrite(t)
  <2>1. "sbox" \in done' => done' = Complete
    BY <1>1 DEF Built
  <2>2. CASE Delegate
    <3>1. Goto(t, "root")
      BY <1>6, <2>2 DEF CheckWrite, Check
    <3> QED
      BY <1>1, <1>2, <1>6, <2>1, <3>1, BodyStep DEF Locations, Body
  <2>3. CASE ~Delegate
    <3>1. Goto(t, "mkdir") /\ done' = {}
      BY <1>1, <1>3, <1>6, <2>3 DEF CheckWrite, Check
    <3> QED
      BY <1>1, <1>2, <2>1, <2>3, <3>1, BodyStep DEF Locations, Body
  <2> QED
    BY <2>2, <2>3
<1> QED
  BY <1>4, <1>5, <1>6

LEMMA BuiltByBody ==
  ASSUME LockInv, Built, Uninterrupted, NEW t \in Thread,
         WriteRoot(t) \/ MkDir(t) \/ WriteSbox(t)
  PROVE  Built'
<1>1. pc[t] \in Body /\ UNCHANGED invoked
  BY DEF WriteRoot, MkDir, WriteSbox, WriteControl, Body
<1>2. \A u \in Thread \ {t} : pc[u] \notin Body
  BY <1>1, Exclusion DEF BodyAlone
<1>3. CASE WriteRoot(t)
  <2>1. Delegate /\ "lost" \notin Events /\ done \subseteq {"root"}
    BY <1>3 DEF WriteRoot, WriteControl, LockInv, Built, Uninterrupted,
      Complete, Body
  <2>2. done' = done \cup {"root"} /\ Goto(t, "mkdir")
    BY <1>3, <2>1 DEF WriteRoot, WriteControl
  <2>3. "mkdir" \notin done /\ done # Complete
    BY <2>1 DEF Complete, Body
  <2>4. done' = {"root"}
    BY <2>1, <2>2
  <2> QED
    BY <1>1, <1>2, <2>1, <2>2, <2>3, <2>4, BodyStep DEF Locations, Body
<1>4. CASE MkDir(t) /\ Delegate
  <2>1. done = {"root"}
    BY <1>4 DEF MkDir, Built
  <2>2. done' = {"root", "mkdir"} /\ done # Complete /\ Goto(t, "sbox")
    BY <1>4, <2>1 DEF MkDir, Complete, Body
  <2> QED
    BY <1>1, <1>2, <1>4, <2>2, BodyStep DEF Locations, Body
<1>5. CASE MkDir(t) /\ ~Delegate
  <2>1. done' = Complete /\ done # Complete /\ Goto(t, "leave")
    BY <1>5 DEF MkDir, Built, Complete
  <2> QED
    BY <1>1, <1>2, <2>1, BodyStep DEF Locations, Body
<1>6. CASE WriteSbox(t)
  <2>1. Delegate /\ "lost" \notin Events /\ done = {"root", "mkdir"}
    BY <1>6 DEF WriteSbox, WriteControl, LockInv, Built, Uninterrupted
  <2>2. done' = Complete /\ done # Complete /\ Goto(t, "leave")
    BY <1>6, <2>1 DEF WriteSbox, WriteControl, Complete, Body
  <2> QED
    BY <1>1, <1>2, <2>2, BodyStep DEF Locations, Body
<1> QED
  BY <1>3, <1>4, <1>5, <1>6

(* Interrupting the body is harmless where it is allowed: nobody leaves    *)
(* between the last two steps.                                             *)
LEMMA BuiltByInterruption ==
  ASSUME LockInv, Built, Uninterrupted,
         \/ \E t \in Thread : StepThrows(t)
         \/ \E p \in Proc : Exit(p)
  PROVE  Built'
<1>1. UNCHANGED <<done, invoked>> /\ Complete' = Complete
  BY DEF StepThrows, Exit, Complete, Body
<1>2. \A u \in Thread : pc'[u] \in {"dead", "unwind"} \/ pc'[u] = pc[u]
  BY DEF StepThrows, Exit, Goto, LockInv
<1>3. \A u \in Thread : pc[u] = "sbox" => Delegate /\ ~ Cuttable(u)
  BY DEF LockInv, Cuttable, Uninterrupted
<1>4. \A u \in Thread : pc[u] = "sbox" => pc'[u] = "sbox"
  BY <1>3 DEF StepThrows, Exit, Goto, LockInv, Outside
<1> QED
  BY <1>1, <1>2, <1>4 DEF Built

LEMMA BuiltKept ==
  ASSUME LockInv, Built, Uninterrupted, [Next]_vars PROVE Built'
<1>1. ASSUME NEW t \in Thread, NEW c \in Proc, Clone(t, c) PROVE Built'
  <2>1. UNCHANGED <<pc, done>> /\ Complete' = Complete
    BY <1>1 DEF Clone, Complete, Body
  <2>2. \A p \in Proc : invoked'[p] => done = Complete
    BY <1>1 DEF Clone, LockInv, Built
  <2> QED
    BY <2>1, <2>2 DEF Built
<1>2. CASE UNCHANGED vars
  BY <1>2 DEF vars, Built, Complete, Body
<1> QED
  BY <1>1, <1>2, BuiltByOnce, BuiltByGuard, BuiltByCheck, BuiltByBody,
    BuiltByInterruption DEF Next, Advance, Throw

LEMMA BuiltInvariance == ASSUME Uninterrupted PROVE Spec => []Built
BY InitBuilt, BuiltKept, LockInvariance, PTL DEF Spec

(* Whoever returns from the initialisation finds all of it: always for the *)
(* container's single step, and for the cgroup's three when no write is     *)
(* lost and nobody is cut short before the last, whatever crashes and       *)
(* exceptions elsewhere.  (container.cpp:46, cgroup_controller.cpp:70)     *)
THEOREM ReturnsReady == ASSUME Uninterrupted PROVE Spec => []ReturnedReady
<1>1. Built => ReturnedReady
  BY DEF Built, ReturnedReady
<1> QED
  BY <1>1, BuiltInvariance, PTL
-----------------------------------------------------------------------------
(* SboxInit implements OneTimeInit.                                        *)

Ready == done = Complete
Status(t) ==
  IF pc[t] = "idle" THEN "out"
  ELSE IF pc[t] \in {"returned", "thrown", "dead"} THEN pc[t]
  ELSE "in"
StatusOf == [t \in Thread |-> Status(t)]

LEMMA GotoStatus ==
  ASSUME LockInv, NEW t \in Thread, NEW l \in Locations, Goto(t, l)
  PROVE  StatusOf' = [StatusOf EXCEPT ![t] =
           IF l = "idle" THEN "out"
           ELSE IF l \in {"returned", "thrown", "dead"} THEN l ELSE "in"]
BY DEF Goto, LockInv, StatusOf, Status

(* The abstract steps, in terms of the mapping.                            *)
AskStep(t) ==
  /\ Status(t) \in {"out", "thrown"}
  /\ StatusOf' = [StatusOf EXCEPT ![t] = "in"]
  /\ Ready' = Ready

SetUpStep(t) ==
  Status(t) = "in" /\ ~Ready /\ Ready' /\ StatusOf' = StatusOf

ReturnStep(t) ==
  /\ Status(t) \in {"out", "thrown", "in"}
  /\ Ready
  /\ StatusOf' = [StatusOf EXCEPT ![t] = "returned"]
  /\ Ready' = Ready

FailStep(t) ==
  /\ Status(t) = "in"
  /\ StatusOf' = [StatusOf EXCEPT ![t] = "thrown"]
  /\ Ready' = Ready

DieStep(T) ==
  /\ StatusOf' = [t \in Thread |-> IF t \in T THEN "dead" ELSE StatusOf[t]]
  /\ Ready' = Ready

Stutter == Ready' = Ready /\ StatusOf' = StatusOf

LEMMA AbstractSteps ==
  /\ \A t \in Thread :
       AskStep(t) \/ SetUpStep(t) \/ ReturnStep(t) \/ FailStep(t)
         => Abstract!Next
  /\ \A T \in SUBSET Thread : DieStep(T) => Abstract!Next
  /\ Stutter => UNCHANGED Abstract!vars
BY DEF Abstract!Next, Abstract!Ask, Abstract!Return, Abstract!Fail,
  Abstract!SetUp, Abstract!Die, Abstract!vars, Ready, StatusOf, Status,
  AskStep, SetUpStep, ReturnStep, FailStep, DieStep, Stutter

(* A thread that stays inside, or stays outside, and completes nothing.     *)
LEMMA StutterStep ==
  ASSUME LockInv, NEW t \in Thread, NEW l \in Locations, Goto(t, l),
         Ready' = Ready,
         {pc[t], l} \cap {"idle", "returned", "thrown", "dead"} = {}
  PROVE  Stutter
<1>1. StatusOf' = [StatusOf EXCEPT ![t] = "in"]
  BY GotoStatus
<1>2. StatusOf[t] = "in" /\ StatusOf = [u \in Thread |-> Status(u)]
  BY DEF StatusOf, Status
<1>3. StatusOf' = StatusOf
  BY <1>1, <1>2
<1> QED
  BY <1>3 DEF Stutter

LEMMA CompleteConstant == Complete' = Complete
BY DEF Complete, Body

LEMMA OnceImplements ==
  ASSUME LockInv, Built, NEW t \in Thread,
         Call(t) \/ Enter(t) \/ Store(t) \/ Release(t)
  PROVE  AskStep(t) \/ ReturnStep(t) \/ FailStep(t) \/ Stutter
<1>1. Ready' = Ready /\ Owner[t] \in Proc
  BY CompleteConstant DEF Call, Enter, Store, Release, Ready
<1>2. ASSUME Goto(t, "returned"), Ready,
             pc[t] \in {"idle", "thrown", "mutex", "release"}
      PROVE  ReturnStep(t)
  <2>1. StatusOf' = [StatusOf EXCEPT ![t] = "returned"]
    BY <1>2, GotoStatus DEF Locations
  <2> QED
    BY <1>1, <1>2, <2>1 DEF ReturnStep, Status
<1>3. CASE Call(t)
  <2>1. CASE invoked[Owner[t]]
    BY <1>1, <1>2, <1>3, <2>1 DEF Call, Built, Ready
  <2>2. CASE ~invoked[Owner[t]]
    <3>1. Goto(t, "mutex")
      BY <1>3, <2>2 DEF Call
    <3>2. StatusOf' = [StatusOf EXCEPT ![t] = "in"]
      BY <3>1, GotoStatus DEF Locations
    <3> QED
      BY <1>1, <1>3, <3>2 DEF Call, AskStep, Status
  <2> QED
    BY <2>1, <2>2
<1>4. CASE Enter(t)
  <2>1. CASE invoked[Owner[t]]
    BY <1>1, <1>2, <1>4, <2>1 DEF Enter, Built, Ready
  <2>2. CASE ~invoked[Owner[t]]
    BY <1>1, <1>4, <2>2, StutterStep DEF Enter, Locations
  <2> QED
    BY <2>1, <2>2
<1>5. CASE Store(t)
  BY <1>1, <1>5, StutterStep DEF Store, Locations
<1>6. CASE Release(t)
  <2>1. CASE pc[t] = "release"
    BY <1>2, <1>6, <2>1 DEF Release, Built, Ready
  <2>2. CASE pc[t] = "rethrow"
    <3>1. Goto(t, "thrown")
      BY <1>6, <2>2 DEF Release
    <3>2. StatusOf' = [StatusOf EXCEPT ![t] = "thrown"]
      BY <3>1, GotoStatus DEF Locations
    <3> QED
      BY <1>1, <2>2, <3>2 DEF FailStep, Status
  <2> QED
    BY <1>6, <2>1, <2>2 DEF Release
<1> QED
  BY <1>3, <1>4, <1>5, <1>6

LEMMA InsideImplements ==
  ASSUME LockInv, NEW t \in Thread, UNCHANGED done,
         \/ OpenLock(t) \/ LockRead(t) \/ LockedRead(t) \/ CheckRead(t)
         \/ UnlockRead(t) \/ LockWrite(t) \/ LockedWrite(t) \/ CheckWrite(t)
         \/ Leave(t) \/ Unwind(t) \/ Throw(t)
  PROVE  Stutter
<1>1. \E l \in Locations \ {"idle", "returned", "thrown", "dead"} : Goto(t, l)
  BY DEF OpenLock, LockRead, LockedRead, UnlockRead, LockWrite, LockedWrite,
    Leave, Unwind, GuardStep, CheckRead, CheckWrite, Check, Throw,
    OpenThrows, WaitThrows, StepThrows, Locations
<1>2. pc[t] \notin {"idle", "returned", "thrown", "dead"}
  BY DEF OpenLock, LockRead, LockedRead, UnlockRead, LockWrite, LockedWrite,
    Leave, Unwind, GuardStep, CheckRead, CheckWrite, Check, Throw,
    OpenThrows, WaitThrows, StepThrows, Body
<1>3. Ready' = Ready
  BY CompleteConstant DEF Ready
<1> QED
  BY <1>1, <1>2, <1>3, StutterStep

LEMMA BodyImplements ==
  ASSUME LockInv, Built, Uninterrupted, NEW t \in Thread,
         WriteRoot(t) \/ MkDir(t) \/ WriteSbox(t)
  PROVE  SetUpStep(t) \/ Stutter
<1>1. \E l \in {"mkdir", "sbox", "leave"} : Goto(t, l)
  BY DEF WriteRoot, MkDir, WriteSbox, WriteControl
<1>2. pc[t] \in Body
  BY DEF WriteRoot, MkDir, WriteSbox, WriteControl, Body
<1>3. ~Ready
  BY <1>2 DEF Built, Body, Complete, Ready, LockInv
<1>4. CASE ~Ready'
  BY <1>1, <1>2, <1>3, <1>4, StutterStep DEF Locations, Body, Ready
<1>5. CASE Ready'
  <2>1. Status(t) = "in"
    BY <1>2 DEF Status, Body
  <2>2. StatusOf' = [StatusOf EXCEPT ![t] = "in"]
    BY <1>1, GotoStatus DEF Locations
  <2>3. StatusOf' = StatusOf
    BY <2>1, <2>2 DEF StatusOf
  <2> QED
    BY <1>3, <1>5, <2>1, <2>3 DEF SetUpStep
<1> QED
  BY <1>4, <1>5

LEMMA StepImplements ==
  ASSUME LockInv, Built, Uninterrupted, [Next]_vars
  PROVE  [Abstract!Next]_Abstract!vars
<1>1. ASSUME NEW t \in Thread, Call(t) \/ Advance(t) \/ Throw(t)
      PROVE  AskStep(t) \/ SetUpStep(t) \/ ReturnStep(t) \/ FailStep(t)
               \/ Stutter
  <2>1. CASE Call(t) \/ Enter(t) \/ Store(t) \/ Release(t)
    BY <2>1, OnceImplements
  <2>2. CASE WriteRoot(t) \/ MkDir(t) \/ WriteSbox(t)
    BY <2>2, BodyImplements
  <2>3. CASE \/ OpenLock(t) \/ LockRead(t) \/ LockedRead(t) \/ CheckRead(t)
             \/ UnlockRead(t) \/ LockWrite(t) \/ LockedWrite(t)
             \/ CheckWrite(t) \/ Leave(t) \/ Unwind(t) \/ Throw(t)
    <3>1. UNCHANGED done
      BY <2>3 DEF OpenLock, LockRead, LockedRead, UnlockRead, LockWrite,
        LockedWrite, Leave, Unwind, GuardStep, CheckRead, CheckWrite, Check,
        Throw, OpenThrows, WaitThrows, StepThrows
    <3> QED
      BY <2>3, <3>1, InsideImplements
  <2> QED
    BY <1>1, <2>1, <2>2, <2>3 DEF Advance
<1>2. ASSUME NEW t \in Thread, NEW c \in Proc, Clone(t, c) PROVE Stutter
  BY <1>2, CompleteConstant DEF Clone, Stutter, Ready, StatusOf, Status
<1>3. ASSUME NEW p \in Proc, Exit(p)
      PROVE  DieStep({t \in Thread : Owner[t] = p})
  <2>1. Ready' = Ready
    BY <1>3, CompleteConstant DEF Exit, Ready
  <2>2. pc' = [t \in Thread |-> IF Owner[t] = p THEN "dead" ELSE pc[t]]
    BY <1>3 DEF Exit
  <2>3. StatusOf' = [t \in Thread |->
          IF t \in {u \in Thread : Owner[u] = p} THEN "dead" ELSE StatusOf[t]]
    BY <2>2 DEF StatusOf, Status
  <2> QED
    BY <2>1, <2>3 DEF DieStep
<1>4. CASE UNCHANGED vars
  BY <1>4, AbstractSteps, CompleteConstant
  DEF vars, Stutter, Ready, StatusOf, Status
<1> QED
  BY <1>1, <1>2, <1>3, <1>4, AbstractSteps DEF Next

(* The double-checked protocol implements its promise: sbox is set up      *)
(* once, as if in one step, by a caller, and no call returns before.       *)
(* (once.hpp:14-24, container.cpp:16-35, cgroup_controller.cpp:39-62)      *)
THEOREM Implements == ASSUME Uninterrupted PROVE Spec => Promise
<1>1. Init => Abstract!Init
  BY DEF Init, Abstract!Init
<1>2. LockInv /\ Built /\ [Next]_vars => [Abstract!Next]_Abstract!vars
  BY StepImplements
<1> QED
  BY <1>1, <1>2, LockInvariance, BuiltInvariance, PTL
  DEF Spec, Promise, Abstract!Spec
-----------------------------------------------------------------------------
(* Who waits for whom. *)

(* With a guard, and in a lock() that waits.                               *)
Waiting == {"rwait", "xwait"}
Working == {"check1", "unlock", "xlock", "check2", "leave", "unwind"}
             \cup Body
Guarded == {"rlock"} \cup Waiting \cup Working

(* Between the mutex and its release. *)
Inside == {"opening", "store", "release", "rethrow"} \cup Guarded

(* Nobody waits in a circle, whatever is cloned, killed or thrown between   *)
(* the calls: who waits for the Once's mutex waits for a thread that is in *)
(* the action, unless the mutex came with a clone; and who waits in flock()*)
(* waits for a thread that waits for nothing itself, unless a clone keeps  *)
(* the lock.                                                               *)
WaitsEnd ==
  \A t \in Thread :
    /\ pc[t] = "mutex" /\ mutex[Owner[t]] # Nobody =>
         Orphaned(Owner[t]) \/ pc[mutex[Owner[t]]] \in Inside
    /\ pc[t] \in Waiting =>
         \A u \in Thread \ {t} :
           \/ L!Compatible(lock[u], L!Flag(want[t]))
           \/ pc[u] \in Working
           \/ Leaked(u)

(* Only threads of live processes get anywhere; a guard exists where the    *)
(* action has one, and has no lock before and while it waits; the mutex is *)
(* held by a thread of a process that was born.                            *)
Waits ==
  /\ \A t \in Thread :
       /\ pc[t] \notin {"idle", "dead"} => proc[Owner[t]] = "live"
       /\ phase[t] # "absent" => pc[t] \in Guarded
       /\ pc[t] \in {"rlock"} \cup Waiting => lock[t] = "UN"
       /\ pc[t] \in {"check1", "unlock", "xlock"} => lock[t] # "EX"
  /\ \A p \in Proc : mutex[p] # Nobody =>
       /\ proc[Owner[mutex[p]]] # "unborn"
       /\ Owner[mutex[p]] = p /\ proc[p] = "live" => pc[mutex[p]] \in Inside

LEMMA WaitStep ==
  ASSUME LockInv, Waits, NEW t \in Thread, NEW l \in Locations \ {"dead"},
         Goto(t, l), proc' = proc, proc[Owner[t]] = "live",
         \A u \in Thread \ {t} : phase'[u] = phase[u] /\ lock'[u] = lock[u],
         phase'[t] # "absent" => l \in Guarded,
         l \in {"rlock"} \cup Waiting => lock'[t] = "UN",
         l \in {"check1", "unlock", "xlock"} => lock'[t] # "EX",
         \/ mutex' = mutex /\ (pc[t] \in Inside => l \in Inside)
         \/ mutex' = [mutex EXCEPT ![Owner[t]] = Nobody]
         \/ mutex' = [mutex EXCEPT ![Owner[t]] = t] /\ l \in Inside
  PROVE  Waits'
<1>1. /\ pc'[t] = l /\ Owner[t] \in Proc
      /\ \A u \in Thread \ {t} : pc'[u] = pc[u]
      /\ mutex \in [Proc -> Thread \cup {Nobody}]
  BY DEF Goto, LockInv
<1>2. \A u \in Thread :
        /\ pc'[u] \notin {"idle", "dead"} => proc'[Owner[u]] = "live"
        /\ phase'[u] # "absent" => pc'[u] \in Guarded
        /\ pc'[u] \in {"rlock"} \cup Waiting => lock'[u] = "UN"
        /\ pc'[u] \in {"check1", "unlock", "xlock"} => lock'[u] # "EX"
  BY <1>1 DEF Waits
<1>3. ASSUME NEW p \in Proc, mutex'[p] # Nobody
      PROVE  /\ proc'[Owner[mutex'[p]]] # "unborn"
             /\ Owner[mutex'[p]] = p /\ proc'[p] = "live"
                  => pc'[mutex'[p]] \in Inside
  <2>1. CASE mutex'[p] = mutex[p]
    <3>1. mutex[p] \in Thread
      BY <1>1, <1>3, <2>1
    <3>2. Owner[mutex[p]] = p /\ mutex[p] = t /\ pc[t] \in Inside
            => l \in Inside
      BY <1>1, <1>3, <2>1
    <3> QED
      BY <1>1, <1>3, <2>1, <3>1, <3>2 DEF Waits
  <2>2. CASE mutex'[p] = t /\ l \in Inside
    BY <1>1, <2>2
  <2> QED
    BY <1>1, <1>3, <2>1, <2>2
<1> QED
  BY <1>2, <1>3, <1>1 DEF Waits, Inside, Guarded, Waiting, Working, Body

LEMMA LockChanges ==
  ASSUME LockInv, NEW t \in Thread
  PROVE  /\ L!Open(t) \/ L!Unlock(t) \/ L!Destroy(t) \/ L!Locked(t)
              \/ L!LockThrows(t) \/ L!Lock(t, L!RLock) \/ L!Lock(t, L!RWLock)
              => /\ proc' = proc
                 /\ \A u \in Thread \ {t} :
                      phase'[u] = phase[u] /\ lock'[u] = lock[u]
         /\ L!Open(t) => lock'[t] = "UN"
         /\ L!Unlock(t) => lock'[t] \in {lock[t], "UN"}
         /\ L!Destroy(t) => phase'[t] = "absent"
         /\ L!Locked(t) => lock'[t] = L!Flag(want[t])
         /\ L!Lock(t, L!RLock) /\ lock[t] = "UN" => lock'[t] = "UN"
         /\ L!Lock(t, L!RWLock) /\ lock[t] # "EX" => lock'[t] = "UN"
<1>1. /\ phase \in [Thread -> {"absent", "open", "locking"}]
      /\ lock \in [Thread -> {"UN", "SH", "EX"}]
      /\ lock[t] # "UN" => refs[t] # {}
  BY DEF LockInv, F!IInv, F!TypeOK, F!LockIsHeld
<1>2. /\ L!Open(t) \/ L!Unlock(t) \/ L!Destroy(t) \/ L!Locked(t)
           \/ L!LockThrows(t) \/ L!Lock(t, L!RLock) \/ L!Lock(t, L!RWLock)
           => /\ proc' = proc
              /\ \A u \in Thread \ {t} :
                   phase'[u] = phase[u] /\ lock'[u] = lock[u]
  BY <1>1 DEF L!Open, L!Unlock, L!Destroy, L!Locked, L!LockThrows, L!Lock
<1>3. /\ L!Open(t) => lock'[t] = "UN"
      /\ L!Unlock(t) => lock'[t] \in {lock[t], "UN"}
      /\ L!Destroy(t) => phase'[t] = "absent"
      /\ L!Locked(t) => lock'[t] = L!Flag(want[t])
  BY <1>1 DEF L!Open, L!Unlock, L!LockAfterUnlock, L!Destroy, L!Locked
<1>4. L!Flag(L!RLock) = "SH" /\ L!Flag(L!RWLock) = "EX"
  BY DEF L!Flag, L!RLock, L!RWLock
<1>5. \A ty : L!Lock(t, ty) =>
        lock'[t] = IF lock[t] = L!Flag(ty) THEN lock[t] ELSE "UN"
  BY <1>1 DEF L!Lock
<1> QED
  BY <1>2, <1>3, <1>4, <1>5

LEMMA ThreadWaits ==
  ASSUME LockInv, Waits, NEW t \in Thread, Call(t) \/ Advance(t) \/ Throw(t)
  PROVE  Waits'
<1>1. /\ phase[t] # "absent" => pc[t] \in Guarded
      /\ pc[t] \in {"rlock"} \cup Waiting => lock[t] = "UN"
      /\ pc[t] \in {"check1", "unlock", "xlock"} => lock[t] # "EX"
      /\ pc[t] \notin {"idle", "dead"} => proc[Owner[t]] = "live"
  BY DEF Waits
<1>2. CASE Call(t) \/ Enter(t) \/ Store(t) \/ Release(t)
  <2> DEFINE l == pc'[t]
  <2>1. /\ l \in {"returned", "mutex", "opening", "release", "thrown"}
        /\ Goto(t, l) /\ UNCHANGED lockVars
    BY <1>2 DEF Call, Enter, Store, Release, Goto, LockInv
  <2>2. pc[t] \in {"idle", "thrown", "mutex", "store", "release", "rethrow"}
    BY <1>2 DEF Call, Enter, Store, Release
  <2>3. proc[Owner[t]] = "live"
    BY <1>1, <1>2 DEF Call, Enter, Store, Release
  <2>4. phase[t] = "absent"
    BY <1>1, <2>2 DEF Guarded, Waiting, Working, Body
  <2>5. \/ mutex' = mutex /\ (pc[t] \in Inside => l \in Inside)
        \/ mutex' = [mutex EXCEPT ![Owner[t]] = Nobody]
        \/ mutex' = [mutex EXCEPT ![Owner[t]] = t] /\ l \in Inside
    BY <1>2 DEF Call, Enter, Store, Release, Goto, LockInv, Inside, Guarded,
      Waiting, Working, Body
  <2> HIDE DEF l
  <2>6. l \in Locations \ {"dead"} /\ l \notin {"rlock"} \cup Waiting
        /\ l \notin {"check1", "unlock", "xlock"}
    BY <2>1 DEF Locations, Waiting
  <2> QED
    BY <2>1, <2>3, <2>4, <2>5, <2>6, WaitStep DEF lockVars
<1>3. ASSUME NEW l \in Locations \ {"dead"}, Goto(t, l), UNCHANGED lockVars,
             mutex' = mutex,
             l \notin {"rlock", "check1", "xlock"} \cup Waiting,
             pc[t] \in Inside, l \in Inside,
             l = "unlock" => lock[t] # "EX",
             phase[t] # "absent" => l \in Guarded
      PROVE  Waits'
  BY <1>1, <1>3, WaitStep DEF lockVars, Inside, Guarded, Waiting, Working, Body
<1>4. CASE CheckRead(t) \/ CheckWrite(t) \/ WriteRoot(t) \/ MkDir(t)
             \/ WriteSbox(t) \/ OpenThrows(t) \/ StepThrows(t)
  <2> DEFINE l == pc'[t]
  <2>1. /\ Goto(t, l) /\ UNCHANGED lockVars /\ mutex' = mutex
        /\ pc[t] \in {"check1", "check2", "opening"} \cup Body
        /\ l \in {"leave", "unlock", "unwind", "rethrow"} \cup Body
        /\ l = "unlock" => pc[t] = "check1"
        /\ l = "rethrow" => pc[t] = "opening"
    BY <1>4 DEF CheckRead, CheckWrite, Check, WriteRoot, WriteSbox,
      WriteControl, MkDir, OpenThrows, StepThrows, Goto, LockInv, Body
  <2> HIDE DEF l
  <2>2. phase[t] # "absent" => l \in Guarded
    BY <1>1, <2>1 DEF Guarded, Waiting, Working, Body
  <2> QED
    BY <1>1, <1>3, <2>1, <2>2
    DEF Locations, Inside, Guarded, Waiting, Working, Body
<1>5. ASSUME NEW l \in Locations \ {"dead"}, Goto(t, l), mutex' = mutex,
             pc[t] \in Inside, l \in Inside,
             proc' = proc,
             \A u \in Thread \ {t} :
               phase'[u] = phase[u] /\ lock'[u] = lock[u],
             phase'[t] = "absent" \/ l \in Guarded,
             l \in {"rlock"} \cup Waiting => lock'[t] = "UN",
             l \in {"check1", "unlock", "xlock"} => lock'[t] # "EX"
      PROVE  Waits'
  BY <1>1, <1>5, WaitStep DEF Inside, Guarded, Waiting, Working, Body
<1>6. CASE OpenLock(t) \/ LockRead(t) \/ LockedRead(t) \/ UnlockRead(t)
             \/ LockWrite(t) \/ LockedWrite(t) \/ Leave(t) \/ Unwind(t)
             \/ WaitThrows(t)
  <2>1. mutex' = mutex
    BY <1>6 DEF OpenLock, LockRead, LockedRead, UnlockRead, LockWrite,
      LockedWrite, Leave, Unwind, WaitThrows, GuardStep
  <2>2. CASE OpenLock(t)
    BY <1>5, <2>1, <2>2, LockChanges DEF OpenLock, GuardStep, Locations,
      Inside, Guarded, Waiting, Working, Body
  <2>3. CASE LockRead(t) \/ LockWrite(t)
    BY <1>1, <1>5, <2>1, <2>3, LockChanges DEF LockRead, LockWrite, GuardStep,
      Locations, Inside, Guarded, Waiting, Working, Body
  <2>4. CASE LockedRead(t)
    <3>1. L!Flag(want[t]) = "SH"
      BY <2>4, LockTypes DEF LockedRead, GuardStep, LockInv, Granted, L!Flag
    <3> QED
      BY <1>5, <2>1, <2>4, <3>1, LockChanges DEF LockedRead, GuardStep,
        Locations, Inside, Guarded, Waiting, Working, Body
  <2>5. CASE LockedWrite(t)
    BY <1>5, <2>1, <2>5, LockChanges DEF LockedWrite, GuardStep, Locations,
      Inside, Guarded, Waiting, Working, Body
  <2>6. CASE UnlockRead(t)
    BY <1>1, <1>5, <2>1, <2>6, LockChanges DEF UnlockRead, GuardStep,
      Locations, Inside, Guarded, Waiting, Working, Body
  <2>7. CASE Leave(t) \/ Unwind(t)
    BY <1>5, <2>1, <2>7, LockChanges DEF Leave, Unwind, GuardStep, Locations,
      Inside, Guarded, Waiting, Working, Body
  <2>8. CASE WaitThrows(t)
    BY <1>5, <2>1, <2>8, LockChanges DEF WaitThrows, Locations, Inside,
      Guarded, Waiting, Working, Body
  <2> QED
    BY <1>6, <2>2, <2>3, <2>4, <2>5, <2>6, <2>7, <2>8
<1> QED
  BY <1>2, <1>4, <1>6 DEF Advance, Throw

LEMMA ProcessWaits ==
  ASSUME LockInv, Waits,
         \/ \E t \in Thread, c \in Proc : Clone(t, c)
         \/ \E p \in Proc : Exit(p)
  PROVE  Waits'
<1>1. /\ mutex \in [Proc -> Thread \cup {Nobody}]
      /\ proc \in [Proc -> {"unborn", "live", "dead"}]
  BY DEF LockInv, F!IInv, F!TypeOK
<1>2. ASSUME NEW t \in Thread, NEW c \in Proc, Clone(t, c) PROVE Waits'
  <2>1. /\ UNCHANGED <<phase, lock, pc>>
        /\ proc[Owner[t]] = "live" /\ proc[c] = "unborn"
        /\ proc' = [proc EXCEPT ![c] = "live"]
        /\ mutex' = [mutex EXCEPT ![c] = mutex[Owner[t]]]
        /\ Owner[t] \in Proc
    BY <1>2 DEF Clone, L!Clone
  <2>2. \A u \in Thread :
          pc'[u] \notin {"idle", "dead"} => proc'[Owner[u]] = "live"
    BY <1>1, <2>1 DEF Waits
  <2>3. ASSUME NEW p \in Proc, mutex'[p] # Nobody
        PROVE  /\ proc'[Owner[mutex'[p]]] # "unborn"
               /\ Owner[mutex'[p]] = p /\ proc'[p] = "live"
                    => pc'[mutex'[p]] \in Inside
    <3>1. CASE p = c
      <4>1. mutex'[p] = mutex[Owner[t]] /\ proc[Owner[mutex'[p]]] # "unborn"
            /\ mutex'[p] \in Thread
        BY <1>1, <2>1, <2>3, <3>1 DEF Waits
      <4> QED
        BY <1>1, <2>1, <3>1, <4>1
    <3>2. CASE p # c
      <4>1. mutex'[p] = mutex[p] /\ proc'[p] = proc[p] /\ mutex[p] \in Thread
        BY <1>1, <2>1, <2>3, <3>2
      <4> QED
        BY <1>1, <2>1, <2>3, <4>1 DEF Waits
    <3> QED
      BY <3>1, <3>2
  <2> QED
    BY <2>1, <2>2, <2>3 DEF Waits, Inside, Guarded, Waiting, Working, Body
<1>3. ASSUME NEW q \in Proc, Exit(q) PROVE Waits'
  <2>1. /\ mutex' = mutex /\ proc[q] = "live"
        /\ proc' = [proc EXCEPT ![q] = "dead"]
        /\ \A u \in Thread :
             IF Owner[u] = q
               THEN pc'[u] = "dead" /\ phase'[u] = "absent"
               ELSE /\ pc'[u] = pc[u] /\ phase'[u] = phase[u]
                    /\ lock'[u] \in {"UN", lock[u]}
    BY <1>3 DEF Exit, L!Exit
  <2>2. \A u \in Thread :
          /\ pc'[u] \notin {"idle", "dead"} => proc'[Owner[u]] = "live"
          /\ phase'[u] # "absent" => pc'[u] \in Guarded
          /\ pc'[u] \in {"rlock"} \cup Waiting => lock'[u] = "UN"
          /\ pc'[u] \in {"check1", "unlock", "xlock"} => lock'[u] # "EX"
    BY <1>1, <2>1 DEF Waits, Waiting
  <2>3. ASSUME NEW p \in Proc, mutex'[p] # Nobody
        PROVE  /\ proc'[Owner[mutex'[p]]] # "unborn"
               /\ Owner[mutex'[p]] = p /\ proc'[p] = "live"
                    => pc'[mutex'[p]] \in Inside
    <3>1. mutex[p] \in Thread /\ mutex'[p] = mutex[p]
          /\ Owner[mutex[p]] \in Proc
      BY <1>1, <2>1, <2>3
    <3>2. proc'[p] = "live" => p # q /\ proc[p] = "live"
      BY <1>1, <2>1
    <3> QED
      BY <1>1, <2>1, <2>3, <3>1, <3>2 DEF Waits
  <2> QED
    BY <2>2, <2>3 DEF Waits, Inside, Guarded, Waiting, Working, Body
<1> QED
  BY <1>2, <1>3

(* Threads that call the initialisation, of any number of processes, never  *)
(* wait for each other in a circle (once.hpp:15-24, container.cpp:16-35,   *)
(* cgroup_controller.cpp:39-62): what Progress needs of safety.            *)
THEOREM NoCircle == Spec => []WaitsEnd
<1>1. Init => Waits
  BY DEF Init, L!Init, Waits, Inside, Guarded, Waiting, Working, Body
<1>2. LockInv /\ Waits /\ [Next]_vars => Waits'
  <2> SUFFICES ASSUME LockInv, Waits, [Next]_vars PROVE Waits'
    OBVIOUS
  <2>1. CASE UNCHANGED vars
    BY <2>1 DEF vars, lockVars, Waits, Inside, Guarded, Waiting, Working, Body
  <2>2. CASE Next
    BY <2>2, ThreadWaits, ProcessWaits DEF Next
  <2> QED
    BY <2>1, <2>2
<1>3. LockInv /\ Waits => WaitsEnd
  <2> SUFFICES ASSUME LockInv, Waits, NEW t \in Thread
               PROVE  /\ pc[t] = "mutex" /\ mutex[Owner[t]] # Nobody =>
                           \/ Orphaned(Owner[t])
                           \/ pc[mutex[Owner[t]]] \in Inside
                      /\ pc[t] \in Waiting =>
                           \A u \in Thread \ {t} :
                             \/ L!Compatible(lock[u], L!Flag(want[t]))
                             \/ pc[u] \in Working
                             \/ Leaked(u)
    BY DEF WaitsEnd
  <2>1. Owner[t] \in Proc
    OBVIOUS
  <2>2. ASSUME pc[t] = "mutex", mutex[Owner[t]] # Nobody,
               ~ Orphaned(Owner[t])
        PROVE  pc[mutex[Owner[t]]] \in Inside
    BY <2>1, <2>2 DEF Waits, Orphaned
  <2>3. ASSUME NEW u \in Thread, pc[u] \notin Working, ~ Leaked(u)
        PROVE  L!Compatible(lock[u], L!Flag(want[t]))
    <3>1. lock[u] = "UN"
      BY <2>3 DEF Waits, Guarded, Leaked
    <3> QED
      BY <3>1 DEF L!Compatible
  <2> QED
    BY <2>2, <2>3
<1> QED
  BY <1>1, <1>2, <1>3, LockInvariance, PTL DEF Spec
=============================================================================
