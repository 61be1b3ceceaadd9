--------------------------- MODULE FileLockProofs ---------------------------
(***************************************************************************)
(* Proofs of the safety of FileLock for any processes, clones and guards.  *)
(*                                                                         *)
(* WriterExcludes speaks of what lock() gave its callers, which the code   *)
(* does not store.  The induction needs what ties that promise to the      *)
(* kernel: the promise is backed by the description's lock, a lock is kept *)
(* by a descriptor, descriptors belong to live processes, and the locks of *)
(* the descriptions are pairwise compatible.                               *)
(***************************************************************************)
EXTENDS FileLock, TLAPS

HoldersLive == \A g \in Guard : \A p \in refs[g] : proc[p] = "live"

OwnerHolds == \A g \in Guard : phase[g] # "absent" => Owner[g] \in refs[g]

LockIsHeld == \A g \in Guard : lock[g] # "UN" => refs[g] # {}

LocksCompatible ==
  \A g, h \in Guard : g # h => Compatible(lock[g], lock[h])

GrantIsOpen == \A g \in Guard : granted[g] # "none" => phase[g] = "open"

(* unlock() sees a write lock in current_state_; a read lock it cannot.    *)
WriterIsRecorded ==
  \A g \in Guard : granted[g] = "write" => current[g] = State.RWLock

IInv ==
  /\ TypeOK
  /\ HoldersLive
  /\ OwnerHolds
  /\ LockIsHeld
  /\ LocksCompatible
  /\ GrantIsOpen
  /\ GrantBacked
  /\ WriterIsRecorded

USE OwnerAssumption

(* The states of flock.hpp:18-22, evaluated: two of them are equal. *)
LEMMA StateValues ==
  State.RLock = 0 /\ State.RWLock = 1 /\ State.Unlocked = 0
BY DEF State, RLock, RWLock, Unlocked

LEMMA InitIInv == Init => IInv
BY StateValues DEF Init, IInv, TypeOK, HoldersLive, OwnerHolds, LockIsHeld,
  LocksCompatible, Compatible, GrantIsOpen, GrantBacked, WriterIsRecorded,
  LockType, RLock
-----------------------------------------------------------------------------
(* Each operation of a guard, and each step of a process, keeps IInv. *)

LEMMA OpenKeeps ==
  ASSUME IInv, NEW g \in Guard, Open(g) PROVE IInv'
<1>1. TypeOK'
  BY DEF IInv, Open, TypeOK
<1>2. HoldersLive' /\ OwnerHolds' /\ LockIsHeld'
  BY DEF IInv, Open, TypeOK, HoldersLive, OwnerHolds, LockIsHeld
<1>3. LocksCompatible' /\ GrantIsOpen' /\ GrantBacked' /\ WriterIsRecorded'
  BY DEF IInv, Open, TypeOK, LocksCompatible, GrantIsOpen, GrantBacked,
    WriterIsRecorded
<1> QED
  BY <1>1, <1>2, <1>3 DEF IInv

LEMMA LockKeeps ==
  ASSUME IInv, NEW g \in Guard, NEW t \in LockType, Lock(g, t) PROVE IInv'
<1>1. lock'[g] \in {"UN", lock[g]} /\ \A h \in Guard \ {g} : lock'[h] = lock[h]
  BY DEF IInv, TypeOK, Lock
<1>2. TypeOK'
  BY <1>1 DEF IInv, TypeOK, Lock
<1>3. HoldersLive' /\ OwnerHolds'
  BY DEF IInv, TypeOK, Lock, HoldersLive, OwnerHolds
<1>4. LockIsHeld' /\ LocksCompatible'
  BY <1>1 DEF IInv, Lock, LockIsHeld, LocksCompatible, Compatible
<1>5. GrantIsOpen' /\ GrantBacked' /\ WriterIsRecorded'
  BY <1>1 DEF IInv, TypeOK, Lock, GrantIsOpen, GrantBacked, WriterIsRecorded
<1> QED
  BY <1>2, <1>3, <1>4, <1>5 DEF IInv

LEMMA LockedKeeps ==
  ASSUME IInv, NEW g \in Guard, Locked(g) PROVE IInv'
<1>1. want[g] \in {0, 1}
  BY DEF IInv, TypeOK, LockType, RLock, RWLock
<1>2. Flag(want[g]) \in {"SH", "EX"} /\ toState(want[g]) \in {0, 1}
  BY <1>1, StateValues DEF Flag, toState
<1>3. TypeOK'
  <2>1. current' \in [Guard -> {State.RLock, State.RWLock, State.Unlocked}]
    BY <1>2, StateValues DEF IInv, TypeOK, Locked
  <2>2. Promise(want[g]) \in {"read", "write"}
    BY DEF Promise
  <2> QED
    BY <1>2, <2>1, <2>2 DEF IInv, TypeOK, Locked
<1>4. LocksCompatible'
  <2>1. \A h \in Guard \ {g} :
          lock'[h] = lock[h] /\ Compatible(lock[h], lock'[g])
    BY DEF IInv, TypeOK, Locked
  <2>2. \A h \in Guard \ {g} : Compatible(lock'[g], lock[h])
    BY <2>1 DEF Compatible
  <2> QED
    BY <2>1, <2>2 DEF IInv, LocksCompatible
<1>5. GrantBacked' /\ WriterIsRecorded'
  BY <1>1, StateValues DEF IInv, TypeOK, Locked, GrantBacked,
    WriterIsRecorded, Promise, Flag, toState, RLock
<1>6. LockIsHeld'
  BY DEF IInv, TypeOK, Locked, LockIsHeld, OwnerHolds
<1>7. HoldersLive' /\ OwnerHolds' /\ GrantIsOpen'
  BY DEF IInv, TypeOK, Locked, HoldersLive, OwnerHolds, GrantIsOpen
<1> QED
  BY <1>3, <1>4, <1>5, <1>6, <1>7 DEF IInv

LEMMA LockThrowsKeeps ==
  ASSUME IInv, NEW g \in Guard, LockThrows(g) PROVE IInv'
BY StateValues DEF IInv, LockThrows, TypeOK, HoldersLive, OwnerHolds,
  LockIsHeld, LocksCompatible, Compatible, GrantIsOpen, GrantBacked,
  WriterIsRecorded

LEMMA UnlockKeeps ==
  ASSUME IInv, NEW g \in Guard, Unlock(g) PROVE IInv'
<1>1. lock'[g] \in {"UN", lock[g]} /\ \A h \in Guard \ {g} : lock'[h] = lock[h]
  <2>1. LockAfterUnlock(g) \in {"UN", lock[g]}
    BY DEF LockAfterUnlock
  <2> QED
    BY <2>1 DEF IInv, TypeOK, Unlock
<1>2. TypeOK'
  BY <1>1 DEF IInv, TypeOK, Unlock
<1>3. HoldersLive' /\ OwnerHolds' /\ GrantIsOpen'
  BY DEF IInv, TypeOK, Unlock, HoldersLive, OwnerHolds, GrantIsOpen
<1>4. LockIsHeld' /\ LocksCompatible'
  BY <1>1 DEF IInv, Unlock, LockIsHeld, LocksCompatible, Compatible
<1>5. GrantBacked' /\ WriterIsRecorded'
  BY <1>1 DEF IInv, TypeOK, Unlock, GrantBacked, WriterIsRecorded
<1> QED
  BY <1>2, <1>3, <1>4, <1>5 DEF IInv

LEMMA DestroyKeeps ==
  ASSUME IInv, NEW g \in Guard, Destroy(g) PROVE IInv'
<1>1. lock'[g] \in {"UN", lock[g]} /\ \A h \in Guard \ {g} : lock'[h] = lock[h]
  <2>1. LockAfterUnlock(g) \in {"UN", lock[g]}
    BY DEF LockAfterUnlock
  <2> QED
    BY <2>1 DEF IInv, TypeOK, Destroy
<1>2. TypeOK'
  BY <1>1, StateValues DEF IInv, TypeOK, Destroy, LockAfterUnlock
<1>3. LocksCompatible'
  BY <1>1 DEF IInv, LocksCompatible, Compatible
<1>4. LockIsHeld'
  BY DEF IInv, TypeOK, Destroy, LockIsHeld
<1>5. HoldersLive' /\ OwnerHolds' /\ GrantIsOpen'
  BY DEF IInv, TypeOK, Destroy, HoldersLive, OwnerHolds, GrantIsOpen
<1>6. GrantBacked' /\ WriterIsRecorded'
  BY <1>1 DEF IInv, TypeOK, Destroy, GrantBacked, WriterIsRecorded
<1> QED
  BY <1>2, <1>3, <1>4, <1>5, <1>6 DEF IInv

LEMMA CloneKeeps ==
  ASSUME IInv, NEW p \in Proc, NEW c \in Proc, Clone(p, c) PROVE IInv'
<1>1. TypeOK'
  BY DEF IInv, TypeOK, Clone
<1>2. HoldersLive' /\ OwnerHolds' /\ LockIsHeld'
  BY DEF IInv, TypeOK, Clone, HoldersLive, OwnerHolds, LockIsHeld
<1>3. LocksCompatible' /\ GrantIsOpen' /\ GrantBacked' /\ WriterIsRecorded'
  BY DEF IInv, Clone, LocksCompatible, GrantIsOpen, GrantBacked,
    WriterIsRecorded
<1> QED
  BY <1>1, <1>2, <1>3 DEF IInv

(* A death closes the dead process's descriptors.  A granted lock survives *)
(* another process's death because its owner still has a descriptor.       *)
LEMMA ExitKeeps ==
  ASSUME IInv, NEW p \in Proc, Exit(p) PROVE IInv'
<1>1. \A g \in Guard : lock'[g] = IF refs'[g] = {} THEN "UN" ELSE lock[g]
  BY DEF Exit
<1>2. TypeOK'
  BY StateValues DEF IInv, TypeOK, Exit
<1>3. HoldersLive' /\ OwnerHolds'
  BY DEF IInv, TypeOK, Exit, HoldersLive, OwnerHolds
<1>4. LockIsHeld'
  BY <1>1 DEF LockIsHeld
<1>5. LocksCompatible'
  BY <1>1 DEF IInv, LocksCompatible, Compatible
<1>6. GrantIsOpen' /\ WriterIsRecorded'
  BY DEF IInv, Exit, GrantIsOpen, WriterIsRecorded
<1>7. GrantBacked'
  <2>1. ASSUME NEW g \in Guard, granted'[g] # "none"
        PROVE  lock'[g] = lock[g] /\ granted'[g] = granted[g]
    <3>1. Owner[g] # p /\ granted'[g] = granted[g]
      BY <2>1 DEF Exit
    <3>2. Owner[g] \in refs'[g]
      BY <2>1, <3>1 DEF IInv, GrantIsOpen, OwnerHolds, Exit
    <3> QED
      BY <1>1, <3>1, <3>2
  <2> QED
    BY <2>1 DEF IInv, GrantBacked
<1> QED
  BY <1>2, <1>3, <1>4, <1>5, <1>6, <1>7 DEF IInv

LEMMA NextKeeps ==
  ASSUME IInv, [Next]_vars PROVE IInv'
<1>1. ASSUME NEW g \in Guard, GuardNext(g) PROVE IInv'
  <2>1. Owner[g] \in Proc
    OBVIOUS
  <2> QED
    BY <1>1, <2>1, OpenKeeps, LockKeeps, LockedKeeps, LockThrowsKeeps,
      UnlockKeeps, DestroyKeeps, ExitKeeps DEF GuardNext, LockAborts
<1>2. ASSUME NEW p \in Proc, ProcNext(p) PROVE IInv'
  BY <1>2, CloneKeeps, ExitKeeps DEF ProcNext
<1>3. CASE UNCHANGED vars
  BY <1>3 DEF vars, IInv, TypeOK, HoldersLive, OwnerHolds, LockIsHeld,
    LocksCompatible, GrantIsOpen, GrantBacked, WriterIsRecorded
<1> QED
  BY <1>1, <1>2, <1>3 DEF Next

LEMMA Invariance == Spec => []IInv
BY InitIInv, NextKeeps, PTL DEF Spec
-----------------------------------------------------------------------------
(* The properties of FileLock. *)

(* Every variable of the lock model keeps its type.  (flock.hpp:28-79)     *)
THEOREM TypeCorrect == Spec => []TypeOK
<1>1. IInv => TypeOK
  BY DEF IInv
<1> QED
  BY <1>1, Invariance, PTL

(* lock() never returns to a caller while another caller has the write     *)
(* lock, whoever cloned, died or was interrupted.  (flock.hpp:33-46)       *)
THEOREM WriterExclusion == Spec => []WriterExcludes
<1>1. IInv => WriterExcludes
  <2> SUFFICES ASSUME IInv, NEW g \in Guard, NEW h \in Guard,
                      g # h, granted[g] = "write"
               PROVE  granted[h] = "none"
    BY DEF WriterExcludes
  <2>1. lock[g] = "EX" /\ Compatible(lock[g], lock[h])
    BY DEF IInv, GrantBacked, LocksCompatible
  <2>2. lock[h] \notin {"SH", "EX"}
    BY <2>1 DEF Compatible
  <2> QED
    BY <2>2 DEF IInv, GrantBacked, TypeOK
<1> QED
  BY <1>1, Invariance, PTL

(* A promise of lock() stays backed by the kernel until the caller gives   *)
(* it up: a clone's exit cannot drop it.  (flock.hpp:36-45)                *)
THEOREM GrantsBacked == Spec => []GrantBacked
<1>1. IInv => GrantBacked
  BY DEF IInv
<1> QED
  BY <1>1, Invariance, PTL

(* unlock() lets go of every write lock, since a guard that has one has it *)
(* recorded; only a death leaves it to clones.  (flock.hpp:44-58, 62)      *)
THEOREM NoStaleWriteLock == Spec => []WriteLockIsGranted
<1>1. Init => WriteLockIsGranted
  BY DEF Init, WriteLockIsGranted
<1>2. ASSUME IInv, WriteLockIsGranted, [Next]_vars PROVE WriteLockIsGranted'
  <2> DEFINE Fine(g) ==
        lock[g] = "EX" => granted[g] = "write" \/ proc[Owner[g]] = "dead"
  <2>1. ASSUME NEW g \in Guard, proc' = proc,
               \A h \in Guard \ {g} :
                 lock'[h] = lock[h] /\ granted'[h] = granted[h],
               Fine(g)'
        PROVE  WriteLockIsGranted'
    BY <1>2, <2>1 DEF WriteLockIsGranted
  <2>2. ASSUME NEW g \in Guard, phase[g] # "absent", lock[g] = "EX"
        PROVE  granted[g] = "write" /\ current[g] = State.RWLock
    <3>1. proc[Owner[g]] = "live"
      BY <1>2, <2>2 DEF IInv, OwnerHolds, HoldersLive
    <3> QED
      BY <1>2, <2>2, <3>1 DEF WriteLockIsGranted, IInv, WriterIsRecorded
  <2>3. ASSUME NEW g \in Guard, Open(g) PROVE WriteLockIsGranted'
    BY <1>2, <2>3 DEF Open, WriteLockIsGranted
  <2>4. ASSUME NEW g \in Guard, NEW t \in LockType, Lock(g, t)
        PROVE  WriteLockIsGranted'
    <3>1. lock[g] # "EX"
      BY <2>2, <2>4, StateValues DEF Lock
    <3> QED
      BY <1>2, <2>1, <2>4, <3>1 DEF Lock, IInv, TypeOK
  <2>5. ASSUME NEW g \in Guard, Locked(g) PROVE WriteLockIsGranted'
    BY <1>2, <2>1, <2>5 DEF Locked, Flag, Promise, IInv, TypeOK
  <2>6. ASSUME NEW g \in Guard, LockThrows(g) PROVE WriteLockIsGranted'
    BY <1>2, <2>6 DEF LockThrows, WriteLockIsGranted
  <2>7. ASSUME NEW g \in Guard, Unlock(g) \/ Destroy(g)
        PROVE  WriteLockIsGranted'
    <3>1. LockAfterUnlock(g) # "EX"
      BY <2>2, <2>7, StateValues DEF Unlock, Destroy, LockAfterUnlock
    <3> QED
      BY <1>2, <2>1, <2>7, <3>1 DEF Unlock, Destroy, IInv, TypeOK
  <2>8. ASSUME NEW p \in Proc, Exit(p) PROVE WriteLockIsGranted'
    BY <1>2, <2>8 DEF Exit, WriteLockIsGranted, IInv, TypeOK
  <2>9. ASSUME NEW p \in Proc, ProcNext(p) PROVE WriteLockIsGranted'
    BY <1>2, <2>8, <2>9 DEF ProcNext, Clone, WriteLockIsGranted, IInv, TypeOK
  <2>10. ASSUME NEW g \in Guard, GuardNext(g) PROVE WriteLockIsGranted'
    <3>1. Owner[g] \in Proc
      OBVIOUS
    <3> QED
      BY <2>3, <2>4, <2>5, <2>6, <2>7, <2>8, <2>10, <3>1
        DEF GuardNext, LockAborts
  <2>11. CASE UNCHANGED vars
    BY <1>2, <2>11 DEF vars, WriteLockIsGranted
  <2> QED
    BY <1>2, <2>9, <2>10, <2>11 DEF Next
<1> QED
  BY <1>1, <1>2, Invariance, PTL DEF Spec

(* Destroying a guard with the write lock releases the lock although       *)
(* clones keep its description open.  (flock.hpp:55-58)                    *)
THEOREM WriterReleases == Spec => DestroyedWriterReleases
<1> DEFINE Releases(g) ==
      granted[g] = "write" /\ phase'[g] = "absent" /\ proc' = proc
        => lock'[g] = "UN"
<1>1. ASSUME IInv, [Next]_vars, NEW g \in Guard PROVE Releases(g)
  <2> SUFFICES ASSUME granted[g] = "write", phase'[g] = "absent", proc' = proc
               PROVE  lock'[g] = "UN"
    OBVIOUS
  <2>1. phase[g] = "open" /\ current[g] = State.RWLock
    BY <1>1 DEF IInv, GrantIsOpen, WriterIsRecorded
  <2>2. ASSUME NEW p \in Proc, Exit(p) PROVE FALSE
    BY <1>1, <2>2 DEF Exit, IInv, TypeOK
  <2>3. ASSUME NEW h \in Guard, GuardNext(h) PROVE h = g /\ Destroy(h)
    <3>1. ~LockAborts(h)
      BY <2>2 DEF LockAborts
    <3> QED
      BY <1>1, <2>1, <2>3, <3>1 DEF GuardNext, Open, Lock, Locked, LockThrows,
        Unlock, Destroy, IInv, TypeOK
  <2>4. ASSUME NEW p \in Proc, ProcNext(p) PROVE FALSE
    BY <2>1, <2>2, <2>4 DEF ProcNext, Clone
  <2>5. ~UNCHANGED vars
    BY <2>1 DEF vars
  <2>6. Destroy(g)
    BY <1>1, <2>3, <2>4, <2>5 DEF Next
  <2> QED
    BY <1>1, <2>1, <2>6, StateValues DEF Destroy, LockAfterUnlock, IInv, TypeOK
<1>2. IInv /\ [Next]_vars =>
        [\A g \in Guard : granted[g] = "write" /\ phase'[g] = "absent"
             /\ proc' = proc => lock'[g] = "UN"]_vars
  BY <1>1
<1> QED
  BY <1>2, Invariance, PTL DEF Spec, DestroyedWriterReleases
=============================================================================
