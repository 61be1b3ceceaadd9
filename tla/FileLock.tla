------------------------------ MODULE FileLock ------------------------------
(***************************************************************************)
(* sex::util::FileLockGuard (sex/util/flock.hpp) over the kernel's flock.  *)
(*                                                                         *)
(* All guards of the model lock the same path.  Every guard opens the path *)
(* itself, so a guard stands for its own open file description, and flock  *)
(* locks belong to open file descriptions, not to processes: a process     *)
(* cloned by Execute inherits a descriptor of every description its parent *)
(* has open (open() is called without O_CLOEXEC, so exec keeps it too),    *)
(* and a description is released only when its last descriptor is closed.  *)
(***************************************************************************)
EXTENDS Naturals

CONSTANTS Proc,     \* processes
          Root,     \* those that run from the start; the others are clones
          Guard,    \* guard objects, hence open file descriptions
          Owner     \* the process each guard lives in

ASSUME OwnerAssumption == Root \subseteq Proc /\ Owner \in [Guard -> Proc]

VARIABLES
  proc,      \* life of each process
  phase,     \* life of each guard: absent, open, or blocked inside flock()
  current,   \* current_state_
  want,      \* argument of the lock() call that is under way
  lock,      \* kernel: the lock of the guard's open file description
  refs,      \* kernel: the processes with a descriptor of that description
  granted    \* history: what the last lock() gave its caller; nothing reads it

vars == <<proc, phase, current, want, lock, refs, granted>>

-----------------------------------------------------------------------------
(* The enumerations.  State takes its values from two unscoped enums, each *)
(* of which starts at zero.                                                *)

RLock == 0
RWLock == 1
LockType == {RLock, RWLock}
Unlocked == 0

State == [RLock |-> RLock, RWLock |-> RWLock, Unlocked |-> Unlocked]

(* Mutant: the states shifted past the lock types. *)
toStateShifted(t) == t + 1

toState(t) == IF t = RLock THEN State.RLock ELSE State.RWLock

(* Mutants: a lock that is never exclusive; the two flags exchanged. *)
FlagShared(t) == "SH"
FlagSwapped(t) == IF t = RLock THEN "EX" ELSE "SH"

Flag(t) == IF t = RLock THEN "SH" ELSE "EX"

Promise(t) == IF t = RLock THEN "read" ELSE "write"

(* Two descriptions may hold these locks together. *)
Compatible(a, b) == "UN" \in {a, b} \/ {a, b} = {"SH"}

Init ==
  /\ proc = [p \in Proc |-> IF p \in Root THEN "live" ELSE "unborn"]
  /\ phase = [g \in Guard |-> "absent"]
  /\ current = [g \in Guard |-> State.Unlocked]
  /\ want = [g \in Guard |-> RLock]
  /\ lock = [g \in Guard |-> "UN"]
  /\ refs = [g \in Guard |-> {}]
  /\ granted = [g \in Guard |-> "none"]

-----------------------------------------------------------------------------
(* The guard's operations. *)

(* FileLockGuard(path): a new description.  A guard's slot is reused once   *)
(* its previous one is not locked: clones that still have a descriptor of  *)
(* that never lock it again.                                               *)
Open(g) ==
  /\ phase[g] = "absent"
  /\ proc[Owner[g]] = "live"
  /\ lock[g] = "UN"
  /\ phase' = [phase EXCEPT ![g] = "open"]
  /\ current' = [current EXCEPT ![g] = State.Unlocked]
  /\ refs' = [refs EXCEPT ![g] = {Owner[g]}]
  /\ UNCHANGED <<proc, want, lock, granted>>

(* lock(t) past its assertion, entering flock().  The kernel drops a lock   *)
(* of another kind before it looks for conflicts, and keeps one of the     *)
(* same kind.                                                              *)
Lock(g, t) ==
  /\ phase[g] = "open"
  /\ current[g] = State.Unlocked
  /\ phase' = [phase EXCEPT ![g] = "locking"]
  /\ want' = [want EXCEPT ![g] = t]
  /\ lock' = [lock EXCEPT ![g] = IF @ = Flag(t) THEN @ ELSE "UN"]
  /\ granted' = [granted EXCEPT ![g] = "none"]
  /\ UNCHANGED <<proc, current, refs>>

(* flock() succeeds: lock() records the state and returns. *)
Locked(g) ==
  /\ phase[g] = "locking"
  /\ \A h \in Guard \ {g} : Compatible(lock[h], Flag(want[g]))
  /\ phase' = [phase EXCEPT ![g] = "open"]
  /\ lock' = [lock EXCEPT ![g] = Flag(want[g])]
  /\ current' = [current EXCEPT ![g] = toState(want[g])]
  /\ granted' = [granted EXCEPT ![g] = Promise(want[g])]
  /\ UNCHANGED <<proc, want, refs>>

(* A wait in flock() is interrupted: ensure() throws, the state stays. *)
LockThrows(g) ==
  /\ phase[g] = "locking"
  /\ lock[g] = "UN"
  /\ phase' = [phase EXCEPT ![g] = "open"]
  /\ UNCHANGED <<proc, current, want, lock, refs, granted>>

(* Mutant: unlock() only records, and leaves the lock to the close. *)
LockAfterUnlockKept(g) == lock[g]

(* What unlock() leaves of the lock: its early return compares states. *)
LockAfterUnlock(g) == IF current[g] = State.Unlocked THEN lock[g] ELSE "UN"

Unlock(g) ==
  /\ phase[g] = "open"
  /\ lock' = [lock EXCEPT ![g] = LockAfterUnlock(g)]
  /\ current' = [current EXCEPT ![g] = State.Unlocked]
  /\ granted' = [granted EXCEPT ![g] = "none"]
  /\ UNCHANGED <<proc, phase, want, refs>>

(* Mutant: the destructor that its comment says would do. *)
DestroyCloses(g) ==
  /\ phase[g] = "open"
  /\ phase' = [phase EXCEPT ![g] = "absent"]
  /\ refs' = [refs EXCEPT ![g] = @ \ {Owner[g]}]
  /\ lock' = [lock EXCEPT ![g] = IF refs'[g] = {} THEN "UN" ELSE @]
  /\ current' = [current EXCEPT ![g] = State.Unlocked]
  /\ granted' = [granted EXCEPT ![g] = "none"]
  /\ UNCHANGED <<proc, want>>

(* ~FileLockGuard: unlock(), then ~FdHolder closes the descriptor. *)
Destroy(g) ==
  /\ phase[g] = "open"
  /\ phase' = [phase EXCEPT ![g] = "absent"]
  /\ refs' = [refs EXCEPT ![g] = @ \ {Owner[g]}]
  /\ lock' = [lock EXCEPT
       ![g] = IF refs'[g] = {} THEN "UN" ELSE LockAfterUnlock(g)]
  /\ current' = [current EXCEPT ![g] = State.Unlocked]
  /\ granted' = [granted EXCEPT ![g] = "none"]
  /\ UNCHANGED <<proc, want>>

-----------------------------------------------------------------------------
(* Processes. *)

(* clone3 without CLONE_FILES copies the descriptor table.  The child's     *)
(* copies of the guards are never used: its routine has guards of its own. *)
Clone(p, c) ==
  /\ proc[p] = "live"
  /\ proc[c] = "unborn"
  /\ proc' = [proc EXCEPT ![c] = "live"]
  /\ refs' = [g \in Guard |->
       IF p \in refs[g] THEN refs[g] \cup {c} ELSE refs[g]]
  /\ UNCHANGED <<phase, current, want, lock, granted>>

(* A process ends, by _exit or by a signal, wherever its threads are: no    *)
(* destructor runs and the kernel closes its descriptors.                  *)
Exit(p) ==
  LET own(g) == Owner[g] = p
  IN  /\ proc[p] = "live"
      /\ proc' = [proc EXCEPT ![p] = "dead"]
      /\ phase' = [g \in Guard |-> IF own(g) THEN "absent" ELSE phase[g]]
      /\ current' = [g \in Guard |->
           IF own(g) THEN State.Unlocked ELSE current[g]]
      /\ granted' = [g \in Guard |-> IF own(g) THEN "none" ELSE granted[g]]
      /\ refs' = [g \in Guard |-> refs[g] \ {p}]
      /\ lock' = [g \in Guard |-> IF refs'[g] = {} THEN "UN" ELSE lock[g]]
      /\ UNCHANGED want

(* assert(current_state_ == State::Unlocked) fails in lock(): abort(). *)
LockAborts(g) ==
  /\ phase[g] = "open"
  /\ current[g] # State.Unlocked
  /\ Exit(Owner[g])

-----------------------------------------------------------------------------
GuardNext(g) ==
  \/ Open(g)
  \/ \E t \in LockType : Lock(g, t)
  \/ Locked(g)
  \/ LockThrows(g)
  \/ Unlock(g)
  \/ Destroy(g)
  \/ LockAborts(g)

ProcNext(p) == Exit(p) \/ \E c \in Proc : Clone(p, c)

Next == (\E g \in Guard : GuardNext(g)) \/ (\E p \in Proc : ProcNext(p))

Spec == Init /\ [][Next]_vars
-----------------------------------------------------------------------------
(* Properties. *)

TypeOK ==
  /\ proc \in [Proc -> {"unborn", "live", "dead"}]
  /\ phase \in [Guard -> {"absent", "open", "locking"}]
  /\ current \in [Guard -> {State.RLock, State.RWLock, State.Unlocked}]
  /\ want \in [Guard -> LockType]
  /\ lock \in [Guard -> {"UN", "SH", "EX"}]
  /\ refs \in [Guard -> SUBSET Proc]
  /\ granted \in [Guard -> {"none", "read", "write"}]

(* While one caller holds what lock(RWLock) gave it, no other caller holds  *)
(* anything: what tests/flock.cpp:61-62 expects of its counters, across    *)
(* conversions, interruptions, clones and deaths of processes.             *)
WriterExcludes ==
  \A g, h \in Guard :
    g # h /\ granted[g] = "write" => granted[h] = "none"

(* What lock() promised stays backed by the kernel until the caller gives   *)
(* it up, although the lock hangs on a description that clones share and   *)
(* close when they exit.                                                   *)
GrantBacked ==
  \A g \in Guard :
    /\ granted[g] = "write" => lock[g] = "EX"
    /\ granted[g] = "read" => lock[g] = "SH"

(* The write lock is held by the caller that was given it, and by nobody    *)
(* else: not by a guard that has been unlocked, interrupted in a conversion *)
(* or destroyed, and by clones that inherited its descriptor only if its   *)
(* process died with it, without ~FileLockGuard.                           *)
WriteLockIsGranted ==
  \A g \in Guard :
    lock[g] = "EX" => granted[g] = "write" \/ proc[Owner[g]] = "dead"

(* A guard destroyed while it holds the write lock releases it in the same  *)
(* step, whoever inherited its descriptor: the explicit unlock() in        *)
(* ~FileLockGuard is what achieves it.                                     *)
DestroyedWriterReleases ==
  [][\A g \in Guard :
       granted[g] = "write" /\ phase'[g] = "absent" /\ proc' = proc
         => lock'[g] = "UN"]_vars

-----------------------------------------------------------------------------
(* Statements of the source that the code does not keep. *)

(* flock.hpp:34 asserts that lock() is entered on a guard that holds no     *)
(* lock: a guard whose state is Unlocked should hold none.                 *)
UnlockedHoldsNothing ==
  \A g \in Guard :
    phase[g] = "open" /\ current[g] = State.Unlocked => lock[g] = "UN"
=============================================================================
