------------------------------ MODULE SboxInit ------------------------------
(***************************************************************************)
(* The one-time initialisation of TMPDIR/sbox (container.cpp) and of       *)
(* /sys/fs/cgroup/sbox (cgroup_controller.cpp): a util::Once per process   *)
(* around double-checked locking of the parent directory with a            *)
(* FileLockGuard.  Threads of several processes call it; Execute may clone *)
(* a process while another of its threads is inside; processes crash.      *)
(*                                                                         *)
(* Each thread has the guard `lk' of its call, so FileLock is instantiated *)
(* with the threads for its guards, and every step here is one of its      *)
(* steps or leaves its variables alone.                                    *)
(***************************************************************************)
EXTENDS Naturals

CONSTANTS Proc, Root, Thread,
          Owner,      \* the process of each thread
          Nobody,     \* holds a mutex that is free
          Delegate,   \* FALSE: container.cpp's body; TRUE: the cgroup's
          Events      \* which of these the run has: see SboxAssumption

ASSUME SboxAssumption ==
  /\ Root \subseteq Proc
  /\ Owner \in [Thread -> Proc]
  /\ Nobody \notin Thread
  /\ Delegate \in BOOLEAN
  \* "cut": crashes and exceptions also before the last step of the body
  /\ Events \subseteq {"crash", "throw", "cut", "lost", "clone"}

VARIABLES
  proc, phase, current, want, lock, refs, granted,   \* FileLock's
  pc,        \* where each thread is in operator() of Once and its action
  invoked,   \* invoked_ of each process's Once
  mutex,     \* mutex_ of each process's Once: the thread that holds it
  done       \* what the body has set up, in the file system

L == INSTANCE FileLock WITH Guard <- Thread

lockVars == <<proc, phase, current, want, lock, refs, granted>>
vars == <<lockVars, pc, invoked, mutex, done>>

Body == {"root", "mkdir", "sbox"}
Complete == IF Delegate THEN Body ELSE {"mkdir"}
Outside == {"idle", "returned", "thrown"}

Goto(t, l) == pc' = [pc EXCEPT ![t] = l]

Init ==
  /\ L!Init
  /\ pc = [t \in Thread |-> "idle"]
  /\ invoked = [p \in Proc |-> FALSE]
  /\ mutex = [p \in Proc |-> Nobody]
  /\ done \in {{}, Complete}      \* an earlier program may have set it up

-----------------------------------------------------------------------------
(* util::Once::operator() *)

Call(t) ==
  /\ pc[t] \in {"idle", "thrown"}
  /\ proc[Owner[t]] = "live"
  /\ Goto(t, IF invoked[Owner[t]] THEN "returned" ELSE "mutex")
  /\ UNCHANGED <<lockVars, invoked, mutex, done>>

(* Mutant: invoked_ is set before the action. *)
EnterEarly(t) ==
  /\ pc[t] = "mutex"
  /\ mutex[Owner[t]] = Nobody
  /\ mutex' = [mutex EXCEPT ![Owner[t]] = t]
  /\ invoked' = [invoked EXCEPT ![Owner[t]] = TRUE]
  /\ Goto(t, "opening")
  /\ UNCHANGED <<lockVars, done>>

(* lock_guard, then the second look at invoked_. *)
Enter(t) ==
  /\ pc[t] = "mutex"
  /\ mutex[Owner[t]] = Nobody
  /\ IF invoked[Owner[t]]
       THEN Goto(t, "returned") /\ UNCHANGED mutex
       ELSE Goto(t, "opening") /\ mutex' = [mutex EXCEPT ![Owner[t]] = t]
  /\ UNCHANGED <<lockVars, invoked, done>>

Store(t) ==
  /\ pc[t] = "store"
  /\ invoked' = [invoked EXCEPT ![Owner[t]] = TRUE]
  /\ Goto(t, "release")
  /\ UNCHANGED <<lockVars, mutex, done>>

(* Mutant: an exception of the action is swallowed. *)
ReleaseSwallows(t) ==
  /\ pc[t] \in {"release", "rethrow"}
  /\ mutex' = [mutex EXCEPT ![Owner[t]] = Nobody]
  /\ Goto(t, "returned")
  /\ UNCHANGED <<lockVars, invoked, done>>

(* Mutant: mutex_ is unlocked by a call behind the action. *)
ReleaseReturned(t) ==
  /\ pc[t] \in {"release", "rethrow"}
  /\ mutex' =
       [mutex EXCEPT ![Owner[t]] = IF pc[t] = "release" THEN Nobody ELSE @]
  /\ Goto(t, IF pc[t] = "release" THEN "returned" ELSE "thrown")
  /\ UNCHANGED <<lockVars, invoked, done>>

(* ~lock_guard, on return and while an exception of the action unwinds. *)
Release(t) ==
  /\ pc[t] \in {"release", "rethrow"}
  /\ mutex' = [mutex EXCEPT ![Owner[t]] = Nobody]
  /\ Goto(t, IF pc[t] = "release" THEN "returned" ELSE "thrown")
  /\ UNCHANGED <<lockVars, invoked, done>>

-----------------------------------------------------------------------------
(* The action: Initialize, InitializeParentCgroup. *)

GuardStep(t, from, step, to) ==
  /\ pc[t] = from
  /\ step
  /\ Goto(t, to)
  /\ UNCHANGED <<invoked, mutex, done>>

(* Mutant: the second lock is a read lock. *)
LockWriteShared(t) == GuardStep(t, "xlock", L!Lock(t, L!RLock), "xwait")

OpenLock(t) == GuardStep(t, "opening", L!Open(t), "rlock")
LockRead(t) == GuardStep(t, "rlock", L!Lock(t, L!RLock), "rwait")
LockedRead(t) == GuardStep(t, "rwait", L!Locked(t), "check1")
UnlockRead(t) == GuardStep(t, "unlock", L!Unlock(t), "xlock")
LockWrite(t) == GuardStep(t, "xlock", L!Lock(t, L!RWLock), "xwait")
LockedWrite(t) == GuardStep(t, "xwait", L!Locked(t), "check2")
Leave(t) == GuardStep(t, "leave", L!Destroy(t), "store")

(* check(): does the directory exist? *)
Check(t, from, absent) ==
  /\ pc[t] = from
  /\ Goto(t, IF "mkdir" \in done THEN "leave" ELSE absent)
  /\ UNCHANGED <<lockVars, invoked, mutex, done>>

(* Mutant: no second check. *)
CheckWriteSkipped(t) ==
  /\ pc[t] = "check2"
  /\ Goto(t, IF Delegate THEN "root" ELSE "mkdir")
  /\ UNCHANGED <<lockVars, invoked, mutex, done>>

CheckRead(t) == Check(t, "check1", "unlock")
CheckWrite(t) == Check(t, "check2", IF Delegate THEN "root" ELSE "mkdir")

MkDir(t) ==
  /\ pc[t] = "mkdir"
  /\ done' = done \cup {"mkdir"}
  /\ Goto(t, IF Delegate THEN "sbox" ELSE "leave")
  /\ UNCHANGED <<lockVars, invoked, mutex>>

(* The controllers reach the kernel when the ofstream is destroyed, after   *)
(* good() was asked: a write the kernel rejects is not noticed.  sbox can   *)
(* only delegate the controllers that its parent delegates to it.          *)
WriteControl(t, step, next) ==
  /\ pc[t] = step
  /\ \/ done' = done \cup (IF step = "root" \/ "root" \in done
                             THEN {step} ELSE {})
     \/ "lost" \in Events /\ UNCHANGED done
  /\ Goto(t, next)
  /\ UNCHANGED <<lockVars, invoked, mutex>>

WriteRoot(t) == WriteControl(t, "root", "mkdir")
WriteSbox(t) == WriteControl(t, "sbox", "leave")

-----------------------------------------------------------------------------
(* Exceptions: open, a wait in flock, a check or a step of the body fails.  *)
(* ~FileLockGuard runs unless its constructor did not get its descriptor.  *)

OpenThrows(t) ==
  /\ "throw" \in Events
  /\ pc[t] = "opening"
  /\ Goto(t, "rethrow")
  /\ UNCHANGED <<lockVars, invoked, mutex, done>>

WaitThrows(t) ==
  /\ "throw" \in Events
  /\ pc[t] \in {"rwait", "xwait"}
  /\ L!LockThrows(t)
  /\ Goto(t, "unwind")
  /\ UNCHANGED <<invoked, mutex, done>>

(* A step that does not complete the body can fail at any time: the last    *)
(* one only if the run is about that.                                      *)
Cuttable(t) == pc[t] = "sbox" => "cut" \in Events

StepThrows(t) ==
  /\ "throw" \in Events
  /\ pc[t] \in Body \cup {"check1", "check2"}
  /\ Cuttable(t)
  /\ Goto(t, "unwind")
  /\ UNCHANGED <<lockVars, invoked, mutex, done>>

Unwind(t) == GuardStep(t, "unwind", L!Destroy(t), "rethrow")

-----------------------------------------------------------------------------
(* Processes. *)

(* Execute's clone3 by a thread that is not inside: the child gets a copy   *)
(* of the process's memory, the Once in whatever state it is, and of its   *)
(* descriptors.                                                            *)
Clone(t, c) ==
  /\ "clone" \in Events
  /\ pc[t] \in Outside
  /\ L!Clone(Owner[t], c)
  /\ invoked' = [invoked EXCEPT ![c] = invoked[Owner[t]]]
  /\ mutex' = [mutex EXCEPT ![c] = mutex[Owner[t]]]
  /\ UNCHANGED <<pc, done>>

Exit(p) ==
  /\ \A t \in Thread : Owner[t] = p =>
       pc[t] \in Outside \/ ("crash" \in Events /\ Cuttable(t))
  /\ L!Exit(p)
  /\ pc' = [t \in Thread |-> IF Owner[t] = p THEN "dead" ELSE pc[t]]
  /\ UNCHANGED <<invoked, mutex, done>>

-----------------------------------------------------------------------------
(* The steps a thread takes once it has called. *)
Advance(t) ==
  \/ Enter(t) \/ Store(t) \/ Release(t)
  \/ OpenLock(t) \/ LockRead(t) \/ LockedRead(t) \/ CheckRead(t)
  \/ UnlockRead(t) \/ LockWrite(t) \/ LockedWrite(t) \/ CheckWrite(t)
  \/ WriteRoot(t) \/ MkDir(t) \/ WriteSbox(t) \/ Leave(t) \/ Unwind(t)

Throw(t) == OpenThrows(t) \/ WaitThrows(t) \/ StepThrows(t)

Next ==
  \/ \E t \in Thread : Call(t) \/ Advance(t) \/ Throw(t)
  \/ \E t \in Thread, c \in Proc : Clone(t, c)
  \/ \E p \in Proc : Exit(p)

Spec == Init /\ [][Next]_vars

(* The scheduler runs every thread that can run.  Calls, exceptions, clones *)
(* and exits owe nothing.                                                  *)
FairSpec == Spec /\ \A t \in Thread : WF_vars(Advance(t))
-----------------------------------------------------------------------------
(* Properties. *)

Locations ==
  {"idle", "mutex", "opening", "rlock", "rwait", "check1", "unlock", "xlock",
   "xwait", "check2", "root", "mkdir", "sbox", "leave", "store", "release",
   "unwind", "rethrow", "returned", "thrown", "dead"}

TypeOK ==
  /\ L!TypeOK
  /\ pc \in [Thread -> Locations]
  /\ invoked \in [Proc -> BOOLEAN]
  /\ mutex \in [Proc -> Thread \cup {Nobody}]
  /\ done \subseteq Complete

(* While a thread of any process runs the body, no thread of any process    *)
(* runs it too or looks at what it has built so far.                       *)
BodyAlone ==
  \A t, u \in Thread :
    t # u /\ pc[u] \in Body => pc[t] \notin Body \cup {"check1", "check2"}

(* The body never runs again over a directory that is already there: the    *)
(* second check is made under the lock the body runs under.                *)
BodyOnce ==
  \A t \in Thread : pc[t] \in {"root", "mkdir"} => "mkdir" \notin done

(* A call that returns, and a process that has recorded one, can rely on    *)
(* everything the body sets up.                                            *)
ReturnedReady ==
  /\ \A t \in Thread : pc[t] = "returned" => done = Complete
  /\ \A p \in Proc : invoked[p] => done = Complete

(* The protocol implements its promise. *)
Abstract == INSTANCE OneTimeInit WITH
  ready <- done = Complete,
  status <- [t \in Thread |->
    IF pc[t] = "idle" THEN "out"
    ELSE IF pc[t] \in {"returned", "thrown", "dead"} THEN pc[t]
    ELSE "in"]

Promise == Abstract!Spec

(* What can keep a caller waiting for ever.                                 *)
Orphaned(p) == mutex[p] # Nobody /\ Owner[mutex[p]] # p
Leaked(t) == phase[t] = "absent" /\ lock[t] # "UN"

(* A thread that calls again and again, and gets an exception every time,   *)
(* may take the mutex before the others do.                                *)
ThrowsEnd == <>[][\A t \in Thread : ~ Throw(t)]_vars

(* Once exceptions stop, every call ends: in spite of those there have been *)
(* (they unwind the mutex and the lock), of crashes and of clones, unless  *)
(* its process was cloned while another thread held the Once's mutex, or a *)
(* clone keeps a lock that its guard's destructor should have released.    *)
Progress ==
  ThrowsEnd =>
    \A t \in Thread :
      pc[t] \notin Outside ~>
        \/ pc[t] \in Outside \cup {"dead"}
        \/ Orphaned(Owner[t])
        \/ \E u \in Thread : Leaked(u)
=============================================================================
