------------------------------ MODULE Execute -------------------------------
(***************************************************************************)
(* sex::Execute (execute.cpp), its hooks and the ProcessKnob it returns.   *)
(*                                                                         *)
(* Threads of one process make the calls of Call.  Each clones a child     *)
(* that runs the routine f and ends with a status, which wait() collects.  *)
(* The kernel gives the pids of processes that are gone to new ones, the   *)
(* caller's children or strangers.  A program takes the status of a knob   *)
(* once, as the && of wait() asks, and tries again if wait() threw; it may *)
(* signal as long as there is a knob.                                      *)
(*                                                                         *)
(* scope stands for what the caller's frames own while they call Execute:  *)
(* a Container, a CgroupController, a mount, which their destructors take  *)
(* down.                                                                   *)
(***************************************************************************)
EXTENDS Naturals, FiniteSets

CONSTANTS Call, Pid,
          Custom,     \* the calls with hooks of the user's: these may edit
                      \* the flags and the pidfd pointer, and throw
          Faults      \* which of these happen: see ExecuteAssumption

ASSUME ExecuteAssumption ==
  /\ Custom \subseteq Call
  /\ Faults \subseteq {"clone", "map"}

(* The flags of ExecuteArgs that Execute and its hooks ask for. *)
Flag == {"newuser", "pidfd"}

(* What its setters leave, in any order: each sets or unsets one flag. *)
Arguments == SUBSET Flag

(* Where cl_args.pidfd points: nowhere, to Execute's own variable, or to    *)
(* one of the hook's.                                                      *)
Target == {"null", "local", "hook"}

VARIABLES
  caller,    \* where the call is in the caller's process
  flags,     \* cl_args.flags
  aim,       \* cl_args.pidfd
  child,     \* life of the child
  pid,       \* its pid: the kernel's, and pid_ of the knob
  status,    \* how the child ended
  result,    \* what waitpid() told wait()
  pidfd,     \* who has the child's pidfd
  strangers, \* pids of processes that are no children of the caller's
  strayed,   \* history: <<c, when>>, a signal through c's knob reached
             \* another process than its child, before or after that was reaped
  scope      \* are the objects of the caller's frames in place?

vars == <<caller, flags, aim, child, pid, status, result, pidfd, strangers,
          strayed, scope>>

Present == {"hook", "f", "escaped", "zombie"}
Alive == Present \ {"zombie"}

PidsInUse ==
  strangers \cup {pid[c] : c \in {d \in Call : child[d] \in Present}}

Init ==
  /\ caller = [c \in Call |-> "idle"]
  /\ flags = [c \in Call |-> {}]
  /\ aim = [c \in Call |-> "null"]
  /\ child = [c \in Call |-> "none"]
  /\ pid \in {[c \in Call |-> p] : p \in Pid}
  /\ status = [c \in Call |-> "none"]
  /\ result = [c \in Call |-> "none"]
  /\ pidfd = [c \in Call |-> "none"]
  /\ strangers = {}
  /\ strayed = {}
  /\ scope = TRUE

-----------------------------------------------------------------------------
(* Execute, in the caller. *)

(* The pidfd pointer is set by the arguments' flags, then BeforeClone gets  *)
(* the whole structure and may rewrite it.                                 *)
BeforeClone(c) ==
  /\ caller[c] = "idle"
  /\ \E asked \in Arguments :
       LET wired == IF "pidfd" \in asked THEN "local" ELSE "null"
       IN  \/ /\ flags' = [flags EXCEPT ![c] = asked]
              /\ aim' = [aim EXCEPT ![c] = wired]
           \/ /\ c \in Custom
              /\ \E edited \in Arguments :
                   flags' = [flags EXCEPT ![c] = edited]
              /\ \E target \in {wired, "null", "hook"} :
                   aim' = [aim EXCEPT ![c] = target]
  /\ caller' = [caller EXCEPT ![c] = "clone"]
  /\ UNCHANGED <<child, pid, status, result, pidfd, strangers, strayed, scope>>

(* The kernel writes the pidfd through cl_args.pidfd, and refuses a null.   *)
CanClone(c) == "pidfd" \in flags[c] => aim[c] # "null"

Clone(c) ==
  /\ caller[c] = "clone"
  /\ CanClone(c)
  /\ \E p \in Pid \ PidsInUse : pid' = [pid EXCEPT ![c] = p]
  /\ child' = [child EXCEPT ![c] = "hook"]
  /\ pidfd' = [pidfd EXCEPT ![c] = IF "pidfd" \in flags[c] THEN aim[c] ELSE @]
  /\ caller' = [caller EXCEPT ![c] = "after"]
  /\ UNCHANGED <<flags, aim, status, result, strangers, strayed, scope>>

(* Mutant: the result of clone3 is not looked at. *)
CloneUnchecked(c) ==
  /\ caller[c] = "clone"
  /\ "clone" \in Faults \/ ~ CanClone(c)
  /\ caller' = [caller EXCEPT ![c] = "after"]
  /\ pid' = [pid EXCEPT ![c] = "-1"]
  /\ UNCHANGED <<flags, aim, child, status, result, pidfd, strangers, strayed,
                 scope>>

(* unwrap() throws: no child. *)
CloneFails(c) ==
  /\ caller[c] = "clone"
  /\ "clone" \in Faults \/ ~ CanClone(c)
  /\ caller' = [caller EXCEPT ![c] = "threw"]
  /\ UNCHANGED <<flags, aim, child, pid, status, result, pidfd, strangers,
                 strayed, scope>>

(* Mutant: the knob is made by its constructor without a pidfd. *)
ReturnBareKnob(c) ==
  /\ caller[c] = "after"
  /\ caller' = [caller EXCEPT ![c] = "knob"]
  /\ UNCHANGED <<flags, aim, child, pid, status, result, pidfd, strangers,
                 strayed, scope>>

(* AfterCloneParent, then the flag is read again and the knob is made with  *)
(* what the kernel has left in Execute's variable.                         *)
ReturnKnob(c) ==
  /\ caller[c] = "after"
  /\ pidfd' = [pidfd EXCEPT
       ![c] = IF "pidfd" \in flags[c] /\ @ = "local" THEN "held" ELSE @]
  /\ caller' = [caller EXCEPT ![c] = "knob"]
  /\ UNCHANGED <<flags, aim, child, pid, status, result, strangers, strayed,
                 scope>>

(* A hook of the user's throws.  After the clone this leaves a child nobody *)
(* has a knob of, and a pidfd whose number was in Execute's variable.      *)
HookThrows(c) ==
  /\ c \in Custom
  /\ caller[c] \in {"clone", "after"}
  /\ pidfd' = [pidfd EXCEPT ![c] = IF @ = "local" THEN "lost" ELSE @]
  /\ caller' = [caller EXCEPT ![c] = "threw"]
  /\ UNCHANGED <<flags, aim, child, pid, status, result, strangers, strayed,
                 scope>>

-----------------------------------------------------------------------------
(* The child. *)

(* AfterCloneChild returns; with the default hooks and CLONE_NEWUSER the    *)
(* mappings are written, or rejected when the streams are destroyed, which *)
(* nobody notices.  Then f.                                                *)
EnterF(c) ==
  /\ child[c] = "hook"
  /\ child' = [child EXCEPT ![c] = "f"]
  /\ UNCHANGED <<caller, flags, aim, pid, status, result, pidfd, strangers,
                 strayed, scope>>

End(c, s) ==
  /\ child' = [child EXCEPT ![c] = "zombie"]
  /\ status' = [status EXCEPT ![c] = s]

(* f returns: _exit(0); f throws: _exit(127); f itself exits.               *)
Outcome == {"0", "127", "n"}

(* ExitStatus: exited with a code, or signaled. *)
ExitStatus == Outcome \cup {"signal"}

EndOfF(c) ==
  /\ child[c] = "f"
  /\ \E s \in Outcome : End(c, s)
  /\ UNCHANGED <<caller, flags, aim, pid, result, pidfd, strangers, strayed,
                 scope>>

(* AfterCloneChild throws outside the try block: the exception leaves       *)
(* Execute in the child.  The default hooks throw if they may not be       *)
(* dumped or a file cannot be opened.                                      *)
Escape(c) ==
  /\ child[c] = "hook"
  /\ c \in Custom \/ ("map" \in Faults /\ "newuser" \in flags[c])
  /\ child' = [child EXCEPT ![c] = "escaped"]
  /\ UNCHANGED <<caller, flags, aim, pid, status, result, pidfd, strangers,
                 strayed, scope>>

(* The child unwinds the caller's frames in its copy of the caller's memory *)
(* and goes on as the caller would: destructors act on the same files,     *)
(* those above the handler that catches it.                                *)
Unwind(c) ==
  /\ child[c] = "escaped"
  /\ scope' \in {scope, FALSE}
  /\ \E s \in ExitStatus : End(c, s)
  /\ UNCHANGED <<caller, flags, aim, pid, result, pidfd, strangers, strayed>>

(* A signal from elsewhere. *)
Killed(c) ==
  /\ child[c] \in Alive
  /\ End(c, "signal")
  /\ UNCHANGED <<caller, flags, aim, pid, result, pidfd, strangers, strayed,
                 scope>>

-----------------------------------------------------------------------------
(* The knob. *)

(* Where there is a knob to signal through, for any thread: nothing in it   *)
(* tells that the child has been reaped.                                   *)
HasKnob == {"knob", "wait", "reaped", "waited"}

(* sendSignal: kill() by number reaches whoever has it now.  Zombies and    *)
(* some of the living survive it.                                          *)
SendSignal(c) ==
  LET reached == {d \in Call : child[d] \in Present /\ pid[d] = pid[c]}
      when == IF child[c] = "gone" THEN "after" ELSE "before"
  IN  /\ caller[c] \in HasKnob
      /\ strayed' = strayed \cup
           {<<c, when>> : x \in (reached \ {c}) \cup (strangers \cap {pid[c]})}
      /\ \E dead \in SUBSET {d \in reached : child[d] \in Alive} :
           /\ child' =
                [d \in Call |-> IF d \in dead THEN "zombie" ELSE child[d]]
           /\ status' =
                [d \in Call |-> IF d \in dead THEN "signal" ELSE status[d]]
      /\ UNCHANGED <<caller, flags, aim, pid, result, pidfd, strangers, scope>>

Wait(c) ==
  /\ caller[c] = "knob"
  /\ caller' = [caller EXCEPT ![c] = "wait"]
  /\ UNCHANGED <<flags, aim, child, pid, status, result, pidfd, strangers,
                 strayed, scope>>

(* Mutant: waitpid(-1). *)
ReapableAny(c) == {d \in Call : child[d] = "zombie"}

(* The children that waitpid(pid_) may reap. *)
Reapable(c) == {d \in Call : child[d] = "zombie" /\ pid[d] = pid[c]}

(* waitpid() reaps: from here on the number is anybody's. *)
Reap(c) ==
  /\ caller[c] = "wait"
  /\ \E d \in Reapable(c) :
       /\ child' = [child EXCEPT ![d] = "gone"]
       /\ result' = [result EXCEPT ![c] = status[d]]
  /\ caller' = [caller EXCEPT ![c] = "reaped"]
  /\ UNCHANGED <<flags, aim, pid, status, pidfd, strangers, strayed, scope>>

(* wait() turns the status into an ExitStatus and returns it. *)
Waited(c) ==
  /\ caller[c] = "reaped"
  /\ caller' = [caller EXCEPT ![c] = "waited"]
  /\ UNCHANGED <<flags, aim, child, pid, status, result, pidfd, strangers,
                 strayed, scope>>

(* waitpid fails, interrupted: the assertion throws. *)
WaitThrows(c) ==
  /\ caller[c] = "wait"
  /\ caller' = [caller EXCEPT ![c] = "knob"]
  /\ UNCHANGED <<flags, aim, child, pid, status, result, pidfd, strangers,
                 strayed, scope>>

(* ~ProcessKnob closes the pidfd, and does not reap. *)
DropKnob(c) ==
  /\ caller[c] \in {"knob", "waited"}
  /\ caller' = [caller EXCEPT ![c] = "dropped"]
  /\ pidfd' = [pidfd EXCEPT ![c] = IF @ = "held" THEN "none" ELSE @]
  /\ UNCHANGED <<flags, aim, child, pid, status, result, strangers, strayed,
                 scope>>

-----------------------------------------------------------------------------
StrangerStep ==
  /\ \/ \E p \in Pid \ PidsInUse : strangers' = strangers \cup {p}
     \/ \E p \in strangers : strangers' = strangers \ {p}
  /\ UNCHANGED <<caller, flags, aim, child, pid, status, result, pidfd,
                 strayed, scope>>

CallerStep(c) ==
  \/ BeforeClone(c) \/ Clone(c) \/ CloneFails(c) \/ ReturnKnob(c)
  \/ HookThrows(c) \/ SendSignal(c) \/ Wait(c) \/ Reap(c) \/ Waited(c)
  \/ WaitThrows(c) \/ DropKnob(c)

ChildStep(c) ==
  EnterF(c) \/ EndOfF(c) \/ Escape(c) \/ Unwind(c) \/ Killed(c)

Next == StrangerStep \/ \E c \in Call : CallerStep(c) \/ ChildStep(c)

Spec == Init /\ [][Next]_vars
-----------------------------------------------------------------------------
(* Properties. *)

TypeOK ==
  /\ caller \in [Call -> {"idle", "clone", "after", "knob", "wait", "reaped",
                          "waited", "dropped", "threw"}]
  /\ flags \in [Call -> Arguments]
  /\ aim \in [Call -> Target]
  /\ child \in [Call -> Present \cup {"none", "gone"}]
  /\ pid \in [Call -> Pid]
  /\ status \in [Call -> ExitStatus \cup {"none"}]
  /\ result \in [Call -> ExitStatus \cup {"none"}]
  /\ pidfd \in [Call -> {"none", "local", "hook", "held", "lost"}]
  /\ strangers \subseteq Pid
  /\ strayed \subseteq Call \X {"before", "after"}
  /\ scope \in BOOLEAN

(* A knob knows a bare number, which the kernel gives to others as soon as  *)
(* it may.  Still nobody else can reap its child, so wait() finds it and   *)
(* returns its status; and a signal reaches that child or nobody, until    *)
(* waitpid() has reaped it.  After that, while wait() has not returned and *)
(* when it has, a signal may reach anybody: sendSignal() does not look.    *)
OwnChild ==
  /\ \A c \in Call : caller[c] \in {"knob", "wait"} => child[c] \in Present
  /\ \A c \in Call : result[c] # "none" => result[c] = status[c]
  /\ \A c \in Call : <<c, "before">> \notin strayed

(* A knob owns the pidfd of its child if clone3 was asked for one, whatever *)
(* BeforeClone did to the flag and the pointer between the two reads of    *)
(* the flag, unless the pointer led to a variable of the hook's.  Nobody   *)
(* loses a pidfd but hooks of the user's that throw after the clone.       *)
KnobPidfd ==
  \A c \in Call :
    /\ caller[c] \in HasKnob =>
         pidfd[c] = IF "pidfd" \notin flags[c] THEN "none"
                    ELSE IF aim[c] = "hook" THEN "hook"
                    ELSE "held"
    /\ pidfd[c] \in {"hook", "lost"} => c \in Custom

-----------------------------------------------------------------------------
(* A statement of the source that the code does not keep. *)

(* tests/container.cpp:42: after Execute and wait(), the Container that the *)
(* caller holds is still there.                                            *)
ScopeIntact == scope
=============================================================================
