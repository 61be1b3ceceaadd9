------------------------------ MODULE Routine -------------------------------
(***************************************************************************)
(* What a Routine captures, from the lambda that takes a descriptor to the *)
(* child of Execute that uses it, and back (execute.cpp, routine.hpp):     *)
(* functions (UniqueFunction) whose callables capture holders (FdHolder).  *)
(*                                                                         *)
(* Param is the parameter f of Execute.  The program, in its other threads *)
(* too, goes on with its own functions and holders while a call is under   *)
(* way.  The child has a copy of the memory; with SameFiles (CLONE_FILES)  *)
(* it has no copy of the descriptor table, but the caller's.  One call,    *)
(* and one child, at a time; what a child does that has left Execute, in   *)
(* the caller's code, is not followed.                                     *)
(***************************************************************************)
EXTENDS FiniteSets

CONSTANTS Fn, Callable, Small,
          Param,                \* the function that is Execute's parameter
          Holder, Number, File,
          Capture,              \* the holder that each callable captures
          None, Faults          \* "clone", and those of the parts: "share"
                                \* is an exception of AfterCloneChild

VARIABLES
  live, fd, table, loose, given, failed, astray, ended, lost,
  vtable, box, place, thrown, undefined,
  pc,       \* where Execute is: out, before the clone, after it
  child,    \* the child: none, born (in AfterCloneChild), in f
  shared,   \* it has the caller's descriptor table: CLONE_FILES
  saw,      \* what f had captured at the clone: a number and its file
  copy      \* the file of that number in the child's own table

H == INSTANCE FdHolder WITH Faults <- Faults \cap {"close", "share"}

U == INSTANCE UniqueFunction WITH Faults <- Faults \cap {"throw", "alloc"}

ASSUME RoutineAssumption ==
  /\ H!HolderConstants /\ U!FunctionConstants
  /\ Param \in Fn
  /\ Capture \in [Callable -> Holder]
  /\ \A c, d \in Callable : Capture[c] = Capture[d] => c = d

holderVars ==
  <<live, fd, table, loose, given, failed, astray, ended, lost>>

functionVars == <<vtable, box, place, thrown, undefined>>

callVars == <<pc, child, shared, saw, copy>>

vars == <<holderVars, functionVars, callVars>>

Mine == Fn \ {Param}

Local == Holder \ {Capture[c] : c \in Callable}

Nothing == [number |-> None, file |-> None]

Init ==
  /\ H!Init
  /\ U!Init
  /\ pc = "out"
  /\ shared = FALSE
  /\ child = "none"
  /\ saw = Nothing
  /\ copy = None

-----------------------------------------------------------------------------
(* A callable that is destroyed destroys the holder it has captured, and    *)
(* the program ends if that throws.                                        *)
Captures(C) ==
  LET S == {Capture[c] : c \in C}
  IN  H!Destroy(S) \/ H!DestroyTerminates(S)

Dying == {c \in Callable : place[c] # "destroyed" /\ place'[c] = "destroyed"}

(* [in = std::move(h)] *)
MakeCallable(c) ==
  /\ U!Make(c)
  /\ \E h \in Local : H!MoveConstruct(Capture[c], h)
  /\ UNCHANGED callVars

FunctionStep ==
  /\ \/ \E c \in Callable : U!Discard(c)
     \/ \E f \in Mine : U!Default(f) \/ U!AssignNull(f) \/ U!Destroy(f)
     \/ \E f \in Mine, c \in Callable :
          U!Construct(f, c) \/ U!ConstructThrows(f, c) \/ U!Assign(f, c)
            \/ U!AssignThrows(f, c)
     \/ \E f, g \in Mine :
          U!MoveConstruct(f, g) \/ U!MoveAssign(f, g)
            \/ U!MoveAssignThrows(f, g) \/ U!Swap(f, g) \/ U!SwapThrows(f, g)
  /\ Captures(Dying)
  /\ UNCHANGED callVars

LocalStep(h) ==
  \/ H!Default(h)
  \/ \E n \in loose : H!Adopt(h, n)
  \/ \E n \in loose \cup {None} : H!Reset(h, n)
  \/ H!ResetThrows(h)
  \/ H!Release(h)
  \/ \E g \in Local :
       H!MoveConstruct(h, g) \/ H!Swap(h, g) \/ H!MoveAssign(h, g)
  \/ H!Destroy({h}) \/ H!DestroyTerminates({h})

HolderStep ==
  /\ \/ H!Open
     \/ \E n \in loose : H!CloseLoose(n)
     \/ \E h \in Local : LocalStep(h)
  /\ UNCHANGED <<functionVars, callVars>>

-----------------------------------------------------------------------------
(* Execute. *)

(* The parameter is moved from a Routine, or made of a callable: then it    *)
(* may throw.                                                              *)
Call ==
  /\ pc = "out"
  /\ child = "none"
  /\ \/ \E r \in Mine : U!MoveConstruct(Param, r)
     \/ \E c \in Callable : U!Construct(Param, c)
  /\ pc' = "before"
  /\ UNCHANGED <<holderVars, child, shared, saw, copy>>

CallThrows ==
  /\ pc = "out"
  /\ \E c \in Callable : U!ConstructThrows(Param, c)
  /\ Captures(Dying)
  /\ UNCHANGED callVars

(* The callable that the child calls as f, if any, and its capture. *)
Start ==
  /\ pc = "before"
  /\ pc' = "after"
  /\ child' = "born"
  /\ shared' \in BOOLEAN
  /\ saw' =
       IF U!Empty(Param) THEN Nothing
       ELSE [number |-> fd[Capture[U!Invoked(Param)]],
             file |-> given[Capture[U!Invoked(Param)]]]

(* Mutant: f is moved into something that ends before the clone. *)
CloneWithout ==
  /\ Start
  /\ U!AssignNull(Param)
  /\ Captures(Dying)
  /\ copy' = IF saw'.number = None THEN None ELSE table'[saw'.number]

Clone ==
  /\ Start
  /\ copy' = IF saw'.number = None THEN None ELSE table[saw'.number]
  /\ UNCHANGED <<holderVars, functionVars>>

(* The call ends, and its parameter with it: it returns the knob, or        *)
(* clone3 fails, or a hook throws on either side of it.                    *)
Leave ==
  /\ pc = "after" \/ (pc = "before" /\ "clone" \in Faults)
  /\ pc' = "out"
  /\ U!Destroy(Param)
  /\ Captures(Dying)
  /\ UNCHANGED <<child, shared, saw, copy>>

(* AfterCloneChild returns, and the child calls f. *)
ChildBegins ==
  /\ child = "born"
  /\ child' = "f"
  /\ UNCHANGED <<holderVars, functionVars, pc, shared, saw, copy>>

End ==
  /\ child' = "none"
  /\ shared' = FALSE
  /\ saw' = Nothing
  /\ copy' = None

(* AfterCloneChild throws, outside the try block: f is destroyed in the     *)
(* child, too, which closes what it has captured in the table it has.  If  *)
(* the number is not open, that ends the child.                            *)
ChildEscapes ==
  /\ child = "born" /\ "share" \in Faults
  /\ End
  /\ \/ \E n \in Number : shared /\ n = saw.number /\ H!Lose(n)
     \/ /\ shared => \A n \in Number : n = saw.number => table[n] = None
        /\ UNCHANGED holderVars
  /\ UNCHANGED <<functionVars, pc>>

(* Mutant: the child leaves through the destructors of what it has.  They   *)
(* close the descriptor in the table it has.                               *)
ChildExitDestroys ==
  /\ child # "none" /\ End
  /\ table' = IF shared THEN H!Closed({saw.number}) ELSE table
  /\ UNCHANGED <<live, fd, loose, given, failed, astray, ended, lost,
                 functionVars, pc>>

(* _exit() runs no destructors.  An own table goes with the child; the one  *)
(* it shares with the caller stays.                                        *)
ChildExit ==
  /\ child # "none" /\ End
  /\ UNCHANGED <<holderVars, functionVars, pc>>

Next ==
  \/ /\ ~ ended /\ ~ undefined
     /\ \/ \E c \in Callable : MakeCallable(c)
        \/ FunctionStep \/ HolderStep
        \/ Call \/ CallThrows \/ Clone \/ Leave \/ ChildEscapes
  \/ ChildBegins \/ ChildExit

Spec == Init /\ [][Next]_vars
-----------------------------------------------------------------------------
(* Properties. *)

TypeOK ==
  /\ H!TypeOK
  /\ U!TypeOK
  /\ pc \in {"out", "before", "after"}
  /\ child \in {"none", "born", "f"}
  /\ shared \in BOOLEAN
  /\ saw \in [number : Number \cup {None}, file : File \cup {None}]
  /\ copy \in File \cup {None}

(* See FdHolder and UniqueFunction: here among captured holders, of         *)
(* functions that come and go with calls of Execute, and a child that uses *)
(* the same table.  Only what an exception of AfterCloneChild destroys in  *)
(* such a child is closed behind its owner's back: its captures, or what   *)
(* has their number by then (execute.cpp:27).                              *)
HoldersOwn == H!HoldersOwn

Truthful == U!Truthful

Orderly == ~ failed /\ lost = {} /\ thrown = {} /\ ~ undefined

(* Without failing closes, throwing assignments and children that leave     *)
(* Execute with the caller's table, each open descriptor has an owner who  *)
(* can still close it: the program, a holder of its own, or a callable     *)
(* that is outside or in a function that knows it holds it.                *)
(* When a call has ended, by whatever path, f's captures are closed        *)
(* (execute.cpp:45).                                                       *)
NothingLeaks ==
  Orderly =>
    \A n \in Number :
      table[n] # None =>
        \/ n \in loose
        \/ \E h \in Local \cap live : fd[h] = n
        \/ \E c \in Callable :
             /\ fd[Capture[c]] = n
             /\ place[c] = "outside" \/ \E f \in Fn : c \in U!Content(f)

(* While the child runs f, what f captured is open under its number and is  *)
(* the file that it captured; if the table is shared, until the call       *)
(* returns in the caller, who then closes it (execute.cpp:45).             *)
CapturesOpen ==
  (/\ Orderly /\ ~ ended
   /\ child = "f" /\ saw.number # None
   /\ shared => pc = "after")
  => saw.file = IF shared THEN table[saw.number] ELSE copy
=============================================================================
