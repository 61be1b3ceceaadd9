--------------------------- MODULE UniqueFunction ---------------------------
(***************************************************************************)
(* util::UniqueFunction, that is fu2::function_base as unique_function.hpp *)
(* configures it: owning, not copyable, with room for 64 bytes, throwing   *)
(* when it is called empty, without the strong exception guarantee.        *)
(*                                                                         *)
(* A function object has a table of operations (vtable) for the type of    *)
(* what it holds, and the object itself, in place if it is small and on    *)
(* the heap if it is not.  The two are changed one after the other, and    *)
(* the copy or move of a callable, or the allocation, may throw between:   *)
(* vtable and box are what the object believes, place is where callables   *)
(* really are.  A callable keeps its name when it is moved.  A throwing    *)
(* move leaves its source as it was.                                       *)
(***************************************************************************)
CONSTANTS Fn, Callable,
          Small,      \* the callables that fit in place
          None,
          Faults      \* "throw": a copy or move throws; "alloc": bad_alloc

VARIABLES
  vtable,     \* what each function's table of operations is for
  box,        \* the callable it is meant to hold
  place,      \* the function a callable is in, or outside, or destroyed
  thrown,     \* history: the functions left by a throwing assignment or swap
  undefined   \* history: an object that is not there was destroyed or moved

(* The composition assumes it of its constants. *)
FunctionConstants ==
  None \notin Callable /\ Fn \cap {"outside", "destroyed"} = {}

vars == <<vtable, box, place, thrown, undefined>>

Init ==
  /\ vtable = [f \in Fn |-> "absent"]
  /\ box = [f \in Fn |-> None]
  /\ place = [c \in Callable |-> "destroyed"]
  /\ thrown = {}
  /\ undefined = FALSE

Full == {"inplace", "allocated"}

(* construct() tries the internal capacity first. *)
Storage(c) == IF c \in Small THEN "inplace" ELSE "allocated"

Exists(f) == vtable[f] # "absent"

(* op_fetch_empty. *)
Empty(f) == vtable[f] = "empty"

(* What the thunk in the vtable calls; that of the empty one throws. *)
Invoked(f) == IF Empty(f) THEN "bad_function_call" ELSE box[f]

(* What the commands move, destroy and invoke. *)
Content(f) == IF vtable[f] \in Full THEN {box[f]} ELSE {}

(* What is there of it. *)
Held(f) == {c \in Content(f) : place[c] = f}

Sound(f) == Held(f) = Content(f)

Misused(F) == undefined' = (undefined \/ \E f \in F : ~ Sound(f))

Recovered(f) == thrown' = IF Sound(f) THEN thrown \ {f} ELSE thrown

Put(C, p) == [c \in Callable |-> IF c \in C THEN p ELSE place[c]]

(* destroy() and weak_destroy(), with nothing constructed after them. *)
Vacate(f, v) ==
  /\ vtable' = [vtable EXCEPT ![f] = v]
  /\ box' = [box EXCEPT ![f] = None]
  /\ place' = Put(Held(f), "destroyed")
  /\ Misused({f})
  /\ Recovered(f)

-----------------------------------------------------------------------------
(* The program's own callables, before they are in a function. *)

Make(c) ==
  /\ place[c] = "destroyed"
  /\ place' = Put({c}, "outside")
  /\ UNCHANGED <<vtable, box, thrown, undefined>>

Discard(c) ==
  /\ place[c] = "outside"
  /\ place' = Put({c}, "destroyed")
  /\ UNCHANGED <<vtable, box, thrown, undefined>>

-----------------------------------------------------------------------------
(* Constructors.  One that throws leaves no function behind. *)

(* Without a callable, or with one that is false: a null pointer. *)
Default(f) ==
  /\ ~ Exists(f)
  /\ vtable' = [vtable EXCEPT ![f] = "empty"]
  /\ UNCHANGED <<box, place, thrown, undefined>>

SetVtable(f, c) ==
  /\ vtable' = [vtable EXCEPT ![f] = Storage(c)]
  /\ box' = [box EXCEPT ![f] = c]

Construct(f, c) ==
  /\ ~ Exists(f)
  /\ place[c] = "outside"
  /\ SetVtable(f, c)
  /\ place' = Put({c}, f)
  /\ UNCHANGED <<thrown, undefined>>

(* make_box() throws before or after it has moved the callable, or the box  *)
(* cannot be allocated or moved: then it is destroyed with the callable.   *)
BoxThrows(c, p) ==
  \/ "throw" \in Faults /\ p \in {"outside", "destroyed"}
  \/ "alloc" \in Faults /\ c \notin Small /\ p = "destroyed"

ConstructThrows(f, c) ==
  /\ ~ Exists(f)
  /\ place[c] = "outside"
  /\ \E p \in {"outside", "destroyed"} :
       /\ BoxThrows(c, p)
       /\ place' = Put({c}, p)
  /\ UNCHANGED <<vtable, box, thrown, undefined>>

(* vtable::move: in place, a new object is made and the old one destroyed;  *)
(* on the heap, the pointer changes hands.  Then g is set to empty.        *)
Transfer(f, g) ==
  /\ vtable' = [vtable EXCEPT ![f] = vtable[g], ![g] = "empty"]
  /\ box' = [box EXCEPT ![f] = box[g], ![g] = None]

(* Mutant: the source is not set to empty. *)
MoveConstructKeeps(f, g) ==
  /\ ~ Exists(f)
  /\ Exists(g)
  /\ vtable' = [vtable EXCEPT ![f] = vtable[g]]
  /\ box' = [box EXCEPT ![f] = box[g]]
  /\ place' = Put(Held(g), f)
  /\ Misused({g})
  /\ UNCHANGED thrown

MoveConstruct(f, g) ==
  /\ ~ Exists(f)
  /\ Exists(g)
  /\ Transfer(f, g)
  /\ place' = Put(Held(g), f)
  /\ Misused({g})
  /\ UNCHANGED thrown

-----------------------------------------------------------------------------
(* Assignments destroy what is there without resetting the vtable, and then *)
(* construct.                                                              *)

MoveAssign(f, g) ==
  /\ f # g
  /\ Exists(f) /\ Exists(g)
  /\ Transfer(f, g)
  /\ place' = [c \in Callable |->
                 CASE c \in Held(f) -> "destroyed"
                   [] c \in Held(g) -> f
                   [] OTHER -> place[c]]
  /\ Misused({f, g})
  /\ Recovered(f)

(* construct() has set the vtable before the constructor throws. *)
MoveAssignThrows(f, g) ==
  /\ f # g
  /\ Exists(f)
  /\ vtable[g] = "inplace"
  /\ "throw" \in Faults
  /\ SetVtable(f, box[g])
  /\ place' = Put(Held(f), "destroyed")
  /\ Misused({f, g})
  /\ thrown' = thrown \cup {f}

Assign(f, c) ==
  /\ Exists(f)
  /\ place[c] = "outside"
  /\ SetVtable(f, c)
  /\ place' = [Put(Held(f), "destroyed") EXCEPT ![c] = f]
  /\ Misused({f})
  /\ Recovered(f)

(* The box is not made, or not allocated: the vtable is the old one.  Or    *)
(* it is not moved to where the vtable says already that it is.            *)
AssignThrows(f, c) ==
  /\ Exists(f)
  /\ place[c] = "outside"
  /\ \E p \in {"outside", "destroyed"} :
       /\ BoxThrows(c, p)
       /\ place' = [Put(Held(f), "destroyed") EXCEPT ![c] = p]
       /\ \/ UNCHANGED <<vtable, box>>
          \/ "throw" \in Faults /\ p = "destroyed" /\ SetVtable(f, c)
  /\ Misused({f})
  /\ thrown' = thrown \cup {f}

(* nullptr, or a callable that is false: destroy(), that resets the vtable. *)
AssignNull(f) ==
  /\ Exists(f)
  /\ Vacate(f, "empty")

-----------------------------------------------------------------------------
(* f.swap(g): three moves through a local function. *)

Swap(f, g) ==
  /\ f # g
  /\ Exists(f) /\ Exists(g)
  /\ vtable' = [vtable EXCEPT ![f] = vtable[g], ![g] = vtable[f]]
  /\ box' = [box EXCEPT ![f] = box[g], ![g] = box[f]]
  /\ place' = [c \in Callable |->
                 CASE c \in Held(f) -> g
                   [] c \in Held(g) -> f
                   [] OTHER -> place[c]]
  /\ Misused({f, g})
  /\ UNCHANGED thrown

(* The second move throws, or the third: g, or f, has the vtable without    *)
(* the object, and what g held is destroyed with the local function.       *)
SwapThrows(f, g) ==
  /\ f # g
  /\ Exists(f) /\ Exists(g)
  /\ "throw" \in Faults
  /\ \/ /\ vtable[f] = "inplace"
        /\ SetVtable(g, box[f])
        /\ place' = Put(Held(g), "destroyed")
        /\ thrown' = thrown \cup {g}
     \/ /\ vtable[g] = "inplace"
        /\ vtable' = [vtable EXCEPT ![f] = vtable[g], ![g] = vtable[f]]
        /\ box' = [box EXCEPT ![f] = box[g], ![g] = box[f]]
        /\ place' = [c \in Callable |->
                       CASE c \in Held(g) -> "destroyed"
                         [] c \in Held(f) -> g
                         [] OTHER -> place[c]]
        /\ thrown' = thrown \cup {f}
  /\ Misused({f, g})

Destroy(f) ==
  /\ Exists(f)
  /\ Vacate(f, "absent")

Next ==
  /\ ~ undefined
  /\ \/ \E c \in Callable : Make(c) \/ Discard(c)
     \/ \E f \in Fn : Default(f) \/ AssignNull(f) \/ Destroy(f)
     \/ \E f \in Fn, c \in Callable :
          Construct(f, c) \/ ConstructThrows(f, c) \/ Assign(f, c)
            \/ AssignThrows(f, c)
     \/ \E f, g \in Fn :
          MoveConstruct(f, g) \/ MoveAssign(f, g) \/ MoveAssignThrows(f, g)
            \/ Swap(f, g) \/ SwapThrows(f, g)

Spec == Init /\ [][Next]_vars
-----------------------------------------------------------------------------
(* Properties. *)

TypeOK ==
  /\ vtable \in [Fn -> Full \cup {"absent", "empty"}]
  /\ box \in [Fn -> Callable \cup {None}]
  /\ place \in [Callable -> Fn \cup {"outside", "destroyed"}]
  /\ thrown \subseteq Fn
  /\ undefined \in BOOLEAN

(* "Returns true when the erasure doesn't hold any erased object"           *)
(* (function2.hpp:1246): empty() tells the truth, a function holds exactly *)
(* what its vtable is for, no callable is in two of them or lost, and none *)
(* is destroyed or moved where it is not; whatever throws, except that a   *)
(* throwing assignment or swap leaves one of its functions with a vtable   *)
(* for an object that is not there.                                        *)
Truthful ==
  IF undefined
  THEN thrown # {}
  ELSE \A f \in Fn \ thrown : Content(f) = {c \in Callable : place[c] = f}
=============================================================================
