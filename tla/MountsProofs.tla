---------------------------- MODULE MountsProofs ----------------------------
(***************************************************************************)
(* Proofs about Mounts, for any objects, destinations, however nested, and *)
(* trees, and for any number of mounts.                                    *)
(*                                                                         *)
(* Two arguments carry them.  One counts: every destination has as many    *)
(* mounts as objects that believe they have mounted there and failed       *)
(* remounts.  The other matches the mounts with the objects: which mount   *)
(* an object undoes is of no matter, if what is nested comes in the same   *)
(* order among the mounts as among the objects.                            *)
(***************************************************************************)
EXTENDS Mounts, FiniteSetTheorems, TLAPS

(* Steps that keep the mounts, who has mounted and what was left.          *)
Still == /\ UNCHANGED <<mounts, clock, mounted, since, left>>
         /\ orderly' => orderly

(* Steps that take down what is visible at an object's destination.        *)
Undo(o) ==
  /\ mounted[o] /\ CanTakeDown(DestOf[o])
  /\ TakeDown(DestOf[o])
  /\ mounted' = [mounted EXCEPT ![o] = FALSE]
  /\ since' = [since EXCEPT ![o] = 0]
  /\ orderly' = (orderly /\ InOrder(o))
  /\ UNCHANGED <<clock, left>>

(* All that Next does to them.                                             *)
LEMMA MountSteps ==
  ASSUME TypeOK, [Next]_vars
  PROVE  \/ Still
         \/ \E o \in Obj : Mount(o) \/ RemountFails(o) \/ Undo(o)
<1>1. ASSUME NEW o \in Obj,
             \/ SetupFails(o) \/ FirstMountFails(o) \/ UnmountFails(o)
             \/ Detach(o) \/ DestroyTerminates(o) \/ Destroy(o)
      PROVE  Still
  BY <1>1 DEF SetupFails, FirstMountFails, UnmountFails, Detach, Destroy,
    DestroyTerminates, Still, vars, history, TypeOK
<1>2. ASSUME NEW o \in Obj, Unmount(o) \/ DestroyMounted(o)
      PROVE  Undo(o)
  BY <1>2 DEF Unmount, DestroyMounted, MayUnmount, Undo, history
<1>3. ASSUME NEW m \in mounts, Use(m) \/ EndUse(m) PROVE Still
  BY <1>3 DEF Use, EndUse, Still, history
<1>4. CASE Remove \/ RemoveThrows \/ LeaveContainer \/ UNCHANGED vars
  BY <1>4 DEF Remove, RemoveThrows, LeaveContainer, Still, vars, history,
    TypeOK
<1> QED
  BY <1>1, <1>2, <1>3, <1>4 DEF Next

-----------------------------------------------------------------------------
(* Types. *)

(* What Attach adds.                                                       *)
New(o, ro) == [at |-> DestOf[o], by |-> o, ro |-> ro, since |-> clock + 1]

LEMMA NewEntry ==
  ASSUME TypeOK, NEW o \in Obj, NEW ro \in BOOLEAN
  PROVE  New(o, ro) \in Entry
BY MountsAssumption DEF New, Entry, TypeOK

(* A successful mount() and a failed remount attach one mount.             *)
LEMMA Attaches ==
  ASSUME NEW o \in Obj, Mount(o) \/ RemountFails(o)
  PROVE  \E ro \in BOOLEAN :
           mounts' = mounts \cup {New(o, ro)} /\ clock' = clock + 1
<1>1. CASE Mount(o)
  <2>1. ReadOnly(o) \in BOOLEAN
    BY DEF ReadOnly
  <2> HIDE DEF ReadOnly
  <2> QED
    BY <1>1, <2>1 DEF Mount, Attach, New
<1>2. CASE RemountFails(o)
  BY <1>2 DEF RemountFails, Attach, New
<1> QED
  BY <1>1, <1>2

LEMMA InitTypes == Init => TypeOK
<1> SUFFICES ASSUME Init PROVE TypeOK
  OBVIOUS
<1>1. /\ life \in [Obj -> {"live", "gone"}]
      /\ mounted \in [Obj -> BOOLEAN]
      /\ detached \in [Obj -> BOOLEAN]
  BY DEF Init
<1>2. since \in [Obj -> Nat] /\ left \in [Dest -> Nat]
  BY DEF Init
<1>3. data \in [Tree -> {"intact", "changed"}]
  BY DEF Init
<1> QED
  BY <1>1, <1>2, <1>3 DEF Init, TypeOK

LEMMA TypeStep == TypeOK /\ [Next]_vars => TypeOK'
<1> SUFFICES ASSUME TypeOK, [Next]_vars PROVE TypeOK'
  OBVIOUS
<1>1. mounts' \subseteq Entry /\ clock' \in Nat
  <2>1. ASSUME NEW o \in Obj, Mount(o) \/ RemountFails(o)
        PROVE  mounts' \subseteq Entry /\ clock' \in Nat
    BY <2>1, Attaches, NewEntry DEF TypeOK
  <2>2. ASSUME NEW o \in Obj, Undo(o)
        PROVE  mounts' \subseteq Entry /\ clock' \in Nat
    BY <2>2 DEF Undo, TakeDown, TypeOK
  <2>3. CASE Still
    BY <2>3 DEF Still, TypeOK
  <2> QED
    BY <2>1, <2>2, <2>3, MountSteps
<1>2. mounted' \in [Obj -> BOOLEAN] /\ since' \in [Obj -> Nat]
  <2>1. ASSUME NEW o \in Obj, Mount(o) \/ RemountFails(o)
        PROVE  mounted' \in [Obj -> BOOLEAN] /\ since' \in [Obj -> Nat]
    <3>1. clock + 1 \in Nat
      BY DEF TypeOK
    <3> QED
      BY <2>1, <3>1 DEF Mount, RemountFails, TypeOK
  <2>2. ASSUME NEW o \in Obj, Undo(o)
        PROVE  mounted' \in [Obj -> BOOLEAN] /\ since' \in [Obj -> Nat]
    BY <2>2 DEF Undo, TypeOK
  <2> QED
    BY <2>1, <2>2, MountSteps DEF Still, TypeOK
<1>3. left' \in [Dest -> Nat]
  <2>1. ASSUME NEW o \in Obj, RemountFails(o) PROVE left' \in [Dest -> Nat]
    <3>1. left[DestOf[o]] + 1 \in Nat
      BY MountsAssumption DEF TypeOK
    <3> QED
      BY <2>1, <3>1 DEF RemountFails, TypeOK
  <2>2. ASSUME NEW o \in Obj, Mount(o) PROVE UNCHANGED left
    BY <2>2 DEF Mount
  <2> QED
    BY <2>1, <2>2, MountSteps DEF Still, Undo, TypeOK
<1>4. data' \in [Tree -> {"intact", "changed"}]
  <2>1. \A trees : Change(trees) => data' \in [Tree -> {"intact", "changed"}]
    BY DEF Change, TypeOK
  <2> QED
    BY <2>1 DEF Next, Mount, SetupFails, FirstMountFails, RemountFails,
      Unmount, UnmountFails, Detach, Destroy, DestroyMounted,
      DestroyTerminates, Use, EndUse, Remove, RemoveThrows, RemoveFails,
      LeaveContainer, vars, TypeOK
<1>5. life' \in [Obj -> {"live", "gone"}] /\ detached' \in [Obj -> BOOLEAN]
  BY DEF Next, Mount, SetupFails, FirstMountFails, RemountFails, Unmount,
    UnmountFails, Detach, Destroy, DestroyMounted, DestroyTerminates, Use,
    EndUse, Remove, RemoveThrows, LeaveContainer, vars, TypeOK
<1>6. /\ removed' \in BOOLEAN /\ program' \in {"running", "terminated", "done"}
      /\ orderly' \in BOOLEAN
  BY DEF Next, Mount, SetupFails, FirstMountFails, RemountFails, Unmount,
    UnmountFails, Detach, Destroy, DestroyMounted, DestroyTerminates, Use,
    EndUse, Remove, RemoveThrows, LeaveContainer, vars, history, TypeOK
<1> QED
  BY <1>1, <1>2, <1>3, <1>4, <1>5, <1>6 DEF TypeOK

(* Mounts is well typed.  (bind.hpp, tmpfs.hpp, container.cpp:55-69)       *)
THEOREM TypeCorrect == Spec => []TypeOK
BY InitTypes, TypeStep, PTL DEF Spec
-----------------------------------------------------------------------------
(* The mounts are finitely many, of different times, none in the future,    *)
(* and any set of them has a latest one.                                   *)
Dated ==
  /\ IsFiniteSet(mounts)
  /\ \A m \in mounts : m.since <= clock
  /\ \A m, n \in mounts : m.since = n.since => m = n
  /\ \A S \in SUBSET mounts :
       S # {} => \E m \in S : \A n \in S : n.since <= m.since
  /\ \A o \in Obj : since[o] <= clock

LEMMA InitDated == Init => Dated
BY FS_EmptySet DEF Init, Dated

LEMMA AttachDates ==
  ASSUME TypeOK, Dated, NEW o \in Obj, NEW ro \in BOOLEAN,
         mounts' = mounts \cup {New(o, ro)}, clock' = clock + 1,
         since' = since \/ since' = [since EXCEPT ![o] = clock + 1]
  PROVE  Dated'
<1> DEFINE x == New(o, ro)
<1>1. /\ x \in Entry /\ x.since = clock + 1 /\ clock \in Nat
      /\ \A m \in mounts : m.since \in Nat /\ m.since <= clock
  BY NewEntry DEF New, TypeOK, Entry, Dated
<1> HIDE DEF x
<1>2. mounts' = mounts \cup {x}
  BY DEF x
<1>3. IsFiniteSet(mounts')
  BY <1>2, FS_AddElement DEF Dated
<1>4. \A m \in mounts' : m.since \in Nat /\ m.since <= clock'
  BY <1>1, <1>2
<1>5. \A m, n \in mounts' : m.since = n.since => m = n
  BY <1>1, <1>2 DEF Dated
<1>6. ASSUME NEW S \in SUBSET mounts', S # {}
      PROVE  \E m \in S : \A n \in S : n.since <= m.since
  <2>1. CASE x \in S
    BY <1>1, <1>4, <2>1
  <2>2. CASE x \notin S
    BY <1>2, <1>6, <2>2 DEF Dated
  <2> QED
    BY <2>1, <2>2
<1>7. \A q \in Obj : since'[q] <= clock'
  BY <1>1 DEF Dated, TypeOK
<1> QED
  BY <1>3, <1>4, <1>5, <1>6, <1>7 DEF Dated

LEMMA DatedStep == TypeOK /\ Dated /\ [Next]_vars => Dated'
<1> SUFFICES ASSUME TypeOK, Dated, [Next]_vars PROVE Dated'
  OBVIOUS
<1>1. ASSUME NEW o \in Obj, Mount(o) \/ RemountFails(o) PROVE Dated'
  <2>1. since' = since \/ since' = [since EXCEPT ![o] = clock + 1]
    BY <1>1 DEF Mount, RemountFails
  <2> QED
    BY <1>1, <2>1, Attaches, AttachDates
<1>2. ASSUME NEW o \in Obj, Undo(o) PROVE Dated'
  <2>1. mounts' \subseteq mounts /\ clock' = clock
    BY <1>2 DEF Undo, TakeDown
  <2>2. IsFiniteSet(mounts')
    BY <2>1, FS_Subset DEF Dated
  <2>3. \A q \in Obj : since'[q] <= clock'
    BY <1>2, <2>1 DEF Undo, Dated, TypeOK
  <2> QED
    BY <2>1, <2>2, <2>3 DEF Dated
<1>3. CASE Still
  BY <1>3 DEF Still, Dated
<1> QED
  BY <1>1, <1>2, <1>3, MountSteps

(* A covered path leads into the latest mount on it.                       *)
LEMMA TopIs ==
  ASSUME Dated, NEW d, Covered(d)
  PROVE  /\ Top(d) \in mounts /\ Top(d).at \in Upto(d)
         /\ \A n \in OnPath(d) : n.since <= Top(d).since
<1>1. OnPath(d) \in SUBSET mounts /\ OnPath(d) # {}
  BY DEF OnPath, Covered
<1>2. \E m \in OnPath(d) : \A n \in OnPath(d) : n.since <= m.since
  BY <1>1 DEF Dated
<1>3. Top(d) \in OnPath(d) /\ \A n \in OnPath(d) : n.since <= Top(d).since
  BY <1>2 DEF Top
<1> QED
  BY <1>3 DEF OnPath
-----------------------------------------------------------------------------
(* Counting mounts. *)

LEMMA FiniteMounting ==
  ASSUME NEW d
  PROVE  IsFiniteSet(Mounting(d)) /\ Cardinality(Mounting(d)) \in Nat
<1>1. Mounting(d) \in SUBSET Obj
  BY DEF Mounting
<1> QED
  BY <1>1, MountsAssumption, FS_Subset, FS_CardinalityType

LEMMA FiniteAt ==
  ASSUME Dated, NEW d
  PROVE  IsFiniteSet(MountsAt(d)) /\ Cardinality(MountsAt(d)) \in Nat
<1>1. MountsAt(d) \in SUBSET mounts
  BY DEF MountsAt
<1> QED
  BY <1>1, FS_Subset, FS_CardinalityType DEF Dated

(* It is enough to look at one destination and at all others.               *)
LEMMA CountsAt ==
  ASSUME NEW c,
         Cardinality(MountsAt(c)') = Cardinality(Mounting(c)') + left'[c],
         \A d \in Dest \ {c} : /\ MountsAt(d)' = MountsAt(d)
                               /\ Mounting(d)' = Mounting(d)
                               /\ left'[d] = left[d],
         NoStrayMount
  PROVE  NoStrayMount'
<1>1. ASSUME NEW d \in Dest
      PROVE  Cardinality(MountsAt(d)') = Cardinality(Mounting(d)') + left'[d]
  <2>1. CASE d = c
    BY <2>1
  <2>2. CASE d # c
    BY <2>2 DEF NoStrayMount
  <2> QED
    BY <2>1, <2>2
<1> QED
  BY <1>1 DEF NoStrayMount

(* A new mount is one more at its destination.                             *)
LEMMA AttachCounts ==
  ASSUME TypeOK, Dated, NEW o \in Obj, NEW ro \in BOOLEAN,
         mounts' = mounts \cup {New(o, ro)}
  PROVE  /\ Cardinality(MountsAt(DestOf[o])')
              = Cardinality(MountsAt(DestOf[o])) + 1
         /\ \A d \in Dest \ {DestOf[o]} : MountsAt(d)' = MountsAt(d)
<1>1. New(o, ro).at = DestOf[o] /\ New(o, ro).since = clock + 1
  BY DEF New
<1>2. New(o, ro) \notin mounts
  BY <1>1 DEF Dated, TypeOK
<1>3. /\ MountsAt(DestOf[o])' = MountsAt(DestOf[o]) \cup {New(o, ro)}
      /\ New(o, ro) \notin MountsAt(DestOf[o])
      /\ \A d \in Dest \ {DestOf[o]} : MountsAt(d)' = MountsAt(d)
  BY <1>1, <1>2 DEF MountsAt
<1>4. Cardinality(MountsAt(DestOf[o]) \cup {New(o, ro)})
        = Cardinality(MountsAt(DestOf[o])) + 1
  BY <1>3, FiniteAt, FS_AddElement
<1> QED
  BY <1>3, <1>4

LEMMA MountCounts ==
  ASSUME TypeOK, Dated, NoStrayMount, NEW o \in Obj, Mount(o)
  PROVE  NoStrayMount'
<1>1. DestOf[o] \in Dest
  BY MountsAssumption
<1>2. /\ mounted' = [mounted EXCEPT ![o] = TRUE] /\ ~ mounted[o]
      /\ UNCHANGED left
  BY DEF Mount, CanMount
<1>3. PICK ro \in BOOLEAN : mounts' = mounts \cup {New(o, ro)}
  BY Attaches
<1>4. /\ Mounting(DestOf[o])' = Mounting(DestOf[o]) \cup {o}
      /\ o \notin Mounting(DestOf[o])
      /\ \A d \in Dest \ {DestOf[o]} : Mounting(d)' = Mounting(d)
  BY <1>2 DEF Mounting, TypeOK
<1>5. Cardinality(Mounting(DestOf[o])')
        = Cardinality(Mounting(DestOf[o])) + 1
  BY <1>4, FiniteMounting, FS_AddElement
<1>6. /\ Cardinality(MountsAt(DestOf[o]))
           = Cardinality(Mounting(DestOf[o])) + left[DestOf[o]]
      /\ Cardinality(Mounting(DestOf[o])) \in Nat
      /\ left[DestOf[o]] \in Nat
  BY <1>1, FiniteMounting DEF NoStrayMount, TypeOK
<1>7. Cardinality(MountsAt(DestOf[o])')
        = Cardinality(Mounting(DestOf[o])') + left'[DestOf[o]]
  BY <1>2, <1>3, <1>5, <1>6, AttachCounts
<1> QED
  BY <1>2, <1>3, <1>4, <1>7, AttachCounts, CountsAt

LEMMA RemountFailsCounts ==
  ASSUME TypeOK, Dated, NoStrayMount, NEW o \in Obj, RemountFails(o)
  PROVE  NoStrayMount'
<1>1. DestOf[o] \in Dest
  BY MountsAssumption
<1>2. /\ left' = [left EXCEPT ![DestOf[o]] = @ + 1]
      /\ UNCHANGED mounted
  BY DEF RemountFails
<1>3. PICK ro \in BOOLEAN : mounts' = mounts \cup {New(o, ro)}
  BY Attaches
<1>4. \A d : Mounting(d)' = Mounting(d)
  BY <1>2 DEF Mounting
<1>5. /\ Cardinality(MountsAt(DestOf[o]))
           = Cardinality(Mounting(DestOf[o])) + left[DestOf[o]]
      /\ Cardinality(Mounting(DestOf[o])) \in Nat
      /\ left[DestOf[o]] \in Nat /\ left'[DestOf[o]] = left[DestOf[o]] + 1
      /\ \A d \in Dest \ {DestOf[o]} : left'[d] = left[d]
  BY <1>1, <1>2, FiniteMounting DEF NoStrayMount, TypeOK
<1>6. Cardinality(MountsAt(DestOf[o])')
        = Cardinality(Mounting(DestOf[o])') + left'[DestOf[o]]
  BY <1>3, <1>4, <1>5, AttachCounts
<1> QED
  BY <1>3, <1>4, <1>5, <1>6, AttachCounts, CountsAt

LEMMA UndoCounts ==
  ASSUME TypeOK, Dated, NoStrayMount, NEW o \in Obj, Undo(o)
  PROVE  NoStrayMount'
<1> DEFINE d == DestOf[o]
<1>1. d \in Dest
  BY MountsAssumption
<1>2. /\ mounts' = mounts \ {Top(d)}
      /\ mounted[o] /\ mounted' = [mounted EXCEPT ![o] = FALSE]
      /\ UNCHANGED left
  BY DEF Undo, TakeDown
<1>3. Top(d) \in mounts /\ Top(d).at = d
  BY TopIs DEF Undo, CanTakeDown, MountPoint
<1>4. /\ Mounting(d)' = Mounting(d) \ {o} /\ o \in Mounting(d)
      /\ \A e \in Dest \ {d} : Mounting(e)' = Mounting(e)
  BY <1>2 DEF Mounting, TypeOK
<1>5. /\ MountsAt(d)' = MountsAt(d) \ {Top(d)} /\ Top(d) \in MountsAt(d)
      /\ \A e \in Dest \ {d} : MountsAt(e)' = MountsAt(e)
  BY <1>2, <1>3 DEF MountsAt
<1>6. Cardinality(Mounting(d)') = Cardinality(Mounting(d)) - 1
  BY <1>4, FiniteMounting, FS_RemoveElement
<1>7. Cardinality(MountsAt(d)') = Cardinality(MountsAt(d)) - 1
  BY <1>5, FiniteAt, FS_RemoveElement
<1>8. /\ Cardinality(MountsAt(d)) = Cardinality(Mounting(d)) + left[d]
      /\ Cardinality(Mounting(d)) \in Nat /\ left[d] \in Nat
  BY <1>1, FiniteMounting DEF NoStrayMount, TypeOK
<1>9. Cardinality(MountsAt(d)') = Cardinality(Mounting(d)') + left'[d]
  BY <1>2, <1>6, <1>7, <1>8
<1> HIDE DEF d
<1> QED
  BY <1>2, <1>4, <1>5, <1>9, CountsAt

LEMMA InitCounts == Init => NoStrayMount
<1> SUFFICES ASSUME Init, NEW d \in Dest
             PROVE  Cardinality(MountsAt(d)) =
                      Cardinality(Mounting(d)) + left[d]
  BY DEF NoStrayMount
<1>1. MountsAt(d) = {} /\ Mounting(d) = {}
  BY DEF Init, MountsAt, Mounting
<1> QED
  BY <1>1, FS_EmptySet DEF Init

LEMMA StepCounts ==
  TypeOK /\ Dated /\ NoStrayMount /\ [Next]_vars => NoStrayMount'
<1>1. NoStrayMount /\ Still => NoStrayMount'
  BY DEF Still, NoStrayMount, Mounting, MountsAt
<1> QED
  BY <1>1, MountSteps, MountCounts, RemountFailsCounts, UndoCounts

(* No mount survives but those of objects that are mounted, or were         *)
(* detached so, and those of failed remounts, whatever hides whatever.     *)
(* (bind.hpp:82-122)                                                       *)
THEOREM NoneStray == Spec => []NoStrayMount
BY InitTypes, TypeStep, InitDated, DatedStep, InitCounts, StepCounts, PTL
  DEF Spec
-----------------------------------------------------------------------------
(* Trees that are only read. *)

(* Until a remount fails, what is mounted is writable only if it is a tmpfs *)
(* or was asked for so.                                                    *)
Labelled ==
  NothingLeft =>
    \A m \in mounts : m.by \in Binds /\ ~ m.ro => m.by \in Writable

(* What a failed remount has left is never counted down.                   *)
LEMMA LeftStays ==
  ASSUME TypeOK, [Next]_vars, NothingLeft'
  PROVE  NothingLeft /\ \A o \in Obj : ~ RemountFails(o)
<1>1. ASSUME NEW o \in Obj, RemountFails(o) PROVE FALSE
  <2>1. DestOf[o] \in Dest /\ left'[DestOf[o]] # 0
    BY <1>1, MountsAssumption DEF RemountFails, TypeOK
  <2> QED
    BY <2>1 DEF NothingLeft
<1>2. UNCHANGED left
  BY <1>1, MountSteps DEF Mount, Still, Undo
<1> QED
  BY <1>1, <1>2 DEF NothingLeft

LEMMA LabelStep == TypeOK /\ Labelled /\ [Next]_vars => Labelled'
<1> SUFFICES ASSUME TypeOK, Labelled, [Next]_vars, NothingLeft',
                    NEW m \in mounts', m.by \in Binds, ~ m.ro
             PROVE  m.by \in Writable
  BY DEF Labelled, Binds
<1>1. NothingLeft /\ \A o \in Obj : ~ RemountFails(o)
  BY LeftStays
<1>2. ASSUME NEW o \in Obj, Mount(o) PROVE m.by \in Writable
  <2>1. mounts' = mounts \cup {New(o, ReadOnly(o))}
    BY <1>2 DEF Mount, Attach, New
  <2>2. CASE m = New(o, ReadOnly(o))
    BY <2>2 DEF New, ReadOnly
  <2>3. CASE m \in mounts
    BY <1>1, <2>3 DEF Labelled
  <2> QED
    BY <2>1, <2>2, <2>3
<1>3. CASE mounts' \subseteq mounts
  BY <1>1, <1>3 DEF Labelled
<1> QED
  BY <1>1, <1>2, <1>3, MountSteps DEF Still, Undo, TakeDown

(* No mount exposes a tree that is only read.                              *)
LEMMA ExposedIsNot ==
  ASSUME TypeOK, Labelled, NothingLeft, NEW m \in mounts, NEW t \in Exposed(m)
  PROVE  ~ OnlyRead(t)
<1>1. m.by \in Obj /\ m.ro \in BOOLEAN
  BY DEF TypeOK, Entry
<1>2. CASE t \in Brings(m.by)
  BY <1>1, <1>2 DEF OnlyRead
<1>3. CASE ~ m.ro /\ t = SourceOf[m.by]
  BY <1>1, <1>3 DEF Labelled, OnlyRead
<1> QED
  BY <1>2, <1>3 DEF Exposed

LEMMA ChangeSpares ==
  ASSUME TypeOK, NEW trees, Change(trees), NEW t \in Tree, t \notin trees
  PROVE  data'[t] = data[t]
BY DEF Change

(* Neither setting up a destination nor removing the container changes one. *)
LEMMA SetUpSpares ==
  ASSUME TypeOK, Dated, Labelled, NothingLeft, NEW o \in Obj,
         NEW trees \in SetUp(o), NEW t \in trees
  PROVE  ~ OnlyRead(t)
<1>1. Covered(DestOf[o]) /\ t \in Exposed(Top(DestOf[o]))
  BY DEF SetUp
<1> QED
  BY <1>1, TopIs, ExposedIsNot

LEMMA RemovalSpares ==
  ASSUME TypeOK, Dated, Labelled, NothingLeft, NEW d, NEW t \in Emptied(d)
  PROVE  ~ OnlyRead(t)
<1>1. PICK e \in Upto(d) : Covered(e) /\ t \in Exposed(Top(e))
  BY DEF Emptied
<1> QED
  BY <1>1, TopIs, ExposedIsNot

(* Whatever a step does to the data is one of the two.                     *)
LEMMA DataSteps ==
  ASSUME [Next]_vars
  PROVE  \/ data' = data
         \/ \E o \in Obj : \E trees \in SetUp(o) : Change(trees)
         \/ \E d \in Dest : \E trees \in SUBSET Emptied(d) : Change(trees)
<1>1. ASSUME NEW o \in Obj, Mount(o) \/ FirstMountFails(o) \/ RemountFails(o)
      PROVE  \E trees \in SetUp(o) : Change(trees)
  BY <1>1 DEF Mount, FirstMountFails, RemountFails
<1>2. ASSUME NEW o \in Obj,
             \/ SetupFails(o) \/ Unmount(o) \/ UnmountFails(o) \/ Detach(o)
             \/ Destroy(o) \/ DestroyMounted(o) \/ DestroyTerminates(o)
      PROVE  data' = data
  BY <1>2 DEF SetupFails, Unmount, UnmountFails, Detach, Destroy,
    DestroyMounted, DestroyTerminates, vars
<1>3. ASSUME NEW m \in mounts, Use(m) \/ EndUse(m) PROVE data' = data
  BY <1>3 DEF Use, EndUse
<1>4. CASE Remove \/ UNCHANGED vars
  BY <1>4 DEF Remove, vars
<1>5. CASE RemoveThrows \/ LeaveContainer
  BY <1>5 DEF RemoveThrows, LeaveContainer, RemoveFails
<1> QED
  BY <1>1, <1>2, <1>3, <1>4, <1>5 DEF Next

LEMMA IntactStep ==
  TypeOK /\ Dated /\ Labelled /\ ReadOnlySourceIntact /\ [Next]_vars
    => ReadOnlySourceIntact'
<1> SUFFICES ASSUME TypeOK, Dated, Labelled, ReadOnlySourceIntact,
                    [Next]_vars, NothingLeft', NEW t \in Tree, OnlyRead(t)
             PROVE  data'[t] = "intact"
  BY DEF ReadOnlySourceIntact, OnlyRead, Binds, Brings
<1>1. NothingLeft
  BY LeftStays
<1>2. data[t] = "intact"
  BY <1>1 DEF ReadOnlySourceIntact
<1>3. data'[t] = data[t]
  <2>1. ASSUME NEW o \in Obj, NEW trees \in SetUp(o), Change(trees)
        PROVE  data'[t] = data[t]
    <3>1. t \notin trees
      BY <1>1, SetUpSpares
    <3> QED
      BY <2>1, <3>1, ChangeSpares
  <2>2. ASSUME NEW d \in Dest, NEW trees \in SUBSET Emptied(d), Change(trees)
        PROVE  data'[t] = data[t]
    <3>1. t \notin trees
      BY <1>1, RemovalSpares
    <3> QED
      BY <2>2, <3>1, ChangeSpares
  <2> QED
    BY <2>1, <2>2, DataSteps
<1> QED
  BY <1>2, <1>3

(* A tree that is bound without ALLOW_WRITE only, and is mounted in none    *)
(* that is bound without NO_REC, is never modified through its binds       *)
(* unless a remount has failed.  (bind.hpp:38, 82-99; container.cpp:57)    *)
THEOREM ReadOnlyKept == Spec => []ReadOnlySourceIntact
<1>1. Init => Labelled /\ ReadOnlySourceIntact
  BY DEF Init, Labelled, ReadOnlySourceIntact
<1> QED
  BY <1>1, InitTypes, TypeStep, InitDated, DatedStep, LabelStep, IntactStep,
    PTL DEF Spec
-----------------------------------------------------------------------------
(* The end of the program. *)

(* The mounts are one for each mounted object, at its destination, and what *)
(* is nested comes in the same order among both.  An object's mount in     *)
(* this sense need not be the one it made.                                 *)
Matches(f) ==
  /\ f \in [mounts -> Obj]
  /\ \A m \in mounts : mounted[f[m]] /\ DestOf[f[m]] = m.at
  /\ \A m, n \in mounts : f[m] = f[n] => m = n
  /\ \A o \in Obj : mounted[o] => \E m \in mounts : f[m] = o
  /\ \A m, n \in mounts :
       Nested(m.at, n.at) =>
         (m.since < n.since <=> since[f[m]] < since[f[n]])

Matched == orderly /\ NothingLeft => \E f : Matches(f)

LEMMA InitMatched == Init => Matched
<1> SUFFICES ASSUME Init PROVE \E f : Matches(f)
  BY DEF Matched
<1> DEFINE f == [m \in mounts |-> CHOOSE o \in Obj : TRUE]
<1>1. mounts = {} /\ \A o \in Obj : ~ mounted[o]
  BY DEF Init
<1>2. f \in [mounts -> Obj]
  BY <1>1
<1>3. Matches(f)
  BY <1>1, <1>2 DEF Matches
<1> QED
  BY <1>3

LEMMA MountMatches ==
  ASSUME TypeOK, Dated, NEW o \in Obj, Mount(o), NEW f, Matches(f)
  PROVE  \E g : Matches(g)'
<1>1. PICK ro \in BOOLEAN : mounts' = mounts \cup {New(o, ro)}
  BY Attaches
<1>2. /\ ~ mounted[o]
      /\ mounted' = [mounted EXCEPT ![o] = TRUE]
      /\ since' = [since EXCEPT ![o] = clock + 1]
  BY DEF Mount, CanMount
<1> DEFINE x == New(o, ro)
           g == [m \in mounts' |-> IF m \in mounts THEN f[m] ELSE o]
<1>3. x.at = DestOf[o] /\ x.since = clock + 1
  BY DEF New
<1>4. x \notin mounts
  BY <1>3 DEF Dated, TypeOK
<1> HIDE DEF x
<1>5. /\ g \in [mounts' -> Obj]
      /\ g[x] = o
      /\ \A m \in mounts : g[m] = f[m] /\ f[m] \in Obj /\ f[m] # o
  BY <1>1, <1>2, <1>4 DEF Matches, x
<1> HIDE DEF g
<1>6. mounts' = mounts \cup {x}
  BY <1>1 DEF x
<1>7. /\ \A m \in mounts : since'[f[m]] = since[f[m]] /\ mounted'[f[m]]
      /\ since'[o] = clock + 1 /\ mounted'[o]
      /\ \A q \in Obj \ {o} : mounted'[q] = mounted[q]
  BY <1>2, <1>5 DEF TypeOK, Matches
<1>8. \A m \in mounts' : mounted'[g[m]] /\ DestOf[g[m]] = m.at
  BY <1>3, <1>5, <1>6, <1>7 DEF Matches
<1>9. \A m, n \in mounts' : g[m] = g[n] => m = n
  BY <1>5, <1>6 DEF Matches
<1>10. \A q \in Obj : mounted'[q] => \E m \in mounts' : g[m] = q
  BY <1>5, <1>6, <1>7 DEF Matches
<1>11. /\ \A m \in mounts : m.since < x.since /\ since[f[m]] < clock + 1
       /\ \A m \in mounts : m.since \in Nat /\ since[f[m]] \in Nat
       /\ clock + 1 \in Nat
  BY <1>3, <1>5 DEF Dated, TypeOK, Entry
<1>12. ASSUME NEW m \in mounts', NEW n \in mounts', Nested(m.at, n.at)
       PROVE  m.since < n.since <=> since'[g[m]] < since'[g[n]]
  <2>1. CASE m \in mounts /\ n \in mounts
    BY <1>5, <1>7, <1>12, <2>1 DEF Matches
  <2>2. CASE m = x /\ n = x
    BY <1>3, <1>5, <1>7, <1>11, <2>2
  <2>3. CASE m = x /\ n \in mounts
    BY <1>3, <1>5, <1>7, <1>11, <2>3
  <2>4. CASE m \in mounts /\ n = x
    BY <1>3, <1>5, <1>7, <1>11, <2>4
  <2> QED
    BY <1>6, <2>1, <2>2, <2>3, <2>4
<1>13. PICK h : h = g
  OBVIOUS
<1>14. Matches(h)'
  BY <1>5, <1>8, <1>9, <1>10, <1>12, <1>13 DEF Matches, Nested
<1> QED
  BY <1>14

(* In order, an object finds at its destination a mount that carries none,  *)
(* and nothing nested is later than the one that is matched with it.       *)
LEMMA UndoFinds ==
  ASSUME TypeOK, Dated, NEW f, Matches(f), NEW o \in Obj, mounted[o],
         InOrder(o), NEW m \in mounts, f[m] = o
  PROVE  /\ MountPoint(DestOf[o]) /\ Carried(Top(DestOf[o])) = {}
         /\ \A n \in mounts :
              Nested(n.at, DestOf[o]) => ~ (m.since < n.since)
<1> DEFINE d == DestOf[o]
<1>1. m.at = d /\ d \in Dest
  BY MountsAssumption DEF Matches
<1>2. ASSUME NEW n \in mounts, Nested(n.at, d) PROVE ~ (m.since < n.since)
  <2>1. f[n] \in Obj /\ mounted[f[n]] /\ DestOf[f[n]] = n.at
    BY DEF Matches
  <2>2. ~ (since[f[n]] > since[o])
    BY <1>2, <2>1 DEF InOrder
  <2>3. Nested(m.at, n.at)
    BY <1>1, <1>2 DEF Nested
  <2>4. since[f[n]] \in Nat /\ since[o] \in Nat
    BY <2>1 DEF TypeOK
  <2> QED
    BY <2>2, <2>3, <2>4 DEF Matches
<1>3. m \in OnPath(d)
  BY <1>1 DEF OnPath, Upto
<1>4. Covered(d)
  BY <1>3 DEF Covered
<1> DEFINE t == Top(d)
<1>5. t \in mounts /\ t.at \in Upto(d) /\ m.since <= t.since
  BY <1>3, <1>4, TopIs
<1>6. m.since \in Nat /\ \A n \in mounts : n.since \in Nat
  BY DEF TypeOK, Entry
<1> HIDE DEF t
<1>7. t.at = d
  <2> SUFFICES ASSUME t.at # d PROVE FALSE
    OBVIOUS
  <2>1. Nested(t.at, d)
    BY <1>5 DEF Upto, Nested
  <2>2. t.since # m.since
    BY <1>1, <1>5 DEF Dated
  <2> QED
    BY <1>2, <1>5, <1>6, <2>1, <2>2
<1>8. Carried(t) = {}
  <2> SUFFICES ASSUME NEW n \in Carried(t) PROVE FALSE
    OBVIOUS
  <2>1. n \in mounts /\ Nested(n.at, d) /\ n.since > t.since
    BY <1>7 DEF Carried, Nested
  <2> QED
    BY <1>2, <1>5, <1>6, <2>1
<1> QED
  BY <1>2, <1>4, <1>7, <1>8 DEF MountPoint, t

LEMMA UndoMatches ==
  ASSUME TypeOK, Dated, NEW o \in Obj, Undo(o), InOrder(o), NEW f, Matches(f)
  PROVE  \E g : Matches(g)'
<1> DEFINE d == DestOf[o]
           t == Top(d)
<1>1. /\ mounts' = mounts \ {t}
      /\ mounted[o] /\ mounted' = [mounted EXCEPT ![o] = FALSE]
      /\ since' = [since EXCEPT ![o] = 0]
  BY DEF Undo, TakeDown
<1>2. t \in mounts /\ t.at = d
  BY TopIs DEF Undo, CanTakeDown, MountPoint
<1>3. PICK m0 \in mounts : f[m0] = o
  BY <1>1 DEF Matches
<1>4. m0.at = d /\ m0.since <= t.since
  <2>1. m0.at = d
    BY <1>3 DEF Matches
  <2>2. d \in Upto(d)
    BY MountsAssumption DEF Upto
  <2> QED
    BY <2>1, <2>2, TopIs DEF OnPath, Covered
<1>5. \A n \in mounts : Nested(n.at, d) => ~ (m0.since < n.since)
  BY <1>1, <1>3, UndoFinds
<1> DEFINE g == [m \in mounts' |-> IF m = m0 THEN f[t] ELSE f[m]]
<1> HIDE DEF t, d
<1>6. /\ g \in [mounts' -> Obj]
      /\ \A m \in mounts' : /\ m \in mounts /\ m # t
                            /\ m = m0 => g[m] = f[t]
                            /\ m # m0 => g[m] = f[m]
                            /\ g[m] # o
  BY <1>1, <1>2, <1>3 DEF Matches
<1>7. \A q \in Obj \ {o} : mounted'[q] = mounted[q] /\ since'[q] = since[q]
  BY <1>1 DEF TypeOK
<1> HIDE DEF g
<1>8. \A m \in mounts' : mounted'[g[m]] /\ DestOf[g[m]] = m.at
  BY <1>2, <1>4, <1>6, <1>7 DEF Matches
<1>9. \A m, n \in mounts' : g[m] = g[n] => m = n
  BY <1>2, <1>6 DEF Matches
<1>10. ASSUME NEW q \in Obj, mounted'[q] PROVE \E m \in mounts' : g[m] = q
  <2>1. q # o /\ mounted[q]
    BY <1>1, <1>10 DEF TypeOK
  <2>2. PICK m \in mounts : f[m] = q
    BY <2>1 DEF Matches
  <2>3. m # m0
    BY <1>3, <2>1, <2>2
  <2>4. CASE m # t
    BY <1>1, <1>6, <2>2, <2>3, <2>4
  <2>5. CASE m = t
    BY <1>1, <1>6, <2>2, <2>3, <2>5
  <2> QED
    BY <2>4, <2>5
<1>11. \A m \in mounts : m.since \in Nat /\ since[f[m]] \in Nat
  BY DEF TypeOK, Entry, Matches
<1>12. \A m, n \in mounts : m.since = n.since => m = n
  BY DEF Dated
<1>13. ASSUME NEW m \in mounts', NEW n \in mounts', Nested(m.at, n.at)
       PROVE  m.since < n.since <=> since'[g[m]] < since'[g[n]]
  <2>1. m \in mounts /\ n \in mounts
    BY <1>6
  <2>2. since'[g[m]] = since[g[m]] /\ since'[g[n]] = since[g[n]]
    BY <1>6, <1>7
  <2>3. CASE m # m0 /\ n # m0
    BY <1>6, <1>13, <2>1, <2>2, <2>3 DEF Matches
  <2>4. CASE m = m0 /\ n # m0
    <3>1. Nested(t.at, n.at) /\ Nested(n.at, d)
      BY <1>2, <1>4, <1>13, <2>4 DEF Nested
    <3>2. t.since < n.since <=> since[f[t]] < since[f[n]]
      BY <1>2, <2>1, <3>1 DEF Matches
    <3>3. ~ (m0.since < n.since) /\ ~ (t.since < n.since)
      BY <1>2, <1>4, <1>5, <1>11, <2>1, <3>1
    <3> QED
      BY <1>6, <2>2, <2>4, <3>2, <3>3
  <2>5. CASE m # m0 /\ n = m0
    <3>1. Nested(m.at, t.at) /\ Nested(m.at, d)
      BY <1>2, <1>4, <1>13, <2>5 DEF Nested
    <3>2. m.since < t.since <=> since[f[m]] < since[f[t]]
      BY <1>2, <2>1, <3>1 DEF Matches
    <3>3. m.since < m0.since
      BY <1>5, <1>11, <1>12, <2>1, <2>5, <3>1
    <3>4. m.since < t.since
      BY <1>2, <1>4, <1>11, <2>1, <3>3
    <3> QED
      BY <1>6, <2>2, <2>5, <3>2, <3>3, <3>4
  <2>6. CASE m = m0 /\ n = m0
    <3>1. f[t] \in Obj /\ since[f[t]] \in Nat
      BY <1>2, <1>11 DEF Matches
    <3> QED
      BY <1>6, <1>11, <2>2, <2>6, <3>1
  <2> QED
    BY <2>3, <2>4, <2>5, <2>6
<1>14. PICK h : h = g
  OBVIOUS
<1>15. Matches(h)'
  BY <1>6, <1>8, <1>9, <1>10, <1>13, <1>14 DEF Matches, Nested
<1> QED
  BY <1>15

LEMMA MatchedStep == TypeOK /\ Dated /\ Matched /\ [Next]_vars => Matched'
<1> SUFFICES ASSUME TypeOK, Dated, Matched, [Next]_vars, orderly',
                    NothingLeft'
             PROVE  (\E f : Matches(f))'
  BY DEF Matched
<1>1. NothingLeft /\ \A o \in Obj : ~ RemountFails(o)
  BY LeftStays
<1>2. ASSUME NEW o \in Obj, Mount(o) PROVE (\E f : Matches(f))'
  <2>1. orderly
    BY <1>2 DEF Mount
  <2> QED
    BY <1>1, <1>2, <2>1, MountMatches DEF Matched
<1>3. ASSUME NEW o \in Obj, Undo(o) PROVE (\E f : Matches(f))'
  <2>1. orderly /\ InOrder(o)
    BY <1>3 DEF Undo
  <2> QED
    BY <1>1, <1>3, <2>1, UndoMatches DEF Matched
<1>4. CASE Still
  <2>1. PICK f : Matches(f)
    BY <1>1, <1>4 DEF Matched, Still
  <2>2. Matches(f)'
    BY <1>4, <2>1 DEF Matches, Still, Nested
  <2> QED
    BY <2>2
<1> QED
  BY <1>1, <1>2, <1>3, <1>4, MountSteps

(* While all is orderly, who is mounted lives, and will unmount.            *)
MountedLive ==
  orderly => \A o \in Obj : ~ detached[o] /\ (mounted[o] => life[o] = "live")

LEMMA LiveStep == TypeOK /\ MountedLive /\ [Next]_vars => MountedLive'
<1> SUFFICES ASSUME TypeOK, MountedLive, [Next]_vars, orderly', NEW o \in Obj
             PROVE  ~ detached'[o] /\ (mounted'[o] => life'[o] = "live")
  BY DEF MountedLive
<1>1. ASSUME NEW q \in Obj,
             \/ SetupFails(q) \/ FirstMountFails(q) \/ Mount(q)
             \/ RemountFails(q) \/ Unmount(q) \/ UnmountFails(q)
      PROVE  ~ detached'[o] /\ (mounted'[o] => life'[o] = "live")
  BY <1>1 DEF SetupFails, FirstMountFails, Mount, CanMount, RemountFails,
    Unmount, UnmountFails, MountedLive, TypeOK, vars, history
<1>2. ASSUME NEW q \in Obj, DestroyMounted(q) \/ Destroy(q)
      PROVE  ~ detached'[o] /\ (mounted'[o] => life'[o] = "live")
  BY <1>2 DEF DestroyMounted, Destroy, MountedLive, TypeOK, history
<1>3. ASSUME NEW q \in Obj, Detach(q) \/ DestroyTerminates(q)
      PROVE  ~ detached'[o] /\ (mounted'[o] => life'[o] = "live")
  BY <1>3 DEF Detach, DestroyTerminates, MountedLive, TypeOK
<1>4. ASSUME NEW m \in mounts, Use(m) \/ EndUse(m)
      PROVE  ~ detached'[o] /\ (mounted'[o] => life'[o] = "live")
  BY <1>4 DEF Use, EndUse, MountedLive, history
<1>5. CASE Remove \/ RemoveThrows \/ LeaveContainer \/ UNCHANGED vars
  BY <1>5 DEF Remove, RemoveThrows, LeaveContainer, MountedLive, vars, history
<1> QED
  BY <1>1, <1>2, <1>3, <1>4, <1>5 DEF Next

LEMMA TerminatedStep ==
  TypeOK /\ Dated /\ Matched /\ MountedLive /\ NeverTerminated /\ [Next]_vars
    => NeverTerminated'
<1> SUFFICES ASSUME TypeOK, Dated, Matched, MountedLive, NeverTerminated,
                    [Next]_vars, orderly', NothingLeft', NothingBrought',
                    inUse' = {}, program' = "terminated"
             PROVE  FALSE
  BY DEF NeverTerminated
<1>1. NothingLeft
  BY LeftStays
<1>2. ASSUME NEW o \in Obj, DestroyTerminates(o) PROVE FALSE
  <2>1. orderly /\ InOrder(o) /\ mounted[o] /\ ~ CanTakeDown(DestOf[o])
    BY <1>2 DEF DestroyTerminates, MayUnmount
  <2>2. mounts' = mounts /\ inUse = {}
    BY <1>2 DEF DestroyTerminates
  <2>3. PICK f : Matches(f)
    BY <1>1, <2>1 DEF Matched
  <2>4. PICK m \in mounts : f[m] = o
    BY <2>1, <2>3 DEF Matches
  <2>5. MountPoint(DestOf[o]) /\ Carried(Top(DestOf[o])) = {}
    BY <2>1, <2>3, <2>4, UndoFinds
  <2>6. Top(DestOf[o]) \in mounts
    BY <2>5, TopIs DEF MountPoint
  <2>7. Brings(Top(DestOf[o]).by) = {}
    BY <2>2, <2>6 DEF NothingBrought, Brings
  <2> QED
    BY <2>1, <2>2, <2>5, <2>7 DEF CanTakeDown, Busy
<1>3. CASE LeaveContainer
  <2>1. orderly /\ \A o \in Obj : life[o] # "live"
    BY <1>3 DEF LeaveContainer
  <2>2. PICK d \in Dest : MountPoint(d)
    BY <1>3 DEF LeaveContainer, RemoveFails
  <2>3. Top(d) \in mounts
    BY <2>2, TopIs DEF MountPoint
  <2>4. \E o \in Obj : mounted[o]
    BY <1>1, <2>1, <2>3 DEF Matched, Matches
  <2> QED
    BY <2>1, <2>4 DEF MountedLive
<1>4. CASE \/ Remove \/ RemoveThrows
           \/ \E m \in mounts : Use(m) \/ EndUse(m)
           \/ \E o \in Obj :
                \/ SetupFails(o) \/ FirstMountFails(o) \/ Mount(o)
                \/ RemountFails(o) \/ Unmount(o) \/ UnmountFails(o)
                \/ Detach(o) \/ DestroyMounted(o) \/ Destroy(o)
  <2>1. program' = program
    BY <1>4 DEF Remove, RemoveThrows, SetupFails, FirstMountFails, Mount,
      RemountFails, Unmount, UnmountFails, Detach, DestroyMounted, Destroy,
      Use, EndUse, vars
  <2>2. program = "running" \/ UNCHANGED vars
    BY <1>4 DEF Remove, RemoveThrows, SetupFails, FirstMountFails, Mount,
      CanMount, RemountFails, Unmount, UnmountFails, MayUnmount, Detach,
      DestroyMounted, Destroy, Use, EndUse, Running
  <2>3. CASE UNCHANGED vars
    BY <1>1, <2>3 DEF vars, history, NeverTerminated, NothingBrought, Brings
  <2> QED
    BY <2>1, <2>2, <2>3
<1>5. CASE UNCHANGED vars
  BY <1>1, <1>5 DEF vars, history, NeverTerminated, NothingBrought, Brings
<1> QED
  BY <1>2, <1>3, <1>4, <1>5 DEF Next

(* Objects that are undone before their container, nested ones in reverse   *)
(* order and all others in any, never end the program in a destructor      *)
(* unless a mount is in use, a remount has failed, or a recursive bind has *)
(* brought others' mounts.  (bind.hpp:112-122, container.cpp:65)           *)
THEOREM OrderlyEnds == Spec => []NeverTerminated
<1>1. Init => MountedLive /\ NeverTerminated
  BY DEF Init, MountedLive, NeverTerminated
<1> QED
  BY <1>1, InitTypes, TypeStep, InitDated, DatedStep, InitMatched,
    MatchedStep, LiveStep, TerminatedStep, PTL DEF Spec
=============================================================================
