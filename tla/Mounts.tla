------------------------------- MODULE Mounts -------------------------------
(***************************************************************************)
(* The mount objects (mount/bind.hpp, mount/tmpfs.hpp) inside a Container, *)
(* and the Container's removal (container.cpp).                            *)
(*                                                                         *)
(* An object knows whether it has mounted; the kernel has the mounts.  A   *)
(* mount hides what was at its destination and below, so a path leads into *)
(* the latest mount made at it or at a directory it is in, and umount()    *)
(* wants the path of such a mount with none on top of it.                  *)
(***************************************************************************)
EXTENDS Naturals, FiniteSets

CONSTANTS Obj, Dest, Tree,
          Kind,       \* of each object: FileBind, DirectoryBind or TmpFs
          DestOf,     \* its destination_, a path in the container
          Below,      \* <<d, e>>: the path d lies in the directory e
          SourceOf,   \* the tree it shows: its source_, or a tmpfs's own
          Inside,     \* the trees that are mounted inside each tree
          Writable,   \* the objects made with ALLOW_WRITE
          NoRec,      \* those made with NO_REC
          Faults,     \* which of these happen: see MountsAssumption
          MaxMounts   \* bound of the mounts ever made

Binds == {o \in Obj : Kind[o] # "tmpfs"}

ASSUME MountsAssumption ==
  /\ IsFiniteSet(Obj)
  /\ Kind \in [Obj -> {"file", "dir", "tmpfs"}]
  /\ DestOf \in [Obj -> Dest]
  /\ Below \subseteq Dest \X Dest
  /\ SourceOf \in [Obj -> Tree]
  /\ Inside \in [Tree -> SUBSET Tree]
  /\ Writable \subseteq Obj
  /\ NoRec \subseteq Obj
  \* a path is a file or a directory, and nothing is in a file
  /\ \A o, q \in Obj :
       DestOf[o] = DestOf[q] => (Kind[o] = "file" <=> Kind[q] = "file")
  /\ \A o, q \in Obj :
       <<DestOf[q], DestOf[o]>> \in Below => Kind[o] # "file"
  \* a step of mount() fails
  /\ Faults \subseteq {"setup", "mount", "remount"}
  /\ MaxMounts \in Nat \ {0}

VARIABLES
  life,      \* of each object: live, gone (its constructor does nothing)
  mounted,   \* mounted_
  detached,  \* detached_
  mounts,    \* kernel: the mounts, each with the time it was made
  clock,     \* the time of the last one
  inUse,     \* kernel: the mounts somebody has a file or a directory open in
  data,      \* is what a tree contains as its owner left it?
  removed,   \* removed_ of the container
  program,   \* running, or ended by std::terminate, or done with its container
  since,     \* history: the time each mounted object mounted
  left,      \* history: the mounts that failed calls of mount() have left
  orderly    \* history: nobody has detached an object, or undone it with a
             \* later one in the way, or used one after its container

history == <<since, left, orderly>>
vars == <<life, mounted, detached, mounts, clock, inUse, data, removed,
          program, history>>

Init ==
  /\ life = [o \in Obj |-> "live"]
  /\ mounted = [o \in Obj |-> FALSE]
  /\ detached = [o \in Obj |-> FALSE]
  /\ mounts = {}
  /\ clock = 0
  /\ inUse = {}
  /\ data = [t \in Tree |-> "intact"]
  /\ removed = FALSE
  /\ program = "running"
  /\ since = [o \in Obj |-> 0]
  /\ left = [d \in Dest |-> 0]
  /\ orderly = TRUE

Running == program = "running"

-----------------------------------------------------------------------------
(* The kernel. *)

(* A path and the directories it is in. *)
Upto(d) == {e \in Dest : e = d \/ <<d, e>> \in Below}
OnPath(d) == {m \in mounts : m.at \in Upto(d)}

(* The mount that a path leads into: the latest on it. *)
Covered(d) == OnPath(d) # {}
Top(d) == CHOOSE m \in OnPath(d) : \A n \in OnPath(d) : n.since <= m.since
MountPoint(d) == Covered(d) /\ Top(d).at = d

(* A bind without NO_REC brings what is mounted inside its source. *)
Brings(o) ==
  IF Kind[o] = "dir" /\ o \notin NoRec THEN Inside[SourceOf[o]] ELSE {}

(* The trees that can be written through a mount: a remount makes the top   *)
(* one read-only, and no mount that came with it.                          *)
Exposed(m) == (IF m.ro THEN {} ELSE {SourceOf[m.by]}) \cup Brings(m.by)

(* umount() fails over an open file, and over a mount that carries others:  *)
(* made on it later, or brought by it.                                     *)
Carried(m) == {n \in mounts : <<n.at, m.at>> \in Below /\ n.since > m.since}
Busy(m) == m \in inUse \/ Carried(m) # {} \/ Brings(m.by) # {}
CanTakeDown(d) == MountPoint(d) /\ ~ Busy(Top(d))

Attach(o, ro) ==
  /\ clock' = clock + 1
  /\ mounts' = mounts \cup
       {[at |-> DestOf[o], by |-> o, ro |-> ro, since |-> clock + 1]}

TakeDown(d) == mounts' = mounts \ {Top(d)}

Change(trees) ==
  data' = [t \in Tree |-> IF t \in trees THEN "changed" ELSE data[t]]

(* Somebody opens a file in a mount he sees, and closes it. *)
Use(m) ==
  /\ Running
  /\ inUse = {}                            \* bound: in one mount at a time
  /\ m = Top(m.at)
  /\ inUse' = inUse \cup {m}
  /\ UNCHANGED <<life, mounted, detached, mounts, clock, data, removed,
                 program, history>>

EndUse(m) ==
  /\ Running
  /\ inUse' = inUse \ {m}
  /\ UNCHANGED <<life, mounted, detached, mounts, clock, data, removed,
                 program, history>>

-----------------------------------------------------------------------------
(* What CheckAndSetupDestination may change: it creates the directories,    *)
(* unless they exist, and opens the destination of a file bind with an     *)
(* ofstream, which truncates the file that is visible there.  Through a    *)
(* mount this happens to a tree of that mount, and a read-only one has     *)
(* none that would let it.                                                 *)
SetUp(o) ==
  LET d == DestOf[o]
  IN  IF ~ Covered(d) \/ (Kind[o] # "file" /\ MountPoint(d)) THEN {{}}
      ELSE {{t} : t \in Exposed(Top(d))} \cup
           (IF Kind[o] = "file" THEN {} ELSE {{}})

(* Mutant: the second mount() call is forgotten. *)
ReadOnlyNever(o) == FALSE

ReadOnly(o) == o \in Binds \ Writable

(* A program is done with a container that it has removed. *)
CanMount(o) ==
  /\ Running /\ ~ removed
  /\ life[o] = "live"
  /\ ~ mounted[o] /\ ~ detached[o]         \* SEX_ASSERT

(* Mutant: source and destination exchanged in the mount() call. *)
MountExchanged(o) ==
  /\ CanMount(o)
  /\ clock < MaxMounts
  /\ \E trees \in SetUp(o) : Change(trees)
  /\ clock' = clock + 1
  /\ mounts' = mounts \cup {[at |-> SourceOf[o], by |-> o,
                             ro |-> ReadOnly(o), since |-> clock + 1]}
  /\ mounted' = [mounted EXCEPT ![o] = TRUE]
  /\ since' = [since EXCEPT ![o] = clock + 1]
  /\ UNCHANGED <<life, detached, inUse, removed, program, left, orderly>>

Mount(o) ==
  /\ CanMount(o)
  /\ clock < MaxMounts
  /\ \E trees \in SetUp(o) : Change(trees)
  /\ Attach(o, ReadOnly(o))
  /\ mounted' = [mounted EXCEPT ![o] = TRUE]
  /\ since' = [since EXCEPT ![o] = clock + 1]
  /\ UNCHANGED <<life, detached, inUse, removed, program, left, orderly>>

(* The errors of mount(), in the order of its steps. *)
SetupFails(o) ==
  /\ CanMount(o)
  /\ "setup" \in Faults \/ SetUp(o) = {}
  /\ UNCHANGED vars

FirstMountFails(o) ==
  /\ CanMount(o)
  /\ "mount" \in Faults
  /\ \E trees \in SetUp(o) : Change(trees)
  /\ UNCHANGED <<life, mounted, detached, mounts, clock, inUse, removed,
                 program, history>>

(* The first mount stays, writable. *)
RemountFails(o) ==
  /\ CanMount(o) /\ ReadOnly(o)
  /\ "remount" \in Faults
  /\ clock < MaxMounts
  /\ \E trees \in SetUp(o) : Change(trees)
  /\ Attach(o, FALSE)
  /\ left' = [left EXCEPT ![DestOf[o]] = @ + 1]
  /\ UNCHANGED <<life, mounted, detached, inUse, removed, program, since,
                 orderly>>

-----------------------------------------------------------------------------
(* umount takes the mount the path leads into, whoever mounted it. *)

Nested(d, e) == <<d, e>> \in Below \/ <<e, d>> \in Below

(* No object that was mounted later has its destination in this one's, or   *)
(* this one in its own.                                                    *)
InOrder(o) ==
  ~ \E q \in Obj : /\ mounted[q] /\ since[q] > since[o]
                   /\ Nested(DestOf[q], DestOf[o])

MayUnmount(o) ==
  /\ Running
  /\ life[o] = "live" /\ mounted[o] /\ ~ detached[o]

(* Mutant: a lazy umount that leaves mounted_ set. *)
UnmountStays(o) ==
  /\ MayUnmount(o)
  /\ CanTakeDown(DestOf[o])
  /\ TakeDown(DestOf[o])
  /\ orderly' = (orderly /\ InOrder(o))
  /\ UNCHANGED <<life, mounted, detached, clock, inUse, data, removed,
                 program, since, left>>

Unmount(o) ==
  /\ MayUnmount(o)
  /\ CanTakeDown(DestOf[o])
  /\ TakeDown(DestOf[o])
  /\ mounted' = [mounted EXCEPT ![o] = FALSE]
  /\ since' = [since EXCEPT ![o] = 0]
  /\ orderly' = (orderly /\ InOrder(o))
  /\ UNCHANGED <<life, detached, clock, inUse, data, removed, program, left>>

(* umount() reports an error, and the object stays mounted. *)
UnmountFails(o) ==
  /\ MayUnmount(o)
  /\ ~ CanTakeDown(DestOf[o])
  /\ UNCHANGED vars

(* detach() is for an rvalue: the object's last use. *)
Detach(o) ==
  /\ Running
  /\ life[o] = "live" /\ ~ detached[o]
  /\ detached' = [detached EXCEPT ![o] = TRUE]
  /\ orderly' = FALSE
  /\ UNCHANGED <<life, mounted, mounts, clock, inUse, data, removed, program,
                 since, left>>

(* Mutant: a destructor that does not unmount. *)
DestroyForgets(o) ==
  /\ MayUnmount(o)
  /\ CanTakeDown(DestOf[o])
  /\ life' = [life EXCEPT ![o] = "gone"]
  /\ mounted' = [mounted EXCEPT ![o] = FALSE]
  /\ UNCHANGED <<mounts, detached, clock, inUse, data, removed, program,
                 history>>

DestroyMounted(o) ==
  /\ MayUnmount(o)
  /\ CanTakeDown(DestOf[o])
  /\ TakeDown(DestOf[o])
  /\ life' = [life EXCEPT ![o] = "gone"]
  /\ mounted' = [mounted EXCEPT ![o] = FALSE]
  /\ since' = [since EXCEPT ![o] = 0]
  /\ orderly' = (orderly /\ InOrder(o))
  /\ UNCHANGED <<detached, clock, inUse, data, removed, program, left>>

(* umount fails, and ensure() throws in a destructor. *)
DestroyTerminates(o) ==
  /\ MayUnmount(o)
  /\ ~ CanTakeDown(DestOf[o])
  /\ program' = "terminated"
  /\ orderly' = (orderly /\ InOrder(o))
  /\ UNCHANGED <<life, mounted, detached, mounts, clock, inUse, data,
                 removed, since, left>>

(* A destructor that has nothing to undo. *)
Destroy(o) ==
  /\ Running
  /\ life[o] = "live"
  /\ ~ mounted[o] \/ detached[o]
  /\ life' = [life EXCEPT ![o] = "gone"]
  /\ UNCHANGED <<mounted, detached, mounts, clock, inUse, data, removed,
                 program, history>>

-----------------------------------------------------------------------------
(* remove_all() empties whatever it finds, through mounts too, and fails at *)
(* the first mount point it comes to.  On the way it may have changed any  *)
(* of the trees it could write to.                                         *)
Emptied(d) ==
  UNION {Exposed(Top(e)) : e \in {f \in Upto(d) : Covered(f)}}

RemoveFails ==
  \E d \in Dest : /\ MountPoint(d)
                  /\ \E trees \in SUBSET Emptied(d) : Change(trees)

Remove ==
  /\ Running /\ ~ removed
  /\ mounts = {}
  /\ removed' = TRUE
  /\ UNCHANGED <<life, mounted, detached, mounts, clock, inUse, data, program,
                 history>>

RemoveThrows ==
  /\ Running /\ ~ removed
  /\ RemoveFails
  /\ UNCHANGED <<life, mounted, detached, mounts, clock, inUse, removed,
                 program, history>>

(* ~Container.  A program whose objects are locals of the container's scope *)
(* has destroyed them before.                                              *)
LeaveContainer ==
  /\ Running
  /\ orderly' = (orderly /\ \A o \in Obj : life[o] # "live")
  /\ \/ /\ removed \/ mounts = {}
        /\ program' = "done"
        /\ removed' = TRUE
        /\ UNCHANGED data
     \/ /\ ~ removed
        /\ RemoveFails
        /\ program' = "terminated"
        /\ UNCHANGED removed
  /\ UNCHANGED <<life, mounted, detached, mounts, clock, inUse, since, left>>

Next ==
  \/ \E o \in Obj :
       \/ Mount(o) \/ SetupFails(o) \/ FirstMountFails(o) \/ RemountFails(o)
       \/ Unmount(o) \/ UnmountFails(o) \/ Detach(o)
       \/ DestroyMounted(o) \/ DestroyTerminates(o) \/ Destroy(o)
  \/ \E m \in mounts : Use(m) \/ EndUse(m)
  \/ Remove \/ RemoveThrows \/ LeaveContainer

Spec == Init /\ [][Next]_vars
-----------------------------------------------------------------------------
(* Properties. *)

Entry == [at : Dest, by : Obj, ro : BOOLEAN, since : Nat]

TypeOK ==
  /\ life \in [Obj -> {"live", "gone"}]
  /\ mounted \in [Obj -> BOOLEAN]
  /\ detached \in [Obj -> BOOLEAN]
  /\ mounts \subseteq Entry
  /\ clock \in Nat
  /\ data \in [Tree -> {"intact", "changed"}]
  /\ removed \in BOOLEAN
  /\ program \in {"running", "terminated", "done"}
  /\ since \in [Obj -> Nat]
  /\ left \in [Dest -> Nat]
  /\ orderly \in BOOLEAN

MountsAt(d) == {m \in mounts : m.at = d}
Mounting(d) == {o \in Obj : DestOf[o] = d /\ mounted[o]}

(* No mount survives but those of objects that are mounted or were detached *)
(* so, and the first mounts of remounts that failed: no other error path    *)
(* and no destructor leaves one, although objects undo each other's mounts. *)
NoStrayMount ==
  \A d \in Dest :
    Cardinality(MountsAt(d)) = Cardinality(Mounting(d)) + left[d]

NothingLeft == \A d \in Dest : left[d] = 0

(* A tree that is bound only without ALLOW_WRITE, and never by a recursive  *)
(* bind of a tree it is mounted in.                                        *)
OnlyRead(t) ==
  \A o \in Obj : /\ SourceOf[o] = t => o \in Binds /\ o \notin Writable
                 /\ t \notin Brings(o)

(* Such a tree is never modified through its binds, by whoever opens a      *)
(* destination in or over them or removes the container with the mounts    *)
(* still in it, as long as no remount fails.                               *)
ReadOnlySourceIntact ==
  NothingLeft => \A t \in Tree : OnlyRead(t) => data[t] = "intact"

NothingBrought == \A m \in mounts : Brings(m.by) = {}

(* Objects undone before their container, in any order except that of two   *)
(* with nested destinations the later goes first, never end the program in *)
(* a destructor - if nobody has a file open, no remount has failed, and no *)
(* bind has brought mounts that umount() does not know how to take down.   *)
NeverTerminated ==
  orderly /\ NothingLeft /\ NothingBrought /\ inUse = {}
    => program # "terminated"
=============================================================================
