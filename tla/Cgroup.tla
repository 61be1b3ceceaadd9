------------------------------- MODULE Cgroup -------------------------------
(***************************************************************************)
(* sex::CgroupController (cgroup_controller.cpp): the groups below         *)
(* /sys/fs/cgroup/sbox, their limits, and the processes that Execute       *)
(* starts in them.  The kernel's part: a process is born in the group of   *)
(* its parent, or in the one that CLONE_INTO_CGROUP names; a pid namespace *)
(* dies with its init, which waits for the other members; a group with     *)
(* live members cannot be removed; cgroup.kill signals the members one by  *)
(* one, and whoever is forked in the group meanwhile.                      *)
(*                                                                         *)
(* Controllers of one name, in one process or several, share a directory.  *)
(***************************************************************************)
EXTENDS Naturals

CONSTANTS Ctl, Name, Proc,
          NameOf,     \* of each controller
          Asked,      \* the limits its Builder has: the others are NoLimit
          Tuned       \* bound: the limits that the setters change later

(* The Builder's limits: memory.max, memory.high, pids.max and cpu.max, in  *)
(* the constructor's order.                                                *)
Knob == 1..4

ASSUME CgroupAssumption ==
  /\ {"max", "any", "none"} \cap Ctl = {}
  /\ {"outside", "none"} \cap Name = {}
  /\ NameOf \in [Ctl -> Name]
  /\ Asked \in [Ctl -> SUBSET Knob]
  /\ Tuned \subseteq Knob

VARIABLES
  life,      \* of each controller: new, building, live, gone, terminated, lost
  todo,      \* the limits that its constructor has still to set
  fd,        \* has it a descriptor, from getCgroupFd(), of the directory that
             \* is there now?  One of a removed directory opens nothing
  exists,    \* the groups that have a directory
  limit,     \* kernel: who set each knob of each group, or max
  proc,      \* life of each process: unborn, live, zombie, gone
  group,     \* kernel: its group, or outside
  inits,     \* the inits of the pid namespaces it is in, itself perhaps
  doomed,    \* the processes that are on their way to die
  via,       \* history: the controller that it was started through
  entered,   \* history: who was put in a group, not born there
  killed,    \* history: the groups where nobody was put since killAll()
  killing,   \* kernel: the group that it is killing, or none
  due,       \* kernel: the members that it has still to signal
  wish,      \* history: what the controller's user has asked for last
  overlap    \* history: the controllers whose name had two at a time

ctlVars == <<life, todo, fd, wish, overlap>>
killVars == <<killed, killing, due>>
groupVars == <<exists, limit, entered, killVars>>
procVars == <<proc, group, inits, doomed, via>>
vars == <<ctlVars, groupVars, procVars>>

Maxima == [k \in Knob |-> "max"]
NoWish == [k \in Knob |-> "any"]

Init ==
  /\ life = [c \in Ctl |-> "new"]
  /\ todo = [c \in Ctl |-> {}]
  /\ fd = [c \in Ctl |-> FALSE]
  /\ exists = {}
  /\ limit = [n \in Name |-> Maxima]
  /\ proc = [p \in Proc |-> "unborn"]
  /\ group = [p \in Proc |-> "outside"]
  /\ inits = [p \in Proc |-> {}]
  /\ doomed = {}
  /\ via = [p \in Proc |-> "none"]
  /\ entered = [n \in Name |-> {}]
  /\ killed = {} /\ killing = "none" /\ due = {}
  /\ wish = [c \in Ctl |-> NoWish]
  /\ overlap = {}

Live(p) == proc[p] = "live" /\ p \notin doomed
Members(n) == {p \in Proc : proc[p] = "live" /\ group[p] = n}
Populated(n) == Members(n) # {}

-----------------------------------------------------------------------------
(* The controller. *)

Homonyms(c) ==
  {d \in Ctl \ {c} : NameOf[d] = NameOf[c] /\ life[d] \in {"building", "live"}}

(* The constructor up to create_directory, which takes a directory that is  *)
(* there as it is, with its processes and its limits.                      *)
Create(c) ==
  LET n == NameOf[c]
  IN  /\ life[c] = "new"
      /\ life' = [life EXCEPT ![c] = "building"]
      /\ todo' = [todo EXCEPT ![c] = Asked[c]]
      /\ exists' = exists \cup {n}
      /\ overlap' = IF Homonyms(c) = {} THEN overlap
                    ELSE overlap \cup Homonyms(c) \cup {c}
      /\ UNCHANGED <<fd, wish, limit, entered, killVars, procVars>>

(* Mutant: NoLimit is written as the number it is. *)
WriteNumber(c, k, v) ==
  /\ NameOf[c] \in exists
  /\ limit' = [limit EXCEPT ![NameOf[c]][k] = IF v = "max" THEN "-1" ELSE v]
  /\ wish' = [wish EXCEPT ![c][k] = v]

(* Write v to a knob: setMemoryLimitMax and the others.  What the kernel    *)
(* rejects when the stream is flushed is lost, unnoticed.                  *)
Write(c, k, v) ==
  /\ NameOf[c] \in exists
  /\ \/ /\ limit' = [limit EXCEPT ![NameOf[c]][k] = v]
        /\ wish' = [wish EXCEPT ![c][k] = v]
     \/ /\ wish' = [wish EXCEPT ![c][k] = "any"]
        /\ UNCHANGED limit

BuildLimit(c) ==
  /\ life[c] = "building"
  /\ \E k \in todo[c] :
       /\ \A j \in todo[c] : k <= j
       /\ Write(c, k, c)
       /\ todo' = [todo EXCEPT ![c] = @ \ {k}]
  /\ UNCHANGED <<life, fd, overlap, exists, entered, killVars, procVars>>

(* Mutant: the constructor stops before the last limit. *)
BuiltEarly(c) ==
  /\ life[c] = "building" /\ \A j, k \in todo[c] : j = k
  /\ life' = [life EXCEPT ![c] = "live"]
  /\ wish' = [wish EXCEPT ![c] =
                [k \in Knob |-> IF k \in todo[c] THEN c ELSE @[k]]]
  /\ todo' = [todo EXCEPT ![c] = {}]
  /\ UNCHANGED <<fd, overlap, groupVars, procVars>>

Built(c) ==
  /\ life[c] = "building" /\ todo[c] = {}
  /\ life' = [life EXCEPT ![c] = "live"]
  /\ UNCHANGED <<todo, fd, wish, overlap, groupVars, procVars>>

(* A knob cannot be opened and the constructor throws, or the process dies: *)
(* there is no destructor, and the directory stays.                        *)
Abandon(c) ==
  /\ life[c] \in {"building", "live"}
  /\ life' = [life EXCEPT ![c] = "lost"]
  /\ todo' = [todo EXCEPT ![c] = {}]
  /\ fd' = [fd EXCEPT ![c] = FALSE]
  /\ wish' = [wish EXCEPT ![c] = NoWish]
  /\ UNCHANGED <<overlap, groupVars, procVars>>

(* NoLimit is written as max; setCpuWindowLimit writes two numbers always. *)
Values(c, k) == IF k = 4 THEN {c} ELSE {c, "max"}

(* The setters. *)
SetLimit(c) ==
  /\ life[c] = "live"
  /\ \E k \in Tuned : \E v \in Values(c, k) : Write(c, k, v)
  /\ UNCHANGED <<life, todo, fd, overlap, exists, entered, killVars,
                 procVars>>

GetCgroupFd(c) ==
  /\ life[c] = "live" /\ NameOf[c] \in exists
  /\ fd' = [fd EXCEPT ![c] = TRUE]
  /\ UNCHANGED <<life, todo, wish, overlap, groupVars, procVars>>

(* The kernel puts processes in groups, removes groups and kills groups     *)
(* under one lock.                                                         *)
Unlocked == killing = "none"

(* It goes on killing a group while there are members to signal. *)
Killing(n, ps) ==
  /\ due' = ps
  /\ killing' = IF ps = {} THEN "none" ELSE n

(* Mutant: a signal to each process that was put there. *)
KillEntered(c) ==
  /\ life[c] = "live" /\ NameOf[c] \in exists
  /\ Unlocked
  /\ Killing(NameOf[c], entered[NameOf[c]] \cap Members(NameOf[c]))
  /\ killed' = killed \cup {NameOf[c]}
  /\ UNCHANGED <<exists, limit, entered, ctlVars, procVars>>

(* killAll().  A write that the kernel rejects is lost, unnoticed. *)
KillAll(c) ==
  /\ life[c] = "live" /\ NameOf[c] \in exists
  /\ \/ /\ Unlocked
        /\ Killing(NameOf[c], Members(NameOf[c]))
        /\ killed' = killed \cup {NameOf[c]}
     \/ UNCHANGED killVars
  /\ UNCHANGED <<exists, limit, entered, ctlVars, procVars>>

(* addProcess(pid) and enter().  A write that the kernel rejects, as for    *)
(* the number of a process that is gone, changes nothing, unnoticed.       *)
AddProcess(c, p) ==
  /\ life[c] = "live" /\ NameOf[c] \in exists
  /\ \/ /\ Unlocked
        /\ proc[p] = "live"
        /\ group' = [group EXCEPT ![p] = NameOf[c]]
        /\ via' = [via EXCEPT ![p] = "none"]
        /\ entered' = [entered EXCEPT ![NameOf[c]] = @ \cup {p}]
        /\ killed' = killed \ {NameOf[c]}
     \/ UNCHANGED <<group, via, entered, killed>>
  /\ UNCHANGED <<exists, limit, proc, inits, doomed, killing, due, ctlVars>>

(* Mutant: a directory that is not there is an error. *)
CannotRemoveGone(n) == Populated(n) \/ n \notin exists

(* fs::remove of a group with live members fails; of none, it does nothing. *)
CannotRemove(n) == Populated(n)

Destroy(c) ==
  LET n == NameOf[c]
  IN  /\ life[c] = "live" /\ ~ CannotRemove(n)
      /\ Unlocked
      /\ life' = [life EXCEPT ![c] = "gone"]
      /\ exists' = exists \ {n}
      /\ limit' = [limit EXCEPT ![n] = Maxima]
      /\ fd' = [d \in Ctl |-> fd[d] /\ NameOf[d] # n]
      /\ wish' = [wish EXCEPT ![c] = NoWish]
      /\ entered' = [entered EXCEPT ![n] = {}]
      /\ killed' = killed \ {n}
      /\ UNCHANGED <<todo, overlap, killing, due, procVars>>

(* The exception leaves a destructor. *)
DestroyTerminates(c) ==
  /\ life[c] = "live" /\ CannotRemove(NameOf[c])
  /\ life' = [life EXCEPT ![c] = "terminated"]
  /\ fd' = [fd EXCEPT ![c] = FALSE]
  /\ wish' = [wish EXCEPT ![c] = NoWish]
  /\ UNCHANGED <<todo, overlap, groupVars, procVars>>

-----------------------------------------------------------------------------
(* Processes, named in the order of their births. *)

Newborn(p) ==
  proc[p] = "unborn" /\ p = CHOOSE q \in Proc : proc[q] = "unborn"

(* Execute of the program, outside any group, with or without a pid         *)
(* namespace of the child's own.                                           *)
Start(p) ==
  /\ Newborn(p)
  /\ proc' = [proc EXCEPT ![p] = "live"]
  /\ inits' \in {inits, [inits EXCEPT ![p] = {p}]}
  /\ UNCHANGED <<group, doomed, via, ctlVars, groupVars>>

(* ... and into the group of a descriptor: one that has been removed, even  *)
(* if there is a new one of its name, is refused.                          *)
StartInto(c, p) ==
  /\ fd[c]
  /\ Unlocked
  /\ Newborn(p)
  /\ proc' = [proc EXCEPT ![p] = "live"]
  /\ group' = [group EXCEPT ![p] = NameOf[c]]
  /\ inits' \in {inits, [inits EXCEPT ![p] = {p}]}
  /\ via' = [via EXCEPT ![p] = c]
  /\ entered' = [entered EXCEPT ![NameOf[c]] = @ \cup {p}]
  /\ killed' = killed \ {NameOf[c]}
  /\ UNCHANGED <<exists, limit, doomed, killing, due, ctlVars>>

(* A child makes processes and namespaces of its own, until it is           *)
(* signalled.  In a group that is being killed they are born with the      *)
(* signal.                                                                 *)
Fork(p, q) ==
  /\ Live(p) /\ Newborn(q)
  /\ proc' = [proc EXCEPT ![q] = "live"]
  /\ group' = [group EXCEPT ![q] = group[p]]
  /\ via' = [via EXCEPT ![q] = via[p]]
  /\ \E own \in {{}, {q}} :
       inits' = [inits EXCEPT ![q] = inits[p] \cup own]
  /\ doomed' = IF group[p] = killing THEN doomed \cup {q} ELSE doomed
  /\ UNCHANGED <<ctlVars, groupVars>>

(* A namespace dies with its init. *)
WithNamespaces(ps) == ps \cup {q \in Proc : inits[q] \cap ps # {}}

Doom(ps) ==
  doomed' = doomed \cup {q \in WithNamespaces(ps) : proc[q] = "live"}

(* killAll() signals a member, and returns after the last. *)
Deliver(p) ==
  /\ p \in due
  /\ Doom({p})
  /\ Killing(killing, due \ {p})
  /\ UNCHANGED <<proc, group, inits, via, ctlVars, exists, limit, entered,
                 killed>>

(* It exits, or is killed by somebody. *)
Exit(p) ==
  /\ Live(p)
  /\ Doom({p})
  /\ UNCHANGED <<proc, group, inits, via, ctlVars, groupVars>>

(* An init waits for the other members of its namespace. *)
Die(p) ==
  /\ proc[p] = "live" /\ p \in doomed
  /\ \A q \in Proc \ {p} : p \in inits[q] => proc[q] # "live"
  /\ proc' = [proc EXCEPT ![p] = "zombie"]
  /\ doomed' = doomed \ {p}
  /\ group' = [group EXCEPT ![p] = "outside"]
  /\ via' = [via EXCEPT ![p] = "none"]
  /\ UNCHANGED <<inits, ctlVars, groupVars>>

(* ProcessKnob::wait(), or whoever else the parent is. *)
Reap(p) ==
  /\ proc[p] = "zombie"
  /\ proc' = [proc EXCEPT ![p] = "gone"]
  /\ UNCHANGED <<group, inits, doomed, via, ctlVars, groupVars>>

-----------------------------------------------------------------------------
CtlStep(c) ==
  \/ Create(c) \/ BuildLimit(c) \/ Built(c) \/ Abandon(c)
  \/ SetLimit(c) \/ GetCgroupFd(c) \/ KillAll(c)
  \/ Destroy(c) \/ DestroyTerminates(c)
  \/ \E p \in Proc : AddProcess(c, p) \/ StartInto(c, p)

ProcStep(p) ==
  \/ Start(p) \/ Deliver(p) \/ Exit(p) \/ Die(p) \/ Reap(p)
  \/ \E q \in Proc : Fork(p, q)

Next == (\E c \in Ctl : CtlStep(c)) \/ (\E p \in Proc : ProcStep(p))

Spec == Init /\ [][Next]_vars

(* The kernel goes on killing a group, and whoever has got a SIGKILL dies.  *)
FairSpec ==
  /\ Spec
  /\ \A p \in Proc : WF_vars(Deliver(p)) /\ WF_vars(Die(p))
-----------------------------------------------------------------------------
(* Properties. *)

TypeOK ==
  /\ life \in [Ctl -> {"new", "building", "live", "gone", "terminated",
                       "lost"}]
  /\ todo \in [Ctl -> SUBSET Knob]
  /\ fd \in [Ctl -> BOOLEAN]
  /\ exists \subseteq Name
  /\ limit \in [Name -> [Knob -> Ctl \cup {"max"}]]
  /\ proc \in [Proc -> {"unborn", "live", "zombie", "gone"}]
  /\ group \in [Proc -> Name \cup {"outside"}]
  /\ inits \in [Proc -> SUBSET Proc]
  /\ doomed \subseteq Proc
  /\ via \in [Proc -> Ctl \cup {"none"}]
  /\ entered \in [Name -> SUBSET Proc]
  /\ killed \subseteq Name
  /\ killing \in Name \cup {"none"}
  /\ due \subseteq Proc
  /\ wish \in [Ctl -> [Knob -> Ctl \cup {"max", "any"}]]
  /\ overlap \subseteq Ctl

(* Everyone who was put in the group was the init of a pid namespace, and   *)
(* has been waited for.                                                    *)
Tidy(n) == \A p \in entered[n] : p \in inits[p] /\ proc[p] = "gone"

(* A program that starts its children with NewPidNS and waits for each      *)
(* before the controller goes out of scope is never terminated by the      *)
(* destructor, whatever the children have forked, however they ended and   *)
(* whoever else removed the directory.                                     *)
TidyDestroys ==
  [][\A c \in Ctl :
       life[c] = "live" /\ life'[c] = "terminated" => ~ Tidy(NameOf[c])]_vars

(* A child that Execute starts in the group, and everything it forks, runs  *)
(* under the limits that were asked for and accepted, as long as the       *)
(* controller lives and has its name to itself: also on the directory that *)
(* another one left behind.                                                *)
Confined ==
  \A p \in Proc, c \in Ctl \ overlap :
    proc[p] = "live" /\ via[p] = c /\ life[c] = "live" =>
      /\ group[p] = NameOf[c] /\ NameOf[c] \in exists
      /\ \A k \in Knob : wish[c][k] \in {limit[NameOf[c]][k], "any"}

(* A killAll() whose write is accepted empties the group, unless somebody   *)
(* else is put there: no process escapes it by forking before its signal   *)
(* comes, and no init waits for ever for a member of its namespace.        *)
KilledEnd ==
  \A n \in Name : n \in killed ~> n \notin killed \/ ~ Populated(n)
=============================================================================
