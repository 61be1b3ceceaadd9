---------------------------- MODULE CgroupProofs ----------------------------
(* Theorems about Cgroup, for any controllers, names and processes. *)
EXTENDS Cgroup, TLAPS

(* A write changes one knob of one group, and the wish for it. *)
LEMMA WriteTypes ==
  ASSUME TypeOK, NEW c \in Ctl, NEW k \in Knob, NEW v \in Ctl \cup {"max"},
         Write(c, k, v)
  PROVE  /\ limit' \in [Name -> [Knob -> Ctl \cup {"max"}]]
         /\ wish' \in [Ctl -> [Knob -> Ctl \cup {"max", "any"}]]
<1>1. NameOf[c] \in Name /\ limit[NameOf[c]] \in [Knob -> Ctl \cup {"max"}]
  BY CgroupAssumption DEF TypeOK
<1>2. wish[c] \in [Knob -> Ctl \cup {"max", "any"}]
  BY DEF TypeOK
<1>3. [limit[NameOf[c]] EXCEPT ![k] = v] \in [Knob -> Ctl \cup {"max"}]
  BY <1>1
<1>4. \A w \in {v, "any"} :
        [wish[c] EXCEPT ![k] = w] \in [Knob -> Ctl \cup {"max", "any"}]
  BY <1>2
<1>5. [limit EXCEPT ![NameOf[c]][k] = v]
        \in [Name -> [Knob -> Ctl \cup {"max"}]]
  BY <1>1, <1>3 DEF TypeOK
<1>6. \A w \in {v, "any"} : [wish EXCEPT ![c][k] = w]
        \in [Ctl -> [Knob -> Ctl \cup {"max", "any"}]]
  BY <1>2, <1>4 DEF TypeOK
<1> QED
  BY <1>5, <1>6 DEF Write, TypeOK

(* A step of the specification, by the actions that TypeOK and the          *)
(* invariants below tell apart.                                            *)
LEMMA TypeStep == TypeOK /\ [Next]_vars => TypeOK'
<1>1. SUFFICES ASSUME TypeOK, [Next]_vars PROVE TypeOK'
  OBVIOUS
<1>2. ASSUME NEW c \in Ctl, CtlStep(c) PROVE TypeOK'
  <2> USE CgroupAssumption
  <2>1. CASE Create(c)
    BY <1>1, <2>1 DEF Create, killVars, procVars, Homonyms, TypeOK,
       Maxima, NoWish
  <2>2. CASE BuildLimit(c)
    <3>1. PICK k \in todo[c] :
            /\ Write(c, k, c)
            /\ todo' = [todo EXCEPT ![c] = @ \ {k}]
      BY <2>2 DEF BuildLimit
    <3>2. k \in Knob
      BY <1>1, <3>1 DEF TypeOK
    <3>3. /\ limit' \in [Name -> [Knob -> Ctl \cup {"max"}]]
          /\ wish' \in [Ctl -> [Knob -> Ctl \cup {"max", "any"}]]
      BY <1>1, <3>1, <3>2, WriteTypes
    <3> QED
      BY <1>1, <2>2, <3>1, <3>3 DEF BuildLimit, killVars, procVars,
         TypeOK
  <2>3. CASE Built(c)
    BY <1>1, <2>3 DEF Built, groupVars, killVars, procVars, TypeOK
  <2>4. CASE Abandon(c)
    BY <1>1, <2>4 DEF Abandon, groupVars, killVars, procVars, TypeOK,
       Maxima, NoWish
  <2>5. CASE SetLimit(c)
    <3>1. PICK k \in Tuned, v \in {c, "max"} : Write(c, k, v)
      BY <2>5 DEF SetLimit, Values
    <3>2. k \in Knob
      BY CgroupAssumption
    <3>3. /\ limit' \in [Name -> [Knob -> Ctl \cup {"max"}]]
          /\ wish' \in [Ctl -> [Knob -> Ctl \cup {"max", "any"}]]
      BY <1>1, <3>1, <3>2, WriteTypes
    <3> QED
      BY <1>1, <2>5, <3>3 DEF SetLimit, killVars, procVars, TypeOK
  <2>6. CASE GetCgroupFd(c)
    BY <1>1, <2>6 DEF GetCgroupFd, groupVars, killVars, procVars, TypeOK
  <2>7. CASE KillAll(c)
    BY <1>1, <2>7 DEF KillAll, Killing, Members, ctlVars, killVars, procVars,
      TypeOK
  <2>8. CASE Destroy(c)
    BY <1>1, <2>8 DEF Destroy, procVars, TypeOK,
       Maxima, NoWish
  <2>9. CASE DestroyTerminates(c)
    BY <1>1, <2>9 DEF DestroyTerminates, groupVars, killVars, procVars, TypeOK,
       Maxima, NoWish
  <2>10. CASE \E p \in Proc : AddProcess(c, p)
    <3>1. PICK p \in Proc : AddProcess(c, p)
      BY <2>10
    <3>2. NameOf[c] \in Name
      OBVIOUS
    <3>3. /\ group' \in [Proc -> Name \cup {"outside"}]
          /\ via' \in [Proc -> Ctl \cup {"none"}]
      BY <1>1, <3>1, <3>2 DEF AddProcess, TypeOK
    <3>4. /\ \/ entered' = entered
             \/ entered' = [entered EXCEPT ![NameOf[c]] = @ \cup {p}]
          /\ killed' \in {killed, killed \ {NameOf[c]}}
      BY <3>1 DEF AddProcess
    <3>5. entered' \in [Name -> SUBSET Proc] /\ killed' \subseteq Name
      BY <1>1, <3>2, <3>4 DEF TypeOK
    <3> QED
      BY <1>1, <3>1, <3>3, <3>5 DEF AddProcess, ctlVars, TypeOK
  <2>11. CASE \E p \in Proc : StartInto(c, p)
    <3>1. PICK p \in Proc : StartInto(c, p)
      BY <2>11
    <3>2. inits' \in [Proc -> SUBSET Proc]
      <4>1. inits' \in {inits, [inits EXCEPT ![p] = {p}]}
        BY <3>1 DEF StartInto
      <4>2. inits \in [Proc -> SUBSET Proc] /\ {p} \in SUBSET Proc
        BY <1>1 DEF TypeOK
      <4>3. [inits EXCEPT ![p] = {p}] \in [Proc -> SUBSET Proc]
        BY <4>2
      <4> QED
        BY <4>1, <4>2, <4>3
    <3>3. entered' \in [Name -> SUBSET Proc] /\ killed' \subseteq Name
      BY <1>1, <3>1 DEF StartInto, TypeOK
    <3>4. /\ group' \in [Proc -> Name \cup {"outside"}]
          /\ via' \in [Proc -> Ctl \cup {"none"}]
          /\ proc' \in [Proc -> {"unborn", "live", "zombie", "gone"}]
      BY <1>1, <3>1 DEF StartInto, TypeOK
    <3> QED
      BY <1>1, <3>1, <3>2, <3>3, <3>4 DEF StartInto, ctlVars, TypeOK
  <2> QED
    BY <1>2, <2>1, <2>2, <2>3, <2>4, <2>5, <2>6, <2>7, <2>8, <2>9, <2>10,
       <2>11 DEF CtlStep
<1>3. ASSUME NEW p \in Proc, ProcStep(p) PROVE TypeOK'
  <2>1. CASE Start(p)
    BY <1>1, <2>1 DEF Start, Newborn, ctlVars, groupVars, killVars, TypeOK
  <2>2. CASE Exit(p)
    BY <1>1, <2>2 DEF Exit, Doom, WithNamespaces, ctlVars, groupVars,
       killVars, TypeOK
  <2>3. CASE Die(p)
    BY <1>1, <2>3 DEF Die, ctlVars, groupVars, killVars, TypeOK
  <2>4. CASE Reap(p)
    BY <1>1, <2>4 DEF Reap, ctlVars, groupVars, killVars, TypeOK
  <2>5. CASE \E q \in Proc : Fork(p, q)
    BY <1>1, <2>5 DEF Fork, ctlVars, groupVars, killVars, TypeOK
  <2>6. CASE Deliver(p)
    BY <1>1, <2>6 DEF Deliver, Doom, WithNamespaces, Killing, ctlVars, TypeOK
  <2> QED
    BY <1>3, <2>1, <2>2, <2>3, <2>4, <2>5, <2>6 DEF ProcStep
<1>4. CASE UNCHANGED vars
  BY <1>1, <1>4 DEF vars, ctlVars, groupVars, killVars, procVars, TypeOK
<1> QED
  BY <1>1, <1>2, <1>3, <1>4 DEF Next

(* The module is well typed, whatever the controllers' users do. *)
THEOREM TypeCorrect == Spec => []TypeOK
<1>1. Init => TypeOK
  BY CgroupAssumption DEF Init, TypeOK, Maxima, NoWish, Knob
<1> QED
  BY <1>1, TypeStep, PTL DEF Spec
-----------------------------------------------------------------------------
(* Why a tidy group is empty.  An unborn process is in no namespace and no  *)
(* group; the members of a namespace end before its init; and a process of *)
(* a group is a descendant, in the same namespaces, of one that was put    *)
(* there.                                                                  *)
Unborn ==
  \A p \in Proc : proc[p] = "unborn" => inits[p] = {} /\ group[p] = "outside"

InitsLast ==
  \A q \in Proc : proc[q] = "live" =>
    \A p \in inits[q] : proc[p] = "live"

EnteredBorn ==
  \A n \in Name : \A p \in entered[n] : proc[p] # "unborn"

Ancestry ==
  \A q \in Proc, n \in Name : proc[q] = "live" /\ group[q] = n =>
    \E p \in entered[n] : p = q \/ (p \in inits[p] => p \in inits[q])

Family == TypeOK /\ Unborn /\ InitsLast /\ EnteredBorn /\ Ancestry

LEMMA TidyIsEmpty ==
  ASSUME Family, NEW n \in Name, Tidy(n)
  PROVE  ~ Populated(n)
<1>1. SUFFICES ASSUME NEW q \in Proc, proc[q] = "live", group[q] = n
               PROVE FALSE
  BY DEF Populated, Members
<1>2. PICK p \in entered[n] : p = q \/ (p \in inits[p] => p \in inits[q])
  BY <1>1 DEF Family, Ancestry
<1>3. p \in inits[p] /\ proc[p] = "gone"
  BY <1>2 DEF Tidy
<1>4. p \in inits[q]
  BY <1>1, <1>2, <1>3
<1> QED
  BY <1>1, <1>3, <1>4 DEF Family, InitsLast

(* Steps that change neither the life nor the place of any process. *)
LEMMA FamilyKept ==
  ASSUME Family, TypeOK', UNCHANGED <<proc, group, inits, entered>>
  PROVE  Family'
BY DEF Family, Unborn, InitsLast, EnteredBorn, Ancestry

LEMMA FamilyAddProcess ==
  ASSUME Family, TypeOK', NEW c \in Ctl, NEW p \in Proc, AddProcess(c, p)
  PROVE  Family'
<1>1. NameOf[c] \in Name
  BY CgroupAssumption
<1> SUFFICES ASSUME ~ UNCHANGED <<group, entered>> PROVE Family'
  BY FamilyKept DEF AddProcess
<1>2. /\ group' = [group EXCEPT ![p] = NameOf[c]]
      /\ entered' = [entered EXCEPT ![NameOf[c]] = @ \cup {p}]
      /\ proc[p] = "live" /\ proc' = proc /\ inits' = inits
  BY DEF AddProcess
<1>3. Unborn' /\ InitsLast' /\ EnteredBorn'
  BY <1>1, <1>2 DEF Family, TypeOK, Unborn, InitsLast, EnteredBorn
<1>4. Ancestry'
  BY <1>1, <1>2 DEF Family, TypeOK, Ancestry
<1> QED
  BY <1>3, <1>4 DEF Family

LEMMA FamilyStart ==
  ASSUME Family, TypeOK', NEW p \in Proc, Start(p)
  PROVE  Family'
<1>1. /\ proc[p] = "unborn" /\ proc' = [proc EXCEPT ![p] = "live"]
      /\ inits' \in {inits, [inits EXCEPT ![p] = {p}]}
      /\ group' = group /\ entered' = entered
  BY DEF Start, Newborn, groupVars, killVars
<1>2. \A q \in Proc \ {p} : inits'[q] = inits[q] /\ proc'[q] = proc[q]
  BY <1>1 DEF Family, TypeOK
<1>3. inits'[p] \subseteq {p} /\ proc'[p] = "live"
  BY <1>1 DEF Family, TypeOK, Unborn
<1>4. Unborn'
  BY <1>1, <1>2, <1>3 DEF Family, TypeOK, Unborn
<1>5. InitsLast'
  BY <1>1, <1>2, <1>3 DEF Family, TypeOK, InitsLast
<1>6. EnteredBorn'
  BY <1>1, <1>2 DEF Family, TypeOK, EnteredBorn
<1>7. Ancestry'
  <2>1. SUFFICES ASSUME NEW q \in Proc, NEW n \in Name,
                        proc'[q] = "live", group'[q] = n
                 PROVE \E r \in entered'[n] :
                         r = q \/ (r \in inits'[r] => r \in inits'[q])
    BY DEF Ancestry
  <2>2. q # p
    BY <1>1, <2>1, CgroupAssumption DEF Family, Unborn
  <2>3. PICK r \in entered[n] : r = q \/ (r \in inits[r] => r \in inits[q])
    BY <1>1, <1>2, <2>1, <2>2 DEF Family, Ancestry
  <2>4. r \in Proc /\ r # p
    BY <1>1, <2>3 DEF Family, TypeOK, EnteredBorn
  <2> QED
    BY <1>1, <1>2, <2>2, <2>3, <2>4
<1> QED
  BY <1>4, <1>5, <1>6, <1>7 DEF Family

LEMMA FamilyStartInto ==
  ASSUME Family, TypeOK', NEW c \in Ctl, NEW p \in Proc, StartInto(c, p)
  PROVE  Family'
<1>1. /\ proc[p] = "unborn" /\ proc' = [proc EXCEPT ![p] = "live"]
      /\ inits' \in {inits, [inits EXCEPT ![p] = {p}]}
      /\ group' = [group EXCEPT ![p] = NameOf[c]]
      /\ entered' = [entered EXCEPT ![NameOf[c]] = @ \cup {p}]
      /\ NameOf[c] \in Name
  BY CgroupAssumption DEF StartInto, Newborn
<1>2. \A q \in Proc \ {p} : /\ inits'[q] = inits[q] /\ proc'[q] = proc[q]
                            /\ group'[q] = group[q]
  BY <1>1 DEF Family, TypeOK
<1>3. inits'[p] \subseteq {p} /\ proc'[p] = "live" /\ group'[p] = NameOf[c]
  BY <1>1 DEF Family, TypeOK, Unborn
<1>4. \A n \in Name : /\ entered[n] \subseteq entered'[n]
                      /\ entered'[n] \subseteq entered[n] \cup {p}
  BY <1>1 DEF Family, TypeOK
<1>5. Unborn'
  BY <1>1, <1>2, <1>3 DEF Family, TypeOK, Unborn
<1>6. InitsLast'
  BY <1>1, <1>2, <1>3 DEF Family, TypeOK, InitsLast
<1>7. EnteredBorn'
  <2>1. SUFFICES ASSUME NEW n \in Name, NEW q \in entered'[n]
                 PROVE proc'[q] # "unborn"
    BY DEF EnteredBorn
  <2>2. q = p \/ (q \in entered[n] /\ q \in Proc)
    BY <1>4 DEF Family, TypeOK
  <2> QED
    BY <1>2, <1>3, <2>2 DEF Family, EnteredBorn
<1>8. Ancestry'
  <2>1. SUFFICES ASSUME NEW q \in Proc, NEW n \in Name,
                        proc'[q] = "live", group'[q] = n
                 PROVE \E r \in entered'[n] :
                         r = q \/ (r \in inits'[r] => r \in inits'[q])
    BY DEF Ancestry
  <2>2. CASE q = p
    <3>1. p \in entered'[n]
      BY <1>1, <1>3, <2>1, <2>2 DEF Family, TypeOK
    <3> QED
      BY <2>2, <3>1
  <2>3. CASE q # p
    <3>1. PICK r \in entered[n] : r = q \/ (r \in inits[r] => r \in inits[q])
      BY <1>2, <2>1, <2>3 DEF Family, Ancestry
    <3>2. r \in Proc /\ r # p
      BY <1>1, <3>1 DEF Family, TypeOK, EnteredBorn
    <3> QED
      BY <1>2, <1>4, <2>3, <3>1, <3>2
  <2> QED
    BY <2>2, <2>3
<1> QED
  BY <1>5, <1>6, <1>7, <1>8 DEF Family

LEMMA FamilyFork ==
  ASSUME Family, TypeOK', NEW r \in Proc, NEW p \in Proc, Fork(r, p)
  PROVE  Family'
<1>1. /\ proc[r] = "live" /\ proc[p] = "unborn"
      /\ proc' = [proc EXCEPT ![p] = "live"]
      /\ group' = [group EXCEPT ![p] = group[r]]
      /\ entered' = entered
  BY DEF Fork, Live, Newborn, groupVars, killVars
<1>2. PICK own \in {{}, {p}} :
        inits' = [inits EXCEPT ![p] = inits[r] \cup own]
  BY DEF Fork
<1>3. \A q \in Proc \ {p} : /\ inits'[q] = inits[q] /\ proc'[q] = proc[q]
                            /\ group'[q] = group[q]
  BY <1>1, <1>2 DEF Family, TypeOK
<1>4. /\ inits'[p] = inits[r] \cup own
      /\ proc'[p] = "live" /\ group'[p] = group[r] /\ r # p
  BY <1>1, <1>2 DEF Family, TypeOK
<1>5. Unborn'
  BY <1>3, <1>4 DEF Family, TypeOK, Unborn
<1>6. InitsLast'
  BY <1>1, <1>3, <1>4 DEF Family, TypeOK, InitsLast
<1>7. EnteredBorn'
  BY <1>1, <1>3, <1>4 DEF Family, TypeOK, EnteredBorn
<1>8. Ancestry'
  <2>1. SUFFICES ASSUME NEW q \in Proc, NEW n \in Name,
                        proc'[q] = "live", group'[q] = n
                 PROVE \E s \in entered'[n] :
                         s = q \/ (s \in inits'[s] => s \in inits'[q])
    BY DEF Ancestry
  <2>2. PICK o \in Proc : /\ proc[o] = "live" /\ group[o] = n /\ o # p
                          /\ inits[o] \subseteq inits'[q]
                          /\ q = o \/ (q = p /\ o = r)
    BY <1>1, <1>3, <1>4, <2>1
  <2>3. PICK s \in entered[n] : s = o \/ (s \in inits[s] => s \in inits[o])
    BY <2>2 DEF Family, Ancestry
  <2>4. s \in Proc /\ s # p
    BY <1>1, <2>3 DEF Family, TypeOK, EnteredBorn
  <2>5. s = q \/ (s \in inits'[s] => s \in inits'[q])
    BY <1>3, <2>2, <2>3, <2>4
  <2> QED
    BY <1>1, <2>3, <2>5
<1> QED
  BY <1>5, <1>6, <1>7, <1>8 DEF Family

(* A process dies after the members of its namespace. *)
LEMMA FamilyEnds ==
  ASSUME Family, TypeOK', NEW p \in Proc, Die(p) \/ Reap(p)
  PROVE  Family'
<1>1. /\ proc'[p] \in {"zombie", "gone"} /\ proc[p] # "unborn"
      /\ \A q \in Proc \ {p} : proc'[q] = proc[q] /\ group'[q] = group[q]
      /\ UNCHANGED <<inits, entered>>
  BY DEF Die, Reap, groupVars, killVars, Family, TypeOK
<1>2. \A q \in Proc \ {p} : p \in inits[q] => proc[q] # "live"
  BY DEF Die, Reap, Family, InitsLast
<1>3. Unborn' /\ EnteredBorn'
  BY <1>1 DEF Family, TypeOK, Unborn, EnteredBorn
<1>4. InitsLast'
  <2>1. SUFFICES ASSUME NEW q \in Proc, NEW r \in inits'[q], proc'[q] = "live"
                 PROVE  proc'[r] = "live"
    BY DEF InitsLast
  <2>2. q \in Proc \ {p} /\ proc[q] = "live" /\ r \in inits[q]
    BY <1>1, <2>1
  <2>3. r \in Proc /\ proc[r] = "live"
    BY <2>2 DEF Family, TypeOK, InitsLast
  <2>4. r # p
    BY <1>2, <2>2
  <2> QED
    BY <1>1, <2>3, <2>4
<1>5. Ancestry'
  BY <1>1 DEF Family, Ancestry
<1> QED
  BY <1>3, <1>4, <1>5 DEF Family

(* The directory is removed only when nobody lives in it. *)
LEMMA FamilyDestroy ==
  ASSUME Family, TypeOK', NEW c \in Ctl, Destroy(c)
  PROVE  Family'
<1>1. /\ ~ Populated(NameOf[c]) /\ NameOf[c] \in Name
      /\ entered' = [entered EXCEPT ![NameOf[c]] = {}]
      /\ UNCHANGED <<proc, group, inits>>
  BY CgroupAssumption DEF Destroy, CannotRemove, procVars
<1>2. Unborn' /\ InitsLast' /\ EnteredBorn'
  BY <1>1 DEF Family, TypeOK, Unborn, InitsLast, EnteredBorn
<1>3. Ancestry'
  BY <1>1 DEF Family, TypeOK, Ancestry, Populated, Members
<1> QED
  BY <1>2, <1>3 DEF Family

LEMMA FamilyStep == Family /\ [Next]_vars => Family'
<1>1. SUFFICES ASSUME Family, [Next]_vars PROVE Family'
  OBVIOUS
<1>2. TypeOK'
  BY <1>1, TypeStep DEF Family
<1>3. ASSUME NEW c \in Ctl, CtlStep(c) PROVE Family'
  <2>1. CASE \/ Create(c) \/ BuildLimit(c) \/ Built(c) \/ Abandon(c)
             \/ SetLimit(c) \/ GetCgroupFd(c) \/ KillAll(c)
             \/ DestroyTerminates(c)
    <3>1. UNCHANGED <<proc, group, inits, entered>>
      BY <2>1 DEF Create, BuildLimit, Built, Abandon, SetLimit, GetCgroupFd,
                  KillAll, DestroyTerminates, procVars, groupVars
    <3> QED
      BY <1>1, <1>2, <3>1, FamilyKept
  <2>2. CASE Destroy(c)
    BY <1>1, <1>2, <2>2, FamilyDestroy
  <2>3. ASSUME NEW p \in Proc, AddProcess(c, p) \/ StartInto(c, p)
        PROVE Family'
    BY <1>1, <1>2, <2>3, FamilyAddProcess, FamilyStartInto
  <2> QED
    BY <1>3, <2>1, <2>2, <2>3 DEF CtlStep
<1>4. ASSUME NEW p \in Proc, ProcStep(p) PROVE Family'
  <2>1. CASE Exit(p) \/ Deliver(p)
    <3>1. UNCHANGED <<proc, group, inits, entered>>
      BY <2>1 DEF Exit, Deliver, groupVars, killVars
    <3> QED
      BY <1>1, <1>2, <3>1, FamilyKept
  <2>2. CASE Start(p)
    BY <1>1, <1>2, <2>2, FamilyStart
  <2>3. CASE Die(p) \/ Reap(p)
    BY <1>1, <1>2, <2>3, FamilyEnds
  <2>4. ASSUME NEW q \in Proc, Fork(p, q) PROVE Family'
    BY <1>1, <1>2, <2>4, FamilyFork
  <2> QED
    BY <1>4, <2>1, <2>2, <2>3, <2>4 DEF ProcStep
<1>5. CASE UNCHANGED vars
  BY <1>1, <1>2, <1>5, FamilyKept DEF vars, procVars, groupVars, killVars
<1> QED
  BY <1>1, <1>3, <1>4, <1>5 DEF Next

LEMMA FamilyAlways == Spec => []Family
<1>1. Init => Family
  <2>1. Init => TypeOK
    BY CgroupAssumption DEF Init, TypeOK, Maxima, NoWish, Knob
  <2> QED
    BY <2>1 DEF Init, Family, Unborn, InitsLast, EnteredBorn, Ancestry
<1> QED
  BY <1>1, FamilyStep, PTL DEF Spec

(* ~CgroupController never terminates a program that starts its children as *)
(* inits and waits for them, for any number of controllers, processes and  *)
(* nested namespaces.                                                      *)
THEOREM TidyNeverTerminates == Spec => TidyDestroys
<1>1. ASSUME Family, [Next]_vars, NEW c \in Ctl,
             life[c] = "live", life'[c] = "terminated"
      PROVE ~ Tidy(NameOf[c])
  <2>1. DestroyTerminates(c)
    <3>1. ASSUME NEW d \in Ctl, CtlStep(d) PROVE DestroyTerminates(c)
      <4>1. CASE Create(d)
        BY <1>1, <4>1 DEF Create, Family, TypeOK
      <4>2. CASE Built(d)
        BY <1>1, <4>2 DEF Built, Family, TypeOK
      <4>3. CASE Abandon(d)
        BY <1>1, <4>3 DEF Abandon, Family, TypeOK
      <4>4. CASE Destroy(d)
        BY <1>1, <4>4 DEF Destroy, Family, TypeOK
      <4>5. CASE DestroyTerminates(d)
        BY <1>1, <4>5 DEF DestroyTerminates, Family, TypeOK
      <4>6. CASE \/ BuildLimit(d) \/ SetLimit(d) \/ GetCgroupFd(d)
                 \/ KillAll(d)
                 \/ \E p \in Proc : AddProcess(d, p) \/ StartInto(d, p)
        BY <1>1, <4>6 DEF BuildLimit, SetLimit, GetCgroupFd, KillAll,
                          AddProcess, StartInto, ctlVars
      <4> QED
        BY <3>1, <4>1, <4>2, <4>3, <4>4, <4>5, <4>6 DEF CtlStep
    <3>2. ASSUME NEW p \in Proc, ProcStep(p) PROVE DestroyTerminates(c)
      BY <1>1, <3>2
      DEF ProcStep, Start, Deliver, Exit, Die, Reap, Fork, ctlVars
    <3>3. CASE UNCHANGED vars
      BY <1>1, <3>3 DEF vars, ctlVars
    <3> QED
      BY <1>1, <3>1, <3>2, <3>3 DEF Next
  <2>2. Populated(NameOf[c]) /\ NameOf[c] \in Name
    BY <2>1, CgroupAssumption DEF DestroyTerminates, CannotRemove
  <2> QED
    BY <1>1, <2>2, TidyIsEmpty
<1>2. Family /\ [Next]_vars =>
        [\A c \in Ctl :
           life[c] = "live" /\ life'[c] = "terminated"
             => ~ Tidy(NameOf[c])]_vars
  BY <1>1
<1> QED
  BY <1>2, FamilyAlways, PTL DEF Spec, TidyDestroys
-----------------------------------------------------------------------------
(* Why the limits hold.  A controller outside overlap has no other one of   *)
(* its name beside it, so its directory stays and only it writes there;    *)
(* and a process that came through a controller's descriptor is still      *)
(* where that put it, or no longer counted to it.                          *)
Own(c) == life[c] \in {"building", "live"} /\ c \notin overlap

NewHasNoWish == \A c \in Ctl : life[c] = "new" => wish[c] = NoWish

Alone == \A c \in Ctl : Own(c) => Homonyms(c) = {}

Granted(c) ==
  /\ NameOf[c] \in exists
  /\ \A k \in Knob : wish[c][k] \in {limit[NameOf[c]][k], "any"}

InForce == \A c \in Ctl : Own(c) => Granted(c)

InPlace ==
  \A p \in Proc :
    /\ proc[p] = "unborn" => via[p] = "none"
    /\ \A c \in Ctl : proc[p] = "live" /\ via[p] = c => group[p] = NameOf[c]

Limits == TypeOK /\ NewHasNoWish /\ Alone /\ InForce /\ InPlace

LEMMA WriteInForce ==
  ASSUME Limits, NEW c \in Ctl, NEW k \in Knob, NEW v \in Ctl \cup {"max"},
         Write(c, k, v), life[c] \in {"building", "live"},
         UNCHANGED <<life, overlap, exists>>
  PROVE  InForce' /\ NewHasNoWish'
<1>1. SUFFICES ASSUME NEW d \in Ctl, Own(d) PROVE Granted(d)'
  <2>1. NewHasNoWish'
    BY DEF Write, Limits, NewHasNoWish, TypeOK
  <2> QED
    BY <2>1 DEF InForce, Own
<1>2. Granted(d) /\ Homonyms(d) = {}
  BY <1>1 DEF Limits, Alone, InForce
<1>3. /\ NameOf[c] \in Name /\ NameOf[d] \in Name
      /\ limit \in [Name -> [Knob -> Ctl \cup {"max"}]]
      /\ wish \in [Ctl -> [Knob -> Ctl \cup {"max", "any"}]]
  BY CgroupAssumption DEF Limits, TypeOK
<1>4. CASE c = d
  <2>1. \A j \in Knob \ {k} : /\ wish'[c][j] = wish[c][j]
                              /\ limit'[NameOf[c]][j] = limit[NameOf[c]][j]
    BY <1>3 DEF Write
  <2>2. wish'[c][k] \in {limit'[NameOf[c]][k], "any"}
    BY <1>3 DEF Write
  <2> QED
    BY <1>2, <1>4, <2>1, <2>2 DEF Granted
<1>5. CASE c # d
  <2>1. NameOf[c] # NameOf[d]
    BY <1>2, <1>5 DEF Homonyms
  <2>2. wish'[d] = wish[d] /\ limit'[NameOf[d]] = limit[NameOf[d]]
    BY <1>3, <1>5, <2>1 DEF Write
  <2> QED
    BY <1>2, <2>2 DEF Granted
<1> QED
  BY <1>4, <1>5

(* A controller that begins marks those of its name that are under way.     *)
LEMMA CreateLimits ==
  ASSUME Limits, TypeOK', NEW c \in Ctl, Create(c)
  PROVE  Limits'
<1>1. /\ life[c] = "new" /\ life' = [life EXCEPT ![c] = "building"]
      /\ exists' = exists \cup {NameOf[c]}
      /\ overlap' = IF Homonyms(c) = {} THEN overlap
                    ELSE overlap \cup Homonyms(c) \cup {c}
      /\ UNCHANGED <<wish, limit, proc, via, group>>
  BY DEF Create, procVars
<1>2. \A d \in Ctl \ {c} : life'[d] = life[d]
  BY <1>1 DEF Limits, TypeOK
<1>3. life'[c] = "building"
  BY <1>1 DEF Limits, TypeOK
<1>4. NewHasNoWish' /\ InPlace'
  BY <1>1, <1>2, <1>3 DEF Limits, NewHasNoWish, InPlace
<1>5. Alone'
  <2>1. SUFFICES ASSUME NEW d \in Ctl, Own(d)', NEW e \in Homonyms(d)'
                 PROVE FALSE
    BY DEF Alone
  <2>2. /\ e \in Ctl /\ e # d /\ NameOf[e] = NameOf[d]
        /\ life'[e] \in {"building", "live"}
        /\ life'[d] \in {"building", "live"} /\ d \notin overlap'
    BY <2>1 DEF Homonyms, Own
  <2>3. d \notin overlap
    BY <1>1, <2>2
  <2>4. CASE d = c
    <3>1. e \in Homonyms(c)
      BY <1>2, <2>2, <2>4 DEF Homonyms
    <3> QED
      BY <1>1, <2>2, <2>4, <3>1
  <2>5. CASE e = c
    <3>1. d \in Homonyms(c)
      BY <1>2, <2>2, <2>5 DEF Homonyms
    <3> QED
      BY <1>1, <2>2, <3>1
  <2>6. CASE d # c /\ e # c
    <3>1. Own(d) /\ e \in Homonyms(d)
      BY <1>2, <2>2, <2>3, <2>6 DEF Own, Homonyms
    <3> QED
      BY <3>1 DEF Limits, Alone
  <2> QED
    BY <2>4, <2>5, <2>6
<1>6. InForce'
  <2>1. SUFFICES ASSUME NEW d \in Ctl, Own(d)' PROVE Granted(d)'
    BY DEF InForce
  <2>2. CASE d = c
    BY <1>1, <2>2 DEF Limits, NewHasNoWish, NoWish, Granted
  <2>3. CASE d # c
    <3>1. Own(d)
      BY <1>1, <1>2, <2>1, <2>3 DEF Own
    <3> QED
      BY <1>1, <3>1 DEF Limits, InForce, Granted
  <2> QED
    BY <2>2, <2>3
<1> QED
  BY <1>4, <1>5, <1>6 DEF Limits

(* A controller that ends, one way or another. *)
LEMMA EndLimits ==
  ASSUME Limits, TypeOK', NEW c \in Ctl,
         Destroy(c) \/ DestroyTerminates(c) \/ Abandon(c)
  PROVE  Limits'
<1>1. PICK l \in {"gone", "terminated", "lost"} :
        life' = [life EXCEPT ![c] = l]
  BY DEF Destroy, DestroyTerminates, Abandon
<1>2. /\ life[c] \in {"building", "live"} /\ overlap' = overlap
      /\ wish' = [wish EXCEPT ![c] = NoWish]
      /\ exists \ {NameOf[c]} \subseteq exists'
      /\ \/ limit' = limit /\ exists' = exists
         \/ limit' = [limit EXCEPT ![NameOf[c]] = Maxima]
      /\ UNCHANGED <<proc, via, group>>
  BY DEF Destroy, DestroyTerminates, Abandon, groupVars, killVars, procVars
<1>3. life'[c] = l /\ \A d \in Ctl \ {c} : /\ life'[d] = life[d]
                                          /\ wish'[d] = wish[d]
  BY <1>1, <1>2 DEF Limits, TypeOK
<1>4. NewHasNoWish' /\ InPlace'
  BY <1>2, <1>3 DEF Limits, NewHasNoWish, InPlace
<1>5. Alone'
  BY <1>2, <1>3 DEF Limits, Alone, Own, Homonyms
<1>6. InForce'
  <2>1. SUFFICES ASSUME NEW d \in Ctl, Own(d)' PROVE Granted(d)'
    BY DEF InForce
  <2>2. d # c /\ Own(d)
    BY <1>2, <1>3, <2>1 DEF Own
  <2>3. NameOf[d] # NameOf[c]
    BY <1>2, <2>2 DEF Limits, Alone, Homonyms
  <2>4. limit'[NameOf[d]] = limit[NameOf[d]]
    <3>1. NameOf[c] \in Name /\ NameOf[d] \in Name
      BY CgroupAssumption
    <3>2. [limit EXCEPT ![NameOf[c]] = Maxima][NameOf[d]] = limit[NameOf[d]]
      BY <2>3, <3>1 DEF Limits, TypeOK
    <3> QED
      BY <1>2, <3>2
  <2> QED
    BY <1>2, <1>3, <2>2, <2>3, <2>4 DEF Limits, InForce, Granted
<1> QED
  BY <1>4, <1>5, <1>6 DEF Limits

(* A process that comes, goes or moves. *)
LEMMA ProcLimits ==
  ASSUME Limits, TypeOK', UNCHANGED <<life, overlap, exists, limit, wish>>,
         InPlace'
  PROVE  Limits'
BY DEF Limits, NewHasNoWish, Alone, InForce, InPlace, Own, Homonyms, Granted

LEMMA InPlaceKept ==
  ASSUME Limits, NEW p \in Proc,
         \/ Start(p) \/ Deliver(p) \/ Exit(p) \/ Die(p) \/ Reap(p)
         \/ \E q \in Proc : Fork(q, p)
         \/ \E c \in Ctl : AddProcess(c, p) \/ StartInto(c, p)
  PROVE  InPlace'
<1>1. CASE Start(p)
  BY <1>1, CgroupAssumption DEF Start, Newborn, Limits, InPlace, TypeOK
<1>2. CASE Exit(p) \/ Deliver(p) \/ Reap(p)
  BY <1>2 DEF Exit, Deliver, Reap, Limits, InPlace, TypeOK
<1>3. CASE Die(p)
  BY <1>3, CgroupAssumption DEF Die, Limits, InPlace, TypeOK
<1>4. CASE \E q \in Proc : Fork(q, p)
  BY <1>4 DEF Fork, Newborn, Live, Limits, InPlace, TypeOK
<1>5. CASE \E c \in Ctl : AddProcess(c, p)
  <2>1. PICK c \in Ctl : AddProcess(c, p)
    BY <1>5
  <2>2. CASE UNCHANGED <<group, via>>
    BY <2>1, <2>2 DEF AddProcess, Limits, InPlace, TypeOK
  <2>3. CASE ~ UNCHANGED <<group, via>>
    BY <2>1, <2>3, CgroupAssumption DEF AddProcess, Limits, InPlace, TypeOK
  <2> QED
    BY <2>2, <2>3
<1>6. CASE \E c \in Ctl : StartInto(c, p)
  BY <1>6 DEF StartInto, Newborn, Limits, InPlace, TypeOK
<1> QED
  BY <1>1, <1>2, <1>3, <1>4, <1>5, <1>6

LEMMA LimitsStep == Limits /\ [Next]_vars => Limits'
<1>1. SUFFICES ASSUME Limits, [Next]_vars PROVE Limits'
  OBVIOUS
<1>2. TypeOK'
  BY <1>1, TypeStep DEF Limits
<1>3. ASSUME NEW c \in Ctl, CtlStep(c) PROVE Limits'
  <2>1. CASE Create(c)
    BY <1>1, <1>2, <2>1, CreateLimits
  <2>2. CASE BuildLimit(c) \/ SetLimit(c)
    <3>1. PICK k \in Knob, v \in Ctl \cup {"max"} : Write(c, k, v)
      BY <1>1, <2>2, CgroupAssumption
      DEF BuildLimit, SetLimit, Values, Limits, TypeOK
    <3>2. /\ life[c] \in {"building", "live"}
          /\ UNCHANGED <<life, overlap, exists, proc, via, group>>
      BY <2>2 DEF BuildLimit, SetLimit, procVars
    <3>3. InForce' /\ NewHasNoWish'
      BY <1>1, <3>1, <3>2, WriteInForce
    <3>4. Alone' /\ InPlace'
      BY <1>1, <3>2 DEF Limits, Alone, InPlace, Own, Homonyms
    <3> QED
      BY <1>2, <3>3, <3>4 DEF Limits
  <2>3. CASE Built(c)
    <3>1. \A d \in Ctl : /\ Own(d)' => Own(d)
                         /\ life'[d] \in {"building", "live"} =>
                              life[d] \in {"building", "live"}
                         /\ life'[d] = "new" => life[d] = "new"
      BY <1>1, <2>3 DEF Built, Own, Limits, TypeOK
    <3>2. UNCHANGED <<overlap, exists, limit, wish, proc, via, group>>
      BY <2>3 DEF Built, groupVars, killVars, procVars
    <3> QED
      BY <1>1, <1>2, <3>1, <3>2 DEF Limits, NewHasNoWish, Alone, InForce,
                                    InPlace, Homonyms, Granted
  <2>4. CASE Destroy(c) \/ DestroyTerminates(c) \/ Abandon(c)
    BY <1>1, <1>2, <2>4, EndLimits
  <2>5. CASE GetCgroupFd(c) \/ KillAll(c)
    <3>1. /\ UNCHANGED <<life, overlap, exists, limit, wish>>
          /\ UNCHANGED <<proc, via, group>>
      BY <2>5 DEF GetCgroupFd, KillAll, ctlVars, groupVars, killVars, procVars
    <3>2. InPlace'
      BY <1>1, <3>1 DEF Limits, InPlace
    <3> QED
      BY <1>1, <1>2, <3>1, <3>2, ProcLimits
  <2>6. ASSUME NEW p \in Proc, AddProcess(c, p) \/ StartInto(c, p)
        PROVE Limits'
    <3>1. UNCHANGED <<life, overlap, exists, limit, wish>>
      BY <2>6 DEF AddProcess, StartInto, ctlVars
    <3> QED
      BY <1>1, <1>2, <2>6, <3>1, ProcLimits, InPlaceKept
  <2> QED
    BY <1>3, <2>1, <2>2, <2>3, <2>4, <2>5, <2>6 DEF CtlStep
<1>4. ASSUME NEW p \in Proc, ProcStep(p) PROVE Limits'
  <2>1. UNCHANGED <<life, overlap, exists, limit, wish>>
    BY <1>4 DEF ProcStep, Start, Deliver, Exit, Die, Reap, Fork, ctlVars,
      groupVars, killVars
  <2>2. InPlace'
    BY <1>1, <1>4, InPlaceKept DEF ProcStep
  <2> QED
    BY <1>1, <1>2, <2>1, <2>2, ProcLimits
<1>5. CASE UNCHANGED vars
  <2>1. /\ UNCHANGED <<life, overlap, exists, limit, wish>>
        /\ UNCHANGED <<proc, via, group>>
    BY <1>5 DEF vars, ctlVars, groupVars, killVars, procVars
  <2>2. InPlace'
    BY <1>1, <2>1 DEF Limits, InPlace
  <2> QED
    BY <1>1, <1>2, <2>1, <2>2, ProcLimits
<1> QED
  BY <1>1, <1>3, <1>4, <1>5 DEF Next

(* What runs through a controller runs under its limits, for any number of  *)
(* controllers that share names one after the other or leave directories   *)
(* behind.                                                                 *)
THEOREM ConfinedAlways == Spec => []Confined
<1>1. Init => Limits
  <2>1. Init => TypeOK
    BY CgroupAssumption DEF Init, TypeOK, Maxima, NoWish, Knob
  <2> QED
    BY <2>1 DEF Init, Limits, NewHasNoWish, Alone, InForce, InPlace, Own
<1>2. Limits => Confined
  BY DEF Limits, InForce, InPlace, Own, Granted, Confined
<1> QED
  BY <1>1, <1>2, LimitsStep, PTL DEF Spec
-----------------------------------------------------------------------------
(* Why a group that was killed empties.  A namespace within a namespace is  *)
(* part of it, and no two processes are inits of each other; so the signals *)
(* reach everybody whom a doomed init waits for.                           *)

(* After killAll(), and until somebody is put in the group again, its       *)
(* members, and whoever they have forked, are doomed or still to be        *)
(* signalled; a doomed init waits for doomed processes only, and no two of *)
(* these wait for each other.                                              *)
Reached(p, n) == p \in doomed \/ (killing = n /\ p \in due)

KilledAreDoomed ==
  /\ \A p \in Proc, n \in killed :
       proc[p] = "live" /\ group[p] = n => Reached(p, n)
  /\ \A p \in doomed, q \in Proc :
       proc[q] = "live" /\ p \in inits[q] =>
         q \in doomed /\ (q \in inits[p] => p = q)

Nested ==
  /\ \A p \in doomed : proc[p] = "live"
  /\ \A q \in Proc : proc[q] = "live" =>
       \A r \in inits[q] :
         inits[r] \subseteq inits[q] /\ (q \in inits[r] => q = r)

Signalled == Family /\ Nested /\ KilledAreDoomed

(* A process is born by a process that is in the same namespaces, or in     *)
(* none but its own: doomed, or outside every group that was killed.       *)
LEMMA BirthSignalled ==
  ASSUME Signalled, NEW p \in Proc, proc[p] = "unborn",
         proc' = [proc EXCEPT ![p] = "live"],
         killed' \subseteq killed, UNCHANGED <<killing, due>>,
         \/ doomed' = doomed /\ group'[p] \notin killed'
         \/ doomed' = doomed \cup {p},
         \A q \in Proc \ {p} : group'[q] = group[q] /\ inits'[q] = inits[q],
         \/ inits'[p] \subseteq {p}
         \/ \E r \in Proc : /\ proc[r] = "live" /\ r \notin doomed
                           /\ inits'[p] \in {inits[r], inits[r] \cup {p}}
  PROVE  Nested' /\ KilledAreDoomed'
<1> DEFINE N == inits'[p] \ {p}
<1>1. /\ proc \in [Proc -> {"unborn", "live", "zombie", "gone"}]
      /\ inits \in [Proc -> SUBSET Proc] /\ doomed \subseteq Proc
      /\ killed \subseteq Name
  BY DEF Signalled, Family, TypeOK
<1>2. \A q \in Proc : proc[q] = "live" => q # p /\ p \notin inits[q]
  BY DEF Signalled, Family, InitsLast
<1>3. /\ \A q \in Proc \ {p} : proc'[q] = proc[q]
      /\ proc'[p] = "live" /\ p \notin doomed
      /\ doomed \subseteq doomed' /\ doomed' \subseteq doomed \cup {p}
  BY <1>1 DEF Signalled, Nested
<1>4. /\ N \subseteq inits'[p] /\ inits'[p] \subseteq N \cup {p}
      /\ N \subseteq Proc /\ p \notin N
      /\ \A r \in N : /\ proc[r] = "live" /\ r \notin doomed
                      /\ inits[r] \subseteq N /\ inits'[r] = inits[r]
                      /\ p \notin inits[r]
  <2>1. CASE N = {}
    BY <2>1
  <2>2. ASSUME NEW r \in Proc, proc[r] = "live", r \notin doomed,
               inits'[p] \in {inits[r], inits[r] \cup {p}}
        PROVE  /\ N \subseteq Proc /\ p \notin N
               /\ \A s \in N : /\ proc[s] = "live" /\ s \notin doomed
                               /\ inits[s] \subseteq N /\ inits'[s] = inits[s]
                               /\ p \notin inits[s]
    <3>1. N = inits[r] /\ N \subseteq Proc /\ p \notin N
      BY <1>1, <1>2, <2>2
    <3>2. \A s \in N : proc[s] = "live" /\ inits[s] \subseteq N
      BY <2>2, <3>1 DEF Signalled, Family, InitsLast, Nested
    <3>3. \A s \in N : s \notin doomed
      BY <2>2, <3>1 DEF Signalled, KilledAreDoomed
    <3>4. \A s \in N : inits'[s] = inits[s] /\ p \notin inits[s]
      BY <1>2, <3>1, <3>2
    <3> QED
      BY <3>1, <3>2, <3>3, <3>4
  <2> QED
    BY <2>1, <2>2
<1> HIDE DEF N
<1>5. Nested'
  <2>1. ASSUME NEW q \in Proc, proc'[q] = "live", NEW r \in inits'[q]
        PROVE  /\ inits'[r] \subseteq inits'[q]
               /\ q \in inits'[r] => q = r
    <3>1. CASE q = p /\ r = p
      BY <3>1
    <3>2. CASE q = p /\ r # p
      BY <1>4, <2>1, <3>2
    <3>3. CASE q # p
      <4>1. r \in inits[q] /\ proc[q] = "live" /\ r \in Proc /\ r # p
        BY <1>1, <1>2, <1>3, <2>1, <3>3
      <4>2. inits'[r] = inits[r] /\ inits'[q] = inits[q]
        BY <3>3, <4>1
      <4> QED
        BY <4>1, <4>2 DEF Signalled, Nested
    <3> QED
      BY <3>1, <3>2, <3>3
  <2>2. \A q \in doomed' : proc'[q] = "live"
    BY <1>1, <1>3 DEF Signalled, Nested
  <2> QED
    BY <2>1, <2>2 DEF Nested
<1>6. KilledAreDoomed'
  <2>1. ASSUME NEW q \in Proc, NEW n \in killed',
               proc'[q] = "live", group'[q] = n
        PROVE  Reached(q, n)'
    <3>1. CASE q = p
      BY <2>1, <3>1 DEF Reached
    <3>2. CASE q # p
      BY <1>3, <2>1, <3>2 DEF Signalled, KilledAreDoomed, Reached
    <3> QED
      BY <3>1, <3>2
  <2>2. ASSUME NEW r \in doomed', NEW q \in Proc,
               proc'[q] = "live", r \in inits'[q]
        PROVE  q \in doomed' /\ (q \in inits'[r] => r = q)
    <3>1. CASE r = p
      <4>1. q = p
        BY <1>2, <1>3, <2>2, <3>1
      <4> QED
        BY <2>2, <3>1, <4>1
    <3>2. CASE r # p
      <4>1. r \in doomed /\ r \in Proc
        BY <1>1, <1>3, <2>2, <3>2
      <4>2. q # p
        BY <1>4, <2>2, <3>2, <4>1
      <4>3. /\ inits'[r] = inits[r] /\ inits'[q] = inits[q]
            /\ proc[q] = "live"
        BY <1>3, <2>2, <3>2, <4>1, <4>2
      <4> QED
        BY <1>3, <2>2, <4>1, <4>3 DEF Signalled, KilledAreDoomed
    <3> QED
      BY <3>1, <3>2
  <2> QED
    BY <2>1, <2>2 DEF KilledAreDoomed
<1> QED
  BY <1>5, <1>6

(* Signals to some processes, and to the namespaces of those of them that   *)
(* are inits.                                                              *)
LEMMA DoomSignalled ==
  ASSUME Signalled, NEW ps, ps \subseteq Proc, Doom(ps),
         UNCHANGED <<proc, group, inits, killed>>,
         \A p \in due \ ps : killing' = killing /\ p \in due'
  PROVE  Nested' /\ KilledAreDoomed'
<1>1. /\ doomed' = doomed \cup
           {q \in ps \cup {r \in Proc : inits[r] \cap ps # {}} :
              proc[q] = "live"}
      /\ inits \in [Proc -> SUBSET Proc] /\ doomed \subseteq Proc
  BY DEF Doom, WithNamespaces, Signalled, Family, TypeOK
<1>2. Nested'
  BY <1>1 DEF Signalled, Nested
<1>3. ASSUME NEW p \in Proc, NEW n \in killed',
             proc[p] = "live", group[p] = n
      PROVE  Reached(p, n)'
  BY <1>1, <1>3 DEF Signalled, KilledAreDoomed, Reached
<1>4. ASSUME NEW r \in doomed', NEW q \in Proc, proc[q] = "live",
             r \in inits[q]
      PROVE  q \in doomed' /\ (q \in inits[r] => r = q)
  <2>1. inits[r] \subseteq inits[q] /\ (q \in inits[r] => r = q)
    BY <1>4 DEF Signalled, Nested
  <2>2. CASE r \in doomed
    BY <1>1, <1>4, <2>1, <2>2 DEF Signalled, KilledAreDoomed
  <2>3. CASE r \in ps
    BY <1>1, <1>4, <2>1, <2>3
  <2>4. CASE inits[r] \cap ps # {}
    BY <1>1, <1>4, <2>1, <2>4
  <2> QED
    BY <1>1, <1>4, <2>2, <2>3, <2>4
<1>5. KilledAreDoomed'
  BY <1>3, <1>4 DEF KilledAreDoomed
<1> QED
  BY <1>2, <1>5

(* killAll() finds no other group half killed, and owes all members of its  *)
(* own a signal.                                                           *)
LEMMA KillSignalled ==
  ASSUME Signalled, NEW n \in Name, Unlocked, Killing(n, Members(n)),
         killed' = killed \cup {n},
         UNCHANGED <<proc, group, inits, doomed>>
  PROVE  Nested' /\ KilledAreDoomed'
<1>1. Nested'
  BY DEF Signalled, Nested
<1>2. ASSUME NEW p \in Proc, NEW m \in killed', proc[p] = "live", group[p] = m
      PROVE  Reached(p, m)'
  <2>1. CASE m = n
    <3>1. p \in Members(n)
      BY <1>2, <2>1 DEF Members
    <3> QED
      BY <2>1, <3>1 DEF Killing, Reached
  <2>2. CASE m # n
    <3>1. m \in killed /\ m \in Name
      BY <2>2 DEF Signalled, Family, TypeOK
    <3>2. killing # m
      BY <3>1, CgroupAssumption DEF Unlocked
    <3> QED
      BY <1>2, <3>1, <3>2 DEF Signalled, KilledAreDoomed, Reached
  <2> QED
    BY <2>1, <2>2
<1>3. KilledAreDoomed'
  BY <1>2 DEF Signalled, KilledAreDoomed
<1> QED
  BY <1>1, <1>3

LEMMA SignalledStep == Signalled /\ [Next]_vars => Signalled'
<1> SUFFICES ASSUME Signalled, [Next]_vars PROVE Nested' /\ KilledAreDoomed'
  BY FamilyStep DEF Signalled
<1> USE CgroupAssumption
<1>1. /\ proc \in [Proc -> {"unborn", "live", "zombie", "gone"}]
      /\ inits \in [Proc -> SUBSET Proc] /\ doomed \subseteq Proc
      /\ killed \subseteq Name
      /\ group \in [Proc -> Name \cup {"outside"}]
      /\ killing \in Name \cup {"none"}
  BY DEF Signalled, Family, TypeOK
<1>2. ASSUME UNCHANGED <<proc, group, inits, doomed, killing, due>>,
             killed' \subseteq killed
      PROVE  Nested' /\ KilledAreDoomed'
  BY <1>2 DEF Signalled, Nested, KilledAreDoomed, Reached
<1>3. ASSUME NEW c \in Ctl, CtlStep(c) PROVE Nested' /\ KilledAreDoomed'
  <2>1. CASE \/ Create(c) \/ BuildLimit(c) \/ Built(c) \/ Abandon(c)
             \/ SetLimit(c) \/ GetCgroupFd(c) \/ DestroyTerminates(c)
             \/ Destroy(c)
    <3>1. /\ UNCHANGED <<proc, group, inits, doomed, killing, due>>
          /\ killed' \subseteq killed
      BY <2>1 DEF Create, BuildLimit, Built, Abandon, SetLimit, GetCgroupFd,
        DestroyTerminates, Destroy, procVars, groupVars, killVars
    <3> QED
      BY <1>2, <3>1
  <2>2. CASE KillAll(c)
    <3>1. CASE UNCHANGED killVars
      BY <1>2, <2>2, <3>1 DEF KillAll, procVars, killVars
    <3>2. CASE ~ UNCHANGED killVars
      BY <2>2, <3>2, KillSignalled DEF KillAll, procVars
    <3> QED
      BY <3>1, <3>2
  <2>3. ASSUME NEW p \in Proc, AddProcess(c, p)
        PROVE  Nested' /\ KilledAreDoomed'
    <3>1. CASE UNCHANGED <<group, killed>>
      BY <1>2, <2>3, <3>1 DEF AddProcess
    <3>2. CASE ~ UNCHANGED <<group, killed>>
      <4>1. /\ group' = [group EXCEPT ![p] = NameOf[c]]
            /\ killed' = killed \ {NameOf[c]}
            /\ UNCHANGED <<proc, inits, doomed, killing, due>>
        BY <2>3, <3>2 DEF AddProcess
      <4>2. \A q \in Proc, n \in killed' :
              group'[q] = n => group[q] = n /\ n \in killed
        BY <1>1, <4>1
      <4> QED
        BY <4>1, <4>2 DEF Signalled, Nested, KilledAreDoomed, Reached
    <3> QED
      BY <3>1, <3>2
  <2>4. ASSUME NEW p \in Proc, StartInto(c, p)
        PROVE  Nested' /\ KilledAreDoomed'
    <3>1. /\ proc[p] = "unborn" /\ proc' = [proc EXCEPT ![p] = "live"]
          /\ group' = [group EXCEPT ![p] = NameOf[c]]
          /\ inits' \in {inits, [inits EXCEPT ![p] = {p}]}
          /\ killed' = killed \ {NameOf[c]} /\ doomed' = doomed
          /\ UNCHANGED <<killing, due>>
          /\ inits[p] = {}
      BY <2>4 DEF StartInto, Newborn, Signalled, Family, Unborn
    <3>2. /\ \A q \in Proc \ {p} :
               group'[q] = group[q] /\ inits'[q] = inits[q]
          /\ group'[p] \notin killed' /\ killed' \subseteq killed
          /\ inits'[p] \subseteq {p}
      BY <1>1, <3>1
    <3> QED
      BY <3>1, <3>2, BirthSignalled
  <2> QED
    BY <1>3, <2>1, <2>2, <2>3, <2>4 DEF CtlStep
<1>4. ASSUME NEW p \in Proc, ProcStep(p) PROVE Nested' /\ KilledAreDoomed'
  <2>1. CASE Start(p)
    <3>1. /\ proc[p] = "unborn" /\ proc' = [proc EXCEPT ![p] = "live"]
          /\ group' = group /\ killed' = killed /\ doomed' = doomed
          /\ UNCHANGED <<killing, due>>
          /\ inits' \in {inits, [inits EXCEPT ![p] = {p}]}
          /\ inits[p] = {} /\ group[p] = "outside"
      BY <2>1 DEF Start, Newborn, groupVars, killVars, Signalled, Family,
        Unborn
    <3>2. /\ \A q \in Proc \ {p} :
               group'[q] = group[q] /\ inits'[q] = inits[q]
          /\ group'[p] \notin killed'
          /\ inits'[p] \subseteq {p}
      BY <1>1, <3>1
    <3> QED
      BY <3>1, <3>2, BirthSignalled
  <2>2. CASE Exit(p)
    <3>1. /\ Doom({p}) /\ {p} \subseteq Proc
          /\ UNCHANGED <<proc, group, inits, killed, killing, due>>
      BY <2>2 DEF Exit, groupVars, killVars
    <3> QED
      BY <3>1, DoomSignalled
  <2>3. CASE Deliver(p)
    <3>1. /\ Doom({p}) /\ {p} \subseteq Proc
          /\ UNCHANGED <<proc, group, inits, killed>>
          /\ Killing(killing, due \ {p})
      BY <2>3 DEF Deliver
    <3>2. \A q \in due \ {p} : killing' = killing /\ q \in due'
      BY <3>1 DEF Killing
    <3> QED
      BY <3>1, <3>2, DoomSignalled
  <2>4. CASE Die(p)
    <3>1. /\ proc' = [proc EXCEPT ![p] = "zombie"]
          /\ doomed' = doomed \ {p}
          /\ group' = [group EXCEPT ![p] = "outside"]
          /\ UNCHANGED <<inits, killed, killing, due>>
      BY <2>4 DEF Die, groupVars, killVars
    <3>2. /\ \A q \in Proc : proc'[q] = "live" =>
               q # p /\ proc[q] = "live" /\ group'[q] = group[q]
          /\ \A q \in doomed' : q # p /\ q \in doomed /\ proc'[q] = proc[q]
          /\ \A q \in Proc \ {p} : q \in doomed => q \in doomed'
      BY <1>1, <3>1
    <3> QED
      BY <3>1, <3>2 DEF Signalled, Nested, KilledAreDoomed, Reached
  <2>5. CASE Reap(p)
    <3>1. /\ proc' = [proc EXCEPT ![p] = "gone"] /\ proc[p] = "zombie"
          /\ UNCHANGED <<group, inits, doomed, killed, killing, due>>
      BY <2>5 DEF Reap, groupVars, killVars
    <3>2. /\ \A q \in Proc : proc'[q] = "live" => proc[q] = "live"
          /\ \A q \in doomed : proc[q] = "live" => proc'[q] = "live"
      BY <1>1, <3>1
    <3> QED
      BY <3>1, <3>2 DEF Signalled, Nested, KilledAreDoomed, Reached
  <2>6. ASSUME NEW q \in Proc, Fork(p, q) PROVE Nested' /\ KilledAreDoomed'
    <3>1. /\ proc[q] = "unborn" /\ proc' = [proc EXCEPT ![q] = "live"]
          /\ group' = [group EXCEPT ![q] = group[p]]
          /\ doomed' = IF group[p] = killing THEN doomed \cup {q} ELSE doomed
          /\ UNCHANGED <<killed, killing, due>>
          /\ proc[p] = "live" /\ p \notin doomed
      BY <2>6 DEF Fork, Live, Newborn, groupVars, killVars
    <3>2. PICK own \in {{}, {q}} :
            inits' = [inits EXCEPT ![q] = inits[p] \cup own]
      BY <2>6 DEF Fork
    <3>3. /\ \A r \in Proc \ {q} :
               group'[r] = group[r] /\ inits'[r] = inits[r]
          /\ group'[q] = group[p] /\ inits'[q] = inits[p] \cup own
      BY <1>1, <3>1, <3>2
    <3>4. group[p] = killing \/ group'[q] \notin killed'
      BY <3>1, <3>3 DEF Signalled, KilledAreDoomed, Reached
    <3>5. /\ inits'[q] \in {inits[p], inits[p] \cup {q}}
          /\ killed' \subseteq killed
      BY <3>1, <3>3
    <3> QED
      BY <3>1, <3>3, <3>4, <3>5, BirthSignalled
  <2> QED
    BY <1>4, <2>1, <2>2, <2>3, <2>4, <2>5, <2>6 DEF ProcStep
<1>5. CASE UNCHANGED vars
  BY <1>2, <1>5 DEF vars, procVars, groupVars, killVars
<1> QED
  BY <1>3, <1>4, <1>5 DEF Next

(* A killAll() that the kernel accepts reaches everybody in the group, and  *)
(* everybody whom they wait for, although children that have no signal yet *)
(* fork and make namespaces (cgroup_controller.cpp:152-154): what          *)
(* KilledEnd needs of safety.                                              *)
THEOREM NobodyEscapes == Spec => []KilledAreDoomed
<1>1. Init => Signalled
  <2>1. Init => TypeOK
    BY CgroupAssumption DEF Init, TypeOK, Maxima, NoWish, Knob
  <2> QED
    BY <2>1 DEF Init, Signalled, Family, Unborn, InitsLast, EnteredBorn,
      Ancestry, Nested, KilledAreDoomed
<1>2. Signalled => KilledAreDoomed
  BY DEF Signalled
<1> QED
  BY <1>1, <1>2, SignalledStep, PTL DEF Spec
=============================================================================
