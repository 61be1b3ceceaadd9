------------------------------ MODULE FdHolder ------------------------------
(***************************************************************************)
(* util::FdHolder, the owner of a descriptor, and FileDescriptor, the bare *)
(* number (fd_holder.cpp, file_descriptor.hpp), over a process's table of  *)
(* descriptors, whose numbers the kernel gives out again.                  *)
(*                                                                         *)
(* close() may fail; the kernel has freed the number all the same.  The    *)
(* history variables say what each holder ought to have: given, and what   *)
(* failing closes have led to: failed, astray; and what other processes    *)
(* have closed: lost.                                                      *)
(***************************************************************************)
CONSTANTS Holder, Number, File,
          None,       \* -1, and no file
          Faults      \* "close": close() may fail; "share": a process that
                      \* shares the table closes numbers, too

VARIABLES
  live,      \* the holders that are constructed
  fd,        \* their fd_
  table,     \* kernel: the file of each number, None if it is free
  loose,     \* numbers that the program has in its own hands
  given,     \* history: the file that a holder was given to close
  failed,    \* history: a close() has failed
  astray,    \* history: a number that was closed already has been closed
             \* again, or was handed to the program
  ended,     \* std::terminate
  lost       \* history: the files that another process has closed here

(* The composition assumes it of its constants. *)
HolderConstants == None \notin Number \cup File

vars == <<live, fd, table, loose, given, failed, astray, ended, lost>>

Init ==
  /\ live = {}
  /\ fd = [h \in Holder |-> None]
  /\ table = [n \in Number |-> None]
  /\ loose = {}
  /\ given = [h \in Holder |-> None]
  /\ failed = FALSE
  /\ astray = FALSE
  /\ ended = FALSE
  /\ lost = {}

(* reset() and the destructor ask `if (fd_)`. *)
Has(h) == fd[h] # None

Stale(h) == Has(h) /\ (given[h] = None \/ table[fd[h]] # given[h])

Closed(N) == [n \in Number |-> IF n \in N THEN None ELSE table[n]]

-----------------------------------------------------------------------------
(* The rest of the program: it opens a new file, under any free number, and *)
(* closes what is its own.                                                 *)

Open ==
  /\ \E n \in {m \in Number : table[m] = None} \ loose,
        x \in File \ ({table[m] : m \in Number} \cup
                      {given[h] : h \in Holder} \cup lost) :
       /\ table' = [table EXCEPT ![n] = x]
       /\ loose' = loose \cup {n}
  /\ UNCHANGED <<live, fd, given, failed, astray, ended, lost>>

CloseLoose(n) ==
  /\ n \in loose
  /\ table' = Closed({n})
  /\ loose' = loose \ {n}
  /\ UNCHANGED <<live, fd, given, failed, astray, ended, lost>>

(* A process that shares the table closes a number. *)
Lose(n) ==
  /\ "share" \in Faults
  /\ table[n] # None
  /\ table' = Closed({n})
  /\ lost' = lost \cup {table[n]}
  /\ astray' = (astray \/ n \in loose)
  /\ UNCHANGED <<live, fd, loose, given, failed, ended>>

-----------------------------------------------------------------------------
(* The holder. *)

Default(h) ==
  /\ h \notin live
  /\ live' = live \cup {h}
  /\ UNCHANGED <<fd, table, loose, given, failed, astray, ended, lost>>

Adopt(h, n) ==
  /\ h \notin live
  /\ n \in loose
  /\ live' = live \cup {h}
  /\ fd' = [fd EXCEPT ![h] = n]
  /\ given' = [given EXCEPT ![h] = table[n]]
  /\ loose' = loose \ {n}
  /\ UNCHANGED <<table, failed, astray, ended, lost>>

Exchange(g, h) ==
  /\ fd' = [fd EXCEPT ![g] = fd[h], ![h] = fd[g]]
  /\ given' = [given EXCEPT ![g] = given[h], ![h] = given[g]]

(* Default constructed, then swapped. *)
MoveConstruct(g, h) ==
  /\ g \notin live
  /\ h \in live
  /\ live' = live \cup {g}
  /\ Exchange(g, h)
  /\ UNCHANGED <<table, loose, failed, astray, ended, lost>>

Swap(g, h) ==
  /\ g \in live /\ h \in live
  /\ Exchange(g, h)
  /\ UNCHANGED <<live, table, loose, failed, astray, ended, lost>>

(* Mutant: the number is taken over, and the old one is not closed. *)
MoveAssignOver(g, h) ==
  /\ g \in live /\ h \in live
  /\ g # h
  /\ fd' = [fd EXCEPT ![g] = fd[h], ![h] = None]
  /\ given' = [given EXCEPT ![g] = given[h], ![h] = None]
  /\ UNCHANGED <<live, table, loose, failed, astray, ended, lost>>

(* The old descriptor of g stays open, in h. *)
MoveAssign(g, h) == Swap(g, h)

(* close(), then the assignment. *)
Reset(h, n) ==
  /\ h \in live
  /\ n \in loose \cup {None}
  /\ Has(h) => table[fd[h]] # None
  /\ table' = Closed({fd[h]})
  /\ fd' = [fd EXCEPT ![h] = n]
  /\ given' = [given EXCEPT ![h] = IF n = None THEN None ELSE table[n]]
  /\ loose' = loose \ {n}
  /\ astray' = (astray \/ Stale(h))
  /\ UNCHANGED <<live, failed, ended, lost>>

(* close() fails, by a fault or because the number is not open, and         *)
(* ensure() throws before the assignment: the new number is still the      *)
(* caller's.                                                               *)
ResetThrows(h) ==
  /\ h \in live
  /\ Has(h)
  /\ "close" \in Faults \/ table[fd[h]] = None
  /\ table' = Closed({fd[h]})
  /\ given' = [given EXCEPT ![h] = None]
  /\ failed' = (failed \/ table[fd[h]] # None)
  /\ astray' = (astray \/ Stale(h))
  /\ UNCHANGED <<live, fd, loose, ended, lost>>

(* Mutant: -1 is handed out like a number. *)
ReleaseAnything(h) ==
  /\ h \in live
  /\ loose' = loose \cup {fd[h]}
  /\ fd' = [fd EXCEPT ![h] = None]
  /\ given' = [given EXCEPT ![h] = None]
  /\ astray' = (astray \/ Stale(h))
  /\ UNCHANGED <<live, table, failed, ended, lost>>

Release(h) ==
  /\ h \in live
  /\ loose' = loose \cup ({fd[h]} \ {None})
  /\ fd' = [fd EXCEPT ![h] = None]
  /\ given' = [given EXCEPT ![h] = None]
  /\ astray' = (astray \/ Stale(h))
  /\ UNCHANGED <<live, table, failed, ended, lost>>

(* The destructors of the holders of one object, or of one. *)
Destroy(S) ==
  /\ S \subseteq live
  /\ \A h \in S : Has(h) => table[fd[h]] # None
  /\ table' = Closed({fd[h] : h \in S})
  /\ live' = live \ S
  /\ fd' = [h \in Holder |-> IF h \in S THEN None ELSE fd[h]]
  /\ given' = [h \in Holder |-> IF h \in S THEN None ELSE given[h]]
  /\ astray' = (astray \/ \E h \in S : Stale(h))
  /\ UNCHANGED <<loose, failed, ended, lost>>

(* reset() throws in a destructor, which is noexcept. *)
DestroyTerminates(S) ==
  /\ S \subseteq live
  /\ \E h \in S :
       /\ Has(h)
       /\ "close" \in Faults \/ table[fd[h]] = None
       /\ failed' = (failed \/ table[fd[h]] # None)
  /\ ended' = TRUE
  /\ UNCHANGED <<live, fd, table, loose, given, astray, lost>>

HolderStep(h) ==
  \/ Default(h)
  \/ \E n \in loose : Adopt(h, n)
  \/ \E n \in loose \cup {None} : Reset(h, n)
  \/ ResetThrows(h)
  \/ Release(h)
  \/ \E g \in Holder : MoveConstruct(h, g) \/ Swap(h, g) \/ MoveAssign(h, g)

Next ==
  /\ ~ ended
  /\ \/ Open
     \/ \E n \in loose : CloseLoose(n)
     \/ \E n \in Number : Lose(n)
     \/ \E h \in Holder : HolderStep(h)
     \/ \E S \in SUBSET live : Destroy(S) \/ DestroyTerminates(S)

Spec == Init /\ [][Next]_vars
-----------------------------------------------------------------------------
(* Properties. *)

TypeOK ==
  /\ live \subseteq Holder
  /\ fd \in [Holder -> Number \cup {None}]
  /\ table \in [Number -> File \cup {None}]
  /\ loose \subseteq Number
  /\ given \in [Holder -> File \cup {None}]
  /\ failed \in BOOLEAN
  /\ astray \in BOOLEAN
  /\ ended \in BOOLEAN
  /\ lost \subseteq File

(* Whatever is moved, swapped, reset and released, in any order, and        *)
(* however numbers are reused, the number of a holder is that of the file  *)
(* it was given, and nobody else's; no number is closed twice, and no      *)
(* destructor ends the program.  A failing close() leaves a holder with a  *)
(* number that is not its own any more (fd_holder.cpp:34), and so does     *)
(* another process that closes it: the other holders keep theirs until     *)
(* that number is closed again or released.                                *)
HoldersOwn ==
  /\ ~ failed /\ lost = {} =>
       ~ astray /\ ~ ended /\ \A h \in live : ~ Stale(h)
  /\ ~ astray =>
       \A h \in live :
         given[h] \notin {None} \cup lost =>
           /\ Has(h) /\ table[fd[h]] = given[h]
           /\ fd[h] \notin loose
           /\ \A g \in live \ {h} : given[g] # given[h]
=============================================================================
