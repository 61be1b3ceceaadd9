------------------------------- MODULE Pipes -------------------------------
(***************************************************************************)
(* Pipes between a program and the processes it starts (pipe.cpp,          *)
(* data_transfer.hpp, execute.cpp).                                        *)
(*                                                                         *)
(* A DataTransfer keeps both ends of its pipe, and every clone inherits    *)
(* both.  The write end of a captured pipe was moved into the routine f of *)
(* one Execute call, as tests/timer_fd.cpp does: the caller has it, too,   *)
(* until Execute is over, with a child or without, and destroys f; so has  *)
(* whatever other threads clone meanwhile.  A hook's exception in the      *)
(* child destroys the child's f.  receive() stands for any reader.         *)
(***************************************************************************)
EXTENDS Naturals, Sequences, Functions

CONSTANTS
  Proc, Main, Runner,   \* Main starts the others, Runner with f
  Chan, Captured,       \* pipes; those whose write end f has captured
  Senders, Receivers,   \* the processes that use a pipe's ends
  Size,                 \* sizeof(T) of the values of a pipe
  Capacity, Atomic,     \* of a pipe: its size, and PIPE_BUF
  Rounds                \* bound: the values that a process sends to a pipe

ASSUME PipesAssumption ==
  /\ {Main, Runner} \subseteq Proc /\ Main # Runner
  /\ Captured \subseteq Chan
  /\ Senders \in [Chan -> SUBSET Proc] /\ Receivers \in [Chan -> SUBSET Proc]
  /\ \A ch \in Captured : Senders[ch] = {Runner} /\ Receivers[ch] = {Main}
  /\ Size \in [Chan -> Nat \ {0}]
  /\ Atomic \in Nat \ {0} /\ Capacity \in Nat /\ Atomic <= Capacity
  /\ Rounds \in Nat

VARIABLES
  life,      \* of each process: unborn; born, before f; live; escaped from
             \* Execute, live without f; dead
  returned,  \* the Execute call of Runner is over
  writers,   \* kernel: the processes with a descriptor of the write end
  buf,       \* kernel: the bytes in each pipe
  sent,      \* history: the values each process has begun to send
  left,      \* the bytes of its value that a blocked send() has still to write
  got        \* what receive() has returned, a value after the other

vars == <<life, returned, writers, buf, sent, left, got>>

(* A byte: its sender, the number of its value and its place in it. *)
Byte(p, n, i) == <<p, n, i>>
Junk == Byte("nobody", 0, 0)

Value(p, n, ch) == [i \in 1..Size[ch] |-> Byte(p, n, i)]
AllJunk(ch) == [i \in 1..Size[ch] |-> Junk]

Init ==
  /\ life = [p \in Proc |-> IF p = Main THEN "live" ELSE "unborn"]
  /\ returned = FALSE
  /\ writers = [ch \in Chan |-> {Main}]
  /\ buf = [ch \in Chan |-> <<>>]
  /\ sent = [p \in Proc |-> [ch \in Chan |-> 0]]
  /\ left = [p \in Proc |-> [ch \in Chan |-> 0]]
  /\ got = [ch \in Chan |-> <<>>]

Least(a, b) == IF a <= b THEN a ELSE b

Acts(p) == life[p] \in {"live", "escaped"}
Alive(p) == life[p] = "born" \/ Acts(p)

(* The ends that p has without the captures of an f. *)
WithoutCaptures(p) == [ch \in Chan |->
  IF ch \in Captured THEN writers[ch] \ {p} ELSE writers[ch]]

-----------------------------------------------------------------------------
(* The call that runs f clones before it is over. *)
CanClone(c) == life[c] = "unborn" /\ (c = Runner => ~ returned)

(* Mutant: f is moved away before the clone. *)
CloneWithout(c) ==
  /\ CanClone(c)
  /\ life' = [life EXCEPT ![c] = "born"]
  /\ writers' = [ch \in Chan |->
       IF Main \in writers[ch] /\ ch \notin Captured
         THEN writers[ch] \cup {c} ELSE writers[ch]]
  /\ UNCHANGED <<returned, buf, sent, left, got>>

(* Execute up to the clone, by the thread that runs f or by another.        *)
Clone(c) ==
  /\ CanClone(c)
  /\ life' = [life EXCEPT ![c] = "born"]
  /\ writers' = [ch \in Chan |->
       IF Main \in writers[ch] THEN writers[ch] \cup {c} ELSE writers[ch]]
  /\ UNCHANGED <<returned, buf, sent, left, got>>

(* AfterCloneChild returns, and the child calls f. *)
Begin(c) ==
  /\ life[c] = "born"
  /\ life' = [life EXCEPT ![c] = "live"]
  /\ UNCHANGED <<returned, writers, buf, sent, left, got>>

(* AfterCloneChild throws.  It leaves Execute in the child, whose f goes,   *)
(* and the child goes on in the caller's code.                             *)
Escape ==
  /\ life[Runner] = "born"
  /\ life' = [life EXCEPT ![Runner] = "escaped"]
  /\ writers' = WithoutCaptures(Runner)
  /\ UNCHANGED <<returned, buf, sent, left, got>>

(* BeforeClone throws or clone3 fails: f goes, and there is no child. *)
Fail ==
  /\ life[Runner] = "unborn" /\ ~ returned
  /\ returned' = TRUE
  /\ writers' = WithoutCaptures(Main)
  /\ UNCHANGED <<life, buf, sent, left, got>>

(* Mutant: the knob keeps f. *)
ReturnKeeps ==
  /\ life[Runner] # "unborn" /\ ~ returned
  /\ returned' = TRUE
  /\ UNCHANGED <<life, writers, buf, sent, left, got>>

(* Execute returns in the caller, or AfterCloneParent throws, and f goes.   *)
Return ==
  /\ life[Runner] # "unborn" /\ ~ returned
  /\ returned' = TRUE
  /\ writers' = WithoutCaptures(Main)
  /\ UNCHANGED <<life, buf, sent, left, got>>

(* A clone ends, perhaps within a send(): the kernel closes its ends.       *)
Exit(p) ==
  /\ p # Main /\ Alive(p)
  /\ life' = [life EXCEPT ![p] = "dead"]
  /\ writers' = [ch \in Chan |-> writers[ch] \ {p}]
  /\ left' = [left EXCEPT ![p] = [ch \in Chan |-> 0]]
  /\ UNCHANGED <<returned, buf, sent, got>>

-----------------------------------------------------------------------------
(* What write(size) transfers at once: all of a value of up to PIPE_BUF     *)
(* bytes or nothing, and as much as there is room for of a longer one.     *)
Chunk(ch, size) ==
  LET room == Capacity - Len(buf[ch])
  IN  IF Size[ch] <= Atomic THEN IF size <= room THEN size ELSE 0
      ELSE Least(size, room)

WriteChunk(p, ch, n, size) ==
  LET chunk == Chunk(ch, size)
      done  == Size[ch] - size
  IN  /\ chunk > 0
      /\ buf' = [buf EXCEPT ![ch] =
                   @ \o [i \in 1..chunk |-> Byte(p, n, done + i)]]
      /\ left' = [left EXCEPT ![p][ch] = size - chunk]

(* send(v): a single write(). *)
Send(p, ch) ==
  /\ Acts(p) /\ p \in Senders[ch] \cap writers[ch] /\ left[p][ch] = 0
  /\ sent[p][ch] < Rounds
  /\ WriteChunk(p, ch, sent[p][ch] + 1, Size[ch])
  /\ sent' = [sent EXCEPT ![p][ch] = @ + 1]
  /\ UNCHANGED <<life, returned, writers, got>>

(* The write() goes on when there is room. *)
SendMore(p, ch) ==
  /\ left[p][ch] > 0
  /\ WriteChunk(p, ch, sent[p][ch], left[p][ch])
  /\ UNCHANGED <<life, returned, writers, sent, got>>

(* A signal ends a write() that has begun: send() says Ok. *)
SendCut(p, ch) ==
  /\ left[p][ch] > 0
  /\ left' = [left EXCEPT ![p][ch] = 0]
  /\ UNCHANGED <<life, returned, writers, buf, sent, got>>

(* Mutant: what arrives is returned, however short it is. *)
ReceiveShort(p, ch) ==
  LET take == Least(Size[ch], Len(buf[ch]))
  IN  /\ Acts(p) /\ p \in Receivers[ch]
      /\ take > 0
      /\ got' = [got EXCEPT ![ch] = Append(@, SubSeq(buf[ch], 1, take))]
      /\ buf' = [buf EXCEPT ![ch] = SubSeq(@, take + 1, Len(@))]
      /\ UNCHANGED <<life, returned, writers, sent, left>>

(* Mutant: a buffered reader for each receive(). *)
ReceiveAhead(p, ch) ==
  LET take == Least(Size[ch], Len(buf[ch]))
  IN  /\ Acts(p) /\ p \in Receivers[ch]
      /\ take > 0
      /\ got' = [got EXCEPT ![ch] = Append(@,
                   [i \in 1..Size[ch] |->
                      IF i <= take THEN buf[ch][i] ELSE Junk])]
      /\ buf' = [buf EXCEPT ![ch] = <<>>]
      /\ UNCHANGED <<life, returned, writers, sent, left>>

(* receive(): a single read(), which takes what there is; the rest of the   *)
(* value is whatever the memory holds.                                     *)
Receive(p, ch) ==
  LET take == Least(Size[ch], Len(buf[ch]))
  IN  /\ Acts(p) /\ p \in Receivers[ch]
      /\ take > 0
      /\ got' = [got EXCEPT ![ch] = Append(@,
                   [i \in 1..Size[ch] |->
                      IF i <= take THEN buf[ch][i] ELSE Junk])]
      /\ buf' = [buf EXCEPT ![ch] = SubSeq(@, take + 1, Len(@))]
      /\ UNCHANGED <<life, returned, writers, sent, left>>

AtEnd(ch) == AllJunk(ch) \in Range(got[ch])

(* End of file: read() returns 0, and receive() says Ok all the same.       *)
ReceiveEnd(p, ch) ==
  /\ Acts(p) /\ p \in Receivers[ch]
  /\ buf[ch] = <<>> /\ writers[ch] = {}
  /\ ~ AtEnd(ch)
  /\ got' = [got EXCEPT ![ch] = Append(@, AllJunk(ch))]
  /\ UNCHANGED <<life, returned, writers, buf, sent, left>>

ChanStep(p, ch) ==
  Send(p, ch) \/ SendMore(p, ch) \/ SendCut(p, ch)
    \/ Receive(p, ch) \/ ReceiveEnd(p, ch)

Next ==
  \/ \E p \in Proc :
       \/ Clone(p) \/ Begin(p) \/ Exit(p)
       \/ \E ch \in Chan : ChanStep(p, ch)
  \/ Escape \/ Fail \/ Return

Spec == Init /\ [][Next]_vars

(* Execute returns, and a program reads its captured pipes to the end.      *)
FairSpec ==
  /\ Spec /\ WF_vars(Return)
  /\ \A ch \in Captured :
       WF_vars(Receive(Main, ch)) /\ WF_vars(ReceiveEnd(Main, ch))
-----------------------------------------------------------------------------
(* Properties. *)

TypeOK ==
  /\ life \in [Proc -> {"unborn", "born", "live", "escaped", "dead"}]
  /\ returned \in BOOLEAN
  /\ writers \in [Chan -> SUBSET Proc]
  /\ \A ch \in Chan : Len(buf[ch]) <= Capacity
  /\ sent \in [Proc -> [Chan -> 0..Rounds]]
  /\ \A p \in Proc, ch \in Chan : left[p][ch] \in 0..Size[ch] - 1
  /\ \A ch \in Chan : \A k \in DOMAIN got[ch] : Len(got[ch][k]) = Size[ch]

(* Values of up to PIPE_BUF bytes arrive whole, once, and in the order of   *)
(* each sender, although send() and receive() are single calls that ignore *)
(* how much they transferred, by several processes that may be killed:     *)
(* when the n-th value of a sender arrives, those that have arrived from it *)
(* are the ones before the n-th.                                           *)
WholeInOrder ==
  \A ch \in Chan : Size[ch] <= Atomic =>
    \A k \in DOMAIN got[ch] : got[ch][k] # AllJunk(ch) =>
      \E p \in Proc, n \in 1..Rounds :
        /\ got[ch][k] = Value(p, n, ch)
        /\ \A m \in 1..Rounds :
             (\E j \in 1..k - 1 : got[ch][j] = Value(p, m, ch)) <=> m < n

(* f is over: its process has ended or left it, or there has never been one *)
(* and the call is over.                                                   *)
Over ==
  \/ life[Runner] \in {"dead", "escaped"}
  \/ life[Runner] = "unborn" /\ returned

(* The reader of a captured pipe is told of its end only when nobody will   *)
(* write to it any more, as f is over, on whatever path Execute has left   *)
(* it, and only after all that f wrote.                                    *)
EndMeansEnded ==
  \A ch \in Captured : AtEnd(ch) => Over /\ buf[ch] = <<>>

(* The reader of a captured pipe is told of its end once f is over, as      *)
(* tests/timer_fd.cpp:88 expects, and so is every clone that was made      *)
(* before Execute was over: the caller keeps no write end that f has       *)
(* captured.                                                               *)
EndComes ==
  \A ch \in Captured :
    Over ~>
      \/ AtEnd(ch)
      \/ \E p \in Proc : Alive(p) /\ p \in writers[ch] \ {Main}
=============================================================================
