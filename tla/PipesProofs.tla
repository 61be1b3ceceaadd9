---------------------------- MODULE PipesProofs -----------------------------
(***************************************************************************)
(* Theorems about Pipes: its types, that the end of a captured pipe is the *)
(* end of the process that runs f, and that values of up to PIPE_BUF bytes *)
(* arrive whole and in order.                                              *)
(*                                                                         *)
(* The argument for the second: whoever may still write to a captured pipe *)
(* has a descriptor of its write end.  The caller has one until Execute is *)
(* over, and f's process has one as long as it has f (EndsHeld).  So when  *)
(* nobody has one, f is over, and nothing is written any more (Writing).   *)
(* What receive() returns before that has a byte of a sender's in it, and  *)
(* is not taken for the end.                                               *)
(*                                                                         *)
(* For the third, a write() of so few bytes is all or nothing, so the pipe *)
(* holds whole values, each byte followed by the next of its value or by   *)
(* the first of another (Framed).  Hence the bytes that a read() of        *)
(* sizeof(T) takes from the head are one value: by induction on the place  *)
(* of the byte (UpTo, from the least counterexample), each of them is the  *)
(* next byte of the value that the first begins (HeadIsWhole).  A value is *)
(* in the pipe or has been received and none is lost (Complete), and those *)
(* of a sender are in order within the pipe, within what was received, and *)
(* across the two (QueuedInOrder, ReceivedInOrder).                        *)
(***************************************************************************)
EXTENDS Pipes, SequenceTheorems, WellFoundedInduction, TLAPS

(* The bytes that are sent, and those that are received. *)
Named == Proc \X (Nat \ {0}) \X (Nat \ {0})

AnyByte == Named \cup {Junk}

Typed ==
  /\ life \in [Proc -> {"unborn", "born", "live", "escaped", "dead"}]
  /\ returned \in BOOLEAN
  /\ writers \in [Chan -> SUBSET Proc]
  /\ buf \in [Chan -> Seq(Named)]
  /\ \A ch \in Chan : Len(buf[ch]) <= Capacity
  /\ sent \in [Proc -> [Chan -> 0..Rounds]]
  /\ left \in [Proc -> [Chan -> Nat]]
  /\ \A p \in Proc, ch \in Chan : left[p][ch] < Size[ch]
  /\ got \in [Chan -> Seq(Seq(AnyByte))]
  /\ \A ch \in Chan : \A k \in 1..Len(got[ch]) : Len(got[ch][k]) = Size[ch]

(* Who is within a send() lives, has the write end, and has begun to send a *)
(* value.                                                                  *)
Writing ==
  \A p \in Proc, ch \in Chan :
    left[p][ch] > 0 =>
      Acts(p) /\ p \in Senders[ch] \cap writers[ch] /\ sent[p][ch] > 0

EndsHeld ==
  \A ch \in Captured :
    /\ ~ returned => Main \in writers[ch]
    /\ life[Runner] \in {"born", "live"} <=> Runner \in writers[ch]

(* Only what ReceiveEnd() returned is nothing but junk. *)
EndKnown ==
  \A ch \in Captured : \A k \in 1..Len(got[ch]) :
    got[ch][k] = AllJunk(ch) =>
      Over /\ buf[ch] = <<>>

Inv == Typed /\ Writing /\ EndsHeld /\ EndKnown

-----------------------------------------------------------------------------
(* Values, chunks and what is received. *)

LEMMA Constant ==
  /\ Main \in Proc /\ Runner \in Proc /\ Main # Runner
  /\ \A ch \in Captured : ch \in Chan /\ Senders[ch] = {Runner}
  /\ \A ch \in Chan : Size[ch] \in Nat /\ Size[ch] > 0
  /\ Capacity \in Nat /\ Rounds \in Nat
BY PipesAssumption

LEMMA JunkIsUnnamed == Junk \notin Named /\ Named \subseteq AnyByte
BY DEF Junk, Byte, Named, AnyByte

LEMMA AllJunkTyped ==
  ASSUME NEW ch \in Chan
  PROVE  /\ AllJunk(ch) \in Seq(AnyByte)
         /\ Len(AllJunk(ch)) = Size[ch]
         /\ \A i \in 1..Size[ch] : AllJunk(ch)[i] = Junk
<1>1. AllJunk(ch) \in [1..Size[ch] -> AnyByte]
  BY DEF AllJunk, AnyByte
<1>2. Size[ch] \in Nat
  BY Constant
<1>3. AllJunk(ch) \in Seq(AnyByte)
  BY <1>1, <1>2, SeqDef
<1>4. /\ DOMAIN AllJunk(ch) = 1..Size[ch]
      /\ \A i \in 1..Size[ch] : AllJunk(ch)[i] = Junk
  BY DEF AllJunk
<1>5. Len(AllJunk(ch)) = Size[ch]
  BY <1>2, <1>3, <1>4, LenProperties
<1> QED
  BY <1>3, <1>4, <1>5

LEMMA AtEndIs ==
  ASSUME Typed, NEW ch \in Chan
  PROVE  AtEnd(ch) <=> \E k \in 1..Len(got[ch]) : got[ch][k] = AllJunk(ch)
<1>1. got[ch] \in Seq(Seq(AnyByte))
  BY DEF Typed
<1>2. DOMAIN got[ch] = 1..Len(got[ch])
  BY <1>1, LenProperties
<1> QED
  BY <1>2 DEF AtEnd, Range

LEMMA ChunkFits ==
  ASSUME Typed, NEW ch \in Chan, NEW size \in Nat
  PROVE  /\ Chunk(ch, size) \in Int
         /\ Chunk(ch, size) <= size
         /\ Chunk(ch, size) > 0 => Len(buf[ch]) + Chunk(ch, size) <= Capacity
<1>1. buf[ch] \in Seq(Named) /\ Len(buf[ch]) <= Capacity
  BY DEF Typed
<1>2. Len(buf[ch]) \in Nat /\ Capacity \in Nat
  BY <1>1, Constant, LenProperties
<1>3. Size[ch] \in Nat /\ Atomic \in Nat
  BY PipesAssumption
<1> DEFINE room == Capacity - Len(buf[ch])
<1>4. room \in Nat /\ Len(buf[ch]) + room = Capacity
  BY <1>1, <1>2
<1>5. Chunk(ch, size) \in {0, size, room}
  BY DEF Chunk, Least
<1>6. Chunk(ch, size) <= size /\ Chunk(ch, size) <= room
  <2> HIDE DEF room
  <2>1. Chunk(ch, size) =
          IF Size[ch] <= Atomic THEN IF size <= room THEN size ELSE 0
          ELSE IF size <= room THEN size ELSE room
    BY DEF Chunk, Least, room
  <2> QED
    BY <1>3, <1>4, <2>1
<1> HIDE DEF room
<1> QED
  BY <1>1, <1>2, <1>4, <1>5, <1>6

(* A sender's next bytes, behind those that are in the pipe. *)
LEMMA Written ==
  ASSUME Typed, NEW p \in Proc, NEW ch \in Chan,
         NEW n \in Nat \ {0}, NEW size \in Nat, size <= Size[ch],
         WriteChunk(p, ch, n, size)
  PROVE  /\ buf' \in [Chan -> Seq(Named)]
         /\ \A c \in Chan : Len(buf'[c]) <= Capacity
         /\ \A c \in Chan \ {ch} : buf'[c] = buf[c]
         /\ left' \in [Proc -> [Chan -> Nat]]
         /\ left'[p][ch] < size
         /\ \A q \in Proc, c \in Chan :
              q # p \/ c # ch => left'[q][c] = left[q][c]
<1> DEFINE chunk == Chunk(ch, size)
           done == Size[ch] - size
           bytes == [i \in 1..chunk |-> Byte(p, n, done + i)]
<1>1. /\ chunk \in Nat /\ chunk > 0 /\ chunk <= size
      /\ Len(buf[ch]) + chunk <= Capacity
  BY ChunkFits DEF WriteChunk
<1>2. done \in Nat
  BY Constant
<1> HIDE DEF chunk, done
<1>3. \A i \in 1..chunk : Byte(p, n, done + i) \in Named
  BY <1>1, <1>2 DEF Byte, Named
<1>4. bytes \in [1..chunk -> Named] /\ DOMAIN bytes = 1..chunk
  BY <1>3
<1>5. bytes \in Seq(Named)
  BY <1>1, <1>4, SeqDef
<1>6. Len(bytes) = chunk
  BY <1>1, <1>4, <1>5, LenProperties
<1> HIDE DEF bytes
<1>7. buf[ch] \in Seq(Named) /\ buf \in [Chan -> Seq(Named)]
  BY DEF Typed
<1>8. /\ buf[ch] \o bytes \in Seq(Named)
      /\ Len(buf[ch] \o bytes) = Len(buf[ch]) + chunk
  <2>1. /\ buf[ch] \o bytes \in Seq(Named)
        /\ Len(buf[ch] \o bytes) = Len(buf[ch]) + Len(bytes)
    BY <1>5, <1>7, ConcatProperties
  <2>2. QED  BY <1>6, <2>1
<1>9. /\ buf' = [buf EXCEPT ![ch] = buf[ch] \o bytes]
      /\ left' = [left EXCEPT ![p][ch] = size - chunk]
  BY DEF WriteChunk, chunk, done, bytes
<1>10. /\ buf' \in [Chan -> Seq(Named)]
       /\ buf'[ch] = buf[ch] \o bytes
       /\ \A c \in Chan \ {ch} : buf'[c] = buf[c]
  BY <1>7, <1>8, <1>9
<1>11. \A c \in Chan : Len(buf'[c]) <= Capacity
  BY <1>1, <1>8, <1>10 DEF Typed
<1>12. size - chunk \in Nat /\ size - chunk < size
  BY <1>1
<1>13. left \in [Proc -> [Chan -> Nat]]
  BY DEF Typed
<1>14. /\ left' \in [Proc -> [Chan -> Nat]]
       /\ left'[p][ch] = size - chunk
       /\ \A q \in Proc, c \in Chan :
            q # p \/ c # ch => left'[q][c] = left[q][c]
  BY <1>9, <1>12, <1>13
<1> QED
  BY <1>10, <1>11, <1>12, <1>14

(* One more value is returned to a receiver. *)
LEMMA Returned ==
  ASSUME Typed, NEW ch \in Chan, NEW v \in Seq(AnyByte), Len(v) = Size[ch],
         got' = [got EXCEPT ![ch] = Append(@, v)]
  PROVE  /\ got' \in [Chan -> Seq(Seq(AnyByte))]
         /\ \A c \in Chan : \A k \in 1..Len(got'[c]) :
              \/ k \in 1..Len(got[c]) /\ got'[c][k] = got[c][k]
              \/ c = ch /\ got'[c][k] = v
         /\ \A c \in Chan : \A k \in 1..Len(got'[c]) :
              Len(got'[c][k]) = Size[c]
<1>1. got[ch] \in Seq(Seq(AnyByte)) /\ got \in [Chan -> Seq(Seq(AnyByte))]
  BY DEF Typed
<1> DEFINE more == Append(got[ch], v)
<1>2. /\ more \in Seq(Seq(AnyByte))
      /\ Len(more) = Len(got[ch]) + 1
      /\ \A k \in 1..Len(got[ch]) : more[k] = got[ch][k]
      /\ more[Len(got[ch]) + 1] = v
  BY <1>1, AppendProperties
<1>3. Len(got[ch]) \in Nat
  BY <1>1, LenProperties
<1> HIDE DEF more
<1>4. got' = [got EXCEPT ![ch] = more]
  BY DEF more
<1>5. /\ got' \in [Chan -> Seq(Seq(AnyByte))]
      /\ got'[ch] = more
      /\ \A c \in Chan \ {ch} : got'[c] = got[c]
  BY <1>1, <1>2, <1>4
<1>6. ASSUME NEW k \in 1..Len(more)
      PROVE  \/ k \in 1..Len(got[ch]) /\ more[k] = got[ch][k]
             \/ more[k] = v
  BY <1>2, <1>3
<1>7. ASSUME NEW c \in Chan, NEW k \in 1..Len(got'[c])
      PROVE  \/ k \in 1..Len(got[c]) /\ got'[c][k] = got[c][k]
             \/ c = ch /\ got'[c][k] = v
  <2>1. CASE c = ch
    BY <1>5, <1>6, <2>1
  <2>2. CASE c # ch
    BY <1>5, <2>2
  <2> QED
    BY <2>1, <2>2
<1>8. ASSUME NEW c \in Chan, NEW k \in 1..Len(got'[c])
      PROVE  Len(got'[c][k]) = Size[c]
  BY <1>7 DEF Typed
<1> QED
  BY <1>5, <1>7, <1>8

(* receive() takes bytes from the head of the pipe, at least one. *)
LEMMA Received ==
  ASSUME Typed, NEW p \in Proc, NEW ch \in Chan, Receive(p, ch)
  PROVE  /\ buf' \in [Chan -> Seq(Named)]
         /\ \A c \in Chan : Len(buf'[c]) <= Len(buf[c])
         /\ \A c \in Chan \ {ch} : buf'[c] = buf[c]
         /\ buf[ch] # <<>>
         /\ \E v \in Seq(AnyByte) :
              /\ Len(v) = Size[ch]
              /\ v # AllJunk(ch)
              /\ got' = [got EXCEPT ![ch] = Append(@, v)]
<1> DEFINE take == Least(Size[ch], Len(buf[ch]))
           v == [i \in 1..Size[ch] |->
                   IF i <= take THEN buf[ch][i] ELSE Junk]
           rest == SubSeq(buf[ch], take + 1, Len(buf[ch]))
<1>1. buf[ch] \in Seq(Named) /\ buf \in [Chan -> Seq(Named)]
  BY DEF Typed
<1>2. Len(buf[ch]) \in Nat /\ Size[ch] \in Nat /\ Size[ch] > 0
  BY <1>1, Constant, LenProperties
<1>3. take > 0 /\ take \in {Size[ch], Len(buf[ch])}
  BY DEF Receive, Least
<1>4. take <= Size[ch] /\ take <= Len(buf[ch])
  <2> DEFINE L == Len(buf[ch])
  <2>1. L \in Nat /\ take = IF Size[ch] <= L THEN Size[ch] ELSE L
    BY <1>2 DEF Least
  <2> HIDE DEF L, take
  <2>2. take <= Size[ch] /\ take <= L
    BY <1>2, <2>1
  <2> QED
    BY <2>2 DEF L
<1>5. /\ buf' = [buf EXCEPT ![ch] = rest]
      /\ got' = [got EXCEPT ![ch] = Append(@, v)]
  BY DEF Receive
<1> HIDE DEF take
<1>6. \A i \in 1..Len(buf[ch]) : buf[ch][i] \in Named
  BY <1>1, ElementOfSeq
<1>7. /\ rest \in Seq(Named)
      /\ Len(rest) <= Len(buf[ch])
  <2>1. take + 1 \in Int /\ Len(buf[ch]) \in Int
    BY <1>2, <1>3
  <2>2. \A i \in take + 1 .. Len(buf[ch]) : buf[ch][i] \in Named
    BY <1>2, <1>3, <1>6
  <2>3. /\ rest \in Seq(Named)
        /\ Len(rest) = IF take + 1 <= Len(buf[ch])
                         THEN Len(buf[ch]) - (take + 1) + 1 ELSE 0
    BY <2>1, <2>2, SubSeqProperties
  <2> HIDE DEF rest
  <2> QED
    BY <1>2, <1>3, <2>3
<1>8. /\ v \in [1..Size[ch] -> AnyByte]
      /\ DOMAIN v = 1..Size[ch]
      /\ v[1] = buf[ch][1] /\ buf[ch][1] \in Named
  <2>1. \A i \in 1..Size[ch] :
          (IF i <= take THEN buf[ch][i] ELSE Junk) \in AnyByte
    BY <1>2, <1>3, <1>4, <1>6 DEF AnyByte
  <2>2. 1 \in 1..Size[ch] /\ 1 <= take /\ 1 \in 1..Len(buf[ch])
    BY <1>2, <1>3, <1>4
  <2> QED
    BY <1>6, <2>1, <2>2
<1>9. v \in Seq(AnyByte) /\ Len(v) = Size[ch]
  <2>1. v \in Seq(AnyByte)
    BY <1>2, <1>8, SeqDef
  <2> QED
    BY <1>2, <1>8, <2>1, LenProperties
<1>10. v # AllJunk(ch)
  BY <1>2, <1>8, AllJunkTyped, JunkIsUnnamed
<1>11. buf[ch] # <<>>
  BY <1>2, <1>3, <1>4, EmptySeq
<1> HIDE DEF v, rest
<1>12. /\ buf' \in [Chan -> Seq(Named)]
       /\ buf'[ch] = rest
       /\ \A c \in Chan \ {ch} : buf'[c] = buf[c]
  BY <1>1, <1>5, <1>7
<1>13. \A c \in Chan : Len(buf[c]) \in Nat
  BY <1>1, LenProperties
<1>14. \A c \in Chan : Len(buf'[c]) <= Len(buf[c])
  BY <1>7, <1>12, <1>13
<1> QED
  BY <1>5, <1>9, <1>10, <1>11, <1>12, <1>14

-----------------------------------------------------------------------------
(* One lemma for each action. *)

LEMMA InitKeeps == ASSUME Init PROVE Inv
<1>1. Typed
  <2>1. /\ \A ch \in Chan : buf[ch] = <<>> /\ got[ch] = <<>>
        /\ buf \in [Chan -> Seq(Named)]
        /\ got \in [Chan -> Seq(Seq(AnyByte))]
    BY EmptySeq DEF Init
  <2>2. \A ch \in Chan : Len(buf[ch]) <= Capacity /\ Len(got[ch]) = 0
    BY <2>1, Constant, EmptySeq
  <2>3. /\ left \in [Proc -> [Chan -> Nat]]
        /\ \A p \in Proc, ch \in Chan : left[p][ch] < Size[ch]
        /\ sent \in [Proc -> [Chan -> 0..Rounds]]
    BY Constant DEF Init
  <2>4. \A ch \in Chan : \A k \in 1..Len(got[ch]) :
          Len(got[ch][k]) = Size[ch]
    BY <2>2
  <2>5. /\ life \in [Proc -> {"unborn", "born", "live", "escaped", "dead"}]
        /\ returned \in BOOLEAN
        /\ writers \in [Chan -> SUBSET Proc]
    BY Constant DEF Init
  <2> QED
    BY <2>1, <2>2, <2>3, <2>4, <2>5 DEF Typed
<1>2. Writing
  BY DEF Init, Writing
<1>3. EndsHeld
  BY Constant DEF Init, EndsHeld
<1>4. EndKnown
  <2>1. \A ch \in Captured : Len(got[ch]) = 0
    BY Constant, EmptySeq DEF Init
  <2> QED
    BY <2>1 DEF EndKnown
<1> QED
  BY <1>1, <1>2, <1>3, <1>4 DEF Inv

LEMMA CloneKeeps ==
  ASSUME Inv, NEW c \in Proc, Clone(c) PROVE Inv'
<1>1. /\ life[c] = "unborn" /\ (c = Runner => ~ returned)
      /\ life' = [life EXCEPT ![c] = "born"]
      /\ writers' = [ch \in Chan |->
           IF Main \in writers[ch] THEN writers[ch] \cup {c} ELSE writers[ch]]
      /\ UNCHANGED <<returned, buf, sent, left, got>>
  BY DEF Clone, CanClone
<1>2. Typed'
  BY <1>1 DEF Inv, Typed
<1>3. Writing'
  BY <1>1 DEF Inv, Typed, Writing, Acts
<1>4. EndsHeld'
  BY <1>1, Constant DEF Inv, Typed, EndsHeld
<1>5. EndKnown'
  BY <1>1, Constant DEF Inv, Typed, EndKnown, Over
<1> QED
  BY <1>2, <1>3, <1>4, <1>5 DEF Inv

LEMMA BeginKeeps ==
  ASSUME Inv, NEW c \in Proc, Begin(c) PROVE Inv'
<1>1. /\ life[c] = "born"
      /\ life' = [life EXCEPT ![c] = "live"]
      /\ UNCHANGED <<returned, writers, buf, sent, left, got>>
  BY DEF Begin
<1>2. Typed'
  BY <1>1 DEF Inv, Typed
<1>3. Writing'
  BY <1>1 DEF Inv, Typed, Writing, Acts
<1>4. EndsHeld'
  BY <1>1, Constant DEF Inv, Typed, EndsHeld
<1>5. EndKnown'
  BY <1>1, Constant DEF Inv, Typed, EndKnown, Over
<1> QED
  BY <1>2, <1>3, <1>4, <1>5 DEF Inv

LEMMA EscapeKeeps ==
  ASSUME Inv, Escape PROVE Inv'
<1>1. /\ life[Runner] = "born"
      /\ life' = [life EXCEPT ![Runner] = "escaped"]
      /\ writers' = [ch \in Chan |->
           IF ch \in Captured THEN writers[ch] \ {Runner} ELSE writers[ch]]
      /\ UNCHANGED <<returned, buf, sent, left, got>>
  BY DEF Escape, WithoutCaptures
<1>2. Typed'
  BY <1>1, Constant DEF Inv, Typed
<1>3. Writing'
  BY <1>1, Constant DEF Inv, Typed, Writing, Acts
<1>4. EndsHeld'
  BY <1>1, Constant DEF Inv, Typed, EndsHeld
<1>5. EndKnown'
  BY <1>1, Constant DEF Inv, Typed, EndKnown, Over
<1> QED
  BY <1>2, <1>3, <1>4, <1>5 DEF Inv

LEMMA ReturnKeepsInv ==
  ASSUME Inv, Return \/ Fail PROVE Inv'
<1>1. /\ returned' = TRUE
      /\ writers' = [ch \in Chan |->
           IF ch \in Captured THEN writers[ch] \ {Main} ELSE writers[ch]]
      /\ UNCHANGED <<life, buf, sent, left, got>>
  BY DEF Return, Fail, WithoutCaptures
<1>2. Typed'
  BY <1>1 DEF Inv, Typed
<1>3. Writing'
  BY <1>1, Constant DEF Inv, Writing, Acts
<1>4. EndsHeld'
  BY <1>1, Constant DEF Inv, Typed, EndsHeld
<1>5. EndKnown'
  BY <1>1 DEF Inv, EndKnown, Over
<1> QED
  BY <1>2, <1>3, <1>4, <1>5 DEF Inv

LEMMA ExitKeeps ==
  ASSUME Inv, NEW p \in Proc, Exit(p) PROVE Inv'
<1>1. /\ p # Main /\ Alive(p)
      /\ life' = [life EXCEPT ![p] = "dead"]
      /\ writers' = [ch \in Chan |-> writers[ch] \ {p}]
      /\ left' = [left EXCEPT ![p] = [ch \in Chan |-> 0]]
      /\ UNCHANGED <<returned, buf, sent, got>>
  BY DEF Exit
<1>2. Typed'
  BY <1>1, Constant DEF Inv, Typed
<1>3. Writing'
  BY <1>1 DEF Inv, Typed, Writing, Acts
<1>4. EndsHeld'
  BY <1>1, Constant DEF Inv, Typed, EndsHeld
<1>5. EndKnown'
  BY <1>1, Constant DEF Inv, Typed, EndKnown, Over, Alive, Acts
<1> QED
  BY <1>2, <1>3, <1>4, <1>5 DEF Inv

(* Whoever writes to a captured pipe is the process that runs f, and lives. *)
LEMMA WriteKeeps ==
  ASSUME Inv, NEW p \in Proc, NEW ch \in Chan,
         NEW n \in Nat \ {0}, NEW size \in Nat, size <= Size[ch],
         WriteChunk(p, ch, n, size),
         Acts(p), p \in Senders[ch] \cap writers[ch],
         sent' \in [Proc -> [Chan -> 0..Rounds]], sent'[p][ch] > 0,
         \A q \in Proc, c \in Chan :
           q # p \/ c # ch => sent'[q][c] = sent[q][c],
         UNCHANGED <<life, returned, writers, got>>
  PROVE  Inv'
<1>1. Typed
  BY DEF Inv
<1>2. /\ buf' \in [Chan -> Seq(Named)]
      /\ \A c \in Chan : Len(buf'[c]) <= Capacity
      /\ \A c \in Chan \ {ch} : buf'[c] = buf[c]
      /\ left' \in [Proc -> [Chan -> Nat]]
      /\ left'[p][ch] < size
      /\ \A q \in Proc, c \in Chan :
           q # p \/ c # ch => left'[q][c] = left[q][c]
  BY <1>1, Written
<1>3. \A q \in Proc, c \in Chan : left'[q][c] < Size[c]
  <2> SUFFICES ASSUME NEW q \in Proc, NEW c \in Chan
               PROVE  left'[q][c] < Size[c]
    OBVIOUS
  <2>1. CASE q = p /\ c = ch
    BY <1>2, <2>1, Constant
  <2>2. CASE q # p \/ c # ch
    BY <1>1, <1>2, <2>2 DEF Typed
  <2> QED
    BY <2>1, <2>2
<1>4. Typed'
  BY <1>1, <1>2, <1>3 DEF Typed
<1>5. Writing'
  <2> SUFFICES ASSUME NEW q \in Proc, NEW c \in Chan, left'[q][c] > 0
               PROVE  /\ Acts(q) /\ q \in Senders[c] \cap writers[c]
                      /\ sent'[q][c] > 0
    BY DEF Writing, Acts
  <2>1. CASE q = p /\ c = ch
    BY <2>1
  <2>2. CASE q # p \/ c # ch
    BY <1>2, <2>2 DEF Inv, Writing
  <2> QED
    BY <2>1, <2>2
<1>6. EndsHeld'
  BY DEF Inv, EndsHeld
<1>7. EndKnown'
  <2>1. ch \in Captured => life[Runner] = "live"
    BY Constant DEF Acts, Inv, EndsHeld
  <2> QED
    BY <1>2, <2>1, Constant DEF Inv, EndKnown, Over
<1> QED
  BY <1>4, <1>5, <1>6, <1>7 DEF Inv

LEMMA SendKeeps ==
  ASSUME Inv, NEW p \in Proc, NEW ch \in Chan, Send(p, ch) PROVE Inv'
<1>1. /\ sent \in [Proc -> [Chan -> 0..Rounds]]
      /\ sent[p][ch] \in Nat /\ sent[p][ch] < Rounds
      /\ sent' = [sent EXCEPT ![p][ch] = sent[p][ch] + 1]
  BY Constant DEF Inv, Typed, Send
<1>2. /\ sent[p][ch] + 1 \in Nat \ {0} /\ sent[p][ch] + 1 \in 0..Rounds
      /\ sent' \in [Proc -> [Chan -> 0..Rounds]]
      /\ sent'[p][ch] = sent[p][ch] + 1
      /\ \A q \in Proc, c \in Chan :
           q # p \/ c # ch => sent'[q][c] = sent[q][c]
  <2>1. sent[p][ch] + 1 \in Nat \ {0} /\ sent[p][ch] + 1 \in 0..Rounds
    BY <1>1, Constant
  <2> QED
    BY <1>1, <2>1
<1>3. WriteChunk(p, ch, sent[p][ch] + 1, Size[ch])
  BY DEF Send
<1>4. Size[ch] \in Nat /\ Size[ch] <= Size[ch]
  BY Constant
<1>5. sent'[p][ch] > 0
  BY <1>1, <1>2
<1>6. /\ Acts(p) /\ p \in Senders[ch] \cap writers[ch]
      /\ UNCHANGED <<life, returned, writers, got>>
  BY DEF Send
<1> QED
  BY <1>2, <1>3, <1>4, <1>5, <1>6, WriteKeeps

LEMMA SendMoreKeeps ==
  ASSUME Inv, NEW p \in Proc, NEW ch \in Chan, SendMore(p, ch) PROVE Inv'
<1>1. /\ left[p][ch] > 0 /\ left[p][ch] \in Nat
      /\ left[p][ch] < Size[ch] /\ Size[ch] \in Nat
      /\ sent \in [Proc -> [Chan -> 0..Rounds]] /\ Rounds \in Nat
  BY Constant DEF Inv, Typed, SendMore
<1>2. Acts(p) /\ p \in Senders[ch] \cap writers[ch] /\ sent[p][ch] > 0
  BY <1>1 DEF Inv, Writing
<1>3. sent[p][ch] \in Nat \ {0} /\ left[p][ch] <= Size[ch]
  BY <1>1, <1>2
<1>4. /\ WriteChunk(p, ch, sent[p][ch], left[p][ch])
      /\ UNCHANGED <<life, returned, writers, sent, got>>
  BY DEF SendMore
<1> QED
  BY <1>1, <1>2, <1>3, <1>4, WriteKeeps

LEMMA SendCutKeeps ==
  ASSUME Inv, NEW p \in Proc, NEW ch \in Chan, SendCut(p, ch) PROVE Inv'
<1>1. /\ left' = [left EXCEPT ![p][ch] = 0]
      /\ UNCHANGED <<life, returned, writers, buf, sent, got>>
      /\ left \in [Proc -> [Chan -> Nat]]
  BY DEF SendCut, Inv, Typed
<1>2. /\ left' \in [Proc -> [Chan -> Nat]]
      /\ \A q \in Proc, c \in Chan : left'[q][c] \in {0, left[q][c]}
  BY <1>1
<1>3. \A q \in Proc, c \in Chan : left'[q][c] < Size[c]
  BY <1>2, Constant DEF Inv, Typed
<1>4. Typed'
  BY <1>1, <1>2, <1>3 DEF Inv, Typed
<1>5. Writing'
  BY <1>1, <1>2 DEF Inv, Writing, Acts
<1>6. EndsHeld' /\ EndKnown'
  BY <1>1 DEF Inv, EndsHeld, EndKnown, Over
<1> QED
  BY <1>4, <1>5, <1>6 DEF Inv

LEMMA ReceiveKeeps ==
  ASSUME Inv, NEW p \in Proc, NEW ch \in Chan, Receive(p, ch) PROVE Inv'
<1>1. Typed /\ UNCHANGED <<life, returned, writers, sent, left>>
  BY DEF Inv, Receive
<1>2. /\ buf' \in [Chan -> Seq(Named)]
      /\ \A c \in Chan : Len(buf'[c]) <= Len(buf[c])
      /\ \A c \in Chan \ {ch} : buf'[c] = buf[c]
      /\ buf[ch] # <<>>
  BY <1>1, Received
<1>3. PICK v \in Seq(AnyByte) :
        /\ Len(v) = Size[ch]
        /\ v # AllJunk(ch)
        /\ got' = [got EXCEPT ![ch] = Append(@, v)]
  BY <1>1, Received
<1>4. /\ got' \in [Chan -> Seq(Seq(AnyByte))]
      /\ \A c \in Chan : \A k \in 1..Len(got'[c]) :
           \/ k \in 1..Len(got[c]) /\ got'[c][k] = got[c][k]
           \/ c = ch /\ got'[c][k] = v
      /\ \A c \in Chan : \A k \in 1..Len(got'[c]) :
           Len(got'[c][k]) = Size[c]
  BY <1>1, <1>3, Returned
<1>5. \A c \in Chan : Len(buf'[c]) <= Capacity
  <2>1. \A c \in Chan : Len(buf[c]) \in Nat /\ Len(buf'[c]) \in Nat
    BY <1>1, <1>2, LenProperties DEF Typed
  <2> QED
    BY <1>1, <1>2, <2>1, Constant DEF Typed
<1>6. Typed'
  BY <1>1, <1>2, <1>4, <1>5 DEF Typed
<1>7. Writing' /\ EndsHeld'
  BY <1>1 DEF Inv, Writing, Acts, EndsHeld
<1>8. EndKnown'
  <2> SUFFICES ASSUME NEW c \in Captured, NEW k \in 1..Len(got'[c]),
                      got'[c][k] = AllJunk(c)
               PROVE  Over /\ buf'[c] = <<>>
    BY <1>1 DEF EndKnown, AllJunk, Junk, Byte, Over
  <2>1. c \in Chan /\ k \in 1..Len(got[c]) /\ got[c][k] = AllJunk(c)
    BY <1>3, <1>4, Constant
  <2>2. Over /\ buf[c] = <<>>
    BY <2>1 DEF Inv, EndKnown
  <2> QED
    BY <1>2, <2>1, <2>2
<1> QED
  BY <1>6, <1>7, <1>8 DEF Inv

(* Nobody has a descriptor of the write end: f's process has ended. *)
LEMMA ReceiveEndKeeps ==
  ASSUME Inv, NEW p \in Proc, NEW ch \in Chan, ReceiveEnd(p, ch) PROVE Inv'
<1>1. /\ Typed /\ buf[ch] = <<>> /\ writers[ch] = {}
      /\ got' = [got EXCEPT ![ch] = Append(@, AllJunk(ch))]
      /\ UNCHANGED <<life, returned, writers, buf, sent, left>>
  BY DEF Inv, ReceiveEnd
<1>2. AllJunk(ch) \in Seq(AnyByte) /\ Len(AllJunk(ch)) = Size[ch]
  BY AllJunkTyped
<1>3. /\ got' \in [Chan -> Seq(Seq(AnyByte))]
      /\ \A c \in Chan : \A k \in 1..Len(got'[c]) :
           \/ k \in 1..Len(got[c]) /\ got'[c][k] = got[c][k]
           \/ c = ch /\ got'[c][k] = AllJunk(ch)
      /\ \A c \in Chan : \A k \in 1..Len(got'[c]) :
           Len(got'[c][k]) = Size[c]
  BY <1>1, <1>2, Returned
<1>4. Typed'
  BY <1>1, <1>3 DEF Typed
<1>5. Writing' /\ EndsHeld'
  BY <1>1 DEF Inv, Writing, Acts, EndsHeld
<1>6. ch \in Captured => Over
  BY <1>1, Constant DEF Inv, Typed, EndsHeld, Over
<1>7. EndKnown'
  <2> SUFFICES ASSUME NEW c \in Captured, NEW k \in 1..Len(got'[c]),
                      got'[c][k] = AllJunk(c)
               PROVE  Over /\ buf[c] = <<>>
    BY <1>1 DEF EndKnown, AllJunk, Junk, Byte, Over
  <2>1. c \in Chan
    BY Constant
  <2>2. CASE k \in 1..Len(got[c]) /\ got'[c][k] = got[c][k]
    BY <2>2 DEF Inv, EndKnown
  <2>3. CASE c = ch
    BY <1>1, <1>6, <2>3
  <2> QED
    BY <1>3, <2>1, <2>2, <2>3
<1> QED
  BY <1>4, <1>5, <1>7 DEF Inv

LEMMA NextKeeps == ASSUME Inv, [Next]_vars PROVE Inv'
<1>1. CASE UNCHANGED vars
  BY <1>1 DEF vars, Inv, Typed, Writing, Acts, EndsHeld, EndKnown, Over,
    AllJunk, Junk, Byte
<1>2. CASE Escape \/ Fail \/ Return
  BY <1>2, EscapeKeeps, ReturnKeepsInv
<1>3. ASSUME NEW p \in Proc, Clone(p) \/ Begin(p) \/ Exit(p) PROVE Inv'
  BY <1>3, CloneKeeps, BeginKeeps, ExitKeeps
<1>4. ASSUME NEW p \in Proc, NEW ch \in Chan, ChanStep(p, ch) PROVE Inv'
  BY <1>4, SendKeeps, SendMoreKeeps, SendCutKeeps, ReceiveKeeps,
    ReceiveEndKeeps
  DEF ChanStep
<1> QED
  BY <1>1, <1>2, <1>3, <1>4 DEF Next

(* Induction up to a number, from the least counterexample. *)

LEMMA LeastOf ==
  ASSUME NEW T, T \subseteq Nat, T # {}
  PROVE  \E m \in T : \A n \in T : m <= n
<1> DEFINE R == {p \in Nat \X Nat : p[1] < p[2]}
<1>1. R = OpToRel(<, Nat)
  BY Zenon DEF OpToRel
<1>2. IsWellFoundedOn(R, Nat)
  BY <1>1, NatLessThanWellFounded, Zenon
<1> HIDE DEF R
<1>3. PICK m \in T : \A n \in T : ~ (<<n, m>> \in R)
  BY <1>2, WFMin
<1>4. \A n \in T : n \in Nat /\ m \in Nat
  OBVIOUS
<1>5. \A n \in T : <<n, m>> \in R <=> n < m
  BY <1>4 DEF R
<1>6. \A n \in T : ~ (n < m)
  BY <1>3, <1>5
<1>7. \A n \in T : m <= n
  BY <1>4, <1>6
<1> QED
  BY <1>7

LEMMA UpTo ==
  ASSUME NEW N \in Nat, NEW P, 0 \in P,
         \A n \in 0..N - 1 : n \in P => n + 1 \in P
  PROVE  0..N \subseteq P
<1> DEFINE T == 0..N \ P
<1> SUFFICES ASSUME T # {} PROVE FALSE
  OBVIOUS
<1>1. T \subseteq Nat
  OBVIOUS
<1>2. PICK m \in T : \A n \in T : m <= n
  BY <1>1, LeastOf
<1>3. m \in 1..N /\ m - 1 \in 0..N - 1
  OBVIOUS
<1>4. m - 1 \in P
  BY <1>2, <1>3
<1> QED
  BY <1>3, <1>4

-----------------------------------------------------------------------------
(* Values of up to PIPE_BUF bytes. *)

Small == {ch \in Chan : Size[ch] <= Atomic}

(* What is in the pipe are whole values, a byte after the other. *)
Framed(ch) ==
  /\ \A p \in Proc : left[p][ch] = 0
  /\ Len(buf[ch]) > 0 =>
       buf[ch][1][3] = 1 /\ buf[ch][Len(buf[ch])][3] = Size[ch]
  /\ \A i \in 1..Len(buf[ch]) :
       /\ buf[ch][i][3] <= Size[ch]
       /\ buf[ch][i][2] <= sent[buf[ch][i][1]][ch]
  /\ \A i \in 1..Len(buf[ch]) - 1 :
       IF buf[ch][i][3] = Size[ch] THEN buf[ch][i + 1][3] = 1
       ELSE buf[ch][i + 1]
              = Byte(buf[ch][i][1], buf[ch][i][2], buf[ch][i][3] + 1)

(* The values of a sender are in the pipe in their order. *)
QueuedInOrder(ch) ==
  \A p \in Proc, m, n \in Nat \ {0} : \A i, j \in 1..Len(buf[ch]) :
    i < j /\ buf[ch][i] = Byte(p, m, 1) /\ buf[ch][j] = Byte(p, n, 1) => m < n

(* What has been received is a value, or the end. *)
Whole(ch) ==
  \A k \in 1..Len(got[ch]) :
    \/ got[ch][k] = AllJunk(ch)
    \/ \E p \in Proc : \E n \in 1..sent[p][ch] : got[ch][k] = Value(p, n, ch)

(* Those of a sender have been received in their order, and before those    *)
(* that are in the pipe.                                                   *)
ReceivedInOrder(ch) ==
  \A p \in Proc, m, n \in Nat \ {0} : \A k \in 1..Len(got[ch]) :
    got[ch][k] = Value(p, n, ch) =>
      /\ \A j \in 1..k - 1 : got[ch][j] = Value(p, m, ch) => m < n
      /\ \A i \in 1..Len(buf[ch]) : buf[ch][i] = Byte(p, m, 1) => n < m

(* None is missing. *)
Complete(ch) ==
  \A p \in Proc : \A n \in 1..sent[p][ch] :
    \/ \E k \in 1..Len(got[ch]) : got[ch][k] = Value(p, n, ch)
    \/ \E i \in 1..Len(buf[ch]) : buf[ch][i] = Byte(p, n, 1)

Transferred(ch) ==
  /\ Framed(ch) /\ QueuedInOrder(ch) /\ Whole(ch) /\ ReceivedInOrder(ch)
  /\ Complete(ch)

SmallInv == \A ch \in Small : Transferred(ch)

LEMMA SmallIs ==
  ASSUME NEW ch \in Small
  PROVE  /\ ch \in Chan /\ Size[ch] \in Nat \ {0} /\ Size[ch] <= Atomic
         /\ 1 \in 1..Size[ch]
BY Constant DEF Small

LEMMA ByteIs ==
  ASSUME NEW b \in Named
  PROVE  /\ b[1] \in Proc /\ b[2] \in Nat \ {0} /\ b[3] \in Nat \ {0}
         /\ b = Byte(b[1], b[2], b[3])
         /\ \A p, n, i : b = Byte(p, n, i) <=> b[1] = p /\ b[2] = n /\ b[3] = i
BY DEF Named, Byte

LEMMA ValueIs ==
  ASSUME NEW ch \in Small, NEW p, NEW n
  PROVE  /\ DOMAIN Value(p, n, ch) = 1..Size[ch]
         /\ \A i \in 1..Size[ch] : Value(p, n, ch)[i] = Byte(p, n, i)
         /\ \A q, m : Value(p, n, ch) = Value(q, m, ch) => p = q /\ n = m
         /\ p \in Proc /\ n \in Nat \ {0} => Value(p, n, ch) # AllJunk(ch)
<1>1. /\ DOMAIN Value(p, n, ch) = 1..Size[ch]
      /\ \A i \in 1..Size[ch] : Value(p, n, ch)[i] = Byte(p, n, i)
  BY DEF Value
<1>2. \A q, m : Value(q, m, ch)[1] = Byte(q, m, 1)
  BY SmallIs DEF Value
<1>3. \A q, m : Value(p, n, ch) = Value(q, m, ch) => p = q /\ n = m
  BY <1>2 DEF Byte
<1>4. ASSUME p \in Proc, n \in Nat \ {0}
      PROVE  Value(p, n, ch) # AllJunk(ch)
  <2>1. Byte(p, n, 1) \in Named
    BY <1>4 DEF Byte, Named
  <2>2. AllJunk(ch)[1] = Junk
    BY SmallIs DEF AllJunk
  <2> QED
    BY <1>2, <2>1, <2>2, JunkIsUnnamed
<1> QED
  BY <1>1, <1>3, <1>4

(* A step that leaves a pipe alone. *)
LEMMA SameKeeps ==
  ASSUME NEW ch \in Small, Transferred(ch),
         buf'[ch] = buf[ch], got'[ch] = got[ch],
         \A p \in Proc : sent'[p][ch] = sent[p][ch],
         \A p \in Proc : left'[p][ch] = 0,
         buf[ch] \in Seq(Named)
  PROVE  Transferred(ch)'
<1>1. \A i \in 1..Len(buf[ch]) : buf[ch][i][1] \in Proc
  BY ByteIs, ElementOfSeq
<1>2. Framed(ch)'
  BY <1>1 DEF Transferred, Framed
<1>3. QueuedInOrder(ch)'
  BY DEF Transferred, QueuedInOrder
<1>4. Whole(ch)'
  <2>1. /\ \A k \in 1..Len(got[ch]) :
             \/ got[ch][k] = AllJunk(ch)
             \/ \E p \in Proc : \E n \in 1..sent[p][ch] :
                  got[ch][k] = Value(p, n, ch)
        /\ \A p \in Proc : 1..sent[p][ch] = 1..sent'[p][ch]
    BY DEF Transferred, Whole
  <2>2. \A k \in 1..Len(got'[ch]) :
          \/ got'[ch][k] = AllJunk(ch)
          \/ \E p \in Proc : \E n \in 1..sent'[p][ch] :
               got'[ch][k] = Value(p, n, ch)
    BY <2>1
  <2> QED
    BY <2>2 DEF Whole, AllJunk, Value, Junk, Byte
<1>5. ReceivedInOrder(ch)'
  BY DEF Transferred, ReceivedInOrder, Value, Byte
<1>6. Complete(ch)'
  BY DEF Transferred, Complete, Value, Byte
<1> QED
  BY <1>2, <1>3, <1>4, <1>5, <1>6 DEF Transferred

(* send() of a value that fits: all of it goes into the pipe. *)
LEMMA SentIs ==
  ASSUME Typed, NEW p \in Proc, NEW ch \in Small, Transferred(ch),
         Send(p, ch)
  PROVE  LET L == Len(buf[ch])
             n == sent[p][ch] + 1
         IN  /\ L \in Nat /\ n \in Nat \ {0}
             /\ Len(buf'[ch]) = L + Size[ch]
             /\ \A i \in 1..L : buf'[ch][i] = buf[ch][i]
             /\ \A i \in 1..Size[ch] : buf'[ch][L + i] = Byte(p, n, i)
             /\ sent'[p][ch] = n
             /\ \A q \in Proc \ {p} : sent'[q][ch] = sent[q][ch]
             /\ \A q \in Proc : left'[q][ch] = 0
             /\ got' = got
<1> DEFINE L == Len(buf[ch])
           n == sent[p][ch] + 1
           S == Size[ch]
           bytes == [i \in 1..S |-> Byte(p, n, i)]
<1>1. S \in Nat \ {0} /\ S <= Atomic /\ ch \in Chan /\ Atomic \in Nat
  BY SmallIs, PipesAssumption
<1>2. sent[p][ch] \in Nat /\ n \in Nat \ {0}
  BY <1>1, Constant DEF Typed
<1>3. WriteChunk(p, ch, n, S)
  BY DEF Send
<1>4. Chunk(ch, S) > 0 /\ Chunk(ch, S) = S
  <2>1. Chunk(ch, S) \in {0, S}
    BY <1>1 DEF Chunk
  <2>2. Chunk(ch, S) > 0
    BY <1>3 DEF WriteChunk
  <2> QED
    BY <2>1, <2>2
<1>5. /\ buf' = [buf EXCEPT ![ch] =
                   buf[ch] \o [i \in 1..S |-> Byte(p, n, (S - S) + i)]]
      /\ left' = [left EXCEPT ![p][ch] = S - S]
  BY <1>3, <1>4 DEF WriteChunk
<1>6. S - S = 0 /\ \A i \in 1..S : (S - S) + i = i
  BY <1>1
<1>7. [i \in 1..S |-> Byte(p, n, (S - S) + i)] = bytes
  BY <1>6
<1> HIDE DEF S
<1>8. bytes \in Seq(Named) /\ Len(bytes) = S
      /\ \A i \in 1..S : bytes[i] = Byte(p, n, i)
  <2>1. \A i \in 1..S : Byte(p, n, i) \in Named
    BY <1>1, <1>2 DEF Byte, Named
  <2>2. bytes \in [1..S -> Named] /\ DOMAIN bytes = 1..S
    BY <2>1
  <2>3. bytes \in Seq(Named)
    BY <1>1, <2>2, SeqDef
  <2> QED
    BY <1>1, <2>2, <2>3, LenProperties
<1> HIDE DEF bytes, n
<1>9. buf[ch] \in Seq(Named) /\ buf \in [Chan -> Seq(Named)] /\ L \in Nat
  BY <1>1, LenProperties DEF Typed
<1>10. buf'[ch] = buf[ch] \o bytes
  BY <1>1, <1>5, <1>7, <1>9
<1>11. /\ Len(buf'[ch]) = L + S
       /\ \A i \in 1..L + S :
            buf'[ch][i] = IF i <= L THEN buf[ch][i] ELSE bytes[i - L]
  <2>1. /\ Len(buf[ch] \o bytes) = Len(buf[ch]) + Len(bytes)
        /\ \A i \in 1..Len(buf[ch]) + Len(bytes) :
             (buf[ch] \o bytes)[i] =
               IF i <= Len(buf[ch]) THEN buf[ch][i]
               ELSE bytes[i - Len(buf[ch])]
    BY <1>8, <1>9, ConcatProperties
  <2> QED
    BY <1>8, <1>10, <2>1
<1>12. /\ \A i \in 1..L : i \in 1..L + S /\ i <= L
       /\ \A i \in 1..S : L + i \in 1..L + S /\ ~ (L + i <= L)
                          /\ (L + i) - L = i
  BY <1>1, <1>9
<1>13. /\ \A i \in 1..L : buf'[ch][i] = buf[ch][i]
       /\ \A i \in 1..S : buf'[ch][L + i] = Byte(p, n, i)
  BY <1>8, <1>11, <1>12
<1>14. \A q \in Proc : left'[q][ch] = 0
  BY <1>1, <1>5, <1>6 DEF Typed, Transferred, Framed
<1>15. /\ sent'[p][ch] = n
       /\ \A q \in Proc \ {p} : sent'[q][ch] = sent[q][ch]
  BY <1>1 DEF Send, Typed, n
<1>16. got' = got
  BY DEF Send
<1> QED
  BY <1>2, <1>9, <1>11, <1>13, <1>14, <1>15, <1>16 DEF n, S

(* An index past the first a of a + b counts from a: the two parts of a     *)
(* queue that is appended to are told apart by it.                          *)
LEMMA PastTheFirst ==
  ASSUME NEW a \in Nat, NEW b \in Nat, NEW i \in 1..a + b, i \notin 1..a
  PROVE  \E j \in 1..b : i = a + j
<1>1. i - a \in 1..b /\ i = a + (i - a)
  OBVIOUS
<1> QED
  BY <1>1

LEMMA SendKeepsSmall ==
  ASSUME Typed, NEW p \in Proc, NEW ch \in Small, Transferred(ch),
         Send(p, ch)
  PROVE  Transferred(ch)'
<1> DEFINE L == Len(buf[ch])
           n == sent[p][ch] + 1
           S == Size[ch]
           b == buf[ch]
           c == buf'[ch]
<1>1. /\ L \in Nat /\ n \in Nat \ {0}
      /\ Len(c) = L + S
      /\ \A i \in 1..L : c[i] = b[i]
      /\ \A i \in 1..S : c[L + i] = Byte(p, n, i)
      /\ sent'[p][ch] = n
      /\ \A q \in Proc \ {p} : sent'[q][ch] = sent[q][ch]
      /\ \A q \in Proc : left'[q][ch] = 0
      /\ got' = got
  BY SentIs
<1>2. S \in Nat \ {0} /\ ch \in Chan
  BY SmallIs
<1>3. \A i \in 1..L : b[i] \in Named
  BY <1>2, ElementOfSeq DEF Typed
<1>4. \A i \in 1..L :
        /\ b[i][1] \in Proc /\ b[i][2] \in Nat \ {0} /\ b[i][3] \in Nat \ {0}
        /\ b[i] = Byte(b[i][1], b[i][2], b[i][3])
  BY <1>3, ByteIs
<1>5. \A q \in Proc : sent[q][ch] \in Nat
  BY <1>2, Constant DEF Typed
<1>6. /\ L > 0 => b[1][3] = 1 /\ b[L][3] = S
      /\ \A i \in 1..L : b[i][3] <= S /\ b[i][2] <= sent[b[i][1]][ch]
      /\ \A i \in 1..L - 1 :
           IF b[i][3] = S THEN b[i + 1][3] = 1
           ELSE b[i + 1] = Byte(b[i][1], b[i][2], b[i][3] + 1)
  BY DEF Transferred, Framed
<1>7. \A i \in 1..S : /\ c[L + i][1] = p /\ c[L + i][2] = n
                      /\ c[L + i][3] = i
  <2>1. \A i : /\ Byte(p, n, i)[1] = p /\ Byte(p, n, i)[2] = n
               /\ Byte(p, n, i)[3] = i
    BY DEF Byte
  <2> HIDE DEF L, n, S, c
  <2> QED
    BY <1>1, <2>1
<1>8. n = sent[p][ch] + 1
  OBVIOUS
<1> HIDE DEF L, n, S, b, c
<1>9. \A i \in 1..L + S : i \in 1..L \/ \E a \in 1..S : i = L + a
  <2> SUFFICES ASSUME NEW i \in 1..L + S, i \notin 1..L
               PROVE  \E a \in 1..S : i = L + a
    OBVIOUS
  <2>1. L \in Nat /\ S \in Nat
    BY <1>1, <1>2
  <2> QED
    BY <2>1, PastTheFirst
<1>10. Framed(ch)'
  <2>1. c[1][3] = 1 /\ c[L + S][3] = S
    <3>1. S \in 1..S /\ 1 \in 1..S
      BY <1>2
    <3>2. CASE L = 0
      BY <1>7, <3>1, <3>2
    <3>3. CASE L > 0
      BY <1>1, <1>6, <1>7, <3>1, <3>3
    <3> QED
      BY <1>1, <3>2, <3>3
  <2>2. ASSUME NEW i \in 1..L + S
        PROVE  c[i][3] <= S /\ c[i][2] <= sent'[c[i][1]][ch]
    <3>1. CASE i \in 1..L
      <4>1. c[i] = b[i] /\ b[i][3] <= S /\ b[i][2] <= sent[b[i][1]][ch]
        BY <1>1, <1>6, <3>1
      <4>2. b[i][1] \in Proc /\ b[i][2] \in Nat
        BY <1>4, <3>1
      <4>3. \A q \in Proc : sent[q][ch] <= sent'[q][ch]
        BY <1>1, <1>5, <1>8
      <4>4. sent[b[i][1]][ch] \in Nat /\ sent'[b[i][1]][ch] \in Nat
        BY <1>1, <1>5, <4>2
      <4>5. b[i][2] <= sent'[b[i][1]][ch]
        BY <4>1, <4>2, <4>3, <4>4
      <4> QED
        BY <4>1, <4>5
    <3>2. ASSUME NEW a \in 1..S, i = L + a
          PROVE  c[i][3] <= S /\ c[i][2] <= sent'[c[i][1]][ch]
      BY <1>1, <1>2, <1>7, <3>2
    <3> QED
      BY <1>9, <3>1, <3>2
  <2>3. ASSUME NEW i \in 1..L + S - 1
        PROVE  IF c[i][3] = S THEN c[i + 1][3] = 1
               ELSE c[i + 1] = Byte(c[i][1], c[i][2], c[i][3] + 1)
    <3>1. CASE i \in 1..L - 1
      <4>1. i \in 1..L /\ i + 1 \in 1..L
        BY <1>1, <3>1
      <4> QED
        BY <1>1, <1>6, <3>1, <4>1
    <3>2. CASE i = L
      <4>1. i \in 1..L /\ 1 \in 1..S /\ L > 0
        BY <1>1, <1>2, <3>2
      <4>2. c[i][3] = S /\ c[i + 1][3] = 1
        BY <1>1, <1>6, <1>7, <3>2, <4>1
      <4> QED
        BY <4>2
    <3>3. ASSUME NEW a \in 1..S, i = L + a, a # S
          PROVE  IF c[i][3] = S THEN c[i + 1][3] = 1
                 ELSE c[i + 1] = Byte(c[i][1], c[i][2], c[i][3] + 1)
      <4>1. a + 1 \in 1..S /\ i + 1 = L + (a + 1)
        BY <1>1, <1>2, <3>3
      <4>2. c[i + 1] = Byte(p, n, a + 1)
        BY <1>1, <4>1
      <4> QED
        BY <1>7, <3>3, <4>2
    <3>4. i \in 1..L + S /\ i # L + S
      BY <1>1, <1>2
    <3>5. i \in 1..L => i \in 1..L - 1 \/ i = L
      BY <1>1
    <3> QED
      BY <1>9, <3>1, <3>2, <3>3, <3>4, <3>5
  <2> QED
    <3>1. Len(c) = L + S
      BY <1>1
    <3>2. /\ \A q \in Proc : left'[q][ch] = 0
          /\ Len(c) > 0 => c[1][3] = 1 /\ c[Len(c)][3] = S
          /\ \A i \in 1..Len(c) :
               c[i][3] <= S /\ c[i][2] <= sent'[c[i][1]][ch]
      BY <1>1, <2>1, <2>2, <3>1
    <3>3. \A i \in 1..Len(c) - 1 :
            IF c[i][3] = S THEN c[i + 1][3] = 1
            ELSE c[i + 1] = Byte(c[i][1], c[i][2], c[i][3] + 1)
      <4>1. Len(c) - 1 = L + S - 1
        BY <1>1, <1>2, <3>1
      <4> QED
        BY <2>3, <4>1
    <3> QED
      BY <3>2, <3>3, Zenon DEF Framed, Byte, S, c
<1>11. QueuedInOrder(ch)'
  <2> SUFFICES ASSUME NEW q \in Proc, NEW m \in Nat \ {0}, NEW k \in Nat \ {0},
                      NEW i \in 1..L + S, NEW j \in 1..L + S, i < j,
                      c[i] = Byte(q, m, 1), c[j] = Byte(q, k, 1)
               PROVE  m < k
    BY <1>1 DEF QueuedInOrder, c
  <2>1. c[i][1] = q /\ c[i][2] = m /\ c[i][3] = 1
        /\ c[j][1] = q /\ c[j][2] = k /\ c[j][3] = 1
    BY DEF Byte
  <2>2. CASE i \in 1..L /\ j \in 1..L
    BY <1>1, <2>2 DEF Transferred, QueuedInOrder, b, L
  <2>3. ASSUME NEW a \in 1..S, j = L + a, i \in 1..L PROVE m < k
    <3>1. q = p /\ k = n
      BY <1>7, <2>1, <2>3
    <3>2. b[i][1] = p /\ b[i][2] = m
      BY <1>1, <2>1, <2>3, <3>1
    <3>3. m <= sent[p][ch]
      BY <1>6, <2>3, <3>2
    <3> QED
      BY <1>5, <1>8, <3>1, <3>3
  <2>4. ASSUME NEW a \in 1..S, i = L + a PROVE FALSE
    <3>1. i = L + 1
      BY <1>7, <2>1, <2>4
    <3>2. j \notin 1..L
      BY <1>1, <3>1
    <3>3. PICK e \in 1..S : j = L + e
      BY <1>9, <3>2
    <3>4. e = 1
      BY <1>7, <2>1, <3>3
    <3> QED
      BY <1>1, <3>1, <3>3, <3>4
  <2> QED
    BY <1>9, <2>2, <2>3, <2>4
<1>12. /\ \A k \in 1..Len(got[ch]) :
            \/ got[ch][k] = AllJunk(ch)
            \/ \E q \in Proc : \E m \in 1..sent[q][ch] :
                 got[ch][k] = Value(q, m, ch)
  BY DEF Transferred, Whole
<1>13. Whole(ch)'
  <2>1. \A q \in Proc : 1..sent[q][ch] \subseteq 1..sent'[q][ch]
    BY <1>1, <1>5, <1>8
  <2>2. \A k \in 1..Len(got'[ch]) :
          \/ got'[ch][k] = AllJunk(ch)
          \/ \E q \in Proc : \E m \in 1..sent'[q][ch] :
               got'[ch][k] = Value(q, m, ch)
    BY <1>1, <1>12, <2>1
  <2> QED
    BY <2>2 DEF Whole, AllJunk, Value, Junk, Byte
<1>14. ReceivedInOrder(ch)'
  <2>1. ASSUME NEW q \in Proc, NEW m \in Nat \ {0}, NEW k \in Nat \ {0},
               NEW g \in 1..Len(got[ch]), got[ch][g] = Value(q, k, ch)
        PROVE  /\ \A j \in 1..g - 1 : got[ch][j] = Value(q, m, ch) => m < k
               /\ \A i \in 1..L + S : c[i] = Byte(q, m, 1) => k < m
    <3>1. /\ \A j \in 1..g - 1 : got[ch][j] = Value(q, m, ch) => m < k
          /\ \A i \in 1..L : b[i] = Byte(q, m, 1) => k < m
      BY <2>1 DEF Transferred, ReceivedInOrder, b, L
    <3>2. ASSUME NEW a \in 1..S, c[L + a] = Byte(q, m, 1) PROVE k < m
      <4>1. q = p /\ m = n
        BY <1>1, <3>2 DEF Byte
      <4>2. PICK r \in Proc :
              \E d \in 1..sent[r][ch] : got[ch][g] = Value(r, d, ch)
        BY <1>12, <2>1, ValueIs
      <4>3. r = p /\ k \in 1..sent[r][ch]
        BY <2>1, <4>1, <4>2, ValueIs
      <4> QED
        BY <1>5, <1>8, <4>1, <4>3
    <3> QED
      BY <1>1, <1>9, <3>1, <3>2
  <2> QED
    BY <1>1, <2>1 DEF ReceivedInOrder, Value, Byte, c
<1>15. Complete(ch)'
  <2>1. ASSUME NEW q \in Proc, NEW m \in 1..sent'[q][ch]
        PROVE  \/ \E k \in 1..Len(got[ch]) : got[ch][k] = Value(q, m, ch)
               \/ \E i \in 1..L + S : c[i] = Byte(q, m, 1)
    <3>1. CASE q = p /\ m = n
      <4>1. 1 \in 1..S /\ L + 1 \in 1..L + S
        BY <1>1, <1>2
      <4>2. c[L + 1] = Byte(q, m, 1)
        BY <1>1, <3>1, <4>1
      <4> QED
        BY <4>1, <4>2
    <3>2. CASE ~ (q = p /\ m = n)
      <4>1. m \in 1..sent[q][ch]
        BY <1>1, <1>5, <1>8, <2>1, <3>2
      <4>2. \/ \E k \in 1..Len(got[ch]) : got[ch][k] = Value(q, m, ch)
            \/ \E i \in 1..L : b[i] = Byte(q, m, 1)
        BY <4>1 DEF Transferred, Complete, b, L
      <4>3. 1..L \subseteq 1..L + S
        BY <1>1, <1>2
      <4> QED
        BY <1>1, <4>2, <4>3
    <3> QED
      BY <3>1, <3>2
  <2> QED
    BY <1>1, <2>1 DEF Complete, Value, Byte, c
<1> QED
  BY <1>10, <1>11, <1>13, <1>14, <1>15 DEF Transferred

(* One more value is returned, behind those that have been. *)
LEMMA Appended ==
  ASSUME Typed, NEW ch \in Chan, NEW v,
         got' = [got EXCEPT ![ch] = Append(@, v)], v \in Seq(AnyByte)
  PROVE  /\ Len(got[ch]) \in Nat
         /\ Len(got'[ch]) = Len(got[ch]) + 1
         /\ \A k \in 1..Len(got[ch]) : got'[ch][k] = got[ch][k]
         /\ got'[ch][Len(got[ch]) + 1] = v
         /\ \A k \in 1..Len(got'[ch]) :
              k \in 1..Len(got[ch]) \/ k = Len(got[ch]) + 1
<1>1. got[ch] \in Seq(Seq(AnyByte)) /\ got'[ch] = Append(got[ch], v)
  BY DEF Typed
<1>2. /\ Len(Append(got[ch], v)) = Len(got[ch]) + 1
      /\ \A k \in 1..Len(got[ch]) : Append(got[ch], v)[k] = got[ch][k]
      /\ Append(got[ch], v)[Len(got[ch]) + 1] = v
  BY <1>1, AppendProperties
<1>3. Len(got[ch]) \in Nat
  BY <1>1, LenProperties
<1> QED
  BY <1>1, <1>2, <1>3

(* At the head of the pipe is a whole value. *)
LEMMA HeadIsWhole ==
  ASSUME Typed, NEW ch \in Small, Transferred(ch), Len(buf[ch]) > 0
  PROVE  \E p \in Proc : \E n \in 1..sent[p][ch] :
           /\ Size[ch] <= Len(buf[ch])
           /\ \A i \in 1..Size[ch] : buf[ch][i] = Byte(p, n, i)
<1> DEFINE L == Len(buf[ch])
           S == Size[ch]
           b == buf[ch]
           p == b[1][1]
           n == b[1][2]
           P == {i \in Nat : i + 1 <= L /\ b[i + 1] = Byte(p, n, i + 1)}
<1>1. S \in Nat \ {0} /\ ch \in Chan
  BY SmallIs
<1>2. L \in Nat /\ L > 0 /\ \A i \in 1..L : b[i] \in Named
  <2>1. b \in Seq(Named)
    BY <1>1 DEF Typed
  <2> QED
    BY <2>1, LenProperties, ElementOfSeq
<1>3. /\ b[1][3] = 1 /\ b[L][3] = S
      /\ \A i \in 1..L : b[i][3] <= S /\ b[i][2] <= sent[b[i][1]][ch]
      /\ \A i \in 1..L - 1 :
           IF b[i][3] = S THEN b[i + 1][3] = 1
           ELSE b[i + 1] = Byte(b[i][1], b[i][2], b[i][3] + 1)
  BY <1>2 DEF Transferred, Framed
<1>4. 1 \in 1..L /\ b[1] = Byte(p, n, 1) /\ p \in Proc /\ n \in Nat \ {0}
  <2>1. 1 \in 1..L
    BY <1>2
  <2>2. b[1] \in Named
    BY <1>2, <2>1
  <2>3. b[1] = Byte(b[1][1], b[1][2], b[1][3])
        /\ b[1][1] \in Proc /\ b[1][2] \in Nat \ {0}
    BY <2>2, ByteIs
  <2> QED
    BY <1>3, <2>1, <2>3
<1>5. n <= sent[p][ch] /\ sent[p][ch] \in Nat
  BY <1>1, <1>3, <1>4, Constant DEF Typed
<1> HIDE DEF L, S, b, p, n
<1>6. 0 \in P
  BY <1>2, <1>4
<1>7. ASSUME NEW i \in 0..(S - 1) - 1, i \in P PROVE i + 1 \in P
  <2>1. /\ i \in Nat /\ i + 1 < S /\ i + 1 <= L
        /\ b[i + 1] = Byte(p, n, i + 1)
    BY <1>1, <1>7
  <2>2. b[i + 1][1] = p /\ b[i + 1][2] = n /\ b[i + 1][3] = i + 1
    BY <2>1 DEF Byte
  <2>3. b[i + 1][3] # S
    BY <1>1, <2>1, <2>2
  <2>4. i + 1 # L
    BY <1>3, <2>3
  <2>5. i + 1 \in 1..L - 1
    BY <1>2, <2>1, <2>4
  <2>6. b[(i + 1) + 1] = Byte(p, n, (i + 1) + 1)
    BY <1>3, <2>2, <2>3, <2>5
  <2> QED
    BY <1>2, <2>1, <2>5, <2>6
<1> HIDE DEF P
<1>8. S - 1 \in Nat
  BY <1>1
<1>9. 0..S - 1 \subseteq P
  BY <1>6, <1>7, <1>8, UpTo
<1>10. ASSUME NEW i \in 1..S PROVE i <= L /\ b[i] = Byte(p, n, i)
  <2>1. i - 1 \in 0..S - 1 /\ (i - 1) + 1 = i
    BY <1>1
  <2>2. i - 1 \in P
    BY <1>9, <2>1
  <2> QED
    BY <2>1, <2>2 DEF P
<1>11. S <= L
  BY <1>1, <1>10
<1>12. n \in 1..sent[p][ch]
  BY <1>4, <1>5
<1> QED
  BY <1>4, <1>10, <1>11, <1>12 DEF L, S, b

(* receive() takes the value at the head of the pipe, and nothing else. *)
LEMMA ReceivedIs ==
  ASSUME Typed, NEW q \in Proc, NEW ch \in Small, Transferred(ch),
         Receive(q, ch)
  PROVE  LET L == Len(buf[ch])
             S == Size[ch]
         IN  \E p \in Proc : \E n \in 1..sent[p][ch] :
               /\ L \in Nat /\ S <= L
               /\ \A i \in 1..S : buf[ch][i] = Byte(p, n, i)
               /\ got' = [got EXCEPT ![ch] = Append(@, Value(p, n, ch))]
               /\ Value(p, n, ch) \in Seq(AnyByte)
               /\ Len(buf'[ch]) = L - S
               /\ \A i \in 1..L - S : buf'[ch][i] = buf[ch][S + i]
<1> DEFINE L == Len(buf[ch])
           S == Size[ch]
           b == buf[ch]
           take == Least(S, L)
           v == [i \in 1..S |-> IF i <= take THEN b[i] ELSE Junk]
<1>1. S \in Nat \ {0} /\ ch \in Chan
  BY SmallIs
<1>2. b \in Seq(Named) /\ L \in Nat /\ buf \in [Chan -> Seq(Named)]
  BY <1>1, LenProperties DEF Typed
<1>3. /\ take > 0
      /\ got' = [got EXCEPT ![ch] = Append(@, v)]
      /\ buf' = [buf EXCEPT ![ch] = SubSeq(@, take + 1, Len(@))]
  BY DEF Receive
<1>4. L > 0
  BY <1>1, <1>2, <1>3 DEF Least
<1>5. PICK p \in Proc : \E n \in 1..sent[p][ch] :
        /\ S <= L
        /\ \A i \in 1..S : b[i] = Byte(p, n, i)
  BY <1>4, HeadIsWhole
<1>6. PICK n \in 1..sent[p][ch] :
        /\ S <= L
        /\ \A i \in 1..S : b[i] = Byte(p, n, i)
  BY <1>5
<1>7. take = S
  BY <1>6 DEF Least
<1> HIDE DEF take
<1>8. v = Value(p, n, ch)
  <2>1. \A i \in 1..S : i <= S
    BY <1>1
  <2>2. \A i \in 1..S :
          (IF i <= take THEN b[i] ELSE Junk) = Byte(p, n, i)
    BY <1>6, <1>7, <2>1
  <2> QED
    BY <2>2 DEF Value
<1>9. v \in Seq(AnyByte)
  <2>1. \A i \in 1..S : b[i] \in Named
    BY <1>1, <1>2, <1>6, ElementOfSeq
  <2>2. \A i \in 1..S : (IF i <= take THEN b[i] ELSE Junk) \in AnyByte
    BY <2>1 DEF AnyByte
  <2>3. v \in [1..S -> AnyByte]
    BY <2>2
  <2> QED
    BY <1>1, <2>3, SeqDef
<1> DEFINE rest == SubSeq(b, S + 1, L)
<1>10. buf'[ch] = rest
  BY <1>1, <1>2, <1>3, <1>7
<1> HIDE DEF S, L, b
<1>11. \A i \in S + 1 .. L : b[i] \in Named
  BY <1>1, <1>2, ElementOfSeq DEF L, b
<1>12. /\ Len(rest) = IF S + 1 <= L THEN L - (S + 1) + 1 ELSE 0
       /\ \A i \in 1..L - (S + 1) + 1 : rest[i] = b[S + 1 + i - 1]
  BY <1>1, <1>2, <1>11, SubSeqProperties
<1>13. Len(rest) = L - S /\ L - (S + 1) + 1 = L - S
  BY <1>1, <1>2, <1>6, <1>12
<1>14. \A i \in 1..L - S : rest[i] = b[S + i]
  <2>1. \A i \in 1..L - S : S + 1 + i - 1 = S + i
    BY <1>1
  <2> QED
    BY <1>12, <1>13, <2>1
<1> HIDE DEF v, rest
<1>15. got' = [got EXCEPT ![ch] = Append(@, Value(p, n, ch))]
  BY <1>3, <1>8
<1> QED
  BY <1>2, <1>6, <1>8, <1>9, <1>10, <1>13, <1>14, <1>15 DEF S, L, b

LEMMA ReceiveKeepsSmall ==
  ASSUME Typed, NEW q \in Proc, NEW ch \in Small, Transferred(ch),
         Receive(q, ch)
  PROVE  Transferred(ch)'
<1> DEFINE L == Len(buf[ch])
           S == Size[ch]
           b == buf[ch]
           c == buf'[ch]
           G == Len(got[ch])
           g == got[ch]
           h == got'[ch]
<1>1. PICK p \in Proc : \E n \in 1..sent[p][ch] :
        /\ L \in Nat /\ S <= L
        /\ \A i \in 1..S : b[i] = Byte(p, n, i)
        /\ got' = [got EXCEPT ![ch] = Append(@, Value(p, n, ch))]
        /\ Value(p, n, ch) \in Seq(AnyByte)
        /\ Len(c) = L - S
        /\ \A i \in 1..L - S : c[i] = b[S + i]
  BY ReceivedIs
<1>2. PICK n \in 1..sent[p][ch] :
        /\ L \in Nat /\ S <= L
        /\ \A i \in 1..S : b[i] = Byte(p, n, i)
        /\ got' = [got EXCEPT ![ch] = Append(@, Value(p, n, ch))]
        /\ Value(p, n, ch) \in Seq(AnyByte)
        /\ Len(c) = L - S
        /\ \A i \in 1..L - S : c[i] = b[S + i]
  BY <1>1
<1>3. S \in Nat \ {0} /\ ch \in Chan /\ 1 \in 1..S /\ S \in 1..S
  BY SmallIs
<1>4. \A r \in Proc : sent[r][ch] \in Nat
  BY <1>3, Constant DEF Typed
<1>5. n \in Nat \ {0} /\ n <= sent[p][ch]
  BY <1>2, <1>4
<1>6. sent' = sent /\ left' = left
  BY DEF Receive
<1>7. /\ G \in Nat /\ Len(h) = G + 1
      /\ \A k \in 1..G : h[k] = g[k]
      /\ h[G + 1] = Value(p, n, ch)
      /\ \A k \in 1..Len(h) : k \in 1..G \/ k = G + 1
  BY <1>2, <1>3, Appended
<1>8. /\ \A r \in Proc : left[r][ch] = 0
      /\ L > 0 => b[1][3] = 1 /\ b[L][3] = S
      /\ \A i \in 1..L : b[i][3] <= S /\ b[i][2] <= sent[b[i][1]][ch]
      /\ \A i \in 1..L - 1 :
           IF b[i][3] = S THEN b[i + 1][3] = 1
           ELSE b[i + 1] = Byte(b[i][1], b[i][2], b[i][3] + 1)
  BY DEF Transferred, Framed
<1>9. \A r \in Proc, m, k \in Nat \ {0} : \A i, j \in 1..L :
        i < j /\ b[i] = Byte(r, m, 1) /\ b[j] = Byte(r, k, 1) => m < k
  BY DEF Transferred, QueuedInOrder
<1>10. \A k \in 1..G :
         \/ g[k] = AllJunk(ch)
         \/ \E r \in Proc : \E m \in 1..sent[r][ch] : g[k] = Value(r, m, ch)
  BY DEF Transferred, Whole
<1>11. \A r \in Proc, m, d \in Nat \ {0} : \A k \in 1..G :
         g[k] = Value(r, d, ch) =>
           /\ \A j \in 1..k - 1 : g[j] = Value(r, m, ch) => m < d
           /\ \A i \in 1..L : b[i] = Byte(r, m, 1) => d < m
  BY DEF Transferred, ReceivedInOrder
<1>12. \A r \in Proc : \A m \in 1..sent[r][ch] :
         \/ \E k \in 1..G : g[k] = Value(r, m, ch)
         \/ \E i \in 1..L : b[i] = Byte(r, m, 1)
  BY DEF Transferred, Complete
<1> HIDE DEF L, S, b, c, G, g, h
<1>13. /\ \A i \in 1..L - S : S + i \in 1..L /\ 1 < S + i
       /\ \A i \in 1..L : i \in 1..S \/ (i - S \in 1..L - S /\ S + (i - S) = i)
       /\ 1 \in 1..L
  BY <1>2, <1>3
<1>14. b[1] = Byte(p, n, 1)
  BY <1>2, <1>3
<1>15. Framed(ch)'
  <2>1. ASSUME L - S > 0 PROVE c[1][3] = 1 /\ c[L - S][3] = S
    <3>1. /\ 1 \in 1..L - S /\ L - S \in 1..L - S /\ S + (L - S) = L
          /\ S \in 1..L - 1 /\ L > 0
      BY <1>2, <1>3, <2>1
    <3>2. b[S][3] = S
      <4>1. b[S] = Byte(p, n, S)
        BY <1>2, <1>3
      <4> QED
        BY <4>1 DEF Byte
    <3>3. b[S + 1][3] = 1 /\ b[L][3] = S
      BY <1>8, <3>1, <3>2
    <3> QED
      BY <1>2, <3>1, <3>3
  <2>2. ASSUME NEW i \in 1..L - S
        PROVE  c[i][3] <= S /\ c[i][2] <= sent[c[i][1]][ch]
    BY <1>2, <1>8, <1>13
  <2>3. ASSUME NEW i \in 1..(L - S) - 1
        PROVE  IF c[i][3] = S THEN c[i + 1][3] = 1
               ELSE c[i + 1] = Byte(c[i][1], c[i][2], c[i][3] + 1)
    <3>1. /\ i \in 1..L - S /\ i + 1 \in 1..L - S
          /\ S + i \in 1..L - 1 /\ S + (i + 1) = (S + i) + 1
      BY <1>2, <1>3
    <3>2. c[i] = b[S + i] /\ c[i + 1] = b[(S + i) + 1]
      BY <1>2, <3>1
    <3> QED
      BY <1>8, <3>1, <3>2
  <2>4. /\ \A r \in Proc : left'[r][ch] = 0
        /\ Len(c) > 0 => c[1][3] = 1 /\ c[Len(c)][3] = S
        /\ \A i \in 1..Len(c) :
             c[i][3] <= S /\ c[i][2] <= sent'[c[i][1]][ch]
        /\ \A i \in 1..Len(c) - 1 :
             IF c[i][3] = S THEN c[i + 1][3] = 1
             ELSE c[i + 1] = Byte(c[i][1], c[i][2], c[i][3] + 1)
    BY <1>2, <1>6, <1>8, <2>1, <2>2, <2>3
  <2> QED
    BY <2>4, Zenon DEF Framed, Byte, S, c
<1>16. QueuedInOrder(ch)'
  <2> SUFFICES ASSUME NEW r \in Proc, NEW m \in Nat \ {0}, NEW k \in Nat \ {0},
                      NEW i \in 1..L - S, NEW j \in 1..L - S, i < j,
                      c[i] = Byte(r, m, 1), c[j] = Byte(r, k, 1)
               PROVE  m < k
    BY <1>2 DEF QueuedInOrder, c
  <2>1. S + i \in 1..L /\ S + j \in 1..L /\ S + i < S + j
    BY <1>3, <1>13
  <2>2. b[S + i] = Byte(r, m, 1) /\ b[S + j] = Byte(r, k, 1)
    BY <1>2
  <2> QED
    BY <1>9, <2>1, <2>2
<1>17. Whole(ch)'
  <2>1. \A k \in 1..Len(h) :
          \/ h[k] = AllJunk(ch)
          \/ \E r \in Proc : \E m \in 1..sent'[r][ch] : h[k] = Value(r, m, ch)
    BY <1>6, <1>7, <1>10
  <2> QED
    BY <2>1 DEF Whole, AllJunk, Value, Junk, Byte, h
<1>18. ReceivedInOrder(ch)'
  <2>1. ASSUME NEW r \in Proc, NEW m \in Nat \ {0}, NEW d \in Nat \ {0},
               NEW k \in 1..Len(h), h[k] = Value(r, d, ch)
        PROVE  /\ \A j \in 1..k - 1 : h[j] = Value(r, m, ch) => m < d
               /\ \A i \in 1..L - S : c[i] = Byte(r, m, 1) => d < m
    <3>1. CASE k \in 1..G
      <4>1. g[k] = Value(r, d, ch) /\ 1..k - 1 \subseteq 1..G
        BY <1>7, <2>1, <3>1
      <4>2. \A j \in 1..k - 1 : h[j] = g[j]
        BY <1>7, <4>1
      <4>3. /\ \A j \in 1..k - 1 : g[j] = Value(r, m, ch) => m < d
            /\ \A i \in 1..L : b[i] = Byte(r, m, 1) => d < m
        BY <1>11, <3>1, <4>1
      <4> QED
        BY <1>2, <1>13, <4>2, <4>3
    <3>2. CASE k = G + 1
      <4>1. r = p /\ d = n
        BY <1>7, <2>1, <3>2, ValueIs
      <4>2. ASSUME NEW j \in 1..k - 1, h[j] = Value(r, m, ch) PROVE m < d
        <5>1. j \in 1..G /\ g[j] = Value(p, m, ch)
          BY <1>7, <3>2, <4>1, <4>2
        <5> QED
          BY <1>5, <1>11, <1>13, <1>14, <4>1, <5>1
      <4>3. ASSUME NEW i \in 1..L - S, c[i] = Byte(r, m, 1) PROVE d < m
        <5>1. b[S + i] = Byte(p, m, 1) /\ S + i \in 1..L /\ 1 < S + i
          BY <1>2, <1>13, <4>1, <4>3
        <5> QED
          BY <1>5, <1>9, <1>13, <1>14, <4>1, <5>1
      <4> QED
        BY <4>2, <4>3
    <3> QED
      BY <1>7, <3>1, <3>2
  <2> QED
    BY <1>2, <2>1 DEF ReceivedInOrder, Value, Byte, c, h
<1>19. Complete(ch)'
  <2>1. ASSUME NEW r \in Proc, NEW m \in 1..sent[r][ch]
        PROVE  \/ \E k \in 1..Len(h) : h[k] = Value(r, m, ch)
               \/ \E i \in 1..L - S : c[i] = Byte(r, m, 1)
    <3>1. ASSUME NEW k \in 1..G, g[k] = Value(r, m, ch)
          PROVE  \E j \in 1..Len(h) : h[j] = Value(r, m, ch)
      BY <1>7, <3>1
    <3>2. ASSUME NEW i \in 1..S, b[i] = Byte(r, m, 1)
          PROVE  \E j \in 1..Len(h) : h[j] = Value(r, m, ch)
      <4>1. r = p /\ m = n
        BY <1>2, <3>2 DEF Byte
      <4>2. G + 1 \in 1..Len(h)
        BY <1>7
      <4> QED
        BY <1>7, <4>1, <4>2
    <3>3. ASSUME NEW i \in 1..L, i - S \in 1..L - S, S + (i - S) = i,
                 b[i] = Byte(r, m, 1)
          PROVE  \E j \in 1..L - S : c[j] = Byte(r, m, 1)
      BY <1>2, <3>3
    <3> QED
      BY <1>12, <1>13, <3>1, <3>2, <3>3
  <2> QED
    BY <1>2, <1>6, <2>1 DEF Complete, Value, Byte, c, h
<1> QED
  BY <1>15, <1>16, <1>17, <1>18, <1>19 DEF Transferred

(* The end is told: nothing is in the pipe, and a value of junk is none. *)
LEMMA ReceiveEndKeepsSmall ==
  ASSUME Typed, NEW q \in Proc, NEW ch \in Small, Transferred(ch),
         ReceiveEnd(q, ch)
  PROVE  Transferred(ch)'
<1> DEFINE G == Len(got[ch])
           g == got[ch]
           h == got'[ch]
<1>1. /\ got' = [got EXCEPT ![ch] = Append(@, AllJunk(ch))]
      /\ buf' = buf /\ sent' = sent /\ left' = left
  BY DEF ReceiveEnd
<1>2. ch \in Chan
  BY SmallIs
<1>3. AllJunk(ch) \in Seq(AnyByte)
  BY <1>2, AllJunkTyped
<1>4. /\ G \in Nat /\ Len(h) = G + 1
      /\ \A k \in 1..G : h[k] = g[k]
      /\ h[G + 1] = AllJunk(ch)
      /\ \A k \in 1..Len(h) : k \in 1..G \/ k = G + 1
  BY <1>1, <1>2, <1>3, Appended
<1>5. /\ \A k \in 1..G :
           \/ g[k] = AllJunk(ch)
           \/ \E r \in Proc : \E m \in 1..sent[r][ch] : g[k] = Value(r, m, ch)
      /\ \A r \in Proc, m, d \in Nat \ {0} : \A k \in 1..G :
           g[k] = Value(r, d, ch) =>
             /\ \A j \in 1..k - 1 : g[j] = Value(r, m, ch) => m < d
             /\ \A i \in 1..Len(buf[ch]) : buf[ch][i] = Byte(r, m, 1) => d < m
      /\ \A r \in Proc : \A m \in 1..sent[r][ch] :
           \/ \E k \in 1..G : g[k] = Value(r, m, ch)
           \/ \E i \in 1..Len(buf[ch]) : buf[ch][i] = Byte(r, m, 1)
  BY DEF Transferred, Whole, ReceivedInOrder, Complete
<1> HIDE DEF G, g, h
<1>6. Framed(ch)' /\ QueuedInOrder(ch)'
  BY <1>1 DEF Transferred, Framed, QueuedInOrder
<1>7. Whole(ch)'
  <2>1. \A k \in 1..Len(h) :
          \/ h[k] = AllJunk(ch)
          \/ \E r \in Proc : \E m \in 1..sent'[r][ch] : h[k] = Value(r, m, ch)
    BY <1>1, <1>4, <1>5
  <2> QED
    BY <2>1 DEF Whole, AllJunk, Value, Junk, Byte, h
<1>8. ReceivedInOrder(ch)'
  <2>1. ASSUME NEW r \in Proc, NEW m \in Nat \ {0}, NEW d \in Nat \ {0},
               NEW k \in 1..Len(h), h[k] = Value(r, d, ch)
        PROVE  /\ \A j \in 1..k - 1 : h[j] = Value(r, m, ch) => m < d
               /\ \A i \in 1..Len(buf[ch]) :
                    buf[ch][i] = Byte(r, m, 1) => d < m
    <3>1. k \in 1..G
      BY <1>4, <2>1, ValueIs
    <3>2. /\ g[k] = Value(r, d, ch)
          /\ \A j \in 1..k - 1 : j \in 1..G /\ h[j] = g[j]
      BY <1>4, <2>1, <3>1
    <3> QED
      BY <1>5, <3>1, <3>2
  <2> QED
    BY <1>1, <2>1 DEF ReceivedInOrder, Value, Byte, h
<1>9. Complete(ch)'
  <2>1. ASSUME NEW r \in Proc, NEW m \in 1..sent[r][ch]
        PROVE  \/ \E k \in 1..Len(h) : h[k] = Value(r, m, ch)
               \/ \E i \in 1..Len(buf[ch]) : buf[ch][i] = Byte(r, m, 1)
    <3>1. ASSUME NEW k \in 1..G, g[k] = Value(r, m, ch)
          PROVE  \E j \in 1..Len(h) : h[j] = Value(r, m, ch)
      BY <1>4, <3>1
    <3> QED
      BY <1>5, <3>1
  <2> QED
    BY <1>1, <2>1 DEF Complete, Value, Byte, h
<1> QED
  BY <1>6, <1>7, <1>8, <1>9 DEF Transferred

LEMMA InitKeepsSmall == ASSUME Init PROVE SmallInv
<1> SUFFICES ASSUME NEW ch \in Small PROVE Transferred(ch)
  BY DEF SmallInv
<1>1. /\ buf[ch] = <<>> /\ got[ch] = <<>>
      /\ \A p \in Proc : sent[p][ch] = 0 /\ left[p][ch] = 0
  BY SmallIs DEF Init
<1>2. /\ Len(buf[ch]) = 0 /\ Len(got[ch]) = 0
      /\ 1..Len(buf[ch]) = {} /\ 1..Len(got[ch]) = {}
      /\ 1..Len(buf[ch]) - 1 = {}
  BY <1>1
<1>3. \A p \in Proc : 1..sent[p][ch] = {}
  BY <1>1
<1>4. Framed(ch)
  BY <1>1, <1>2 DEF Framed
<1>5. QueuedInOrder(ch) /\ Whole(ch) /\ ReceivedInOrder(ch)
  BY <1>2 DEF QueuedInOrder, Whole, ReceivedInOrder
<1>6. Complete(ch)
  BY <1>3 DEF Complete
<1> QED
  BY <1>4, <1>5, <1>6 DEF Transferred

(* Nobody is within a send() of a value that fits: it is over at once. *)
LEMMA ElsewhereKeepsSmall ==
  ASSUME Typed, NEW q \in Proc, NEW d \in Chan, ChanStep(q, d),
         NEW ch \in Small, Transferred(ch), ch # d
  PROVE  Transferred(ch)'
<1>1. ch \in Chan /\ \A p \in Proc : left[p][ch] = 0
  BY SmallIs DEF Transferred, Framed
<1>2. /\ buf \in [Chan -> Seq(Named)] /\ got \in [Chan -> Seq(Seq(AnyByte))]
      /\ sent \in [Proc -> [Chan -> 0..Rounds]]
      /\ left \in [Proc -> [Chan -> Nat]]
  BY DEF Typed
<1>3. /\ buf'[ch] = buf[ch] /\ got'[ch] = got[ch]
      /\ \A p \in Proc : sent'[p][ch] = sent[p][ch]
                         /\ left'[p][ch] = left[p][ch]
  <2>1. CASE Send(q, d)
    BY <1>1, <1>2, <2>1 DEF Send, WriteChunk
  <2>2. CASE SendMore(q, d)
    BY <1>1, <1>2, <2>2 DEF SendMore, WriteChunk
  <2>3. CASE SendCut(q, d)
    BY <1>1, <1>2, <2>3 DEF SendCut
  <2>4. CASE Receive(q, d)
    BY <1>1, <1>2, <2>4 DEF Receive
  <2>5. CASE ReceiveEnd(q, d)
    BY <1>1, <1>2, <2>5 DEF ReceiveEnd
  <2> QED
    BY <2>1, <2>2, <2>3, <2>4, <2>5 DEF ChanStep
<1> QED
  BY <1>1, <1>2, <1>3, SameKeeps

LEMMA SmallNextKeeps ==
  ASSUME Typed, SmallInv, [Next]_vars PROVE SmallInv'
<1> SUFFICES ASSUME NEW ch \in Small PROVE Transferred(ch)'
  BY DEF SmallInv, Small
<1>1. /\ Transferred(ch) /\ ch \in Chan /\ buf[ch] \in Seq(Named)
      /\ \A p \in Proc : left[p][ch] = 0
  BY SmallIs DEF SmallInv, Typed, Transferred, Framed
<1>2. CASE UNCHANGED <<buf, got, sent, left>>
  BY <1>1, <1>2, SameKeeps
<1>3. ASSUME NEW q \in Proc, Exit(q) PROVE Transferred(ch)'
  <2>1. /\ UNCHANGED <<buf, got, sent>>
        /\ left' = [left EXCEPT ![q] = [d \in Chan |-> 0]]
    BY <1>3 DEF Exit
  <2>2. \A p \in Proc : left'[p][ch] = 0
    BY <1>1, <2>1 DEF Typed
  <2> QED
    BY <1>1, <2>1, <2>2, SameKeeps
<1>4. ASSUME NEW q \in Proc, NEW d \in Chan, ChanStep(q, d)
      PROVE  Transferred(ch)'
  <2>1. CASE ch # d
    BY <1>1, <1>4, <2>1, ElsewhereKeepsSmall
  <2>2. CASE ch = d
    <3>1. ~ SendMore(q, ch) /\ ~ SendCut(q, ch)
      BY <1>1 DEF SendMore, SendCut
    <3>2. Send(q, ch) \/ Receive(q, ch) \/ ReceiveEnd(q, ch)
      BY <1>4, <2>2, <3>1 DEF ChanStep
    <3> QED
      BY <1>1, <3>2, SendKeepsSmall, ReceiveKeepsSmall, ReceiveEndKeepsSmall
  <2> QED
    BY <2>1, <2>2
<1>5. CASE UNCHANGED vars
  BY <1>2, <1>5 DEF vars
<1>6. CASE Escape \/ Fail \/ Return
  BY <1>2, <1>6 DEF Escape, Fail, Return
<1>7. ASSUME NEW q \in Proc, Clone(q) \/ Begin(q) PROVE Transferred(ch)'
  BY <1>2, <1>7 DEF Clone, Begin
<1> QED
  BY <1>3, <1>4, <1>5, <1>6, <1>7 DEF Next

-----------------------------------------------------------------------------
(* The theorems. *)

(* Pipes never hold more than their capacity, a send() that is under way    *)
(* has less than its value to write, and each receive() returns a value of *)
(* the full size, for any processes, pipes and sizes (data_transfer.hpp).  *)
THEOREM TypeCorrect == Spec => []TypeOK
<1>1. Inv => TypeOK
  <2> SUFFICES ASSUME Inv PROVE TypeOK
    OBVIOUS
  <2>1. Typed
    BY DEF Inv
  <2>2. \A p \in Proc, ch \in Chan : left[p][ch] \in 0..Size[ch] - 1
    BY <2>1, Constant DEF Typed
  <2>3. \A ch \in Chan : DOMAIN got[ch] = 1..Len(got[ch])
    <3> SUFFICES ASSUME NEW ch \in Chan
                 PROVE  DOMAIN got[ch] = 1..Len(got[ch])
      OBVIOUS
    <3>1. got[ch] \in Seq(Seq(AnyByte))
      BY <2>1 DEF Typed
    <3> QED
      BY <3>1, LenProperties
  <2>4. \A ch \in Chan : \A k \in DOMAIN got[ch] : Len(got[ch][k]) = Size[ch]
    BY <2>1, <2>3 DEF Typed
  <2> QED
    BY <2>1, <2>2, <2>4 DEF Typed, TypeOK
<1> QED
  BY <1>1, InitKeeps, NextKeeps, PTL DEF Spec

(* The end of a captured pipe is reported only when f is over, its process  *)
(* ended, the child out of Execute, or the call failed without a child, and *)
(* everything f wrote has been read, whatever other clones inherited its   *)
(* ends (execute.cpp:22-36, tests/timer_fd.cpp:88).                        *)
THEOREM EndIsTrue == Spec => []EndMeansEnded
<1>1. Inv => EndMeansEnded
  <2> SUFFICES ASSUME Inv, NEW ch \in Captured, AtEnd(ch)
               PROVE  Over /\ buf[ch] = <<>>
    BY DEF EndMeansEnded
  <2>1. PICK k \in 1..Len(got[ch]) : got[ch][k] = AllJunk(ch)
    BY AtEndIs, Constant DEF Inv
  <2> QED
    BY <2>1 DEF Inv, EndKnown
<1> QED
  BY <1>1, InitKeeps, NextKeeps, PTL DEF Spec

(* Values of up to PIPE_BUF bytes arrive whole, once, and in the order of   *)
(* each sender, for any number of processes that send, receive and are     *)
(* killed, although send() and receive() are one write() and one read()    *)
(* whose result is not looked at (data_transfer.hpp:15-24).                *)
THEOREM ArrivesWhole == Spec => []WholeInOrder
<1>1. Inv /\ SmallInv => WholeInOrder
  <2> SUFFICES ASSUME Inv, SmallInv, NEW ch \in Small,
                      NEW k \in DOMAIN got[ch], got[ch][k] # AllJunk(ch)
               PROVE  \E p \in Proc, n \in 1..Rounds :
                        /\ got[ch][k] = Value(p, n, ch)
                        /\ \A m \in 1..Rounds :
                             (\E j \in 1..k - 1 :
                                got[ch][j] = Value(p, m, ch)) <=> m < n
    BY DEF WholeInOrder, Small
  <2> DEFINE G == Len(got[ch])
             g == got[ch]
  <2>1. /\ ch \in Chan /\ Typed /\ Transferred(ch)
        /\ sent \in [Proc -> [Chan -> 0..Rounds]]
        /\ got \in [Chan -> Seq(Seq(AnyByte))]
    BY SmallIs DEF Inv, SmallInv, Typed
  <2>2. DOMAIN g = 1..G /\ G \in Nat
    BY <2>1, LenProperties
  <2>3. /\ \A i \in 1..G :
             \/ g[i] = AllJunk(ch)
             \/ \E p \in Proc : \E n \in 1..sent[p][ch] :
                  g[i] = Value(p, n, ch)
        /\ \A p \in Proc, m, n \in Nat \ {0} : \A i \in 1..G :
             g[i] = Value(p, n, ch) =>
               /\ \A j \in 1..i - 1 : g[j] = Value(p, m, ch) => m < n
               /\ \A j \in 1..Len(buf[ch]) :
                    buf[ch][j] = Byte(p, m, 1) => n < m
        /\ \A p \in Proc : \A n \in 1..sent[p][ch] :
             \/ \E i \in 1..G : g[i] = Value(p, n, ch)
             \/ \E j \in 1..Len(buf[ch]) : buf[ch][j] = Byte(p, n, 1)
    BY <2>1 DEF Transferred, Whole, ReceivedInOrder, Complete
  <2> HIDE DEF G, g
  <2>4. k \in 1..G
    BY <2>2 DEF g
  <2>5. PICK p \in Proc : \E n \in 1..sent[p][ch] : g[k] = Value(p, n, ch)
    BY <2>3, <2>4 DEF g
  <2>6. PICK n \in 1..sent[p][ch] : g[k] = Value(p, n, ch)
    BY <2>5
  <2>7. /\ sent[p][ch] \in Nat /\ Rounds \in Nat /\ sent[p][ch] <= Rounds
        /\ n \in Nat \ {0} /\ n \in 1..Rounds
    BY <2>1, Constant
  <2>8. ASSUME NEW m \in 1..Rounds, NEW j \in 1..k - 1,
               g[j] = Value(p, m, ch)
        PROVE  m < n
    BY <2>3, <2>4, <2>6, <2>7, <2>8
  <2>9. ASSUME NEW m \in 1..Rounds, m < n
        PROVE  \E j \in 1..k - 1 : g[j] = Value(p, m, ch)
    <3>1. m \in 1..sent[p][ch] /\ m \in Nat \ {0} /\ ~ (n < m)
      BY <2>7, <2>9
    <3>2. \A j \in 1..Len(buf[ch]) : buf[ch][j] # Byte(p, m, 1)
      BY <2>3, <2>4, <2>6, <2>7, <3>1
    <3>3. PICK i \in 1..G : g[i] = Value(p, m, ch)
      BY <2>3, <3>1, <3>2
    <3>4. i # k
      BY <2>6, <2>9, <3>1, <3>3, ValueIs
    <3>5. ~ (k < i)
      <4>1. k < i => k \in 1..i - 1
        BY <2>2, <2>4
      <4> QED
        BY <2>3, <2>6, <2>7, <3>1, <3>3, <4>1
    <3>6. i \in 1..k - 1
      BY <2>2, <2>4, <3>4, <3>5
    <3> QED
      BY <3>3, <3>6
  <2> QED
    BY <2>6, <2>7, <2>8, <2>9 DEF g
<1>2. Inv => Typed
  BY DEF Inv
<1> QED
  BY <1>1, <1>2, InitKeeps, InitKeepsSmall, NextKeeps, SmallNextKeeps, PTL
  DEF Spec

(* Once Execute is over, however it ended, only clones that live have the   *)
(* write end of a captured pipe: when they have ended nobody has it, and   *)
(* read() tells the end (execute.cpp:22-45; what EndComes needs of safety). *)
EndIsFree ==
  returned => \A ch \in Captured :
    writers[ch] \subseteq {p \in Proc \ {Main} : Alive(p)}

THEOREM NobodyKeepsTheEnd == Spec => []EndIsFree
<1> DEFINE HeldByTheLiving ==
             \A ch \in Chan : \A p \in writers[ch] : Alive(p)
           CallerHasDone ==
             returned => \A ch \in Captured : Main \notin writers[ch]
           Held == HeldByTheLiving /\ CallerHasDone
<1>1. Init => Held
  BY Constant DEF Init, Alive, Acts
<1>2. Inv /\ Held /\ [Next]_vars => Held'
  <2> SUFFICES ASSUME Inv, Held, [Next]_vars PROVE Held'
    OBVIOUS
  <2>1. /\ life \in [Proc -> {"unborn", "born", "live", "escaped", "dead"}]
        /\ writers \in [Chan -> SUBSET Proc]
    BY DEF Inv, Typed
  <2>2. CASE UNCHANGED <<life, returned, writers>>
    BY <2>2 DEF Alive, Acts
  <2>3. CASE Return \/ Fail
    <3>1. /\ UNCHANGED life
          /\ \A ch \in Chan : writers'[ch] \subseteq writers[ch]
          /\ \A ch \in Captured : Main \notin writers'[ch]
      BY <2>1, <2>3, Constant DEF Return, Fail, WithoutCaptures
    <3> QED
      BY <3>1 DEF Alive, Acts
  <2>8. CASE Escape
    BY <2>1, <2>8, Constant DEF Escape, WithoutCaptures, Alive, Acts
  <2>9. ASSUME NEW c \in Proc, Begin(c) PROVE Held'
    BY <2>1, <2>9 DEF Begin, Alive, Acts
  <2>4. ASSUME NEW c \in Proc, Clone(c) PROVE Held'
    <3>1. /\ life[c] = "unborn" /\ life' = [life EXCEPT ![c] = "born"]
          /\ \A ch \in Chan :
               writers'[ch] = IF Main \in writers[ch]
                                THEN writers[ch] \cup {c} ELSE writers[ch]
          /\ returned' = returned
      BY <2>4 DEF Clone, CanClone
    <3>2. HeldByTheLiving'
      <4>1. SUFFICES ASSUME NEW ch \in Chan, NEW p \in writers'[ch]
                     PROVE  life'[p] \in {"born", "live", "escaped"}
        BY DEF Alive, Acts
      <4>2. p \in Proc /\ (p = c \/ p \in writers[ch])
        BY <2>1, <3>1, <4>1
      <4>3. p # c => life[p] \in {"born", "live", "escaped"}
        BY <4>1, <4>2 DEF Alive, Acts
      <4> QED
        BY <2>1, <3>1, <4>2, <4>3
    <3>3. CallerHasDone'
      BY <3>1, Constant
    <3> QED
      BY <3>2, <3>3
  <2>5. ASSUME NEW p \in Proc, Exit(p) PROVE Held'
    BY <2>1, <2>5, Constant DEF Exit, Alive, Acts
  <2>6. ASSUME NEW p \in Proc, NEW ch \in Chan, ChanStep(p, ch) PROVE Held'
    <3>1. UNCHANGED <<life, returned, writers>>
      BY <2>6 DEF ChanStep, Send, SendMore, SendCut, Receive, ReceiveEnd
    <3> QED
      BY <2>2, <3>1
  <2>7. CASE UNCHANGED vars
    BY <2>2, <2>7 DEF vars
  <2> QED
    BY <2>3, <2>4, <2>5, <2>6, <2>7, <2>8, <2>9 DEF Next
<1>3. Inv /\ Held => EndIsFree
  BY Constant DEF Inv, Typed, EndIsFree
<1> QED
  BY <1>1, <1>2, <1>3, InitKeeps, NextKeeps, PTL DEF Spec
=============================================================================
