------------------------- MODULE EventPollerProofs -------------------------
(***************************************************************************)
(* Theorems about EventPoller, for every set of timers and threads, every   *)
(* length of the span and every TimerSpec.                                 *)
(*                                                                         *)
(* The invariant adds to the properties what their proofs need: what is     *)
(* left of a timer that is alive is part of what was asked for (Settled),  *)
(* a registration outlives its timer only in a child (Inherited), and what *)
(* can be read is on the ready list (ReadableListed).                      *)
(*                                                                         *)
(* What the ready list becomes is data: Filtered computes it element by     *)
(* element.  The proofs describe its result by the positions that it picks *)
(* (Picks), by induction on the length of the list (UpTo), and take the     *)
(* rest from there: Requeue moves what was reported behind what epoll_wait  *)
(* did not look at.                                                        *)
(***************************************************************************)
EXTENDS EventPoller, SequenceTheorems, WellFoundedInduction, TLAPS

-----------------------------------------------------------------------------
(* Induction up to a number, from the least counterexample. *)

LEMMA LeastOf ==
  ASSUME NEW T, T \subseteq Nat, T # {}
  PROVE  \E m \in T : \A n \in T : m <= n
<1> DEFINE R == {p \in Nat \X Nat : p[1] < p[2]}
<1>1. R = OpToRel(<, Nat)
  BY Zenon DEF OpToRel
<1>2. IsWellFoundedOn(R, Nat)
  BY <1>1, NatLessThanWellFounded, Zenon
<1> HIDE DEF R
<1>3. PICK m \in T : \A n \in T : ~ (<<n, m>> \in R)
  BY <1>2, WFMin
<1>4. \A n \in T : n \in Nat /\ m \in Nat
  OBVIOUS
<1>5. \A n \in T : <<n, m>> \in R <=> n < m
  BY <1>4 DEF R
<1>6. \A n \in T : ~ (n < m)
  BY <1>3, <1>5
<1>7. \A n \in T : m <= n
  BY <1>4, <1>6
<1> QED
  BY <1>7

LEMMA UpTo ==
  ASSUME NEW N \in Nat, NEW P, 0 \in P,
         \A n \in 0..N - 1 : n \in P => n + 1 \in P
  PROVE  0..N \subseteq P
<1> DEFINE T == 0..N \ P
<1> SUFFICES ASSUME T # {} PROVE FALSE
  OBVIOUS
<1>1. T \subseteq Nat
  OBVIOUS
<1>2. PICK m \in T : \A n \in T : m <= n
  BY <1>1, LeastOf
<1>3. m \in 1..N /\ m - 1 \in 0..N - 1
  OBVIOUS
<1>4. m - 1 \in P
  BY <1>2, <1>3
<1> QED
  BY <1>3, <1>4

-----------------------------------------------------------------------------
(* Filtered. *)

FilterStep(list, S, g, n) ==
  IF n = 0 THEN <<>>
  ELSE IF list[n] \in S THEN Append(g[n - 1], list[n])
  ELSE g[n - 1]

FilterOf(list, S, N, g) == g = [n \in 0..N |-> FilterStep(list, S, g, n)]

LEMMA FilterExists ==
  ASSUME NEW list, NEW S, NEW N \in Nat
  PROVE  \E g : FilterOf(list, S, N, g)
<1> DEFINE P == {n \in Nat : \E g : FilterOf(list, S, n, g)}
<1>1. 0 \in P
  <2> DEFINE g == [n \in 0..0 |-> <<>>]
  <2>1. g = [n \in 0..0 |-> FilterStep(list, S, g, n)]
    BY DEF FilterStep
  <2> QED
    BY <2>1 DEF FilterOf
<1>2. ASSUME NEW k \in 0..N - 1, k \in P PROVE k + 1 \in P
  <2>1. PICK g : FilterOf(list, S, k, g)
    BY <1>2
  <2> DEFINE h == [n \in 0..k + 1 |->
                     IF n = k + 1 THEN FilterStep(list, S, g, n) ELSE g[n]]
  <2>2. \A n \in 0..k : h[n] = g[n] /\ g[n] = FilterStep(list, S, g, n)
    BY <2>1 DEF FilterOf
  <2>3. h[k + 1] = FilterStep(list, S, g, k + 1)
    OBVIOUS
  <2>4. DOMAIN h = 0..k + 1 /\ h = [n \in 0..k + 1 |-> h[n]]
    OBVIOUS
  <2> HIDE DEF h
  <2>5. \A n \in 0..k + 1 : h[n] = FilterStep(list, S, h, n)
    BY <2>2, <2>3 DEF FilterStep
  <2>6. FilterOf(list, S, k + 1, h)
    BY <2>4, <2>5 DEF FilterOf
  <2> QED
    BY <2>6
<1> HIDE DEF P
<1>3. N \in P
  BY <1>1, <1>2, UpTo
<1> QED
  BY <1>3 DEF P

(* The elements of f are those of list, up to its n-th, that are in S. *)
Picks(f, list, S, n) ==
  \E pos \in [1..Len(f) -> 1..n] :
    /\ \A i, j \in 1..Len(f) : i < j => pos[i] < pos[j]
    /\ \A i \in 1..Len(f) : f[i] = list[pos[i]] /\ f[i] \in S
    /\ \A k \in 1..n : list[k] \in S => \E i \in 1..Len(f) : pos[i] = k

LEMMA PicksNone ==
  ASSUME NEW list, NEW S PROVE Picks(<<>>, list, S, 0)
<1>1. Len(<<>>) = 0
  BY EmptySeq
<1> DEFINE pos == [i \in 1..0 |-> 0]
<1>2. pos \in [1..0 -> 1..0]
  OBVIOUS
<1> HIDE DEF pos
<1>3. \A i \in 1..0 : FALSE
  OBVIOUS
<1> QED
  BY <1>1, <1>2, <1>3 DEF Picks

LEMMA PicksNext ==
  ASSUME NEW T, NEW list, NEW S, NEW n \in Nat, NEW f \in Seq(T),
         Picks(f, list, S, n), list[n + 1] \in T, NEW g,
         g = IF list[n + 1] \in S THEN Append(f, list[n + 1]) ELSE f
  PROVE  g \in Seq(T) /\ Picks(g, list, S, n + 1)
<1>1. PICK pos \in [1..Len(f) -> 1..n] :
        /\ \A i, j \in 1..Len(f) : i < j => pos[i] < pos[j]
        /\ \A i \in 1..Len(f) : f[i] = list[pos[i]] /\ f[i] \in S
        /\ \A k \in 1..n : list[k] \in S => \E i \in 1..Len(f) : pos[i] = k
  BY DEF Picks
<1>2. Len(f) \in Nat
  BY LenProperties
<1>3. CASE list[n + 1] \notin S
  <2>1. pos \in [1..Len(f) -> 1..n + 1]
    BY <1>1, <1>2
  <2>2. \A k \in 1..n + 1 : list[k] \in S =>
          \E i \in 1..Len(f) : pos[i] = k
    BY <1>1, <1>3
  <2>3. Picks(f, list, S, n + 1)
    BY <1>1, <2>1, <2>2 DEF Picks
  <2> QED
    BY <1>3, <2>3
<1>4. CASE list[n + 1] \in S
  <2> DEFINE e == list[n + 1]
             L == Len(f)
             new == [i \in 1..L + 1 |-> IF i = L + 1 THEN n + 1 ELSE pos[i]]
  <2>1. /\ Append(f, e) \in Seq(T)
        /\ Len(Append(f, e)) = L + 1
        /\ \A i \in 1..L : Append(f, e)[i] = f[i]
        /\ Append(f, e)[L + 1] = e
    BY AppendProperties
  <2>2. /\ new \in [1..L + 1 -> 1..n + 1]
        /\ new[L + 1] = n + 1
        /\ \A i \in 1..L : new[i] = pos[i] /\ pos[i] \in 1..n
    <3>1. L \in Nat /\ \A i \in 1..L : pos[i] \in 1..n
      BY <1>1, <1>2
    <3> HIDE DEF L
    <3> QED
      BY <3>1
  <2> HIDE DEF new, L
  <2>3. \A i, j \in 1..L + 1 : i < j => new[i] < new[j]
    <3> SUFFICES ASSUME NEW i \in 1..L + 1, NEW j \in 1..L + 1, i < j
                 PROVE  new[i] < new[j]
      OBVIOUS
    <3>1. i \in 1..L /\ L \in Nat
      BY <1>2 DEF L
    <3>2. CASE j \in 1..L
      BY <1>1, <2>2, <3>1, <3>2 DEF L
    <3>3. CASE j = L + 1
      BY <2>2, <3>1, <3>3
    <3> QED
      BY <3>1, <3>2, <3>3
  <2>4. \A i \in 1..L + 1 :
          Append(f, e)[i] = list[new[i]] /\ Append(f, e)[i] \in S
    <3> SUFFICES ASSUME NEW i \in 1..L + 1
                 PROVE  /\ Append(f, e)[i] = list[new[i]]
                        /\ Append(f, e)[i] \in S
      OBVIOUS
    <3>1. CASE i \in 1..L
      BY <1>1, <2>1, <2>2, <3>1 DEF L
    <3>2. CASE i = L + 1
      BY <1>4, <2>1, <2>2, <3>2
    <3> QED
      BY <1>2, <3>1, <3>2 DEF L
  <2>5. \A k \in 1..n + 1 : list[k] \in S =>
          \E i \in 1..L + 1 : new[i] = k
    <3> SUFFICES ASSUME NEW k \in 1..n + 1, list[k] \in S
                 PROVE  \E i \in 1..L + 1 : new[i] = k
      OBVIOUS
    <3>1. CASE k \in 1..n
      BY <1>1, <1>2, <2>2, <3>1 DEF L
    <3>2. CASE k = n + 1
      BY <1>2, <2>2, <3>2 DEF L
    <3> QED
      BY <3>1, <3>2
  <2>6. Picks(Append(f, e), list, S, n + 1)
    <3> DEFINE a == Append(f, e)
    <3>1. /\ Len(a) = L + 1
          /\ \A i \in 1..L + 1 : a[i] = list[new[i]] /\ a[i] \in S
      BY <2>1, <2>4
    <3> HIDE DEF a
    <3>2. /\ new \in [1..Len(a) -> 1..n + 1]
          /\ \A i, j \in 1..Len(a) : i < j => new[i] < new[j]
          /\ \A i \in 1..Len(a) : a[i] = list[new[i]] /\ a[i] \in S
          /\ \A k \in 1..n + 1 : list[k] \in S =>
                \E i \in 1..Len(a) : new[i] = k
      BY <2>2, <2>3, <2>5, <3>1
    <3>3. Picks(a, list, S, n + 1)
      BY <3>2, Zenon DEF Picks
    <3> QED
      BY <3>3 DEF a
  <2> QED
    BY <1>4, <2>1, <2>6
<1> QED
  BY <1>3, <1>4

(* What Filtered returns. *)
LEMMA FilteredPicks ==
  ASSUME NEW T, NEW list \in Seq(T), NEW S
  PROVE  /\ Filtered(list, S) \in Seq(T)
         /\ Picks(Filtered(list, S), list, S, Len(list))
<1> DEFINE N == Len(list)
<1>1. N \in Nat /\ \A n \in 1..N : list[n] \in T
  BY LenProperties, ElementOfSeq
<1>2. PICK g : /\ FilterOf(list, S, N, g)
               /\ Filtered(list, S) = g[N]
  <2> DEFINE g == CHOOSE h : FilterOf(list, S, N, h)
  <2>1. FilterOf(list, S, N, g)
    BY <1>1, FilterExists
  <2>2. Filtered(list, S) = g[N]
    BY Zenon DEF Filtered, FilterOf, FilterStep
  <2> QED
    BY <2>1, <2>2
<1> HIDE DEF N
<1>3. \A n \in 0..N : g[n] = FilterStep(list, S, g, n)
  BY <1>2 DEF FilterOf
<1> DEFINE P == {n \in 0..N : g[n] \in Seq(T) /\ Picks(g[n], list, S, n)}
<1>4. 0 \in P
  <2>1. 0 \in 0..N /\ g[0] = <<>>
    BY <1>1, <1>3 DEF FilterStep
  <2> QED
    BY <2>1, PicksNone, EmptySeq
<1>5. ASSUME NEW n \in 0..N - 1, n \in P PROVE n + 1 \in P
  <2>1. /\ n \in Nat /\ n + 1 \in 0..N /\ n + 1 # 0 /\ (n + 1) - 1 = n
        /\ list[n + 1] \in T
    BY <1>1
  <2>2. g[n + 1] = IF list[n + 1] \in S THEN Append(g[n], list[n + 1])
                   ELSE g[n]
    BY <1>3, <2>1 DEF FilterStep
  <2>3. g[n] \in Seq(T) /\ Picks(g[n], list, S, n)
    BY <1>5
  <2> HIDE DEF P
  <2>4. g[n + 1] \in Seq(T) /\ Picks(g[n + 1], list, S, n + 1)
    BY <2>1, <2>2, <2>3, PicksNext
  <2> QED
    BY <2>1, <2>4 DEF P
<1> HIDE DEF P
<1>6. 0..N \subseteq P
  BY <1>1, <1>4, <1>5, UpTo
<1>7. N \in P
  BY <1>1, <1>6
<1> QED
  BY <1>2, <1>7 DEF P, N

-----------------------------------------------------------------------------
(* The ready list: each timer is on it once, if at all. *)

On(list, t) == \E i \in 1..Len(list) : list[i] = t

Once(list) ==
  \A i, j \in 1..Len(list) : list[i] = list[j] => i = j

TimerList == {list \in Seq(Timer) : Once(list)}

LEMMA ListIs ==
  ASSUME NEW list \in TimerList
  PROVE  /\ list \in Seq(Timer) /\ Len(list) \in Nat
         /\ DOMAIN list = 1..Len(list)
         /\ \A i \in 1..Len(list) : list[i] \in Timer
         /\ \A i, j \in 1..Len(list) : list[i] = list[j] => i = j
         /\ \A t : t \in Range(list) <=> On(list, t)
<1>1. list \in Seq(Timer) /\ Once(list)
  BY DEF TimerList
<1>2. Len(list) \in Nat /\ DOMAIN list = 1..Len(list)
  BY <1>1, LenProperties
<1> QED
  BY <1>1, <1>2, ElementOfSeq DEF Once, On, Range

LEMMA EmptyListed == <<>> \in TimerList /\ \A t : ~ On(<<>>, t)
<1>1. <<>> \in Seq(Timer) /\ Len(<<>>) = 0 /\ \A i \in 1..0 : FALSE
  BY EmptySeq
<1> QED
  BY <1>1 DEF TimerList, Once, On

(* What Filtered returns of such a list, and where it was there. *)
LEMMA FilteredPositions ==
  ASSUME NEW list \in TimerList, NEW S
  PROVE  LET f == Filtered(list, S)
         IN  /\ f \in TimerList
             /\ \A t : On(f, t) <=> On(list, t) /\ t \in S
             /\ \E pos \in [1..Len(f) -> 1..Len(list)] :
                  /\ \A i, j \in 1..Len(f) : i < j => pos[i] < pos[j]
                  /\ \A i \in 1..Len(f) : f[i] = list[pos[i]] /\ f[i] \in S
                  /\ \A k \in 1..Len(list) :
                       list[k] \in S => \E i \in 1..Len(f) : pos[i] = k
<1> DEFINE f == Filtered(list, S)
<1>1. f \in Seq(Timer) /\ Picks(f, list, S, Len(list))
  BY ListIs, FilteredPicks
<1>2. Len(f) \in Nat
  BY <1>1, LenProperties
<1> HIDE DEF f
<1>3. PICK pos \in [1..Len(f) -> 1..Len(list)] :
        /\ \A i, j \in 1..Len(f) : i < j => pos[i] < pos[j]
        /\ \A i \in 1..Len(f) : f[i] = list[pos[i]] /\ f[i] \in S
        /\ \A k \in 1..Len(list) :
             list[k] \in S => \E i \in 1..Len(f) : pos[i] = k
  BY <1>1 DEF Picks
<1>4. Once(f)
  <2> SUFFICES ASSUME NEW i \in 1..Len(f), NEW j \in 1..Len(f), f[i] = f[j]
               PROVE  i = j
    BY DEF Once
  <2>1. pos[i] = pos[j]
    <3>1. /\ pos[i] \in 1..Len(list) /\ pos[j] \in 1..Len(list)
          /\ list[pos[i]] = list[pos[j]]
      BY <1>3
    <3>2. \A k, l \in 1..Len(list) : list[k] = list[l] => k = l
      BY ListIs
    <3> QED
      BY <3>1, <3>2
  <2>2. ~ (i < j) /\ ~ (j < i)
    BY <1>3, <2>1, ListIs
  <2> QED
    BY <1>2, <2>2
<1>5. \A t : On(f, t) <=> On(list, t) /\ t \in S
  BY <1>3 DEF On
<1> QED
  BY <1>1, <1>3, <1>4, <1>5 DEF TimerList, f

LEMMA WithoutIs ==
  ASSUME ready \in TimerList, NEW T
  PROVE  /\ Without(T) \in TimerList
         /\ \A t \in Timer : On(Without(T), t) <=> On(ready, t) /\ t \notin T
BY FilteredPositions DEF Without

LEMMA LinkIs ==
  ASSUME ready \in TimerList, NEW t \in Timer
  PROVE  /\ Link(t) \in TimerList
         /\ \A u : On(Link(t), u) <=> On(ready, u) \/ u = t
<1>1. CASE t \in Range(ready)
  BY <1>1, ListIs DEF Link
<1>2. CASE t \notin Range(ready)
  <2> DEFINE new == Append(ready, t)
             L == Len(ready)
  <2>1. /\ new \in Seq(Timer) /\ Len(new) = L + 1
        /\ \A i \in 1..L : new[i] = ready[i]
        /\ new[L + 1] = t
    BY ListIs, AppendProperties
  <2>2. L \in Nat /\ \A i \in 1..L : ready[i] # t
    BY <1>2, ListIs DEF On
  <2>3. \A i, j \in 1..L : ready[i] = ready[j] => i = j
    BY ListIs
  <2> HIDE DEF new, L
  <2>4. \A i \in 1..L + 1 : i \in 1..L \/ i = L + 1
    BY <2>2
  <2>5. Once(new)
    BY <2>1, <2>2, <2>3, <2>4 DEF Once
  <2>6. 1..L \subseteq 1..L + 1 /\ L + 1 \in 1..L + 1
    BY <2>2
  <2>7. \A u : On(new, u) <=> On(ready, u) \/ u = t
    BY <2>1, <2>4, <2>6 DEF On, L
  <2> QED
    BY <1>2, <2>1, <2>5, <2>7 DEF Link, TimerList, new
<1> QED
  BY <1>1, <1>2

ReadableTimers == {t \in Timer : Readable(t)}

(* epoll_wait reports readable timers, from the head of the list. *)
LEMMA ReportedIs ==
  ASSUME NEW list \in TimerList, NEW n \in Nat \ {0}
  PROVE  LET r == Reported(list, n)
             found == Filtered(list, ReadableTimers)
         IN  /\ r \in Seq(Timer)
             /\ Len(r) = Least(n, Len(found))
             /\ Len(r) \in Nat /\ Len(r) <= n /\ Len(r) <= Len(found)
             /\ \A i \in 1..Len(r) : r[i] = found[i]
             /\ Range(r) \subseteq ReadableTimers
<1> DEFINE found == Filtered(list, ReadableTimers)
           m == Least(n, Len(found))
           r == Reported(list, n)
<1>1. found \in TimerList /\ \A t : On(found, t) => t \in ReadableTimers
  BY FilteredPositions
<1>2. /\ Len(found) \in Nat
      /\ \A i \in 1..Len(found) : found[i] \in ReadableTimers
  BY <1>1, ListIs DEF On
<1>3. r = SubSeq(found, 1, m)
  BY DEF Reported, ReadableTimers
<1> HIDE DEF found, r
<1>5. m \in Nat /\ m <= n /\ m <= Len(found)
  BY <1>2 DEF Least
<1> HIDE DEF m
<1>6. /\ r \in Seq(ReadableTimers)
      /\ Len(r) = m
      /\ \A i \in 1..m : r[i] = found[i]
  <2>1. \A i \in 1..m : found[i] \in ReadableTimers
    BY <1>2, <1>5
  <2>2. /\ r \in Seq(ReadableTimers)
        /\ Len(r) = IF 1 <= m THEN m - 1 + 1 ELSE 0
        /\ \A i \in 1..m - 1 + 1 : r[i] = found[1 + i - 1]
    BY <1>3, <1>5, <2>1, SubSeqProperties
  <2> QED
    BY <1>5, <2>2
<1>7. ReadableTimers \subseteq Timer
  BY DEF ReadableTimers
<1>8. r \in Seq(Timer)
  BY <1>6, <1>7, SeqMonotonic
<1>9. DOMAIN r = 1..m /\ \A i \in 1..m : r[i] \in ReadableTimers
  BY <1>6, LenProperties, ElementOfSeq
<1>10. Range(r) \subseteq ReadableTimers
  BY <1>9 DEF Range
<1> QED
  BY <1>5, <1>6, <1>8, <1>10 DEF r, m, found

(* An index past the first a of a + b counts from a: the two parts of a     *)
(* queue that is appended to are told apart by it.                          *)
LEMMA PastTheFirst ==
  ASSUME NEW a \in Nat, NEW b \in Nat, NEW i \in 1..a + b, i \notin 1..a
  PROVE  \E j \in 1..b : i = a + j
<1>1. i - a \in 1..b /\ i = a + (i - a)
  OBVIOUS
<1> QED
  BY <1>1

(* What was reported goes to the end of the list; nothing is lost, and      *)
(* nothing is on it twice.                                                 *)
LEMMA RequeueIs ==
  ASSUME NEW list \in TimerList, NEW size \in Nat \ {0}
  PROVE  LET new == Requeue(list, Reported(list, size), size)
         IN  /\ new \in TimerList
             /\ \A t : On(new, t) => On(list, t)
             /\ \A t \in ReadableTimers : On(list, t) => On(new, t)
<1> DEFINE f == Filtered(list, ReadableTimers)
           r == Reported(list, size)
           u == Unseen(list, r, size)
           N == Len(list)
           new == Requeue(list, r, size)
<1>1. /\ list \in Seq(Timer) /\ N \in Nat
      /\ \A i \in 1..N : list[i] \in Timer
      /\ \A i, j \in 1..N : list[i] = list[j] => i = j
  BY ListIs
<1>2. /\ f \in TimerList /\ Len(f) \in Nat
      /\ \A i, j \in 1..Len(f) : f[i] = f[j] => i = j
  <2>1. f \in TimerList
    BY FilteredPositions
  <2> HIDE DEF f
  <2> QED
    BY <2>1, ListIs
<1>3. PICK pos \in [1..Len(f) -> 1..N] :
        /\ \A i, j \in 1..Len(f) : i < j => pos[i] < pos[j]
        /\ \A i \in 1..Len(f) : f[i] = list[pos[i]] /\ f[i] \in ReadableTimers
        /\ \A k \in 1..N :
             list[k] \in ReadableTimers => \E i \in 1..Len(f) : pos[i] = k
  BY FilteredPositions
<1>4. /\ r \in Seq(Timer) /\ Len(r) = Least(size, Len(f))
      /\ Len(r) \in Nat /\ Len(r) <= size /\ Len(r) <= Len(f)
      /\ \A i \in 1..Len(r) : r[i] = f[i]
  BY ReportedIs
<1>5. size \in Nat \ {0}
  OBVIOUS
<1>6. new = u \o r
  BY DEF Requeue
<1> HIDE DEF f, r, u, N, new
<1>7. CASE Len(r) < size
  <2>1. u = <<>>
    BY <1>7 DEF u, Unseen
  <2>2. new = r
    BY <1>4, <1>6, <2>1, ConcatEmptySeq
  <2>3. Len(r) = Len(f)
    BY <1>2, <1>4, <1>5, <1>7 DEF Least
  <2>4. Once(r)
    BY <1>2, <1>4, <2>3 DEF Once
  <2>5. \A t : On(r, t) => On(list, t)
    BY <1>3, <1>4, <2>3 DEF On, N
  <2>6. \A t \in ReadableTimers : On(list, t) => On(r, t)
    <3> SUFFICES ASSUME NEW k \in 1..N, list[k] \in ReadableTimers
                 PROVE  On(r, list[k])
      BY DEF On, N
    <3>1. PICK i \in 1..Len(f) : pos[i] = k
      BY <1>3
    <3> QED
      BY <1>3, <1>4, <2>3, <3>1 DEF On
  <2> QED
    BY <1>4, <2>2, <2>4, <2>5, <2>6 DEF TimerList, new, r
<1>8. CASE Len(r) = size
  <2>1. /\ size \in 1..Len(f) /\ r[size] = f[size]
        /\ pos[size] \in 1..N /\ list[pos[size]] = r[size]
    <3>1. size \in 1..Len(f) /\ size \in 1..Len(r)
      BY <1>2, <1>4, <1>5, <1>8
    <3> QED
      BY <1>3, <1>4, <3>1
  <2> DEFINE k == CHOOSE i \in 1..Len(list) : list[i] = r[size]
  <2>2. k = pos[size]
    <3>1. k \in 1..N /\ list[k] = r[size]
      BY <2>1 DEF N
    <3> HIDE DEF k
    <3> QED
      BY <1>1, <2>1, <3>1
  <2>3. u = SubSeq(list, k + 1, N)
    <3>1. ~ (Len(r) < size)
      BY <1>5, <1>8
    <3> QED
      BY <3>1, Zenon DEF u, Unseen, N
  <2> HIDE DEF k
  <2> DEFINE M == Len(u)
  <2>4. /\ u \in Seq(Timer) /\ M = N - k
        /\ \A i \in 1..M : u[i] = list[k + i]
    <3>1. k \in 1..N /\ k + 1 \in Int /\ N \in Int
      BY <1>1, <2>1, <2>2
    <3>2. \A i \in k + 1 .. N : list[i] \in Timer
      BY <1>1, <3>1
    <3>3. /\ u \in Seq(Timer)
          /\ Len(u) = IF k + 1 <= N THEN N - (k + 1) + 1 ELSE 0
          /\ \A i \in 1..N - (k + 1) + 1 : u[i] = list[k + 1 + i - 1]
      BY <2>3, <3>1, <3>2, SubSeqProperties
    <3>4. Len(u) = N - k /\ N - (k + 1) + 1 = N - k
      BY <1>1, <3>1, <3>3
    <3>5. \A i \in 1..M : k + 1 + i - 1 = k + i
      BY <3>1
    <3> QED
      BY <3>3, <3>4, <3>5
  <2>5. k \in 1..N /\ M \in Nat
    BY <1>1, <2>1, <2>2, <2>4
  <2>6. /\ new \in Seq(Timer) /\ Len(new) = M + size
        /\ \A i \in 1..M : new[i] = u[i]
        /\ \A i \in 1..size : new[M + i] = r[i]
    <3>1. /\ new \in Seq(Timer) /\ Len(new) = M + size
          /\ \A i \in 1..M + size :
               new[i] = IF i <= M THEN u[i] ELSE r[i - M]
      <4>1. /\ u \o r \in Seq(Timer) /\ Len(u \o r) = Len(u) + Len(r)
            /\ \A i \in 1..Len(u) + Len(r) :
                 (u \o r)[i] = IF i <= Len(u) THEN u[i] ELSE r[i - Len(u)]
        BY <1>4, <2>4, ConcatProperties
      <4> QED
        BY <1>6, <1>8, <4>1
    <3>2. \A i \in 1..M : i \in 1..M + size /\ i <= M
      BY <1>5, <2>5
    <3>3. \A i \in 1..size :
            M + i \in 1..M + size /\ ~ (M + i <= M) /\ (M + i) - M = i
      BY <1>5, <2>5
    <3> QED
      BY <3>1, <3>2, <3>3
  <2> HIDE DEF M
  (* Where an element of the new list was in the old one. *)
  <2> DEFINE old == [i \in 1..M + size |->
                       IF i <= M THEN k + i ELSE pos[i - M]]
  <2>7. \A i \in 1..M :
          old[i] = k + i /\ old[i] \in 1..N /\ old[i] > k
    BY <1>1, <1>5, <2>4, <2>5
  <2>8. \A i \in 1..size :
          /\ old[M + i] = pos[i] /\ old[M + i] \in 1..N
          /\ old[M + i] <= k
    <3> SUFFICES ASSUME NEW i \in 1..size
                 PROVE  /\ old[M + i] = pos[i] /\ old[M + i] \in 1..N
                        /\ old[M + i] <= k
      OBVIOUS
    <3>1. /\ M + i \in 1..M + size /\ ~ (M + i <= M)
          /\ (M + i) - M = i /\ i \in 1..Len(f)
      BY <1>2, <1>4, <1>5, <1>8, <2>5
    <3>2. old[M + i] = pos[i]
      BY <3>1
    <3> HIDE DEF old
    <3>3. pos[i] \in 1..N /\ pos[size] \in 1..N
      BY <1>3, <2>1, <3>1
    <3>4. i = size \/ i < size
      BY <1>5
    <3>5. pos[i] <= pos[size]
      BY <1>1, <1>3, <2>1, <3>1, <3>3, <3>4
    <3> QED
      BY <2>2, <3>2, <3>3, <3>5
  <2> HIDE DEF old
  <2>9. \A i \in 1..M + size :
          i \in 1..M \/ \E j \in 1..size : i = M + j
    <3> SUFFICES ASSUME NEW i \in 1..M + size, i \notin 1..M
                 PROVE  \E j \in 1..size : i = M + j
      OBVIOUS
    <3>1. M \in Nat /\ size \in Nat
      BY <1>5, <2>5
    <3> HIDE DEF M
    <3> QED
      BY <3>1, PastTheFirst
  <2>10. \A i \in 1..size : r[i] = list[pos[i]]
    BY <1>2, <1>3, <1>4, <1>5, <1>8
  <2>11. \A i \in 1..M + size : old[i] \in 1..N /\ new[i] = list[old[i]]
    <3> SUFFICES ASSUME NEW i \in 1..M + size
                 PROVE  old[i] \in 1..N /\ new[i] = list[old[i]]
      OBVIOUS
    <3>1. CASE i \in 1..M
      BY <2>4, <2>6, <2>7, <3>1 DEF M
    <3>2. ASSUME NEW j \in 1..size, i = M + j
          PROVE  old[i] \in 1..N /\ new[i] = list[old[i]]
      BY <2>6, <2>8, <2>10, <3>2
    <3> QED
      BY <2>9, <3>1, <3>2
  <2>12. Once(new)
    <3> SUFFICES ASSUME NEW i \in 1..M + size, NEW j \in 1..M + size,
                        new[i] = new[j]
                 PROVE  i = j
      BY <2>6 DEF Once
    <3>1. old[i] = old[j] /\ old[i] \in 1..N
      <4>1. /\ old[i] \in 1..N /\ old[j] \in 1..N
            /\ list[old[i]] = list[old[j]]
        BY <2>11
      <4> QED
        BY <1>1, <4>1
    <3>2. CASE i \in 1..M /\ j \in 1..M
      BY <2>5, <2>7, <3>1, <3>2
    <3>3. ASSUME NEW a \in 1..size, i = M + a, j \in 1..M PROVE FALSE
      <4>1. old[j] > k /\ old[i] <= k /\ old[i] = old[j] /\ old[i] \in 1..N
        BY <2>7, <2>8, <3>1, <3>3
      <4> QED
        BY <1>1, <2>5, <4>1
    <3>4. ASSUME NEW a \in 1..size, j = M + a, i \in 1..M PROVE FALSE
      <4>1. old[i] > k /\ old[j] <= k /\ old[i] = old[j] /\ old[i] \in 1..N
        BY <2>7, <2>8, <3>1, <3>4
      <4> QED
        BY <1>1, <2>5, <4>1
    <3>5. ASSUME NEW a \in 1..size, i = M + a,
                 NEW b \in 1..size, j = M + b
          PROVE  i = j
      <4>1. /\ pos[a] = pos[b]
            /\ a \in 1..Len(f) /\ b \in 1..Len(f)
            /\ pos[a] \in 1..N /\ pos[b] \in 1..N
        BY <1>2, <1>3, <1>4, <1>5, <1>8, <2>8, <3>1, <3>5
      <4>2. ~ (a < b) /\ ~ (b < a)
        BY <1>1, <1>3, <4>1
      <4> QED
        BY <1>5, <3>5, <4>2
    <3> QED
      BY <2>9, <3>2, <3>3, <3>4, <3>5
  <2>13. \A t : On(new, t) => On(list, t)
    BY <2>6, <2>11 DEF On, N
  <2>14. \A t \in ReadableTimers : On(list, t) => On(new, t)
    <3> SUFFICES ASSUME NEW n \in 1..N, list[n] \in ReadableTimers
                 PROVE  \E i \in 1..M + size : new[i] = list[n]
      BY <2>6 DEF On, N
    <3>1. CASE n > k
      <4>1. n - k \in 1..M /\ k + (n - k) = n
        BY <1>1, <2>4, <2>5, <3>1 DEF M
      <4>2. n - k \in 1..M + size
        BY <1>5, <2>5, <4>1
      <4> QED
        BY <2>4, <2>6, <4>1, <4>2 DEF M
    <3>2. CASE n <= k
      <4>1. PICK i \in 1..Len(f) : pos[i] = n
        BY <1>3
      <4>2. ~ (size < i)
        BY <1>1, <1>3, <2>1, <2>2, <3>2, <4>1
      <4>3. i \in 1..size
        BY <1>2, <1>5, <4>2
      <4>4. M + i \in 1..M + size
        BY <1>5, <2>5, <4>3
      <4> QED
        BY <2>6, <2>10, <4>1, <4>3, <4>4
    <3> QED
      BY <2>5, <3>1, <3>2
  <2> QED
    BY <2>6, <2>12, <2>13, <2>14 DEF TimerList, new, r
<1> QED
  BY <1>4, <1>5, <1>7, <1>8

-----------------------------------------------------------------------------
(* Durations. *)

TimeSpecs == [tv_sec : Nat, tv_nsec : 0..Nano - 1]

Settings == [it_interval : TimeSpecs, it_value : TimeSpecs]

(* Both conversions together change no duration, and those of durations     *)
(* that are not negative are what timerfd_settime() accepts.               *)
LEMMA Converted ==
  ASSUME NEW d \in Int
  PROVE  /\ ToTimeSpec(d) \in [tv_sec : Int, tv_nsec : Int]
         /\ FromTimeSpec(ToTimeSpec(d)) = d
         /\ d >= 0 => ToTimeSpec(d) \in TimeSpecs
<1>1. Nano \in Nat \ {0}
  BY PollerAssumption
<1>2. ASSUME NEW a \in Nat
      PROVE  /\ a \div Nano \in Nat /\ a % Nano \in 0..Nano - 1
             /\ (a % Nano) + (a \div Nano) * Nano = a
  BY <1>1
<1>3. CASE d >= 0
  <2>1. d \in Nat
    BY <1>3
  <2>2. ToTimeSpec(d) = [tv_sec |-> 1 * (d \div Nano),
                         tv_nsec |-> 1 * (d % Nano)]
    BY <1>3 DEF ToTimeSpec
  <2> DEFINE q == d \div Nano
             r == d % Nano
  <2>3. q \in Nat /\ r \in 0..Nano - 1 /\ r + q * Nano = d
    BY <1>2, <2>1
  <2> HIDE DEF q, r
  <2>4. 1 * q = q /\ 1 * r = r
    BY <1>1, <2>3
  <2>5. ToTimeSpec(d) = [tv_sec |-> q, tv_nsec |-> r]
    BY <2>2, <2>4 DEF q, r
  <2> QED
    BY <1>1, <2>3, <2>5 DEF TimeSpecs, FromTimeSpec
<1>4. CASE d < 0
  <2>1. - d \in Nat
    BY <1>4
  <2> DEFINE a == IF d < 0 THEN - d ELSE d
             s == IF d < 0 THEN -1 ELSE 1
             q == a \div Nano
             r == a % Nano
  <2>2. ToTimeSpec(d) = [tv_sec |-> s * q, tv_nsec |-> s * r]
    BY DEF ToTimeSpec
  <2>3. a = - d /\ a \in Nat /\ s = -1
    BY <1>4, <2>1
  <2> HIDE DEF a, s
  <2>4. q \in Nat /\ r \in 0..Nano - 1 /\ r + q * Nano = a
    BY <1>2, <2>3
  <2> HIDE DEF q, r
  <2>5. s * q \in Int /\ s * r \in Int /\ s * r + (s * q) * Nano = d
    BY <1>1, <2>3, <2>4
  <2> QED
    BY <1>4, <2>2, <2>5 DEF FromTimeSpec
<1> QED
  BY <1>3, <1>4

LEMMA ConvertedBack ==
  ASSUME NEW ts \in TimeSpecs
  PROVE  FromTimeSpec(ts) \in Nat
BY PollerAssumption DEF TimeSpecs, FromTimeSpec

LEMMA ValidIs ==
  ASSUME NEW spec \in TimerSpec
  PROVE  /\ Valid(ToITimerSpec(spec)) <=> ToITimerSpec(spec) \in Settings
         /\ spec.first_expiration >= 0 /\ spec.interval >= 0 =>
              Valid(ToITimerSpec(spec))
<1> DEFINE v == ToTimeSpec(spec.first_expiration)
           i == ToTimeSpec(spec.interval)
<1>1. spec.first_expiration \in Int /\ spec.interval \in Int
  BY DEF TimerSpec
<1>2. /\ v \in [tv_sec : Int, tv_nsec : Int]
      /\ i \in [tv_sec : Int, tv_nsec : Int]
      /\ spec.first_expiration >= 0 => v \in TimeSpecs
      /\ spec.interval >= 0 => i \in TimeSpecs
  BY <1>1, Converted
<1> HIDE DEF v, i
<1>3. ToITimerSpec(spec) = [it_interval |-> i, it_value |-> v]
  BY DEF ToITimerSpec, v, i
<1>4. ToITimerSpec(spec) \in Settings <=> v \in TimeSpecs /\ i \in TimeSpecs
  BY <1>3 DEF Settings
<1>5. \A ts \in [tv_sec : Int, tv_nsec : Int] :
        ts \in TimeSpecs <=> ts.tv_sec >= 0 /\ ts.tv_nsec \in 0..Nano - 1
  BY PollerAssumption DEF TimeSpecs
<1>6. Valid(ToITimerSpec(spec)) <=> v \in TimeSpecs /\ i \in TimeSpecs
  BY <1>2, <1>3, <1>5 DEF Valid
<1> QED
  BY <1>2, <1>4, <1>6

LEMMA SettingIsValid ==
  ASSUME NEW its \in Settings PROVE Valid(its)
BY DEF Settings, TimeSpecs, Valid

LEMMA DisarmedIs ==
  /\ Disarmed \in TimerSpec /\ ToITimerSpec(Disarmed) \in Settings
  /\ FromTimeSpec(ToITimerSpec(Disarmed).it_value) = 0
  /\ FromTimeSpec(ToITimerSpec(Disarmed).it_interval) = 0
<1>1. Disarmed \in TimerSpec
  BY DEF Disarmed, TimerSpec
<1>2. Disarmed.first_expiration = 0 /\ Disarmed.interval = 0
  BY DEF Disarmed
<1>3. ToITimerSpec(Disarmed) \in Settings
  BY <1>1, <1>2, ValidIs
<1>4. FromTimeSpec(ToTimeSpec(0)) = 0
  BY Converted
<1> QED
  BY <1>1, <1>2, <1>3, <1>4 DEF ToITimerSpec

-----------------------------------------------------------------------------
(* The invariant. *)

Typed ==
  /\ timer \in [Timer -> {"absent", "alive", "gone"}]
  /\ child \subseteq Timer
  /\ setting \in [Timer -> Settings]
  /\ count \in [Timer -> 0..MaxCount]
  /\ mask \in [Timer -> EventMask \cup {"none"}]
  /\ ready \in TimerList
  /\ \A p \in polled :
       /\ p.by \in Thread
       /\ p.number \in 0..Span[p.by] /\ p.events \in Events(p.by)
  /\ asked \in [Timer -> TimerSpec]

(* What is left of the time to the first expiration, or to the next, and    *)
(* the interval that was asked for.                                        *)
LeftOf(spec, its) ==
  /\ FromTimeSpec(its.it_interval) = spec.interval
  /\ \/ FromTimeSpec(its.it_value) <= spec.first_expiration
     \/ /\ spec.first_expiration > 0
        /\ FromTimeSpec(its.it_value) <= spec.interval

Settled == \A t \in Timer : timer[t] = "alive" => LeftOf(asked[t], setting[t])

(* The registration of a timer that is not alive is a child's. *)
Inherited ==
  \A t \in Timer : timer[t] # "alive" /\ mask[t] # "none" => t \in child

(* What can be read is on the ready list. *)
ReadableListed == \A t \in Timer : Readable(t) => On(ready, t)

Inv == Typed /\ Settled /\ Inherited /\ ReadableListed

LEMMA InitInv == Init => Inv
<1> SUFFICES ASSUME Init PROVE Inv
  OBVIOUS
<1>1. Typed
  BY DisarmedIs, EmptyListed, PollerAssumption DEF Init, Typed, EventMask
<1>2. Settled
  BY DEF Init, Settled
<1>3. Inherited /\ ReadableListed
  BY DEF Init, Inherited, ReadableListed, Readable
<1> QED
  BY <1>1, <1>2, <1>3 DEF Inv

-----------------------------------------------------------------------------
(* Each action keeps the invariant. *)

LEMMA CreateKeeps ==
  ASSUME Inv, NEW t \in Timer, Create(t), polled' = {} PROVE Inv'
<1> USE DEF Inv, Create
<1>1. Typed'
  BY DisarmedIs, PollerAssumption DEF Typed
<1>2. Settled'
  <2> SUFFICES ASSUME NEW u \in Timer, timer'[u] = "alive"
               PROVE  LeftOf(asked'[u], setting'[u])
    BY DEF Settled
  <2>1. CASE u = t
    <3>1. asked'[u] = Disarmed /\ setting'[u] = ToITimerSpec(Disarmed)
      BY <2>1 DEF Typed
    <3> QED
      BY <3>1, DisarmedIs DEF LeftOf, Disarmed
  <2>2. CASE u # t
    BY <2>2 DEF Typed, Settled
  <2> QED
    BY <2>1, <2>2
<1>3. Inherited' /\ ReadableListed'
  BY DEF Typed, Inherited, ReadableListed, Readable
<1> QED
  BY <1>1, <1>2, <1>3

LEMMA SetKeeps ==
  ASSUME Inv, NEW t \in Timer, Set(t), polled' = {} PROVE Inv'
<1> USE DEF Inv
<1>1. PICK spec \in Specs[t] \cup {Disarmed} :
        /\ Valid(ToITimerSpec(spec))
        /\ setting' = [setting EXCEPT ![t] = ToITimerSpec(spec)]
        /\ asked' = [asked EXCEPT ![t] = spec]
  BY DEF Set
<1>2. /\ count' = [count EXCEPT ![t] = 0]
      /\ UNCHANGED <<timer, child, mask, ready>>
  BY DEF Set
<1>3. spec \in TimerSpec
  BY DisarmedIs, PollerAssumption
<1>4. ToITimerSpec(spec) \in Settings
  BY <1>1, <1>3, ValidIs
<1>5. Typed'
  BY <1>1, <1>2, <1>3, <1>4, PollerAssumption DEF Typed
<1>6. Settled'
  <2> SUFFICES ASSUME NEW u \in Timer, timer'[u] = "alive"
               PROVE  LeftOf(asked'[u], setting'[u])
    BY DEF Settled
  <2>1. CASE u = t
    <3>1. asked'[u] = spec /\ setting'[u] = ToITimerSpec(spec)
      BY <1>1, <2>1 DEF Typed
    <3>2. /\ spec.first_expiration \in Int /\ spec.interval \in Int
      BY <1>3 DEF TimerSpec
    <3>3. /\ FromTimeSpec(ToITimerSpec(spec).it_value)
               = spec.first_expiration
          /\ FromTimeSpec(ToITimerSpec(spec).it_interval) = spec.interval
      BY <3>2, Converted DEF ToITimerSpec
    <3> QED
      BY <3>1, <3>2, <3>3 DEF LeftOf
  <2>2. CASE u # t
    BY <1>1, <1>2, <2>2 DEF Typed, Settled
  <2> QED
    BY <2>1, <2>2
<1>7. Inherited' /\ ReadableListed'
  BY <1>2 DEF Typed, Inherited, ReadableListed, Readable
<1> QED
  BY <1>5, <1>6, <1>7

LEMMA GetTimerSpecKeeps ==
  ASSUME Inv, NEW t \in Timer, GetTimerSpec(t), polled' = {} PROVE Inv'
BY DEF Inv, GetTimerSpec, kernel, Typed, Settled, Inherited, ReadableListed,
       Readable

LEMMA WaitKeeps ==
  ASSUME Inv, NEW t \in Timer, Wait(t), Silent, polled' = {} PROVE Inv'
<1> USE DEF Inv, Wait, Silent
<1>1. Typed'
  BY PollerAssumption DEF Typed
<1>2. Settled' /\ Inherited'
  BY DEF Settled, Inherited
<1>3. ReadableListed'
  BY DEF Typed, ReadableListed, Readable
<1> QED
  BY <1>1, <1>2, <1>3

LEMMA ExpireKeeps ==
  ASSUME Inv, NEW t \in Timer, Expire(t), Silent, polled' = {} PROVE Inv'
<1> USE DEF Inv, Silent
<1>1. /\ count[t] \in 0..MaxCount /\ MaxCount \in Nat \ {0}
      /\ Least(count[t] + 1, MaxCount) \in 1..MaxCount
  BY PollerAssumption DEF Typed, Least
<1>2. /\ FromTimeSpec(setting[t].it_value) > 0
      /\ count' = [count EXCEPT ![t] = Least(count[t] + 1, MaxCount)]
      /\ setting' = [setting EXCEPT ![t].it_value = setting[t].it_interval]
      /\ UNCHANGED <<timer, child, mask, asked>>
  BY DEF Expire
<1>3. /\ ready' \in TimerList
      /\ \A u : On(ready, u) => On(ready', u)
      /\ mask[t] = "IN" => On(ready', t)
  BY LinkIs DEF Expire, Typed
<1>4. /\ setting[t] \in Settings
      /\ setting[t].it_interval \in TimeSpecs
      /\ setting[t].it_value \in TimeSpecs
  BY DEF Typed, Settings
<1>5. /\ setting'[t] \in Settings
      /\ setting'[t].it_interval = setting[t].it_interval
      /\ setting'[t].it_value = setting[t].it_interval
  BY <1>2, <1>4 DEF Typed, Settings
<1>6. \A u \in Timer : u # t =>
        setting'[u] = setting[u] /\ count'[u] = count[u]
  BY <1>2 DEF Typed
<1>7. count'[t] \in 1..MaxCount /\ count'[t] > 0
  BY <1>1, <1>2 DEF Typed
<1>8. Typed'
  <2>1. setting' \in [Timer -> Settings]
    <3>1. DOMAIN setting' = Timer /\ setting' = [u \in Timer |-> setting'[u]]
      BY <1>2 DEF Typed
    <3>2. \A u \in Timer : setting'[u] \in Settings
      BY <1>5, <1>6 DEF Typed
    <3> QED
      BY <3>1, <3>2
  <2>2. count' \in [Timer -> 0..MaxCount]
    BY <1>1, <1>2 DEF Typed
  <2> QED
    BY <1>2, <1>3, <2>1, <2>2 DEF Typed
<1>9. Settled'
  <2> SUFFICES ASSUME NEW u \in Timer, timer'[u] = "alive"
               PROVE  LeftOf(asked[u], setting'[u])
    BY <1>2 DEF Settled
  <2>1. CASE u = t
    <3>1. LeftOf(asked[t], setting[t])
      BY <1>2, <2>1 DEF Settled
    <3>2. /\ asked[t].first_expiration \in Int /\ asked[t].interval \in Int
          /\ FromTimeSpec(setting[t].it_value) \in Nat
      BY <1>4, ConvertedBack DEF Typed, TimerSpec
    <3>3. asked[t].first_expiration > 0
      BY <1>2, <3>1, <3>2 DEF LeftOf
    <3> QED
      BY <1>5, <2>1, <3>1, <3>2, <3>3 DEF LeftOf
  <2>2. CASE u # t
    BY <1>2, <1>6, <2>2 DEF Settled
  <2> QED
    BY <2>1, <2>2
<1>10. Inherited' /\ ReadableListed'
  BY <1>2, <1>3, <1>6, <1>7
     DEF Inherited, ReadableListed, Readable, Typed
<1> QED
  BY <1>8, <1>9, <1>10

(* The description is closed with the last descriptor of it. *)
LEMMA ClosedIs ==
  ASSUME Inv, NEW t \in Timer, Closed(t)
  PROVE  /\ setting' \in [Timer -> Settings]
         /\ count' \in [Timer -> 0..MaxCount] /\ count'[t] = 0
         /\ mask' \in [Timer -> EventMask \cup {"none"}]
         /\ mask'[t] = "none"
         /\ ready' \in TimerList
         /\ \A u \in Timer : u # t =>
              /\ setting'[u] = setting[u] /\ count'[u] = count[u]
              /\ mask'[u] = mask[u] /\ (On(ready, u) => On(ready', u))
<1>1. /\ ready' \in TimerList
      /\ \A u \in Timer : On(ready', u) <=> On(ready, u) /\ u \notin {t}
  BY WithoutIs DEF Closed, Inv, Typed
<1>2. /\ setting' = [setting EXCEPT ![t] = ToITimerSpec(Disarmed)]
      /\ count' = [count EXCEPT ![t] = 0]
      /\ mask' = [mask EXCEPT ![t] = "none"]
  BY DEF Closed
<1>3. /\ setting \in [Timer -> Settings] /\ count \in [Timer -> 0..MaxCount]
      /\ mask \in [Timer -> EventMask \cup {"none"}]
      /\ 0 \in 0..MaxCount
  BY PollerAssumption DEF Inv, Typed
<1>4. ToITimerSpec(Disarmed) \in Settings
  BY DisarmedIs
<1>5. setting' \in [Timer -> Settings]
  BY <1>2, <1>3, <1>4
<1>6. /\ count' \in [Timer -> 0..MaxCount] /\ count'[t] = 0
      /\ mask' \in [Timer -> EventMask \cup {"none"}] /\ mask'[t] = "none"
  BY <1>2, <1>3
<1>7. \A u \in Timer : u # t =>
        setting'[u] = setting[u] /\ count'[u] = count[u] /\ mask'[u] = mask[u]
  BY <1>2, <1>3
<1> QED
  BY <1>1, <1>5, <1>6, <1>7

LEMMA DestroyKeeps ==
  ASSUME Inv, NEW t \in Timer, Destroy(t), Silent, polled' = {} PROVE Inv'
<1> USE DEF Inv, Silent
<1>1. /\ timer' = [timer EXCEPT ![t] = "gone"]
      /\ UNCHANGED <<child, asked>>
  BY DEF Destroy
<1>2. /\ \A u \in Timer : timer'[u] = "alive" => u # t /\ timer[u] = "alive"
      /\ \A u \in Timer : timer'[u] # "alive" => u = t \/ timer[u] # "alive"
  BY <1>1 DEF Typed
<1>3. CASE t \in child
  <2>1. UNCHANGED <<setting, count, mask, ready>>
    BY <1>3 DEF Destroy, kernel
  <2>2. Typed'
    BY <1>1, <2>1 DEF Typed
  <2>3. Settled' /\ Inherited' /\ ReadableListed'
    BY <1>1, <1>2, <1>3, <2>1
       DEF Typed, Settled, Inherited, ReadableListed, Readable
  <2> QED
    BY <2>2, <2>3
<1>4. CASE t \notin child
  <2>1. Closed(t)
    BY <1>4 DEF Destroy
  <2>2. Typed'
    BY <1>1, <2>1, ClosedIs DEF Typed
  <2>3. Settled' /\ Inherited'
    BY <1>1, <1>2, <2>1, ClosedIs DEF Settled, Inherited
  <2>4. ReadableListed'
    BY <1>1, <1>2, <2>1, ClosedIs
       DEF Typed, ReadableListed, Readable
  <2> QED
    BY <2>2, <2>3, <2>4
<1> QED
  BY <1>3, <1>4

LEMMA SetTerminatesKeeps ==
  ASSUME Inv, NEW t \in Timer, SetTerminates(t), Silent, polled' = {}
  PROVE  Inv'
<1> USE DEF Inv, SetTerminates, Silent
<1>1. Typed'
  BY DisarmedIs, EmptyListed, PollerAssumption DEF Typed
<1>2. Settled' /\ Inherited'
  BY DEF Settled, Inherited
<1>3. ReadableListed'
  BY DEF ReadableListed, Readable
<1> QED
  BY <1>1, <1>2, <1>3

(* A timer that can be read afterwards was to be read before, or is on the  *)
(* list.                                                                   *)
LEMMA RegisterKeeps ==
  ASSUME Inv, NEW t \in Timer, NEW m \in EventMask,
         timer[t] = "alive", Register(t, m), Silent, polled' = {}
  PROVE  Inv'
<1> USE DEF Inv, Silent
<1>1. /\ mask' = [mask EXCEPT ![t] = m]
      /\ UNCHANGED <<timer, child, setting, count, asked>>
  BY DEF Register
<1>2. /\ ready' \in TimerList
      /\ \A u : On(ready, u) => On(ready', u)
      /\ m = "IN" /\ count[t] > 0 => On(ready', t)
  BY LinkIs DEF Register, Typed
<1>3. Typed'
  BY <1>1, <1>2 DEF Typed
<1>4. Settled' /\ Inherited'
  BY <1>1 DEF Typed, Settled, Inherited
<1>5. ReadableListed'
  BY <1>1, <1>2 DEF Typed, ReadableListed, Readable
<1> QED
  BY <1>3, <1>4, <1>5

LEMMA RemoveKeeps ==
  ASSUME Inv, NEW t \in Timer, Remove(t), Silent, polled' = {} PROVE Inv'
<1> USE DEF Inv, Silent
<1>1. /\ mask' = [mask EXCEPT ![t] = "none"]
      /\ UNCHANGED <<timer, child, setting, count, asked>>
  BY DEF Remove
<1>2. /\ ready' \in TimerList
      /\ \A u \in Timer : On(ready', u) <=> On(ready, u) /\ u \notin {t}
  BY WithoutIs DEF Remove, Typed
<1>3. Typed'
  BY <1>1, <1>2 DEF Typed
<1>4. Settled' /\ Inherited'
  BY <1>1 DEF Typed, Settled, Inherited
<1>5. ReadableListed'
  BY <1>1, <1>2 DEF Typed, ReadableListed, Readable
<1> QED
  BY <1>3, <1>4, <1>5

(* What epoll_wait reports is readable, all of it unless the span is too     *)
(* short, and each timer once.                                             *)
LEMMA ReportedTruly ==
  ASSUME Inv, NEW n \in Nat \ {0}
  PROVE  LET r == Reported(ready, n)
         IN  /\ Len(r) \in 0..n
             /\ \A i \in 1..Len(r) : r[i] \in ReadableTimers
             /\ Len(r) < n =>
                  \A t \in ReadableTimers : \E i \in 1..Len(r) : r[i] = t
             /\ \A i, j \in 1..Len(r) : r[i] = r[j] => i = j
<1> DEFINE r == Reported(ready, n)
           found == Filtered(ready, ReadableTimers)
<1>1. /\ Len(r) = Least(n, Len(found))
      /\ Len(r) \in Nat /\ Len(r) <= n /\ Len(r) <= Len(found)
      /\ \A i \in 1..Len(r) : r[i] = found[i]
  BY ReportedIs DEF Inv, Typed
<1>2. /\ found \in TimerList
      /\ \A t : On(found, t) <=> On(ready, t) /\ t \in ReadableTimers
  BY FilteredPositions DEF Inv, Typed
<1> HIDE DEF r, found
<1>3. /\ Len(found) \in Nat
      /\ \A i, j \in 1..Len(found) : found[i] = found[j] => i = j
  BY <1>2, ListIs
<1>4. \A i \in 1..Len(r) : r[i] \in ReadableTimers
  BY <1>1, <1>2, <1>3 DEF On
<1>5. ASSUME Len(r) < n, NEW t \in ReadableTimers
      PROVE  \E i \in 1..Len(r) : r[i] = t
  <2>1. Len(r) = Len(found)
    BY <1>1, <1>3, <1>5 DEF Least
  <2>2. On(found, t)
    BY <1>2 DEF Inv, ReadableListed, ReadableTimers
  <2> QED
    BY <1>1, <2>1, <2>2 DEF On
<1>6. \A i, j \in 1..Len(r) : r[i] = r[j] => i = j
  BY <1>1, <1>3
<1> QED
  BY <1>1, <1>4, <1>5, <1>6 DEF r

(* What TimedPoll returns: the first events of the span are what was        *)
(* reported, whatever the span has held.                                   *)
LEMMA TimedPollIs ==
  ASSUME NEW h \in Thread, NEW r, Len(r) \in 0..Span[h],
         \A i \in 1..Len(r) : r[i] \in Timer, TimedPoll(h, r)
  PROVE  \E new \in Events(h) :
           /\ polled' = {[by |-> h, number |-> Len(r), events |-> new]}
           /\ \A i \in 1..Len(r) : new[i] = r[i]
<1>1. PICK old \in Events(h) :
        polled' = {[by |-> h, number |-> Len(r), events |-> Filled(old, r)]}
  BY DEF TimedPoll
<1>2. Span[h] \in Nat
  BY PollerAssumption
<1>3. /\ DOMAIN old = 1..Span[h]
      /\ \A i \in 1..Span[h] : old[i] \in Timer \cup {"none"}
  BY DEF Events
<1>4. Filled(old, r) \in Events(h)
  BY <1>2, <1>3 DEF Filled, Events
<1>5. \A i \in 1..Len(r) : Filled(old, r)[i] = r[i]
  BY <1>2, <1>3 DEF Filled
<1> QED
  BY <1>1, <1>4, <1>5

(* Both polls put what they report at the end of the list. *)
LEMMA PolledKeeps ==
  ASSUME Inv, Silent, NEW h \in Thread,
         TimedPoll(h, Reported(ready, Span[h])),
         ready' = Requeue(ready, Reported(ready, Span[h]), Span[h]),
         UNCHANGED <<timer, child, setting, count, mask>>
  PROVE  Inv'
<1> USE DEF Inv, Silent
<1> DEFINE r == Reported(ready, Span[h])
<1>1. Span[h] \in Nat \ {0}
  BY PollerAssumption
<1>2. /\ ready' \in TimerList
      /\ \A t \in Timer : Readable(t) /\ On(ready, t) => On(ready', t)
  <2>1. /\ ready' \in TimerList
        /\ \A t \in ReadableTimers : On(ready, t) => On(ready', t)
    BY <1>1, RequeueIs DEF Typed
  <2> QED
    BY <2>1 DEF ReadableTimers
<1>3. \A p \in polled' :
        /\ p.by \in Thread
        /\ p.number \in 0..Span[p.by] /\ p.events \in Events(p.by)
  <2>1. Len(r) \in 0..Span[h] /\ \A i \in 1..Len(r) : r[i] \in Timer
    BY <1>1, ReportedTruly DEF ReadableTimers
  <2>2. TimedPoll(h, r)
    OBVIOUS
  <2> HIDE DEF r
  <2>3. PICK new \in Events(h) :
          polled' = {[by |-> h, number |-> Len(r), events |-> new]}
    BY <2>1, <2>2, TimedPollIs
  <2> QED
    BY <2>1, <2>3
<1>4. Typed'
  BY <1>2, <1>3 DEF Typed, Events
<1>5. Settled' /\ Inherited'
  BY DEF Settled, Inherited
<1>6. ReadableListed'
  BY <1>2 DEF ReadableListed, Readable
<1> QED
  BY <1>4, <1>5, <1>6

LEMMA PollKeeps ==
  ASSUME Inv, NEW h \in Thread, Poll(h), Silent PROVE Inv'
BY PolledKeeps DEF Poll

LEMMA PollNothingKeeps ==
  ASSUME Inv, NEW h \in Thread, PollNothing(h), Silent PROVE Inv'
BY PolledKeeps DEF PollNothing

LEMMA CloneKeeps ==
  ASSUME Inv, Clone, Silent, polled' = {} PROVE Inv'
BY DEF Inv, Clone, Silent, kernel, Typed, Settled, Inherited, ReadableListed,
       Readable

LEMMA ChildExitsKeeps ==
  ASSUME Inv, ChildExits, Silent, polled' = {} PROVE Inv'
<1> DEFINE last == {t \in child : timer[t] # "alive"}
<1> USE DEF Inv, Silent
<1>1. /\ child' = {}
      /\ setting' = [t \in Timer |->
           IF t \in last THEN ToITimerSpec(Disarmed) ELSE setting[t]]
      /\ count' = [t \in Timer |-> IF t \in last THEN 0 ELSE count[t]]
      /\ mask' = [t \in Timer |-> IF t \in last THEN "none" ELSE mask[t]]
      /\ UNCHANGED <<timer, asked>>
  BY DEF ChildExits
<1>2. /\ ready' \in TimerList
      /\ \A t \in Timer : On(ready', t) <=> On(ready, t) /\ t \notin last
  BY WithoutIs DEF ChildExits, Typed
<1>3. \A t \in Timer : timer[t] = "alive" => t \notin last
  OBVIOUS
<1>4. \A t \in Timer :
        timer[t] # "alive" /\ mask[t] # "none" => t \in last
  BY DEF Inherited
<1> HIDE DEF last
<1>5. Typed'
  BY <1>1, <1>2, DisarmedIs, PollerAssumption DEF Typed
<1>6. Settled' /\ Inherited'
  BY <1>1, <1>3, <1>4 DEF Settled, Inherited
<1>7. ReadableListed'
  BY <1>1, <1>2 DEF ReadableListed, Readable
<1> QED
  BY <1>5, <1>6, <1>7

LEMMA TimerStepKeeps ==
  ASSUME Inv, NEW t \in Timer, TimerStep(t), Silent, polled' = {} PROVE Inv'
<1>1. ASSUME NEW m \in EventMask, Add(t, m) \/ Update(t, m) PROVE Inv'
  BY <1>1, RegisterKeeps DEF Add, Update
<1> QED
  BY <1>1, WaitKeeps, ExpireKeeps, DestroyKeeps, RemoveKeeps,
     SetTerminatesKeeps DEF TimerStep

LEMMA NextKeeps ==
  ASSUME Inv, [Next]_vars PROVE Inv'
<1>1. CASE UNCHANGED vars
  BY <1>1 DEF vars, kernel, Inv, Typed, Settled, Inherited, ReadableListed,
              Readable
<1>2. ASSUME NEW t \in Timer, Create(t) \/ Set(t) \/ GetTimerSpec(t),
             polled' = {}
      PROVE  Inv'
  BY <1>2, CreateKeeps, SetKeeps, GetTimerSpecKeeps
<1>3. ASSUME NEW t \in Timer, TimerStep(t), Silent, polled' = {} PROVE Inv'
  BY <1>3, TimerStepKeeps
<1>4. ASSUME NEW h \in Thread, Poll(h) \/ PollNothing(h), Silent PROVE Inv'
  BY <1>4, PollKeeps, PollNothingKeeps
<1>5. CASE (Clone \/ ChildExits) /\ Silent /\ polled' = {}
  BY <1>5, CloneKeeps, ChildExitsKeeps
<1> QED
  BY <1>1, <1>2, <1>3, <1>4, <1>5 DEF Next

LEMMA AlwaysInv == Spec => []Inv
BY InitInv, NextKeeps, PTL DEF Spec

-----------------------------------------------------------------------------
(* The theorems. *)

(* The types of the state; the ready list of epoll has no timer twice, also *)
(* when add(), update() and an expiration find the timer on it, and every  *)
(* setting is one that timerfd_settime() accepts.                          *)
THEOREM TypeCorrect == Spec => []TypeOK
<1>1. Inv => TypeOK
  <2> SUFFICES ASSUME Typed PROVE TypeOK
    BY DEF Inv
  <2>1. \A t \in Timer : Valid(setting[t])
    BY SettingIsValid DEF Typed
  <2>2. ready \in Seq(Timer) /\ IsInjective(ready)
    BY ListIs DEF Typed, IsInjective
  <2> QED
    BY <2>1, <2>2 DEF Typed, TypeOK
<1> QED
  BY <1>1, AlwaysInv, PTL

(* What a poll returns is true at that moment, for every length of the span *)
(* and whatever it has held: the events are of readable timers, each once, *)
(* and of all of them if the span has room left.                           *)
THEOREM PollsReturnTheReady == Spec => PollsAreTrue
<1> DEFINE True(p) ==
      LET got == {p.events[i] : i \in 1..p.number}
          due == {t \in Timer : Readable(t)}
      IN  /\ got \subseteq due
          /\ p.number < Span[p.by] => got = due
          /\ IsInjective([i \in 1..p.number |-> p.events[i]])
<1>1. ASSUME Inv, NEW h \in Thread, TimedPoll(h, Reported(ready, Span[h])),
             NEW p \in polled'
      PROVE  True(p)
  <2> DEFINE r == Reported(ready, Span[h])
  <2>1. Span[h] \in Nat \ {0}
    BY PollerAssumption
  <2>2. /\ Len(r) \in 0..Span[h]
        /\ \A i \in 1..Len(r) : r[i] \in ReadableTimers
        /\ Len(r) < Span[h] =>
             \A t \in ReadableTimers : \E i \in 1..Len(r) : r[i] = t
        /\ \A i, j \in 1..Len(r) : r[i] = r[j] => i = j
    BY <1>1, <2>1, ReportedTruly
  <2>3. TimedPoll(h, r)
    BY <1>1
  <2> HIDE DEF r
  <2>4. PICK new \in Events(h) :
          /\ polled' = {[by |-> h, number |-> Len(r), events |-> new]}
          /\ \A i \in 1..Len(r) : new[i] = r[i]
    BY <2>2, <2>3, TimedPollIs DEF ReadableTimers
  <2>5. p = [by |-> h, number |-> Len(r), events |-> new]
    BY <1>1, <2>4
  <2>6. p.by = h /\ p.number = Len(r)
        /\ \A i \in 1..p.number : p.events[i] = r[i]
    BY <2>4, <2>5
  <2> DEFINE got == {p.events[i] : i \in 1..p.number}
  <2>7. got \subseteq ReadableTimers
    BY <2>2, <2>6
  <2>8. ASSUME Len(r) < Span[h] PROVE ReadableTimers \subseteq got
    BY <2>2, <2>6, <2>8
  <2>9. IsInjective([i \in 1..p.number |-> p.events[i]])
    BY <2>2, <2>6 DEF IsInjective
  <2>10. {t \in Timer : Readable(t)} = ReadableTimers
    BY DEF ReadableTimers
  <2>11. p.number < Span[p.by] => got = ReadableTimers
    <3> HIDE DEF got
    <3> QED
      BY <2>6, <2>7, <2>8
  <2> HIDE DEF got
  <2> QED
    BY <2>7, <2>9, <2>10, <2>11 DEF got
<1>2. ASSUME Inv, [Next]_vars PROVE [\A p \in polled' : True(p)]_vars
  <2>1. CASE polled' = {}
    BY <2>1
  <2>2. ASSUME NEW h \in Thread, Poll(h) \/ PollNothing(h)
        PROVE  \A p \in polled' : True(p)
    <3>1. TimedPoll(h, Reported(ready, Span[h]))
      BY <2>2 DEF Poll, PollNothing
    <3> QED
      BY <1>1, <1>2, <3>1
  <2> HIDE DEF True
  <2> QED
    BY <1>2, <2>1, <2>2 DEF Next
<1>3. Inv /\ [Next]_vars => [\A p \in polled' : True(p)]_vars
  BY <1>2
<1>4. Spec => [][\A p \in polled' : True(p)]_vars
  BY <1>3, AlwaysInv, PTL DEF Spec
<1> QED
  BY <1>4, PTL DEF PollsAreTrue

(* No timer that can be read is missing from the list that epoll_wait looks *)
(* at, whatever add(), update(), remove(), the polls of several threads and *)
(* the end of a child do to the list: what NoneStarves needs of safety.    *)
THEOREM NoneForgotten == Spec => []ReadableListed
<1>1. Inv => ReadableListed
  BY DEF Inv
<1> QED
  BY <1>1, AlwaysInv, PTL

(* The destructor of a timer ends its events, unless Execute has cloned a   *)
(* child that still has its descriptor.                                    *)
THEOREM DestroyedEnds == Spec => DestroyedIsSilent
<1> DEFINE Ends ==
      \A t \in Timer : timer[t] = "gone" /\ Reports(t)' => t \in child
<1>1. ASSUME Inv, NEW h \in Thread, TimedPoll(h, Reported(ready, Span[h])),
             NEW t \in Timer, timer[t] = "gone", Reports(t)'
      PROVE  t \in child
  <2> DEFINE r == Reported(ready, Span[h])
  <2>1. Span[h] \in Nat \ {0}
    BY PollerAssumption
  <2>2. /\ Len(r) \in 0..Span[h]
        /\ \A i \in 1..Len(r) : r[i] \in ReadableTimers
    BY <1>1, <2>1, ReportedTruly
  <2>3. TimedPoll(h, r)
    BY <1>1
  <2> HIDE DEF r
  <2>4. PICK new \in Events(h) :
          /\ polled' = {[by |-> h, number |-> Len(r), events |-> new]}
          /\ \A i \in 1..Len(r) : new[i] = r[i]
    BY <2>2, <2>3, TimedPollIs DEF ReadableTimers
  <2>5. t \in ReadableTimers
    BY <1>1, <2>2, <2>4 DEF Reports
  <2> QED
    BY <1>1, <2>5 DEF ReadableTimers, Readable, Inv, Inherited
<1>2. ASSUME Inv, [Next]_vars PROVE [Ends]_vars
  <2>1. CASE polled' = {}
    BY <2>1 DEF Reports
  <2>2. ASSUME NEW h \in Thread, Poll(h) \/ PollNothing(h) PROVE Ends
    <3>1. TimedPoll(h, Reported(ready, Span[h]))
      BY <2>2 DEF Poll, PollNothing
    <3> QED
      BY <1>1, <1>2, <3>1
  <2> HIDE DEF Ends
  <2> QED
    BY <1>2, <2>1, <2>2 DEF Next
<1>3. Inv /\ [Next]_vars => [Ends]_vars
  BY <1>2
<1>4. Spec => [][Ends]_vars
  BY <1>3, AlwaysInv, PTL DEF Spec
<1> QED
  BY <1>4 DEF DestroyedIsSilent

(* What cancel(), set() and getTimerSpec() return of a timer that is alive. *)
LEMMA LeftIsLess ==
  ASSUME Inv, NEW t \in Timer, timer[t] = "alive", Return(t)
  PROVE  \E spec \in TimerSpec :
           /\ returned' = {<<t, spec>>}
           /\ Valid(ToITimerSpec(spec))
           /\ spec.interval = asked[t].interval
           /\ \/ spec.first_expiration <= asked[t].first_expiration
              \/ asked[t].first_expiration > 0
                 /\ spec.first_expiration <= asked[t].interval
<1> DEFINE v == FromTimeSpec(setting[t].it_value)
           i == FromTimeSpec(setting[t].it_interval)
<1>1. setting[t] \in Settings
  BY DEF Inv, Typed
<1>2. v \in Nat /\ i \in Nat
  BY <1>1, ConvertedBack DEF Settings
<1>3. PICK d \in 0..v :
        returned' =
          {<<t, FromITimerSpec([setting[t] EXCEPT !.it_value
                                  = ToTimeSpec(d)])>>}
  BY DEF Return
<1>4. /\ [setting[t] EXCEPT !.it_value = ToTimeSpec(d)].it_value
           = ToTimeSpec(d)
      /\ [setting[t] EXCEPT !.it_value = ToTimeSpec(d)].it_interval
           = setting[t].it_interval
  BY <1>1 DEF Settings
<1>5. d \in Nat /\ d <= v /\ FromTimeSpec(ToTimeSpec(d)) = d
  BY <1>2, <1>3, Converted
<1> DEFINE spec == [first_expiration |-> d, interval |-> i]
<1>6. returned' = {<<t, spec>>}
  BY <1>3, <1>4, <1>5 DEF FromITimerSpec
<1>7. LeftOf(asked[t], setting[t])
  BY DEF Inv, Settled
<1>8. /\ asked[t].first_expiration \in Int /\ asked[t].interval \in Int
  BY DEF Inv, Typed, TimerSpec
<1>9. i = asked[t].interval
      /\ \/ v <= asked[t].first_expiration
         \/ asked[t].first_expiration > 0 /\ v <= asked[t].interval
  BY <1>7 DEF LeftOf
<1> HIDE DEF v, i
<1>10. spec \in TimerSpec /\ Valid(ToITimerSpec(spec))
  BY <1>2, <1>5, ValidIs DEF TimerSpec
<1>11. \/ d <= asked[t].first_expiration
       \/ asked[t].first_expiration > 0 /\ d <= asked[t].interval
  BY <1>2, <1>5, <1>8, <1>9
<1> QED
  BY <1>6, <1>9, <1>10, <1>11

(* cancel(), set() and getTimerSpec() return the interval that was asked    *)
(* for and no more time than was asked for, for every number of            *)
(* nanoseconds a second may have and every TimerSpec: what they return can *)
(* be set again.                                                           *)
THEOREM ReturnsAreLeft == Spec => ReturnsWhatIsLeft
<1> DEFINE Left ==
      \A t \in Timer, spec \in {r[2] : r \in returned'} :
        <<t, spec>> \in returned' =>
          /\ Valid(ToITimerSpec(spec))
          /\ spec.interval = asked[t].interval
          /\ \/ spec.first_expiration <= asked[t].first_expiration
             \/ asked[t].first_expiration > 0
                /\ spec.first_expiration <= asked[t].interval
<1>1. ASSUME Inv, [Next]_vars PROVE [Left]_vars
  <2>1. CASE returned' = {}
    BY <2>1
  <2>2. ASSUME NEW t \in Timer, timer[t] = "alive", Return(t) PROVE Left
    BY <1>1, <2>2, LeftIsLess
  <2> QED
    BY <1>1, <2>1, <2>2 DEF Next, Silent, Create, Set, GetTimerSpec
<1>2. Inv /\ [Next]_vars => [Left]_vars
  BY <1>1
<1>3. Spec => [][Left]_vars
  BY <1>2, AlwaysInv, PTL DEF Spec
<1> QED
  BY <1>3, PTL DEF ReturnsWhatIsLeft
=============================================================================
