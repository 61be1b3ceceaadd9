---------------------------- MODULE EventPoller ----------------------------
(***************************************************************************)
(* sex::util::EventPoller (event_poller.hpp) over timers (timer_fd.hpp),   *)
(* which threads set, wait for and poll, as tests/event_poller.cpp does.   *)
(* The cookie of a timer is the timer.                                     *)
(*                                                                         *)
(* epoll registers open file descriptions, not numbers: a process that     *)
(* Execute has cloned meanwhile keeps the description of a timer, and its  *)
(* registration, after the program has destroyed it.                       *)
(***************************************************************************)
EXTENDS Integers, Sequences, Functions

CONSTANTS Timer, Thread,
          Specs,      \* the TimerSpecs that the program asks of each timer
          Nano,       \* the nanoseconds of a second
          Span,       \* the length of the span that each thread polls into
          MaxCount    \* bound: more expirations are not told apart

(* Durations are numbers of nanoseconds, negative ones too. *)
TimerSpec == [first_expiration : Int, interval : Int]

ASSUME PollerAssumption ==
  /\ Span \in [Thread -> Nat \ {0}]
  /\ MaxCount \in Nat \ {0} /\ Nano \in Nat \ {0}
  /\ Specs \in [Timer -> SUBSET TimerSpec]

(* The masks that a timer can have; it is never ready for OUT. *)
EventMask == {"EMPTY", "IN"}

(* / and % of C++ round towards zero. *)
ToTimeSpec(d) ==
  LET abs == IF d < 0 THEN - d ELSE d
      sign == IF d < 0 THEN -1 ELSE 1
  IN  [tv_sec |-> sign * (abs \div Nano), tv_nsec |-> sign * (abs % Nano)]

FromTimeSpec(ts) == ts.tv_nsec + ts.tv_sec * Nano

ToITimerSpec(spec) ==
  [it_interval |-> ToTimeSpec(spec.interval),
   it_value |-> ToTimeSpec(spec.first_expiration)]

(* Mutant: the fields in the order of the kernel's structure. *)
FromITimerSpecSwapped(its) ==
  [first_expiration |-> FromTimeSpec(its.it_interval),
   interval |-> FromTimeSpec(its.it_value)]

FromITimerSpec(its) ==
  [first_expiration |-> FromTimeSpec(its.it_value),
   interval |-> FromTimeSpec(its.it_interval)]

(* timerfd_settime() answers EINVAL to anything else. *)
Valid(its) ==
  \A ts \in {its.it_value, its.it_interval} :
    ts.tv_sec >= 0 /\ ts.tv_nsec \in 0..Nano - 1

Disarmed == [first_expiration |-> 0, interval |-> 0]

VARIABLES
  timer,     \* of each timer: absent, alive, gone
  child,     \* the timers whose description a cloned process has
  setting,   \* kernel: the next expiration, as it was set, and the interval
  count,     \* kernel: the expirations that nobody has read
  mask,      \* kernel: none (not registered), EMPTY or IN
  ready,     \* kernel: the list of the descriptions that may have events
  polled,    \* what the last step has returned, if it was a poll
  asked,     \* history: the last TimerSpec that was asked of each timer
  returned   \* what the last step has returned: a timer and its TimerSpec

kernel == <<setting, count, mask, ready>>
vars == <<timer, child, kernel, polled, asked, returned>>

Init ==
  /\ timer = [t \in Timer |-> "absent"]
  /\ child = {}
  /\ setting = [t \in Timer |-> ToITimerSpec(Disarmed)]
  /\ count = [t \in Timer |-> 0]
  /\ mask = [t \in Timer |-> "none"]
  /\ ready = <<>>
  /\ polled = {}
  /\ asked = [t \in Timer |-> Disarmed]
  /\ returned = {}

Least(a, b) == IF a <= b THEN a ELSE b

(* The elements of a list that are in S, in their order: SelectSeq, written *)
(* out for the proofs.                                                     *)
Filtered(list, S) ==
  LET first[n \in 0..Len(list)] ==
        IF n = 0 THEN <<>>
        ELSE IF list[n] \in S THEN Append(first[n - 1], list[n])
        ELSE first[n - 1]
  IN  first[Len(list)]

Without(T) == Filtered(ready, Timer \ T)

Link(t) == IF t \in Range(ready) THEN ready ELSE Append(ready, t)

-----------------------------------------------------------------------------
(* TimerFd. *)

Create(t) ==
  /\ timer[t] # "alive" /\ t \notin child
  /\ timer' = [timer EXCEPT ![t] = "alive"]
  /\ setting' = [setting EXCEPT ![t] = ToITimerSpec(Disarmed)]
  /\ count' = [count EXCEPT ![t] = 0]
  /\ asked' = [asked EXCEPT ![t] = Disarmed]
  /\ returned' = {}
  /\ UNCHANGED <<child, mask, ready>>

(* What is left of the time to the next expiration, when it may be due, and *)
(* the interval.                                                           *)
Return(t) ==
  \E d \in 0..FromTimeSpec(setting[t].it_value) :
    LET prev == [setting[t] EXCEPT !.it_value = ToTimeSpec(d)]
    IN  returned' = {<<t, FromITimerSpec(prev)>>}

(* set() and cancel(): a first expiration of zero disarms, whatever the     *)
(* interval is, and the expirations of before are gone.                    *)
Set(t) ==
  /\ timer[t] = "alive"
  /\ \E spec \in Specs[t] \cup {Disarmed} :
       /\ Valid(ToITimerSpec(spec))
       /\ setting' = [setting EXCEPT ![t] = ToITimerSpec(spec)]
       /\ asked' = [asked EXCEPT ![t] = spec]
  /\ count' = [count EXCEPT ![t] = 0]
  /\ Return(t)
  /\ UNCHANGED <<timer, child, mask, ready>>

GetTimerSpec(t) ==
  /\ timer[t] = "alive"
  /\ Return(t)
  /\ UNCHANGED <<timer, child, kernel, asked>>

(* wait(), when it does not block or return 0. *)
Wait(t) ==
  /\ timer[t] = "alive" /\ count[t] > 0
  /\ count' = [count EXCEPT ![t] = 0]
  /\ UNCHANGED <<timer, child, setting, mask, ready>>

Expire(t) ==
  /\ FromTimeSpec(setting[t].it_value) > 0
  /\ count' = [count EXCEPT ![t] = Least(@ + 1, MaxCount)]
  /\ setting' = [setting EXCEPT ![t].it_value = setting[t].it_interval]
  /\ ready' = IF mask[t] = "IN" THEN Link(t) ELSE ready
  /\ UNCHANGED <<timer, child, mask>>

(* The last descriptor takes the description with it, and its registration. *)
Closed(t) ==
  /\ setting' = [setting EXCEPT ![t] = ToITimerSpec(Disarmed)]
  /\ count' = [count EXCEPT ![t] = 0]
  /\ mask' = [mask EXCEPT ![t] = "none"]
  /\ ready' = Without({t})

(* Mutant: a holder that does not close what it holds. *)
DestroyLeaks(t) ==
  /\ timer[t] = "alive"
  /\ timer' = [timer EXCEPT ![t] = "gone"]
  /\ UNCHANGED <<child, kernel>>

Destroy(t) ==
  /\ timer[t] = "alive"
  /\ timer' = [timer EXCEPT ![t] = "gone"]
  /\ IF t \in child THEN UNCHANGED kernel ELSE Closed(t)
  /\ UNCHANGED child

(* An invalid TimerSpec: ensure() throws in the noexcept set(), the program *)
(* ends, and a new run of it begins with a poller of its own.              *)
SetTerminates(t) ==
  LET last == Timer \ child
  IN  /\ timer[t] = "alive"
      /\ \E spec \in Specs[t] : ~ Valid(ToITimerSpec(spec))
      /\ timer' = [u \in Timer |-> "gone"]
      /\ setting' = [u \in Timer |->
           IF u \in last THEN ToITimerSpec(Disarmed) ELSE setting[u]]
      /\ count' = [u \in Timer |-> IF u \in last THEN 0 ELSE count[u]]
      /\ mask' = [u \in Timer |-> "none"]
      /\ ready' = <<>>
      /\ UNCHANGED child

-----------------------------------------------------------------------------
(* EventPoller. *)

(* Mutant: another registration for every change of the mask. *)
RegisterAgain(t, m) ==
  /\ mask' = [mask EXCEPT ![t] = m]
  /\ ready' = IF m = "IN" /\ count[t] > 0 THEN Append(ready, t) ELSE ready
  /\ UNCHANGED <<timer, child, setting, count>>

Register(t, m) ==
  /\ mask' = [mask EXCEPT ![t] = m]
  /\ ready' = IF m = "IN" /\ count[t] > 0 THEN Link(t) ELSE ready
  /\ UNCHANGED <<timer, child, setting, count>>

Add(t, m) == timer[t] = "alive" /\ mask[t] = "none" /\ Register(t, m)
Update(t, m) == timer[t] = "alive" /\ mask[t] # "none" /\ Register(t, m)

Remove(t) ==
  /\ timer[t] = "alive" /\ mask[t] # "none"
  /\ mask' = [mask EXCEPT ![t] = "none"]
  /\ ready' = Without({t})
  /\ UNCHANGED <<timer, child, setting, count>>

Readable(t) == mask[t] = "IN" /\ count[t] > 0

(* epoll_wait looks at the list from its head until it has n events, and    *)
(* drops what it finds without events.                                     *)
Reported(list, n) ==
  LET found == Filtered(list, {t \in Timer : Readable(t)})
  IN  SubSeq(found, 1, Least(n, Len(found)))

Unseen(list, reported, n) ==
  IF Len(reported) < n THEN <<>>
  ELSE LET k == CHOOSE i \in 1..Len(list) : list[i] = reported[n]
       IN  SubSeq(list, k + 1, Len(list))

(* Level triggered: what was reported goes to the end of the list. *)
Requeue(list, reported, n) == Unseen(list, reported, n) \o reported

(* What the caller's span may hold: the events of earlier polls. *)
Events(h) == [1..Span[h] -> Timer \cup {"none"}]

(* Mutant: the loop ends before the last of them. *)
FilledShort(old, reported) ==
  [i \in DOMAIN old |-> IF i < Len(reported) THEN reported[i] ELSE old[i]]

(* The loop of TimedPoll writes the first events of the span and leaves the *)
(* others as they are.                                                     *)
Filled(old, reported) ==
  [i \in DOMAIN old |-> IF i <= Len(reported) THEN reported[i] ELSE old[i]]

TimedPoll(h, reported) ==
  \E old \in Events(h) :
    polled' = {[by |-> h, number |-> Len(reported),
                events |-> Filled(old, reported)]}

(* Mutant: epoll_wait is asked for everything, and what the span has no     *)
(* room for is dropped.                                                    *)
PollDrops(h) ==
  LET reported == Reported(ready, Span[h])
  IN  /\ reported # <<>>
      /\ TimedPoll(h, reported)
      /\ ready' = Filtered(ready, {t \in Timer : Readable(t)})
      /\ UNCHANGED <<timer, child, setting, count, mask>>

(* Poll returns with events; PollNoWait and TimedPoll also without any. *)
Poll(h) ==
  LET reported == Reported(ready, Span[h])
  IN  /\ reported # <<>>
      /\ TimedPoll(h, reported)
      /\ ready' = Requeue(ready, reported, Span[h])
      /\ UNCHANGED <<timer, child, setting, count, mask>>

PollNothing(h) ==
  /\ Reported(ready, Span[h]) = <<>>
  /\ TimedPoll(h, <<>>)
  /\ ready' = Requeue(ready, <<>>, Span[h])
  /\ UNCHANGED <<timer, child, setting, count, mask>>

-----------------------------------------------------------------------------
(* Another thread's Execute, and the end of its child. *)
Clone ==
  /\ child = {}
  /\ child' = {t \in Timer : timer[t] = "alive"}
  /\ UNCHANGED <<timer, kernel>>

ChildExits ==
  LET last == {t \in child : timer[t] # "alive"}
  IN  /\ child # {}
      /\ child' = {}
      /\ setting' = [t \in Timer |->
           IF t \in last THEN ToITimerSpec(Disarmed) ELSE setting[t]]
      /\ count' = [t \in Timer |-> IF t \in last THEN 0 ELSE count[t]]
      /\ mask' = [t \in Timer |-> IF t \in last THEN "none" ELSE mask[t]]
      /\ ready' = Without(last)
      /\ UNCHANGED timer

TimerStep(t) ==
  \/ Wait(t) \/ Expire(t) \/ Destroy(t) \/ Remove(t) \/ SetTerminates(t)
  \/ \E m \in EventMask : Add(t, m) \/ Update(t, m)

Silent == returned' = {} /\ UNCHANGED asked

Next ==
  \/ /\ \E t \in Timer : Create(t) \/ Set(t) \/ GetTimerSpec(t)
     /\ polled' = {}
  \/ /\ (\E t \in Timer : TimerStep(t)) \/ Clone \/ ChildExits
     /\ Silent
     /\ polled' = {}
  \/ /\ \E h \in Thread : Poll(h) \/ PollNothing(h)
     /\ Silent

Spec == Init /\ [][Next]_vars

(* The threads of a program poll for ever. *)
FairSpec == Spec /\ WF_vars((\E h \in Thread : Poll(h)) /\ Silent)
-----------------------------------------------------------------------------
(* Properties. *)

TypeOK ==
  /\ timer \in [Timer -> {"absent", "alive", "gone"}]
  /\ child \subseteq Timer
  /\ \A t \in Timer : Valid(setting[t])
  /\ count \in [Timer -> 0..MaxCount]
  /\ mask \in [Timer -> EventMask \cup {"none"}]
  /\ ready \in Seq(Timer) /\ IsInjective(ready)
  /\ \A p \in polled :
       /\ p.by \in Thread
       /\ p.number \in 0..Span[p.by] /\ p.events \in Events(p.by)
  /\ asked \in [Timer -> TimerSpec]

(* What cancel(), set() and getTimerSpec() return: the interval that was    *)
(* asked for, and no more than the time to the first expiration, or to the *)
(* next (tests/timer_fd.cpp:56-60).  To set it again never ends the        *)
(* program, and never arms what was disarmed.                              *)
ReturnsWhatIsLeft ==
  [][\A t \in Timer, spec \in {r[2] : r \in returned'} :
       <<t, spec>> \in returned' =>
         /\ Valid(ToITimerSpec(spec))
         /\ spec.interval = asked[t].interval
         /\ \/ spec.first_expiration <= asked[t].first_expiration
            \/ asked[t].first_expiration > 0
               /\ spec.first_expiration <= asked[t].interval]_vars

(* What a poll returns is true when it returns, whatever several threads    *)
(* have registered, set, read and polled before: the events of the span up *)
(* to the number that it returns are of timers for which wait() does not   *)
(* block then, each once, not of an earlier poll, and of all of them unless *)
(* the span is too short.  The loop of tests/event_poller.cpp relies on it. *)
PollsAreTrue ==
  [][\A p \in polled' :
       LET got == {p.events[i] : i \in 1..p.number}
           due == {t \in Timer : Readable(t)}
       IN  /\ got \subseteq due
           /\ p.number < Span[p.by] => got = due
           /\ IsInjective([i \in 1..p.number |-> p.events[i]])]_vars

(* The last step has reported the timer. *)
Reports(t) == \E p \in polled : \E i \in 1..p.number : p.events[i] = t

(* The event of a timer that was destroyed is reported only as long as a    *)
(* child that inherited its descriptor lives.                              *)
DestroyedIsSilent ==
  [][\A t \in Timer :
       timer[t] = "gone" /\ Reports(t)' => t \in child]_vars

(* Every expired timer is reported, also by a span that is shorter than the *)
(* number of those that are ready all the time.                            *)
NoneStarves ==
  \A t \in Timer : Readable(t) ~> ~ Readable(t) \/ Reports(t)
=============================================================================
