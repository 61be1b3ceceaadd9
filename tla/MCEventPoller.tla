--------------------------- MODULE MCEventPoller ---------------------------
(* A timer with an interval and one without, polled by a thread one event   *)
(* at a time and by another two.  Three nanoseconds are a second and a      *)
(* rest.                                                                   *)
EXTENDS EventPoller, TLC
CONSTANTS t1, t2, h1, h2

Asked(first, interval) == [first_expiration |-> first, interval |-> interval]

MCSpecs ==
  (t1 :> {Asked(3, 1), Asked(0, -1)}) @@ (t2 :> {Asked(1, 0), Asked(0, 1)})

MCSpan == (h1 :> 1) @@ (h2 :> 2)
=============================================================================
