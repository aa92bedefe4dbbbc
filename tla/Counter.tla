------------------------------- MODULE Counter -------------------------------
(***************************************************************************)
(* Counter.js over BaseMeter.js, with one of its moving averages           *)
(* (stats/ExponentiallyWeightedMovingAverage.js), of which the events      *)
(* between two ticks are modelled and not the decaying rate.  A number     *)
(* that an argument leaves out is 0, which JavaScript treats alike.        *)
(***************************************************************************)
EXTENDS Integers

CONSTANTS
  MAX_COUNTER_VALUE,  \* 2^32 in the code
  MaxEvents           \* bound on the amount of one call, in either direction
(* With an amount beyond MAX_COUNTER_VALUE + 1 the one subtraction of mark() *)
(* may leave the count above the maximum.                                    *)
ASSUME CounterAssumption == MAX_COUNTER_VALUE \in Nat \ {0} /\ MaxEvents \in 0 .. MAX_COUNTER_VALUE + 1

VARIABLES
  count,
  uncounted,  \* of the moving average: what the next tick will take
  ticked,     \* what its ticks took
  marked      \* the events of all calls
vars == <<count, uncounted, ticked, marked>>

Events == -MaxEvents .. MaxEvents
OrOne(n) == IF n = 0 THEN 1 ELSE n

Init == count = 0 /\ uncounted = 0 /\ ticked = 0 /\ marked = 0

(* Mutant of Wrapped: no look below zero. *)
WrappedAbove(n) == IF n > MAX_COUNTER_VALUE THEN n - (MAX_COUNTER_VALUE + 1) ELSE n

(* Beyond the maximum the count starts again at zero, below zero it stays  *)
(* at zero.                                                                *)
Wrapped(n) ==
  LET w == IF n > MAX_COUNTER_VALUE THEN n - (MAX_COUNTER_VALUE + 1) ELSE n
  IN IF w < 0 THEN 0 ELSE w

(* EWMA.update() *)
AverageUpdate(n) == uncounted' = uncounted + OrOne(n)

mark(n) ==
  /\ count' = Wrapped(count + OrOne(n))
  /\ AverageUpdate(OrOne(n))
  /\ marked' = marked + OrOne(n)
  /\ UNCHANGED ticked

(* Either may be given a negative amount. *)
inc(n) == mark(n)
dec(n) == mark(-OrOne(n))

clear == count' = 0 /\ UNCHANGED <<uncounted, ticked, marked>>

(* EWMA.tick(), by its timer. *)
tick ==
  /\ ticked' = ticked + uncounted /\ uncounted' = 0
  /\ UNCHANGED <<count, marked>>

Next == clear \/ tick \/ \E n \in Events : inc(n) \/ dec(n)
Spec == Init /\ [][Next]_vars
-----------------------------------------------------------------------------
(* Whatever the order of increments, decrements and clears, by amounts of  *)
(* either sign up to the maximum and one: the count can be stored, wraps   *)
(* round and never goes below zero.                                        *)
CountInRange == count \in 0 .. MAX_COUNTER_VALUE

(* Each event is in the moving average once, in a tick or still to come;   *)
(* clearing and wrapping the count take none away.                         *)
EventsAccounted == ticked + uncounted = marked

(* No order of calls and ticks loses or invents an event in the average or *)
(* leaves the range of the count.                                          *)
CounterSound == CountInRange /\ EventsAccounted
=============================================================================
