-------------------- MODULE ExponentiallyDecayingSample --------------------
(***************************************************************************)
(* stats/ExponentiallyDecayingSample.js.  A weight exp(alpha * t) is       *)
(* represented by its exponent, time counted in units of 1/alpha; outside  *)
(* -MinExp .. MaxExp the floating point number is zero or infinite.  In the *)
(* code rescaling is due every 54 units, and the exponents end near 709    *)
(* and -745.                                                               *)
(***************************************************************************)
EXTENDS BinaryHeap

CONSTANTS
  Limit,                  \* the size of the sample
  Threshold,              \* RESCALE_THRESHOLD
  MinExp, MaxExp,         \* range of the exponents
  MaxRandom,              \* 1 / Math.random() has exponents 0 .. MaxRandom
  MaxTime, MaxIdle,       \* bounds on the time, and between two updates
  MaxUpdates
SampleAssumption ==
  /\ {Limit, Threshold} \subseteq Nat \ {0}
  /\ {MinExp, MaxExp, MaxRandom, MaxTime, MaxIdle, MaxUpdates} \subseteq Nat

VARIABLES
  now, startTime, nextScaleTime,
  count, values,  \* the heap's content
  offered,        \* what was updated since clear(): the exact priorities
  last            \* when
vars == <<now, startTime, nextScaleTime, count, values, offered, last>>

Infinity == NaN - 1
Zero == -NaN

(* The number with exponent e. *)
Number(e) == IF e > MaxExp THEN Infinity ELSE IF e < -MinExp THEN Zero ELSE e

(* Times the number with exponent d. *)
Times(p, d) ==
  CASE p = NaN \/ {p, Number(d)} = {Infinity, Zero} -> NaN
    [] Zero \in {p, Number(d)} -> Zero
    [] p = Infinity -> Infinity
    [] OTHER -> Number(p + d)

Init ==
  /\ now = 0 /\ startTime = 0 /\ nextScaleTime = Threshold
  /\ count = 0 /\ values = <<>> /\ offered = <<>> /\ last = 0

clear ==
  /\ values' = <<>> /\ count' = 0 /\ startTime' = now /\ nextScaleTime' = now + Threshold
  /\ offered' = <<>> /\ last' = now /\ UNCHANGED now

(* The sample after an item was offered to it. *)
Taken(item) ==
  IF count < Limit THEN push(values, item)
  ELSE IF Less(values[1], item) THEN pop(push(values, item)) ELSE values

Rescaled(s) ==
  [i \in DOMAIN s |-> [s[i] EXCEPT !.priority = Times(@, startTime - now)]]

(* Mutant of rescale: the new start time is forgotten. *)
rescaleFromOldStart(s) ==
  IF now > nextScaleTime
  THEN values' = Rescaled(s) /\ nextScaleTime' = now + Threshold /\ UNCHANGED startTime
  ELSE values' = s /\ UNCHANGED <<startTime, nextScaleTime>>

rescale(s) ==
  IF now > nextScaleTime
  THEN values' = Rescaled(s) /\ startTime' = now /\ nextScaleTime' = now + Threshold
  ELSE values' = s /\ UNCHANGED <<startTime, nextScaleTime>>

(* update(): the weight is taken relative to the old start time, also when *)
(* rescaling is overdue.                                                   *)
update(r) ==
  LET n == Len(offered) + 1 IN
  /\ n <= MaxUpdates
  /\ rescale(Taken([val |-> n, priority |-> Times(Number(now - startTime), r)]))
  /\ count' = IF count < Limit THEN count + 1 ELSE count
  /\ offered' = Append(offered, now + r) /\ last' = now
  /\ UNCHANGED now

Pass ==
  /\ now < MaxTime /\ now - last < MaxIdle /\ now' = now + 1
  /\ UNCHANGED <<startTime, nextScaleTime, count, values, offered, last>>

Next == clear \/ Pass \/ \E r \in 0 .. MaxRandom : update(r)

Spec == Init /\ [][Next]_vars
-----------------------------------------------------------------------------
(* The sample has the items with the greatest priorities of all that were  *)
(* offered, however often the priorities were rescaled in between.         *)
KeepsGreatest ==
  LET kept == {values[i].val : i \in DOMAIN values} IN
  /\ Len(values) = count
  /\ \A i \in kept, j \in DOMAIN offered \ kept : offered[i] >= offered[j]

(* Rescaling leaves a heap: the next item to go is the least. *)
StaysHeap == Ordered(values)
=============================================================================
