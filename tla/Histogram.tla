------------------------------ MODULE Histogram ------------------------------
(***************************************************************************)
(* Timer.js over Histogram.js over a sample.  Replacing any value, or none, *)
(* is what UniformSample.js does and, but for the order of the values,     *)
(* ExponentiallyDecayingSample.js too.  Means are scaled by Scale and sums *)
(* of squares by its square, which keeps the divisions exact.              *)
(***************************************************************************)
EXTENDS Integers, SequencesExt

CONSTANTS
  Durations,    \* what update() is called with, beside NaN
  Limit,        \* size of the sample
  MaxCount,     \* bound on the updates between two clears
  MaxMarks,     \* bound on all updates
  Scale,        \* a multiple of 1 .. MaxCount
  Percentiles, Parts  \* percentiles p / Parts
HistogramAssumption ==
  /\ Durations \subseteq Nat /\ {Limit, Parts, Scale, MaxCount} \subseteq Nat \ {0}
  /\ \A n \in 1 .. MaxCount : Scale % n = 0
  /\ Percentiles \subseteq 1 .. Parts - 1 /\ MaxMarks \in Nat

NaN == -1   \* a duration that was measured from no start
null == -2

VARIABLES
  count, min, max, sum, varianceM, varianceS,
  values,  \* the sample
  marks,   \* BaseMeter's count
  seen     \* the updates since the last clear
vars == <<count, min, max, sum, varianceM, varianceS, values, marks, seen>>

(* Timer's constructor; the clear() in it changes nothing. *)
Init ==
  /\ count = 0 /\ min = null /\ max = null /\ sum = null
  /\ varianceM = null /\ varianceS = null
  /\ values = <<>> /\ marks = 0 /\ seen = <<>>

Room == Len(values) < Limit

SampleUpdate(val) ==
  IF Room THEN values' = Append(values, val)
  ELSE \E rand \in 0 .. count :
         values' = IF rand < Limit THEN [values EXCEPT ![rand + 1] = val] ELSE values

(* NaN compares as neither more nor less. *)
Least(old, val) == IF old = null \/ (NaN \notin {old, val} /\ val < old) THEN val ELSE old
Greatest(old, val) == IF old = null \/ (NaN \notin {old, val} /\ val > old) THEN val ELSE old

OrZero(x) == IF x = null THEN 0 ELSE x

(* Mutant of Deviation: from the new mean both times. *)
DeviationOfNew(x, m) == (x - m) * (x - m)

Deviation(x, m) == (x - varianceM) * (x - m)

(* Welford's running mean and sum of squares. *)
updateVariance(val) ==
  IF count = 0
  THEN varianceM' = (IF val = NaN THEN NaN ELSE Scale * val) /\ UNCHANGED varianceS
  ELSE IF NaN \in {varianceM, val} THEN varianceM' = NaN /\ varianceS' = NaN
  ELSE LET x == Scale * val
           m == varianceM + (x - varianceM) \div (count + 1)
       IN varianceM' = m /\ varianceS' = OrZero(varianceS) + Deviation(x, m)

(* Timer.update(): the histogram and then mark(). *)
update(val) ==
  /\ count < MaxCount /\ marks < MaxMarks
  /\ count' = count + 1 /\ SampleUpdate(val)
  /\ max' = Greatest(max, val) /\ min' = Least(min, val)
  /\ sum' = IF NaN \in {sum, val} THEN NaN ELSE OrZero(sum) + val
  /\ updateVariance(val)
  /\ marks' = marks + 1 /\ seen' = Append(seen, val)

(* Timer.clear(): the histogram and its sample, and not the meter.  *)
clear ==
  /\ count' = 0 /\ min' = null /\ max' = null /\ sum' = null
  /\ varianceM' = null /\ varianceS' = null /\ values' = <<>> /\ seen' = <<>>
  /\ UNCHANGED marks

Next == clear \/ \E val \in Durations \cup {NaN} : update(val)
Spec == Init /\ [][Next]_vars
-----------------------------------------------------------------------------

Position(p, n) == p * (n + 1)

(* Of the values in order, the n-th. *)
Ranked(n) ==
  CHOOSE v \in ToSet(values) :
    /\ Cardinality({i \in DOMAIN values : values[i] < v}) < n
    /\ n <= Cardinality({i \in DOMAIN values : values[i] <= v})

(* percentiles() of p / Parts, scaled by Parts.  Interpolated at a place   *)
(* between two values of the sorted sample.                                *)
percentile(p) ==
  LET n == Len(values)  pos == Position(p, n)  f == pos \div Parts IN
  IF pos < Parts THEN Parts * Ranked(1)
  ELSE IF pos >= n * Parts THEN Parts * Ranked(n)
  ELSE Parts * Ranked(f) + (pos % Parts) * (Ranked(f + 1) - Ranked(f))

mean == IF count = 0 THEN null ELSE varianceM
-----------------------------------------------------------------------------
Occurrences(s, v) == Cardinality({i \in DOMAIN s : s[i] = v})
Sum(s) ==
  LET upTo[n \in 0 .. Len(s)] == IF n = 0 THEN 0 ELSE upTo[n - 1] + s[n]
  IN upTo[Len(s)]

(* The running figures are those a second pass over all updates would      *)
(* give: no update is lost, none is left over from before a clear().       *)
RunningFigures ==
  NaN \notin ToSet(seen) /\ seen # <<>> =>
    LET n == Len(seen)
        total == Sum(seen)
        squares == Sum([i \in 1 .. n |-> seen[i] * seen[i]])
    IN /\ sum = total /\ mean * n = Scale * total
       /\ n > 1 => varianceS * n = Scale * Scale * (n * squares - total * total)

(* A NaN that is the first since a clear() stays the minimum and maximum   *)
(* for good; a later one leaves both those of the real durations.          *)
Extremes ==
  seen # <<>> =>
    IF seen[1] = NaN THEN min = NaN /\ max = NaN
    ELSE /\ {min, max} \subseteq ToSet(seen) \ {NaN}
         /\ \A x \in ToSet(seen) \ {NaN} : min <= x /\ x <= max

(* The sample has as many values as fit, all of them updates since the     *)
(* last clear(), and each no more often than it came.                      *)
Sampled ==
  /\ Len(values) = (IF count < Limit THEN count ELSE Limit)
  /\ \A v \in ToSet(values) : Occurrences(values, v) <= Occurrences(seen, v)
  /\ count = Len(seen) /\ count <= marks

(* A percentile splits the sample where it should, lies inside of it and   *)
(* grows with p, also at the ends and on equal values.                     *)
PercentilesSplit ==
  values # <<>> /\ NaN \notin ToSet(values) =>
    \A p \in Percentiles :
      LET n == Len(values)
          below == Cardinality({i \in 1 .. n : Parts * values[i] < percentile(p)})
          upTo == Cardinality({i \in 1 .. n : Parts * values[i] <= percentile(p)})
      IN /\ below * Parts <= p * (n + 1) /\ p * (n + 1) < (upTo + 1) * Parts
         /\ below < n /\ upTo > 0
         /\ \A q \in Percentiles : p < q => percentile(p) <= percentile(q)

(* All of a timer's figures are those of the updates since its last clear. *)
FiguresSound == RunningFigures /\ Extremes /\ Sampled /\ PercentilesSplit
=============================================================================
