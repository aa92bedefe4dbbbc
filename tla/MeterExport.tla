----------------------------- MODULE MeterExport -----------------------------
(***************************************************************************)
(* SimpleMeterRegistry.js and the conversion of its meters in              *)
(* MetricsExporter.js: what the tick of one snapshot stream sends.         *)
(***************************************************************************)
EXTENDS Integers, SequencesExt

CONSTANTS
  Kinds,       \* of meters: "timer", "counter", and "meter", which BaseMeter is by itself
  Durations,   \* in milliseconds
  NanosPerMs,  \* 10^6 in the code
  MaxMeters, MaxUpdates, MaxRequested
ExportAssumption ==
  /\ Kinds \subseteq {"timer", "counter", "meter"} /\ Durations \subseteq Nat
  /\ NanosPerMs \in Nat \ {0} /\ {MaxMeters, MaxUpdates, MaxRequested} \subseteq Nat

VARIABLES
  meters,     \* the registry: meterMap's keys are objects, so it has one key and one list
  pending,    \* snapshots asked for
  requested, sent,
  snapshot    \* the last one
vars == <<meters, pending, requested, sent, snapshot>>

Init == meters = <<>> /\ pending = 0 /\ requested = 0 /\ sent = 0 /\ snapshot = {}

registerMeter(kind) ==
  /\ Len(meters) < MaxMeters
  /\ meters' = Append(meters, [kind |-> kind, durations |-> {}, count |-> 0])
  /\ UNCHANGED <<pending, requested, sent, snapshot>>

Update(i, d) ==
  /\ meters[i].kind = "timer" /\ meters[i].count < MaxUpdates
  /\ meters' = [meters EXCEPT ![i].durations = @ \cup {d}, ![i].count = @ + 1]
  /\ UNCHANGED <<pending, requested, sent, snapshot>>

Request(n) ==
  /\ requested + n <= MaxRequested /\ requested' = requested + n /\ pending' = pending + n
  /\ UNCHANGED <<meters, sent, snapshot>>

Rates == {"1", "5", "15", "mean"}
toNanoseconds(ms) == ms * NanosPerMs

Measure(i, tag, unit, statistic, value) ==
  [meter |-> i, tag |-> tag, unit |-> unit, statistic |-> statistic, value |-> value]

(* The percentiles 0.001 and 0.999 stand for all twelve: at up to a        *)
(* thousand durations they are the least and the greatest.  Without        *)
(* durations they are NaN and left out.                                    *)
PercentileMeasures(i) ==
  LET ds == meters[i].durations IN
  IF ds = {} THEN {}
  ELSE {Measure(i, "0.001", "nanoseconds", "duration", toNanoseconds(Min(ds))),
        Measure(i, "0.999", "nanoseconds", "duration", toNanoseconds(Max(ds)))}

convertTimer(i) ==
  LET ds == meters[i].durations IN
  PercentileMeasures(i) \cup
    {Measure(i, "none", "nanoseconds", "count", meters[i].count),
     Measure(i, "none", "nanoseconds", "max", IF ds = {} THEN -1 ELSE Max(ds))}

(* Rates are floating point and have no value here. *)
basicConverter(i) == {Measure(i, rate, "integer", "count", 0) : rate \in Rates}

convert(i) == IF meters[i].kind = "timer" THEN convertTimer(i) ELSE basicConverter(i)

(* The types that meterTypeLookup() knows; another one makes it throw. *)
Converts(i) == meters[i].kind # "meter"

Exported == DOMAIN meters

(* Mutant of Tick: counted before the conversion that may throw. *)
TickCountsFirst ==
  /\ pending > 0 /\ pending' = pending - 1
  /\ IF \A i \in DOMAIN meters : Converts(i)
     THEN snapshot' = UNION {convert(i) : i \in Exported} /\ sent' = sent + 1
     ELSE UNCHANGED <<snapshot, sent>>
  /\ UNCHANGED <<meters, requested>>

(* One meter that throws leaves the snapshot unsent. *)
Tick ==
  /\ pending > 0 /\ \A i \in DOMAIN meters : Converts(i)
  /\ snapshot' = UNION {convert(i) : i \in Exported}
  /\ sent' = sent + 1 /\ pending' = pending - 1
  /\ UNCHANGED <<meters, requested>>

Next ==
  \/ Tick \/ \E n \in 1 .. MaxRequested : Request(n)
  \/ \E kind \in Kinds : registerMeter(kind)
  \/ \E i \in DOMAIN meters, d \in Durations : Update(i, d)

Spec == Init /\ [][Next]_vars
-----------------------------------------------------------------------------
(* A tick that throws costs the subscriber none of its demand.  A snapshot *)
(* is of all meters or is not sent: every registered one is in it, a timer *)
(* with as many durations as were recorded and, when there are any, its    *)
(* percentiles.                                                            *)
SnapshotStep ==
  /\ requested' - requested = (sent' - sent) + (pending' - pending)
  /\ sent' # sent =>
       \A i \in DOMAIN meters :
         LET of == {x \in snapshot' : x.meter = i} IN
         IF meters[i].kind # "timer" THEN {x.tag : x \in of} = Rates
         ELSE /\ \E x \in of : x.statistic = "count" /\ x.value = meters[i].count
              /\ meters[i].count > 0 => \E x \in of : x.statistic = "duration"

(* The unit that every measure of a timer is labelled with, 'nanoseconds': *)
(* so no percentile is above the maximum.                                  *)
MaximumIsGreatest ==
  \A x, y \in snapshot :
    x.meter = y.meter /\ x.unit = y.unit /\ x.statistic = "duration" /\ y.statistic = "max" =>
      x.value <= y.value
=============================================================================
