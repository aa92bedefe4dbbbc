------------------------------ MODULE MCMeters ------------------------------
(***************************************************************************)
(* The meters in one run: in a behaviour one counter, timer, sample, heap  *)
(* or registry is used; they share no state.                               *)
(***************************************************************************)
EXTENDS Counter, Sequences

CONSTANTS
  MaxMarked,                                     \* bound on the counter's histories
  Durations,                                     \* of timers
  Limit,                                         \* of both samples
  MaxCount, MaxMarks, Scale, Percentiles, Parts,
  Threshold, MinExp, MaxExp, MaxRandom, MaxTime, MaxIdle, MaxUpdates,
  Ids, Priorities,                               \* of the heap's elements
  Kinds, NanosPerMs, MaxMeters, MaxTimed, MaxRequested

VARIABLES
  meter,  \* "counter", "timer", "sample", "heap" or "registry"
  timerCount, min, max, sum, varianceM, varianceS, timerValues, marks, seen,
  now, startTime, nextScaleTime, size, values, offered, last,
  content, members, popped,
  registered, pending, requested, sent, snapshot

Timer == INSTANCE Histogram WITH count <- timerCount, values <- timerValues
Sample == INSTANCE ExponentiallyDecayingSample WITH count <- size
Heap == INSTANCE PriorityQueue WITH Element <- [id : Ids, priority : Priorities]
Registry == INSTANCE MeterExport WITH meters <- registered, MaxUpdates <- MaxTimed

ASSUME MetersAssumption ==
  /\ Timer!HistogramAssumption /\ Sample!SampleAssumption
  /\ Heap!ElementAssumption /\ Registry!ExportAssumption

timer == <<timerCount, min, max, sum, varianceM, varianceS, timerValues, marks, seen>>
sample == <<now, startTime, nextScaleTime, size, values, offered, last>>
heap == <<content, members, popped>>
registry == <<registered, pending, requested, sent, snapshot>>

MetersInit ==
  /\ meter \in {"counter", "timer", "sample", "heap", "registry"}
  /\ Init /\ Timer!Init /\ Sample!Init /\ Heap!Init /\ Registry!Init

MetersNext ==
  /\ UNCHANGED meter
  /\ \/ meter = "counter" /\ Next /\ UNCHANGED <<timer, sample, heap, registry>>
     \/ meter = "timer" /\ Timer!Next /\ UNCHANGED <<vars, sample, heap, registry>>
     \/ meter = "sample" /\ Sample!Next /\ UNCHANGED <<vars, timer, heap, registry>>
     \/ meter = "heap" /\ Heap!Next /\ UNCHANGED <<vars, timer, sample, registry>>
     \/ meter = "registry" /\ Registry!Next /\ UNCHANGED <<vars, timer, sample, heap>>

MetersSpec == MetersInit /\ [][MetersNext]_<<meter, vars, timer, sample, heap, registry>>
Bounded == {ticked, marked} \subseteq -MaxMarked .. MaxMarked

(* Timer and histogram. *)
FiguresSound == Timer!FiguresSound

(* The heap keeps its elements and its order, and with that the decaying   *)
(* sample the items with the greatest priorities.                          *)
QueuesSound ==
  /\ [](Sample!KeepsGreatest /\ Sample!StaysHeap /\ Heap!SameMembers /\ Heap!HeapOrdered)
  /\ Heap!PopsLeast

(* Snapshots are whole, and one that is not sent costs no demand. *)
SnapshotsSound == [][Registry!SnapshotStep]_registry
=============================================================================
