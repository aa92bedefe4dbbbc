--------------------------- MODULE StreamObserver ---------------------------
(***************************************************************************)
(* MetricsSubscriber and SpanSubscriber around one subscription, chained   *)
(* as in generated code: source, span, metrics, subscriber.  lift() puts   *)
(* no guard between them; the subscriber has the FlowableSubscriber guard  *)
(* (`guard') and the source has one of its own unless Crossing, when it    *)
(* may go on for a while after a cancel.  Without a registry or a tracer   *)
(* the wrapper is left out and nothing is counted.                         *)
(***************************************************************************)
EXTENDS Naturals, Sequences

CONSTANTS
  Crossing,       \* signals of the source may cross a cancel
  ThrowsIn,       \* the callbacks that may throw; onError does not
  MaxValues       \* bound on the values and on the demand

ObserverAssumption ==
  /\ Crossing \in BOOLEAN /\ MaxValues \in Nat
  /\ ThrowsIn \subseteq {"onSubscribe", "onNext", "onComplete"}

VARIABLES
  source,    \* "off", "on", "cancelled" or "done"
  guard,     \* the subscriber's guard: "off", "active" or "closed"
  demand, emitted,
  counts,    \* the counters and the timer's count
  finished,  \* calls of span.finish()
  told,      \* what the subscriber got: values, and how it ended
  calls      \* callbacks of the subscriber in progress, innermost first

vars == <<source, guard, demand, emitted, counts, finished, told, calls>>

Meter == {"next", "complete", "error", "cancelled", "timer"}
Callback(op, end) == [op |-> op, end |-> end]  \* end: inside a terminal signal
Idle == calls = <<>>

Init ==
  /\ source = "off" /\ guard = "off" /\ demand = 0 /\ emitted = 0 /\ finished = 0
  /\ counts = [m \in Meter |-> 0] /\ told = [next |-> 0, end |-> "none"] /\ calls = <<>>

Count(ms) == counts' = [m \in Meter |-> IF m \in ms THEN counts[m] + 1 ELSE counts[m]]
Finish == finished' = finished + 1
User(op, end) == calls' = <<Callback(op, end)>> \o calls

(* The source calls onSubscribe, through both wrappers to the subscriber. *)
OnSubscribe ==
  /\ source = "off" /\ source' = "on" /\ guard' = "active" /\ User("onSubscribe", FALSE)
  /\ UNCHANGED <<demand, emitted, counts, finished, told>>

Request(n) ==
  /\ guard = "active" /\ demand + emitted + n <= MaxValues
  /\ demand' = demand + n
  /\ UNCHANGED <<source, guard, emitted, counts, finished, told, calls>>

CancelMetrics == Count({"cancelled", "timer"})

(* Mutant of CancelSpan: finished without cancelling what is behind it. *)
CancelStays == source' = source /\ Finish

(* SpanSubscriber.cancel: on to the source, and finish in any case. *)
CancelSpan == source' = (IF source = "on" THEN "cancelled" ELSE source) /\ Finish

(* Mutant of Cancel: a second cancel passes as well. *)
CancelAgain ==
  /\ guard = "active" /\ CancelMetrics /\ CancelSpan
  /\ UNCHANGED <<guard, demand, emitted, told, calls>>

Cancel ==
  /\ guard = "active" /\ guard' = "closed" /\ CancelMetrics /\ CancelSpan
  /\ UNCHANGED <<demand, emitted, told, calls>>

MaySignal == source = "on" \/ (Crossing /\ source = "cancelled")

OnNext ==
  /\ MaySignal /\ demand > 0
  /\ demand' = demand - 1 /\ emitted' = emitted + 1
  /\ Count({"next"})
  /\ IF guard = "active"
     THEN told' = [told EXCEPT !.next = @ + 1] /\ User("onNext", FALSE)
     ELSE UNCHANGED <<told, calls>>
  /\ UNCHANGED <<source, guard, finished>>

EndMetrics(o) == Count({o, "timer"})

(* onComplete and onError: logged, counted, told, and the span finishes in *)
(* a finally block, once the subscriber has returned.                      *)
End(o) ==
  /\ MaySignal /\ source' = "done" /\ EndMetrics(o)
  /\ IF guard = "active"
     THEN /\ guard' = "closed" /\ told' = [told EXCEPT !.end = o] /\ UNCHANGED finished
          /\ User(IF o = "error" THEN "onError" ELSE "onComplete", TRUE)
     ELSE Finish /\ UNCHANGED <<guard, told, calls>>
  /\ UNCHANGED <<demand, emitted>>

(* Mutant of Returns: the span is finished by onComplete only. *)
ReturnsUnfinished ==
  /\ ~Idle /\ calls' = Tail(calls)
  /\ IF calls[1].end /\ calls[1].op = "onComplete" THEN Finish ELSE UNCHANGED finished
  /\ UNCHANGED <<source, guard, demand, emitted, counts, told>>

Returns ==
  /\ ~Idle /\ calls' = Tail(calls)
  /\ IF calls[1].end THEN Finish ELSE UNCHANGED finished
  /\ UNCHANGED <<source, guard, demand, emitted, counts, told>>

(* The guard catches what a callback throws: it cancels after onNext,      *)
(* whatever its own state, and tells an error unless the stream is over.   *)
(* After onComplete it tells the error as well.                            *)
Throws ==
  /\ ~Idle /\ calls[1].op \in ThrowsIn
  /\ IF calls[1].op = "onNext" THEN CancelMetrics /\ CancelSpan
     ELSE UNCHANGED <<counts, source, finished>>
  /\ IF guard = "active" \/ calls[1].op = "onComplete"
     THEN /\ guard' = "closed" /\ told' = [told EXCEPT !.end = "error"]
          /\ calls' = [calls EXCEPT ![1].op = "onError"]
     ELSE calls' = Tail(calls) /\ UNCHANGED <<guard, told>>
  /\ UNCHANGED <<demand, emitted>>

Next ==
  \/ OnSubscribe \/ Cancel \/ OnNext \/ Returns \/ Throws
  \/ \E n \in 1 .. MaxValues : Request(n)
  \/ \E o \in {"complete", "error"} : End(o)

Spec == Init /\ [][Next]_vars
(* Callbacks end; the source and the subscriber need not do anything. *)
CallbackEnds == Returns \/ Throws
FairSpec == Spec /\ WF_vars(CallbackEnds)
-----------------------------------------------------------------------------
Outcomes == counts["complete"] + counts["error"] + counts["cancelled"]

TypeOK ==
  /\ source \in {"off", "on", "cancelled", "done"} /\ guard \in {"off", "active", "closed"}
  /\ demand \in Nat /\ emitted \in Nat /\ finished \in Nat /\ counts \in [Meter -> Nat]
  /\ told \in [next : Nat, end : {"none", "complete", "error"}]
  /\ calls \in Seq([op : {"onSubscribe", "onNext", "onComplete", "onError"}, end : BOOLEAN])

(* A subscription counts as one of completed, failed and cancelled, also   *)
(* when the subscriber cancels from a callback and the source ends inside  *)
(* a request that the subscriber makes.                                    *)
OneOutcome == Outcomes <= 1

(* What the meters say is what the subscriber got: each value once, and    *)
(* the end it was told.                                                    *)
CountedAsTold ==
  /\ counts["next"] = told.next
  /\ \A o \in {"complete", "error"} : (counts[o] > 0) <=> (told.end = o)

(* A subscriber and a source that keep their promises get meters that say  *)
(* once, and rightly, what happened.                                       *)
CountedOnceAsTold == TypeOK /\ OneOutcome /\ CountedAsTold

(* Between the signals, span and meters agree on how often the stream was  *)
(* over, although callbacks throw and signals cross a cancel: a doubled    *)
(* cancel is doubled in both.                                              *)
MetersMatchSpan ==
  Idle => /\ finished = Outcomes
          /\ counts["timer"] = Outcomes

(* Between the signals, the source is over exactly if an outcome was       *)
(* counted: no callback that throws and no cancel that crosses an end      *)
(* leaves a source running behind a counter that says it is over.          *)
OverIsCounted == Idle => (source \in {"cancelled", "done"} <=> Outcomes > 0)

(* The source ends once: onComplete and onError count it between them, at  *)
(* once and never twice, however often the stream was cancelled before or  *)
(* is cancelled after that by a callback that throws.                      *)
EndCountedOnce == counts["complete"] + counts["error"] = IF source = "done" THEN 1 ELSE 0

(* Span, meters and source tell the same story.  A cancel and the end that *)
(* crosses it are both counted, in all three; an end never is twice.       *)
ObserversAgree == MetersMatchSpan /\ OverIsCounted /\ EndCountedOnce

(* A stream that is over, for its source and its subscriber, does not      *)
(* leave the span open: finish() follows also when a callback throws.  One *)
(* whose onSubscribe throws is not over: its source is not cancelled.      *)
SpanFinishes == guard = "closed" /\ source # "on" ~> finished > 0
=============================================================================
