--------------------------- MODULE SingleObserver ---------------------------
(***************************************************************************)
(* MetricsSingleSubscriber around SpanSingleSubscriber, as in generated    *)
(* request-response clients and servers.  Each layer is a Single of its    *)
(* own, so a future of rsocket-flowable guards every one of them: source,  *)
(* future[1], span, future[2], metrics, future[3], subscriber.  The meters *)
(* belong to the method: all its calls share them.                         *)
(***************************************************************************)
EXTENDS Naturals, Sequences, FiniteSets

CONSTANTS
  Call,      \* calls of one method
  ThrowsIn   \* the callbacks of a subscriber that may throw
ThrowsAssumption == ThrowsIn \subseteq {"onSubscribe", "onComplete", "onError"}

VARIABLES
  future,    \* per call and layer: "new", "active" or "closed"
  timedFrom, \* the calls with _start set
  counts,    \* the counters, the timer's count, its updates that are NaN
  finished,  \* per call: how often span.finish() was called
  told,      \* how the subscriber was told that it is over
  stack      \* callbacks of subscribers in progress, innermost first

vars == <<future, timedFrom, counts, finished, told, stack>>

Meter == {"next", "complete", "error", "cancelled", "timer", "nan"}
Idle == stack = <<>>
All(s) == [i \in 1 .. 3 |-> s]

Init ==
  /\ future = [c \in Call |-> All("new")] /\ timedFrom = {}
  /\ counts = [m \in Meter |-> 0] /\ finished = [c \in Call |-> 0]
  /\ told = [c \in Call |-> "none"] /\ stack = <<>>

(* The timer is updated with now - _start. *)
Count(c, ms) ==
  LET all == ms \cup {"timer"} \cup (IF c \in timedFrom THEN {} ELSE {"nan"})
  IN counts' = [m \in Meter |-> IF m \in all THEN counts[m] + 1 ELSE counts[m]]

CountEnd(c, o) == Count(c, IF o = "complete" THEN {"next", "complete"} ELSE {"error"})

Finish(c) == finished' = [finished EXCEPT ![c] = @ + 1]

Callback(op, c, within) == [op |-> op, call |-> c, within |-> within]

OnSubscribe(c) ==
  /\ future[c] = All("new") /\ future' = [future EXCEPT ![c] = All("active")]
  /\ timedFrom' = timedFrom \cup {c}
  /\ stack' = <<Callback("onSubscribe", c, "none")>> \o stack
  /\ UNCHANGED <<counts, finished, told>>

(* Cancel of future[3], on to the metrics, future[2], the span, future[1]. *)
Cancel(c) ==
  /\ future[c][3] = "active" /\ future' = [future EXCEPT ![c] = All("closed")]
  /\ Count(c, {"cancelled"}) /\ Finish(c)
  /\ UNCHANGED <<timedFrom, told, stack>>

(* A future lets a completion through while it is active, an error also    *)
(* before onSubscribe, as when the source throws.  Metrics count before    *)
(* the subscriber is told, unless future[2] is closed already (Throws);    *)
(* the span finishes after.                                                *)
End(c, o) ==
  /\ future[c][1] = "active" \/ (o = "error" /\ future[c][1] = "new")
  /\ future' = [future EXCEPT ![c] = All("closed")]
  /\ IF future[c][2] # "closed" THEN CountEnd(c, o) ELSE UNCHANGED counts
  /\ IF future[c][3] # "closed"
     THEN /\ told' = [told EXCEPT ![c] = o] /\ UNCHANGED finished
          /\ stack' = <<Callback(IF o = "error" THEN "onError" ELSE "onComplete", c, o)>> \o stack
     ELSE Finish(c) /\ UNCHANGED <<told, stack>>
  /\ UNCHANGED timedFrom

(* Mutant of Leave: the span is also finished by what is no terminal signal. *)
LeaveFinished == stack' = Tail(stack) /\ Finish(stack[1].call)

(* Leaving a callback; in a terminal signal the span finishes now. *)
Leave ==
  /\ stack' = Tail(stack)
  /\ IF stack[1].within = "none" THEN UNCHANGED finished ELSE Finish(stack[1].call)

Returns == ~Idle /\ Leave /\ UNCHANGED <<future, timedFrom, counts, told>>

(* The subscriber's onError throws, having been told that its onComplete   *)
(* or onSubscribe did: future[2] catches it and tells the metrics an error, *)
(* of a completed call on top, of one that goes on if it is still active.  *)
(* What it throws on an error of the source goes to the caller.            *)
CaughtInside(c, within) ==
  \/ within = "complete" /\ CountEnd(c, "error") /\ UNCHANGED future
  \/ /\ within = "none" /\ future[c][2] = "active" /\ CountEnd(c, "error")
     /\ future' = [future EXCEPT ![c][2] = "closed"]
  \/ /\ within = "error" \/ (within = "none" /\ future[c][2] # "active")
     /\ UNCHANGED <<counts, future>>

(* future[3] tells an error when onSubscribe or onComplete throw. *)
Throws ==
  /\ ~Idle /\ stack[1].op \in ThrowsIn
  /\ LET c == stack[1].call IN
     \/ /\ stack[1].op # "onError"
        /\ IF stack[1].op = "onComplete" \/ future[c][3] = "active"
           THEN /\ told' = [told EXCEPT ![c] = "error"] /\ stack' = [stack EXCEPT ![1].op = "onError"]
                /\ future' = [future EXCEPT ![c][3] = "closed"] /\ UNCHANGED finished
           ELSE Leave /\ UNCHANGED <<told, future>>
        /\ UNCHANGED counts
     \/ stack[1].op = "onError" /\ Leave /\ UNCHANGED told /\ CaughtInside(c, stack[1].within)
  /\ UNCHANGED timedFrom

Next ==
  \/ Returns \/ Throws
  \/ \E c \in Call : OnSubscribe(c) \/ Cancel(c) \/ \E o \in {"complete", "error"} : End(c, o)

Spec == Init /\ [][Next]_vars
CallbackEnds == Returns \/ Throws
FairSpec == Spec /\ WF_vars(CallbackEnds)
-----------------------------------------------------------------------------
Over == {c \in Call : future[c][1] = "closed"}
Outcomes == counts["complete"] + counts["error"] + counts["cancelled"]

(* The meters say what became of the calls of the method: each call that   *)
(* is over is completed, failed or cancelled, once.  A subscriber whose    *)
(* error handler throws can make a completed call count as failed as well, *)
(* or a call that is not over yet.                                         *)
OutcomesAddUp ==
  /\ counts["timer"] = Outcomes /\ counts["next"] = counts["complete"]
  /\ counts["complete"] + counts["cancelled"] <= Cardinality(Over)
  /\ "onError" \notin ThrowsIn => Outcomes = Cardinality(Over)

(* However the callbacks throw and whoever cancels, a span is finished at  *)
(* most once, and by the time that nothing is running any more it is       *)
(* finished if and only if its call is over.                               *)
SpanOnce == \A c \in Call : finished[c] <= 1 /\ (Idle => (finished[c] = 1 <=> c \in Over))

(* The timer gets a number unless the source fails before it calls         *)
(* onSubscribe, as a handler that throws does.                             *)
NaNOnlyFromThrow == counts["nan"] <= Cardinality({c \in Over \ timedFrom : told[c] = "error"})

(* However single calls end, each is accounted for once, in the span and   *)
(* in the meters.                                                          *)
SinglesAccounted == OutcomesAddUp /\ SpanOnce /\ NaNOnlyFromThrow

(* A call that was told or cancelled does not leave its span open. *)
SpanFinishes == \A c \in Call : c \in Over ~> finished[c] > 0
=============================================================================
