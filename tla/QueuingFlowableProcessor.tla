---------------------- MODULE QueuingFlowableProcessor ----------------------
(***************************************************************************)
(* QueuingFlowableProcessor: a subscriber of an upstream, a publisher and  *)
(* a subscription for one downstream subscriber, with an unbounded or a    *)
(* bounded queue between them.                                             *)
(*                                                                         *)
(* JavaScript runs one thread, so what interleaves here is reentrancy: the *)
(* drain loop calls user code (a transformer, onNext, onError, onComplete) *)
(* and that code may call any method of the processor before it returns.   *)
(* "stack" holds the activations of drain() that are in progress; between  *)
(* two calls into user code the loop runs undisturbed.  _wip is what the   *)
(* code relies on to keep the stack one activation deep.                   *)
(*                                                                         *)
(* A value is the serial number of the onNext that brought it.  The calls  *)
(* that only throw (a second subscribe, request(n <= 0), onNext(null)) and *)
(* change nothing are left out.                                            *)
(***************************************************************************)
EXTENDS Naturals, Sequences, FiniteSets

CONSTANTS
  Capacity,         \* the constructor's capacity; 0 when it is undefined
  Undefined,        \* the serial numbers whose value is undefined
  CallbacksThrow,   \* may transformers and subscriber callbacks throw?
  MaxItems,         \* bound: how many values the upstream sends
  MaxDemand,        \* bound: how many values the subscriber asks for in all
  MaxTransformers,  \* bound: how many transformers map() adds
  MaxWip            \* bound: cancel is not repeated once _wip is this high

ASSUME ParametersAssumption ==
  /\ Capacity \in Nat
  /\ Undefined \subseteq Nat
  /\ CallbacksThrow \in BOOLEAN

ASSUME BoundsAssumption ==
  MaxItems \in Nat /\ MaxDemand \in Nat /\ MaxTransformers \in Nat /\ MaxWip \in Nat

MAX_REQUEST_N == 2147483647

VARIABLES
  once,             \* _once
  actual,           \* is _actual set?
  requested,        \* _requested
  queue,            \* _queue
  wip,              \* _wip
  cancelled,        \* _cancelled
  done,             \* _done
  error,            \* is _error set?
  transformers,     \* the length of _transformers
  stack,            \* the activations of drain() in progress
  upstream,         \* what onSubscribe did: "none", "requested", "cancelled"
  sent,             \* history: how many values the upstream has sent
  accepted,         \* history: the values put in the queue
  demanded,         \* history: the sum of the subscriber's requests
  delivered,        \* history: the values the subscriber was called with
  outcome,          \* history: the terminal signal it was called with
  thrown            \* history: has an exception left drain()?

processor == <<once, actual, requested, queue, wip, cancelled, done, error,
               transformers, stack>>
history == <<upstream, sent, accepted, demanded, delivered, outcome, thrown>>
vars == <<processor, history>>

(***************************************************************************)
(* An activation of drain(): where it is, its locals r, e and v.           *)
(*   "while"  about to evaluate the condition of the while loop            *)
(*   "map"    the transformers are running on v                            *)
(*   "next"   inside actual.onNext                                         *)
(*   "end"    inside actual.onError or actual.onComplete                   *)
(***************************************************************************)
Frame(r) == [pc |-> "while", r |-> r, e |-> 0, v |-> 0]
Frames == [pc : {"while", "map", "next", "end"}, r : Nat, e : Nat, v : Nat]

Idle == stack = <<>>
Top == stack[Len(stack)]
At(pc) == ~Idle /\ Top.pc = pc
Pop == SubSeq(stack, 1, Len(stack) - 1)
Replace(f) == [stack EXCEPT ![Len(stack)] = f]

(* User code runs, and may call the processor, when no drain is in progress *)
(* or the innermost one has called out.                                     *)
UserCode == Idle \/ At("next") \/ At("end") \/ (At("map") /\ transformers > 0)

Init ==
  /\ once = FALSE
  /\ actual = FALSE
  /\ requested = 0
  /\ queue = <<>>
  /\ wip = 0
  /\ cancelled = FALSE
  /\ done = FALSE
  /\ error = FALSE
  /\ transformers = 0
  /\ stack = <<>>
  /\ upstream = "none"
  /\ sent = 0
  /\ accepted = <<>>
  /\ demanded = 0
  /\ delivered = <<>>
  /\ outcome = "none"
  /\ thrown = FALSE

(* Mutant of Drain: the test of _wip is missing. *)
DrainAlways(r) ==
  IF ~actual
  THEN UNCHANGED <<wip, stack>>
  ELSE wip' = wip + 1 /\ stack' = Append(stack, Frame(r))

(* Mutant of Drain: _wip is a flag, a call during a drain leaves no mark. *)
DrainFlag(r) ==
  IF ~actual
  THEN UNCHANGED <<wip, stack>>
  ELSE wip' = 1 /\ stack' = IF wip = 0 THEN Append(stack, Frame(r)) ELSE stack

(* The head of drain(): without a subscriber nothing; with another drain in *)
(* progress only a mark in _wip that makes that drain go round again.       *)
Drain(r) ==
  IF ~actual
  THEN UNCHANGED <<wip, stack>>
  ELSE /\ wip' = wip + 1
       /\ stack' = IF wip = 0 THEN Append(stack, Frame(r)) ELSE stack

-----------------------------------------------------------------------------
(* Calls of the downstream side. *)

Subscribe ==
  /\ UserCode
  /\ ~once
  /\ once' = TRUE
  /\ actual' = TRUE
  /\ UNCHANGED <<requested, queue, wip, cancelled, done, error, transformers,
                 stack, history>>

Request(n) ==
  /\ UserCode
  /\ once
  /\ demanded + n <= MaxDemand
  /\ demanded' = demanded + n
  /\ requested' = requested + n
  /\ Drain(requested')
  /\ UNCHANGED <<once, actual, queue, cancelled, done, error, transformers,
                 upstream, sent, accepted, delivered, outcome, thrown>>

Cancel ==
  /\ UserCode
  /\ once
  /\ wip < MaxWip
  /\ cancelled' = TRUE
  /\ wip' = wip + 1
  /\ actual' = IF wip = 0 THEN FALSE ELSE actual
  /\ queue' = IF wip = 0 THEN <<>> ELSE queue
  /\ UNCHANGED <<once, requested, done, error, transformers, stack, history>>

Map ==
  /\ UserCode
  /\ transformers < MaxTransformers
  /\ transformers' = transformers + 1
  /\ UNCHANGED <<once, actual, requested, queue, wip, cancelled, done, error,
                 stack, history>>

-----------------------------------------------------------------------------
(* Calls of the upstream side; after its terminal signal it sends nothing. *)

(* Mutant of UpstreamRequest: the capacity is not passed upstream. *)
RequestUnbounded == MAX_REQUEST_N

UpstreamRequest == IF Capacity = 0 THEN MAX_REQUEST_N ELSE Capacity

OnSubscribe ==
  /\ UserCode
  /\ upstream = "none"
  /\ upstream' = IF done THEN "cancelled" ELSE "requested"
  /\ UNCHANGED <<processor, sent, accepted, demanded, delivered, outcome, thrown>>

MaySend ==
  /\ ~done
  /\ sent < MaxItems

HasRoom == Capacity = 0 \/ Len(queue) < Capacity

OnNext ==
  /\ UserCode
  /\ MaySend
  /\ sent' = sent + 1
  /\ queue' = IF HasRoom THEN Append(queue, sent + 1) ELSE queue
  /\ accepted' = IF HasRoom THEN Append(accepted, sent + 1) ELSE accepted
  /\ Drain(requested)
  /\ UNCHANGED <<once, actual, requested, cancelled, done, error, transformers,
                 upstream, demanded, delivered, outcome, thrown>>

OnError ==
  /\ UserCode
  /\ ~done
  /\ error' = TRUE
  /\ done' = TRUE
  /\ Drain(requested)
  /\ UNCHANGED <<once, actual, requested, queue, cancelled, transformers, history>>

OnComplete ==
  /\ UserCode
  /\ ~done
  /\ done' = TRUE
  /\ Drain(requested)
  /\ UNCHANGED <<once, actual, requested, queue, cancelled, error, transformers,
                 history>>

-----------------------------------------------------------------------------
(* The steps of drain().  An activation that returns from inside the loop   *)
(* does not give back its _wip, so that no later drain ever starts.         *)

DrainCancelled ==
  /\ At("while")
  /\ cancelled
  /\ actual' = FALSE
  /\ queue' = <<>>
  /\ stack' = Pop
  /\ UNCHANGED <<once, requested, wip, cancelled, done, error, transformers,
                 history>>

(* shift() leaves an empty array alone; "v == null" holds of undefined. *)
Shift == IF queue = <<>> THEN <<>> ELSE Tail(queue)
NoValue == queue # <<>> => Head(queue) \in Undefined
(* Mutant of Exhausted: with the demand met, the queue is not looked at. *)
ExhaustedWhenMet(f) == f.e # f.r => NoValue

Exhausted(f) == IF f.e # f.r THEN NoValue ELSE queue = <<>>

DrainTerminate ==
  /\ At("while")
  /\ ~cancelled
  /\ done
  /\ Exhausted(Top)
  /\ queue' = Shift
  /\ outcome' = IF error THEN "error" ELSE "complete"
  /\ stack' = Replace([Top EXCEPT !.pc = "end"])
  /\ UNCHANGED <<once, actual, requested, wip, cancelled, done, error,
                 transformers, upstream, sent, accepted, demanded, delivered, thrown>>

(* Mutant of DrainTake: a cancel from inside the loop is not noticed. *)
TakeWhenCancelled ==
  /\ At("while")
  /\ Top.e # Top.r
  /\ ~NoValue
  /\ queue' = Shift
  /\ stack' = Replace([Top EXCEPT !.pc = "map", !.v = Head(queue)])
  /\ UNCHANGED <<once, actual, requested, wip, cancelled, done, error,
                 transformers, history>>

DrainTake ==
  /\ At("while")
  /\ ~cancelled
  /\ Top.e # Top.r
  /\ ~NoValue
  /\ queue' = Shift
  /\ stack' = Replace([Top EXCEPT !.pc = "map", !.v = Head(queue)])
  /\ UNCHANGED <<once, actual, requested, wip, cancelled, done, error,
                 transformers, history>>

DrainEmit ==
  /\ At("map")
  /\ delivered' = Append(delivered, Top.v)
  /\ stack' = Replace([Top EXCEPT !.pc = "next"])
  /\ UNCHANGED <<once, actual, requested, queue, wip, cancelled, done, error,
                 transformers, upstream, sent, accepted, demanded, outcome, thrown>>

(* Mutant of DrainTail: a value is taken before the demand is looked at. *)
TailShifts ==
  /\ At("while")
  /\ ~cancelled
  /\ ~(done /\ Exhausted(Top))
  /\ Top.e # Top.r => NoValue
  /\ queue' = Shift
  /\ requested' = requested - Top.e
  /\ wip' = wip - 1
  /\ stack' = IF wip = 1 THEN Pop ELSE Replace(Frame(requested'))
  /\ UNCHANGED <<once, actual, cancelled, done, error, transformers, history>>

(* Mutant of DrainTail: the demand that was met is not subtracted. *)
TailKeepsDemand ==
  /\ At("while")
  /\ ~cancelled
  /\ ~(done /\ Exhausted(Top))
  /\ Top.e # Top.r => NoValue
  /\ queue' = IF Top.e # Top.r THEN Shift ELSE queue
  /\ wip' = wip - 1
  /\ stack' = IF wip = 1 THEN Pop ELSE Replace(Frame(requested))
  /\ UNCHANGED <<once, actual, requested, cancelled, done, error, transformers,
                 history>>

(* Past the while loop: the demand met is subtracted, one _wip given back,  *)
(* and the loop goes round again when a call came in meanwhile.             *)
DrainTail ==
  /\ At("while")
  /\ ~cancelled
  /\ ~(done /\ Exhausted(Top))
  /\ Top.e # Top.r => NoValue
  /\ queue' = IF Top.e # Top.r THEN Shift ELSE queue
  /\ requested' = requested - Top.e
  /\ wip' = wip - 1
  /\ stack' = IF wip = 1 THEN Pop ELSE Replace(Frame(requested'))
  /\ UNCHANGED <<once, actual, cancelled, done, error, transformers, history>>

NextReturns ==
  /\ At("next")
  /\ stack' = Replace([Top EXCEPT !.pc = "while", !.e = Top.e + 1])
  /\ UNCHANGED <<once, actual, requested, queue, wip, cancelled, done, error,
                 transformers, history>>

(* Mutant of EndReturns: the subscriber is not let go. *)
EndKeepsSubscriber ==
  /\ At("end")
  /\ stack' = Pop
  /\ UNCHANGED <<once, actual, requested, queue, wip, cancelled, done, error,
                 transformers, history>>

EndReturns ==
  /\ At("end")
  /\ actual' = FALSE
  /\ stack' = Pop
  /\ UNCHANGED <<once, requested, queue, wip, cancelled, done, error,
                 transformers, history>>

(* Mutant of CallbackThrows: a "finally" gives back the activation's _wip. *)
ThrowsReleased ==
  /\ CallbacksThrow
  /\ At("next") \/ At("end") \/ (At("map") /\ transformers > 0)
  /\ wip' = wip - 1
  /\ stack' = Pop
  /\ thrown' = TRUE
  /\ UNCHANGED <<once, actual, requested, queue, cancelled, done, error,
                 transformers, upstream, sent, accepted, demanded, delivered, outcome>>

(* An exception of the user code leaves drain() through the loop, with the  *)
(* activation's _wip.                                                       *)
CallbackThrows ==
  /\ CallbacksThrow
  /\ At("next") \/ At("end") \/ (At("map") /\ transformers > 0)
  /\ stack' = Pop
  /\ thrown' = TRUE
  /\ UNCHANGED <<once, actual, requested, queue, wip, cancelled, done, error,
                 transformers, upstream, sent, accepted, demanded, delivered, outcome>>

-----------------------------------------------------------------------------
Downstream == Subscribe \/ (\E n \in 1..MaxDemand : Request(n)) \/ Cancel \/ Map
Upstream == OnSubscribe \/ OnNext \/ OnError \/ OnComplete
DrainLoop == DrainCancelled \/ DrainTerminate \/ DrainTake \/ DrainEmit \/ DrainTail
CallbackReturns == NextReturns \/ EndReturns

Next == Downstream \/ Upstream \/ DrainLoop \/ CallbackReturns \/ CallbackThrows

Spec == Init /\ [][Next]_vars

(* The loop itself runs to its end; the callbacks are assumed to return.    *)
FairSpec == Spec /\ WF_vars(DrainLoop) /\ WF_vars(CallbackReturns)
-----------------------------------------------------------------------------
(* Every variable has its type; the activations are records with the        *)
(* locals of drain() in the processor's source.                             *)
TypeOK ==
  /\ once \in BOOLEAN
  /\ actual \in BOOLEAN
  /\ requested \in Nat
  /\ queue \in Seq(Nat)
  /\ wip \in Nat
  /\ cancelled \in BOOLEAN
  /\ done \in BOOLEAN
  /\ error \in BOOLEAN
  /\ transformers \in Nat
  /\ stack \in Seq(Frames)
  /\ upstream \in {"none", "requested", "cancelled"}
  /\ sent \in Nat
  /\ accepted \in Seq(Nat)
  /\ demanded \in Nat
  /\ delivered \in Seq(Nat)
  /\ outcome \in {"none", "complete", "error"}
  /\ thrown \in BOOLEAN

(* What the drain loop has taken off the queue as a value: the values       *)
(* delivered and the one that the transformers are working on.              *)
InFlight == IF At("map") THEN <<Top.v>> ELSE <<>>
Drained == delivered \o InFlight

(* _wip serialises the loop: however the callbacks of a drain call back     *)
(* into request, onNext or onComplete, no second drain starts inside it.    *)
AtMostOneDrain == Len(stack) <= 1

(* Over all requests, also those made from inside onNext, the subscriber    *)
(* never gets more values than it has asked for (_requested and e).         *)
DemandRespected == Len(delivered) <= demanded

(* Values come out in the order they came in and none comes out twice,      *)
(* whatever is dropped, thrown at or undefined on the way.                  *)
InOrder == \A i, j \in 1..Len(delivered) : i < j => delivered[i] < delivered[j]

(* While the loop can still run, each value that was put in the queue has   *)
(* been drained or is still in it, in order.  (Undefined values apart.)     *)
NothingLost == wip = 0 \/ ~Idle => accepted = Drained \o queue

(* The terminal signal is passed on as the upstream gave it, and not before *)
(* the last value that was accepted.                                        *)
TerminalAfterAll ==
  outcome # "none" =>
    /\ done
    /\ outcome = IF error THEN "error" ELSE "complete"
    /\ delivered = accepted

(* No wakeup is lost: when no drain is in progress and the loop can still   *)
(* run, either there is nothing to deliver or nothing was asked for, and    *)
(* an end of the stream that could be signalled has been.  A call that only *)
(* raised _wip has been seen by the loop before it gave _wip back.          *)
NoLostWakeup ==
  Idle /\ wip = 0 /\ actual =>
    /\ queue = <<>> \/ requested = 0
    /\ done /\ queue = <<>> => demanded = 0

(* After a cancel the loop takes no value and gives no terminal signal: all *)
(* that can still reach the subscriber is the value that the transformers   *)
(* were working on when it cancelled.  After a terminal signal comes nothing. *)
NoSignalAfterEnd ==
  [][ /\ cancelled => outcome' = outcome /\ Drained' \in {Drained, delivered}
      /\ outcome # "none" => UNCHANGED <<delivered, outcome>> ]_vars

(* An exception from a transformer or from the subscriber is final, as the  *)
(* activation of drain() takes its _wip with it: from then on no value and  *)
(* no terminal signal is given out, whatever is requested, not even the     *)
(* error that the upstream reports, and what comes in is queued.  A cancel  *)
(* frees neither the queue nor the subscriber any more.                     *)
ExceptionIsFinal ==
  [][thrown =>
       /\ actual'
       /\ UNCHANGED <<delivered, outcome>>
       /\ queue' \in {queue, Append(queue, sent')}]_vars

(* A processor that is finished does not hold on to its subscriber: once a  *)
(* cancel or a terminal signal has run its course, _actual is null.         *)
SubscriberReleased == Idle /\ (cancelled \/ outcome # "none") => ~actual

(* An upstream that has sent no more than the one request asked it for has  *)
(* lost nothing: the capacity test in onNext drops only what is beyond.     *)
NothingDropped == sent <= UpstreamRequest => Len(accepted) = sent

(* What is queued is what was sent, in order, and goes out in that order,   *)
(* whatever throws and whatever is undefined.                               *)
InOrderUndropped == InOrder /\ NothingDropped

(* A value that was accepted and asked for arrives, unless the subscriber   *)
(* cancels: whichever of onNext and request came last, and from wherever.   *)
ValuesArrive ==
  \A k \in 1..MaxItems :
    (Len(accepted) >= k /\ demanded >= k) ~> (Len(delivered) >= k \/ cancelled)

(* Once the subscriber has made a request and asked for all that was        *)
(* accepted, it learns of the end; no further request is needed for that.   *)
(* One that was there before the end needs no request at all.               *)
EndTold == (done /\ demanded >= Len(accepted)) ~> (outcome # "none" \/ cancelled)
EndArrives ==
  /\ (done /\ demanded > 0 /\ demanded >= Len(accepted)) ~> (outcome # "none" \/ cancelled)
  /\ [](once /\ ~done => EndTold)

(* Values and the end reach a subscriber that goes on asking.               *)
AllArrives == ValuesArrive /\ EndArrives

(* The processor implements the queue with demand of DemandQueue: a value   *)
(* is handed out when it is taken off the queue.                            *)
Abstract == INSTANCE DemandQueue WITH
  Values <- 1..MaxItems,
  closed <- IF ~done THEN "open" ELSE IF error THEN "error" ELSE "complete",
  subscribed <- once,
  delivered <- Drained

Implements == Abstract!Spec
=============================================================================
