----------------------- MODULE SwitchTransformOperator -----------------------
(***************************************************************************)
(* SwitchTransformOperator, as RequestHandlingRSocket.requestChannel and   *)
(* the generated servers use it: it asks the requester's stream for one    *)
(* payload, hands that payload and the stream to the handler (the          *)
(* transformer), and subscribes the requester to what the handler returns. *)
(* The handler's subscription to the stream first gets the payload that    *)
(* was taken to choose the handler, then the rest.                         *)
(*                                                                         *)
(* Four parties: the upstream (the requester's payloads), the operator,    *)
(* the handler (its subscription to the input), the requester (outer).     *)
(* Each subscription goes through a FlowableSubscriber: "up" in front of   *)
(* the operator, "in" in front of the handler, "out" in front of the       *)
(* requester.  The operator's methods run to their end except where they   *)
(* call the handler and go on afterwards; "stack" holds those activations: *)
(*   "transform"  onNext inside the transformer                            *)
(*   "first"      request(n) inside inner.onNext(first)                    *)
(*   "end"        request(n) inside inner.onError or inner.onComplete      *)
(* During such a call any party may call the operator again.               *)
(*                                                                         *)
(* A payload is its serial number.  An exception in a handler's onNext is  *)
(* turned into a cancel by FlowableSubscriber and is a HandlerCancel here. *)
(* A second subscription of the input changes nothing and is left out.     *)
(***************************************************************************)
EXTENDS Sequences, FlowableSubscriber

CONSTANTS
  UpstreamReenters, \* may the upstream signal from inside the operator's calls?
  ResultLate,       \* may the handler's result call onSubscribe later?
  HandlerThrows,    \* may the transformer throw?
  MaxItems,         \* bound: how many payloads the upstream sends
  MaxRequests       \* bound: how often the handler requests

ASSUME ConstantsAssumption ==
  /\ {UpstreamReenters, ResultLate, HandlerThrows} \subseteq BOOLEAN
  /\ MaxItems \in Nat
  /\ MaxRequests \in Nat

VARIABLES
  subscription,     \* is _subscription set?
  first,            \* _first, 0 when it is undefined
  inner,            \* is _inner set?
  done,             \* _done
  error,            \* is _error set?
  canceled,         \* _canceled
  stack,            \* the activations that are inside a call of the handler
  up, in, out,      \* the wrappers of the operator, the handler, the requester
  result,           \* the handler's result: "none", "late", "subscribed"
  outBy,            \* who called outer.onSubscribe first: "none", "stub", "result"
  sent,             \* history: how many payloads the upstream sent
  ended,            \* history: how the upstream ended, or "none"
  threw,            \* history: "no", or whether the transformer threw "before"
                    \* or "after" the handler had subscribed to its input
  accepted,         \* history: the payloads the operator did not ignore
  requests,         \* history: the number of requests of the handler
  demanded,         \* history: the sum of these requests
  received,         \* history: the payloads the handler was called with
  ending,           \* history: the terminal signal the handler was called with
  endCalls          \* history: how many terminal signals inner was called with

operator == <<subscription, first, inner, done, error, canceled, stack>>
guards == <<up, in, out>>
answer == <<result, outBy>>
history == <<sent, ended, threw, accepted, requests, demanded, received, ending,
             endCalls>>
vars == <<operator, guards, answer, history>>

Init ==
  /\ subscription = FALSE
  /\ first = 0
  /\ inner = FALSE
  /\ done = FALSE
  /\ error = FALSE
  /\ canceled = FALSE
  /\ stack = <<>>
  /\ up = NewGuard /\ in = NewGuard /\ out = NewGuard
  /\ result = "none"
  /\ outBy = "none"
  /\ sent = 0
  /\ ended = "none"
  /\ threw = "no"
  /\ accepted = <<>>
  /\ requests = 0
  /\ demanded = 0
  /\ received = <<>>
  /\ ending = "none"
  /\ endCalls = 0

Idle == stack = <<>>
Inside(place) == ~Idle /\ stack[Len(stack)].at = place
N == stack[Len(stack)].n
Push(place, n) == Append(stack, [at |-> place, n |-> n])
Pop == SubSeq(stack, 1, Len(stack) - 1)

UpstreamMayCall == UpstreamReenters \/ Idle

(* inner.onNext(v): it reaches the handler if the wrapper g lets it. *)
InnerNext(g, v) ==
  /\ received' = IF PassesNext(g) THEN Append(received, v) ELSE received
  /\ in' = IF PassesNext(g) THEN TookNext(g) ELSE g

(* inner.onError or inner.onComplete. *)
InnerEnd(how) ==
  /\ endCalls' = endCalls + 1
  /\ ending' = IF in.active THEN how ELSE ending
  /\ in' = Closed(in)

(* outer.onSubscribe, by the handler's result or with the stub subscription *)
(* that signals the end when the requester makes its first request.         *)
OuterSubscribed(by) ==
  /\ out' = Started(out)
  /\ outBy' = IF out.started THEN outBy ELSE by

-----------------------------------------------------------------------------
(* Signals of the upstream. *)

(* Mutant of OnSubscribe: two payloads are requested at the start. *)
OnSubscribeTwo ==
  /\ UpstreamMayCall
  /\ ~subscription
  /\ subscription' = TRUE
  /\ up' = Asked(Started(up), 2)
  /\ UNCHANGED <<first, inner, done, error, canceled, stack, in, out, answer, history>>

OnSubscribe ==
  /\ UpstreamMayCall
  /\ ~subscription
  /\ subscription' = TRUE
  /\ up' = Asked(Started(up), 1)
  /\ UNCHANGED <<first, inner, done, error, canceled, stack, in, out, answer, history>>

OnNext ==
  /\ UpstreamMayCall
  /\ sent < MaxItems
  /\ PassesNext(up)
  /\ up' = TookNext(up)
  /\ sent' = sent + 1
  /\ accepted' = IF canceled \/ done THEN accepted ELSE Append(accepted, sent')
  /\ IF canceled \/ done
     THEN UNCHANGED <<first, stack, in, received>>
     ELSE IF inner
     THEN InnerNext(in, sent') /\ UNCHANGED <<first, stack>>
     ELSE /\ first' = sent'
          /\ stack' = Push("transform", 0)
          /\ UNCHANGED <<in, received>>
  /\ UNCHANGED <<subscription, inner, done, error, canceled, out, answer, ended,
                 threw, requests, demanded, ending, endCalls>>

(* Mutant of Finish: an input without handler ends in silence. *)
FinishUnanswered(how) ==
  /\ UNCHANGED <<out, outBy>>
  /\ IF canceled \/ done
     THEN UNCHANGED <<done, error, in, ending, endCalls>>
     ELSE /\ done' = TRUE
          /\ error' = (how = "error")
          /\ IF inner /\ first = 0
             THEN InnerEnd(how)
             ELSE UNCHANGED <<in, ending, endCalls>>

(* The body of onError and of onComplete. *)
Finish(how) ==
  IF canceled \/ done
  THEN UNCHANGED <<done, error, in, out, outBy, ending, endCalls>>
  ELSE /\ done' = TRUE
       /\ error' = (how = "error")
       /\ IF ~inner
          THEN OuterSubscribed("stub") /\ UNCHANGED <<in, ending, endCalls>>
          ELSE IF first = 0
          THEN InnerEnd(how) /\ UNCHANGED <<out, outBy>>
          ELSE UNCHANGED <<in, out, outBy, ending, endCalls>>

End(how) ==
  /\ UpstreamMayCall
  /\ up.active
  /\ up' = Closed(up)
  /\ ended' = how
  /\ Finish(how)
  /\ UNCHANGED <<subscription, first, inner, canceled, stack, result, sent, threw,
                 accepted, requests, demanded, received>>

OnError == End("error")
OnComplete == End("complete")

-----------------------------------------------------------------------------
(* The handler: the transformer, and the subscription to its input. *)

TransformReturns ==
  /\ Inside("transform")
  /\ stack' = Pop
  /\ \/ /\ result' = "subscribed"
        /\ OuterSubscribed("result")
     \/ /\ ResultLate
        /\ result' = "late"
        /\ UNCHANGED <<out, outBy>>
  /\ UNCHANGED <<subscription, first, inner, done, error, canceled, up, in, history>>

TransformThrows ==
  /\ HandlerThrows
  /\ Inside("transform")
  /\ stack' = Pop
  /\ threw' = IF inner THEN "after" ELSE "before"
  /\ Finish("error")
  /\ UNCHANGED <<subscription, first, inner, canceled, up, result, sent, ended,
                 accepted, requests, demanded, received>>

ResultSubscribes ==
  /\ result = "late"
  /\ result' = "subscribed"
  /\ OuterSubscribed("result")
  /\ UNCHANGED <<operator, up, in, history>>

HandlerSubscribe ==
  /\ accepted # <<>>
  /\ ~inner
  /\ inner' = TRUE
  /\ in' = Started(in)
  /\ UNCHANGED <<subscription, first, done, error, canceled, stack, up, out, answer,
                 history>>

(* The handler's requests; a request without bound exceeds all payloads.   *)
(* One above MAX_REQUEST_N does not get here: the handler requests through *)
(* the Flowable that is made around subscribe(), which refuses it, so the  *)
(* cap on the request behind the first payload never differs from n.       *)
Amounts == {1, 2, MAX_REQUEST_N}
Worth(n) == IF n = MAX_REQUEST_N THEN MaxItems ELSE n

HandlerRequest(n) ==
  /\ in.active
  /\ requests < MaxRequests
  /\ requests' = requests + 1
  /\ demanded' = demanded + Worth(n)
  /\ IF first # 0
     THEN /\ first' = 0
          /\ InnerNext(Asked(in, n), first)
          /\ stack' = Push("first", n)
          /\ UNCHANGED up
     ELSE /\ in' = Asked(in, n)
          /\ up' = Asked(up, n)
          /\ UNCHANGED <<first, received, stack>>
  /\ UNCHANGED <<subscription, inner, done, error, canceled, out, answer, sent,
                 ended, threw, accepted, ending, endCalls>>

(* Mutant of RequestRest: the payload that was given is asked for again. *)
RequestAll(n) == up' = Asked(up, n)

(* The end of request(n) after the first payload: the rest of the demand. *)
RequestRest(n) ==
  up' = IF n = MAX_REQUEST_N THEN Asked(up, n)
        ELSE IF n > 1 THEN Asked(up, n - 1) ELSE up

(* Mutant of FirstReturns: an end during the hand-over is not looked for. *)
FirstOnlyRequests ==
  /\ Inside("first")
  /\ RequestRest(N)
  /\ stack' = Pop
  /\ UNCHANGED <<subscription, first, inner, done, error, canceled, in, out, answer,
                 history>>

FirstReturns ==
  /\ Inside("first")
  /\ IF done
     THEN /\ InnerEnd(IF error THEN "error" ELSE "complete")
          /\ stack' = Append(Pop, [at |-> "end", n |-> N])
          /\ UNCHANGED up
     ELSE /\ RequestRest(N)
          /\ stack' = Pop
          /\ UNCHANGED <<in, ending, endCalls>>
  /\ UNCHANGED <<subscription, first, inner, done, error, canceled, out, answer, sent,
                 ended, threw, accepted, requests, demanded, received>>

EndReturns ==
  /\ Inside("end")
  /\ RequestRest(N)
  /\ stack' = Pop
  /\ UNCHANGED <<subscription, first, inner, done, error, canceled, in, out, answer,
                 history>>

HandlerCancel ==
  /\ in.active
  /\ in' = Closed(in)
  /\ canceled' = TRUE
  /\ first' = 0
  /\ up' = Closed(up)
  /\ UNCHANGED <<subscription, inner, done, error, stack, out, answer, history>>

-----------------------------------------------------------------------------
Upstream == OnSubscribe \/ OnNext \/ OnError \/ OnComplete
Handler ==
  \/ TransformReturns \/ TransformThrows \/ ResultSubscribes
  \/ HandlerSubscribe \/ HandlerCancel
  \/ \E n \in Amounts : HandlerRequest(n)
  \/ FirstReturns \/ EndReturns

Next == Upstream \/ Handler

Spec == Init /\ [][Next]_vars
-----------------------------------------------------------------------------
(* Every variable has its type, and at most one activation of each kind     *)
(* is in progress: the transformer runs once, the first payload is given    *)
(* once.                                                                    *)
TypeOK ==
  /\ {subscription, inner, done, error, canceled} \subseteq BOOLEAN
  /\ first \in 0..MaxItems
  /\ stack \in Seq([at : {"transform", "first", "end"}, n : {0} \cup Amounts])
  /\ Len(stack) <= 2
  /\ {up, in, out} \subseteq Guards
  /\ result \in {"none", "late", "subscribed"}
  /\ outBy \in {"none", "stub", "result"}
  /\ sent \in 0..MaxItems
  /\ ended \in {"none", "complete", "error"}
  /\ threw \in {"no", "before", "after"}
  /\ accepted \in Seq(1..MaxItems)
  /\ requests \in 0..MaxRequests
  /\ demanded \in Nat
  /\ received \in Seq(1..MaxItems)
  /\ ending \in {"none", "complete", "error"}
  /\ endCalls \in Nat

(* The handler's unmet demand is exactly what the upstream still owes the   *)
(* operator, once the calls have returned: the payload that was taken to    *)
(* choose the handler counts as one of the handler's, and the operator      *)
(* neither asks for more than the handler did nor forgets a part of it.     *)
DemandForwarded ==
  /\ Idle /\ in.active /\ first = 0 /\ up.active => up.pending = in.pending
  /\ first # 0 => up.pending = 0 /\ in.pending = 0

(* The handler learns of the end of its input: when the calls have returned *)
(* and the first payload has been given, an input that is over has ended    *)
(* for the handler too, whichever of its request and the end came first.    *)
NoLostTerminal ==
  Idle /\ done /\ inner /\ first = 0 /\ ~canceled => ending # "none"

(* The requester is answered: when the upstream has sent a payload or has   *)
(* ended, and the calls have returned, outer.onSubscribe has been called or *)
(* the handler's result has yet to do it.  The one exception is a handler   *)
(* that subscribes to its input and throws afterwards: then onError speaks  *)
(* to the handler only and nobody ever answers the requester.               *)
RequesterAnswered ==
  Idle /\ (sent > 0 \/ ended # "none") =>
    out.started \/ result = "late" \/ threw = "after"

(* Without reentrant upstreams the operator ends the handler's input once.  *)
TerminalOnce == endCalls <= 1

(* The handler's subscription begins with the payload that was taken to     *)
(* choose the handler and misses none after it: what the operator accepted  *)
(* has reached the handler, through its wrapper and in order, or is the one *)
(* payload that is held until the handler's first request.  A cancel may    *)
(* forget the one that is held, and nothing else.                           *)
Held == IF first = 0 THEN <<>> ELSE <<first>>
InputInOrder ==
  /\ ~canceled => accepted = received \o Held
  /\ canceled => received \in {accepted, <<>>}

(* The end that the handler sees is the one that the operator saw, and it   *)
(* comes after every payload, also when the stream ended while the first    *)
(* payload was held or being handed over.                                   *)
EndComesLast ==
  ending # "none" =>
    /\ done
    /\ ending = IF error THEN "error" ELSE "complete"
    /\ received = accepted

(* The handler is told the end of its input, the right one and in its       *)
(* place; and every variable keeps its type on the way there.               *)
EndOfInput == TypeOK /\ NoLostTerminal /\ EndComesLast
=============================================================================
