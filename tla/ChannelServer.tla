---------------------------- MODULE ChannelServer ----------------------------
(***************************************************************************)
(* One channel through the generated metrics client and server             *)
(* (proto/metrics_rsocket_pb.js).  Between the payloads and the handler is *)
(* a QueuingFlowableProcessor, of which only the promise is used here: it  *)
(* implements DemandQueue, until the map() that decodes the payloads       *)
(* throws, which it does inside drain() and which silences the processor.  *)
(***************************************************************************)
EXTENDS Naturals, Sequences

CONSTANTS
  Messages,
  MaxMessages, MaxDemand  \* bounds
ChannelAssumption == {MaxMessages, MaxDemand} \subseteq Nat

VARIABLES
  accepted, closed, subscribed, demanded, cancelled, delivered, outcome,  \* of the processor
  messages,   \* what the client sent, the first with the method's name
  sending,    \* "open", or how it ended
  arrived,    \* how many payloads the server has
  once,
  handler,    \* "none", "running", "refused", "threw", "ended"
  requester,  \* "waiting", "subscribed", or how the answer ended
  mute        \* has a payload's decoding thrown inside drain()?
processor == <<accepted, closed, subscribed, demanded, cancelled, delivered, outcome>>
vars == <<processor, messages, sending, arrived, once, handler, requester, mute>>

Queue == INSTANCE DemandQueue WITH Values <- Messages

Init ==
  /\ Queue!Init /\ messages = <<>> /\ sending = "open" /\ arrived = 0
  /\ once = FALSE /\ handler = "none" /\ requester = "waiting"
  /\ mute = FALSE

(* The client: messages are serialized one by one. *)
Send(m) ==
  /\ sending = "open" /\ Len(messages) < MaxMessages /\ messages' = Append(messages, m)
  /\ UNCHANGED <<processor, sending, arrived, once, handler, requester, mute>>
SendEnd(how) ==
  /\ sending = "open" /\ sending' = how
  /\ UNCHANGED <<processor, messages, arrived, once, handler, requester, mute>>

(* _channelSwitch(): the handler returns a result, or an error that the    *)
(* requester is told because the metadata is missing, the method unknown,  *)
(* or the handler threw.                                                   *)
Switch ==
  /\ once' = TRUE
  /\ \/ handler' = "running" /\ requester' = "subscribed"
     \/ handler' \in {"refused", "threw"} /\ requester' = "error"

(* Mutant of OnNext: the first payload only chooses. *)
OnNextFirstTaken ==
  /\ arrived < Len(messages) /\ arrived' = arrived + 1
  /\ IF once THEN Queue!Offer(messages[arrived + 1]) /\ UNCHANGED <<once, handler, requester>>
     ELSE Switch /\ UNCHANGED processor
  /\ UNCHANGED <<messages, sending, mute>>

(* The first payload also chooses the handler. *)
OnNext ==
  /\ arrived < Len(messages) /\ arrived' = arrived + 1
  /\ IF once THEN UNCHANGED <<once, handler, requester>> ELSE Switch
  /\ Queue!Offer(messages[arrived + 1])
  /\ UNCHANGED <<messages, sending, mute>>

(* Mutant of OnEnd: an error is not passed on. *)
OnEndCompletes ==
  /\ sending = "complete" /\ arrived = Len(messages) /\ Queue!Close(sending)
  /\ UNCHANGED <<messages, sending, arrived, once, handler, requester, mute>>

(* onComplete or onError of the payloads. *)
OnEnd ==
  /\ sending # "open" /\ arrived = Len(messages) /\ Queue!Close(sending)
  /\ UNCHANGED <<messages, sending, arrived, once, handler, requester, mute>>

channel == <<messages, sending, arrived, once, handler, requester, mute>>

(* What the handler does with its input, now or later. *)
HandlerSubscribes == handler \in {"running", "threw", "ended"} /\ Queue!Subscribe /\ UNCHANGED channel
HandlerRequests(n) ==
  /\ demanded + n <= MaxDemand /\ demanded' = demanded + n
  /\ Queue!Ask /\ UNCHANGED channel
HandlerCancels == Queue!Cancel /\ UNCHANGED channel
Drain == ~mute /\ (Queue!Deliver \/ Queue!Terminate) /\ UNCHANGED channel

(* The next payload is taken out and does not decode: drain() never runs   *)
(* again (ExceptionIsFinal), and the caller gets the exception.            *)
DecodingThrows ==
  /\ ~mute /\ Queue!Live /\ Len(delivered) < demanded /\ Len(delivered) < Len(accepted)
  /\ mute' = TRUE
  /\ UNCHANGED <<processor, messages, sending, arrived, once, handler, requester>>

(* The handler's answer ends, or the requester does not want it any more.  *)
AnswerEnds(how) ==
  /\ handler = "running" /\ requester = "subscribed" /\ handler' = "ended" /\ requester' = how
  /\ UNCHANGED <<processor, messages, sending, arrived, once, mute>>

Next ==
  \/ OnNext \/ OnEnd \/ HandlerSubscribes \/ HandlerCancels \/ Drain \/ DecodingThrows
  \/ \E m \in Messages : Send(m)
  \/ \E how \in {"complete", "error"} : SendEnd(how)
  \/ \E how \in {"complete", "error", "cancelled"} : AnswerEnds(how)
  \/ \E n \in 1 .. MaxDemand : HandlerRequests(n)

Spec == Init /\ [][Next]_vars
(* Payloads arrive, and the processor drains (see QfpContract, QfpFaults). *)
FairSpec == Spec /\ WF_vars(OnNext \/ OnEnd) /\ WF_vars(Drain)
-----------------------------------------------------------------------------
(* The handler reads what the client sent from the first message on, in    *)
(* order, however late it subscribes; an end it is told is the client's,   *)
(* after the last message.                                                 *)
InputIsWhole ==
  /\ delivered = SubSeq(messages, 1, Len(delivered))
  /\ outcome # "none" => outcome = sending /\ delivered = messages

(* The requester is answered exactly when a payload has arrived: a channel *)
(* that ends empty leaves it waiting.                                      *)
AnsweredByPayload == (requester = "waiting") = (arrived = 0)

(* What the client sends, and its end, reach a handler that reads on and   *)
(* whose payloads decode; one that does not takes all the rest with it.    *)
InputArrives ==
  Len(messages) > 0 /\ sending # "open" /\ subscribed /\ demanded >= Len(messages)
    ~> cancelled \/ outcome = sending \/ mute
=============================================================================
