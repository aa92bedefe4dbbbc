---------------------------- MODULE MCServerInput ----------------------------
(***************************************************************************)
(* What a generated server is given, in one run: in a behaviour either the *)
(* metadata of a call or the payloads of a channel, which share no state.  *)
(* With four values of a byte a length is at most fifteen: one name is too *)
(* long, and so are the longest traces of two entries.                     *)
(***************************************************************************)
EXTENDS TraceContext

CONSTANTS Messages, MaxMessages, MaxDemand

VARIABLES
  part,  \* "metadata" or "channel"
  accepted, closed, subscribed, demanded, cancelled, delivered, outcome,
  messages, sending, arrived, once, handler, requester, mute

Channel == INSTANCE ChannelServer
channel ==
  <<accepted, closed, subscribed, demanded, cancelled, delivered, outcome,
    messages, sending, arrived, once, handler, requester, mute>>
ASSUME ServerInputAssumption == Channel!ChannelAssumption

MCStrings == {<<>>, <<2>>, <<1, 0>>, <<0, 2, 1>>}
MCNames == {<<>>, <<1, 2>>, <<3, 0, 1, 2, 2, 0, 0, 0, 1>>, [i \in 1 .. 16 |-> 1]}
MCBlobs == {<<>>, [i \in 1 .. 17 |-> i % 4]}

MCInit ==
  /\ part \in {"metadata", "channel"} /\ Init /\ Channel!Init
  /\ part = "channel" => <<map, service, method, metadata>> = <<<<>>, <<>>, <<>>, <<>>>>

MCNext ==
  /\ UNCHANGED part
  /\ \/ part = "metadata" /\ Next /\ UNCHANGED channel
     \/ part = "channel" /\ Channel!Next /\ UNCHANGED vars

MCSpec ==
  /\ MCInit /\ [][MCNext]_<<part, vars, channel>>
  /\ WF_channel(part = "channel" /\ (Channel!OnNext \/ Channel!OnEnd))
  /\ WF_channel(part = "channel" /\ Channel!Drain)

(* The handler reads what the client sent, and the requester is answered   *)
(* exactly when a payload has come.                                        *)
ChannelServed == Channel!InputIsWhole /\ Channel!AnsweredByPayload

(* A handler that reads on, and can decode, gets all of it.                *)
InputArrives == Channel!InputArrives
=============================================================================
