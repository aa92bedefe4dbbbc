------------------------------ MODULE RpcClient ------------------------------
(***************************************************************************)
(* RpcClient and RpcSocket: one client, one transport, and the subscribers *)
(* of the connection Single.  JavaScript runs one call at a time: `calls'  *)
(* is the stack of calls in progress, top first, and user code may call    *)
(* the client back from any of its callbacks.                              *)
(***************************************************************************)
EXTENDS Naturals, Sequences, SequencesExt

CONSTANT Subscriber      \* subscriptions of the connection Single, one each

VARIABLES
  status,      \* the transport's connection status
  connection,  \* _connection is set
  outcome,     \* what the subscriber was told
  listening,   \* those who get the transport's status changes
  sockets,     \* the owners of the RpcSockets built: each sent SETUP
  calls

vars == <<status, connection, outcome, listening, sockets, calls>>

Settled == {"CONNECTED", "ERROR", "CLOSED"}
Status == Settled \cup {"NOT_CONNECTED", "CONNECTING"}
Outcome == {"none", "pending", "cancelled", "socket", "error"}

Call(op, s) == [op |-> op, sub |-> s]
Notify(v) == [op |-> "notify", status |-> v, left |-> listening]
Idle == calls = <<>>
UserCode == IF Idle THEN TRUE ELSE calls[1].op \in {"onSubscribe", "outcome"}

Init ==
  /\ status = "NOT_CONNECTED" /\ connection = FALSE
  /\ outcome = [s \in Subscriber |-> "none"]
  /\ listening = {} /\ sockets = <<>> /\ calls = <<>>

(* client.connect(): throws, and changes nothing, once there is a          *)
(* connection Single, whatever became of it.                               *)
Connect ==
  /\ UserCode /\ ~connection
  /\ connection' = TRUE
  /\ UNCHANGED <<status, outcome, listening, sockets, calls>>

(* subscribe() of the Single, up to the subscriber's onSubscribe. *)
Subscribe(s) ==
  /\ UserCode /\ connection /\ outcome[s] = "none"
  /\ outcome' = [outcome EXCEPT ![s] = "pending"]
  /\ calls' = <<Call("onSubscribe", s)>> \o calls
  /\ UNCHANGED <<status, connection, listening, sockets>>

(* Mutant of Cancel: the status subscription is kept. *)
CancelOnlySingle(s) ==
  /\ UserCode /\ outcome[s] = "pending"
  /\ outcome' = [outcome EXCEPT ![s] = "cancelled"]
  /\ UNCHANGED <<status, connection, listening, sockets, calls>>

(* The cancel that onSubscribe hands out; it does nothing after an outcome. *)
Cancel(s) ==
  /\ UserCode /\ outcome[s] = "pending"
  /\ outcome' = [outcome EXCEPT ![s] = "cancelled"]
  /\ listening' = listening \ {s}
  /\ UNCHANGED <<status, connection, sockets, calls>>

(* The Single tells an outcome, unless it is over; `rest' is still to run. *)
Tell(s, o, rest) ==
  IF outcome[s] = "pending"
  THEN /\ outcome' = [outcome EXCEPT ![s] = o]
       /\ calls' = <<Call("outcome", s)>> \o rest
  ELSE outcome' = outcome /\ calls' = rest

(* new RpcSocket(): the machine starts to receive, SETUP is sent, then the *)
(* stream of KEEPALIVE frames.                                             *)
NewSocket(s) == sockets' = Append(sockets, s)

(* Mutant of OnStatus: nothing for CLOSED. *)
OnStatusUnlessClosed(s, v, rest) ==
  /\ listening' = listening \ {s}
  /\ IF v = "CONNECTED" THEN NewSocket(s) ELSE UNCHANGED sockets
  /\ IF v = "CLOSED" THEN outcome' = outcome /\ calls' = rest
     ELSE Tell(s, IF v = "CONNECTED" THEN "socket" ELSE "error", rest)

(* onNext of the status subscription: any settled status ends it. *)
OnStatus(s, v, rest) ==
  /\ listening' = listening \ {s}
  /\ IF v = "CONNECTED" THEN NewSocket(s) ELSE UNCHANGED sockets
  /\ Tell(s, IF v = "CONNECTED" THEN "socket" ELSE "error", rest)

(* Mutant of Listen: only later changes are listened to. *)
ListenToChanges(s) ==
  /\ ~Idle /\ Head(calls) = Call("onSubscribe", s)
  /\ calls' = <<Call("connect", s)>> \o Tail(calls)
  /\ UNCHANGED <<status, connection, outcome, sockets, listening>>

(* onSubscribe returned: request(), which is answered with the status that *)
(* the transport has; a cancelled subscription ignores the request.        *)
Listen(s) ==
  LET rest == <<Call("connect", s)>> \o Tail(calls) IN
  /\ ~Idle /\ Head(calls) = Call("onSubscribe", s)
  /\ CASE outcome[s] # "pending" ->
            calls' = rest /\ UNCHANGED <<outcome, listening, sockets>>
       [] outcome[s] = "pending" /\ status \in Settled -> OnStatus(s, status, rest)
       [] OTHER ->
            /\ calls' = rest /\ listening' = listening \cup {s}
            /\ UNCHANGED <<outcome, sockets>>
  /\ UNCHANGED <<status, connection>>

(* transport.connect(): throws unless NOT_CONNECTED, and the Single turns  *)
(* that into onError; the status subscription stays.                       *)
TransportConnect(s) ==
  /\ ~Idle /\ Head(calls) = Call("connect", s)
  /\ IF status = "NOT_CONNECTED"
     THEN status' = "CONNECTING" /\ calls' = Tail(calls) /\ UNCHANGED outcome
     ELSE status' = status /\ Tell(s, "error", Tail(calls))
  /\ UNCHANGED <<connection, listening, sockets>>

(* The transport's own events, between calls. *)
TransportSettles ==
  /\ Idle
  /\ \E v \in Settled :
       /\ \/ status = "CONNECTING"
          \/ status = "CONNECTED" /\ v # "CONNECTED"
       /\ status' = v /\ calls' = <<Notify(v)>>
  /\ UNCHANGED <<connection, outcome, listening, sockets>>

(* Mutant of Close: the status changes and nobody is told. *)
CloseQuietly ==
  /\ UserCode /\ status \notin {"ERROR", "CLOSED"}
  /\ status' = "CLOSED"
  /\ UNCHANGED <<connection, outcome, listening, sockets, calls>>

(* client.close(), also from a callback. *)
Close ==
  /\ UserCode /\ status \notin {"ERROR", "CLOSED"}
  /\ status' = "CLOSED" /\ calls' = <<Notify("CLOSED")>> \o calls
  /\ UNCHANGED <<connection, outcome, listening, sockets>>

(* The transport's loop over its status subscribers. *)
NotifyNext(s) ==
  /\ ~Idle /\ calls[1].op = "notify" /\ s \in calls[1].left \cap listening
  /\ OnStatus(s, calls[1].status, <<[calls[1] EXCEPT !.left = @ \ {s}]>> \o Tail(calls))
  /\ UNCHANGED <<status, connection>>

CallReturns ==
  /\ ~Idle
  /\ \/ calls[1].op = "outcome"
     \/ calls[1].op = "notify" /\ calls[1].left \cap listening = {}
  /\ calls' = Tail(calls)
  /\ UNCHANGED <<status, connection, outcome, listening, sockets>>

Progress == (\E s \in Subscriber : Listen(s) \/ TransportConnect(s) \/ NotifyNext(s)) \/ CallReturns

Next ==
  \/ Connect \/ Close \/ TransportSettles \/ Progress
  \/ \E s \in Subscriber : Subscribe(s) \/ Cancel(s)

Spec == Init /\ [][Next]_vars
(* Calls return, and an attempt to connect ends one way or the other: the  *)
(* transport's own timeout sees to that.                                   *)
FairSpec == Spec /\ WF_vars(Progress) /\ WF_vars(status = "CONNECTING" /\ TransportSettles)
-----------------------------------------------------------------------------
(* The types; in particular no subscription builds two sockets. *)
TypeOK ==
  /\ status \in Status /\ connection \in BOOLEAN
  /\ outcome \in [Subscriber -> Outcome]
  /\ listening \subseteq Subscriber /\ IsInjective(sockets)

(* A subscriber that cancelled, be it inside its own onSubscribe or inside *)
(* another's callback while the transport tells its subscribers, never     *)
(* makes the client build a socket and send SETUP.                         *)
NoSocketAfterCancel == \A s \in Subscriber : outcome[s] = "cancelled" => ~Contains(sockets, s)

(* No socket is built on a transport that is not connected, although the   *)
(* transport may be closed in the middle of telling that it is connected.  *)
SocketOnLiveTransport == [][sockets' # sockets => status = "CONNECTED"]_vars

(* A connected transport that no subscriber was given is the work of a     *)
(* cancel: connect() at the end of the Single runs all the same.           *)
OrphanNeedsCancel ==
  status = "CONNECTED" /\ Idle /\ (\A s \in Subscriber : outcome[s] # "socket")
    => \E s \in Subscriber : outcome[s] = "cancelled"

(* A subscription has a socket if it was told so.  The only other ones are *)
(* of subscribers who were refused because another had the transport       *)
(* connected: their status subscription stays, so that once the transport  *)
(* is connected a socket is built for them too, that nobody is given.      *)
Another(s) == \E t \in Subscriber \ {s} : outcome[t] # "none"
SetupsExplained ==
  \A s \in Subscriber :
    /\ outcome[s] = "socket" => Contains(sockets, s)
    /\ Contains(sockets, s) =>
         outcome[s] = "socket" \/ (outcome[s] = "error" /\ Another(s))

(* SETUP is sent once at most for a subscription, for each that gets the   *)
(* transport and for nobody else but those it was refused to; and nobody   *)
(* gets it only when someone has cancelled.                                *)
TransportUsed == TypeOK /\ SetupsExplained /\ OrphanNeedsCancel

(* Whoever subscribes is told an outcome, or cancels. *)
Answered == \A s \in Subscriber : outcome[s] = "pending" ~> outcome[s] # "pending"
=============================================================================
