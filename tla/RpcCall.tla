------------------------------- MODULE RpcCall -------------------------------
(***************************************************************************)
(* Calls through generated code: the client stub that js_generator.cc      *)
(* prints, the metadata that names service, method and trace, the dispatch *)
(* by RequestHandlingRSocket and the generated server, and the way back.   *)
(* Also foreign clients, of another version of the service or without      *)
(* metadata.  A call is one subscription of what a stub returns.           *)
(***************************************************************************)
EXTENDS Naturals, FiniteSets

CONSTANTS
  Call, Service, Method,
  Offers,         \* <<service, kind, method>> that generated servers implement
  ClientTraced, ServerTraced,
  None

Kind == {"fireAndForget", "requestResponse", "requestStream", "requestChannel"}
Request == [service : Service \cup {None}, kind : Kind, method : Method \cup {None}, trace : Call \cup {None}]
ASSUME CallAssumption ==
  /\ Offers \subseteq Service \X Kind \X Method /\ {ClientTraced, ServerTraced} \subseteq BOOLEAN
  /\ None \notin Call \cup Service \cup Method \cup Request

VARIABLES
  registered,  \* services of the RequestHandlingRSocket
  request,     \* what each call asks for
  client,      \* how the call stands at the client
  wire,        \* frames in flight: pairs of kind and call
  server,      \* how it stands at the server
  ran,         \* the handler that ran for it
  span, parent \* the server's span of the call

vars == <<registered, request, client, wire, server, ran, span, parent>>

Outcome == {"complete", "error", "cancelled"}

Init ==
  /\ registered = {} /\ wire = {}
  /\ request = [c \in Call |-> None] /\ ran = [c \in Call |-> None]
  /\ client = [c \in Call |-> "new"] /\ server = [c \in Call |-> "none"]
  /\ span = [c \in Call |-> "none"] /\ parent = [c \in Call |-> None]

(* addService(): from now on, also for calls under way. *)
AddService(s) ==
  /\ s \notin registered /\ registered' = registered \cup {s}
  /\ UNCHANGED <<request, client, wire, server, ran, span, parent>>

Send(c, r) ==
  /\ client[c] = "new" /\ request' = [request EXCEPT ![c] = r]
  /\ client' = [client EXCEPT ![c] = IF r.kind = "fireAndForget" THEN "complete" ELSE "pending"]
  /\ wire' = wire \cup {<<"request", c>>}
  /\ UNCHANGED <<registered, server, ran, span, parent>>

(* Mutant of Stub: the metadata is built when the stub is called. *)
StubTooEarly(c, s, k, m) == Send(c, [service |-> s, kind |-> k, method |-> m, trace |-> None])

(* A stub: the span is made first and injects its context in the map that  *)
(* the metadata is then built from.                                        *)
Stub(c, s, k, m) ==
  Send(c, [service |-> s, kind |-> k, method |-> m, trace |-> IF ClientTraced THEN c ELSE None])

(* A client that is not generated, here one that sends no metadata. *)
NoMetadata(c, k) == Send(c, [service |-> None, kind |-> k, method |-> None, trace |-> None])

(* The end of the answer reaches the client, behind its values. *)
ClientTold(c, o) ==
  /\ <<o, c>> \in wire /\ <<"next", c>> \notin wire /\ wire' = wire \ {<<o, c>>}
  /\ client' = [client EXCEPT ![c] = IF @ = "pending" THEN o ELSE @]
  /\ UNCHANGED <<registered, request, server, ran, span, parent>>

ClientLeaves(c, o) ==
  /\ client[c] = "pending" /\ client' = [client EXCEPT ![c] = o]
  /\ UNCHANGED <<registered, request, server, ran, span, parent>>

Cancel(c) == ClientLeaves(c, "cancelled") /\ wire' = wire \cup {<<"cancel", c>>}

Streaming(c) == request[c].kind \in {"requestStream", "requestChannel"}

(* A value of a stream or channel, and a client that has left already. *)
ClientNext(c) ==
  /\ <<"next", c>> \in wire /\ wire' = wire \ {<<"next", c>>}
  /\ UNCHANGED <<registered, request, client, server, ran, span, parent>>

(* The stub's map() cannot decode an answer: the client is told an error   *)
(* that the server knows nothing of.  A stream is cancelled with it.       *)
Undecodable(c) ==
  /\ ClientLeaves(c, "undecodable")
  /\ \/ <<"complete", c>> \in wire /\ ~Streaming(c) /\ wire' = wire \ {<<"complete", c>>}
     \/ <<"next", c>> \in wire /\ wire' = (wire \ {<<"next", c>>}) \cup {<<"cancel", c>>}

(* RequestHandlingRSocket: by the service in the metadata. *)
Found(r) == r.service # None /\ r.service \in registered

(* Mutant of Offered: a method is found whatever kind of call it is. *)
OfferedAnyKind(r) == r.method # None /\ \E k \in Kind : <<r.service, k, r.method>> \in Offers

(* The generated server: "not implemented", "metadata is empty", "unknown  *)
(* method" or the handler.                                                 *)
Offered(r) == r.method # None /\ <<r.service, r.kind, r.method>> \in Offers

Arrives(c, k) == <<"request", c>> \in wire /\ request[c].kind = k

(* The server answers the call, or not (no frame for a cancelled one). *)
Reply(c, o) == wire' = (wire \ {<<"request", c>>}) \cup (IF o \in {"complete", "error"} THEN {<<o, c>>} ELSE {})

(* How a call that arrives ends up: refused, or the handler runs, inside   *)
(* span s, with outcome o.                                                 *)
Served(c, o, s) ==
  /\ server' = [server EXCEPT ![c] = o]
  /\ ran' = [ran EXCEPT ![c] = <<request[c].service, request[c].kind, request[c].method>>]
  /\ IF ServerTraced /\ s # "none"
     THEN span' = [span EXCEPT ![c] = s] /\ parent' = [parent EXCEPT ![c] = request[c].trace]
     ELSE UNCHANGED <<span, parent>>
  /\ UNCHANGED <<registered, request, client>>

Refused(c) ==
  /\ ~(Found(request[c]) /\ Offered(request[c]))
  /\ server' = [server EXCEPT ![c] = "refused"]
  /\ UNCHANGED <<registered, request, client, ran, span, parent>>

Accepted(c) == Found(request[c]) /\ Offered(request[c])

(* The handler runs inside the Single that is handed to Metrics; Trace is  *)
(* applied to the result of its subscribe(), so there is no span.  An      *)
(* exception ends in a subscriber without onError.                         *)
FireAndForget(c) ==
  /\ Arrives(c, "fireAndForget") /\ Reply(c, "none")
  /\ \/ Refused(c)
     \/ Accepted(c) /\ Served(c, "complete", "none")
     \/ Accepted(c) /\ Served(c, "swallowed", "none")

(* Mutant of RequestResponse: an exception is lost. *)
ResponseLost(c) ==
  /\ Arrives(c, "requestResponse")
  /\ \/ Refused(c) /\ Reply(c, "error")
     \/ Accepted(c) /\ Served(c, "running", "open") /\ Reply(c, "running")
     \/ Accepted(c) /\ Served(c, "error", "finished") /\ Reply(c, "none")

(* The handler runs inside the traced Single: what it throws is an error. *)
RequestResponse(c) ==
  /\ Arrives(c, "requestResponse")
  /\ \/ Refused(c) /\ Reply(c, "error")
     \/ Accepted(c) /\ Served(c, "running", "open") /\ Reply(c, "running")
     \/ Accepted(c) /\ Served(c, "error", "finished") /\ Reply(c, "error")

(* Mutant of RequestStream: what is not found is an empty stream. *)
UnknownIsEmpty(c) ==
  /\ Arrives(c, "requestStream")
  /\ \/ Refused(c) /\ Reply(c, "complete")
     \/ Accepted(c) /\ Served(c, "running", "open") /\ Reply(c, "running")
     \/ Accepted(c) /\ Served(c, "escaped", "open") /\ Reply(c, "none")

(* The handler runs inside the traced Flowable, which lets an exception    *)
(* out to the caller of subscribe().                                       *)
RequestStream(c) ==
  /\ Arrives(c, "requestStream")
  /\ \/ Refused(c) /\ Reply(c, "error")
     \/ Accepted(c) /\ Served(c, "running", "open") /\ Reply(c, "running")
     \/ Accepted(c) /\ Served(c, "escaped", "open") /\ Reply(c, "none")

(* The first payload decides, in two SwitchTransformOperators; the handler *)
(* runs before its answer is traced.  What it throws is answered, unless   *)
(* it has subscribed to its input by then: it goes there, or nowhere.      *)
RequestChannel(c) ==
  /\ Arrives(c, "requestChannel")
  /\ \/ Refused(c) /\ Reply(c, "error")
     \/ Accepted(c) /\ Served(c, "running", "open") /\ Reply(c, "running")
     \/ Accepted(c) /\ Served(c, "error", "none") /\ Reply(c, "error")
     \/ Accepted(c) /\ Served(c, "escaped", "none") /\ Reply(c, "none")

(* What the handler returned ends; a cancel that arrives stops it. *)
Ends(c, o) ==
  /\ server[c] = "running" /\ server' = [server EXCEPT ![c] = o]
  /\ span' = [span EXCEPT ![c] = IF @ = "open" THEN "finished" ELSE @]
  /\ UNCHANGED <<registered, request, client, ran, parent>>

HandlerEnds(c, o) == Ends(c, o) /\ wire' = wire \cup {<<o, c>>}

HandlerNext(c) ==
  /\ server[c] = "running" /\ Streaming(c) /\ wire' = wire \cup {<<"next", c>>}
  /\ UNCHANGED <<registered, request, client, server, ran, span, parent>>

(* Mutant of CancelArrives: it stops what runs already, or nothing. *)
CancelOvertakes(c) ==
  /\ <<"cancel", c>> \in wire /\ wire' = wire \ {<<"cancel", c>>}
  /\ \/ Ends(c, "cancelled")
     \/ server[c] # "running" /\ UNCHANGED <<registered, request, client, server, ran, span, parent>>

CancelArrives(c) ==
  /\ <<"cancel", c>> \in wire /\ <<"request", c>> \notin wire /\ wire' = wire \ {<<"cancel", c>>}
  /\ \/ Ends(c, "cancelled")
     \/ server[c] # "running" /\ UNCHANGED <<registered, request, client, server, ran, span, parent>>

Serve(c) == FireAndForget(c) \/ RequestResponse(c) \/ RequestStream(c) \/ RequestChannel(c)

Next ==
  \/ \E s \in Service : AddService(s)
  \/ \E c \in Call :
       \/ Serve(c) \/ Cancel(c) \/ CancelArrives(c)
       \/ HandlerNext(c) \/ ClientNext(c) \/ Undecodable(c)
       \/ \E k \in Kind : NoMetadata(c, k) \/ \E s \in Service, m \in Method : Stub(c, s, k, m)
       \/ \E o \in {"complete", "error"} : HandlerEnds(c, o) \/ ClientTold(c, o)

Spec == Init /\ [][Next]_vars
(* Frames arrive and handlers end. *)
FairSpec ==
  Spec /\ \A c \in Call : WF_vars(Serve(c)) /\ WF_vars(CancelArrives(c)) /\ WF_vars(ClientNext(c))
    /\ WF_vars(\E o \in {"complete", "error"} : HandlerEnds(c, o))
    /\ WF_vars(\E o \in {"complete", "error"} : ClientTold(c, o))
-----------------------------------------------------------------------------
TypeOK ==
  /\ registered \subseteq Service
  /\ request \in [Call -> Request \cup {None}]
  /\ client \in [Call -> Outcome \cup {"new", "pending", "undecodable"}]
  /\ server \in [Call -> Outcome \cup {"none", "running", "refused", "swallowed", "escaped"}]
  /\ wire \subseteq (Outcome \cup {"request", "next", "cancel"}) \X Call
  /\ ran \in [Call -> (Service \X Kind \X Method) \cup {None}]
  /\ span \in [Call -> {"none", "open", "finished"}] /\ parent \in [Call -> Call \cup {None}]

(* When the client is through with a call - answered, cancelled, or unable *)
(* to decode - and neither request nor cancel of it is under way any more, *)
(* no handler goes on for nobody, and no span is open but that of one that *)
(* threw: however a cancel crosses the request, the values and the answer. *)
NothingLeftRunning ==
  \A c \in Call :
    client[c] \notin {"new", "pending"} /\ {<<"request", c>>, <<"cancel", c>>} \cap wire = {} =>
      /\ server[c] # "running"
      /\ span[c] = "open" => server[c] = "escaped"

(* The client's outcome is the server's: complete only of a handler that   *)
(* completed, an error of one that failed or that was not found; and what  *)
(* it cannot decode comes from a handler that has run.  The server thinks  *)
(* it cancelled only when it was, or could not decode a value.             *)
OutcomeIsServers ==
  \A c \in Call : request[c] # None /\ request[c].kind # "fireAndForget" =>
    /\ client[c] = "complete" => server[c] = "complete"
    /\ client[c] = "error" => server[c] \in {"error", "refused"}
    /\ client[c] = "undecodable" => server[c] \in {"running"} \cup Outcome
    /\ server[c] = "cancelled" => client[c] \in {"cancelled", "undecodable"}

(* The server's span is a child of the span that the stub made for this    *)
(* very call, and once the server is through with the call it is finished. *)
SpanOfCall ==
  \A c \in Call : span[c] # "none" =>
    /\ parent[c] = request[c].trace /\ (ClientTraced /\ request[c].service # None => parent[c] = c)
    /\ span[c] = "finished" <=> server[c] \in Outcome

(* Every call that waits for an answer gets one, or leaves; except that of *)
(* a stream's or a channel's handler that throws when it is called, in a   *)
(* channel after it has subscribed to its input.                           *)
Answered ==
  \A c \in Call :
    client[c] = "pending" ~> client[c] # "pending" \/ (server[c] = "escaped" /\ Streaming(c))
=============================================================================
