---------------------------- MODULE RpcCall_proofs ----------------------------
(***************************************************************************)
(* Any number of calls, services and methods.  The invariant follows the   *)
(* one frame of a call that is under way: while the request is, the server *)
(* has not started; an answer under way is the server's last word.         *)
(***************************************************************************)
EXTENDS RpcCall, TLAPS

Asked(c) == request[c] # None

WireInv ==
  \A c \in Call :
    /\ ~Asked(c) => /\ client[c] = "new" /\ server[c] = "none"
                    /\ \A o \in Outcome \cup {"request", "next", "cancel"} : <<o, c>> \notin wire
    /\ Asked(c) => client[c] # "new" /\ request[c] \in Request
    /\ <<"request", c>> \in wire => server[c] = "none"
    /\ <<"cancel", c>> \in wire => client[c] \in {"cancelled", "undecodable"}
    /\ <<"next", c>> \in wire => Streaming(c) /\ server[c] \in {"running"} \cup Outcome
    /\ <<"cancelled", c>> \notin wire
    /\ <<"complete", c>> \in wire => server[c] = "complete"
    /\ <<"error", c>> \in wire => server[c] \in {"error", "refused"}

CallInv ==
  \A c \in Call : Asked(c) /\ request[c].kind # "fireAndForget" =>
    /\ client[c] = "complete" => server[c] = "complete"
    /\ client[c] = "error" => server[c] \in {"error", "refused"}
    /\ client[c] = "undecodable" => server[c] \in {"running"} \cup Outcome
    /\ server[c] = "cancelled" => client[c] \in {"cancelled", "undecodable"}

(* A request is answered for once; who has left has a cancel under way as   *)
(* long as the server has not begun, or goes on.                            *)
LeftInv ==
  \A c \in Call :
    /\ Asked(c) /\ server[c] = "none" => <<"request", c>> \in wire
    /\ client[c] \in {"cancelled", "undecodable"} /\ server[c] \in {"none", "running"} =>
         <<"cancel", c>> \in wire

OneWay == \A c \in Call : Asked(c) /\ request[c].kind = "fireAndForget" => client[c] = "complete" /\ server[c] # "running"

SpanInv ==
  \A c \in Call :
    /\ Asked(c) /\ ClientTraced /\ request[c].service # None => request[c].trace = c
    /\ server[c] = "none" => span[c] = "none" /\ ran[c] = None
    /\ span[c] # "none" =>
         /\ Asked(c) /\ parent[c] = request[c].trace
         /\ span[c] = "finished" <=> server[c] \in Outcome
         /\ server[c] \in Outcome \cup {"running", "escaped"}

IInv == TypeOK /\ WireInv /\ CallInv /\ LeftInv /\ OneWay /\ SpanInv

LEMMA NothingLeftFollows == IInv => NothingLeftRunning
<1> SUFFICES ASSUME IInv, NEW c \in Call, client[c] \notin {"new", "pending"},
                    <<"request", c>> \notin wire, <<"cancel", c>> \notin wire
             PROVE  server[c] # "running" /\ (span[c] = "open" => server[c] = "escaped")
  BY DEF NothingLeftRunning
<1>1. Asked(c) /\ client[c] \in Outcome \cup {"undecodable"}
  BY DEF IInv, TypeOK, WireInv
<1>2. server[c] # "running"
  BY <1>1 DEF IInv, CallInv, LeftInv, OneWay, Outcome
<1>3. span[c] = "open" => server[c] = "escaped"
  BY <1>2 DEF IInv, SpanInv
<1> QED BY <1>2, <1>3

LEMMA SpanOfCallFollows == IInv => SpanOfCall
BY DEF IInv, SpanInv, SpanOfCall, Asked

(* A call is made. *)
LEMMA SendStep ==
  ASSUME IInv, NEW c \in Call, NEW r \in Request, Send(c, r),
         ClientTraced /\ r.service # None => r.trace = c
  PROVE  IInv'
<1> USE CallAssumption DEF IInv, TypeOK, Send, Asked
<1>1. /\ r # None /\ request'[c] = r /\ client'[c] # "new"
      /\ client'[c] \in {"complete", "pending"}
      /\ \A d \in Call \ {c} : request'[d] = request[d] /\ client'[d] = client[d]
  BY DEF Outcome
<1>2. /\ client[c] = "new" /\ server[c] = "none" /\ span[c] = "none"
      /\ <<"cancel", c>> \notin wire
  BY DEF WireInv, CallInv, SpanInv, Outcome
<1>3. TypeOK'
  BY DEF Outcome
<1>4. WireInv'
  <2> SUFFICES ASSUME NEW d \in Call PROVE WireInv!(d)'
    BY DEF WireInv
  <2>1. CASE d = c
    BY <2>1, <1>1, <1>2 DEF WireInv, Outcome, Streaming
  <2>2. CASE d # c
    BY <2>2, <1>1 DEF WireInv, Outcome, Streaming
  <2> QED BY <2>1, <2>2
<1>5. CallInv' /\ OneWay'
  BY <1>1, <1>2 DEF CallInv, OneWay, Request
<1>6. LeftInv'
  BY <1>1, <1>2 DEF LeftInv
<1>7. SpanInv'
  BY <1>1, <1>2 DEF SpanInv
<1> QED BY <1>3, <1>4, <1>5, <1>6, <1>7

(* A request is served or refused and answered with the outcome. *)
LEMMA ServeStep ==
  ASSUME IInv, NEW c \in Call, NEW k \in Kind, Arrives(c, k), NEW o, NEW e, NEW s,
         Reply(c, e),
         \/ Accepted(c) /\ Served(c, o, s)
         \/ Refused(c) /\ o = "refused" /\ s = "none",
         o \in {"complete", "error", "running", "swallowed", "escaped", "refused"},
         s # "none" => o \in {"error", "running", "escaped"},
         e = "complete" => o = "complete", e = "error" => o \in {"error", "refused"},
         e \in {"none", "running", "complete", "error"},
         s \in {"none", "open", "finished"}, s # "none" => (s = "finished" <=> o \in Outcome),
         o = "running" => k # "fireAndForget"
  PROVE  IInv'
<1> USE CallAssumption DEF IInv, TypeOK, Asked, Outcome
<1>1. /\ server' = [server EXCEPT ![c] = o]
      /\ UNCHANGED <<registered, request, client>>
      /\ \/ span' = span /\ parent' = parent
         \/ /\ s # "none" /\ span' = [span EXCEPT ![c] = s]
            /\ parent' = [parent EXCEPT ![c] = request[c].trace]
      /\ \/ ran' = ran
         \/ /\ ran' = [ran EXCEPT ![c] = <<request[c].service, request[c].kind, request[c].method>>]
            /\ Accepted(c)
  BY DEF Served, Refused
<1>2. <<"request", c>> \in wire /\ request[c].kind = k /\ Asked(c) /\ request[c] \in Request
      /\ server[c] = "none" /\ span[c] = "none"
  BY DEF Arrives, WireInv, SpanInv
<1>3. wire' = (wire \ {<<"request", c>>}) \cup (IF e \in {"complete", "error"} THEN {<<e, c>>} ELSE {})
  BY DEF Reply
<1>4. request[c].trace \in Call \cup {None}
  BY <1>2 DEF Request
<1>5. ran' \in [Call -> (Service \X Kind \X Method) \cup {None}]
  <2>1. Accepted(c) => <<request[c].service, request[c].kind, request[c].method>> \in Service \X Kind \X Method
    BY DEF Accepted, Offered
  <2> QED BY <1>1, <2>1
<1>6. TypeOK'
  <2>1. /\ registered' \subseteq Service /\ request' \in [Call -> Request \cup {None}]
        /\ client' \in [Call -> Outcome \cup {"new", "pending", "undecodable"}]
        /\ server' \in [Call -> Outcome \cup {"none", "running", "refused", "swallowed", "escaped"}]
    BY <1>1
  <2>2. wire' \subseteq (Outcome \cup {"request", "next", "cancel"}) \X Call
    BY <1>3
  <2>4. span' \in [Call -> {"none", "open", "finished"}] /\ parent' \in [Call -> Call \cup {None}]
    BY <1>1, <1>4
  <2> QED BY <1>5, <2>1, <2>2, <2>4
<1>7. WireInv'
  <2> SUFFICES ASSUME NEW d \in Call PROVE WireInv!(d)'
    BY DEF WireInv
  <2>1. CASE d = c
    BY <2>1, <1>1, <1>2, <1>3 DEF WireInv, Streaming
  <2>2. CASE d # c
    BY <2>2, <1>1, <1>3 DEF WireInv, Streaming
  <2> QED BY <2>1, <2>2
<1>8. CallInv' /\ OneWay'
  BY <1>1, <1>2 DEF CallInv, OneWay
<1>9. SpanInv'
  <2> SUFFICES ASSUME NEW d \in Call PROVE SpanInv!(d)'
    BY DEF SpanInv
  <2>1. CASE d = c
    BY <2>1, <1>1, <1>2 DEF SpanInv
  <2>2. CASE d # c
    BY <2>2, <1>1 DEF SpanInv
  <2> QED BY <2>1, <2>2
<1>10. LeftInv'
  BY <1>1, <1>2, <1>3 DEF LeftInv
<1> QED BY <1>6, <1>7, <1>8, <1>9, <1>10

(* The four kinds of calls are answered as ServeStep has it. *)
LEMMA KindsStep == ASSUME IInv, NEW c \in Call, Serve(c) PROVE IInv'
<1>1. CASE FireAndForget(c)
  BY <1>1, ServeStep, "fireAndForget" \in Kind DEF FireAndForget, Kind, Outcome
<1>2. CASE RequestResponse(c)
  BY <1>2, ServeStep, "requestResponse" \in Kind DEF RequestResponse, Kind, Outcome
<1>3. CASE RequestStream(c)
  BY <1>3, ServeStep, "requestStream" \in Kind DEF RequestStream, Kind, Outcome
<1>4. CASE RequestChannel(c)
  BY <1>4, ServeStep, "requestChannel" \in Kind DEF RequestChannel, Kind, Outcome
<1> QED BY <1>1, <1>2, <1>3, <1>4 DEF Serve

(* The handler's result ends, by itself or by a cancel. *)
LEMMA EndsStep ==
  ASSUME IInv, NEW c \in Call, NEW o \in Outcome, Ends(c, o),
         \/ o # "cancelled" /\ wire' = wire \cup {<<o, c>>}
         \/ /\ o = "cancelled" /\ client[c] \in {"cancelled", "undecodable"}
            /\ wire' = wire \ {<<"cancel", c>>}
  PROVE  IInv'
<1> USE CallAssumption DEF IInv, TypeOK, Asked, Outcome, Ends
<1>1. Asked(c)
  BY DEF WireInv
<1>2. TypeOK'
  OBVIOUS
<1>3. WireInv'
  <2> SUFFICES ASSUME NEW d \in Call PROVE WireInv!(d)'
    BY DEF WireInv
  <2>1. CASE d = c
    BY <2>1, <1>1 DEF WireInv, Streaming
  <2>2. CASE d # c
    BY <2>2 DEF WireInv, Streaming
  <2> QED BY <2>1, <2>2
<1>4. CallInv'
  <2>1. client[c] = "complete" \/ client[c] = "error" => request[c].kind = "fireAndForget"
    BY <1>1 DEF CallInv
  <2> QED BY <2>1 DEF CallInv
<1>5. OneWay'
  BY DEF OneWay
<1>6. SpanInv'
  BY DEF SpanInv
<1>7. LeftInv'
  BY DEF LeftInv
<1> QED BY <1>2, <1>3, <1>4, <1>5, <1>6, <1>7

(* A client leaves: it cancels, or cannot decode what it is given. *)
LEMMA LeavesStep ==
  ASSUME IInv, NEW c \in Call, NEW o \in {"cancelled", "undecodable"}, ClientLeaves(c, o),
         NEW w \in SUBSET {<<"complete", c>>, <<"next", c>>}, w \subseteq wire,
         \/ wire' = (wire \ w) \cup {<<"cancel", c>>}
         \/ wire' = wire \ w /\ server[c] = "complete",
         o = "undecodable" => server[c] \in {"running"} \cup Outcome
  PROVE  IInv'
<1> USE CallAssumption DEF IInv, TypeOK, Asked, Outcome, ClientLeaves
<1>1. Asked(c) /\ request[c].kind # "fireAndForget"
  BY DEF WireInv, OneWay
<1>2. TypeOK'
  OBVIOUS
<1>3. WireInv'
  <2> SUFFICES ASSUME NEW d \in Call PROVE WireInv!(d)'
    BY DEF WireInv
  <2>1. CASE d = c
    BY <2>1, <1>1 DEF WireInv, Streaming
  <2>2. CASE d # c
    BY <2>2 DEF WireInv, Streaming
  <2> QED BY <2>1, <2>2
<1>4. CallInv' /\ OneWay'
  BY <1>1 DEF CallInv, OneWay
<1>5. LeftInv'
  <2> SUFFICES ASSUME NEW d \in Call PROVE LeftInv!(d)'
    BY DEF LeftInv
  <2>1. CASE d = c
    BY <2>1, <1>1 DEF LeftInv
  <2>2. CASE d # c
    BY <2>2 DEF LeftInv
  <2> QED BY <2>1, <2>2
<1>6. SpanInv'
  BY DEF SpanInv
<1> QED BY <1>2, <1>3, <1>4, <1>5, <1>6

LEMMA Step == IInv /\ [Next]_vars => IInv'
<1> SUFFICES ASSUME IInv, [Next]_vars PROVE IInv'
  OBVIOUS
<1>1. ASSUME NEW s \in Service, AddService(s) PROVE IInv'
  BY <1>1 DEF AddService, IInv, TypeOK, WireInv, CallInv, LeftInv, OneWay, SpanInv, Asked, Outcome, Streaming
<1>2. ASSUME NEW c \in Call, Serve(c) PROVE IInv'
  BY <1>2, KindsStep
<1>3. ASSUME NEW c \in Call, Cancel(c) PROVE IInv'
  <2>1. wire' = (wire \ {}) \cup {<<"cancel", c>>}
    BY <1>3 DEF Cancel
  <2>2. {} \in SUBSET {<<"complete", c>>, <<"next", c>>} /\ {} \subseteq wire
    OBVIOUS
  <2>3. ClientLeaves(c, "cancelled")
    BY <1>3 DEF Cancel
  <2> HIDE <1>3
  <2> QED BY <2>1, <2>2, <2>3, LeavesStep
<1>4. ASSUME NEW c \in Call, CancelArrives(c) PROVE IInv'
  <2>1. CASE Ends(c, "cancelled")
    BY <1>4, <2>1, EndsStep DEF CancelArrives, IInv, WireInv, Outcome
  <2>2. CASE server[c] # "running" /\ UNCHANGED <<registered, request, client, server, ran, span, parent>>
    <3> USE <1>4, <2>2, CallAssumption DEF CancelArrives, IInv, TypeOK, Asked, Outcome
    <3>1. TypeOK' /\ CallInv' /\ OneWay' /\ SpanInv'
      BY DEF CallInv, OneWay, SpanInv
    <3>2. WireInv'
      BY DEF WireInv, Streaming
    <3>3. LeftInv'
      <4> SUFFICES ASSUME NEW d \in Call PROVE LeftInv!(d)'
        BY DEF LeftInv
      <4>1. CASE d = c
        BY <4>1 DEF LeftInv, WireInv
      <4>2. CASE d # c
        BY <4>2 DEF LeftInv
      <4> QED BY <4>1, <4>2
    <3> QED BY <3>1, <3>2, <3>3
  <2> QED BY <1>4, <2>1, <2>2 DEF CancelArrives
<1>5. ASSUME NEW c \in Call, NEW k \in Kind, NoMetadata(c, k) PROVE IInv'
  BY <1>5, SendStep DEF NoMetadata, Request
<1>6. ASSUME NEW c \in Call, NEW k \in Kind, NEW s \in Service, NEW m \in Method, Stub(c, s, k, m)
      PROVE  IInv'
  BY <1>6, SendStep DEF Stub, Request
<1>7. ASSUME NEW c \in Call, NEW o \in {"complete", "error"}, HandlerEnds(c, o) PROVE IInv'
  BY <1>7, EndsStep DEF HandlerEnds, Outcome
<1>8. ASSUME NEW c \in Call, NEW o \in {"complete", "error"}, ClientTold(c, o) PROVE IInv'
  <2> USE <1>8, CallAssumption DEF ClientTold, IInv, TypeOK, Asked, Outcome
  <2>1. TypeOK'
    OBVIOUS
  <2>2. WireInv'
    <3> SUFFICES ASSUME NEW d \in Call PROVE WireInv!(d)'
      BY DEF WireInv
    <3>1. CASE d = c
      BY <3>1 DEF WireInv, Streaming
    <3>2. CASE d # c
      BY <3>2 DEF WireInv, Streaming
    <3> QED BY <3>1, <3>2
  <2>3. CallInv'
    BY DEF CallInv, WireInv
  <2>4. OneWay' /\ LeftInv'
    BY DEF OneWay, LeftInv
  <2>5. SpanInv'
    BY DEF SpanInv
  <2> QED BY <2>1, <2>2, <2>3, <2>4, <2>5
<1>9. ASSUME NEW c \in Call, HandlerNext(c) \/ ClientNext(c) PROVE IInv'
  <2>1. /\ wire' = wire \cup {<<"next", c>>} /\ server[c] = "running" /\ Streaming(c)
        \/ wire' = wire \ {<<"next", c>>}
    BY <1>9 DEF HandlerNext, ClientNext
  <2>2. UNCHANGED <<registered, request, client, server, ran, span, parent>>
    BY <1>9 DEF HandlerNext, ClientNext
  <2> USE <2>1, <2>2, CallAssumption DEF IInv, TypeOK, Asked, Outcome
  <2>3. TypeOK' /\ CallInv' /\ OneWay' /\ SpanInv'
    BY DEF CallInv, OneWay, SpanInv
  <2>4. WireInv'
    <3> SUFFICES ASSUME NEW d \in Call PROVE WireInv!(d)'
      BY DEF WireInv
    <3>1. CASE d = c
      BY <3>1 DEF WireInv, Streaming
    <3>2. CASE d # c
      BY <3>2 DEF WireInv, Streaming
    <3> QED BY <3>1, <3>2
  <2>5. LeftInv'
    <3>1. \A d \in Call, k \in {"request", "cancel"} : <<k, d>> \in wire' <=> <<k, d>> \in wire
      OBVIOUS
    <3> QED BY <3>1 DEF LeftInv
  <2> QED BY <2>3, <2>4, <2>5
<1>10. ASSUME NEW c \in Call, Undecodable(c) PROVE IInv'
  <2>1. CASE <<"complete", c>> \in wire /\ wire' = wire \ {<<"complete", c>>}
    <3>1. server[c] = "complete"
      BY <2>1 DEF IInv, WireInv
    <3> QED BY <1>10, <2>1, <3>1, LeavesStep DEF Undecodable, Outcome
  <2>2. CASE <<"next", c>> \in wire /\ wire' = (wire \ {<<"next", c>>}) \cup {<<"cancel", c>>}
    <3>1. server[c] \in {"running"} \cup Outcome
      BY <2>2 DEF IInv, WireInv
    <3>2. /\ {<<"next", c>>} \in SUBSET {<<"complete", c>>, <<"next", c>>}
          /\ {<<"next", c>>} \subseteq wire
      BY <2>2
    <3>3. ClientLeaves(c, "undecodable")
      BY <1>10 DEF Undecodable
    <3>4. wire' = (wire \ {<<"next", c>>}) \cup {<<"cancel", c>>}
      BY <2>2
    <3> HIDE <1>10, <2>2
    <3> QED BY <3>1, <3>2, <3>3, <3>4, LeavesStep
  <2> QED BY <1>10, <2>1, <2>2 DEF Undecodable
<1>11. CASE UNCHANGED vars
  BY <1>11 DEF vars, IInv, TypeOK, WireInv, CallInv, LeftInv, OneWay, SpanInv, Asked, Streaming
<1> QED BY <1>1, <1>2, <1>3, <1>4, <1>5, <1>6, <1>7, <1>8, <1>9, <1>10, <1>11 DEF Next

(* Of every behaviour: frames, client and server agree on each call. *)
THEOREM Invariance == Spec => []IInv
<1>1. Init => IInv
  BY CallAssumption
  DEF Init, IInv, TypeOK, WireInv, CallInv, LeftInv, OneWay, SpanInv, Asked, Outcome
<1>2. IInv /\ [Next]_vars => IInv'
  BY Step
<1> QED BY <1>1, <1>2, PTL DEF Spec

(* No handler and no span is left behind by a client that is through. *)
THEOREM NothingIsLeftRunning == Spec => []NothingLeftRunning
<1> QED BY NothingLeftFollows, Invariance, PTL

(* The client is told what became of the call at the server. *)
THEOREM ClientToldServersOutcome == Spec => []OutcomeIsServers
<1>1. IInv => OutcomeIsServers
  BY DEF IInv, CallInv, OutcomeIsServers, Asked
<1> QED BY <1>1, Invariance, PTL

(* A server's span is a child of its own call's span and ends with it. *)
THEOREM SpansBelongToCalls == Spec => []SpanOfCall
<1> QED BY SpanOfCallFollows, Invariance, PTL
===============================================================================
