--------------------------- MODULE RpcClient_proofs ---------------------------
(***************************************************************************)
(* Who may have a socket, for any number of subscribers, however the calls *)
(* nest.  IInv ties the owners of sockets to what they were told, with     *)
(* nothing assumed of the stack: a listener may have been told an error by *)
(* the transport's refusal to connect twice and still be given a socket    *)
(* that nobody asks it for; a cancelled one may not.  That no socket is    *)
(* built on a lost connection needs the stack (Loops, below), and that a   *)
(* connection is given to somebody needs more of it (Heard).               *)
(***************************************************************************)
EXTENDS RpcClient, SequenceTheorems, TLAPS

Owns(s) == Contains(sockets, s)

IInv ==
  /\ TypeOK
  /\ sockets \in Seq(Subscriber)
  /\ \A s \in listening : outcome[s] \in {"pending", "error"} /\ ~Owns(s)
  /\ \A s \in Subscriber : Owns(s) => outcome[s] \in {"socket", "error"}

(* One more socket for a subscriber that has none. *)
LEMMA OneMoreSocket ==
  ASSUME NEW s \in Subscriber, sockets \in Seq(Subscriber), IsInjective(sockets),
         ~Owns(s), NewSocket(s)
  PROVE  /\ sockets' \in Seq(Subscriber) /\ IsInjective(sockets')
         /\ \A r \in Subscriber : Owns(r)' <=> Owns(r) \/ r = s
<1>1. /\ sockets' \in Seq(Subscriber) /\ Len(sockets') = Len(sockets) + 1
      /\ \A i \in 1 .. Len(sockets) : sockets'[i] = sockets[i]
      /\ sockets'[Len(sockets) + 1] = s
  BY AppendProperties DEF NewSocket
<1>2. Len(sockets) \in Nat /\ DOMAIN sockets = 1 .. Len(sockets) /\ DOMAIN sockets' = 1 .. Len(sockets')
  BY <1>1, LenProperties
<1>3. \A i \in 1 .. Len(sockets) : sockets[i] # s
  BY DEF Owns, Contains
<1>4. IsInjective(sockets')
  BY <1>1, <1>2, <1>3 DEF IsInjective
<1>5. ASSUME NEW r \in Subscriber PROVE Owns(r)' <=> Owns(r) \/ r = s
  BY <1>1, <1>2 DEF Owns, Contains
<1> QED BY <1>1, <1>4, <1>5

(* A status is passed on only to those who may still get a socket. *)
LEMMA StatusPassed ==
  ASSUME IInv, NEW s \in Subscriber, NEW v, NEW rest, OnStatus(s, v, rest),
         outcome[s] \in {"pending", "error"}, ~Owns(s),
         UNCHANGED <<status, connection>>
  PROVE  IInv'
<1> USE DEF IInv, TypeOK, Outcome
<1>1. /\ outcome' \in [Subscriber -> Outcome] /\ listening' = listening \ {s}
      /\ \A r \in Subscriber \ {s} : outcome'[r] = outcome[r]
      /\ outcome'[s] \in {"socket", "error"}
  BY DEF OnStatus, Tell
<1>2. CASE v = "CONNECTED"
  <2>1. NewSocket(s)
    BY <1>2 DEF OnStatus
  <2>2. /\ sockets' \in Seq(Subscriber) /\ IsInjective(sockets')
        /\ \A r \in Subscriber : Owns(r)' <=> Owns(r) \/ r = s
    BY <2>1, OneMoreSocket
  <2> QED BY <1>1, <2>2
<1>3. CASE v # "CONNECTED"
  BY <1>1, <1>3 DEF OnStatus, Owns
<1> QED BY <1>2, <1>3

(* Every step keeps the invariant. *)
LEMMA Step == IInv /\ [Next]_vars => IInv'
<1> SUFFICES ASSUME IInv, [Next]_vars PROVE IInv'
  OBVIOUS
<1> USE DEF IInv, TypeOK, Status, Settled, Outcome, Owns
<1>1. CASE Connect
  BY <1>1 DEF Connect
<1>2. CASE Close
  BY <1>2 DEF Close
<1>3. CASE TransportSettles
  BY <1>3 DEF TransportSettles
<1>4. CASE CallReturns
  BY <1>4 DEF CallReturns
<1>5. ASSUME NEW s \in Subscriber, Listen(s) PROVE IInv'
  <2>1. CASE outcome[s] # "pending"
    BY <1>5, <2>1 DEF Listen
  <2>2. CASE outcome[s] = "pending" /\ status \in Settled
    <3>1. OnStatus(s, status, <<Call("connect", s)>> \o Tail(calls))
      BY <1>5, <2>2 DEF Listen
    <3>2. ~Owns(s) /\ UNCHANGED <<status, connection>>
      BY <1>5, <2>2 DEF Listen
    <3> HIDE DEF IInv, Owns
    <3> QED BY <2>2, <3>1, <3>2, StatusPassed
  <2>3. CASE outcome[s] = "pending" /\ status \notin Settled
    BY <1>5, <2>3 DEF Listen
  <2> QED BY <2>1, <2>2, <2>3
<1>6. ASSUME NEW s \in Subscriber, TransportConnect(s) PROVE IInv'
  BY <1>6 DEF TransportConnect, Tell
<1>7. ASSUME NEW s \in Subscriber, NotifyNext(s) PROVE IInv'
  <2>1. /\ s \in listening /\ outcome[s] \in {"pending", "error"} /\ ~Owns(s)
        /\ UNCHANGED <<status, connection>>
    BY <1>7 DEF NotifyNext
  <2>2. OnStatus(s, calls[1].status, <<[calls[1] EXCEPT !.left = @ \ {s}]>> \o Tail(calls))
    BY <1>7 DEF NotifyNext
  <2> HIDE DEF IInv, Owns
  <2> QED BY <2>1, <2>2, StatusPassed
<1>8. ASSUME NEW s \in Subscriber, Subscribe(s) PROVE IInv'
  BY <1>8 DEF Subscribe
<1>9. ASSUME NEW s \in Subscriber, Cancel(s) PROVE IInv'
  BY <1>9 DEF Cancel
<1>10. CASE UNCHANGED vars
  BY <1>10 DEF vars
<1> QED BY <1>1, <1>2, <1>3, <1>4, <1>5, <1>6, <1>7, <1>8, <1>9, <1>10 DEF Next, Progress

(* Of every behaviour: the types, one socket at most for a subscriber, and *)
(* owners that were told a socket or an error.                             *)
THEOREM Invariance == Spec => []IInv
<1>1. Init => IInv
  <2> SUFFICES ASSUME Init PROVE IInv
    OBVIOUS
  <2>1. sockets \in Seq(Subscriber) /\ IsInjective(sockets) /\ \A s : ~Owns(s)
    BY EmptySeq DEF Init, IsInjective, Owns, Contains
  <2> QED BY <2>1 DEF Init, IInv, TypeOK, Status, Outcome, Settled
<1>2. IInv /\ [Next]_vars => IInv'
  BY Step
<1> QED BY <1>1, <1>2, PTL DEF Spec

(* No subscription ever builds a second socket and sends SETUP again. *)
THEOREM TypeCorrect == Spec => []TypeOK
<1>1. IInv => TypeOK
  BY DEF IInv
<1> QED BY <1>1, Invariance, PTL

(* For any number of subscribers and any nesting of callbacks: whoever has *)
(* cancelled never makes the client build a socket.                        *)
THEOREM CancelledGetNoSocket == Spec => []NoSocketAfterCancel
<1>1. IInv => NoSocketAfterCancel
  BY DEF IInv, NoSocketAfterCancel, Owns
<1> QED BY <1>1, Invariance, PTL

-----------------------------------------------------------------------------
(* Where sockets are built.  This does need the stack: a loop that tells an *)
(* old status, because close() was called inside of it, finds no listeners *)
(* any more when it goes on.                                               *)

Frames ==
  [op : {"onSubscribe", "connect", "outcome"}, sub : Subscriber]
    \cup [op : {"notify"}, status : Settled, left : SUBSET Subscriber]

NoLoop(s) == \A j \in 1..Len(s) : s[j].op # "notify"

(* Loops on stack s with another status than v are below one that has v    *)
(* and that tells all the listeners l, unless there are none.              *)
Overtaken(s, l, v) ==
  \A j \in 1..Len(s) :
    s[j].op = "notify" /\ s[j].status # v =>
      \/ l = {}
      \/ \E i \in 1..j - 1 : s[i].op = "notify" /\ s[i].status = v /\ l \subseteq s[i].left

Loops ==
  /\ calls \in Seq(Frames)
  /\ status \notin Settled => NoLoop(calls)
  /\ Overtaken(calls, listening, status)

LEMMA Pushed ==
  ASSUME NEW s \in Seq(Frames), NEW f \in Frames
  PROVE  /\ <<f>> \o s \in Seq(Frames) /\ Len(<<f>> \o s) = Len(s) + 1
         /\ (<<f>> \o s)[1] = f
         /\ \A i \in 1..Len(s) : (<<f>> \o s)[i + 1] = s[i]
BY ConcatProperties, LenProperties

LEMMA Popped ==
  ASSUME NEW s \in Seq(Frames), s # <<>>
  PROVE  /\ Len(s) \in Nat \ {0} /\ s[1] \in Frames
         /\ Tail(s) \in Seq(Frames) /\ Len(Tail(s)) = Len(s) - 1
         /\ \A i \in 1..Len(s) - 1 : Tail(s)[i] = s[i + 1]
<1>1. Len(s) \in Nat \ {0}
  BY EmptySeq, LenProperties
<1>2. s[1] \in Frames
  BY <1>1, ElementOfSeq
<1> QED BY <1>1, <1>2, HeadTailProperties

(* A call is put on top, or a loop that tells the present status. *)
LEMMA OvertakenPush ==
  ASSUME NEW s \in Seq(Frames), NEW f \in Frames, NEW l, NEW v, Overtaken(s, l, v),
         f.op = "notify" => f.status = v
  PROVE  Overtaken(<<f>> \o s, l, v)
<1> DEFINE t == <<f>> \o s
<1>1. Len(s) \in Nat /\ Len(t) = Len(s) + 1 /\ t[1] = f
      /\ \A i \in 1..Len(s) : t[i + 1] = s[i]
  BY Pushed, LenProperties
<1> HIDE DEF t
<1>2. ASSUME NEW j \in 1..Len(t), t[j].op = "notify", t[j].status # v, l # {}
      PROVE  \E i \in 1..j - 1 : t[i].op = "notify" /\ t[i].status = v /\ l \subseteq t[i].left
  <2>1. j # 1
    BY <1>1, <1>2
  <2>2. j - 1 \in 1..Len(s) /\ t[j] = s[j - 1]
    <3>1. j - 1 \in 1..Len(s) /\ (j - 1) + 1 = j
      BY <1>1, <2>1
    <3> QED BY <1>1, <3>1
  <2>3. PICK i \in 1..(j - 1) - 1 : s[i].op = "notify" /\ s[i].status = v /\ l \subseteq s[i].left
    BY <1>2, <2>2 DEF Overtaken
  <2>4. i + 1 \in 1..j - 1 /\ t[i + 1] = s[i]
    BY <1>1, <2>2
  <2> QED BY <2>3, <2>4
<1> QED BY <1>2 DEF Overtaken, t

(* A new loop that tells all listeners overtakes all others. *)
LEMMA OvertakenByNew ==
  ASSUME NEW s \in Seq(Frames), NEW f \in Frames, NEW l, NEW v,
         f.op = "notify", f.status = v, l \subseteq f.left
  PROVE  Overtaken(<<f>> \o s, l, v)
<1> DEFINE t == <<f>> \o s
<1>1. Len(t) \in Nat /\ t[1] = f
  BY Pushed, LenProperties
<1> HIDE DEF t
<1>2. ASSUME NEW j \in 1..Len(t), t[j].op = "notify", t[j].status # v
      PROVE  \E i \in 1..j - 1 : t[i].op = "notify" /\ t[i].status = v /\ l \subseteq t[i].left
  <2>1. 1 \in 1..j - 1
    BY <1>1, <1>2
  <2> QED BY <1>1, <2>1
<1> QED BY <1>2 DEF Overtaken, t

(* The call on top returns: a loop, when it has told all listeners. *)
LEMMA OvertakenPop ==
  ASSUME NEW s \in Seq(Frames), s # <<>>, NEW l, NEW v, Overtaken(s, l, v),
         s[1].op = "notify" => s[1].left \cap l = {}
  PROVE  Overtaken(Tail(s), l, v)
<1> DEFINE t == Tail(s)
<1>1. Len(s) \in Nat \ {0} /\ Len(t) = Len(s) - 1 /\ \A i \in 1..Len(s) - 1 : t[i] = s[i + 1]
  BY Popped
<1> HIDE DEF t
<1>2. ASSUME NEW j \in 1..Len(t), t[j].op = "notify", t[j].status # v, l # {}
      PROVE  \E i \in 1..j - 1 : t[i].op = "notify" /\ t[i].status = v /\ l \subseteq t[i].left
  <2>1. j + 1 \in 1..Len(s) /\ t[j] = s[j + 1]
    BY <1>1
  <2>2. PICK i \in 1..(j + 1) - 1 : s[i].op = "notify" /\ s[i].status = v /\ l \subseteq s[i].left
    BY <1>2, <2>1 DEF Overtaken
  <2>3. i # 1
    BY <1>2, <2>2
  <2>4. i - 1 \in 1..j - 1 /\ t[i - 1] = s[i]
    <3>1. i - 1 \in 1..j - 1 /\ i - 1 \in 1..Len(s) - 1 /\ (i - 1) + 1 = i
      BY <1>1, <2>1, <2>3
    <3> QED BY <1>1, <3>1
  <2> QED BY <2>2, <2>4
<1> QED BY <1>2 DEF Overtaken, t

(* The loop on top has told one listener, who listens no longer. *)
LEMMA OvertakenTold ==
  ASSUME NEW s \in Seq(Frames), s # <<>>, NEW x, NEW l, NEW v, Overtaken(s, l, v),
         s[1].op = "notify", x \in l
  PROVE  Overtaken(<<[s[1] EXCEPT !.left = @ \ {x}]>> \o Tail(s), l \ {x}, v)
<1> DEFINE f == [s[1] EXCEPT !.left = @ \ {x}]
           t == <<f>> \o Tail(s)
<1>1. Len(s) \in Nat \ {0} /\ s[1] \in Frames /\ Tail(s) \in Seq(Frames)
      /\ Len(Tail(s)) = Len(s) - 1 /\ \A i \in 1..Len(s) - 1 : Tail(s)[i] = s[i + 1]
  BY Popped
<1>2. s[1] \in [op : {"notify"}, status : Settled, left : SUBSET Subscriber]
  BY <1>1 DEF Frames
<1>3. f \in Frames /\ f.op = "notify" /\ f.status = s[1].status /\ f.left = s[1].left \ {x}
  BY <1>2 DEF Frames
<1> HIDE DEF f
<1>4. Len(t) = Len(s) /\ t[1] = f /\ \A i \in 1..Len(s) : i # 1 => t[i] = s[i]
  <2>1. Len(t) = (Len(s) - 1) + 1 /\ t[1] = f /\ \A i \in 1..Len(s) - 1 : t[i + 1] = Tail(s)[i]
    BY <1>1, <1>3, Pushed
  <2> HIDE DEF t
  <2>2. ASSUME NEW i \in 1..Len(s), i # 1 PROVE t[i] = s[i]
    <3>1. i - 1 \in 1..Len(s) - 1 /\ (i - 1) + 1 = i
      BY <1>1, <2>2
    <3> QED BY <1>1, <2>1, <3>1
  <2> QED BY <1>1, <2>1, <2>2
<1> HIDE DEF t
<1>5. ASSUME NEW j \in 1..Len(t), t[j].op = "notify", t[j].status # v, l \ {x} # {}
      PROVE  \E i \in 1..j - 1 : t[i].op = "notify" /\ t[i].status = v /\ l \ {x} \subseteq t[i].left
  <2>1. j \in 1..Len(s) /\ s[j].op = "notify" /\ s[j].status # v
    BY <1>3, <1>4, <1>5
  <2>2. PICK i \in 1..j - 1 : s[i].op = "notify" /\ s[i].status = v /\ l \subseteq s[i].left
    BY <2>1 DEF Overtaken
  <2>3. i \in 1..Len(s)
    BY <1>1, <2>1
  <2> QED BY <1>3, <1>4, <2>2, <2>3
<1> QED BY <1>5 DEF Overtaken, t, f

LEMMA OvertakenFewer ==
  ASSUME NEW s, NEW l, NEW k \in SUBSET l, NEW v, Overtaken(s, l, v)
  PROVE  Overtaken(s, k, v)
BY DEF Overtaken

LEMMA NoLoops ==
  ASSUME NEW s \in Seq(Frames), NoLoop(s)
  PROVE  /\ \A l, v : Overtaken(s, l, v)
         /\ s # <<>> => NoLoop(Tail(s))
         /\ \A f \in Frames : f.op # "notify" => NoLoop(<<f>> \o s)
<1>1. \A l, v : Overtaken(s, l, v)
  BY DEF NoLoop, Overtaken
<1>2. s # <<>> => NoLoop(Tail(s))
  <2>1. ASSUME s # <<>>, NEW i \in 1..Len(Tail(s)) PROVE Tail(s)[i].op # "notify"
    <3>1. /\ Len(s) \in Nat \ {0} /\ Len(Tail(s)) = Len(s) - 1
          /\ \A k \in 1..Len(s) - 1 : Tail(s)[k] = s[k + 1]
      BY <2>1, Popped
    <3>2. i \in 1..Len(s) - 1 /\ i + 1 \in 1..Len(s)
      BY <2>1, <3>1
    <3> QED BY <3>1, <3>2 DEF NoLoop
  <2> QED BY <2>1 DEF NoLoop
<1>3. ASSUME NEW f \in Frames, f.op # "notify", NEW i \in 1..Len(<<f>> \o s)
      PROVE  (<<f>> \o s)[i].op # "notify"
  <2> DEFINE t == <<f>> \o s
  <2>1. /\ Len(s) \in Nat /\ Len(t) = Len(s) + 1 /\ t[1] = f
        /\ \A k \in 1..Len(s) : t[k + 1] = s[k]
    BY Pushed, LenProperties
  <2> HIDE DEF t
  <2>2. CASE i = 1
    BY <1>3, <2>1, <2>2 DEF t
  <2>3. CASE i # 1
    <3>1. i - 1 \in 1..Len(s) /\ (i - 1) + 1 = i
      BY <1>3, <2>1, <2>3 DEF t
    <3>2. t[i] = s[i - 1]
      BY <2>1, <3>1
    <3> QED BY <3>1, <3>2 DEF NoLoop, t
  <2> QED BY <2>2, <2>3
<1> QED BY <1>1, <1>2, <1>3 DEF NoLoop

LEMMA CallsAreFrames ==
  ASSUME NEW s \in Subscriber, NEW op \in {"onSubscribe", "connect", "outcome"}
  PROVE  Call(op, s) \in Frames /\ Call(op, s).op # "notify"
BY DEF Call, Frames

(* What is left to run, and a subscriber that is told on top of it. *)
LEMMA ToldLoops ==
  ASSUME NEW s \in Subscriber, NEW o, NEW rest \in Seq(Frames), Tell(s, o, rest),
         status' = status, Overtaken(rest, listening', status),
         status \notin Settled => NoLoop(rest)
  PROVE  Loops'
<1> DEFINE f == Call("outcome", s)
<1>1. f \in Frames /\ f.op # "notify"
  BY CallsAreFrames
<1> HIDE DEF f
<1>2. calls' = rest \/ calls' = <<f>> \o rest
  BY DEF Tell, f
<1>3. CASE calls' = rest
  BY <1>3 DEF Loops
<1>4. CASE calls' = <<f>> \o rest
  <2>1. calls' \in Seq(Frames)
    BY <1>1, <1>4, Pushed
  <2>2. Overtaken(calls', listening', status)
    BY <1>1, <1>4, OvertakenPush
  <2>3. status \notin Settled => NoLoop(calls')
    BY <1>1, <1>4, NoLoops
  <2> QED BY <2>1, <2>2, <2>3 DEF Loops
<1> QED BY <1>2, <1>3, <1>4

LEMMA ListenLoops ==
  ASSUME TypeOK, Loops, NEW s \in Subscriber, Listen(s)
  PROVE  Loops'
<1> DEFINE f == Call("connect", s)
           rest == <<f>> \o Tail(calls)
<1>1. calls \in Seq(Frames) /\ calls # <<>> /\ calls[1].op # "notify" /\ status' = status
  BY DEF Loops, Listen, Idle, Call
<1>2. f \in Frames /\ f.op # "notify"
  BY CallsAreFrames
<1> HIDE DEF f
<1>3. Tail(calls) \in Seq(Frames)
  BY <1>1, Popped
<1>4. rest \in Seq(Frames)
  BY <1>2, <1>3, Pushed
<1>5. Overtaken(Tail(calls), listening, status)
  BY <1>1, OvertakenPop DEF Loops
<1>6. Overtaken(rest, listening, status)
  BY <1>2, <1>3, <1>5, OvertakenPush
<1>7. status \notin Settled => NoLoop(rest)
  BY <1>1, <1>2, <1>3, NoLoops DEF Loops
<1>8. \/ calls' = rest /\ listening' = listening
      \/ OnStatus(s, status, rest)
      \/ calls' = rest /\ status \notin Settled
  BY DEF Listen, f
<1> HIDE DEF rest
<1>9. CASE calls' = rest /\ listening' = listening
  BY <1>1, <1>4, <1>6, <1>7, <1>9 DEF Loops
<1>10. CASE OnStatus(s, status, rest)
  <2>1. listening' \in SUBSET listening
    BY <1>10 DEF OnStatus
  <2>2. Overtaken(rest, listening', status)
    BY <1>6, <2>1, OvertakenFewer
  <2>3. Tell(s, IF status = "CONNECTED" THEN "socket" ELSE "error", rest)
    BY <1>10 DEF OnStatus
  <2> QED BY <1>1, <1>4, <1>7, <2>2, <2>3, ToldLoops
<1>11. CASE calls' = rest /\ status \notin Settled
  BY <1>1, <1>4, <1>7, <1>11, NoLoops DEF Loops
<1> QED BY <1>8, <1>9, <1>10, <1>11

LEMMA ConnectLoops ==
  ASSUME TypeOK, Loops, NEW s \in Subscriber, TransportConnect(s)
  PROVE  Loops'
<1>1. calls \in Seq(Frames) /\ calls # <<>> /\ calls[1].op # "notify" /\ listening' = listening
  BY DEF Loops, TransportConnect, Idle, Call
<1>2. Tail(calls) \in Seq(Frames)
  BY <1>1, Popped
<1>3. CASE status = "NOT_CONNECTED"
  <2>1. NoLoop(Tail(calls))
    BY <1>1, <1>3, NoLoops DEF Loops, Settled
  <2> QED BY <1>2, <1>3, <2>1, NoLoops DEF TransportConnect, Loops
<1>4. CASE status # "NOT_CONNECTED"
  <2>1. Tell(s, "error", Tail(calls)) /\ status' = status
    BY <1>4 DEF TransportConnect
  <2>2. Overtaken(Tail(calls), listening, status)
    BY <1>1, OvertakenPop DEF Loops
  <2>3. status \notin Settled => NoLoop(Tail(calls))
    BY <1>1, NoLoops DEF Loops
  <2> QED BY <1>1, <1>2, <2>1, <2>2, <2>3, ToldLoops
<1> QED BY <1>3, <1>4

(* The loop on top, if it still finds a listener, tells the present status. *)
LEMMA LoopOnTop ==
  ASSUME Loops, NEW s, ~Idle, calls[1].op = "notify", s \in calls[1].left \cap listening
  PROVE  calls[1].status = status /\ status \in Settled
<1>1. Len(calls) \in Nat \ {0} /\ 1 \in 1..Len(calls)
  BY Popped DEF Loops, Idle
<1>2. calls[1].status = status
  BY <1>1 DEF Loops, Overtaken
<1> QED BY <1>1, <1>2 DEF Loops, NoLoop

LEMMA NotifyLoops ==
  ASSUME TypeOK, Loops, NEW s \in Subscriber, NotifyNext(s)
  PROVE  Loops'
<1> DEFINE f == [calls[1] EXCEPT !.left = @ \ {s}]
           rest == <<f>> \o Tail(calls)
<1>1. /\ calls \in Seq(Frames) /\ calls # <<>> /\ calls[1].op = "notify" /\ ~Idle
      /\ s \in calls[1].left \cap listening /\ status' = status
      /\ OnStatus(s, calls[1].status, rest)
  BY DEF Loops, NotifyNext, Idle
<1>2. calls[1].status = status /\ status \in Settled
  BY <1>1, LoopOnTop
<1>3. Tail(calls) \in Seq(Frames) /\ calls[1] \in Frames
  BY <1>1, Popped
<1>4. f \in Frames
  BY <1>1, <1>3 DEF Frames
<1>5. rest \in Seq(Frames)
  BY <1>3, <1>4, Pushed
<1>6. Overtaken(rest, listening \ {s}, status)
  BY <1>1, OvertakenTold DEF Loops
<1>7. /\ listening' = listening \ {s}
      /\ Tell(s, IF calls[1].status = "CONNECTED" THEN "socket" ELSE "error", rest)
  BY <1>1 DEF OnStatus
<1> HIDE DEF rest
<1> QED BY <1>1, <1>2, <1>5, <1>6, <1>7, ToldLoops

LEMMA LoopsStep ==
  ASSUME TypeOK, Loops, [Next]_vars
  PROVE  Loops'
<1>1. calls \in Seq(Frames) /\ listening \subseteq Subscriber
  BY DEF Loops, TypeOK
<1>2. CASE Connect \/ UNCHANGED vars
  BY <1>2 DEF Connect, vars, Loops
<1>3. CASE Close
  <2> DEFINE f == Notify("CLOSED")
  <2>1. f \in Frames /\ f.op = "notify" /\ f.status = "CLOSED" /\ listening \subseteq f.left
    BY <1>1 DEF Notify, Frames, Settled
  <2>2. calls' = <<f>> \o calls /\ status' = "CLOSED" /\ listening' = listening
    BY <1>3 DEF Close
  <2> HIDE DEF f
  <2> QED BY <1>1, <2>1, <2>2, Pushed, OvertakenByNew DEF Loops, Settled
<1>4. CASE TransportSettles
  <2>1. PICK v \in Settled : status' = v /\ calls' = <<Notify(v)>>
    BY <1>4 DEF TransportSettles
  <2> DEFINE f == Notify(v)
  <2>2. f \in Frames /\ f.op = "notify" /\ f.status = v /\ listening \subseteq f.left
    BY <1>1, <2>1 DEF Notify, Frames
  <2>3. calls' = <<f>> /\ listening' = listening
    BY <1>4, <2>1 DEF TransportSettles
  <2> HIDE DEF f
  <2>4. <<f>> \in Seq(Frames) /\ Len(<<f>>) = 1 /\ <<f>>[1] = f
    BY <2>2
  <2>5. Overtaken(<<f>>, listening, v)
    BY <2>2, <2>4 DEF Overtaken
  <2> QED BY <2>1, <2>3, <2>4, <2>5 DEF Loops
<1>5. CASE CallReturns
  <2>1. /\ calls # <<>> /\ calls' = Tail(calls) /\ status' = status /\ listening' = listening
        /\ calls[1].op = "notify" => calls[1].left \cap listening = {}
    BY <1>5 DEF CallReturns, Idle
  <2>2. Tail(calls) \in Seq(Frames)
    BY <1>1, <2>1, Popped
  <2>3. Overtaken(Tail(calls), listening, status)
    BY <1>1, <2>1, OvertakenPop DEF Loops
  <2>4. status \notin Settled => NoLoop(Tail(calls))
    BY <1>1, <2>1, NoLoops DEF Loops
  <2> QED BY <2>1, <2>2, <2>3, <2>4 DEF Loops
<1>6. ASSUME NEW s \in Subscriber, Subscribe(s) PROVE Loops'
  <2> DEFINE f == Call("onSubscribe", s)
  <2>1. f \in Frames /\ f.op # "notify"
    BY CallsAreFrames
  <2>2. calls' = <<f>> \o calls /\ status' = status /\ listening' = listening
    BY <1>6 DEF Subscribe
  <2> HIDE DEF f
  <2>3. Overtaken(<<f>> \o calls, listening, status)
    BY <1>1, <2>1, OvertakenPush DEF Loops
  <2> QED BY <1>1, <2>1, <2>2, <2>3, Pushed, NoLoops DEF Loops
<1>7. ASSUME NEW s \in Subscriber, Cancel(s) PROVE Loops'
  <2>1. listening' \in SUBSET listening /\ calls' = calls /\ status' = status
    BY <1>7 DEF Cancel
  <2> QED BY <2>1, OvertakenFewer DEF Loops
<1> QED
  BY <1>2, <1>3, <1>4, <1>5, <1>6, <1>7, ListenLoops, ConnectLoops, NotifyLoops
  DEF Next, Progress

LEMMA LoopsAlways == Spec => []Loops
<1>1. Init => Loops
  <2> SUFFICES ASSUME Init PROVE Loops
    OBVIOUS
  <2>1. calls \in Seq(Frames) /\ Len(calls) = 0
    BY EmptySeq DEF Init
  <2> QED BY <2>1 DEF Loops, NoLoop, Overtaken
<1>2. TypeOK /\ Loops /\ [Next]_vars => Loops'
  BY LoopsStep
<1> QED BY <1>1, <1>2, TypeCorrect, PTL DEF Spec

(* A status that is told inside callbacks is the transport's present one:  *)
(* for any number of subscribers, and however close() and cancel() nest in *)
(* the telling, no socket is built on a transport that is not connected.   *)
THEOREM SocketsOnLiveTransport == Spec => SocketOnLiveTransport
<1>1. ASSUME Loops, Next PROVE sockets' # sockets => status = "CONNECTED"
  <2>1. ASSUME NEW s \in Subscriber, Listen(s) PROVE sockets' # sockets => status = "CONNECTED"
    BY <2>1 DEF Listen, OnStatus
  <2>2. ASSUME NEW s \in Subscriber, NotifyNext(s) PROVE sockets' # sockets => status = "CONNECTED"
    <3>1. calls[1].status = status
      BY <1>1, <2>2, LoopOnTop DEF NotifyNext
    <3> QED BY <2>2, <3>1 DEF NotifyNext, OnStatus
  <2> QED
    BY <1>1, <2>1, <2>2
    DEF Next, Progress, Connect, Close, TransportSettles, CallReturns, TransportConnect, Subscribe, Cancel
<1>2. Loops /\ [Next]_vars => [sockets' # sockets => status = "CONNECTED"]_vars
  BY <1>1
<1> QED BY <1>2, LoopsAlways, PTL DEF Spec, SocketOnLiveTransport

-----------------------------------------------------------------------------
(* Who is sure to be told that the transport is connected.  Whoever made   *)
(* the transport connect has no second call of its own on the stack that   *)
(* connects, and so is told no error: it waits among the listeners until   *)
(* the loop comes to it, unless it cancels.                                *)

IsOpening(f, s) == f.op \in {"onSubscribe", "connect"} /\ f.sub = s
Opening(st, s) == \E i \in 1..Len(st) : IsOpening(st[i], s)
Connecting(st, s) == \E i \in 1..Len(st) : st[i].op = "connect" /\ st[i].sub = s

(* A subscriber goes through subscribe() once. *)
OpensOnce(st) ==
  \A i, j \in 1..Len(st), s \in Subscriber :
    IsOpening(st[i], s) /\ IsOpening(st[j], s) => i = j

Tells(f, s) == f.op = "notify" /\ f.status = "CONNECTED" /\ s \in f.left
Telling(st, s) == \E i \in 1..Len(st) : Tells(st[i], s)

Waits(s) == s \in listening /\ outcome[s] = "pending" /\ ~Opening(calls, s)
Someone(o) == \E s \in Subscriber : outcome[s] = o

Heard ==
  /\ OpensOnce(calls)
  /\ \A s \in Subscriber : Opening(calls, s) => outcome[s] # "none"
  /\ status = "NOT_CONNECTED" =>
       \A s \in Subscriber :
         /\ outcome[s] \in {"none", "pending", "cancelled"}
         /\ Connecting(calls, s) /\ outcome[s] = "pending" => s \in listening
  /\ status = "CONNECTING" =>
       Someone("cancelled") \/ \E s \in Subscriber : Waits(s)
  /\ status = "CONNECTED" =>
       \/ Someone("cancelled") \/ Someone("socket")
       \/ \E s \in Subscriber : Waits(s) /\ Telling(calls, s)

(* What a frame more, and one less, changes of it. *)
LEMMA OpeningPushed ==
  ASSUME NEW st \in Seq(Frames), NEW f \in Frames
  PROVE  LET t == <<f>> \o st IN
         \A s \in Subscriber :
           /\ Opening(t, s) <=> (IsOpening(f, s) \/ Opening(st, s))
           /\ Connecting(t, s) <=> ((f.op = "connect" /\ f.sub = s) \/ Connecting(st, s))
           /\ Telling(t, s) <=> (Tells(f, s) \/ Telling(st, s))
<1> DEFINE t == <<f>> \o st
<1>1. /\ Len(st) \in Nat /\ Len(t) = Len(st) + 1 /\ t[1] = f
      /\ \A i \in 1..Len(st) : t[i + 1] = st[i]
  BY Pushed, LenProperties
<1> HIDE DEF t
<1>2. ASSUME NEW i \in 1..Len(t) PROVE t[i] = f \/ \E j \in 1..Len(st) : t[i] = st[j]
  <2>1. i # 1 => i - 1 \in 1..Len(st) /\ (i - 1) + 1 = i
    BY <1>1
  <2> QED BY <1>1, <2>1
<1>3. \A j \in 1..Len(st) : \E i \in 1..Len(t) : t[i] = st[j]
  BY <1>1
<1>4. \E i \in 1..Len(t) : t[i] = f
  BY <1>1
<1>5. \A s \in Subscriber : Opening(t, s) <=> (IsOpening(f, s) \/ Opening(st, s))
  BY <1>2, <1>3, <1>4 DEF Opening
<1>6. \A s \in Subscriber :
        Connecting(t, s) <=> ((f.op = "connect" /\ f.sub = s) \/ Connecting(st, s))
  BY <1>2, <1>3, <1>4 DEF Connecting
<1>7. \A s \in Subscriber : Telling(t, s) <=> (Tells(f, s) \/ Telling(st, s))
  BY <1>2, <1>3, <1>4 DEF Telling
<1> QED BY <1>5, <1>6, <1>7 DEF t

LEMMA OpensOncePushed ==
  ASSUME NEW st \in Seq(Frames), NEW f \in Frames, OpensOnce(st),
         \A s \in Subscriber : IsOpening(f, s) => ~Opening(st, s)
  PROVE  OpensOnce(<<f>> \o st)
<1> DEFINE t == <<f>> \o st
<1>1. /\ Len(st) \in Nat /\ Len(t) = Len(st) + 1 /\ t[1] = f
      /\ \A i \in 1..Len(st) : t[i + 1] = st[i]
  BY Pushed, LenProperties
<1> HIDE DEF t
<1>2. ASSUME NEW i \in 1..Len(t), i # 1 PROVE i - 1 \in 1..Len(st) /\ t[i] = st[i - 1]
  <2>1. i - 1 \in 1..Len(st) /\ (i - 1) + 1 = i
    BY <1>1, <1>2
  <2> QED BY <1>1, <2>1
<1>3. ASSUME NEW i \in 1..Len(t), NEW j \in 1..Len(t), NEW s \in Subscriber,
             IsOpening(t[i], s), IsOpening(t[j], s)
      PROVE  i = j
  <2>1. CASE i = 1 /\ j # 1
    BY <1>1, <1>2, <1>3, <2>1 DEF Opening
  <2>2. CASE i # 1 /\ j = 1
    BY <1>1, <1>2, <1>3, <2>2 DEF Opening
  <2>3. CASE i # 1 /\ j # 1
    <3>1. i - 1 = j - 1
      BY <1>2, <1>3, <2>3 DEF OpensOnce
    <3> QED BY <3>1
  <2> QED BY <2>1, <2>2, <2>3
<1> QED BY <1>3 DEF OpensOnce, t

LEMMA OpeningPopped ==
  ASSUME NEW st \in Seq(Frames), st # <<>>
  PROVE  /\ \A s \in Subscriber :
              /\ Opening(Tail(st), s) => Opening(st, s)
              /\ Connecting(Tail(st), s) => Connecting(st, s)
              /\ Telling(st, s) => (Tells(st[1], s) \/ Telling(Tail(st), s))
              /\ IsOpening(st[1], s) => Opening(st, s)
         /\ OpensOnce(st) =>
              /\ OpensOnce(Tail(st))
              /\ \A s \in Subscriber : IsOpening(st[1], s) => ~Opening(Tail(st), s)
<1> DEFINE t == Tail(st)
<1>1. /\ Len(st) \in Nat \ {0} /\ Len(t) = Len(st) - 1
      /\ \A i \in 1..Len(st) - 1 : t[i] = st[i + 1]
  BY Popped
<1> HIDE DEF t
<1>2. ASSUME NEW i \in 1..Len(t) PROVE i + 1 \in 2..Len(st) /\ t[i] = st[i + 1]
  BY <1>1
<1>3. ASSUME NEW i \in 1..Len(st) PROVE i = 1 \/ \E j \in 1..Len(t) : st[i] = t[j]
  <2>1. i # 1 => i - 1 \in 1..Len(t) /\ (i - 1) + 1 = i
    BY <1>1
  <2> QED BY <1>2, <2>1
<1>4. 1 \in 1..Len(st) /\ 2..Len(st) \subseteq 1..Len(st)
  BY <1>1
<1>5. ASSUME NEW s \in Subscriber
      PROVE  /\ Opening(t, s) => Opening(st, s)
             /\ Connecting(t, s) => Connecting(st, s)
             /\ Telling(st, s) => (Tells(st[1], s) \/ Telling(t, s))
             /\ IsOpening(st[1], s) => Opening(st, s)
  BY <1>2, <1>3, <1>4, ZenonT(40) DEF Opening, Connecting, Telling
<1>6. ASSUME OpensOnce(st) PROVE OpensOnce(t)
  <2>1. ASSUME NEW i \in 1..Len(t), NEW j \in 1..Len(t), NEW s \in Subscriber,
               IsOpening(t[i], s), IsOpening(t[j], s)
        PROVE  i = j
    <3>1. i + 1 = j + 1
      BY <1>2, <1>4, <1>6, <2>1 DEF OpensOnce
    <3> QED BY <3>1
  <2> QED BY <2>1 DEF OpensOnce
<1>7. ASSUME OpensOnce(st), NEW s \in Subscriber, IsOpening(st[1], s), Opening(t, s) PROVE FALSE
  <2>1. PICK i \in 1..Len(t) : IsOpening(t[i], s)
    BY <1>7 DEF Opening
  <2>2. 1 = i + 1
    BY <1>2, <1>4, <1>7, <2>1 DEF OpensOnce
  <2> QED BY <1>1, <2>2
<1> QED BY <1>5, <1>6, <1>7 DEF t

(* A subscriber that is told puts nothing on the stack that connects. *)
LEMMA ToldFrames ==
  ASSUME NEW s \in Subscriber, NEW o, NEW rest \in Seq(Frames), Tell(s, o, rest)
  PROVE  /\ \A r \in Subscriber :
              /\ Opening(calls', r) <=> Opening(rest, r)
              /\ Connecting(calls', r) <=> Connecting(rest, r)
              /\ Telling(calls', r) <=> Telling(rest, r)
         /\ OpensOnce(rest) => OpensOnce(calls')
<1> DEFINE f == Call("outcome", s)
<1>1. f \in Frames /\ f.op = "outcome"
  BY DEF Call, Frames
<1> HIDE DEF f
<1>2. calls' = rest \/ calls' = <<f>> \o rest
  BY DEF Tell, f
<1>3. CASE calls' = <<f>> \o rest
  <2>1. \A r \in Subscriber : ~IsOpening(f, r) /\ ~Tells(f, r) /\ f.op # "connect"
    BY <1>1 DEF IsOpening, Tells
  <2> QED BY <1>1, <1>3, <2>1, OpeningPushed, OpensOncePushed
<1> QED BY <1>2, <1>3

LEMMA ListenHeard ==
  ASSUME IInv, Loops, Heard, NEW s \in Subscriber, Listen(s)
  PROVE  Heard'
<1> DEFINE f == Call("connect", s)
           rest == <<f>> \o Tail(calls)
<1>1. calls \in Seq(Frames) /\ calls # <<>> /\ calls[1].op = "onSubscribe" /\ calls[1].sub = s
      /\ UNCHANGED status
  BY DEF Loops, Listen, Idle, Call
<1>2. f \in Frames /\ f.op = "connect" /\ f.sub = s
  BY DEF Call, Frames
<1>3. \/ /\ outcome[s] # "pending" /\ calls' = rest /\ UNCHANGED <<outcome, listening>>
      \/ outcome[s] = "pending" /\ status \in Settled /\ OnStatus(s, status, rest)
      \/ /\ outcome[s] = "pending" /\ status \notin Settled
         /\ calls' = rest /\ listening' = listening \cup {s} /\ UNCHANGED outcome
  BY DEF Listen
<1> HIDE DEF f
<1>4. Tail(calls) \in Seq(Frames)
  BY <1>1, Popped
<1>5. rest \in Seq(Frames)
  BY <1>2, <1>4, Pushed
(* The stack that is left: s opens still, and nobody else does newly. *)
<1>6. OpensOnce(rest)
  <2>1. OpensOnce(Tail(calls)) /\ ~Opening(Tail(calls), s)
    BY <1>1, OpeningPopped DEF Heard, IsOpening
  <2>2. \A r \in Subscriber : IsOpening(f, r) => r = s
    BY <1>2 DEF IsOpening
  <2> QED BY <1>2, <1>4, <2>1, <2>2, OpensOncePushed
<1>7. \A r \in Subscriber : Opening(rest, r) => Opening(calls, r)
  <2>1. \A r \in Subscriber : IsOpening(f, r) => IsOpening(calls[1], r)
    BY <1>1, <1>2 DEF IsOpening
  <2> QED BY <1>1, <1>2, <1>4, <2>1, OpeningPopped, OpeningPushed
<1>8. \A r \in Subscriber : Connecting(rest, r) => r = s \/ Connecting(calls, r)
  BY <1>1, <1>2, <1>4, OpeningPopped, OpeningPushed
<1>9. \A r \in Subscriber : Telling(calls, r) => Telling(rest, r)
  <2>1. \A r \in Subscriber : ~Tells(calls[1], r)
    BY <1>1 DEF Tells
  <2> QED BY <1>1, <1>2, <1>4, <2>1, OpeningPopped, OpeningPushed
<1>10. Opening(calls, s)
  BY <1>1, OpeningPopped DEF IsOpening
<1> HIDE DEF rest
<1>11. CASE outcome[s] # "pending" /\ calls' = rest /\ UNCHANGED <<outcome, listening>>
  BY <1>1, <1>6, <1>7, <1>8, <1>9, <1>10, <1>11 DEF Heard, Waits, Someone
<1>12. CASE outcome[s] = "pending" /\ status \in Settled /\ OnStatus(s, status, rest)
  <2> DEFINE o == IF status = "CONNECTED" THEN "socket" ELSE "error"
  <2>1. Tell(s, o, rest) /\ listening' = listening \ {s}
    BY <1>12 DEF OnStatus
  <2>2. outcome' = [outcome EXCEPT ![s] = o] /\ outcome \in [Subscriber -> Outcome]
    BY <1>12, <2>1 DEF Tell, IInv, TypeOK
  <2>3. /\ \A r \in Subscriber :
             /\ Opening(calls', r) <=> Opening(rest, r)
             /\ Connecting(calls', r) <=> Connecting(rest, r)
             /\ Telling(calls', r) <=> Telling(rest, r)
        /\ OpensOnce(calls')
    BY <1>5, <1>6, <2>1, ToldFrames
  <2>4. status = "CONNECTED" => Someone("socket")'
    BY <2>2 DEF Someone
  <2>5. \A r \in Subscriber : Opening(calls', r) => outcome'[r] # "none"
    BY <1>7, <2>2, <2>3 DEF Heard
  <2> QED BY <1>1, <1>12, <2>3, <2>4, <2>5 DEF Heard, Settled
<1>13. CASE /\ outcome[s] = "pending" /\ status \notin Settled
            /\ calls' = rest /\ listening' = listening \cup {s} /\ UNCHANGED outcome
  <2>1. \A r \in Subscriber : Waits(r) => Waits(r)'
    BY <1>7, <1>13 DEF Waits
  <2> QED BY <1>1, <1>6, <1>7, <1>8, <1>10, <1>13, <2>1 DEF Heard, Someone, Settled
<1> QED BY <1>3, <1>11, <1>12, <1>13

LEMMA ConnectHeard ==
  ASSUME IInv, Loops, Heard, NEW s \in Subscriber, TransportConnect(s)
  PROVE  Heard'
<1>1. calls \in Seq(Frames) /\ calls # <<>> /\ calls[1].op = "connect" /\ calls[1].sub = s
      /\ UNCHANGED listening
  BY DEF Loops, TransportConnect, Idle, Call
<1>2. Tail(calls) \in Seq(Frames)
  BY <1>1, Popped
<1>3. OpensOnce(Tail(calls)) /\ ~Opening(Tail(calls), s)
  BY <1>1, OpeningPopped DEF Heard, IsOpening
<1>4. Opening(calls, s) /\ Connecting(calls, s)
  <2>1. 1 \in 1..Len(calls)
    BY <1>1, Popped
  <2> QED BY <1>1, <2>1 DEF Opening, Connecting, IsOpening
<1>5. \A r \in Subscriber :
        /\ Opening(Tail(calls), r) => Opening(calls, r)
        /\ Telling(calls, r) => Telling(Tail(calls), r)
  <2>1. \A r \in Subscriber : ~Tells(calls[1], r)
    BY <1>1 DEF Tells
  <2> QED BY <1>1, <2>1, OpeningPopped
<1>6. CASE status = "NOT_CONNECTED"
  <2>1. status' = "CONNECTING" /\ calls' = Tail(calls) /\ UNCHANGED outcome
    BY <1>6 DEF TransportConnect
  <2>2. outcome[s] # "none" /\ outcome[s] \in {"none", "pending", "cancelled"}
        /\ (outcome[s] = "pending" => s \in listening)
    BY <1>4, <1>6 DEF Heard
  <2>3. outcome[s] = "pending" => Waits(s)'
    BY <1>1, <1>3, <2>1, <2>2 DEF Waits
  <2>4. outcome[s] = "cancelled" => Someone("cancelled")'
    BY <2>1 DEF Someone
  <2>5. \A r \in Subscriber : Opening(calls', r) => outcome'[r] # "none"
    BY <1>5, <2>1 DEF Heard
  <2> QED BY <1>3, <2>1, <2>2, <2>3, <2>4, <2>5 DEF Heard
<1>7. CASE status # "NOT_CONNECTED"
  <2>1. Tell(s, "error", Tail(calls)) /\ UNCHANGED status
    BY <1>7 DEF TransportConnect
  <2>2. /\ \A r \in Subscriber :
             /\ Opening(calls', r) <=> Opening(Tail(calls), r)
             /\ Telling(calls', r) <=> Telling(Tail(calls), r)
        /\ OpensOnce(calls')
    BY <1>2, <1>3, <2>1, ToldFrames
  <2>3. /\ outcome' \in [Subscriber -> Outcome]
        /\ \A r \in Subscriber \ {s} : outcome'[r] = outcome[r]
        /\ \/ outcome[s] # "pending" /\ outcome'[s] = outcome[s]
           \/ outcome[s] = "pending" /\ outcome'[s] = "error"
    BY <2>1 DEF Tell, IInv, TypeOK, Outcome
  <2>4. \A r \in Subscriber : Waits(r) => Waits(r)'
    BY <1>1, <1>4, <1>5, <2>2, <2>3 DEF Waits
  <2>5. (Someone("cancelled") => Someone("cancelled")') /\ (Someone("socket") => Someone("socket")')
    BY <2>3 DEF Someone
  <2>6. \A r \in Subscriber : Opening(calls', r) => outcome'[r] # "none"
    BY <1>5, <2>2, <2>3 DEF Heard
  <2>7. \A r \in Subscriber : Telling(calls, r) => Telling(calls', r)
    BY <1>5, <2>2
  <2> QED BY <1>7, <2>1, <2>2, <2>4, <2>5, <2>6, <2>7 DEF Heard
<1> QED BY <1>6, <1>7

LEMMA NotifyHeard ==
  ASSUME IInv, Loops, Heard, NEW s \in Subscriber, NotifyNext(s)
  PROVE  Heard'
<1> DEFINE f == [calls[1] EXCEPT !.left = @ \ {s}]
           rest == <<f>> \o Tail(calls)
           o == IF status = "CONNECTED" THEN "socket" ELSE "error"
<1>1. /\ calls \in Seq(Frames) /\ calls # <<>> /\ calls[1].op = "notify" /\ ~Idle
      /\ s \in calls[1].left \cap listening /\ UNCHANGED status
      /\ OnStatus(s, calls[1].status, rest)
  BY DEF Loops, NotifyNext, Idle
<1>2. calls[1].status = status /\ status \in Settled
  BY <1>1, LoopOnTop
<1>3. Tail(calls) \in Seq(Frames) /\ calls[1] \in Frames
  BY <1>1, Popped
<1>4. /\ f \in Frames /\ f.op = "notify" /\ f.status = calls[1].status
      /\ f.left = calls[1].left \ {s}
  BY <1>1, <1>3 DEF Frames
<1>5. rest \in Seq(Frames)
  BY <1>3, <1>4, Pushed
<1>6. Tell(s, o, rest) /\ listening' = listening \ {s}
  BY <1>1, <1>2 DEF OnStatus
<1> HIDE DEF f
<1>7. OpensOnce(rest) /\ \A r \in Subscriber : Opening(rest, r) => Opening(calls, r)
  <2>1. \A r \in Subscriber : ~IsOpening(f, r)
    BY <1>4 DEF IsOpening
  <2>2. OpensOnce(Tail(calls)) /\ \A r \in Subscriber : Opening(Tail(calls), r) => Opening(calls, r)
    BY <1>1, OpeningPopped DEF Heard
  <2> QED BY <1>3, <1>4, <2>1, <2>2, OpeningPushed, OpensOncePushed
<1>8. \A r \in Subscriber \ {s} : Telling(calls, r) => Telling(rest, r)
  <2>1. \A r \in Subscriber \ {s} : Tells(calls[1], r) => Tells(f, r)
    BY <1>4 DEF Tells
  <2> QED BY <1>1, <1>3, <1>4, <2>1, OpeningPopped, OpeningPushed
<1> HIDE DEF rest
<1>9. /\ \A r \in Subscriber :
           /\ Opening(calls', r) <=> Opening(rest, r)
           /\ Telling(calls', r) <=> Telling(rest, r)
      /\ OpensOnce(calls')
  BY <1>5, <1>6, <1>7, ToldFrames
<1>10. /\ outcome' \in [Subscriber -> Outcome]
       /\ \A r \in Subscriber \ {s} : outcome'[r] = outcome[r]
       /\ \/ outcome[s] = "pending" /\ outcome'[s] = o
          \/ outcome[s] # "pending" /\ outcome'[s] = outcome[s]
  BY <1>6 DEF Tell, IInv, TypeOK, Outcome
<1>11. \A r \in Subscriber \ {s} : Waits(r) => Waits(r)'
  BY <1>6, <1>7, <1>9, <1>10 DEF Waits
<1>12. (Someone("cancelled") => Someone("cancelled")') /\ (Someone("socket") => Someone("socket")')
  BY <1>10 DEF Someone
<1>13. status = "CONNECTED" /\ Waits(s) => Someone("socket")'
  BY <1>10 DEF Waits, Someone
<1>14. \A r \in Subscriber : Opening(calls', r) => outcome'[r] # "none"
  BY <1>7, <1>9, <1>10 DEF Heard
<1>15. \A r \in Subscriber \ {s} : Telling(calls, r) => Telling(calls', r)
  BY <1>8, <1>9
<1> QED BY <1>1, <1>2, <1>9, <1>11, <1>12, <1>13, <1>14, <1>15 DEF Heard, Settled

LEMMA HeardStep ==
  ASSUME IInv, Loops, Heard, [Next]_vars
  PROVE  Heard'
<1>1. calls \in Seq(Frames) /\ outcome \in [Subscriber -> Outcome]
  BY DEF Loops, IInv, TypeOK
<1>2. CASE Connect \/ UNCHANGED vars
  BY <1>2 DEF Connect, vars, Heard, Waits, Someone
<1>3. CASE Close
  <2> DEFINE f == Notify("CLOSED")
  <2>1. f \in Frames /\ f.op = "notify"
    BY DEF Notify, Frames, Settled, IInv, TypeOK
  <2>2. calls' = <<f>> \o calls /\ status' = "CLOSED" /\ UNCHANGED outcome
    BY <1>3 DEF Close
  <2> HIDE DEF f
  <2>3. \A r \in Subscriber : ~IsOpening(f, r)
    BY <2>1 DEF IsOpening
  <2>4. \A r \in Subscriber : Opening(calls', r) <=> Opening(calls, r)
    BY <1>1, <2>1, <2>2, <2>3, OpeningPushed
  <2>5. OpensOnce(calls')
    BY <1>1, <2>1, <2>2, <2>3, OpensOncePushed DEF Heard
  <2> QED BY <2>2, <2>4, <2>5 DEF Heard
<1>4. CASE TransportSettles
  <2>1. PICK v \in Settled :
          /\ status = "CONNECTING" \/ (status = "CONNECTED" /\ v # "CONNECTED")
          /\ status' = v /\ calls' = <<Notify(v)>>
    BY <1>4 DEF TransportSettles
  <2> DEFINE f == Notify(v)
  <2>2. f.op = "notify" /\ f.status = v /\ f.left = listening
    BY DEF Notify
  <2>3. calls = <<>> /\ UNCHANGED <<outcome, listening>> /\ calls' = <<f>>
    BY <1>4, <2>1 DEF TransportSettles, Idle
  <2> HIDE DEF f
  <2>4. 1..Len(calls') = {1} /\ calls'[1] = f
    BY <2>3
  <2>5. \A r \in Subscriber : ~Opening(calls', r)
    BY <2>2, <2>4 DEF Opening, IsOpening
  <2>6. OpensOnce(calls')
    BY <2>4 DEF OpensOnce
  <2>7. v = "CONNECTED" => \A r \in Subscriber : Waits(r) => Waits(r)' /\ Telling(calls', r)
    BY <2>2, <2>3, <2>4, <2>5 DEF Waits, Telling, Tells
  <2>8. Someone("cancelled") => Someone("cancelled")'
    BY <2>3 DEF Someone
  <2> QED BY <2>1, <2>5, <2>6, <2>7, <2>8 DEF Heard, Settled
<1>5. CASE CallReturns
  <2>1. /\ calls # <<>> /\ calls' = Tail(calls) /\ UNCHANGED <<status, outcome, listening>>
        /\ \/ calls[1].op = "outcome"
           \/ calls[1].op = "notify" /\ calls[1].left \cap listening = {}
    BY <1>5 DEF CallReturns, Idle
  <2>2. /\ OpensOnce(calls')
        /\ \A r \in Subscriber :
             /\ Opening(calls', r) => Opening(calls, r)
             /\ Connecting(calls', r) => Connecting(calls, r)
    BY <1>1, <2>1, OpeningPopped DEF Heard
  <2>3. \A r \in Subscriber : Waits(r) => ~Tells(calls[1], r)
    BY <2>1 DEF Waits, Tells
  <2>4. \A r \in Subscriber : Waits(r) /\ Telling(calls, r) => Telling(calls', r)
    BY <1>1, <2>1, <2>3, OpeningPopped
  <2>5. \A r \in Subscriber : Waits(r) => Waits(r)'
    BY <2>1, <2>2 DEF Waits
  <2> QED BY <2>1, <2>2, <2>4, <2>5 DEF Heard, Someone
<1>6. ASSUME NEW s \in Subscriber, Subscribe(s) PROVE Heard'
  <2> DEFINE f == Call("onSubscribe", s)
  <2>1. f \in Frames /\ f.op = "onSubscribe" /\ f.sub = s
    BY DEF Call, Frames
  <2>2. /\ outcome[s] = "none" /\ outcome' = [outcome EXCEPT ![s] = "pending"]
        /\ calls' = <<f>> \o calls /\ UNCHANGED <<status, listening>>
    BY <1>6 DEF Subscribe
  <2> HIDE DEF f
  <2>3. /\ \A r \in Subscriber \ {s} : outcome'[r] = outcome[r]
        /\ outcome'[s] = "pending"
    BY <1>1, <2>2
  <2>4. \A r \in Subscriber :
          /\ Opening(calls', r) <=> (r = s \/ Opening(calls, r))
          /\ Connecting(calls', r) <=> Connecting(calls, r)
          /\ Telling(calls, r) => Telling(calls', r)
    <3>1. \A r \in Subscriber : (IsOpening(f, r) <=> r = s) /\ f.op # "connect"
      BY <2>1 DEF IsOpening
    <3> QED BY <1>1, <2>1, <2>2, <3>1, OpeningPushed
  <2>5. ~Opening(calls, s)
    BY <2>2 DEF Heard
  <2>6. OpensOnce(calls')
    <3>1. \A r \in Subscriber : IsOpening(f, r) => ~Opening(calls, r)
      BY <2>1, <2>5 DEF IsOpening
    <3> QED BY <1>1, <2>1, <2>2, <3>1, OpensOncePushed DEF Heard
  <2>7. \A r \in Subscriber : Waits(r) => Waits(r)'
    BY <2>2, <2>3, <2>4 DEF Waits
  <2>8. (Someone("cancelled") => Someone("cancelled")') /\ (Someone("socket") => Someone("socket")')
    BY <2>2, <2>3 DEF Someone
  <2>9. \A r \in Subscriber : Opening(calls', r) => outcome'[r] # "none"
    BY <2>3, <2>4 DEF Heard
  <2>10. status' = "NOT_CONNECTED" =>
           \A r \in Subscriber :
             /\ outcome'[r] \in {"none", "pending", "cancelled"}
             /\ Connecting(calls', r) /\ outcome'[r] = "pending" => r \in listening'
    <3>1. Connecting(calls, s) => Opening(calls, s)
      BY DEF Connecting, Opening, IsOpening
    <3> QED BY <2>2, <2>3, <2>4, <2>5, <3>1 DEF Heard
  <2> QED BY <2>2, <2>4, <2>6, <2>7, <2>8, <2>9, <2>10 DEF Heard
<1>7. ASSUME NEW s \in Subscriber, Cancel(s) PROVE Heard'
  <2>1. /\ outcome[s] = "pending" /\ outcome' = [outcome EXCEPT ![s] = "cancelled"]
        /\ listening' = listening \ {s} /\ UNCHANGED <<status, calls>>
    BY <1>7 DEF Cancel
  <2>2. /\ \A r \in Subscriber \ {s} : outcome'[r] = outcome[r]
        /\ outcome'[s] = "cancelled"
    BY <1>1, <2>1
  <2>3. Someone("cancelled")'
    BY <2>2 DEF Someone
  <2> QED BY <2>1, <2>2, <2>3 DEF Heard
<1> QED
  BY <1>2, <1>3, <1>4, <1>5, <1>6, <1>7, ListenHeard, ConnectHeard, NotifyHeard
  DEF Next, Progress

-----------------------------------------------------------------------------
(* Why a socket is built that nobody is given.  Only a connected transport *)
(* refuses, so that another subscriber had connected it; and between the   *)
(* status that a subscriber is told at first and its own connect() no user *)
(* code runs that could close the transport.                               *)

Refused == \A s \in listening : outcome[s] = "error" => Another(s)

Started ==
  status \in {"CONNECTING", "CONNECTED"} =>
    /\ \E t \in Subscriber : outcome[t] # "none"
    /\ \A s \in Subscriber : Opening(calls, s) => Another(s)

Undisturbed ==
  \A s \in Subscriber :
    Connecting(calls, s) /\ outcome[s] = "pending" =>
      status \notin Settled /\ calls[1].op = "connect" /\ calls[1].sub = s

Explained == SetupsExplained /\ Refused /\ Started /\ Undisturbed

(* Whoever has subscribed stays so, also as the other of somebody. *)
LEMMA OthersStay ==
  ASSUME \A r \in Subscriber : outcome[r] # "none" => outcome'[r] # "none"
  PROVE  \A s \in Subscriber : Another(s) => Another(s)'
BY DEF Another

(* A status is passed on to one who waits, or who was refused. *)
LEMMA ToldExplained ==
  ASSUME IInv, SetupsExplained, Refused, NEW s \in Subscriber, ~Owns(s),
         outcome[s] = "pending" \/ (outcome[s] = "error" /\ Another(s)),
         NEW v, NEW rest, OnStatus(s, v, rest)
  PROVE  /\ SetupsExplained' /\ Refused'
         /\ outcome'[s] # "pending"
         /\ \A r \in Subscriber \ {s} : outcome'[r] = outcome[r]
         /\ \A r \in Subscriber : outcome[r] # "none" => outcome'[r] # "none"
<1>1. /\ \A r \in Subscriber \ {s} : outcome'[r] = outcome[r]
      /\ \/ outcome[s] = "pending" /\ outcome'[s] = IF v = "CONNECTED" THEN "socket" ELSE "error"
         \/ outcome[s] = "error" /\ outcome'[s] = "error"
      /\ listening' = listening \ {s} /\ listening \subseteq Subscriber
  BY DEF OnStatus, Tell, IInv, TypeOK, Outcome
<1>2. \A r \in Subscriber : outcome[r] # "none" => outcome'[r] # "none"
  BY <1>1
<1>3. \A r \in Subscriber : Another(r) => Another(r)'
  BY <1>2, OthersStay
<1>4. Refused'
  BY <1>1, <1>3 DEF Refused
<1>5. CASE v = "CONNECTED"
  <2>1. NewSocket(s)
    BY <1>5 DEF OnStatus
  <2>2. \A r \in Subscriber : Owns(r)' <=> Owns(r) \/ r = s
    BY <2>1, OneMoreSocket DEF IInv, TypeOK
  <2>3. SetupsExplained'
    BY <1>1, <1>3, <1>5, <2>2 DEF SetupsExplained, Owns
  <2> QED BY <1>1, <1>2, <1>4, <2>3
<1>6. CASE v # "CONNECTED"
  <2>1. sockets' = sockets
    BY <1>6 DEF OnStatus
  <2>2. SetupsExplained'
    BY <1>1, <1>3, <1>6, <2>1 DEF SetupsExplained, Owns
  <2> QED BY <1>1, <1>2, <1>4, <2>2
<1> QED BY <1>5, <1>6

LEMMA ListenExplained ==
  ASSUME IInv, Loops, Heard, Explained, NEW s \in Subscriber, Listen(s)
  PROVE  Explained'
<1> DEFINE f == Call("connect", s)
           rest == <<f>> \o Tail(calls)
<1>1. calls \in Seq(Frames) /\ calls # <<>> /\ calls[1].op = "onSubscribe" /\ calls[1].sub = s
      /\ UNCHANGED status
  BY DEF Loops, Listen, Idle, Call
<1>2. f \in Frames /\ f.op = "connect" /\ f.sub = s
  BY DEF Call, Frames
<1>3. \/ /\ outcome[s] # "pending" /\ calls' = rest /\ UNCHANGED <<outcome, listening, sockets>>
      \/ outcome[s] = "pending" /\ status \in Settled /\ OnStatus(s, status, rest)
      \/ /\ outcome[s] = "pending" /\ status \notin Settled
         /\ calls' = rest /\ listening' = listening \cup {s} /\ UNCHANGED <<outcome, sockets>>
  BY DEF Listen
<1> HIDE DEF f
<1>4. Tail(calls) \in Seq(Frames)
  BY <1>1, Popped
<1>5. rest \in Seq(Frames) /\ rest[1] = f
  BY <1>2, <1>4, Pushed
<1>6. \A r \in Subscriber : Opening(rest, r) => Opening(calls, r)
  <2>1. \A r \in Subscriber : IsOpening(f, r) => IsOpening(calls[1], r)
    BY <1>1, <1>2 DEF IsOpening
  <2> QED BY <1>1, <1>2, <1>4, <2>1, OpeningPopped, OpeningPushed
<1>7. \A r \in Subscriber \ {s} : Connecting(rest, r) => outcome[r] # "pending"
  <2>1. \A r \in Subscriber \ {s} : Connecting(rest, r) => Connecting(calls, r)
    BY <1>1, <1>2, <1>4, OpeningPopped, OpeningPushed
  <2> QED BY <1>1, <2>1 DEF Explained, Undisturbed
<1> HIDE DEF rest
<1>8. CASE outcome[s] # "pending" /\ calls' = rest /\ UNCHANGED <<outcome, listening, sockets>>
  BY <1>1, <1>6, <1>7, <1>8
  DEF Explained, SetupsExplained, Refused, Started, Undisturbed, Another
<1>9. CASE outcome[s] = "pending" /\ status \in Settled /\ OnStatus(s, status, rest)
  <2>1. ~Owns(s)
    BY <1>9 DEF IInv
  <2>2. /\ SetupsExplained' /\ Refused' /\ outcome'[s] # "pending"
        /\ \A r \in Subscriber \ {s} : outcome'[r] = outcome[r]
        /\ \A r \in Subscriber : outcome[r] # "none" => outcome'[r] # "none"
    BY <1>9, <2>1, ToldExplained DEF Explained
  <2>3. Tell(s, IF status = "CONNECTED" THEN "socket" ELSE "error", rest)
    BY <1>9 DEF OnStatus
  <2>4. \A r \in Subscriber :
          /\ Opening(calls', r) <=> Opening(rest, r)
          /\ Connecting(calls', r) <=> Connecting(rest, r)
    BY <1>5, <2>3, ToldFrames
  <2>5. Started'
    BY <1>1, <1>6, <2>2, <2>4, OthersStay DEF Explained, Started
  <2>6. Undisturbed'
    BY <1>7, <2>2, <2>4 DEF Undisturbed
  <2> QED BY <2>2, <2>5, <2>6 DEF Explained
<1>10. CASE /\ outcome[s] = "pending" /\ status \notin Settled
            /\ calls' = rest /\ listening' = listening \cup {s} /\ UNCHANGED <<outcome, sockets>>
  <2>1. SetupsExplained' /\ Refused' /\ Started'
    BY <1>1, <1>6, <1>10 DEF Explained, SetupsExplained, Refused, Started, Another
  <2>2. Undisturbed'
    BY <1>1, <1>2, <1>5, <1>7, <1>10 DEF Undisturbed
  <2> QED BY <2>1, <2>2 DEF Explained
<1> QED BY <1>3, <1>8, <1>9, <1>10

LEMMA ConnectExplained ==
  ASSUME IInv, Loops, Heard, Explained, NEW s \in Subscriber, TransportConnect(s)
  PROVE  Explained'
<1>1. calls \in Seq(Frames) /\ calls # <<>> /\ calls[1].op = "connect" /\ calls[1].sub = s
      /\ UNCHANGED <<listening, sockets>>
  BY DEF Loops, TransportConnect, Idle, Call
<1>2. Tail(calls) \in Seq(Frames)
  BY <1>1, Popped
<1>3. ~Opening(Tail(calls), s)
  BY <1>1, OpeningPopped DEF Heard, IsOpening
<1>4. Opening(calls, s) /\ Connecting(calls, s)
  <2>1. 1 \in 1..Len(calls)
    BY <1>1, Popped
  <2> QED BY <1>1, <2>1 DEF Opening, Connecting, IsOpening
<1>5. \A r \in Subscriber :
        /\ Opening(Tail(calls), r) => Opening(calls, r)
        /\ Connecting(Tail(calls), r) => Connecting(calls, r)
        /\ Connecting(Tail(calls), r) => Opening(Tail(calls), r)
  BY <1>1, OpeningPopped DEF Connecting, Opening, IsOpening
<1>6. \A r \in Subscriber : Connecting(Tail(calls), r) => outcome[r] # "pending"
  <2> SUFFICES ASSUME NEW r \in Subscriber, Connecting(Tail(calls), r), outcome[r] = "pending"
               PROVE  FALSE
    OBVIOUS
  <2>1. r # s
    BY <1>3, <1>5
  <2> QED BY <1>1, <1>5, <2>1 DEF Explained, Undisturbed
<1>7. CASE status = "NOT_CONNECTED"
  <2>1. status' = "CONNECTING" /\ calls' = Tail(calls) /\ UNCHANGED outcome
    BY <1>7 DEF TransportConnect
  <2>2. outcome[s] # "none"
    BY <1>4 DEF Heard
  <2>3. \A r \in Subscriber : Opening(calls', r) => r # s
    BY <1>3, <2>1
  <2>4. Started'
    BY <2>1, <2>2, <2>3 DEF Started, Another
  <2>5. SetupsExplained' /\ Refused' /\ Undisturbed'
    BY <1>1, <1>6, <2>1 DEF Explained, SetupsExplained, Refused, Undisturbed, Another
  <2> QED BY <2>4, <2>5 DEF Explained
<1>8. CASE status # "NOT_CONNECTED"
  <2>1. Tell(s, "error", Tail(calls)) /\ UNCHANGED status
    BY <1>8 DEF TransportConnect
  <2>2. \A r \in Subscriber :
          /\ Opening(calls', r) <=> Opening(Tail(calls), r)
          /\ Connecting(calls', r) <=> Connecting(Tail(calls), r)
    BY <1>2, <2>1, ToldFrames
  <2>3. /\ \A r \in Subscriber \ {s} : outcome'[r] = outcome[r]
        /\ \/ outcome[s] # "pending" /\ outcome'[s] = outcome[s]
           \/ outcome[s] = "pending" /\ outcome'[s] = "error"
    BY <2>1 DEF Tell, IInv, TypeOK, Outcome
  <2>4. \A r \in Subscriber : Another(r) => Another(r)'
    BY <2>3, OthersStay
  <2>5. outcome[s] = "pending" => Another(s)
    <3>1. outcome[s] = "pending" => status \in {"CONNECTING", "CONNECTED"}
      BY <1>4, <1>8 DEF Explained, Undisturbed, IInv, TypeOK, Status
    <3> QED BY <1>4, <3>1 DEF Explained, Started
  <2>6. Refused'
    BY <1>1, <2>3, <2>4, <2>5 DEF Explained, Refused, IInv, TypeOK
  <2>7. SetupsExplained'
    <3>1. outcome[s] = "pending" => ~Owns(s)
      BY DEF IInv
    <3> QED BY <1>1, <2>3, <2>4, <3>1 DEF Explained, SetupsExplained, Owns
  <2>8. Started' /\ Undisturbed'
    BY <1>5, <1>6, <2>1, <2>2, <2>3, <2>4 DEF Explained, Started, Undisturbed
  <2> QED BY <2>6, <2>7, <2>8 DEF Explained
<1> QED BY <1>7, <1>8

LEMMA NotifyExplained ==
  ASSUME IInv, Loops, Heard, Explained, NEW s \in Subscriber, NotifyNext(s)
  PROVE  Explained'
<1> DEFINE f == [calls[1] EXCEPT !.left = @ \ {s}]
           rest == <<f>> \o Tail(calls)
<1>1. /\ calls \in Seq(Frames) /\ calls # <<>> /\ calls[1].op = "notify"
      /\ s \in calls[1].left \cap listening /\ UNCHANGED status
      /\ OnStatus(s, calls[1].status, rest)
  BY DEF Loops, NotifyNext, Idle
<1>2. Tail(calls) \in Seq(Frames) /\ calls[1] \in Frames
  BY <1>1, Popped
<1>3. f \in Frames /\ f.op = "notify"
  BY <1>1, <1>2 DEF Frames
<1> HIDE DEF f
<1>4. rest \in Seq(Frames)
  BY <1>2, <1>3, Pushed
<1>5. /\ \A r \in Subscriber : Opening(rest, r) => Opening(calls, r)
      /\ \A r \in Subscriber : Connecting(rest, r) => Connecting(calls, r)
  <2>1. \A r \in Subscriber : ~IsOpening(f, r) /\ f.op # "connect"
    BY <1>3 DEF IsOpening
  <2> QED BY <1>1, <1>2, <1>3, <2>1, OpeningPopped, OpeningPushed
<1> HIDE DEF rest
<1>6. /\ \A r \in Subscriber : Opening(calls', r) => Opening(calls, r)
      /\ \A r \in Subscriber : Connecting(calls', r) => Connecting(calls, r)
  <2>1. PICK o : Tell(s, o, rest)
    BY <1>1 DEF OnStatus
  <2> QED BY <1>4, <1>5, <2>1, ToldFrames
<1>7. /\ SetupsExplained' /\ Refused' /\ outcome'[s] # "pending"
      /\ \A r \in Subscriber \ {s} : outcome'[r] = outcome[r]
      /\ \A r \in Subscriber : outcome[r] # "none" => outcome'[r] # "none"
  <2>1. ~Owns(s) /\ (outcome[s] = "pending" \/ (outcome[s] = "error" /\ Another(s)))
    BY <1>1 DEF IInv, Explained, Refused
  <2> QED BY <1>1, <2>1, ToldExplained DEF Explained
<1>8. Started'
  BY <1>1, <1>6, <1>7, OthersStay DEF Explained, Started
<1>9. Undisturbed'
  BY <1>1, <1>6, <1>7 DEF Explained, Undisturbed
<1> QED BY <1>7, <1>8, <1>9 DEF Explained

(* Calls of user code and of the transport: what is on top of the stack is *)
(* no connect(), and what they add is none.                                *)
LEMMA ExplainedStep ==
  ASSUME IInv, Loops, Heard, Explained, [Next]_vars
  PROVE  Explained'
<1>1. calls \in Seq(Frames) /\ outcome \in [Subscriber -> Outcome]
  BY DEF Loops, IInv, TypeOK
<1>2. UserCode => \A r \in Subscriber : Connecting(calls, r) => outcome[r] # "pending"
  <2> SUFFICES ASSUME UserCode, NEW r \in Subscriber, Connecting(calls, r), outcome[r] = "pending"
               PROVE  FALSE
    OBVIOUS
  <2>1. calls # <<>>
    BY DEF Connecting
  <2> QED BY <2>1 DEF UserCode, Idle, Explained, Undisturbed
<1>3. CASE Connect \/ UNCHANGED vars
  BY <1>3 DEF Connect, vars, Explained, SetupsExplained, Refused, Started, Undisturbed, Another
<1>4. CASE Close
  <2> DEFINE f == Notify("CLOSED")
  <2>1. f \in Frames /\ f.op = "notify"
    BY DEF Notify, Frames, Settled, IInv, TypeOK
  <2>2. calls' = <<f>> \o calls /\ status' = "CLOSED" /\ UNCHANGED <<outcome, listening, sockets>>
    BY <1>4 DEF Close
  <2> HIDE DEF f
  <2>3. \A r \in Subscriber : Connecting(calls', r) => Connecting(calls, r)
    BY <1>1, <2>1, <2>2, OpeningPushed
  <2>4. UserCode
    BY <1>4 DEF Close
  <2> QED BY <1>2, <2>2, <2>3, <2>4
          DEF Explained, SetupsExplained, Refused, Started, Undisturbed, Another
<1>5. CASE TransportSettles
  <2>1. PICK v \in Settled : calls' = <<Notify(v)>>
    BY <1>5 DEF TransportSettles
  <2>2. UNCHANGED <<outcome, listening, sockets>> /\ status \in {"CONNECTING", "CONNECTED"}
    BY <1>5 DEF TransportSettles
  <2>3. 1..Len(calls') = {1} /\ calls'[1].op = "notify"
    BY <2>1 DEF Notify
  <2>4. \A r \in Subscriber : ~Opening(calls', r) /\ ~Connecting(calls', r)
    BY <2>3 DEF Opening, Connecting, IsOpening
  <2> QED BY <2>2, <2>4 DEF Explained, SetupsExplained, Refused, Started, Undisturbed, Another
<1>6. CASE CallReturns
  <2>1. /\ calls # <<>> /\ calls' = Tail(calls) /\ calls[1].op # "connect"
        /\ UNCHANGED <<status, outcome, listening, sockets>>
    BY <1>6 DEF CallReturns, Idle
  <2>2. \A r \in Subscriber :
          /\ Opening(calls', r) => Opening(calls, r)
          /\ Connecting(calls', r) => Connecting(calls, r)
    BY <1>1, <2>1, OpeningPopped
  <2> QED BY <2>1, <2>2 DEF Explained, SetupsExplained, Refused, Started, Undisturbed, Another
<1>7. ASSUME NEW s \in Subscriber, Subscribe(s) PROVE Explained'
  <2> DEFINE f == Call("onSubscribe", s)
  <2>1. f \in Frames /\ f.op = "onSubscribe" /\ f.sub = s
    BY DEF Call, Frames
  <2>2. /\ outcome[s] = "none" /\ outcome' = [outcome EXCEPT ![s] = "pending"]
        /\ calls' = <<f>> \o calls /\ UNCHANGED <<status, listening, sockets>> /\ UserCode
    BY <1>7 DEF Subscribe
  <2> HIDE DEF f
  <2>3. /\ \A r \in Subscriber \ {s} : outcome'[r] = outcome[r]
        /\ outcome'[s] = "pending"
    BY <1>1, <2>2
  <2>4. \A r \in Subscriber : Another(r) => Another(r)'
    BY <2>2, <2>3, OthersStay
  <2>5. \A r \in Subscriber :
          /\ Opening(calls', r) => r = s \/ Opening(calls, r)
          /\ Connecting(calls', r) => Connecting(calls, r)
    <3>1. \A r \in Subscriber : (IsOpening(f, r) => r = s) /\ f.op # "connect"
      BY <2>1 DEF IsOpening
    <3> QED BY <1>1, <2>1, <2>2, <3>1, OpeningPushed
  <2>6. Started'
    <3>1. (\E t \in Subscriber : outcome[t] # "none") => Another(s)'
      BY <2>2, <2>3 DEF Another
    <3>2. (\E t \in Subscriber : outcome[t] # "none")'
      BY <2>3
    <3> QED BY <2>2, <2>4, <2>5, <3>1, <3>2 DEF Explained, Started
  <2>7. Undisturbed'
    <3>1. ~Connecting(calls, s)
      <4>1. Connecting(calls, s) => Opening(calls, s)
        BY DEF Connecting, Opening, IsOpening
      <4> QED BY <2>2, <4>1 DEF Heard
    <3> QED BY <1>2, <2>2, <2>3, <2>5, <3>1 DEF Undisturbed
  <2>8. SetupsExplained' /\ Refused'
    BY <2>2, <2>3, <2>4 DEF Explained, SetupsExplained, Refused, IInv, TypeOK
  <2> QED BY <2>6, <2>7, <2>8 DEF Explained
<1>8. ASSUME NEW s \in Subscriber, Cancel(s) PROVE Explained'
  <2>1. /\ outcome[s] = "pending" /\ outcome' = [outcome EXCEPT ![s] = "cancelled"]
        /\ listening' = listening \ {s} /\ UNCHANGED <<status, calls, sockets>>
    BY <1>8 DEF Cancel
  <2>2. /\ \A r \in Subscriber \ {s} : outcome'[r] = outcome[r]
        /\ outcome'[s] = "cancelled" /\ ~Owns(s) /\ listening \subseteq Subscriber
    BY <1>1, <2>1 DEF IInv, TypeOK
  <2>3. \A r \in Subscriber : Another(r) => Another(r)'
    BY <2>1, <2>2, OthersStay
  <2>4. SetupsExplained' /\ Refused'
    BY <2>1, <2>2, <2>3 DEF Explained, SetupsExplained, Refused, Owns
  <2>5. Started' /\ Undisturbed'
    BY <2>1, <2>2, <2>3 DEF Explained, Started, Undisturbed
  <2> QED BY <2>4, <2>5 DEF Explained
<1> QED
  BY <1>3, <1>4, <1>5, <1>6, <1>7, <1>8, ListenExplained, ConnectExplained, NotifyExplained
  DEF Next, Progress

(* For any number of subscribers and any nesting: SETUP is sent once at    *)
(* most for each and only for those who are given the transport or were    *)
(* refused it because another had it; and one that connected for nobody,   *)
(* with no call in progress, connected for someone who cancelled.          *)
THEOREM TransportIsUsed == Spec => []TransportUsed
<1>1. Init => Heard /\ Explained
  <2> SUFFICES ASSUME Init PROVE Heard /\ Explained
    OBVIOUS
  <2>1. /\ Len(calls) = 0 /\ status = "NOT_CONNECTED" /\ listening = {}
        /\ Len(sockets) = 0 /\ \A s \in Subscriber : outcome[s] = "none"
    BY DEF Init
  <2>2. Heard
    BY <2>1 DEF Heard, OpensOnce, Opening, Connecting
  <2>3. \A s \in Subscriber : ~Contains(sockets, s) /\ ~Connecting(calls, s)
    BY <2>1 DEF Contains, Connecting
  <2>4. Explained
    BY <2>1, <2>3 DEF Explained, SetupsExplained, Refused, Started, Undisturbed
  <2> QED BY <2>2, <2>4
<1>2. IInv /\ Loops /\ Heard /\ Explained /\ [Next]_vars => Heard' /\ Explained'
  BY HeardStep, ExplainedStep
<1>3. TypeOK /\ Heard /\ Explained => TransportUsed
  <2>1. Idle => \A s \in Subscriber : ~Telling(calls, s)
    BY DEF Idle, Telling
  <2> QED BY <2>1 DEF Heard, Explained, TransportUsed, OrphanNeedsCancel, Someone
<1> QED BY <1>1, <1>2, <1>3, Invariance, TypeCorrect, LoopsAlways, PTL DEF Spec
===============================================================================
