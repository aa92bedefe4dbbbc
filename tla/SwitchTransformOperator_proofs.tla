------------------- MODULE SwitchTransformOperator_proofs -------------------
(***************************************************************************)
(* Proofs about the switch-transform operator, for any number of payloads  *)
(* and requests, upstreams that call back or not, handlers that throw or   *)
(* not and results that come late or not.                                  *)
(***************************************************************************)
EXTENDS MCSwitchTransformOperator, SequenceTheorems, TLAPS

Calls == [at : {"transform", "first", "end"}, n : {0} \cup Amounts]

(* The transformer, or the hand-over of the first payload, is in progress.  *)
Transforming == ~Idle /\ stack[1].at = "transform"
Handing == Inside("first") \/ Inside("end")

-----------------------------------------------------------------------------
(* The inductive invariant. *)

(* The transformer runs below the hand-over, which needs a subscribed       *)
(* handler that has been given its first payload.                           *)
Shape ==
  /\ Len(stack) = 2 => Transforming /\ Handing
  /\ Len(stack) = 1 => Transforming \/ Handing
  /\ Handing => N \in Amounts /\ inner /\ first = 0

(* Until the operator accepts its first payload nothing but an end of the   *)
(* upstream happens, and the upstream owes one payload at most.             *)
Before ==
  /\ accepted = <<>> =>
       /\ sent = 0 /\ first = 0 /\ received = <<>> /\ ~inner /\ Idle
       /\ up.pending <= 1
       /\ ~subscription <=> ~up.started
       /\ ~up.started => ~up.active /\ up.pending = 0 /\ ~done /\ ended = "none"
       /\ done \/ ended # "none" => ~up.active /\ out.started
  /\ accepted # <<>> => subscription

(* The payload that is held is the only one: the upstream owes none.        *)
Holding ==
  /\ first # 0 =>
       accepted = <<first>> /\ received = <<>> /\ up.pending = 0 /\ in.pending = 0
  /\ accepted # <<>> /\ ~inner => first # 0

(* The handler's wrapper is open until a cancel or an end closes it.        *)
Input ==
  /\ in.started <=> inner
  /\ in.active => inner
  /\ canceled => inner /\ ~in.active
  /\ inner /\ ~canceled /\ ending = "none" => in.active
  /\ ~inner => in.pending = 0

(* What the upstream still owes never exceeds what the handler still wants, *)
(* the part of its request that request(n) has yet to pass on included.     *)
Owed == up.pending + (IF Handing THEN N - 1 ELSE 0)
Demand ==
  inner /\ first = 0 /\ in.active =>
    /\ in.pending = MAX_REQUEST_N \/ in.pending >= Owed
    /\ Handing /\ N = MAX_REQUEST_N => in.pending = MAX_REQUEST_N

(* InputInOrder, by what is held. *)
Order ==
  /\ ~canceled /\ first = 0 => received = accepted
  /\ canceled => received \in {accepted, <<>>}

(* NoLostTerminal, also while calls are in progress. *)
Told ==
  done /\ inner /\ first = 0 /\ ~canceled => ending # "none" \/ Inside("first")

(* RequesterAnswered, also while calls are in progress. *)
Answer ==
  /\ done /\ ~inner => out.started
  /\ accepted # <<>> =>
       Transforming \/ out.started \/ result = "late" \/ threw = "after"

IInv ==
  /\ TypeOK /\ Shape /\ Before /\ Holding /\ Input
  /\ Demand /\ Order /\ EndComesLast /\ Told /\ Answer

-----------------------------------------------------------------------------
(* What the operations on a wrapper do to its three fields. *)

LEMMA MaxIsNat == MAX_REQUEST_N \in Nat /\ MAX_REQUEST_N > 2
BY SMT DEF MAX_REQUEST_N

LEMMA GuardStarted ==
  ASSUME NEW g \in Guards
  PROVE  /\ Started(g) \in Guards /\ Started(g).started
         /\ g.started => Started(g) = g
         /\ ~g.started => Started(g).active /\ Started(g).pending = 0
BY DEF Started, Guards

LEMMA GuardClosed ==
  ASSUME NEW g \in Guards
  PROVE  /\ Closed(g) \in Guards
         /\ Closed(g).started = g.started /\ ~Closed(g).active
         /\ Closed(g).pending = g.pending
BY DEF Closed, Guards

LEMMA GuardAsked ==
  ASSUME NEW g \in Guards, NEW n \in Nat
  PROVE  /\ Asked(g, n) \in Guards
         /\ Asked(g, n).started = g.started /\ Asked(g, n).active = g.active
         /\ ~g.active => Asked(g, n) = g
         /\ g.active /\ MAX_REQUEST_N \in {n, g.pending} => Asked(g, n).pending = MAX_REQUEST_N
         /\ g.active /\ MAX_REQUEST_N \notin {n, g.pending} =>
              Asked(g, n).pending = g.pending + n
<1>1. MAX_REQUEST_N \in Nat
  BY MaxIsNat
<1> QED BY <1>1 DEF Asked, Guards

LEMMA GuardTook ==
  ASSUME NEW g \in Guards, PassesNext(g)
  PROVE  /\ TookNext(g) \in Guards
         /\ TookNext(g).started = g.started /\ TookNext(g).active = g.active
         /\ g.pending = MAX_REQUEST_N => TookNext(g).pending = MAX_REQUEST_N
         /\ g.pending # MAX_REQUEST_N => TookNext(g).pending = g.pending - 1
<1>1. g.pending \in Nat /\ g.pending > 0
  BY DEF PassesNext, Guards
<1>2. g.pending - 1 \in Nat
  BY <1>1
<1> QED BY <1>2 DEF TookNext, Guards

-----------------------------------------------------------------------------
(* What the operations on the stack do to the activations. *)

(* A stack without its top. *)
LEMMA PopTop ==
  ASSUME NEW s \in Seq(Calls), Len(s) \in {1, 2}
  PROVE  LET t == SubSeq(s, 1, Len(s) - 1)
         IN  /\ t \in Seq(Calls) /\ Len(t) = Len(s) - 1
             /\ Len(s) = 1 => t = <<>>
             /\ Len(s) = 2 => t # <<>> /\ t[1] = s[1]
<1> DEFINE t == SubSeq(s, 1, Len(s) - 1)
<1>1. CASE Len(s) = 1
  <2>1. t = <<>>
    BY <1>1, SubSeqProperties, EmptySeq, LenProperties
  <2> QED BY <1>1, <2>1, EmptySeq
<1>2. CASE Len(s) = 2
  <2>1. 1 \in 1..Len(s) + 1 /\ 1 \in 0..Len(s)
    BY <1>2
  <2>2. t \in Seq(Calls) /\ Len(t) = 1 /\ t[1] = s[1]
    BY <1>2, <2>1, SubSeqProperties
  <2> HIDE DEF t
  <2>3. t # <<>>
    BY <2>2, EmptySeq
  <2>4. Len(t) = Len(s) - 1 /\ Len(s) # 1
    BY <1>2, <2>2
  <2> QED BY <2>2, <2>3, <2>4, Zenon DEF t
<1> QED BY <1>1, <1>2

(* A stack that is neither empty nor deeper than two. *)
LEMMA Depth ==
  ASSUME TypeOK, Shape, ~Idle
  PROVE  /\ stack \in Seq(Calls) /\ Len(stack) \in {1, 2}
         /\ stack[Len(stack)] \in Calls
         /\ Inside("transform") => Len(stack) = 1
         /\ Handing => N \in Amounts /\ N \in Nat
<1>1. stack \in Seq(Calls) /\ stack # <<>> /\ Len(stack) <= 2
  BY DEF TypeOK, Idle, Calls
<1>2. Len(stack) \in Nat \ {0}
  BY <1>1, EmptySeq, Zenon
<1>3. Len(stack) \in {1, 2}
  <2>1. \A k \in Nat \ {0} : k <= 2 => k \in {1, 2}
    OBVIOUS
  <2> QED BY <1>1, <1>2, <2>1, Zenon
<1>4. stack[Len(stack)] \in Calls
  BY <1>1, <1>2, ElementOfSeq, Len(stack) \in 1..Len(stack)
<1>5. Inside("transform") => ~Handing
  BY DEF Inside, Handing
<1> QED BY <1>1, <1>3, <1>4, <1>5, MaxIsNat DEF Shape, Amounts

(* The activation of the transformer is the only one when it ends. *)
LEMMA TransformPops ==
  ASSUME TypeOK, Shape, Inside("transform"), stack' = Pop
  PROVE  stack' = <<>> /\ stack' \in Seq(Calls) /\ Len(stack') = 0
<1>1. ~Idle
  BY DEF Inside
<1> QED BY <1>1, Depth, PopTop DEF Pop

(* The hand-over ends, and leaves the transformer, if it is in progress.    *)
LEMMA HandOverPops ==
  ASSUME TypeOK, Shape, Handing, stack' = Pop
  PROVE  /\ stack' \in Seq(Calls) /\ Len(stack') <= 1
         /\ ~Handing' /\ ~Inside("first")' /\ (Transforming' <=> Transforming)
         /\ Len(stack') = 1 => Transforming'
<1>1. ~Idle /\ Len(stack) \in {1, 2} /\ stack \in Seq(Calls)
  BY Depth DEF Inside, Handing
<1>2. /\ stack' \in Seq(Calls) /\ Len(stack') = Len(stack) - 1
      /\ Len(stack) = 1 => stack' = <<>>
      /\ Len(stack) = 2 => stack' # <<>> /\ stack'[1] = stack[1]
  BY <1>1, PopTop DEF Pop
<1>3. CASE Len(stack) = 1
  BY <1>1, <1>2, <1>3 DEF Transforming, Handing, Inside, Idle
<1>4. CASE Len(stack) = 2
  <2>1. Transforming /\ stack'[1].at = "transform" /\ Len(stack') = 1 /\ ~Idle'
    BY <1>2, <1>4 DEF Shape, Transforming, Idle
  <2>2. stack'[Len(stack')].at = "transform"
    BY <2>1, Zenon
  <2>3. ~Handing' /\ ~Inside("first")' /\ Transforming'
    BY <2>1, <2>2 DEF Transforming, Handing, Inside
  <2>4. Len(stack') <= 1
    BY <2>1
  <2> QED BY <1>2, <2>1, <2>3, <2>4, Zenon
<1> QED BY <1>1, <1>3, <1>4

(* The end of the input is passed on where the first payload was. *)
LEMMA HandOverGoesOn ==
  ASSUME TypeOK, Shape, Handing, stack' = Append(Pop, [at |-> "end", n |-> N])
  PROVE  /\ stack' \in Seq(Calls) /\ Len(stack') = Len(stack)
         /\ ~Idle' /\ Handing' /\ ~Inside("first")' /\ N' = N
         /\ (Transforming' <=> Transforming)
<1> DEFINE r == [at |-> "end", n |-> N]
<1>1. ~Idle /\ Len(stack) \in {1, 2} /\ stack \in Seq(Calls) /\ N \in Amounts
  BY Depth DEF Inside, Handing
<1>2. /\ Pop \in Seq(Calls) /\ Len(Pop) = Len(stack) - 1
      /\ Len(stack) = 2 => Pop[1] = stack[1]
  BY <1>1, PopTop DEF Pop
<1>3. r \in Calls /\ r.at = "end" /\ r.n = N
  BY <1>1 DEF Calls
<1> HIDE DEF r
<1>4. /\ stack' \in Seq(Calls) /\ stack' # <<>> /\ Len(stack') = Len(Pop) + 1
      /\ stack'[Len(Pop) + 1] = r /\ \A i \in 1..Len(Pop) : stack'[i] = Pop[i]
  BY <1>2, <1>3, AppendProperties DEF r
<1>5. Len(stack') = Len(stack) /\ stack'[Len(stack')] = r
  BY <1>1, <1>2, <1>4
<1>6. Len(stack) = 2 => stack'[1] = stack[1]
  BY <1>2, <1>4
<1>7. Len(stack) = 1 => ~Transforming /\ stack'[1] = r
  BY <1>5 DEF Transforming, Handing, Inside
<1>8. (Transforming' <=> Transforming)
  BY <1>1, <1>3, <1>4, <1>6, <1>7 DEF Transforming, Idle
<1> QED BY <1>3, <1>4, <1>5, <1>8 DEF Handing, Inside, Idle, N

(* The transformer is called when nothing is in progress. *)
LEMMA TransformPushed ==
  ASSUME TypeOK, Idle, stack' = Push("transform", 0)
  PROVE  /\ stack' \in Seq(Calls) /\ Len(stack') = 1
         /\ ~Idle' /\ Transforming' /\ ~Handing' /\ ~Inside("first")'
<1> DEFINE r == [at |-> "transform", n |-> 0]
<1>1. stack \in Seq(Calls) /\ Len(stack) = 0
  BY EmptySeq DEF TypeOK, Idle, Calls
<1>2. r \in Calls /\ r.at = "transform"
  BY DEF Calls
<1> HIDE DEF r
<1>3. stack' \in Seq(Calls) /\ stack' # <<>> /\ Len(stack') = 1 /\ stack'[1] = r
  BY <1>1, <1>2, AppendProperties DEF Push, r
<1> QED BY <1>2, <1>3 DEF Transforming, Handing, Inside, Idle

(* The first payload is handed over inside the transformer, or alone. *)
LEMMA HandOverPushed ==
  ASSUME TypeOK, Shape, ~Handing, NEW n \in Amounts, stack' = Push("first", n)
  PROVE  /\ stack' \in Seq(Calls) /\ Len(stack') \in {1, 2}
         /\ ~Idle' /\ Handing' /\ Inside("first")' /\ N' = n
         /\ (Transforming' <=> Transforming)
         /\ Len(stack') = 2 => Transforming'
<1> DEFINE r == [at |-> "first", n |-> n]
<1>1. stack \in Seq(Calls) /\ Len(stack) \in {0, 1}
  <2>1. CASE Idle
    BY <2>1, EmptySeq DEF TypeOK, Idle, Calls
  <2>2. CASE ~Idle
    BY <2>2, Depth DEF Shape
  <2> QED BY <2>1, <2>2
<1>2. r \in Calls /\ r.at = "first" /\ r.n = n
  BY DEF Calls
<1> HIDE DEF r
<1>3. /\ stack' \in Seq(Calls) /\ stack' # <<>> /\ Len(stack') = Len(stack) + 1
      /\ stack'[Len(stack) + 1] = r /\ \A i \in 1..Len(stack) : stack'[i] = stack[i]
  BY <1>1, <1>2, AppendProperties DEF Push, r
<1>4. Len(stack') \in {1, 2}
  <2>1. \A k : k \in {0, 1} => k + 1 \in {1, 2}
    OBVIOUS
  <2> QED BY <1>1, <1>3, <2>1, Zenon
<1>5. stack'[Len(stack')] = r
  BY <1>3, Zenon
<1>6. ~Idle' /\ Handing' /\ Inside("first")' /\ N' = n
  BY <1>2, <1>3, <1>5 DEF Handing, Inside, Idle, N
<1>7. CASE Len(stack) = 0
  <2>1. Idle /\ ~Transforming
    BY <1>1, <1>7, EmptySeq DEF Idle, Transforming
  <2>2. stack'[1] = r /\ Len(stack') = 1
    BY <1>3, <1>7
  <2>3. ~Transforming'
    BY <1>2, <2>2 DEF Transforming
  <2>4. Len(stack') # 2
    BY <2>2
  <2> QED BY <1>3, <1>4, <1>6, <2>1, <2>3, <2>4, Zenon
<1>8. CASE Len(stack) = 1
  <2>1. Transforming
    BY <1>8 DEF Shape
  <2>2. stack'[1] = stack[1]
    BY <1>3, <1>8
  <2>3. Transforming'
    BY <1>6, <2>1, <2>2 DEF Transforming
  <2> QED BY <1>3, <1>4, <1>6, <2>1, <2>3
<1> QED BY <1>1, <1>7, <1>8

(* A step that leaves the stack alone. *)
LEMMA StackKept ==
  ASSUME stack' = stack
  PROVE  /\ (Idle' <=> Idle) /\ (Transforming' <=> Transforming) /\ (Handing' <=> Handing)
         /\ (Inside("first")' <=> Inside("first"))
         /\ N' = N /\ Len(stack') = Len(stack)
BY DEF Idle, Transforming, Handing, Inside, N

-----------------------------------------------------------------------------
(* The invariant holds initially, and every step keeps it. *)

(* The type invariant, variable by variable. *)
LEMMA Types ==
  ASSUME TypeOK
  PROVE  /\ up \in Guards /\ in \in Guards /\ out \in Guards
         /\ up.pending \in Nat /\ in.pending \in Nat
         /\ up.active \in BOOLEAN /\ in.active \in BOOLEAN /\ out.started \in BOOLEAN
         /\ up.started \in BOOLEAN /\ in.started \in BOOLEAN
         /\ accepted \in Seq(1..MaxItems) /\ received \in Seq(1..MaxItems)
         /\ sent \in 0..MaxItems /\ sent \in Nat /\ first \in 0..MaxItems
         /\ stack \in Seq(Calls)
BY DEF TypeOK, Guards, Calls

LEMMA InitInvariant == Init => IInv
<1> SUFFICES ASSUME Init PROVE IInv
  OBVIOUS
<1>1. /\ Idle /\ ~Handing /\ ~Transforming /\ ~Inside("first") /\ Len(stack) = 0
      /\ stack \in Seq(Calls)
  BY EmptySeq DEF Init, Idle, Handing, Transforming, Inside
<1>2. /\ NewGuard \in Guards /\ ~NewGuard.started /\ ~NewGuard.active
      /\ NewGuard.pending = 0
  BY DEF NewGuard, Guards
<1>3. TypeOK
  <2>1. accepted \in Seq(1..MaxItems) /\ received \in Seq(1..MaxItems)
    BY EmptySeq DEF Init
  <2>2. first \in 0..MaxItems /\ sent \in 0..MaxItems /\ requests \in 0..MaxRequests
    BY ConstantsAssumption DEF Init
  <2>3. stack \in Seq([at : {"transform", "first", "end"}, n : {0} \cup Amounts])
    BY <1>1 DEF Calls
  <2>4. demanded \in Nat /\ endCalls \in Nat /\ Len(stack) <= 2
    BY <1>1 DEF Init
  <2> QED BY <1>2, <2>1, <2>2, <2>3, <2>4, Zenon DEF Init, TypeOK
<1>4. Shape /\ Holding /\ Input
  <2>1. Shape
    BY <1>1 DEF Shape
  <2>2. Holding /\ Input
    BY <1>1, <1>2 DEF Init, Holding, Input
  <2> QED BY <2>1, <2>2
<1>6. Before
  BY <1>1, <1>2 DEF Init, Before
<1>5. Demand /\ Order /\ EndComesLast /\ Told /\ Answer
  BY <1>1, <1>2 DEF Init, Demand, Order, EndComesLast, Told, Answer
<1> QED BY <1>3, <1>4, <1>5, <1>6 DEF IInv

(* Signals of the upstream. *)
LEMMA OnSubscribeStep == IInv /\ OnSubscribe => IInv'
<1> SUFFICES ASSUME IInv, OnSubscribe PROVE IInv'
  OBVIOUS
<1> USE DEF IInv
<1>1. accepted = <<>> /\ ~inner /\ first = 0 /\ ~up.started /\ up.pending = 0 /\ ~up.active
  BY DEF Before, OnSubscribe
<1>2. up \in Guards /\ Started(up) \in Guards /\ Started(up).started /\ Started(up).active
      /\ Started(up).pending = 0
  BY <1>1, Types, GuardStarted
<1>3. up' \in Guards /\ up'.started /\ up'.active /\ up'.pending = 1
  BY <1>2, GuardAsked, MaxIsNat, SMTT(30) DEF OnSubscribe
<1>4. /\ UNCHANGED <<first, inner, done, error, canceled, stack, in, out, result, outBy,
                     sent, ended, threw, accepted, requests, demanded, received, ending,
                     endCalls>>
      /\ subscription' = TRUE
  BY DEF OnSubscribe, answer, history
<1>5. TypeOK'
  BY <1>3, <1>4 DEF TypeOK
<1>6. Shape'
  BY <1>4, StackKept DEF Shape
<1>7. Before' /\ Holding' /\ Input'
  BY <1>1, <1>3, <1>4, StackKept DEF Before, Holding, Input
<1>8. Demand' /\ Order' /\ EndComesLast' /\ Told' /\ Answer'
  BY <1>1, <1>3, <1>4, StackKept DEF Demand, Order, EndComesLast, Told, Answer
<1> QED BY <1>5, <1>6, <1>7, <1>8

(* A payload that is ignored, by an operator that is cancelled or done.     *)
LEMMA OnNextIgnored ==
  ASSUME IInv, OnNext, canceled \/ done
  PROVE  IInv'
<1> USE DEF IInv
<1>1. /\ up \in Guards /\ PassesNext(up) /\ up.active /\ up.pending \in Nat /\ up.pending > 0
  BY Types DEF OnNext, PassesNext
<1>2. /\ up' \in Guards /\ up'.started = up.started /\ up'.active = up.active
      /\ up'.pending \in Nat /\ up'.pending <= up.pending
  <2>1. up'.pending = up.pending \/ up'.pending = up.pending - 1
    BY <1>1, GuardTook DEF OnNext
  <2>2. up' \in Guards /\ up'.started = up.started /\ up'.active = up.active
    BY <1>1, GuardTook DEF OnNext
  <2>3. up'.pending \in Nat
    BY <2>2 DEF Guards
  <2> QED BY <1>1, <2>1, <2>2, <2>3
<1>3. /\ UNCHANGED <<first, inner, done, error, canceled, stack, in, out, result, outBy,
                     subscription, ended, threw, accepted, requests, demanded, received,
                     ending, endCalls>>
      /\ sent' \in 0..MaxItems
  <2>1. sent' = sent + 1 /\ sent < MaxItems /\ sent \in Nat
    BY Types DEF OnNext
  <2>2. sent' \in 0..MaxItems
    BY <2>1, ConstantsAssumption
  <2> QED BY <2>2 DEF OnNext, answer
<1>4. accepted # <<>>
  BY <1>1 DEF Before, Input
<1>5. TypeOK'
  BY <1>2, <1>3 DEF TypeOK
<1>6. first = 0
  BY <1>1 DEF Holding
<1>7. Shape' /\ Before' /\ Holding' /\ Input'
  BY <1>3, <1>4, <1>6, StackKept DEF Shape, Before, Holding, Input
<1>8. Order' /\ EndComesLast' /\ Told' /\ Answer'
  BY <1>3, StackKept DEF Order, EndComesLast, Told, Answer
<1>9. Demand'
  <2> SUFFICES ASSUME inner, in.active
               PROVE  /\ in.pending = MAX_REQUEST_N \/ in.pending >= Owed'
                      /\ Handing /\ N = MAX_REQUEST_N => in.pending = MAX_REQUEST_N
    BY <1>3, <1>6, StackKept DEF Demand
  <2>1. Handing => N \in Nat
    BY Depth DEF Handing, Inside
  <2>2. Owed' \in Int /\ Owed \in Int /\ Owed' <= Owed
    BY <1>1, <1>2, <1>3, <2>1, StackKept DEF Owed
  <2> QED BY <1>6, <2>2, Types DEF Demand
<1> QED BY <1>5, <1>7, <1>8, <1>9

(* The first payload: the transformer is called with it. *)
LEMMA OnNextFirst ==
  ASSUME IInv, OnNext, ~canceled, ~done, ~inner
  PROVE  IInv'
<1> USE DEF IInv
<1>1. /\ up \in Guards /\ PassesNext(up) /\ up.active /\ up.pending \in Nat /\ up.pending > 0
      /\ sent < MaxItems
  BY Types DEF OnNext, PassesNext
<1>2. accepted = <<>> /\ first = 0 /\ received = <<>> /\ sent = 0 /\ Idle /\ up.pending = 1
  <2>1. accepted = <<>>
    BY <1>1 DEF Holding
  <2> QED BY <1>1, <2>1 DEF Before
<1>3. up' \in Guards /\ up'.started = up.started /\ up'.active = up.active /\ up'.pending = 0
  <2>1. up.pending # MAX_REQUEST_N
    BY <1>2, MaxIsNat
  <2>2. up'.pending = up.pending - 1
    BY <1>1, <2>1, GuardTook DEF OnNext
  <2>3. up'.pending = 0
    BY <1>2, <2>2
  <2> QED BY <1>1, <2>3, GuardTook DEF OnNext
<1>4. /\ UNCHANGED <<inner, done, error, canceled, in, out, result, outBy,
                     subscription, ended, threw, requests, demanded, received,
                     ending, endCalls>>
      /\ sent' = 1 /\ first' = 1 /\ accepted' = Append(accepted, 1)
      /\ stack' = Push("transform", 0)
  BY <1>2 DEF OnNext, answer
<1>5. 1 \in 1..MaxItems /\ 1 \in 0..MaxItems
  BY <1>1, <1>2, ConstantsAssumption
<1>6. accepted' = <<1>> /\ accepted' # <<>> /\ accepted' \in Seq(1..MaxItems)
  BY <1>2, <1>4, <1>5, AppendProperties, Types
<1>7. /\ stack' \in Seq(Calls) /\ Len(stack') = 1
      /\ ~Idle' /\ Transforming' /\ ~Handing' /\ ~Inside("first")'
  BY <1>2, <1>4, TransformPushed
<1>8. TypeOK'
  <2>1. stack' \in Seq([at : {"transform", "first", "end"}, n : {0} \cup Amounts])
    BY <1>7 DEF Calls
  <2> QED BY <1>3, <1>4, <1>5, <1>6, <1>7, <2>1 DEF TypeOK
<1>9. Shape' /\ Before' /\ Holding' /\ Input'
  <2>1. subscription
    BY <1>1, <1>2 DEF Before
  <2>2. Shape' /\ Before'
    BY <1>4, <1>6, <1>7, <2>1 DEF Shape, Before
  <2>3. Holding' /\ Input'
    BY <1>2, <1>3, <1>4, <1>6 DEF Holding, Input
  <2> QED BY <2>2, <2>3
<1>10. Demand' /\ Order' /\ EndComesLast' /\ Told' /\ Answer'
  BY <1>2, <1>4, <1>6, <1>7 DEF Demand, Order, EndComesLast, Told, Answer
<1> QED BY <1>8, <1>9, <1>10

(* A later payload reaches the handler, which has asked for it. *)
LEMMA OnNextInner ==
  ASSUME IInv, OnNext, ~canceled, ~done, inner
  PROVE  IInv'
<1> USE DEF IInv
<1>1. /\ up \in Guards /\ PassesNext(up) /\ up.active /\ up.pending \in Nat /\ up.pending > 0
      /\ in \in Guards /\ in.pending \in Nat /\ sent < MaxItems
  BY Types DEF OnNext, PassesNext
<1>2. first = 0 /\ in.active /\ ending = "none" /\ accepted # <<>> /\ received = accepted
  BY <1>1 DEF Holding, Input, EndComesLast, Order, Before
<1>3. Handing => N \in Nat /\ N >= 1
  <2>1. \A n \in Amounts : n \in Nat /\ n >= 1
    BY MaxIsNat DEF Amounts
  <2> QED BY <2>1 DEF Shape
<1>4. PassesNext(in)
  <2>1. Owed \in Int /\ Owed >= up.pending
    BY <1>1, <1>3 DEF Owed
  <2>2. in.pending > 0
    BY <1>1, <1>2, <2>1, MaxIsNat DEF Demand
  <2> QED BY <1>2, <2>2 DEF PassesNext
<1>5. /\ UNCHANGED <<first, inner, done, error, canceled, stack, out, result, outBy,
                     subscription, ended, threw, requests, demanded, ending, endCalls>>
      /\ sent' = sent + 1 /\ accepted' = Append(accepted, sent')
      /\ received' = Append(received, sent')
      /\ up' = TookNext(up) /\ in' = TookNext(in)
  BY <1>4 DEF OnNext, InnerNext, answer
<1>6. up' \in Guards /\ up'.started = up.started /\ up'.active = up.active
  BY <1>1, <1>5, GuardTook
<1>7. in' \in Guards /\ in'.started = in.started /\ in'.active = in.active
  BY <1>1, <1>4, <1>5, GuardTook
<1>8. sent' \in 1..MaxItems /\ sent' \in 0..MaxItems
  BY <1>1, <1>5, Types, ConstantsAssumption
<1>9. /\ accepted' \in Seq(1..MaxItems) /\ accepted' # <<>> /\ received' \in Seq(1..MaxItems)
      /\ received' = accepted'
  BY <1>2, <1>5, <1>8, AppendProperties, Types
<1>10. TypeOK'
  BY <1>5, <1>6, <1>7, <1>8, <1>9 DEF TypeOK
<1>11. Shape' /\ Before' /\ Holding' /\ Input'
  BY <1>2, <1>5, <1>7, <1>9, StackKept DEF Shape, Before, Holding, Input
<1>12. Order' /\ EndComesLast' /\ Told' /\ Answer'
  BY <1>2, <1>5, <1>9, StackKept DEF Order, EndComesLast, Told, Answer, Before
<1>13. Demand'
  <2>1. /\ Handing' <=> Handing
        /\ N' = N
    BY <1>5, StackKept
  <2>2. CASE in.pending = MAX_REQUEST_N
    <3>1. in'.pending = MAX_REQUEST_N
      BY <1>1, <1>4, <1>5, <2>2, GuardTook
    <3> QED BY <3>1 DEF Demand
  <2>3. CASE in.pending # MAX_REQUEST_N
    <3>1. in'.pending = in.pending - 1 /\ in.pending >= Owed
      BY <1>1, <1>2, <1>4, <1>5, <2>3, GuardTook DEF Demand
    <3>2. ~(Handing /\ N = MAX_REQUEST_N)
      BY <1>2, <2>3 DEF Demand
    <3>3. CASE up.pending = MAX_REQUEST_N
      <4>1. up'.pending = MAX_REQUEST_N
        BY <1>1, <1>5, <3>3, GuardTook
      <4>2. Owed' = Owed
        BY <2>1, <3>3, <4>1 DEF Owed
      <4>3. CASE Handing
        <5>1. N \in {1, 2}
          BY <3>2, <4>3 DEF Shape, Amounts
        <5>2. Owed = MAX_REQUEST_N + (N - 1)
          BY <3>3, <4>3 DEF Owed
        <5>3. in'.pending = MAX_REQUEST_N \/ in'.pending >= Owed'
          BY <1>1, <2>3, <3>1, <4>2, <5>1, <5>2, MaxIsNat
        <5> QED BY <2>1, <3>2, <5>3 DEF Demand
      <4>4. CASE ~Handing
        <5>1. Owed = MAX_REQUEST_N
          BY <3>3, <4>4, MaxIsNat DEF Owed
        <5>2. in'.pending >= Owed'
          BY <1>1, <2>3, <3>1, <4>2, <5>1, MaxIsNat
        <5> QED BY <2>1, <4>4, <5>2 DEF Demand
      <4> QED BY <4>3, <4>4
    <3>4. CASE up.pending # MAX_REQUEST_N
      <4>1. up'.pending = up.pending - 1
        BY <1>1, <1>5, <3>4, GuardTook
      <4>2. Owed' = Owed - 1 /\ Owed \in Int
        BY <1>1, <1>3, <2>1, <4>1 DEF Owed
      <4>3. in'.pending >= Owed'
        BY <1>1, <3>1, <4>2
      <4> QED BY <2>1, <3>2, <4>3 DEF Demand
    <3> QED BY <3>3, <3>4
  <2> QED BY <2>2, <2>3
<1> QED BY <1>10, <1>11, <1>12, <1>13

LEMMA OnNextStep == IInv /\ OnNext => IInv'
BY OnNextIgnored, OnNextFirst, OnNextInner

(* What onError and onComplete do, whoever calls them. *)
LEMMA FinishFacts ==
  ASSUME IInv, NEW how \in {"complete", "error"}, Finish(how),
         UNCHANGED <<first, inner, canceled, accepted, received>>
  PROVE  /\ done' \in BOOLEAN /\ error' \in BOOLEAN /\ endCalls' \in Nat
         /\ in' \in Guards /\ out' \in Guards
         /\ outBy' \in {"none", "stub", "result"}
         /\ ending' \in {"none", "complete", "error"}
         /\ in'.started <=> in.started
         /\ in'.pending = in.pending
         /\ in'.active => in.active
         /\ out.started => out'.started
         /\ ~inner => out'.started /\ done'
         /\ inner /\ ~canceled /\ ending' = "none" => in'.active
         /\ EndComesLast'
         /\ done' /\ inner /\ first = 0 /\ ~canceled => ending' # "none" \/ Inside("first")
<1> USE DEF IInv
<1>1. /\ in \in Guards /\ out \in Guards
      /\ done \in BOOLEAN /\ error \in BOOLEAN /\ endCalls \in Nat
      /\ outBy \in {"none", "stub", "result"} /\ ending \in {"none", "complete", "error"}
  BY DEF TypeOK
<1>2. CASE canceled \/ done
  <2>1. UNCHANGED <<done, error, in, out, outBy, ending, endCalls>>
    BY <1>2 DEF Finish
  <2>2. ~inner => done /\ out.started
    BY <1>2 DEF Input, Answer
  <2>3. EndComesLast'
    BY <2>1 DEF EndComesLast
  <2> QED BY <1>1, <2>1, <2>2, <2>3 DEF Input, Told
<1>3. CASE ~canceled /\ ~done /\ ~inner
  <2>1. /\ done' = TRUE /\ error' = (how = "error") /\ UNCHANGED <<in, ending, endCalls>>
        /\ out' = Started(out) /\ outBy' = IF out.started THEN outBy ELSE "stub"
    BY <1>3 DEF Finish, OuterSubscribed
  <2>2. out' \in Guards /\ out'.started
    BY <1>1, <2>1, GuardStarted
  <2>3. EndComesLast'
    BY <1>3, <2>1 DEF EndComesLast
  <2> QED BY <1>1, <1>3, <2>1, <2>2, <2>3
<1>4. CASE ~canceled /\ ~done /\ inner /\ first # 0
  <2>1. done' = TRUE /\ error' = (how = "error")
        /\ UNCHANGED <<in, out, outBy, ending, endCalls>>
    BY <1>4 DEF Finish
  <2>2. EndComesLast'
    BY <1>4, <2>1 DEF EndComesLast
  <2> QED BY <1>1, <1>4, <2>1, <2>2 DEF Input
<1>5. CASE ~canceled /\ ~done /\ inner /\ first = 0
  <2>1. ending = "none" /\ in.active /\ received = accepted
    BY <1>5 DEF EndComesLast, Input, Order
  <2>2. /\ done' = TRUE /\ error' = (how = "error") /\ UNCHANGED <<out, outBy>>
        /\ endCalls' = endCalls + 1 /\ ending' = how /\ in' = Closed(in)
    BY <1>5, <2>1 DEF Finish, InnerEnd
  <2>3. in' \in Guards /\ in'.started = in.started /\ in'.pending = in.pending /\ ~in'.active
    BY <1>1, <2>2, GuardClosed
  <2>4. EndComesLast'
    BY <2>1, <2>2 DEF EndComesLast
  <2>5. endCalls' \in Nat
    BY <1>1, <2>2
  <2> QED BY <1>1, <1>5, <2>1, <2>2, <2>3, <2>4, <2>5
<1> QED BY <1>2, <1>3, <1>4, <1>5

(* The end of the upstream. *)
LEMMA EndStep ==
  ASSUME IInv, NEW how \in {"complete", "error"}, End(how)
  PROVE  IInv'
<1> USE DEF IInv
<1>1. /\ UNCHANGED <<subscription, first, inner, canceled, stack, result, sent, threw,
                     accepted, requests, demanded, received>>
      /\ up' = Closed(up) /\ ended' = how /\ up.active /\ Finish(how)
  BY DEF End
<1>2. up' \in Guards /\ up'.started = up.started /\ ~up'.active /\ up'.pending = up.pending
  BY <1>1, Types, GuardClosed
<1>3. /\ done' \in BOOLEAN /\ error' \in BOOLEAN /\ endCalls' \in Nat
      /\ in' \in Guards /\ out' \in Guards
      /\ outBy' \in {"none", "stub", "result"}
      /\ ending' \in {"none", "complete", "error"}
  BY <1>1, FinishFacts
<1>4. TypeOK'
  BY <1>1, <1>2, <1>3 DEF TypeOK
<1>5. /\ in'.started <=> in.started
      /\ in'.pending = in.pending
      /\ in'.active => in.active
      /\ out.started => out'.started
      /\ ~inner => out'.started /\ done'
      /\ inner /\ ~canceled /\ ending' = "none" => in'.active
      /\ EndComesLast'
      /\ done' /\ inner /\ first = 0 /\ ~canceled => ending' # "none" \/ Inside("first")
  BY <1>1, FinishFacts
<1>6. Shape' /\ Holding' /\ Input'
  BY <1>1, <1>2, <1>5, StackKept DEF Shape, Holding, Input
<1>7. Before'
  <2>1. accepted = <<>> => up.started
    BY <1>1 DEF Before
  <2> QED BY <1>1, <1>2, <1>5, <2>1, StackKept DEF Before
<1>8. Demand'
  <2>1. Owed' = Owed
    BY <1>1, <1>2, StackKept DEF Owed
  <2> QED BY <1>1, <1>5, <2>1, StackKept DEF Demand
<1>9. Order' /\ Told' /\ Answer'
  BY <1>1, <1>5, StackKept DEF Order, Told, Answer
<1> QED BY <1>4, <1>5, <1>6, <1>7, <1>8, <1>9

(* The handler. *)
LEMMA TransformReturnsStep == IInv /\ TransformReturns => IInv'
<1> SUFFICES ASSUME IInv, TransformReturns PROVE IInv'
  OBVIOUS
<1> USE DEF IInv
<1>1. /\ UNCHANGED <<subscription, first, inner, done, error, canceled, up, in,
                     sent, ended, threw, accepted, requests, demanded, received, ending,
                     endCalls>>
      /\ Inside("transform") /\ stack' = Pop
  BY DEF TransformReturns, history
<1>2. stack' = <<>> /\ stack' \in Seq(Calls) /\ Len(stack') = 0
  BY <1>1, TransformPops
<1>3. Idle' /\ ~Handing' /\ ~Inside("first")' /\ ~Transforming'
  BY <1>2 DEF Idle, Handing, Inside, Transforming
<1>4. ~Handing /\ ~Inside("first") /\ ~Idle
  BY <1>1 DEF Handing, Inside
<1>5. /\ out' \in Guards /\ result' \in {"subscribed", "late"}
      /\ outBy' \in {"none", "stub", "result"}
      /\ out.started => out'.started
      /\ out'.started \/ result' = "late"
  <2>1. out \in Guards /\ outBy \in {"none", "stub", "result"}
    BY DEF TypeOK
  <2>2. CASE result' = "subscribed" /\ OuterSubscribed("result")
    BY <2>1, <2>2, GuardStarted DEF OuterSubscribed
  <2>3. CASE result' = "late" /\ UNCHANGED <<out, outBy>>
    BY <2>1, <2>3
  <2> QED BY <2>2, <2>3 DEF TransformReturns
<1>6. TypeOK'
  <2>1. stack' \in Seq([at : {"transform", "first", "end"}, n : {0} \cup Amounts])
    BY <1>2 DEF Calls
  <2> QED BY <1>1, <1>2, <1>5, <2>1 DEF TypeOK
<1>7. Shape' /\ Holding' /\ Input'
  BY <1>1, <1>2, <1>3 DEF Shape, Holding, Input
<1>8. Before'
  BY <1>1, <1>4 DEF Before
<1>9. Demand'
  <2>1. Owed' = Owed
    BY <1>1, <1>3, <1>4 DEF Owed
  <2> QED BY <1>1, <1>3, <2>1 DEF Demand
<1>10. Order' /\ EndComesLast' /\ Told' /\ Answer'
  BY <1>1, <1>3, <1>4, <1>5 DEF Order, EndComesLast, Told, Answer
<1> QED BY <1>6, <1>7, <1>8, <1>9, <1>10

LEMMA TransformThrowsStep == IInv /\ TransformThrows => IInv'
<1> SUFFICES ASSUME IInv, TransformThrows PROVE IInv'
  OBVIOUS
<1> USE DEF IInv
<1>1. /\ UNCHANGED <<subscription, first, inner, canceled, up, result,
                     sent, ended, accepted, requests, demanded, received>>
      /\ Inside("transform") /\ stack' = Pop /\ Finish("error")
      /\ threw' = IF inner THEN "after" ELSE "before"
  BY DEF TransformThrows
<1>2. stack' = <<>> /\ stack' \in Seq(Calls) /\ Len(stack') = 0
  BY <1>1, TransformPops
<1>3. Idle' /\ ~Handing' /\ ~Inside("first")' /\ ~Transforming'
  BY <1>2 DEF Idle, Handing, Inside, Transforming
<1>4. ~Handing /\ ~Inside("first") /\ ~Idle
  BY <1>1 DEF Handing, Inside
<1>5. /\ done' \in BOOLEAN /\ error' \in BOOLEAN /\ endCalls' \in Nat
      /\ in' \in Guards /\ out' \in Guards
      /\ outBy' \in {"none", "stub", "result"}
      /\ ending' \in {"none", "complete", "error"}
      /\ in'.started <=> in.started
      /\ in'.pending = in.pending
      /\ in'.active => in.active
      /\ ~inner => out'.started /\ done'
      /\ inner /\ ~canceled /\ ending' = "none" => in'.active
      /\ EndComesLast'
      /\ done' /\ inner /\ first = 0 /\ ~canceled => ending' # "none"
  <2>1. "error" \in {"complete", "error"}
    OBVIOUS
  <2> QED BY <1>1, <1>4, <2>1, FinishFacts
<1>6. TypeOK'
  <2>1. stack' \in Seq([at : {"transform", "first", "end"}, n : {0} \cup Amounts])
    BY <1>2 DEF Calls
  <2> QED BY <1>1, <1>2, <1>5, <2>1 DEF TypeOK
<1>7. Shape' /\ Holding' /\ Input'
  BY <1>1, <1>2, <1>3, <1>5 DEF Shape, Holding, Input
<1>8. Before'
  BY <1>1, <1>4 DEF Before
<1>9. Demand'
  <2>1. Owed' = Owed
    BY <1>1, <1>3, <1>4 DEF Owed
  <2> QED BY <1>1, <1>3, <1>5, <2>1 DEF Demand
<1>10. Order' /\ EndComesLast' /\ Told' /\ Answer'
  BY <1>1, <1>3, <1>4, <1>5 DEF Order, Told, Answer
<1> QED BY <1>6, <1>7, <1>8, <1>9, <1>10

LEMMA ResultSubscribesStep == IInv /\ ResultSubscribes => IInv'
<1> SUFFICES ASSUME IInv, ResultSubscribes PROVE IInv'
  OBVIOUS
<1> USE DEF IInv
<1>1. /\ UNCHANGED <<subscription, first, inner, done, error, canceled, stack, up, in,
                     sent, ended, threw, accepted, requests, demanded, received, ending,
                     endCalls>>
      /\ result' = "subscribed" /\ OuterSubscribed("result")
  BY DEF ResultSubscribes, operator, history
<1>2. out' \in Guards /\ out'.started /\ outBy' \in {"none", "stub", "result"}
  BY <1>1, GuardStarted DEF OuterSubscribed, TypeOK
<1>3. TypeOK'
  BY <1>1, <1>2 DEF TypeOK
<1>4. Shape' /\ Before' /\ Holding' /\ Input'
  BY <1>1, <1>2, StackKept DEF Shape, Before, Holding, Input
<1>5. Demand' /\ Order' /\ EndComesLast' /\ Told' /\ Answer'
  BY <1>1, <1>2, StackKept DEF Demand, Owed, Order, EndComesLast, Told, Answer
<1> QED BY <1>3, <1>4, <1>5

LEMMA HandlerSubscribeStep == IInv /\ HandlerSubscribe => IInv'
<1> SUFFICES ASSUME IInv, HandlerSubscribe PROVE IInv'
  OBVIOUS
<1> USE DEF IInv
<1>1. /\ UNCHANGED <<subscription, first, done, error, canceled, stack, up, out, result,
                     outBy, sent, ended, threw, accepted, requests, demanded, received,
                     ending, endCalls>>
      /\ accepted # <<>> /\ ~inner /\ inner' = TRUE /\ in' = Started(in)
  BY DEF HandlerSubscribe, answer, history
<1>2. ~in.started /\ first # 0 /\ ~canceled
  BY <1>1 DEF Input, Holding
<1>3. in' \in Guards /\ in'.started /\ in'.active /\ in'.pending = 0
  BY <1>1, <1>2, GuardStarted, Types
<1>4. TypeOK'
  BY <1>1, <1>3 DEF TypeOK
<1>5. Shape' /\ Before' /\ Holding' /\ Input'
  BY <1>1, <1>2, <1>3, StackKept DEF Shape, Before, Holding, Input
<1>6. Demand' /\ Order' /\ EndComesLast' /\ Told' /\ Answer'
  BY <1>1, <1>2, StackKept DEF Demand, Order, EndComesLast, Told, Answer
<1> QED BY <1>4, <1>5, <1>6

LEMMA HandlerCancelStep == IInv /\ HandlerCancel => IInv'
<1> SUFFICES ASSUME IInv, HandlerCancel PROVE IInv'
  OBVIOUS
<1> USE DEF IInv
<1>1. /\ UNCHANGED <<subscription, inner, done, error, stack, out, result, outBy,
                     sent, ended, threw, accepted, requests, demanded, received, ending,
                     endCalls>>
      /\ in.active /\ in' = Closed(in) /\ up' = Closed(up) /\ canceled' = TRUE /\ first' = 0
  BY DEF HandlerCancel, answer, history
<1>2. inner /\ ~canceled /\ accepted # <<>>
  BY <1>1 DEF Input, Before
<1>3. /\ in' \in Guards /\ in'.started = in.started /\ ~in'.active
      /\ up' \in Guards /\ up'.started = up.started /\ ~up'.active
      /\ in'.pending = in.pending /\ up'.pending = up.pending
  BY <1>1, GuardClosed, Types
<1>4. TypeOK'
  <2>1. first' \in 0..MaxItems /\ canceled' \in BOOLEAN
    BY <1>1, ConstantsAssumption
  <2> QED BY <1>1, <1>3, <2>1 DEF TypeOK
<1>5. Shape' /\ Before' /\ Holding' /\ Input'
  BY <1>1, <1>2, <1>3, StackKept DEF Shape, Before, Holding, Input
<1>6. received \in {accepted, <<>>}
  BY <1>2 DEF Order, Holding
<1>7. Demand' /\ Order' /\ EndComesLast' /\ Told' /\ Answer'
  BY <1>1, <1>2, <1>3, <1>6, StackKept DEF Demand, Order, EndComesLast, Told, Answer
<1> QED BY <1>4, <1>5, <1>7

(* The handler's first request: the payload that is held is handed over.    *)
LEMMA RequestHeld ==
  ASSUME IInv, NEW n \in Amounts, HandlerRequest(n), first # 0
  PROVE  IInv'
<1> USE DEF IInv
<1>1. /\ UNCHANGED <<subscription, inner, done, error, canceled, up, out, result, outBy,
                     sent, ended, threw, accepted, ending, endCalls>>
      /\ in.active /\ first' = 0 /\ requests < MaxRequests
      /\ requests' = requests + 1 /\ demanded' = demanded + Worth(n)
      /\ InnerNext(Asked(in, n), first) /\ stack' = Push("first", n)
  BY DEF HandlerRequest, answer
<1>2. /\ accepted = <<first>> /\ received = <<>> /\ up.pending = 0 /\ in.pending = 0
      /\ inner /\ ~canceled /\ ~Handing /\ accepted # <<>>
  BY <1>1 DEF Holding, Input, Shape, Before
<1>3. ending = "none"
  BY <1>2 DEF EndComesLast
<1>4. n \in Nat /\ n > 0 /\ (n # MAX_REQUEST_N => n \in {1, 2})
  BY MaxIsNat DEF Amounts
<1> DEFINE g == Asked(in, n)
<1>5. g \in Guards /\ g.started = in.started /\ g.active /\ g.pending = n
  <2>1. MAX_REQUEST_N # 0
    BY MaxIsNat
  <2>2. g \in Guards /\ g.started = in.started /\ g.active = in.active
    BY <1>4, Types, GuardAsked
  <2>3. CASE n = MAX_REQUEST_N
    <3>1. g.pending = MAX_REQUEST_N
      BY <1>1, <1>4, <2>3, Types, GuardAsked
    <3> QED BY <1>1, <2>2, <2>3, <3>1
  <2>4. CASE n # MAX_REQUEST_N
    <3>1. g.pending = in.pending + n
      BY <1>1, <1>2, <1>4, <2>1, <2>4, Types, GuardAsked
    <3>2. g.pending = n
      BY <1>2, <1>4, <3>1
    <3> QED BY <1>1, <2>2, <3>2
  <2> QED BY <2>3, <2>4
<1> HIDE DEF g
<1>6. PassesNext(g)
  BY <1>4, <1>5 DEF PassesNext
<1>7. received' = Append(received, first) /\ in' = TookNext(g)
  BY <1>1, <1>6 DEF InnerNext, g
<1>8. /\ in' \in Guards /\ in'.started = in.started /\ in'.active
      /\ n = MAX_REQUEST_N => in'.pending = MAX_REQUEST_N
      /\ n # MAX_REQUEST_N => in'.pending = n - 1
  BY <1>5, <1>6, <1>7, GuardTook
<1>9. received' = <<first>> /\ received' = accepted
  BY <1>2, <1>7
<1>10. /\ stack' \in Seq(Calls) /\ Len(stack') \in {1, 2}
       /\ ~Idle' /\ Handing' /\ Inside("first")' /\ N' = n
       /\ (Transforming' <=> Transforming)
       /\ Len(stack') = 2 => Transforming'
  BY <1>1, <1>2, HandOverPushed
<1>11. TypeOK'
  <2>1. Worth(n) \in Nat
    BY <1>4, ConstantsAssumption DEF Worth
  <2>2. requests' \in 0..MaxRequests /\ demanded' \in Nat /\ first' \in 0..MaxItems
    BY <1>1, <2>1, ConstantsAssumption DEF TypeOK
  <2>3. stack' \in Seq([at : {"transform", "first", "end"}, n : {0} \cup Amounts])
    BY <1>10 DEF Calls
  <2>4. received' \in Seq(1..MaxItems)
    BY <1>9, Types, Zenon
  <2>5. Len(stack') <= 2
    <3>1. \A k : k \in {1, 2} => k <= 2
      OBVIOUS
    <3> QED BY <1>10, <3>1, Zenon
  <2>6. UNCHANGED <<subscription, inner, done, error, canceled, up, out, result, outBy,
                    sent, ended, threw, accepted, ending, endCalls>>
    BY <1>1
  <2>7. in' \in Guards
    BY <1>8
  <2> QED BY <2>2, <2>3, <2>4, <2>5, <2>6, <2>7, Zenon DEF TypeOK
<1>12. Shape'
  BY <1>1, <1>2, <1>10 DEF Shape
<1>13. Before' /\ Holding' /\ Input'
  BY <1>1, <1>2, <1>8 DEF Before, Holding, Input
<1>14. Order' /\ EndComesLast' /\ Told' /\ Answer'
  BY <1>1, <1>2, <1>3, <1>9, <1>10 DEF Order, EndComesLast, Told, Answer
<1>15. Demand'
  <2>1. CASE n = MAX_REQUEST_N
    BY <1>8, <2>1 DEF Demand
  <2>2. CASE n # MAX_REQUEST_N
    <3>1. Owed' = 0 + (n - 1)
      BY <1>1, <1>2, <1>10 DEF Owed
    <3>2. in'.pending >= Owed'
      BY <1>4, <1>8, <2>2, <3>1
    <3> QED BY <1>10, <2>2, <3>2 DEF Demand
  <2> QED BY <2>1, <2>2
<1> QED BY <1>11, <1>12, <1>13, <1>14, <1>15

(* Any other request: it is passed on. *)
LEMMA RequestPassed ==
  ASSUME IInv, NEW n \in Amounts, HandlerRequest(n), first = 0
  PROVE  IInv'
<1> USE DEF IInv
<1>1. /\ UNCHANGED <<subscription, first, inner, done, error, canceled, stack, out, result,
                     outBy, sent, ended, threw, accepted, received, ending, endCalls>>
      /\ in.active /\ requests < MaxRequests
      /\ requests' = requests + 1 /\ demanded' = demanded + Worth(n)
      /\ in' = Asked(in, n) /\ up' = Asked(up, n)
  BY DEF HandlerRequest, answer
<1>2. inner /\ ~canceled /\ accepted # <<>> /\ n \in Nat
  BY <1>1, MaxIsNat DEF Input, Before, Amounts
<1>3. /\ in' \in Guards /\ in'.started = in.started /\ in'.active = in.active
      /\ up' \in Guards /\ up'.started = up.started /\ up'.active = up.active
  BY <1>1, <1>2, Types, GuardAsked
<1>4. TypeOK'
  <2>1. Worth(n) \in Nat
    BY <1>2, ConstantsAssumption DEF Worth
  <2>2. requests' \in 0..MaxRequests /\ demanded' \in Nat
    BY <1>1, <2>1, ConstantsAssumption DEF TypeOK
  <2> QED BY <1>1, <1>3, <2>2 DEF TypeOK
<1>5. Shape' /\ Before' /\ Holding' /\ Input'
  BY <1>1, <1>2, <1>3, StackKept DEF Shape, Before, Holding, Input
<1>6. Order' /\ EndComesLast' /\ Told' /\ Answer'
  BY <1>1, <1>2, StackKept DEF Order, EndComesLast, Told, Answer
<1>7. Demand'
  <2>1. CASE MAX_REQUEST_N \in {n, in.pending}
    <3>1. in'.pending = MAX_REQUEST_N
      BY <1>1, <1>2, <2>1, Types, GuardAsked
    <3> QED BY <3>1 DEF Demand
  <2>2. CASE MAX_REQUEST_N \notin {n, in.pending}
    <3>1. in'.pending = in.pending + n
      BY <1>1, <1>2, <2>2, Types, GuardAsked
    <3>2. up'.pending \in {up.pending, up.pending + n}
      <4>1. CASE up.active /\ up.pending = MAX_REQUEST_N
        <5>1. up'.pending = MAX_REQUEST_N
          BY <1>1, <1>2, <4>1, Types, GuardAsked
        <5> QED BY <4>1, <5>1
      <4>2. CASE up.active /\ up.pending # MAX_REQUEST_N
        BY <1>1, <1>2, <2>2, <4>2, Types, GuardAsked
      <4>3. CASE ~up.active
        BY <1>1, <1>2, <4>3, Types, GuardAsked
      <4> QED BY <4>1, <4>2, <4>3
    <3>3. up'.pending <= up.pending + n
      BY <1>2, <3>2, Types
    <3>4. in.pending >= Owed /\ ~(Handing /\ N = MAX_REQUEST_N)
      BY <1>1, <1>2, <2>2 DEF Demand
    <3>5. /\ Handing' <=> Handing
          /\ N' = N
      BY <1>1, StackKept
    <3>6. Handing => N \in Nat
      BY Depth DEF Handing, Inside
    <3>7. in'.pending >= Owed'
      <4>1. up'.pending \in Nat
        BY <1>3 DEF Guards
      <4> QED BY <1>2, <3>1, <3>3, <3>4, <3>5, <3>6, <4>1, Types, SMTT(30) DEF Owed
    <3> QED BY <3>4, <3>5, <3>7 DEF Demand
  <2> QED BY <2>1, <2>2
<1> QED BY <1>4, <1>5, <1>6, <1>7

(* The end of request(n): the rest of the demand goes to the upstream.      *)
LEMMA RestRequested ==
  ASSUME IInv, Handing, Inside("first") => ~done, RequestRest(N), stack' = Pop,
         UNCHANGED <<subscription, first, inner, done, error, canceled, in, out, answer,
                     history>>
  PROVE  IInv'
<1> USE DEF IInv
<1>1. inner /\ first = 0 /\ accepted # <<>> /\ N \in Amounts /\ N \in Nat
  BY Depth DEF Shape, Before, Handing, Inside
<1>2. /\ stack' \in Seq(Calls) /\ Len(stack') <= 1
      /\ ~Handing' /\ ~Inside("first")' /\ (Transforming' <=> Transforming)
      /\ Len(stack') = 1 => Transforming'
  BY HandOverPops
<1>3. UNCHANGED <<result, outBy, sent, ended, threw, accepted, requests, demanded,
                  received, ending, endCalls>>
  BY DEF answer, history
<1>4. /\ up' \in Guards /\ up'.started = up.started /\ up'.active = up.active
      /\ N # MAX_REQUEST_N => up'.pending <= up.pending + (N - 1)
  <2>1. CASE N = MAX_REQUEST_N
    BY <1>1, <2>1, Types, GuardAsked DEF RequestRest
  <2>2. CASE N # MAX_REQUEST_N /\ N > 1
    <3>1. N = 2 /\ up' = Asked(up, 1) /\ MAX_REQUEST_N # 1
      BY <1>1, <2>2, MaxIsNat DEF RequestRest, Amounts
    <3>2. up' \in Guards /\ up'.started = up.started /\ up'.active = up.active
      BY <3>1, Types, GuardAsked
    <3>3. up'.pending = up.pending \/ up'.pending = up.pending + 1
      <4>1. CASE up.active /\ up.pending = MAX_REQUEST_N
        BY <3>1, <4>1, Types, GuardAsked
      <4>2. CASE up.active /\ up.pending # MAX_REQUEST_N
        BY <3>1, <4>2, Types, GuardAsked
      <4>3. CASE ~up.active
        BY <3>1, <4>3, Types, GuardAsked
      <4> QED BY <4>1, <4>2, <4>3
    <3>4. up'.pending <= up.pending + 1
      BY <3>3, Types
    <3> QED BY <3>1, <3>2, <3>4
  <2>3. CASE N # MAX_REQUEST_N /\ ~(N > 1)
    <3>1. up' = up /\ N = 1
      BY <1>1, <2>3, MaxIsNat DEF RequestRest, Amounts
    <3> QED BY <3>1, Types
  <2> QED BY <2>1, <2>2, <2>3
<1>5. TypeOK'
  <2>1. stack' \in Seq([at : {"transform", "first", "end"}, n : {0} \cup Amounts])
    BY <1>2 DEF Calls
  <2>2. Len(stack') <= 2
    BY <1>2, LenProperties
  <2> QED BY <1>3, <1>4, <2>1, <2>2 DEF TypeOK
<1>6. Shape'
  <2>1. Len(stack') # 2
    BY <1>2
  <2> QED BY <1>2, <2>1 DEF Shape
<1>7. Before' /\ Holding' /\ Input'
  BY <1>1, <1>3, <1>4 DEF Before, Holding, Input
<1>8. Order' /\ EndComesLast' /\ Answer'
  BY <1>2, <1>3 DEF Order, EndComesLast, Answer
<1>9. Told'
  BY <1>2, <1>3 DEF Told
<1>10. Demand'
  <2>1. SUFFICES ASSUME in.active, in.pending # MAX_REQUEST_N
                 PROVE  in.pending >= Owed'
    BY <1>2 DEF Demand
  <2>2. in.pending >= up.pending + (N - 1) /\ N # MAX_REQUEST_N
    BY <1>1, <2>1 DEF Demand, Owed
  <2>3. Owed' = up'.pending + 0
    BY <1>2 DEF Owed
  <2>4. up'.pending \in Nat
    BY <1>4 DEF Guards
  <2> QED BY <1>1, <1>4, <2>2, <2>3, <2>4, Types
<1> QED BY <1>5, <1>6, <1>7, <1>8, <1>9, <1>10

LEMMA EndReturnsStep == IInv /\ EndReturns => IInv'
<1> SUFFICES ASSUME IInv, EndReturns PROVE IInv'
  OBVIOUS
<1>1. Handing /\ ~Inside("first")
  BY DEF EndReturns, Handing, Inside
<1> QED BY <1>1, RestRequested DEF EndReturns

LEMMA FirstReturnsStep == IInv /\ FirstReturns => IInv'
<1> SUFFICES ASSUME IInv, FirstReturns PROVE IInv'
  OBVIOUS
<1> USE DEF IInv
<1>1. Handing /\ Inside("first")
  BY DEF FirstReturns, Handing
<1>2. CASE ~done
  <2>1. /\ RequestRest(N) /\ stack' = Pop
        /\ UNCHANGED <<subscription, first, inner, done, error, canceled, in, out, answer,
                       history>>
    BY <1>2 DEF FirstReturns, history
  <2> QED BY <1>1, <1>2, <2>1, RestRequested
<1>3. CASE done
  <2>1. /\ UNCHANGED <<subscription, first, inner, done, error, canceled, up, out, result,
                       outBy, sent, ended, threw, accepted, requests, demanded, received>>
        /\ InnerEnd(IF error THEN "error" ELSE "complete")
        /\ stack' = Append(Pop, [at |-> "end", n |-> N])
    BY <1>3 DEF FirstReturns, answer
  <2>2. /\ stack' \in Seq(Calls) /\ Len(stack') = Len(stack)
        /\ ~Idle' /\ Handing' /\ ~Inside("first")' /\ N' = N
        /\ (Transforming' <=> Transforming)
    BY <1>1, <2>1, HandOverGoesOn
  <2>3. inner /\ first = 0 /\ accepted # <<>> /\ N \in Amounts
    BY <1>1 DEF Shape, Before
  <2>4. /\ in' \in Guards /\ in'.started = in.started /\ ~in'.active
        /\ in'.pending = in.pending
    BY <2>1, Types, GuardClosed DEF InnerEnd
  <2>5. /\ endCalls' \in Nat
        /\ ending' = IF in.active THEN IF error THEN "error" ELSE "complete" ELSE ending
    BY <2>1 DEF InnerEnd, TypeOK
  <2>6. EndComesLast'
    <3>1. CASE in.active
      <4>1. received = accepted
        BY <2>3, <3>1 DEF Input, Order
      <4> QED BY <1>3, <2>1, <2>5, <3>1, <4>1 DEF EndComesLast
    <3>2. CASE ~in.active
      BY <2>1, <2>5, <3>2 DEF EndComesLast
    <3> QED BY <3>1, <3>2
  <2>7. ~canceled => ending' # "none"
    BY <2>3, <2>5 DEF Input
  <2>8. TypeOK'
    <3>1. stack' \in Seq([at : {"transform", "first", "end"}, n : {0} \cup Amounts])
      BY <2>2 DEF Calls
    <3>2. ending' \in {"none", "complete", "error"}
      BY <2>5 DEF TypeOK
    <3> QED BY <2>1, <2>2, <2>4, <2>5, <3>1, <3>2 DEF TypeOK
  <2>9. Shape'
    BY <2>1, <2>2, <2>3 DEF Shape
  <2>10. Before' /\ Holding' /\ Input' /\ Demand'
    BY <2>1, <2>3, <2>4, <2>7 DEF Before, Holding, Input, Demand
  <2>11. Order' /\ Told' /\ Answer'
    BY <2>1, <2>2, <2>7 DEF Order, Told, Answer
  <2> QED BY <2>6, <2>8, <2>9, <2>10, <2>11
<1> QED BY <1>2, <1>3

LEMMA NextInvariant == IInv /\ [Next]_vars => IInv'
<1> SUFFICES ASSUME IInv, [Next]_vars PROVE IInv'
  OBVIOUS
<1>1. CASE OnError \/ OnComplete
  BY <1>1, EndStep DEF OnError, OnComplete
<1>2. ASSUME NEW n \in Amounts, HandlerRequest(n)
      PROVE  IInv'
  BY <1>2, RequestHeld, RequestPassed
<1>3. CASE UNCHANGED vars
  <2>1. UNCHANGED <<subscription, first, inner, done, error, canceled, stack, up, in, out,
                    result, outBy, sent, ended, threw, accepted, requests, demanded,
                    received, ending, endCalls>>
    BY <1>3 DEF vars, operator, guards, answer, history
  <2> QED
    BY <2>1, StackKept
    DEF IInv, TypeOK, Shape, Before, Holding, Input, Demand, Owed, Order, EndComesLast,
        Told, Answer
<1> QED
  BY <1>1, <1>2, <1>3, OnSubscribeStep, OnNextStep, TransformReturnsStep,
     TransformThrowsStep, ResultSubscribesStep, HandlerSubscribeStep, HandlerCancelStep,
     FirstReturnsStep, EndReturnsStep
  DEF Next, Upstream, Handler

-----------------------------------------------------------------------------
(* The invariant, and the properties that follow from it, hold of every     *)
(* behaviour.                                                               *)
THEOREM Invariance == Spec => []IInv
BY InitInvariant, NextInvariant, PTL DEF Spec

(* Every variable keeps its type, and at most the transformer and one       *)
(* hand-over of the first payload are in progress.                          *)
THEOREM TypeCorrect == Spec => []TypeOK
<1>1. IInv => TypeOK
  BY DEF IInv
<1> QED BY <1>1, Invariance, PTL

(* The handler gets the payload that was taken to choose it and misses none *)
(* after it, however upstream, handler and operator call one another.       *)
THEOREM InputKeepsOrder == Spec => []InputInOrder
<1>1. IInv => InputInOrder
  <2> SUFFICES ASSUME IInv PROVE InputInOrder
    OBVIOUS
  <2> USE DEF IInv
  <2>1. accepted \in Seq(1..MaxItems) /\ received \in Seq(1..MaxItems)
    BY Types
  <2>2. CASE first = 0
    <3>1. received \o <<>> = received
      BY <2>1, ConcatEmptySeq
    <3> QED BY <2>2, <3>1 DEF InputInOrder, Held, Order
  <2>3. CASE first # 0
    <3>1. accepted = <<first>> /\ received = <<>> /\ Held = <<first>>
      BY <2>3 DEF Holding, Held
    <3>2. <<>> \o <<first>> = <<first>>
      BY <2>1, <3>1, ConcatEmptySeq
    <3> QED BY <3>1, <3>2 DEF InputInOrder
  <2> QED BY <2>2, <2>3
<1> QED BY <1>1, Invariance, PTL

(* The handler is told the end of its input, the right one, after every     *)
(* payload, whichever of its request and the end came first.                *)
THEOREM EndIsTold == Spec => []EndOfInput
<1>1. IInv => EndOfInput
  BY DEF IInv, EndOfInput, NoLostTerminal, Told, Inside
<1> QED BY <1>1, Invariance, PTL

(* The requester is answered, but by a handler that has subscribed to its   *)
(* input and throws.                                                        *)
THEOREM RequesterIsAnswered == Spec => []RequesterAnswered
<1>1. IInv => RequesterAnswered
  <2> SUFFICES ASSUME IInv, Idle, sent > 0 \/ ended # "none"
               PROVE  out.started \/ result = "late" \/ threw = "after"
    BY DEF RequesterAnswered
  <2>1. CASE accepted = <<>>
    <3>1. sent = 0
      BY <2>1 DEF IInv, Before
    <3> QED BY <2>1, <3>1 DEF IInv, Before
  <2>2. CASE accepted # <<>>
    BY <2>2 DEF IInv, Answer, Transforming
  <2> QED BY <2>1, <2>2
<1> QED BY <1>1, Invariance, PTL

-----------------------------------------------------------------------------
(* Without an upstream that signals from inside the operator's calls.       *)

(* Once inner was ended, nothing is held or being handed over. *)
EndedOnce ==
  /\ endCalls <= 1
  /\ endCalls # 0 => done /\ first = 0 /\ inner /\ ~Inside("first")

LEMMA FinishEndsOnce ==
  ASSUME IInv, EndedOnce, NEW how, Finish(how), ~Inside("first"), ~Inside("first")',
         UNCHANGED <<first, inner>>
  PROVE  EndedOnce'
<1>1. endCalls \in Nat
  BY DEF IInv, TypeOK
<1>2. CASE canceled \/ done
  <2>1. UNCHANGED <<done, endCalls>>
    BY <1>2 DEF Finish
  <2> QED BY <2>1 DEF EndedOnce
<1>3. CASE ~(canceled \/ done)
  <2>1. endCalls = 0 /\ done' = TRUE
    BY <1>3 DEF EndedOnce, Finish
  <2>2. endCalls' = 0 \/ (endCalls' = 1 /\ inner /\ first = 0)
    BY <1>3, <2>1 DEF Finish, InnerEnd
  <2> QED BY <2>1, <2>2 DEF EndedOnce
<1> QED BY <1>2, <1>3

(* Steps in which the upstream ends its stream between the calls only. *)
EndsBetweenCalls == OnSubscribe \/ OnNext \/ (\E how : Idle /\ End(how)) \/ Handler

LEMMA EndedOnceStep ==
  ASSUME IInv, EndedOnce, [EndsBetweenCalls]_vars
  PROVE  EndedOnce'
<1> USE DEF IInv
<1>1. endCalls \in Nat
  BY DEF TypeOK
<1>2. ASSUME NEW how, Idle, End(how)
      PROVE  EndedOnce'
  <2>1. Idle /\ stack' = stack /\ Finish(how) /\ UNCHANGED <<first, inner>>
    BY <1>2 DEF End
  <2>2. ~Inside("first") /\ ~Inside("first")'
    BY <2>1 DEF Inside, Idle
  <2> QED BY <2>1, <2>2, FinishEndsOnce
<1>3. CASE TransformThrows
  <2>1. Inside("transform") /\ stack' = Pop /\ Finish("error") /\ UNCHANGED <<first, inner>>
    BY <1>3 DEF TransformThrows
  <2>2. ~Inside("first") /\ ~Inside("first")'
    BY <2>1, TransformPops DEF Inside, Idle
  <2> QED BY <2>1, <2>2, FinishEndsOnce
<1>4. CASE FirstReturns
  <2>1. Inside("first") /\ Handing /\ endCalls = 0
    BY <1>4 DEF FirstReturns, Handing, EndedOnce
  <2>2. CASE done
    <3>1. /\ UNCHANGED <<first, inner, done>> /\ endCalls' = endCalls + 1
          /\ stack' = Append(Pop, [at |-> "end", n |-> N])
      BY <1>4, <2>2 DEF FirstReturns, InnerEnd
    <3>2. ~Inside("first")' /\ first = 0 /\ inner
      BY <2>1, <3>1, HandOverGoesOn DEF Shape
    <3> QED BY <2>1, <2>2, <3>1, <3>2 DEF EndedOnce
  <2>3. CASE ~done
    <3>1. endCalls' = endCalls
      BY <1>4, <2>3 DEF FirstReturns
    <3> QED BY <2>1, <3>1 DEF EndedOnce
  <2> QED BY <2>2, <2>3
<1>5. CASE OnNext
  <2>1. UNCHANGED <<inner, done, endCalls>>
    BY <1>5 DEF OnNext
  <2>2. done => UNCHANGED <<first, stack>>
    BY <1>5 DEF OnNext
  <2> QED BY <2>1, <2>2, StackKept DEF EndedOnce
<1>6. ASSUME NEW n \in Amounts, HandlerRequest(n)
      PROVE  EndedOnce'
  <2>1. UNCHANGED <<inner, done, endCalls>>
    BY <1>6 DEF HandlerRequest
  <2>2. first = 0 => UNCHANGED <<first, stack>>
    BY <1>6 DEF HandlerRequest
  <2> QED BY <1>1, <2>1, <2>2, StackKept DEF EndedOnce
<1>7. CASE OnSubscribe \/ ResultSubscribes \/ HandlerSubscribe \/ HandlerCancel \/ UNCHANGED vars
  <2>1. /\ stack' = stack /\ UNCHANGED <<done, endCalls>>
        /\ first' \in {first, 0} /\ (inner => inner')
    BY <1>7 DEF OnSubscribe, ResultSubscribes, HandlerSubscribe, HandlerCancel, vars,
         operator, history
  <2> QED BY <2>1, StackKept DEF EndedOnce
<1>8. CASE TransformReturns \/ EndReturns
  <2>1. stack' = Pop /\ UNCHANGED <<done, endCalls, first, inner>>
    BY <1>8 DEF TransformReturns, EndReturns, history
  <2>2. ~Inside("first")'
    <3>1. CASE TransformReturns
      BY <2>1, <3>1, TransformPops DEF TransformReturns, Inside, Idle
    <3>2. CASE EndReturns
      BY <2>1, <3>2, HandOverPops DEF EndReturns, Handing
    <3> QED BY <1>8, <3>1, <3>2
  <2> QED BY <2>1, <2>2 DEF EndedOnce
<1> QED
  BY <1>2, <1>3, <1>4, <1>5, <1>6, <1>7, <1>8
  DEF EndsBetweenCalls, Handler

(* The operator itself ends the handler's input once at most, without the   *)
(* help of the wrapper in front of the handler.                             *)
THEOREM EndsOnce ==
  ASSUME ~UpstreamReenters
  PROVE  Spec => []TerminalOnce
<1>1. Init => EndedOnce
  BY DEF Init, EndedOnce
<1>2. IInv /\ EndedOnce /\ [Next]_vars => EndedOnce'
  <2>1. Next => EndsBetweenCalls
    BY DEF Next, Upstream, OnError, OnComplete, EndsBetweenCalls, End, UpstreamMayCall
  <2> QED BY <2>1, EndedOnceStep
<1>3. EndedOnce => TerminalOnce
  BY DEF EndedOnce, TerminalOnce
<1> QED BY <1>1, <1>2, <1>3, Invariance, PTL DEF Spec

(* The operator with neither a reentrant upstream nor a late result does    *)
(* only what the operator does, and ends the stream between the calls.      *)
LEMMA ApartSteps == Apart!Next => Next /\ EndsBetweenCalls
<1> USE DEF Apart!vars, Apart!operator, Apart!guards, Apart!answer, Apart!history,
    Apart!Idle, Apart!Inside, Apart!N, Apart!Push, Apart!Pop, Apart!UpstreamMayCall,
    Apart!InnerNext, Apart!InnerEnd, Apart!OuterSubscribed, Apart!Finish,
    Apart!RequestRest, Apart!Worth, Apart!Amounts, Apart!MAX_REQUEST_N,
    Apart!NewGuard, Apart!Started, Apart!Closed, Apart!Asked, Apart!PassesNext, Apart!TookNext,
    operator, guards, answer, history, Idle, Inside, N, Push, Pop, UpstreamMayCall,
    InnerNext, InnerEnd, OuterSubscribed, Finish, RequestRest, Worth, Amounts,
    MAX_REQUEST_N, NewGuard, Started, Closed, Asked, PassesNext, TookNext
<1>1. Apart!OnSubscribe => OnSubscribe
  BY DEF Apart!OnSubscribe, OnSubscribe
<1>2. Apart!OnNext => OnNext
  BY DEF Apart!OnNext, OnNext
<1>3. \A how : Apart!End(how) => Idle /\ End(how)
  BY DEF Apart!End, End
<1>4. Apart!TransformReturns => TransformReturns
  BY DEF Apart!TransformReturns, TransformReturns
<1>5. Apart!TransformThrows => TransformThrows
  BY DEF Apart!TransformThrows, TransformThrows
<1>6. Apart!ResultSubscribes => ResultSubscribes
  BY DEF Apart!ResultSubscribes, ResultSubscribes
<1>7. Apart!HandlerSubscribe => HandlerSubscribe
  BY DEF Apart!HandlerSubscribe, HandlerSubscribe
<1>8. Apart!HandlerCancel => HandlerCancel
  BY DEF Apart!HandlerCancel, HandlerCancel
<1>9. ASSUME NEW n \in Amounts PROVE Apart!HandlerRequest(n) => HandlerRequest(n)
  BY DEF Apart!HandlerRequest, HandlerRequest
<1>10. Apart!FirstReturns => FirstReturns
  BY DEF Apart!FirstReturns, FirstReturns
<1>11. Apart!EndReturns => EndReturns
  BY DEF Apart!EndReturns, EndReturns
<1>12. Apart!Amounts = Amounts
  OBVIOUS
<1>13. Apart!Handler => Handler
  <2> HIDE DEF Amounts, Apart!Amounts
  <2> QED BY <1>4, <1>5, <1>6, <1>7, <1>8, <1>9, <1>10, <1>11, <1>12 DEF Apart!Handler, Handler
<1> QED
  BY <1>1, <1>2, <1>3, <1>13
  DEF Apart!Next, Apart!Upstream, Apart!OnError, Apart!OnComplete,
      Next, Upstream, OnError, OnComplete, EndsBetweenCalls

(* With an upstream that may reenter, the end of the input is told, the     *)
(* right one and in its place; with one that does not, the operator itself  *)
(* tells it once at most: of both instances in the run.                     *)
THEOREM InputEndsOnce == MCSpec => []EndOfInputOnce
<1>1. MCSpec => Spec
  <2>1. MCInit => Init
    BY DEF MCInit
  <2>2. [MCNext]_<<vars, apart>> => [Next]_vars
    BY ApartSteps DEF MCNext
  <2> QED BY <2>1, <2>2, PTL DEF MCSpec, Spec
<1>2. MCInit => (apart => EndedOnce)
  BY DEF MCInit, Init, EndedOnce
<1>3. IInv /\ (apart => EndedOnce) /\ [MCNext]_<<vars, apart>> => (apart => EndedOnce)'
  <2> SUFFICES ASSUME IInv, apart => EndedOnce, [MCNext]_<<vars, apart>>, apart'
               PROVE  EndedOnce'
    OBVIOUS
  <2>1. apart /\ [EndsBetweenCalls]_vars
    BY ApartSteps DEF MCNext
  <2> QED BY <2>1, EndedOnceStep
<1>4. EndOfInput /\ (apart => EndedOnce) => EndOfInputOnce
  BY DEF EndOfInputOnce, EndedOnce, TerminalOnce
<1> QED BY <1>1, <1>2, <1>3, <1>4, Invariance, EndIsTold, PTL DEF MCSpec

-----------------------------------------------------------------------------
(* The demand, exactly: as long as the handler's requests cannot add up to  *)
(* the number that stands for no bound.                                     *)

Exact ==
  inner /\ first = 0 /\ ~done /\ in.active /\ up.active =>
    \/ /\ in.pending = MAX_REQUEST_N
       /\ up.pending = MAX_REQUEST_N \/ (Handing /\ N = MAX_REQUEST_N)
    \/ /\ in.pending # MAX_REQUEST_N /\ in.pending <= 2 * requests
       /\ in.pending = Owed /\ ~(Handing /\ N = MAX_REQUEST_N)

(* The wrapper in front of the handler lets one end through. *)
Over == ending # "none" => ~in.active

LEMMA OverStep ==
  ASSUME IInv, Over, [Next]_vars
  PROVE  Over'
<1> USE DEF IInv
<1>1. in \in Guards
  BY Types
<1>2. CASE UNCHANGED <<in, ending>>
  BY <1>2 DEF Over
<1>3. ASSUME NEW how, InnerEnd(how)
      PROVE  Over'
  BY <1>1, <1>3, GuardClosed DEF InnerEnd, Over
<1>4. ASSUME NEW how, Finish(how)
      PROVE  Over'
  BY <1>2, <1>3, <1>4 DEF Finish
<1>5. CASE FirstReturns
  BY <1>2, <1>3, <1>5 DEF FirstReturns
<1>6. CASE HandlerCancel
  BY <1>1, <1>6, GuardClosed DEF HandlerCancel, Over
<1>7. CASE HandlerSubscribe
  <2>1. ending' = ending /\ ~canceled /\ first # 0
    BY <1>7 DEF HandlerSubscribe, history, Input, Holding
  <2>2. ending = "none"
    BY <2>1 DEF EndComesLast, Holding
  <2> QED BY <2>1, <2>2 DEF Over
<1>8. CASE OnNext
  <2>1. ending' = ending
    BY <1>8 DEF OnNext
  <2>2. PassesNext(in) => TookNext(in).active = in.active
    BY <1>1, GuardTook
  <2>3. in' = in \/ (PassesNext(in) /\ in' = TookNext(in))
    BY <1>8 DEF OnNext, InnerNext
  <2> QED BY <2>1, <2>2, <2>3 DEF Over
<1>9. ASSUME NEW n \in Amounts, HandlerRequest(n)
      PROVE  Over'
  <2>1. in.active /\ ending' = ending
    BY <1>9 DEF HandlerRequest
  <2> QED BY <2>1 DEF Over
<1>10. CASE OnSubscribe \/ TransformReturns \/ ResultSubscribes \/ EndReturns \/ UNCHANGED vars
  BY <1>2, <1>10
  DEF OnSubscribe, TransformReturns, ResultSubscribes, EndReturns, vars, operator, guards,
      history
<1> QED
  BY <1>4, <1>5, <1>6, <1>7, <1>8, <1>9, <1>10
  DEF Next, Upstream, Handler, OnError, OnComplete, End, TransformThrows

(* A value takes one from both sides. *)
LEMMA ExactOnNext ==
  ASSUME IInv, Exact, 2 * MaxRequests < MAX_REQUEST_N, OnNext
  PROVE  Exact'
<1> USE DEF IInv
<1> SUFFICES ASSUME inner', first' = 0, ~done', in'.active, up'.active
             PROVE  \/ /\ in'.pending = MAX_REQUEST_N
                       /\ up'.pending = MAX_REQUEST_N \/ (Handing' /\ N' = MAX_REQUEST_N)
                    \/ /\ in'.pending # MAX_REQUEST_N /\ in'.pending <= 2 * requests'
                       /\ in'.pending = Owed' /\ ~(Handing' /\ N' = MAX_REQUEST_N)
  BY DEF Exact
<1>1. /\ UNCHANGED <<inner, done, canceled, requests>> /\ PassesNext(up) /\ up' = TookNext(up)
      /\ up \in Guards /\ in \in Guards /\ up.active /\ up.pending \in Nat /\ up.pending > 0
  BY Types DEF OnNext, PassesNext
<1>2. inner /\ ~done /\ first = 0
  BY <1>1 DEF Holding
<1>3. CASE canceled
  <2>1. in' = in
    BY <1>3 DEF OnNext
  <2> QED BY <1>3, <2>1 DEF Input
<1>4. CASE ~canceled
  <2>1. ending = "none" /\ in.active
    BY <1>2, <1>4 DEF EndComesLast, Input
  <2>2. /\ stack' = stack /\ InnerNext(in, sent')
    BY <1>2, <1>4 DEF OnNext
  <2>3. /\ (Handing' <=> Handing)
        /\ N' = N
    BY <2>2, StackKept
  <2>4. Handing => N \in Nat /\ N >= 1
    <3>1. \A n \in Amounts : n \in Nat /\ n >= 1
      BY MaxIsNat DEF Amounts
    <3> QED BY <3>1 DEF Shape
  <2>5. CASE in.pending = MAX_REQUEST_N
    <3>1. PassesNext(in)
      BY <2>1, <2>5, MaxIsNat DEF PassesNext
    <3>2. in'.pending = MAX_REQUEST_N
      BY <1>1, <2>2, <2>5, <3>1, GuardTook DEF InnerNext
    <3>3. up.pending = MAX_REQUEST_N => up'.pending = MAX_REQUEST_N
      BY <1>1, GuardTook
    <3> QED BY <1>1, <1>2, <2>1, <2>3, <2>5, <3>2, <3>3 DEF Exact
  <2>6. CASE in.pending # MAX_REQUEST_N
    <3>1. in.pending <= 2 * requests /\ in.pending = Owed /\ ~(Handing /\ N = MAX_REQUEST_N)
      BY <1>1, <1>2, <2>1, <2>6 DEF Exact
    <3>2. in.pending >= up.pending /\ in.pending \in Nat
      BY <1>1, <2>4, <3>1, Types DEF Owed
    <3>3. PassesNext(in)
      BY <1>1, <2>1, <3>2 DEF PassesNext
    <3>4. in'.pending = in.pending - 1
      BY <1>1, <2>2, <2>6, <3>3, GuardTook DEF InnerNext
    <3>5. requests \in Nat /\ requests <= MaxRequests
      BY ConstantsAssumption DEF TypeOK
    <3>6. up.pending # MAX_REQUEST_N /\ in'.pending # MAX_REQUEST_N /\ in'.pending <= 2 * requests
      BY <1>1, <3>1, <3>2, <3>4, <3>5, MaxIsNat, ConstantsAssumption
    <3>7. up'.pending = up.pending - 1
      BY <1>1, <3>6, GuardTook
    <3>8. in'.pending = Owed'
      BY <1>1, <2>3, <2>4, <3>1, <3>2, <3>4, <3>7 DEF Owed
    <3> QED BY <1>1, <2>3, <3>1, <3>6, <3>8
  <2> QED BY <2>5, <2>6
<1> QED BY <1>3, <1>4

(* A request adds to both sides what it asks for. *)
LEMMA ExactRequest ==
  ASSUME IInv, IInv', Exact, 2 * MaxRequests < MAX_REQUEST_N,
         NEW n \in Amounts, HandlerRequest(n)
  PROVE  Exact'
<1> USE DEF IInv
<1>1. /\ requests \in Nat /\ requests + 1 <= MaxRequests /\ requests' = requests + 1
      /\ n \in Nat /\ n > 0 /\ (n # MAX_REQUEST_N => n <= 2)
  <2>1. n \in Nat /\ n > 0 /\ (n # MAX_REQUEST_N => n <= 2)
    BY MaxIsNat DEF Amounts
  <2>2. requests \in Nat /\ requests < MaxRequests
    BY ConstantsAssumption DEF HandlerRequest, TypeOK
  <2> QED BY <2>1, <2>2, ConstantsAssumption DEF HandlerRequest
<1>2. /\ in \in Guards /\ up \in Guards /\ in.pending \in Nat /\ up.pending \in Nat
      /\ in.active /\ UNCHANGED <<inner, done>> /\ inner
  BY Types DEF HandlerRequest, Input
<1>3. CASE first # 0
  <2>1. /\ in.pending = 0 /\ up.pending = 0 /\ up' = up /\ ~Handing
        /\ InnerNext(Asked(in, n), first) /\ stack' = Push("first", n)
    BY <1>3 DEF HandlerRequest, Holding, Shape
  <2>2. Handing' /\ N' = n
    BY <2>1, HandOverPushed
  <2>3. /\ Asked(in, n) \in Guards /\ Asked(in, n).active /\ Asked(in, n).pending = n
    <3>1. CASE n = MAX_REQUEST_N
      BY <1>1, <1>2, <3>1, GuardAsked
    <3>2. CASE n # MAX_REQUEST_N
      <4>1. MAX_REQUEST_N \notin {n, in.pending}
        BY <2>1, <3>2, MaxIsNat
      <4>2. Asked(in, n).pending = in.pending + n
        BY <1>1, <1>2, <4>1, GuardAsked
      <4>3. Asked(in, n).pending = n
        BY <1>1, <2>1, <4>2
      <4> QED BY <1>1, <1>2, <4>3, GuardAsked
    <3> QED BY <3>1, <3>2
  <2>4. PassesNext(Asked(in, n)) /\ in' = TookNext(Asked(in, n))
    BY <1>1, <2>1, <2>3 DEF PassesNext, InnerNext
  <2>5. CASE n = MAX_REQUEST_N
    <3>1. in'.pending = MAX_REQUEST_N
      BY <2>3, <2>4, <2>5, GuardTook
    <3> QED BY <2>2, <2>5, <3>1 DEF Exact
  <2>6. CASE n # MAX_REQUEST_N
    <3>1. in'.pending = n - 1
      BY <2>3, <2>4, <2>6, GuardTook
    <3>2. in'.pending # MAX_REQUEST_N /\ in'.pending <= 2 * requests'
      BY <1>1, <2>6, <3>1, MaxIsNat
    <3>3. in'.pending = Owed'
      BY <1>1, <2>1, <2>2, <3>1 DEF Owed
    <3> QED BY <2>2, <2>6, <3>2, <3>3 DEF Exact
  <2> QED BY <2>5, <2>6
<1>4. CASE first = 0
  <2>1. in' = Asked(in, n) /\ up' = Asked(up, n) /\ stack' = stack
    BY <1>4 DEF HandlerRequest
  <2>2. /\ (Handing' <=> Handing)
        /\ N' = N
    BY <2>1, StackKept
  <2> SUFFICES ASSUME ~done, up.active PROVE Exact'
    <3>1. up'.active = up.active
      BY <1>1, <1>2, <2>1, GuardAsked
    <3> QED BY <1>2, <3>1 DEF Exact
  <2>3. CASE n = MAX_REQUEST_N
    <3>1. in'.pending = MAX_REQUEST_N /\ up'.pending = MAX_REQUEST_N
      BY <1>1, <1>2, <2>1, <2>3, GuardAsked
    <3> QED BY <3>1 DEF Exact
  <2>4. CASE n # MAX_REQUEST_N /\ in.pending = MAX_REQUEST_N
    <3>1. in'.pending = MAX_REQUEST_N
      BY <1>1, <1>2, <2>1, <2>4, GuardAsked
    <3>2. up.pending = MAX_REQUEST_N => up'.pending = MAX_REQUEST_N
      BY <1>1, <1>2, <2>1, GuardAsked
    <3> QED BY <1>2, <1>4, <2>2, <2>4, <3>1, <3>2 DEF Exact
  <2>5. CASE n # MAX_REQUEST_N /\ in.pending # MAX_REQUEST_N
    <3>1. in.pending <= 2 * requests /\ in.pending = Owed /\ ~(Handing /\ N = MAX_REQUEST_N)
      BY <1>2, <1>4, <2>5 DEF Exact
    <3>2. Handing => N \in Nat /\ N >= 1
      <4>1. \A k \in Amounts : k \in Nat /\ k >= 1
        BY MaxIsNat DEF Amounts
      <4> QED BY <4>1 DEF Shape
    <3>3. up.pending # MAX_REQUEST_N
      <4>1. up.pending <= in.pending
        BY <1>2, <3>1, <3>2 DEF Owed
      <4> QED BY <1>1, <1>2, <3>1, <4>1, MaxIsNat, ConstantsAssumption
    <3>4. in'.pending = in.pending + n
      BY <1>1, <1>2, <2>1, <2>5, GuardAsked
    <3>5. up'.pending = up.pending + n
      BY <1>1, <1>2, <2>1, <2>5, <3>3, GuardAsked
    <3>6. in'.pending <= 2 * requests' /\ in'.pending # MAX_REQUEST_N
      BY <1>1, <1>2, <2>5, <3>1, <3>4, MaxIsNat, ConstantsAssumption
    <3>7. in'.pending = Owed'
      BY <1>1, <1>2, <2>2, <3>1, <3>2, <3>4, <3>5 DEF Owed
    <3> QED BY <2>2, <3>1, <3>6, <3>7 DEF Exact
  <2> QED BY <2>3, <2>4, <2>5
<1> QED BY <1>3, <1>4

(* The rest of the demand comes to the upstream when request(n) ends. *)
LEMMA ExactRest ==
  ASSUME IInv, Exact, 2 * MaxRequests < MAX_REQUEST_N, Handing, RequestRest(N), stack' = Pop,
         UNCHANGED <<first, inner, done, in, requests>>
  PROVE  Exact'
<1> USE DEF IInv
<1>1. /\ ~Handing' /\ inner /\ first = 0 /\ N \in Amounts /\ N \in Nat
      /\ up \in Guards /\ up.pending \in Nat /\ in.pending \in Nat
  BY HandOverPops, Depth, Types DEF Shape, Handing, Inside
<1>2. up'.active = up.active
  <2>1. N - 1 \in Nat \/ ~(N > 1)
    BY <1>1
  <2> QED BY <1>1, <2>1, GuardAsked DEF RequestRest
<1> SUFFICES ASSUME ~done, in.active, up.active PROVE Exact'
  BY <1>1, <1>2 DEF Exact
<1>3. requests \in Nat /\ requests <= MaxRequests
  BY ConstantsAssumption DEF TypeOK
<1>4. CASE N = MAX_REQUEST_N
  <2>1. in.pending = MAX_REQUEST_N
    BY <1>1, <1>4 DEF Exact
  <2>2. up'.pending = MAX_REQUEST_N
    BY <1>1, <1>4, GuardAsked DEF RequestRest
  <2> QED BY <2>1, <2>2 DEF Exact
<1>5. CASE N = 1 /\ N # MAX_REQUEST_N
  <2>1. up' = up
    BY <1>5, MaxIsNat DEF RequestRest
  <2>2. Owed' = up.pending + 0 /\ Owed = up.pending + 0
    BY <1>1, <1>5, <2>1 DEF Owed
  <2> QED BY <1>1, <1>5, <2>1, <2>2 DEF Exact
<1>6. CASE N = 2 /\ N # MAX_REQUEST_N
  <2>1. up' = Asked(up, 1) /\ MAX_REQUEST_N # 1
    BY <1>6, MaxIsNat DEF RequestRest
  <2>2. CASE in.pending = MAX_REQUEST_N
    <3>1. up.pending = MAX_REQUEST_N
      BY <1>1, <1>6, <2>2 DEF Exact
    <3>2. up'.pending = MAX_REQUEST_N
      BY <1>1, <2>1, <3>1, GuardAsked
    <3> QED BY <2>2, <3>2 DEF Exact
  <2>3. CASE in.pending # MAX_REQUEST_N
    <3>1. in.pending <= 2 * requests /\ in.pending = Owed
      BY <1>1, <1>6, <2>3 DEF Exact
    <3>2. Owed = up.pending + 1
      BY <1>6 DEF Owed
    <3>3. up.pending # MAX_REQUEST_N
      BY <1>1, <1>3, <3>1, <3>2, MaxIsNat, ConstantsAssumption
    <3>4. up'.pending = up.pending + 1
      BY <1>1, <2>1, <3>3, GuardAsked
    <3>5. Owed' = in.pending
      BY <1>1, <3>1, <3>2, <3>4 DEF Owed
    <3> QED BY <1>1, <2>3, <3>1, <3>5 DEF Exact
  <2> QED BY <2>2, <2>3
<1> QED BY <1>1, <1>4, <1>5, <1>6 DEF Amounts

LEMMA ExactStep ==
  ASSUME IInv, IInv', Over, Exact, 2 * MaxRequests < MAX_REQUEST_N, [Next]_vars
  PROVE  Exact'
<1> USE DEF IInv
<1>1. CASE OnSubscribe
  <2>1. ~inner'
    BY <1>1 DEF OnSubscribe, Before
  <2> QED BY <2>1 DEF Exact
<1>2. ASSUME NEW how, End(how)
      PROVE  Exact'
  <2>1. ~up'.active
    BY <1>2, Types, GuardClosed DEF End
  <2> QED BY <2>1 DEF Exact
<1>3. CASE TransformThrows
  <2>1. (canceled /\ UNCHANGED <<in, canceled>>) \/ done'
    BY <1>3 DEF TransformThrows, Finish
  <2> QED BY <2>1 DEF Exact, Input
<1>4. CASE TransformReturns
  <2>1. /\ UNCHANGED <<first, inner, done, up, in, requests>> /\ stack' = <<>>
        /\ ~Handing
    BY <1>4, TransformPops DEF TransformReturns, history, Handing, Inside
  <2>2. ~Handing' /\ Owed' = Owed
    BY <2>1 DEF Owed, Handing, Inside, Idle
  <2> QED BY <2>1, <2>2 DEF Exact
<1>5. CASE ResultSubscribes \/ UNCHANGED vars
  <2>1. UNCHANGED <<first, inner, done, up, in, requests, stack>>
    BY <1>5 DEF ResultSubscribes, vars, operator, guards, history
  <2> QED BY <2>1, StackKept DEF Exact, Owed
<1>6. CASE HandlerSubscribe
  <2>1. first' # 0
    BY <1>6 DEF HandlerSubscribe, Holding
  <2> QED BY <2>1 DEF Exact
<1>7. CASE HandlerCancel
  <2>1. ~in'.active
    BY <1>7, Types, GuardClosed DEF HandlerCancel
  <2> QED BY <2>1 DEF Exact
<1>8. CASE FirstReturns
  <2>1. CASE done
    <3>1. done'
      BY <1>8, <2>1 DEF FirstReturns
    <3> QED BY <3>1 DEF Exact
  <2>2. CASE ~done
    <3>1. /\ Handing /\ RequestRest(N) /\ stack' = Pop
          /\ UNCHANGED <<first, inner, done, in, requests>>
      BY <1>8, <2>2 DEF FirstReturns, Handing
    <3> QED BY <3>1, ExactRest
  <2> QED BY <2>1, <2>2
<1>9. CASE EndReturns
  <2>1. /\ Handing /\ RequestRest(N) /\ stack' = Pop
        /\ UNCHANGED <<first, inner, done, in, requests>>
    BY <1>9 DEF EndReturns, Handing, history
  <2> QED BY <2>1, ExactRest
<1> QED
  BY <1>1, <1>2, <1>3, <1>4, <1>5, <1>6, <1>7, <1>8, <1>9, ExactOnNext, ExactRequest
  DEF Next, Upstream, Handler, OnError, OnComplete

(* What the handler still wants is what the upstream still owes, the first  *)
(* payload included: no request is doubled and no part of one is lost.      *)
THEOREM DemandIsForwarded ==
  ASSUME 2 * MaxRequests < MAX_REQUEST_N
  PROVE  Spec => []DemandForwarded
<1>1. Init => Over /\ Exact
  BY DEF Init, Over, Exact
<1>2. IInv /\ Over /\ [Next]_vars => Over'
  BY OverStep
<1>3. IInv /\ IInv' /\ Over /\ Exact /\ [Next]_vars => Exact'
  BY ExactStep
<1>4. IInv /\ Over /\ Exact => DemandForwarded
  <2> SUFFICES ASSUME IInv, Over, Exact PROVE DemandForwarded
    OBVIOUS
  <2> USE DEF IInv
  <2>1. first # 0 => up.pending = 0 /\ in.pending = 0
    BY DEF Holding
  <2>2. ASSUME Idle, in.active, first = 0, up.active
        PROVE  up.pending = in.pending
    <3>1. inner /\ ~canceled /\ ~Handing /\ ~Inside("first")
      BY <2>2 DEF Input, Handing, Inside
    <3>2. ~done
      BY <2>2, <3>1 DEF Told, Over
    <3>3. Owed = up.pending
      BY <3>1, Types DEF Owed
    <3> QED BY <2>2, <3>1, <3>2, <3>3 DEF Exact
  <2> QED BY <2>1, <2>2 DEF DemandForwarded
<1> QED BY <1>1, <1>2, <1>3, <1>4, Invariance, PTL DEF Spec
=============================================================================
