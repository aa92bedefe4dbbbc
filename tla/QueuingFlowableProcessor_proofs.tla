------------------- MODULE QueuingFlowableProcessor_proofs -------------------
(***************************************************************************)
(* Proofs about the queuing processor, for every capacity, every set of    *)
(* undefined values, callbacks that throw or not, and all bounds.          *)
(***************************************************************************)
EXTENDS QueuingFlowableProcessor, SequenceTheorems, TLAPS

-----------------------------------------------------------------------------
(* The inductive invariant. *)

(* Before the subscription nobody can have asked, cancelled or drained. *)
Unsubscribed ==
  ~once => ~actual /\ requested = 0 /\ demanded = 0 /\ wip = 0 /\ Idle

(* An activation owns at least one unit of _wip and has a subscriber to     *)
(* call: the tests of _actual inside the loop never fail.                   *)
Running == ~Idle => actual /\ wip >= 1

(* r is the demand read at the head of the loop: e does not exceed it, and  *)
(* a demand that has grown since has left its mark in _wip.                 *)
LoopLocals ==
  ~Idle =>
    /\ Top.r <= requested
    /\ Top.e <= Top.r
    /\ Top.pc \in {"map", "next"} => Top.e < Top.r
    /\ Top.r = requested \/ wip >= 2

(* _requested is what was asked for and has not been met, except for the e  *)
(* values that the loop in progress has delivered and not yet subtracted.   *)
Count == Len(delivered)
Accounting ==
  /\ Idle /\ wip = 0 => Count + requested = demanded
  /\ ~Idle =>
       Count + requested = demanded + Top.e + (IF Top.pc = "next" THEN 1 ELSE 0)
  /\ Count <= demanded

(* A terminal signal or a cancel keeps _wip from returning to 0. *)
Ended ==
  /\ cancelled => wip > 0
  /\ outcome # "none" => At("end") \/ (Idle /\ wip > 0)
  /\ At("end") => outcome # "none"

IInv ==
  /\ TypeOK
  /\ AtMostOneDrain
  /\ Unsubscribed
  /\ Running
  /\ LoopLocals
  /\ Accounting
  /\ Ended

-----------------------------------------------------------------------------
(* What the operations on the stack of activations do to one activation.   *)

(* Taking the only activation off leaves the empty stack. *)
LEMMA PopOne ==
  ASSUME NEW s \in Seq(Frames), Len(s) = 1
  PROVE  SubSeq(s, 1, Len(s) - 1) = <<>>
BY SubSeqProperties, EmptySeq, LenProperties

(* Replacing the only activation leaves the new one. *)
LEMMA ReplaceOne ==
  ASSUME NEW s \in Seq(Frames), Len(s) = 1, NEW f \in Frames
  PROVE  LET t == [s EXCEPT ![Len(s)] = f]
         IN  t \in Seq(Frames) /\ Len(t) = 1 /\ t[1] = f /\ t # <<>>
<1> DEFINE t == [s EXCEPT ![Len(s)] = f]
<1>1. t \in Seq(Frames) /\ Len(t) = Len(s)
  BY ExceptSeq
<1>2. t[1] = f
  BY LenProperties, ElementOfSeq
<1> QED BY <1>1, <1>2, EmptySeq

(* Starting a drain on the empty stack leaves one activation. *)
LEMMA AppendOne ==
  ASSUME NEW s \in Seq(Frames), s = <<>>, NEW f \in Frames
  PROVE  LET t == Append(s, f)
         IN  t \in Seq(Frames) /\ Len(t) = 1 /\ t[1] = f /\ t # <<>>
BY AppendProperties, EmptySeq

(* A stack that is not empty and not deeper than one has one activation.   *)
LEMMA OneActivation ==
  ASSUME TypeOK, AtMostOneDrain, ~Idle
  PROVE  Len(stack) = 1 /\ Top \in Frames /\ Pop = <<>>
<1>1. stack \in Seq(Frames) /\ stack # <<>> /\ Len(stack) <= 1
  BY DEF TypeOK, AtMostOneDrain, Idle
<1>2. Len(stack) = 1
  <2>1. Len(stack) \in Nat \ {0}
    BY <1>1, EmptySeq, Zenon
  <2>2. \A n : n \in Nat \ {0} /\ n <= 1 => n = 1
    OBVIOUS
  <2> QED BY <2>1, <2>2, <1>1, Zenon
<1>3. stack[1] \in Frames
  BY <1>1, <1>2, ElementOfSeq, 1 \in 1..1
<1> QED BY <1>1, <1>2, <1>3, PopOne DEF Top, Pop

(* What a step makes of the stack: nothing, the empty stack, or f alone.   *)
Popped == stack' \in Seq(Frames) /\ Len(stack') <= 1 /\ Idle'
Left(f) == stack' \in Seq(Frames) /\ Len(stack') <= 1 /\ ~Idle' /\ Top' = f
Kept == stack' \in Seq(Frames) /\ Len(stack') <= 1 /\ Idle' = Idle /\ Top' = Top

(* A call that does not touch the stack. *)
LEMMA KeepStack ==
  ASSUME TypeOK, AtMostOneDrain, stack' = stack
  PROVE  Kept
BY DEF TypeOK, AtMostOneDrain, Kept, Idle, Top

(* A drain that returns, for whatever reason. *)
LEMMA PopStack ==
  ASSUME TypeOK, AtMostOneDrain, ~Idle, stack' = Pop
  PROVE  Popped
<1>1. stack' = <<>>
  BY OneActivation
<1>2. stack' \in Seq(Frames) /\ Len(stack') = 0
  BY <1>1, EmptySeq
<1> QED BY <1>1, <1>2 DEF Popped, Idle

(* A drain that goes on. *)
LEMMA ReplaceStack ==
  ASSUME TypeOK, AtMostOneDrain, ~Idle, NEW f \in Frames, stack' = Replace(f)
  PROVE  Left(f)
<1>1. stack \in Seq(Frames) /\ Len(stack) = 1
  BY OneActivation DEF TypeOK
<1>2. stack' \in Seq(Frames) /\ Len(stack') = 1 /\ stack'[1] = f /\ stack' # <<>>
  BY <1>1, ReplaceOne DEF Replace
<1> QED BY <1>2 DEF Left, Idle, Top

(* The head of drain(): it does nothing, or marks _wip, or starts the loop. *)
LEMMA DrainCall ==
  ASSUME TypeOK, AtMostOneDrain, Running, NEW r \in Nat, Drain(r)
  PROVE  \/ ~actual /\ wip' = wip /\ Kept
         \/ actual /\ wip # 0 /\ wip' = wip + 1 /\ Kept
         \/ actual /\ Idle /\ wip = 0 /\ wip' = 1 /\ Left(Frame(r))
<1>1. CASE ~actual
  BY <1>1, KeepStack DEF Drain
<1>2. CASE actual /\ wip # 0
  BY <1>2, KeepStack DEF Drain
<1>3. CASE actual /\ wip = 0
  <2>1. Idle
    BY <1>3 DEF Running
  <2>2. Frame(r) \in Frames
    BY DEF Frame, Frames
  <2>3. stack' = Append(stack, Frame(r)) /\ wip' = 1
    BY <1>3 DEF Drain
  <2>4. stack' \in Seq(Frames) /\ Len(stack') = 1 /\ stack'[1] = Frame(r) /\ stack' # <<>>
    BY <2>1, <2>2, <2>3, AppendOne DEF TypeOK, Idle
  <2>5. Left(Frame(r))
    BY <2>4 DEF Left, Idle, Top
  <2> QED BY <1>3, <2>1, <2>3, <2>5
<1> QED BY <1>1, <1>2, <1>3

-----------------------------------------------------------------------------
(* The invariant holds initially. *)
LEMMA InitInvariant == Init => IInv
<1> SUFFICES ASSUME Init PROVE IInv
  OBVIOUS
<1>1. stack = <<>> /\ Idle /\ Len(stack) = 0 /\ stack \in Seq(Frames)
  BY EmptySeq DEF Init, Idle
<1>2. Count = 0
  BY EmptySeq DEF Init, Count
<1>3. TypeOK
  <2>1. delivered \in Seq(Nat) /\ accepted \in Seq(Nat) /\ queue \in Seq(Nat)
    BY EmptySeq DEF Init
  <2> QED BY <1>1, <2>1, Zenon DEF Init, TypeOK
<1>4. Unsubscribed /\ Running /\ LoopLocals /\ Accounting /\ Ended
  BY <1>1, <1>2 DEF Init, Unsubscribed, Running, LoopLocals, Accounting, Ended, At
<1> QED BY <1>1, <1>3, <1>4 DEF IInv, AtMostOneDrain

(* The calls that start a drain or mark _wip: request, onNext, onError,     *)
(* onComplete.  Only request changes the demand, and by the same amount in  *)
(* _requested.                                                              *)
LEMMA DrainCallInvariant ==
  ASSUME IInv, TypeOK', once' = once, actual' = actual, cancelled' = cancelled,
         delivered' = delivered, outcome' = outcome, Drain(requested'),
         NEW k \in Nat, requested' = requested + k, demanded' = demanded + k,
         k > 0 => once
  PROVE  IInv'
<1> USE DEF IInv
<1>0. /\ Count \in Nat /\ Count' = Count
      /\ requested \in Nat /\ demanded \in Nat /\ wip \in Nat
      /\ requested' \in Nat /\ demanded' \in Nat
  BY LenProperties DEF TypeOK, Count
<1>1. CASE ~actual /\ wip' = wip /\ Kept
  <2>1. Idle /\ Idle'
    BY <1>1 DEF Running, Kept
  <2>2. AtMostOneDrain' /\ Running' /\ LoopLocals' /\ Ended' /\ Unsubscribed'
    BY <1>0, <1>1, <2>1 DEF AtMostOneDrain, Running, LoopLocals, Ended, At, Kept, Unsubscribed
  <2>3. Accounting'
    BY <1>0, <1>1, <2>1 DEF Accounting
  <2> QED BY <2>2, <2>3
<1>2. CASE actual /\ wip # 0 /\ wip' = wip + 1 /\ Kept
  <2>2. AtMostOneDrain' /\ Running' /\ LoopLocals' /\ Ended' /\ Unsubscribed'
    BY <1>0, <1>2, OneActivation DEF AtMostOneDrain, Running, LoopLocals, Ended, At, Kept, Unsubscribed, Frames
  <2>3. Accounting'
    BY <1>0, <1>2, OneActivation DEF Accounting, Kept, Frames
  <2> QED BY <2>2, <2>3
<1>3. CASE actual /\ Idle /\ wip = 0 /\ wip' = 1 /\ Left(Frame(requested'))
  <2>2. AtMostOneDrain' /\ Running' /\ LoopLocals' /\ Ended' /\ Unsubscribed'
    BY <1>0, <1>3 DEF AtMostOneDrain, Running, LoopLocals, Ended, At, Left, Unsubscribed, Frame
  <2>3. Accounting'
    BY <1>0, <1>3 DEF Accounting, Left, Frame
  <2> QED BY <2>2, <2>3
<1> QED BY <1>0, <1>1, <1>2, <1>3, DrainCall

(* The head of drain() keeps the types of _wip and of the stack. *)
LEMMA DrainCallTypes ==
  ASSUME TypeOK, AtMostOneDrain, Running, NEW r \in Nat, Drain(r)
  PROVE  wip' \in Nat /\ stack' \in Seq(Frames)
<1>1. wip \in Nat
  BY DEF TypeOK
<1> QED BY <1>1, DrainCall DEF Kept, Left

(* shift() gives back a shorter queue and, if there is one, a value. *)
LEMMA ShiftTypes ==
  ASSUME TypeOK
  PROVE  Shift \in Seq(Nat) /\ (queue # <<>> => Head(queue) \in Nat)
<1>1. queue \in Seq(Nat)
  BY DEF TypeOK
<1>2. CASE queue = <<>>
  BY <1>2, EmptySeq DEF Shift
<1>3. CASE queue # <<>>
  BY <1>1, <1>3, HeadTailProperties DEF Shift
<1> QED BY <1>2, <1>3

(* Calls of the subscriber. *)
LEMMA SubscribeStep == IInv /\ Subscribe => IInv'
<1> SUFFICES ASSUME IInv, Subscribe PROVE IInv'
  OBVIOUS
<1> USE DEF IInv
<1>1. Idle /\ wip = 0 /\ requested = 0 /\ demanded = 0
  BY DEF Unsubscribed, Subscribe
<1>2. Kept
  BY KeepStack DEF Subscribe
<1>3. TypeOK'
  BY DEF TypeOK, Subscribe, history
<1>4. Count' = Count
  BY DEF Count, Subscribe, history
<1>5. AtMostOneDrain' /\ Unsubscribed' /\ Running' /\ LoopLocals'
  BY <1>1, <1>2 DEF AtMostOneDrain, Unsubscribed, Running, LoopLocals, Kept, Subscribe
<1>6. Accounting' /\ Ended'
  BY <1>1, <1>2, <1>4 DEF Accounting, Ended, At, Kept, Subscribe, history
<1> QED BY <1>3, <1>5, <1>6

LEMMA RequestStep ==
  ASSUME IInv, NEW n \in 1..MaxDemand, Request(n)
  PROVE  IInv'
<1> USE DEF IInv
<1>1. requested' \in Nat /\ demanded' \in Nat /\ n \in Nat
  BY BoundsAssumption DEF Request, TypeOK
<1>2. TypeOK'
  BY <1>1, DrainCallTypes DEF TypeOK, Request
<1> QED BY <1>1, <1>2, DrainCallInvariant DEF Request

LEMMA CancelStep == IInv /\ Cancel => IInv'
<1> SUFFICES ASSUME IInv, Cancel PROVE IInv'
  OBVIOUS
<1> USE DEF IInv
<1>1. Kept
  BY KeepStack DEF Cancel
<1>2. wip \in Nat /\ wip' = wip + 1 /\ wip' > 0 /\ requested \in Nat
  BY DEF TypeOK, Cancel
<1>3. TypeOK'
  <2>1. queue' \in Seq(Nat) /\ actual' \in BOOLEAN
    BY EmptySeq DEF TypeOK, Cancel
  <2>2. wip' \in Nat
    BY <1>2
  <2> QED BY <2>1, <2>2, Zenon DEF TypeOK, Cancel, history
<1>4. Count' = Count
  BY DEF Count, Cancel, history
<1>5. AtMostOneDrain' /\ Unsubscribed' /\ Running'
  BY <1>1, <1>2 DEF AtMostOneDrain, Unsubscribed, Running, Kept, Cancel
<1>6. LoopLocals'
  BY <1>1, <1>2, OneActivation DEF Running, LoopLocals, Kept, Cancel, Frames
<1>7. Accounting' /\ Ended'
  BY <1>1, <1>2, <1>4 DEF Accounting, Ended, At, Kept, Cancel, history
<1> QED BY <1>3, <1>5, <1>6, <1>7

(* Calls that leave the drain loop and all it counts alone: map,            *)
(* onSubscribe.                                                             *)
LEMMA QuietStep ==
  ASSUME IInv, UNCHANGED <<once, actual, requested, queue, wip, cancelled,
                           done, error, stack, sent, accepted, demanded,
                           delivered, outcome, thrown>>,
         transformers' \in Nat, upstream' \in {"none", "requested", "cancelled"}
  PROVE  IInv'
<1> USE DEF IInv
<1>1. Kept
  BY KeepStack
<1>2. TypeOK'
  BY DEF TypeOK
<1>3. Count' = Count
  BY DEF Count
<1>4. AtMostOneDrain' /\ Unsubscribed' /\ Running' /\ LoopLocals' /\ Accounting' /\ Ended'
  BY <1>1, <1>3 DEF AtMostOneDrain, Unsubscribed, Running, LoopLocals, Accounting,
                    Ended, At, Kept
<1> QED BY <1>2, <1>4

(* Calls of the upstream. *)
LEMMA OnNextStep == IInv /\ OnNext => IInv'
<1> SUFFICES ASSUME IInv, OnNext PROVE IInv'
  OBVIOUS
<1> USE DEF IInv
<1>1. requested \in Nat /\ demanded \in Nat /\ sent \in Nat /\ sent + 1 \in Nat
  BY DEF TypeOK
<1>2. queue' \in Seq(Nat) /\ accepted' \in Seq(Nat)
  BY <1>1, AppendProperties DEF TypeOK, OnNext
<1>3. TypeOK'
  BY <1>1, <1>2, DrainCallTypes DEF TypeOK, OnNext
<1>4. requested' = requested + 0 /\ demanded' = demanded + 0 /\ Drain(requested')
  BY <1>1 DEF OnNext
<1> QED BY <1>3, <1>4, DrainCallInvariant DEF OnNext

LEMMA CloseStep == IInv /\ (OnError \/ OnComplete) => IInv'
<1> SUFFICES ASSUME IInv, OnError \/ OnComplete PROVE IInv'
  OBVIOUS
<1> USE DEF IInv
<1>1. requested \in Nat /\ demanded \in Nat
  BY DEF TypeOK
<1>2. TypeOK'
  BY <1>1, DrainCallTypes DEF TypeOK, OnError, OnComplete, history
<1>3. requested' = requested + 0 /\ demanded' = demanded + 0 /\ Drain(requested')
  BY <1>1 DEF OnError, OnComplete, history
<1> QED BY <1>2, <1>3, DrainCallInvariant DEF OnError, OnComplete, history

(* The steps of the drain loop. *)
LEMMA DrainCancelledStep == IInv /\ DrainCancelled => IInv'
<1> SUFFICES ASSUME IInv, DrainCancelled PROVE IInv'
  OBVIOUS
<1> USE DEF IInv
<1>1. ~Idle /\ Popped
  BY PopStack DEF DrainCancelled, At
<1>2. wip' = wip /\ wip >= 1 /\ wip \in Nat /\ once
  BY <1>1 DEF Running, Unsubscribed, TypeOK, DrainCancelled
<1>3. TypeOK'
  BY <1>1, EmptySeq DEF TypeOK, Popped, DrainCancelled, history
<1>4. Count' = Count
  BY DEF Count, DrainCancelled, history
<1>5. AtMostOneDrain' /\ Unsubscribed' /\ Running' /\ LoopLocals' /\ Accounting' /\ Ended'
  BY <1>1, <1>2, <1>4 DEF AtMostOneDrain, Unsubscribed, Running, LoopLocals, Accounting,
                    Ended, At, Popped, DrainCancelled, history
<1> QED BY <1>3, <1>5

LEMMA DrainTerminateStep == IInv /\ DrainTerminate => IInv'
<1> SUFFICES ASSUME IInv, DrainTerminate PROVE IInv'
  OBVIOUS
<1> USE DEF IInv
<1> DEFINE f == [Top EXCEPT !.pc = "end"]
<1>1. ~Idle /\ Top \in Frames /\ Top.pc = "while"
  BY OneActivation DEF DrainTerminate, At
<1>2. f \in Frames /\ f.pc = "end" /\ f.r = Top.r /\ f.e = Top.e
  BY <1>1 DEF Frames
<1>3. Left(f)
  BY <1>1, <1>2, ReplaceStack DEF DrainTerminate
<1>4. wip' = wip /\ wip >= 1 /\ wip \in Nat /\ once /\ actual' /\ outcome' # "none"
  BY <1>1 DEF Running, Unsubscribed, TypeOK, DrainTerminate
<1>5. TypeOK'
  BY <1>3, ShiftTypes DEF TypeOK, Left, DrainTerminate
<1>6. Count' = Count
  BY DEF Count, DrainTerminate
<1> HIDE DEF f
<1>7. AtMostOneDrain' /\ Unsubscribed' /\ Running' /\ LoopLocals' /\ Accounting' /\ Ended'
  BY <1>1, <1>2, <1>3, <1>4, <1>6
  DEF AtMostOneDrain, Unsubscribed, Running, LoopLocals, Accounting, Ended, At,
      Left, DrainTerminate
<1> QED BY <1>5, <1>7

LEMMA DrainTakeStep == IInv /\ DrainTake => IInv'
<1> SUFFICES ASSUME IInv, DrainTake PROVE IInv'
  OBVIOUS
<1> USE DEF IInv
<1> DEFINE f == [Top EXCEPT !.pc = "map", !.v = Head(queue)]
<1>1. ~Idle /\ Top \in Frames /\ Top.pc = "while" /\ Top.e # Top.r /\ queue # <<>>
  BY OneActivation DEF DrainTake, At, NoValue
<1>2. f \in Frames /\ f.pc = "map" /\ f.r = Top.r /\ f.e = Top.e /\ f.e < f.r
  <2>1. Head(queue) \in Nat
    BY <1>1, ShiftTypes
  <2>2. f \in Frames /\ f.pc = "map" /\ f.r = Top.r /\ f.e = Top.e
    BY <1>1, <2>1 DEF Frames
  <2>3. Top.e \in Nat /\ Top.r \in Nat /\ Top.e <= Top.r
    BY <1>1 DEF Frames, LoopLocals
  <2> QED BY <1>1, <2>2, <2>3
<1>3. Left(f)
  BY <1>1, <1>2, ReplaceStack DEF DrainTake
<1>4. wip' = wip /\ wip >= 1 /\ wip \in Nat /\ once /\ actual'
  BY <1>1 DEF Running, Unsubscribed, TypeOK, DrainTake
<1>5. TypeOK'
  BY <1>3, ShiftTypes DEF TypeOK, Left, DrainTake, history
<1>6. Count' = Count
  BY DEF Count, DrainTake, history
<1> HIDE DEF f
<1>7. AtMostOneDrain' /\ Unsubscribed' /\ Running' /\ LoopLocals' /\ Accounting' /\ Ended'
  BY <1>1, <1>2, <1>3, <1>4, <1>6
  DEF AtMostOneDrain, Unsubscribed, Running, LoopLocals, Accounting, Ended, At,
      Left, DrainTake, history
<1> QED BY <1>5, <1>7

LEMMA DrainEmitStep == IInv /\ DrainEmit => IInv'
<1> SUFFICES ASSUME IInv, DrainEmit PROVE IInv'
  OBVIOUS
<1> USE DEF IInv
<1> DEFINE f == [Top EXCEPT !.pc = "next"]
<1>1. ~Idle /\ Top \in Frames /\ Top.pc = "map"
  BY OneActivation DEF DrainEmit, At
<1>2. f \in Frames /\ f.pc = "next" /\ f.r = Top.r /\ f.e = Top.e
  BY <1>1 DEF Frames
<1>3. Left(f)
  BY <1>1, <1>2, ReplaceStack DEF DrainEmit
<1>4. /\ wip' = wip /\ wip >= 1 /\ wip \in Nat /\ once /\ actual'
      /\ requested \in Nat /\ demanded \in Nat
      /\ outcome = "none"
  BY <1>1 DEF Running, Unsubscribed, Ended, At, TypeOK, DrainEmit
<1>5. delivered' \in Seq(Nat) /\ Count' = Count + 1 /\ Count \in Nat
  BY <1>1, AppendProperties, LenProperties DEF Frames, Count, TypeOK, DrainEmit
<1>6. TypeOK'
  BY <1>3, <1>5 DEF TypeOK, Left, DrainEmit
<1> HIDE DEF f
<1>7. AtMostOneDrain' /\ Unsubscribed' /\ Running' /\ LoopLocals'
  BY <1>1, <1>2, <1>3, <1>4
  DEF AtMostOneDrain, Unsubscribed, Running, LoopLocals, Left, DrainEmit
<1>8. Accounting' /\ Ended'
  <2>1. Top.e \in Nat /\ Top.r \in Nat /\ Top.e < Top.r /\ Top.r <= requested
    BY <1>1 DEF Frames, LoopLocals
  <2>2. Count + requested = demanded + Top.e
    BY <1>1, <1>4, <2>1 DEF Accounting
  <2>3. Count + 1 <= demanded
    BY <1>4, <1>5, <2>1, <2>2
  <2>4. Count' + requested = demanded + Top.e + 1
    BY <1>4, <1>5, <2>1, <2>2
  <2>5. Accounting'
    <3>1. requested' = requested /\ demanded' = demanded
      BY DEF DrainEmit
    <3> QED BY <1>2, <1>3, <1>4, <1>5, <2>1, <2>3, <2>4, <3>1 DEF Accounting, Left
  <2>6. Ended'
    BY <1>2, <1>3, <1>4 DEF Ended, At, Left, DrainEmit
  <2> QED BY <2>5, <2>6
<1> QED BY <1>6, <1>7, <1>8

LEMMA DrainTailStep == IInv /\ DrainTail => IInv'
<1> SUFFICES ASSUME IInv, DrainTail PROVE IInv'
  OBVIOUS
<1> USE DEF IInv
<1>1. ~Idle /\ Top \in Frames /\ Top.pc = "while"
  BY OneActivation DEF DrainTail, At
<1>2. /\ wip \in Nat /\ wip >= 1 /\ wip' = wip - 1 /\ wip' \in Nat
      /\ once /\ once' /\ actual' /\ outcome' = "none" /\ demanded' = demanded /\ ~cancelled'
  BY <1>1 DEF Running, Unsubscribed, TypeOK, Ended, At, DrainTail, history
<1>3. /\ Top.e \in Nat /\ Top.r \in Nat /\ Top.e <= Top.r /\ Top.r <= requested
      /\ requested \in Nat /\ demanded \in Nat
  BY <1>1 DEF Frames, LoopLocals, TypeOK
<1>4. requested' = requested - Top.e /\ requested' \in Nat
  BY <1>3 DEF DrainTail
<1>5. Frame(requested') \in Frames
  BY <1>4 DEF Frame, Frames
<1>6. Count' = Count /\ Count \in Nat
  BY LenProperties DEF Count, DrainTail, history, TypeOK
<1>7. Count + requested' = demanded
  <2>1. Count + requested = demanded + Top.e
    BY <1>1, <1>3 DEF Accounting
  <2> QED BY <1>3, <1>4, <1>6, <2>1
<1>8. queue' \in Seq(Nat)
  BY ShiftTypes DEF TypeOK, DrainTail
<1>9. CASE wip = 1
  <2>1. Popped
    BY <1>1, <1>9, PopStack DEF DrainTail
  <2>2. TypeOK'
    BY <1>2, <1>4, <1>8, <2>1, Zenon DEF TypeOK, Popped, DrainTail, history
  <2>3. AtMostOneDrain' /\ Unsubscribed' /\ Running' /\ LoopLocals' /\ Ended'
    BY <1>2, <1>9, <2>1 DEF AtMostOneDrain, Unsubscribed, Running, LoopLocals, Ended, At, Popped
  <2>4. Accounting'
    BY <1>2, <1>4, <1>6, <1>7, <2>1 DEF Accounting, Popped
  <2> QED BY <2>2, <2>3, <2>4
<1>10. CASE wip # 1
  <2>1. Left(Frame(requested'))
    BY <1>1, <1>5, <1>10, ReplaceStack DEF DrainTail
  <2>2. TypeOK'
    BY <1>2, <1>4, <1>8, <2>1, Zenon DEF TypeOK, Left, DrainTail, history
  <2>3. wip' >= 1
    BY <1>2, <1>10
  <2>4. AtMostOneDrain' /\ Unsubscribed' /\ Running' /\ LoopLocals' /\ Ended'
    BY <1>2, <1>4, <2>1, <2>3
    DEF AtMostOneDrain, Unsubscribed, Running, LoopLocals, Ended, At, Left, Frame
  <2>5. Accounting'
    BY <1>2, <1>3, <1>4, <1>6, <1>7, <2>1 DEF Accounting, Left, Frame
  <2> QED BY <2>2, <2>4, <2>5
<1> QED BY <1>9, <1>10

(* The callbacks return or throw. *)
LEMMA NextReturnsStep == IInv /\ NextReturns => IInv'
<1> SUFFICES ASSUME IInv, NextReturns PROVE IInv'
  OBVIOUS
<1> USE DEF IInv
<1> DEFINE f == [Top EXCEPT !.pc = "while", !.e = Top.e + 1]
<1>1. ~Idle /\ Top \in Frames /\ Top.pc = "next"
  BY OneActivation DEF NextReturns, At
<1>2. Top.e \in Nat /\ Top.r \in Nat /\ Top.e < Top.r /\ Top.e + 1 \in Nat
  BY <1>1 DEF Frames, LoopLocals
<1>3. f \in Frames /\ f.pc = "while" /\ f.r = Top.r /\ f.e = Top.e + 1 /\ f.e <= f.r
  <2>1. f \in Frames /\ f.pc = "while" /\ f.r = Top.r /\ f.e = Top.e + 1
    BY <1>1, <1>2 DEF Frames
  <2> QED BY <1>2, <2>1
<1>4. Left(f)
  BY <1>1, <1>3, ReplaceStack DEF NextReturns
<1>5. /\ wip' = wip /\ wip >= 1 /\ wip \in Nat /\ once /\ actual' /\ outcome = "none"
      /\ requested' = requested /\ demanded' = demanded /\ demanded \in Nat
  BY <1>1 DEF Running, Unsubscribed, TypeOK, Ended, At, NextReturns, history
<1>6. TypeOK'
  BY <1>4 DEF TypeOK, Left, NextReturns, history
<1>7. Count' = Count
  BY DEF Count, NextReturns, history
<1> HIDE DEF f
<1>8. AtMostOneDrain' /\ Unsubscribed' /\ Running' /\ LoopLocals' /\ Ended'
  BY <1>1, <1>3, <1>4, <1>5
  DEF AtMostOneDrain, Unsubscribed, Running, LoopLocals, Ended, At, Left, NextReturns, history
<1>9. Accounting'
  <2>1. Count + requested = demanded + Top.e + 1 /\ Count <= demanded
    BY <1>1 DEF Accounting
  <2>2. demanded + Top.e + 1 = demanded + f.e + 0
    BY <1>2, <1>3, <1>5
  <2> QED BY <1>3, <1>4, <1>5, <1>7, <2>1, <2>2 DEF Accounting, Left
<1> QED BY <1>6, <1>8, <1>9

LEMMA ReturnStep == IInv /\ (EndReturns \/ CallbackThrows) => IInv'
<1> SUFFICES ASSUME IInv, EndReturns \/ CallbackThrows PROVE IInv'
  OBVIOUS
<1> USE DEF IInv
<1>1. ~Idle /\ Popped
  BY PopStack DEF EndReturns, CallbackThrows, At
<1>2. wip' = wip /\ wip >= 1 /\ wip \in Nat /\ once'
  BY <1>1 DEF Running, Unsubscribed, TypeOK, EndReturns, CallbackThrows
<1>3. TypeOK'
  BY <1>1 DEF TypeOK, Popped, EndReturns, CallbackThrows, history
<1>4. Count' = Count /\ demanded' = demanded
  BY DEF Count, EndReturns, CallbackThrows, history
<1>5. AtMostOneDrain' /\ Unsubscribed' /\ Running' /\ LoopLocals' /\ Accounting'
  BY <1>1, <1>2, <1>4
  DEF AtMostOneDrain, Unsubscribed, Running, LoopLocals, Accounting, Popped
<1>6. Ended'
  BY <1>1, <1>2 DEF Ended, At, Popped
<1> QED BY <1>3, <1>5, <1>6

(* The inductive step. *)
LEMMA NextInvariant == IInv /\ [Next]_vars => IInv'
<1> SUFFICES ASSUME IInv, [Next]_vars PROVE IInv'
  OBVIOUS
<1>1. CASE Downstream
  <2>1. CASE Map
    BY <2>1, QuietStep DEF Map, history, IInv, TypeOK
  <2> QED BY <1>1, <2>1, SubscribeStep, RequestStep, CancelStep DEF Downstream
<1>2. CASE Upstream
  <2>1. CASE OnSubscribe
    BY <2>1, QuietStep DEF OnSubscribe, processor, IInv, TypeOK
  <2> QED BY <1>2, <2>1, OnNextStep, CloseStep DEF Upstream
<1>3. CASE DrainLoop
  BY <1>3, DrainCancelledStep, DrainTerminateStep, DrainTakeStep, DrainEmitStep,
     DrainTailStep DEF DrainLoop
<1>4. CASE CallbackReturns \/ CallbackThrows
  BY <1>4, NextReturnsStep, ReturnStep DEF CallbackReturns
<1>5. CASE UNCHANGED vars
  BY <1>5, QuietStep DEF vars, processor, history, IInv, TypeOK
<1> QED BY <1>1, <1>2, <1>3, <1>4, <1>5 DEF Next

-----------------------------------------------------------------------------
(* The strengthening holds in every reachable state. *)
THEOREM Invariance == Spec => []IInv
BY InitInvariant, NextInvariant, PTL DEF Spec

(* Every variable keeps its type, for all constants. *)
THEOREM TypeCorrect == Spec => []TypeOK
<1>1. IInv => TypeOK
  BY DEF IInv
<1> QED BY <1>1, Invariance, PTL

(* _wip serialises the drain loop under every reentrancy and exception. *)
THEOREM DrainsSerialised == Spec => []AtMostOneDrain
<1>1. IInv => AtMostOneDrain
  BY DEF IInv
<1> QED BY <1>1, Invariance, PTL

(* The subscriber never gets more values than it asked for, whatever is     *)
(* thrown, undefined or dropped.                                            *)
THEOREM DemandIsRespected == Spec => []DemandRespected
<1>1. IInv => DemandRespected
  BY DEF IInv, Accounting, Count, DemandRespected
<1> QED BY <1>1, Invariance, PTL

-----------------------------------------------------------------------------
(* What single steps may do, from the same invariant. *)

(* Only DrainEmit hands a value out, and only to a subscriber that has not  *)
(* had a terminal signal.                                                   *)
LEMMA OnlyEmitDelivers ==
  ASSUME IInv, [Next]_vars, delivered' # delivered
  PROVE  At("map") /\ outcome = "none" /\ outcome' = outcome
<1>1. DrainEmit
  BY DEF Next, Downstream, Upstream, DrainLoop, CallbackReturns, vars, processor, history,
         Subscribe, Request, Cancel, Map, OnSubscribe, OnNext, OnError, OnComplete,
         DrainCancelled, DrainTerminate, DrainTake, DrainTail, NextReturns, EndReturns,
         CallbackThrows
<1> QED BY <1>1 DEF DrainEmit, At, IInv, Ended

(* Only DrainTerminate gives a terminal signal, and only the first one to a *)
(* subscriber that has not cancelled.                                       *)
LEMMA OnlyTerminateEnds ==
  ASSUME IInv, [Next]_vars, outcome' # outcome
  PROVE  DrainTerminate /\ ~cancelled /\ outcome = "none" /\ ~Idle
<1>1. DrainTerminate
  BY DEF Next, Downstream, Upstream, DrainLoop, CallbackReturns, vars, processor, history,
         Subscribe, Request, Cancel, Map, OnSubscribe, OnNext, OnError, OnComplete,
         DrainCancelled, DrainEmit, DrainTake, DrainTail, NextReturns, EndReturns,
         CallbackThrows
<1> QED BY <1>1 DEF DrainTerminate, At, IInv, Ended

(* Once an exception has left drain(), no activation is in progress, _wip   *)
(* has not been given back, and the subscriber is kept.                     *)
Stuck == thrown => Idle /\ wip > 0 /\ actual

(* An exception leaves the processor stuck: the activation that it ends was *)
(* the only one, and owned a unit of _wip.                                  *)
LEMMA ThrowSticks ==
  ASSUME IInv, CallbackThrows
  PROVE  Idle' /\ (wip > 0)' /\ actual'
<1>1. ~Idle
  BY DEF CallbackThrows, At
<1>2. Popped /\ wip \in Nat /\ wip >= 1 /\ actual
  BY <1>1, PopStack DEF CallbackThrows, IInv, TypeOK, Running
<1> QED BY <1>2 DEF Popped, CallbackThrows

(* With _wip raised and no activation in progress none starts again: _wip   *)
(* stays raised, the subscriber stays, and nothing is given out.            *)
LEMMA StuckStep ==
  ASSUME IInv, [Next]_vars, Idle, wip > 0, actual
  PROVE  /\ Idle' /\ (wip > 0)' /\ actual'
         /\ UNCHANGED <<delivered, outcome>>
         /\ queue' \in {queue, Append(queue, sent')}
<1> USE DEF IInv
<1>1. UNCHANGED <<delivered, outcome>>
  <2>1. delivered' = delivered
    BY OnlyEmitDelivers, Zenon DEF At
  <2>2. outcome' = outcome
    BY OnlyTerminateEnds, Zenon
  <2> QED BY <2>1, <2>2
<1>2. wip \in Nat /\ requested \in Nat
  BY DEF TypeOK
<1>3. ASSUME NEW r \in Nat, Drain(r)
      PROVE  Idle' /\ (wip > 0)'
  <2>1. wip' = wip + 1 /\ Kept
    BY <1>2, <1>3, DrainCall DEF Idle
  <2> QED BY <1>2, <2>1 DEF Kept
<1>4. ASSUME stack' = stack, wip' = wip \/ wip' = wip + 1
      PROVE  Idle' /\ (wip > 0)'
  BY <1>2, <1>4 DEF Idle
<1>5. ASSUME NEW n \in 1..MaxDemand, Request(n)
      PROVE  Idle' /\ (wip > 0)' /\ actual' /\ queue' = queue
  <2>1. requested' \in Nat
    BY <1>2, <1>5, BoundsAssumption DEF Request
  <2> QED BY <1>3, <1>5, <2>1 DEF Request
<1>6. ASSUME OnNext
      PROVE  Idle' /\ (wip > 0)' /\ actual' /\ queue' \in {queue, Append(queue, sent')}
  BY <1>2, <1>3, <1>6 DEF OnNext
<1>7. ASSUME OnError \/ OnComplete
      PROVE  Idle' /\ (wip > 0)' /\ actual' /\ queue' = queue
  BY <1>2, <1>3, <1>7 DEF OnError, OnComplete
<1>8. ASSUME Cancel
      PROVE  Idle' /\ (wip > 0)' /\ actual' /\ queue' = queue
  BY <1>2, <1>4, <1>8 DEF Cancel
<1>9. ASSUME Subscribe \/ Map \/ OnSubscribe \/ UNCHANGED vars
      PROVE  Idle' /\ (wip > 0)' /\ actual' /\ queue' = queue
  BY <1>4, <1>9 DEF Subscribe, Map, OnSubscribe, vars, processor
<1>10. ~DrainLoop /\ ~CallbackReturns /\ ~CallbackThrows
  BY DEF DrainLoop, DrainCancelled, DrainTerminate, DrainEmit, DrainTake, DrainTail,
         CallbackReturns, NextReturns, EndReturns, CallbackThrows, At
<1>11. CASE Downstream \/ UNCHANGED vars
  BY <1>1, <1>5, <1>8, <1>9, <1>11, Zenon DEF Downstream
<1>12. CASE Upstream
  BY <1>1, <1>6, <1>7, <1>9, <1>12 DEF Upstream
<1> QED BY <1>10, <1>11, <1>12, Zenon DEF Next

(* Only an exception is remembered as one.                                  *)
LEMMA OnlyThrowsMark ==
  ASSUME [Next]_vars, thrown' # thrown
  PROVE  CallbackThrows
BY DEF Next, Downstream, Upstream, DrainLoop, CallbackReturns, vars, processor, history,
       Subscribe, Request, Cancel, Map, OnSubscribe, OnNext, OnError, OnComplete,
       DrainCancelled, DrainTerminate, DrainEmit, DrainTake, DrainTail, NextReturns, EndReturns

(* For every capacity, any undefined values and any callbacks: the first    *)
(* exception that leaves drain() silences the processor for good.           *)
THEOREM ExceptionSilences == Spec => ExceptionIsFinal
<1> DEFINE A == thrown => /\ actual'
                          /\ UNCHANGED <<delivered, outcome>>
                          /\ queue' \in {queue, Append(queue, sent')}
<1>1. Init => IInv /\ Stuck
  BY InitInvariant DEF Init, Stuck
<1>2. ASSUME IInv, Stuck, [Next]_vars
      PROVE  IInv' /\ Stuck' /\ A
  <2>1. [Next]_vars /\ IInv'
    BY <1>2, NextInvariant
  <2>2. CASE thrown
    <3>1. /\ Idle' /\ (wip > 0)' /\ actual' /\ UNCHANGED <<delivered, outcome>>
          /\ queue' \in {queue, Append(queue, sent')}
      BY <1>2, <2>1, <2>2, StuckStep, Zenon DEF Stuck
    <3> QED BY <2>1, <3>1, Zenon DEF Stuck
  <2>3. CASE ~thrown /\ CallbackThrows
    <3>1. Stuck'
      BY <1>2, <2>3, ThrowSticks, Zenon DEF Stuck
    <3> QED BY <2>1, <2>3, <3>1
  <2>4. CASE ~thrown /\ ~CallbackThrows
    <3>1. ~thrown'
      BY <1>2, <2>4, OnlyThrowsMark
    <3> QED BY <2>1, <2>4, <3>1 DEF Stuck
  <2> QED BY <2>2, <2>3, <2>4
<1>3. IInv /\ Stuck /\ [Next]_vars => IInv' /\ Stuck'
  BY <1>2, Zenon
<1>4. IInv /\ Stuck /\ [Next]_vars => [A]_vars
  BY <1>2
<1> QED BY <1>1, <1>3, <1>4, PTL DEF Spec, ExceptionIsFinal

-----------------------------------------------------------------------------
(* When no value is undefined, what goes in comes out.                     *)

(* Appending is concatenating a sequence of one. *)
LEMMA AppendAsConcat ==
  ASSUME NEW s \in Seq(Nat), NEW x \in Nat
  PROVE  <<x>> \in Seq(Nat) /\ Append(s, x) = s \o <<x>>
<1>1. <<x>> \in Seq(Nat) /\ Len(<<x>>) = 1 /\ <<x>>[1] = x
  OBVIOUS
<1>2. /\ Append(s, x) \in Seq(Nat) /\ s \o <<x>> \in Seq(Nat)
      /\ Len(Append(s, x)) = Len(s) + 1 /\ Len(s \o <<x>>) = Len(s) + 1
  BY <1>1, AppendProperties, ConcatProperties
<1>3. \A i \in 1..Len(Append(s, x)) : Append(s, x)[i] = (s \o <<x>>)[i]
  BY <1>1, <1>2, AppendProperties, ConcatProperties, LenProperties
<1> QED BY <1>2, <1>3, SeqEqual

(* A queue is its head and its tail. *)
LEMMA HeadThenTail ==
  ASSUME NEW q \in Seq(Nat), q # <<>>
  PROVE  /\ Head(q) \in Nat /\ Tail(q) \in Seq(Nat) /\ <<Head(q)>> \in Seq(Nat)
         /\ q = <<Head(q)>> \o Tail(q)
<1>1. Head(q) \in Nat /\ Tail(q) \in Seq(Nat) /\ <<Head(q)>> \in Seq(Nat)
  BY HeadTailProperties
<1>2. Len(q) \in Nat \ {0} /\ Head(q) = q[1]
  BY EmptySeq
<1>3. Len(<<Head(q)>>) = 1 /\ <<Head(q)>>[1] = Head(q)
  OBVIOUS
<1>4. Len(Tail(q)) = Len(q) - 1 /\ \A i \in 1..Len(q) - 1 : Tail(q)[i] = q[i + 1]
  BY HeadTailProperties
<1> DEFINE t == <<Head(q)>> \o Tail(q)
<1>5. t \in Seq(Nat) /\ Len(t) = Len(q)
  BY <1>1, <1>2, <1>3, <1>4, ConcatProperties
<1>6. \A i \in 1..Len(q) : q[i] = t[i]
  <2> SUFFICES ASSUME NEW i \in 1..Len(q) PROVE q[i] = t[i]
    OBVIOUS
  <2>1. t[i] = IF i <= 1 THEN <<Head(q)>>[i] ELSE Tail(q)[i - 1]
    BY <1>1, <1>2, <1>3, <1>4, ConcatProperties
  <2>2. CASE i = 1
    BY <1>2, <1>3, <2>1, <2>2
  <2>3. CASE i # 1
    <3>1. i - 1 \in 1..Len(q) - 1 /\ i > 1
      BY <1>2, <2>3
    <3> QED BY <1>4, <2>1, <3>1
  <2> QED BY <2>2, <2>3
<1> QED BY <1>1, <1>5, <1>6, SeqEqual

(* Concatenation of sequences of values is associative. *)
LEMMA ConcatValues ==
  \A s, t, u \in Seq(Nat) : (s \o t) \o u = s \o (t \o u)
BY ConcatAssociative

(* Appending to the end of a concatenation appends to its second part. *)
LEMMA ConcatThenAppend ==
  ASSUME NEW s \in Seq(Nat), NEW q \in Seq(Nat), NEW x \in Nat
  PROVE  Append(s \o q, x) = s \o Append(q, x)
<1>1. s \o q \in Seq(Nat) /\ <<x>> \in Seq(Nat)
  BY ConcatProperties, AppendAsConcat
<1>2. Append(s \o q, x) = (s \o q) \o <<x>> /\ Append(q, x) = q \o <<x>>
  BY <1>1, AppendAsConcat
<1>3. (s \o q) \o <<x>> = s \o (q \o <<x>>)
  BY <1>1, ConcatValues, Zenon
<1> QED BY <1>2, <1>3

(* Moving the head of a queue to the end of what precedes it. *)
LEMMA MoveHead ==
  ASSUME NEW s \in Seq(Nat), NEW q \in Seq(Nat), q # <<>>
  PROVE  (s \o <<Head(q)>>) \o Tail(q) = s \o q
<1>1. <<Head(q)>> \in Seq(Nat) /\ Tail(q) \in Seq(Nat) /\ q = <<Head(q)>> \o Tail(q)
  BY HeadThenTail, Zenon
<1>2. (s \o <<Head(q)>>) \o Tail(q) = s \o (<<Head(q)>> \o Tail(q))
  BY <1>1, ConcatValues, Zenon
<1> QED BY <1>1, <1>2, Zenon

(* Where there is nothing in the transformers, what is drained is what was  *)
(* delivered.                                                               *)
LEMMA NothingInFlight ==
  ASSUME TypeOK, ~At("map")
  PROVE  Drained = delivered
BY ConcatEmptySeq DEF Drained, InFlight, TypeOK

LEMMA NothingInFlightNext ==
  ASSUME TypeOK', ~At("map")'
  PROVE  Drained' = delivered'
<1>1. InFlight' = <<>>
  BY DEF InFlight
<1>2. delivered' \in Seq(Nat)
  BY DEF TypeOK
<1> QED BY <1>1, <1>2, ConcatEmptySeq DEF Drained

(* The types of the sequences that NothingLost speaks of. *)
LEMMA DrainedType ==
  ASSUME TypeOK, AtMostOneDrain
  PROVE  InFlight \in Seq(Nat) /\ Drained \in Seq(Nat)
<1>1. InFlight \in Seq(Nat)
  <2>1. CASE At("map")
    <3>1. Top.v \in Nat
      BY <2>1, OneActivation DEF At, Frames
    <3> QED BY <2>1, <3>1 DEF InFlight
  <2>2. CASE ~At("map")
    BY <2>2, EmptySeq DEF InFlight
  <2> QED BY <2>1, <2>2
<1> QED BY <1>1, ConcatProperties DEF Drained, TypeOK

(* A call that starts no drain leaves what is drained as it is; so does a   *)
(* call that starts one.                                                    *)
LEMMA DrainedKept ==
  ASSUME TypeOK, delivered' = delivered, Kept
  PROVE  Drained' = Drained
BY DEF Drained, InFlight, At, Kept

LEMMA DrainedByCall ==
  ASSUME TypeOK, AtMostOneDrain, Running, NEW r \in Nat, Drain(r), delivered' = delivered
  PROVE  Drained' = Drained /\ (wip' = 0 \/ ~Idle' => wip = 0 \/ ~Idle)
<1>1. CASE ~actual /\ wip' = wip /\ Kept
  BY <1>1, DrainedKept DEF Kept
<1>2. CASE actual /\ wip # 0 /\ wip' = wip + 1 /\ Kept
  <2>1. wip' # 0
    BY <1>2 DEF TypeOK
  <2> QED BY <1>2, <2>1, DrainedKept DEF Kept
<1>3. CASE actual /\ Idle /\ wip = 0 /\ wip' = 1 /\ Left(Frame(r))
  BY <1>3 DEF Drained, InFlight, At, Left, Frame
<1> QED BY <1>1, <1>2, <1>3, DrainCall

(* Taking a value off the queue drains it. *)
LEMMA TakeDrains ==
  ASSUME IInv, DrainTake
  PROVE  /\ ~Idle /\ Top \in Frames /\ Top.pc = "while" /\ queue # <<>>
         /\ Drained = delivered
         /\ Drained' = delivered \o <<Head(queue)>>
<1> USE DEF IInv
<1>1. queue # <<>> /\ ~Idle /\ Top \in Frames /\ Top.pc = "while"
  BY OneActivation DEF DrainTake, NoValue, At
<1> DEFINE f == [Top EXCEPT !.pc = "map", !.v = Head(queue)]
<1>2. f \in Frames /\ f.pc = "map" /\ f.v = Head(queue)
  BY <1>1, HeadThenTail DEF Frames, TypeOK
<1>3. Left(f)
  BY <1>1, <1>2, ReplaceStack DEF DrainTake
<1> HIDE DEF f
<1>4. Drained = delivered
  BY <1>1, NothingInFlight DEF At
<1>5. Drained' = delivered \o <<Head(queue)>>
  BY <1>2, <1>3 DEF Drained, InFlight, At, Left, DrainTake, history
<1> QED BY <1>1, <1>4, <1>5

(* Nothing else changes what has been drained, exceptions apart: the value  *)
(* that is delivered was already drained.                                   *)
LEMMA DrainedStable ==
  ASSUME IInv, IInv', [Next]_vars, ~DrainTake, ~CallbackThrows
  PROVE  Drained' = Drained
<1> USE DEF IInv
<1>1. ASSUME stack' = stack, delivered' = delivered
      PROVE  Drained' = Drained
  BY <1>1, KeepStack, DrainedKept
<1>2. ASSUME ~At("map"), ~At("map")', delivered' = delivered
      PROVE  Drained' = Drained
  BY <1>2, NothingInFlight, NothingInFlightNext
<1>3. CASE Subscribe \/ Cancel \/ Map \/ OnSubscribe \/ UNCHANGED vars
  BY <1>1, <1>3 DEF Subscribe, Cancel, Map, OnSubscribe, vars, processor, history
<1>4. ASSUME NEW n \in 1..MaxDemand, Request(n)
      PROVE  Drained' = Drained
  BY <1>4, DrainedByCall DEF Request, TypeOK
<1>5. CASE OnNext \/ OnError \/ OnComplete
  BY <1>5, DrainedByCall DEF OnNext, OnError, OnComplete, TypeOK, history
<1>6. CASE DrainCancelled \/ EndReturns
  <2>1. ~Idle /\ Popped
    BY <1>6, PopStack DEF DrainCancelled, EndReturns, At
  <2> QED BY <1>2, <1>6, <2>1 DEF DrainCancelled, EndReturns, At, Popped, history
<1>7. CASE DrainTerminate
  <2> DEFINE f == [Top EXCEPT !.pc = "end"]
  <2>1. ~Idle /\ Top \in Frames /\ Top.pc = "while" /\ f \in Frames /\ f.pc = "end"
    BY <1>7, OneActivation DEF DrainTerminate, At, Frames
  <2>2. Left(f)
    BY <1>7, <2>1, ReplaceStack DEF DrainTerminate
  <2>3. ~At("map") /\ ~At("map")'
    BY <2>1, <2>2 DEF At, Left
  <2> QED BY <1>2, <1>7, <2>3 DEF DrainTerminate
<1>8. CASE DrainEmit
  <2> DEFINE f == [Top EXCEPT !.pc = "next"]
  <2>1. ~Idle /\ Top \in Frames /\ Top.pc = "map" /\ Top.v \in Nat /\ f \in Frames /\ f.pc = "next"
    BY <1>8, OneActivation DEF DrainEmit, At, Frames
  <2>2. Left(f)
    BY <1>8, <2>1, ReplaceStack DEF DrainEmit
  <2>3. ~At("map")'
    BY <2>1, <2>2 DEF At, Left
  <2>4. Drained' = delivered'
    BY <2>3, NothingInFlightNext
  <2>5. delivered' = delivered \o <<Top.v>>
    BY <1>8, <2>1, AppendAsConcat DEF DrainEmit, TypeOK
  <2>6. Drained = delivered \o <<Top.v>>
    BY <2>1 DEF Drained, InFlight, At
  <2> QED BY <2>4, <2>5, <2>6
<1>9. CASE DrainTail
  <2>1. ~Idle /\ Top \in Frames /\ Top.pc = "while"
    BY <1>9, OneActivation DEF DrainTail, At
  <2>2. requested' \in Nat
    BY DEF TypeOK
  <2>3. Frame(requested') \in Frames
    BY <2>2 DEF Frame, Frames
  <2>4. CASE wip = 1
    <3>1. Popped
      BY <1>9, <2>1, <2>4, PopStack DEF DrainTail
    <3> QED BY <1>2, <1>9, <2>1, <3>1 DEF DrainTail, Popped, At, history
  <2>5. CASE wip # 1
    <3>1. Left(Frame(requested'))
      BY <1>9, <2>1, <2>3, <2>5, ReplaceStack DEF DrainTail
    <3>2. ~At("map") /\ ~At("map")'
      BY <2>1, <3>1 DEF Left, Frame, At
    <3> QED BY <1>2, <1>9, <3>2 DEF DrainTail, history
  <2> QED BY <2>4, <2>5
<1>10. CASE NextReturns
  <2> DEFINE f == [Top EXCEPT !.pc = "while", !.e = Top.e + 1]
  <2>1. ~Idle /\ Top \in Frames /\ Top.pc = "next"
    BY <1>10, OneActivation DEF NextReturns, At
  <2>2. f \in Frames /\ f.pc = "while"
    <3>1. Top.e + 1 \in Nat
      BY <2>1 DEF Frames
    <3> QED BY <2>1, <3>1 DEF Frames
  <2>3. Left(f)
    BY <1>10, <2>1, <2>2, ReplaceStack DEF NextReturns
  <2>4. ~At("map") /\ ~At("map")'
    BY <2>1, <2>2, <2>3 DEF At, Left
  <2> QED BY <1>2, <1>10, <2>4 DEF NextReturns, history
<1> QED
  BY <1>3, <1>4, <1>5, <1>6, <1>7, <1>8, <1>9, <1>10
  DEF Next, Downstream, Upstream, DrainLoop, CallbackReturns

(* Nothing is taken after a cancel, and nothing follows a terminal signal. *)
THEOREM SilentAfterEnd == Spec => NoSignalAfterEnd
<1> DEFINE A == /\ cancelled => outcome' = outcome /\ Drained' \in {Drained, delivered}
                /\ outcome # "none" => UNCHANGED <<delivered, outcome>>
<1>1. ASSUME IInv, [Next]_vars
      PROVE  [A]_vars
  <2>1. outcome # "none" => UNCHANGED <<delivered, outcome>>
    BY <1>1, OnlyEmitDelivers, OnlyTerminateEnds
  <2>2. cancelled => outcome' = outcome
    BY <1>1, OnlyTerminateEnds
  <2>3. ASSUME cancelled
        PROVE  Drained' \in {Drained, delivered}
    <3>1. IInv'
      BY <1>1, NextInvariant
    <3>2. ~DrainTake
      BY <2>3 DEF DrainTake
    <3>3. CASE CallbackThrows
      <4>1. ~Idle /\ Popped
        BY <1>1, <3>3, PopStack DEF CallbackThrows, At, IInv
      <4>2. ~At("map")'
        BY <4>1 DEF Popped, At
      <4>3. Drained' = delivered'
        BY <3>1, <4>2, NothingInFlightNext DEF IInv
      <4> QED BY <3>3, <4>3 DEF CallbackThrows, history
    <3>4. CASE ~CallbackThrows
      BY <1>1, <3>1, <3>2, <3>4, DrainedStable
    <3> QED BY <3>3, <3>4
  <2> QED BY <2>1, <2>2, <2>3
<1>2. IInv /\ [Next]_vars => [A]_vars
  BY <1>1
<1> QED BY <1>2, Invariance, PTL DEF Spec, NoSignalAfterEnd

(* Each step keeps the accepted values accounted for. *)
LEMMA NothingLostStep ==
  ASSUME Undefined = {}, IInv, IInv', NothingLost, [Next]_vars
  PROVE  NothingLost'
<1> USE DEF IInv
<1> SUFFICES ASSUME wip' = 0 \/ ~Idle' PROVE accepted' = Drained' \o queue'
  BY DEF NothingLost
<1>0. /\ Drained \in Seq(Nat) /\ queue \in Seq(Nat) /\ accepted \in Seq(Nat)
      /\ delivered \in Seq(Nat) /\ requested \in Nat /\ sent + 1 \in Nat /\ wip \in Nat
  BY DrainedType DEF TypeOK
<1>1. ASSUME ~DrainTake, ~CallbackThrows, queue' = queue, accepted' = accepted,
             wip = 0 \/ ~Idle
      PROVE  accepted' = Drained' \o queue'
  BY <1>1, DrainedStable DEF NothingLost
<1>2. CASE DrainTake
  <2>1. queue # <<>> /\ ~Idle /\ queue' = Tail(queue) /\ accepted' = accepted
    BY <1>2, TakeDrains DEF DrainTake, Shift, history
  <2>2. accepted = delivered \o queue
    BY <1>2, <2>1, TakeDrains DEF NothingLost
  <2>3. (delivered \o <<Head(queue)>>) \o Tail(queue) = delivered \o queue
    BY <1>0, <2>1, MoveHead, Zenon
  <2> QED BY <1>2, <2>1, <2>2, <2>3, TakeDrains, Zenon
<1>3. CASE DrainCancelled \/ EndReturns \/ CallbackThrows
  <2>1. ~Idle /\ Popped /\ wip' = wip
    BY <1>3, PopStack DEF DrainCancelled, EndReturns, CallbackThrows, At
  <2> QED BY <1>0, <2>1 DEF Popped, Running
<1>4. CASE OnNext
  <2>1. Drained' = Drained /\ accepted = Drained \o queue
    BY <1>0, <1>4, DrainedByCall DEF OnNext, NothingLost
  <2>2. CASE ~HasRoom
    BY <1>4, <2>1, <2>2 DEF OnNext
  <2>3. CASE HasRoom
    <3>1. queue' = Append(queue, sent + 1) /\ accepted' = Append(accepted, sent + 1)
      BY <1>4, <2>3 DEF OnNext
    <3>2. Append(Drained \o queue, sent + 1) = Drained \o Append(queue, sent + 1)
      BY <1>0, ConcatThenAppend, Zenon
    <3> QED BY <2>1, <3>1, <3>2, Zenon
  <2> QED BY <2>2, <2>3
<1>5. ASSUME NEW r \in Nat, Drain(r), delivered' = delivered, queue' = queue,
             accepted' = accepted
      PROVE  accepted' = Drained' \o queue'
  BY <1>5, DrainedByCall DEF NothingLost
<1>6. ASSUME NEW n \in 1..MaxDemand, Request(n)
      PROVE  accepted' = Drained' \o queue'
  <2>1. requested' \in Nat
    BY DEF TypeOK
  <2> QED BY <1>5, <1>6, <2>1 DEF Request
<1>7. CASE OnError \/ OnComplete
  BY <1>0, <1>5, <1>7 DEF OnError, OnComplete, history
<1>8. CASE Cancel
  <2>1. Kept
    BY <1>8, KeepStack DEF Cancel
  <2>2. wip' # 0 /\ ~Idle /\ wip # 0
    BY <1>0, <1>8, <2>1 DEF Cancel, Kept, Running
  <2> QED BY <1>8, <2>1, <2>2, DrainedKept DEF Cancel, history, NothingLost
<1>9. CASE Subscribe \/ Map \/ OnSubscribe \/ UNCHANGED vars
  <2>1. Kept /\ UNCHANGED <<wip, queue, accepted, delivered>>
    BY <1>9, KeepStack DEF Subscribe, Map, OnSubscribe, vars, processor, history
  <2> QED BY <2>1, DrainedKept DEF Kept, NothingLost
<1>10. CASE DrainTerminate
  <2>1. queue = <<>> /\ ~Idle
    BY <1>10 DEF DrainTerminate, Exhausted, NoValue, At
  <2>2. queue' = queue /\ accepted' = accepted
    BY <1>10, <2>1 DEF DrainTerminate, Shift
  <2>3. ~DrainTake /\ ~CallbackThrows
    BY <1>10, <2>1 DEF DrainTake, DrainTerminate, CallbackThrows, NoValue, At
  <2> QED BY <1>1, <2>1, <2>2, <2>3
<1>11. CASE DrainEmit \/ DrainTail \/ NextReturns
  <2>1. ~Idle /\ queue' = queue /\ accepted' = accepted
    BY <1>11 DEF DrainEmit, DrainTail, NextReturns, NoValue, Shift, At, history
  <2> QED BY <1>1, <1>2, <1>3, <2>1
<1> QED
  BY <1>2, <1>3, <1>4, <1>6, <1>7, <1>8, <1>9, <1>10, <1>11
  DEF Next, Downstream, Upstream, DrainLoop, CallbackReturns

(* The terminal signal comes when the queue is empty, and after it neither  *)
(* side of delivered = accepted changes.                                    *)
LEMMA TerminalAfterAllStep ==
  ASSUME Undefined = {}, IInv, NothingLost, TerminalAfterAll, [Next]_vars
  PROVE  TerminalAfterAll'
<1> USE DEF IInv
<1>1. CASE outcome' # outcome
  <2>1. DrainTerminate /\ ~Idle
    BY <1>1, OnlyTerminateEnds
  <2>2. queue = <<>> /\ ~At("map")
    BY <2>1 DEF DrainTerminate, Exhausted, NoValue, At
  <2>3. Drained = delivered /\ delivered \in Seq(Nat)
    BY <2>2, NothingInFlight DEF TypeOK
  <2>4. accepted = delivered \o <<>>
    BY <2>1, <2>2, <2>3 DEF NothingLost
  <2>5. accepted = delivered
    BY <2>3, <2>4, ConcatEmptySeq
  <2> QED BY <2>1, <2>5 DEF DrainTerminate, TerminalAfterAll
<1>2. CASE outcome' = outcome /\ outcome # "none"
  <2>1. delivered' = delivered
    BY <1>2, OnlyEmitDelivers, Zenon
  <2>2. done /\ delivered = accepted
    BY <1>2 DEF TerminalAfterAll
  <2>3. done' = done /\ error' = error /\ accepted' = accepted
    BY <2>2 DEF Next, Downstream, Upstream, DrainLoop, CallbackReturns, vars, processor, history,
         Subscribe, Request, Cancel, Map, OnSubscribe, OnNext, MaySend, OnError, OnComplete,
         DrainCancelled, DrainTerminate, DrainEmit, DrainTake, DrainTail, NextReturns,
         EndReturns, CallbackThrows
  <2> QED BY <1>2, <2>1, <2>3 DEF TerminalAfterAll
<1>3. CASE outcome' = "none"
  BY <1>3 DEF TerminalAfterAll
<1> QED BY <1>1, <1>2, <1>3

(* A drain gives back its last _wip only when it has read the latest demand *)
(* and found the queue empty or the demand met.                             *)
LEMMA NoLostWakeupStep ==
  ASSUME Undefined = {}, IInv, NoLostWakeup, [Next]_vars
  PROVE  NoLostWakeup'
<1> USE DEF IInv
<1> SUFFICES ASSUME Idle', wip' = 0, actual'
             PROVE  /\ queue' = <<>> \/ requested' = 0
                    /\ done' /\ queue' = <<>> => demanded' = 0
  BY DEF NoLostWakeup
<1>0. wip \in Nat /\ requested \in Nat
  BY DEF TypeOK
<1>1. ASSUME stack' = stack, UNCHANGED <<wip, actual, queue, requested, done, demanded>>
      PROVE  NoLostWakeup'
  BY <1>1 DEF NoLostWakeup, Idle
<1>2. CASE Subscribe
  BY <1>2 DEF Subscribe, Unsubscribed, history
<1>3. CASE Map \/ OnSubscribe \/ UNCHANGED vars
  BY <1>1, <1>3 DEF Map, OnSubscribe, vars, processor, history, NoLostWakeup
<1>4. ASSUME NEW r \in Nat, Drain(r), actual' = actual
      PROVE  FALSE
  <2>1. CASE ~actual
    BY <1>4, <2>1
  <2>2. CASE actual /\ wip # 0 /\ wip' = wip + 1
    BY <1>0, <2>2
  <2>3. CASE Left(Frame(r))
    BY <2>3 DEF Left
  <2> QED BY <1>4, <2>1, <2>2, <2>3, DrainCall
<1>5. ASSUME NEW n \in 1..MaxDemand, Request(n)
      PROVE  FALSE
  <2>1. requested' \in Nat
    BY <1>0, <1>5, BoundsAssumption DEF Request
  <2> QED BY <1>4, <1>5, <2>1 DEF Request
<1>6. CASE OnNext \/ OnError \/ OnComplete
  <2>1. Drain(requested) /\ actual' = actual
    BY <1>6, Zenon DEF OnNext, OnError, OnComplete
  <2> QED BY <1>0, <1>4, <2>1
<1>7. CASE Cancel
  BY <1>0, <1>7 DEF Cancel
<1>8. CASE DrainCancelled \/ EndReturns \/ CallbackThrows \/ DrainTerminate \/ DrainTake
           \/ DrainEmit \/ NextReturns
  <2>1. ~Idle /\ wip' = wip
    BY <1>8 DEF DrainCancelled, EndReturns, CallbackThrows, DrainTerminate, DrainTake,
               DrainEmit, NextReturns, At
  <2> QED BY <1>0, <2>1 DEF Running
<1>9. CASE DrainTail
  <2>1. ~Idle /\ wip = 1 /\ Top \in Frames
    BY <1>0, <1>9, OnlyEmitDelivers, OneActivation DEF DrainTail, At
  <2>2. Top.r = requested /\ requested' = requested - Top.e /\ done' = done
    BY <1>9, <2>1 DEF LoopLocals, DrainTail
  <2>3. CASE Top.e = Top.r
    <3>1. requested' = 0 /\ queue' = queue /\ ~(done /\ queue = <<>>)
      BY <1>0, <1>9, <2>2, <2>3 DEF DrainTail, Exhausted
    <3> QED BY <2>2, <3>1
  <2>4. CASE Top.e # Top.r
    <3>1. queue = <<>> /\ ~done
      BY <1>9, <2>4 DEF DrainTail, NoValue, Exhausted
    <3>2. queue' = <<>>
      BY <1>9, <3>1 DEF DrainTail, Shift
    <3> QED BY <2>2, <3>1, <3>2
  <2> QED BY <2>3, <2>4
<1> QED
  BY <1>2, <1>3, <1>5, <1>6, <1>7, <1>8, <1>9
  DEF Next, Downstream, Upstream, DrainLoop, CallbackReturns

-----------------------------------------------------------------------------
(* While the loop can run, every value that was accepted is delivered, in   *)
(* the transformers, or queued, in the order it came in.                    *)
THEOREM NothingIsLost ==
  ASSUME Undefined = {}
  PROVE  Spec => []NothingLost
<1>1. Init => NothingLost
  <2> SUFFICES ASSUME Init PROVE accepted = Drained \o queue
    BY DEF NothingLost
  <2>1. InFlight = <<>>
    BY DEF Init, InFlight, At, Idle
  <2> QED BY <2>1, ConcatEmptySeq, EmptySeq DEF Init, Drained
<1>2. IInv /\ IInv' /\ NothingLost /\ [Next]_vars => NothingLost'
  BY NothingLostStep
<1> QED BY <1>1, <1>2, Invariance, PTL DEF Spec

(* The subscriber sees the end of the stream as the upstream ended it, and  *)
(* only after every accepted value.                                         *)
THEOREM TerminalComesLast ==
  ASSUME Undefined = {}
  PROVE  Spec => []TerminalAfterAll
<1>1. Init => TerminalAfterAll
  BY DEF Init, TerminalAfterAll
<1>2. IInv /\ NothingLost /\ TerminalAfterAll /\ [Next]_vars => TerminalAfterAll'
  BY TerminalAfterAllStep
<1> QED BY <1>1, <1>2, Invariance, NothingIsLost, PTL DEF Spec

(* No interleaving of calls, reentrant or not, leaves a value, a demand or  *)
(* an end of the stream unnoticed while the loop can still run.             *)
THEOREM WakeupsAreNotLost ==
  ASSUME Undefined = {}
  PROVE  Spec => []NoLostWakeup
<1>1. Init => NoLostWakeup
  BY DEF Init, NoLostWakeup
<1>2. IInv /\ NoLostWakeup /\ [Next]_vars => NoLostWakeup'
  BY NoLostWakeupStep
<1> QED BY <1>1, <1>2, Invariance, PTL DEF Spec

-----------------------------------------------------------------------------
(* When moreover no callback throws, the processor is a queue with demand. *)

(* The loop that does not give back its _wip has dropped its subscriber. *)
Released == Idle /\ wip > 0 => ~actual

LEMMA ReleasedStep ==
  ASSUME ~CallbacksThrow, IInv, Released, [Next]_vars
  PROVE  Released'
<1> USE DEF IInv
<1> SUFFICES ASSUME Idle', wip' > 0, actual' PROVE FALSE
  BY DEF Released
<1>0. wip \in Nat
  BY DEF TypeOK
<1>1. ASSUME stack' = stack, wip' = wip, actual' = actual
      PROVE  FALSE
  BY <1>1 DEF Released, Idle
<1>2. CASE Subscribe
  BY <1>2 DEF Subscribe, Unsubscribed
<1>3. CASE Map \/ OnSubscribe \/ UNCHANGED vars
  BY <1>1, <1>3 DEF Map, OnSubscribe, vars, processor
<1>4. ASSUME NEW r \in Nat, Drain(r), actual' = actual
      PROVE  FALSE
  <2>1. actual
    BY <1>4
  <2>2. CASE wip # 0 /\ Kept
    BY <1>0, <2>1, <2>2 DEF Released, Kept
  <2>3. CASE Left(Frame(r))
    BY <2>3 DEF Left
  <2> QED BY <1>4, <2>1, <2>2, <2>3, DrainCall
<1>5. ASSUME NEW n \in 1..MaxDemand, Request(n)
      PROVE  FALSE
  <2>1. requested' \in Nat
    BY <1>5, BoundsAssumption DEF Request, TypeOK
  <2> QED BY <1>4, <1>5, <2>1 DEF Request
<1>6. CASE OnNext \/ OnError \/ OnComplete
  <2>1. Drain(requested) /\ actual' = actual
    BY <1>6, Zenon DEF OnNext, OnError, OnComplete
  <2>2. requested \in Nat
    BY DEF TypeOK
  <2> QED BY <1>4, <2>1, <2>2
<1>7. CASE Cancel
  <2>1. wip # 0 /\ actual /\ Idle
    BY <1>7 DEF Cancel, Idle
  <2> QED BY <1>0, <2>1 DEF Released
<1>8. CASE DrainCancelled \/ EndReturns \/ CallbackThrows
  BY <1>8 DEF DrainCancelled, EndReturns, CallbackThrows
<1>9. CASE DrainTerminate \/ DrainTake \/ DrainEmit \/ NextReturns
  <2>1. PICK f \in Frames : stack' = Replace(f) /\ ~Idle
    <3>1. ~Idle /\ Top \in Frames /\ (DrainTake => Head(queue) \in Nat)
      BY <1>9, OneActivation, ShiftTypes
      DEF DrainTerminate, DrainTake, DrainEmit, NextReturns, At, NoValue
    <3>2. /\ [Top EXCEPT !.pc = "end"] \in Frames
          /\ [Top EXCEPT !.pc = "next"] \in Frames
      BY <3>1 DEF Frames
    <3>3. DrainTake => [Top EXCEPT !.pc = "map", !.v = Head(queue)] \in Frames
      BY <3>1 DEF Frames
    <3>4. [Top EXCEPT !.pc = "while", !.e = Top.e + 1] \in Frames
      <4>1. Top.e + 1 \in Nat
        BY <3>1 DEF Frames
      <4> QED BY <3>1, <4>1 DEF Frames
    <3> QED BY <1>9, <3>1, <3>2, <3>3, <3>4, Zenon DEF DrainTerminate, DrainTake, DrainEmit, NextReturns
  <2> QED BY <2>1, ReplaceStack DEF Left
<1>10. CASE DrainTail
  <2>1. CASE wip = 1
    BY <1>0, <1>10, <2>1 DEF DrainTail
  <2>2. CASE wip # 1
    <3>1. Frame(requested') \in Frames /\ ~Idle
      BY <1>10, NextInvariant DEF Frame, Frames, TypeOK, DrainTail, At
    <3> QED BY <1>10, <2>2, <3>1, ReplaceStack DEF DrainTail, Left
  <2> QED BY <2>1, <2>2
<1> QED
  BY <1>2, <1>3, <1>5, <1>6, <1>7, <1>8, <1>9, <1>10
  DEF Next, Downstream, Upstream, DrainLoop, CallbackReturns

(* After a cancel or a terminal signal the subscriber is let go of. *)
THEOREM SubscriberIsReleased ==
  ASSUME ~CallbacksThrow
  PROVE  Spec => []SubscriberReleased
<1>1. Init => Released
  BY DEF Init, Released
<1>2. IInv /\ Released /\ [Next]_vars => Released'
  BY ReleasedStep
<1>3. IInv /\ Released => SubscriberReleased
  BY DEF IInv, TypeOK, Released, SubscriberReleased, Ended, At
<1> QED BY <1>1, <1>2, <1>3, Invariance, PTL DEF Spec

(* Taking a value off the queue is handing out the next accepted value.     *)
LEMMA TakeIsDeliver ==
  ASSUME IInv, NothingLost, DrainTake
  PROVE  Abstract!Deliver
<1> USE DEF IInv
<1>1. /\ ~Idle /\ Top \in Frames /\ Top.pc = "while" /\ queue # <<>>
      /\ Drained = delivered
      /\ Drained' = delivered \o <<Head(queue)>>
  BY TakeDrains
<1>2. /\ delivered \in Seq(Nat) /\ queue \in Seq(Nat) /\ Head(queue) \in Nat
      /\ requested \in Nat /\ demanded \in Nat
  BY <1>1, ShiftTypes DEF TypeOK
<1>3. Drained' = Append(Drained, Head(queue))
  BY <1>1, <1>2, AppendAsConcat
<1>4. accepted = delivered \o queue
  BY <1>1 DEF NothingLost
<1>5. Len(delivered) \in Nat /\ Len(queue) \in Nat \ {0} /\ Head(queue) = queue[1]
  BY <1>1, <1>2, EmptySeq, LenProperties
<1>6. /\ Len(Drained) < Len(accepted)
      /\ accepted[Len(Drained) + 1] = Head(queue)
  <2>1. Len(accepted) = Len(delivered) + Len(queue)
    BY <1>2, <1>4, ConcatProperties
  <2>2. \A i \in 1..Len(delivered) + Len(queue) :
          accepted[i] = IF i <= Len(delivered) THEN delivered[i] ELSE queue[i - Len(delivered)]
    BY <1>2, <1>4, ConcatProperties
  <2>3. Len(delivered) + 1 \in 1..Len(delivered) + Len(queue)
    BY <1>5
  <2>4. accepted[Len(delivered) + 1] = queue[Len(delivered) + 1 - Len(delivered)]
    BY <1>5, <2>2, <2>3
  <2>5. Len(delivered) + 1 - Len(delivered) = 1
    BY <1>5
  <2> QED BY <1>1, <1>5, <2>1, <2>4, <2>5
<1>7. Len(Drained) < demanded
  <2>1. Top.e \in Nat /\ Top.r \in Nat /\ Top.e <= Top.r /\ Top.r <= requested /\ Top.e # Top.r
    BY <1>1 DEF Frames, LoopLocals, DrainTake
  <2>2. Count + requested = demanded + Top.e
    BY <1>1, <1>2, <2>1 DEF Accounting
  <2> QED BY <1>1, <1>2, <1>5, <2>1, <2>2 DEF Count
<1>8. ~cancelled /\ outcome = "none"
  BY <1>1 DEF DrainTake, Ended, At
<1>9. UNCHANGED <<accepted, done, error, once, demanded, cancelled, outcome>>
  BY DEF DrainTake, history
<1> QED BY <1>3, <1>6, <1>7, <1>8, <1>9 DEF Abstract!Deliver, Abstract!Live

(* Each step is a step of the queue with demand, or none. *)
LEMMA StepImplements ==
  ASSUME Undefined = {}, ~CallbacksThrow, IInv, IInv', NothingLost, [Next]_vars
  PROVE  [Abstract!Next]_Abstract!vars
<1> USE DEF IInv
<1>1. ASSUME Drained' = Drained,
             UNCHANGED <<accepted, done, error, once, demanded, cancelled, outcome>>
      PROVE  UNCHANGED Abstract!vars
  BY <1>1 DEF Abstract!vars
<1>2. CASE Subscribe
  <2>1. Drained' = Drained
    BY <1>2, KeepStack, DrainedKept DEF Subscribe, history
  <2> QED BY <1>2, <2>1 DEF Subscribe, history, Abstract!Next, Abstract!Subscribe
<1>3. ASSUME NEW n \in 1..MaxDemand, Request(n)
      PROVE  Abstract!Ask
  <2>1. demanded' \in Nat /\ demanded' > demanded /\ requested' \in Nat
    BY <1>3, BoundsAssumption DEF Request, TypeOK
  <2>2. Drained' = Drained
    BY <1>3, <2>1, DrainedByCall DEF Request
  <2> QED BY <1>3, <2>1, <2>2 DEF Request, Abstract!Ask
<1>4. CASE Cancel
  <2>1. Drained' = Drained
    BY <1>4, KeepStack, DrainedKept DEF Cancel, history
  <2> QED BY <1>4, <2>1 DEF Cancel, history, Abstract!Next, Abstract!Cancel
<1>5. CASE OnNext
  <2>1. Drained' = Drained
    BY <1>5, DrainedByCall DEF OnNext, TypeOK
  <2>2. sent + 1 \in 1..MaxItems
    BY <1>5, BoundsAssumption DEF OnNext, MaySend, TypeOK
  <2>3. CASE HasRoom
    <3>1. Abstract!Offer(sent + 1)
      BY <1>5, <2>1, <2>3 DEF OnNext, MaySend, Abstract!Offer
    <3> QED BY <2>2, <3>1 DEF Abstract!Next
  <2>4. CASE ~HasRoom
    BY <1>1, <1>5, <2>1, <2>4 DEF OnNext
  <2> QED BY <2>3, <2>4
<1>6. CASE OnError
  <2>1. Drained' = Drained
    BY <1>6, DrainedByCall DEF OnError, TypeOK, history
  <2>2. Abstract!Close("error")
    BY <1>6, <2>1 DEF OnError, history, Abstract!Close
  <2> QED BY <2>2 DEF Abstract!Next
<1>7. CASE OnComplete
  <2>1. Drained' = Drained
    BY <1>7, DrainedByCall DEF OnComplete, TypeOK, history
  <2>2. \E how \in {"complete", "error"} : Abstract!Close(how)
    <3>1. Abstract!Close(IF error THEN "error" ELSE "complete")
      BY <1>7, <2>1 DEF OnComplete, history, Abstract!Close
    <3> QED BY <3>1
  <2> QED BY <2>2 DEF Abstract!Next
<1>8. CASE DrainTake
  BY <1>8, TakeIsDeliver DEF Abstract!Next
<1>9. CASE DrainTerminate
  <2>1. ~Idle /\ queue = <<>> /\ ~At("map") /\ ~DrainTake
    BY <1>9 DEF DrainTerminate, DrainTake, Exhausted, NoValue, At
  <2>2. Drained' = Drained
    BY <1>9, <2>1, DrainedStable DEF CallbackThrows
  <2>3. Drained = accepted
    <3>1. Drained \in Seq(Nat)
      BY DrainedType
    <3> QED BY <2>1, <3>1, ConcatEmptySeq DEF NothingLost
  <2>4. once /\ outcome = "none" /\ done /\ ~cancelled
    BY <1>9, <2>1 DEF DrainTerminate, Running, Unsubscribed, Ended, At
  <2>5. Abstract!Terminate
    BY <1>9, <2>2, <2>3, <2>4 DEF DrainTerminate, Abstract!Terminate, Abstract!Live
  <2> QED BY <2>5 DEF Abstract!Next
<1>10. CASE Map \/ OnSubscribe \/ UNCHANGED vars
  <2>1. stack' = stack /\ delivered' = delivered
    BY <1>10 DEF Map, OnSubscribe, vars, processor, history
  <2>2. Drained' = Drained
    BY <2>1, KeepStack, DrainedKept
  <2> QED BY <1>1, <1>10, <2>2 DEF Map, OnSubscribe, vars, processor, history
<1>11. CASE DrainCancelled \/ DrainEmit \/ DrainTail \/ NextReturns \/ EndReturns
  <2>1. UNCHANGED <<accepted, done, error, once, demanded, cancelled, outcome>>
    BY <1>11 DEF DrainCancelled, DrainEmit, DrainTail, NextReturns, EndReturns, history
  <2> QED BY <1>1, <1>8, <2>1, DrainedStable DEF CallbackThrows
<1> QED
  BY <1>2, <1>3, <1>4, <1>5, <1>6, <1>7, <1>8, <1>9, <1>10, <1>11
  DEF Next, Downstream, Upstream, DrainLoop, CallbackReturns, CallbackThrows, Abstract!Next

(* The processor implements the queue with demand: for all capacities and   *)
(* bounds, provided that callbacks return and no value is undefined.        *)
THEOREM ProcessorImplementsQueue ==
  ASSUME Undefined = {}, ~CallbacksThrow
  PROVE  Spec => Implements
<1>1. Init => Abstract!Init
  <2> SUFFICES ASSUME Init PROVE Abstract!Init
    OBVIOUS
  <2>1. InFlight = <<>> /\ delivered = <<>>
    BY DEF Init, InFlight, At, Idle
  <2>2. Drained = <<>>
    BY <2>1, ConcatEmptySeq, EmptySeq DEF Drained
  <2> QED BY <2>2 DEF Init, Abstract!Init
<1>2. IInv /\ IInv' /\ NothingLost /\ [Next]_vars => [Abstract!Next]_Abstract!vars
  BY StepImplements
<1> QED BY <1>1, <1>2, Invariance, NothingIsLost, PTL DEF Spec, Implements, Abstract!Spec

-----------------------------------------------------------------------------
(* Order, whatever is undefined and whatever throws: NothingLost does not   *)
(* hold then, but what is left is still in the order of the upstream.       *)

Below(s, n) == \A i \in 1..Len(s) : s[i] < n
Above(s, n) == \A i \in 1..Len(s) : n < s[i]
Ascending(s) == \A i, j \in 1..Len(s) : i < j => s[i] < s[j]

(* The serial numbers grow from the subscriber through the transformers and *)
(* the queue to the upstream.                                               *)
InvOrder ==
  /\ Ascending(delivered) /\ Below(delivered, sent + 1)
  /\ Ascending(queue) /\ Below(queue, sent + 1)
  /\ \A j \in 1..Len(queue) : Below(delivered, queue[j])
  /\ At("map") => Top.v <= sent /\ Below(delivered, Top.v) /\ Above(queue, Top.v)

(* The queue never holds more than was sent, so there is room for all that  *)
(* the one request asked for.                                               *)
InvRoom == Len(queue) <= sent /\ NothingDropped

(* The request is a number, whatever the capacity. *)
LEMMA RequestIsNat == UpstreamRequest \in Nat
BY ParametersAssumption, SMT DEF UpstreamRequest, MAX_REQUEST_N

(* A larger value at the end of an ascending sequence. *)
LEMMA AppendAscending ==
  ASSUME NEW s \in Seq(Nat), NEW n \in Nat, Ascending(s), Below(s, n)
  PROVE  /\ Ascending(Append(s, n))
         /\ \A m \in Nat : n < m => Below(Append(s, n), m)
<1> DEFINE t == Append(s, n)
<1>1. /\ Len(s) \in Nat /\ Len(t) = Len(s) + 1 /\ t[Len(s) + 1] = n
      /\ \A i \in 1..Len(s) : t[i] = s[i] /\ s[i] \in Nat
  BY AppendProperties, LenProperties, ElementOfSeq
<1> HIDE DEF t
<1>2. \A i \in 1..Len(t) : i \in 1..Len(s) \/ i = Len(s) + 1
  BY <1>1
<1>3. Ascending(t)
  <2> SUFFICES ASSUME NEW i \in 1..Len(t), NEW j \in 1..Len(t), i < j
               PROVE  t[i] < t[j]
    BY DEF Ascending
  <2>1. i \in 1..Len(s)
    BY <1>1
  <2> QED BY <1>1, <1>2, <2>1 DEF Ascending, Below
<1>4. ASSUME NEW m \in Nat, n < m PROVE Below(t, m)
  BY <1>1, <1>2, <1>4 DEF Below
<1> QED BY <1>3, <1>4 DEF t

(* The values of a tail are those of the queue, one place on. *)
LEMMA TailPlaces ==
  ASSUME NEW q \in Seq(Nat), q # <<>>
  PROVE  /\ Len(q) \in Nat \ {0} /\ Head(q) = q[1]
         /\ Len(Tail(q)) = Len(q) - 1
         /\ \A i \in 1..Len(Tail(q)) : i + 1 \in 1..Len(q) /\ Tail(q)[i] = q[i + 1]
BY HeadTailProperties, EmptySeq, LenProperties

(* A queue that has lost its head is as ascending as it was. *)
LEMMA TailAscending ==
  ASSUME NEW q \in Seq(Nat), q # <<>>, Ascending(q)
  PROVE  Ascending(Tail(q)) /\ Above(Tail(q), Head(q))
<1>1. 1 \in 1..Len(q)
  BY TailPlaces
<1> QED BY <1>1, TailPlaces DEF Ascending, Above

(* Steps that take from the queue, or nothing, and bring nothing. *)
LEMMA OrderKept ==
  ASSUME TypeOK, InvOrder, InvRoom,
         UNCHANGED <<delivered, sent, accepted>>,
         queue' \in {queue, Shift, <<>>},
         At("map")' => At("map") /\ Top' = Top /\ queue' \in {queue, <<>>}
  PROVE  InvOrder' /\ InvRoom'
<1>1. queue \in Seq(Nat) /\ sent \in Nat /\ Len(queue) \in Nat
  BY LenProperties DEF TypeOK
<1>2. CASE queue' = queue
  BY <1>2 DEF InvOrder, InvRoom, NothingDropped
<1>3. CASE queue' = <<>>
  <2>1. Len(queue') = 0
    BY <1>3
  <2> QED BY <1>1, <2>1 DEF InvOrder, InvRoom, NothingDropped, Ascending, Below, Above
<1>4. CASE queue # <<>> /\ queue' = Tail(queue) /\ ~At("map")'
  <2>1. /\ Len(queue') = Len(queue) - 1
        /\ \A i \in 1..Len(queue') : i + 1 \in 1..Len(queue) /\ queue'[i] = queue[i + 1]
    BY <1>1, <1>4, TailPlaces
  <2>2. Ascending(queue')
    BY <1>1, <1>4, TailAscending DEF InvOrder
  <2>3. Below(queue', sent + 1) /\ \A j \in 1..Len(queue') : Below(delivered, queue'[j])
    BY <2>1 DEF InvOrder, Below
  <2>4. InvOrder'
    BY <1>4, <2>2, <2>3 DEF InvOrder
  <2>5. InvRoom'
    BY <1>1, <2>1 DEF InvRoom, NothingDropped
  <2> QED BY <2>4, <2>5
<1> QED BY <1>2, <1>3, <1>4 DEF Shift

(* A value that comes in is larger than all that came before it. *)
LEMMA OrderOnNext ==
  ASSUME IInv, InvOrder, InvRoom, OnNext
  PROVE  InvOrder' /\ InvRoom'
<1> USE DEF IInv
<1>1. /\ queue \in Seq(Nat) /\ accepted \in Seq(Nat) /\ delivered \in Seq(Nat)
      /\ sent \in Nat /\ sent' = sent + 1 /\ sent' \in Nat
      /\ Len(queue) \in Nat /\ Len(accepted) \in Nat /\ Len(delivered) \in Nat
      /\ \A i \in 1..Len(queue) : queue[i] \in Nat
      /\ \A i \in 1..Len(delivered) : delivered[i] \in Nat
  BY LenProperties, ElementOfSeq DEF TypeOK, OnNext
<1>2. At("map")' => At("map") /\ Top' = Top /\ Top.v \in Nat
  <2>1. Drain(requested) /\ requested \in Nat
    BY DEF OnNext, TypeOK
  <2>2. CASE Kept
    <3>1. At("map") => Top.v \in Nat
      BY OneActivation DEF At, Frames
    <3> QED BY <2>2, <3>1 DEF Kept, At
  <2>3. CASE Left(Frame(requested))
    BY <2>3 DEF Left, At, Frame
  <2> QED BY <2>1, <2>2, <2>3, DrainCall
<1>3. Ascending(delivered') /\ Below(delivered', sent' + 1)
  BY <1>1 DEF InvOrder, OnNext, Below
<1>4. CASE HasRoom
  <2>1. /\ queue' = Append(queue, sent') /\ accepted' = Append(accepted, sent')
        /\ delivered' = delivered
    BY <1>4 DEF OnNext
  <2>2. /\ Len(queue') = Len(queue) + 1 /\ Len(accepted') = Len(accepted) + 1
        /\ queue'[Len(queue) + 1] = sent'
        /\ \A i \in 1..Len(queue) : queue'[i] = queue[i]
    BY <1>1, <2>1, AppendProperties
  <2>3. Ascending(queue') /\ Below(queue', sent' + 1)
    BY <1>1, <2>1, AppendAscending DEF InvOrder
  <2>4. \A j \in 1..Len(queue') : j \in 1..Len(queue) \/ j = Len(queue) + 1
    BY <1>1, <2>2
  <2>5. \A j \in 1..Len(queue') : Below(delivered', queue'[j])
    BY <1>1, <2>1, <2>2, <2>4 DEF InvOrder
  <2>6. At("map")' => Top'.v <= sent' /\ Below(delivered', Top'.v) /\ Above(queue', Top'.v)
    <3> SUFFICES ASSUME At("map")'
                 PROVE  Top'.v <= sent' /\ Below(delivered', Top'.v) /\ Above(queue', Top'.v)
      OBVIOUS
    <3>1. /\ Top'.v = Top.v /\ Top.v \in Nat /\ Top.v <= sent
          /\ Below(delivered, Top.v) /\ Above(queue, Top.v)
      BY <1>2 DEF InvOrder
    <3>2. Above(queue', Top.v) /\ Below(delivered', Top.v)
      BY <1>1, <2>1, <2>2, <2>4, <3>1 DEF Above
    <3>3. Top.v <= sent'
      BY <1>1, <3>1
    <3> QED BY <3>1, <3>2, <3>3, Zenon
  <2>7. InvOrder'
    BY <1>3, <2>3, <2>5, <2>6 DEF InvOrder
  <2>8. InvRoom'
    BY <1>1, <2>2, RequestIsNat DEF InvRoom, NothingDropped
  <2> QED BY <2>7, <2>8
<1>5. CASE ~HasRoom
  <2>1. UNCHANGED <<queue, accepted, delivered>>
    BY <1>5 DEF OnNext
  <2>2. At("map")' => Top'.v <= sent' /\ Below(delivered', Top'.v) /\ Above(queue', Top'.v)
    BY <1>1, <1>2, <2>1 DEF InvOrder
  <2>3. Below(queue', sent' + 1)
    BY <1>1, <2>1 DEF InvOrder, Below
  <2>4. InvOrder'
    BY <1>3, <2>1, <2>2, <2>3 DEF InvOrder
  <2>5. ~(sent' <= UpstreamRequest)
    <3>1. Capacity # 0 /\ Len(queue) >= Capacity /\ UpstreamRequest = Capacity
      BY <1>1, <1>5, ParametersAssumption DEF HasRoom, UpstreamRequest
    <3> QED BY <1>1, <3>1, ParametersAssumption DEF InvRoom
  <2>6. InvRoom'
    BY <1>1, <2>1, <2>5 DEF InvRoom, NothingDropped
  <2> QED BY <2>4, <2>6
<1> QED BY <1>4, <1>5

(* The head of the queue is the next in order. *)
LEMMA OrderTake ==
  ASSUME IInv, InvOrder, InvRoom, DrainTake
  PROVE  InvOrder' /\ InvRoom'
<1> USE DEF IInv
<1> DEFINE f == [Top EXCEPT !.pc = "map", !.v = Head(queue)]
<1>1. /\ queue # <<>> /\ queue \in Seq(Nat) /\ sent \in Nat /\ Len(queue) \in Nat
      /\ ~Idle /\ Top \in Frames
      /\ queue' = Tail(queue) /\ UNCHANGED <<delivered, sent, accepted>>
  BY OneActivation, LenProperties DEF DrainTake, NoValue, TypeOK, Shift, At, history
<1>2. f \in Frames /\ f.v = Head(queue)
  BY <1>1, HeadThenTail DEF Frames
<1>3. Top' = f
  BY <1>1, <1>2, ReplaceStack DEF DrainTake, Left
<1> HIDE DEF f
<1>4. Ascending(queue') /\ Above(queue', Head(queue))
  BY <1>1, TailAscending DEF InvOrder
<1>5. /\ Len(queue') = Len(queue) - 1 /\ 1 \in 1..Len(queue) /\ Head(queue) = queue[1]
      /\ \A i \in 1..Len(queue') : i + 1 \in 1..Len(queue) /\ queue'[i] = queue[i + 1]
  BY <1>1, TailPlaces
<1>6. Below(queue', sent' + 1) /\ \A j \in 1..Len(queue') : Below(delivered', queue'[j])
  BY <1>1, <1>5 DEF InvOrder, Below
<1>7. Head(queue) <= sent /\ Below(delivered, Head(queue))
  <2>1. Head(queue) \in Nat /\ Head(queue) < sent + 1
    BY <1>1, <1>5, HeadThenTail DEF InvOrder, Below
  <2> QED BY <1>1, <1>5, <2>1 DEF InvOrder
<1>8. InvOrder'
  BY <1>1, <1>2, <1>3, <1>4, <1>6, <1>7 DEF InvOrder
<1>9. InvRoom'
  BY <1>1, <1>5 DEF InvRoom, NothingDropped
<1> QED BY <1>8, <1>9

(* The value in the transformers is larger than all that was delivered. *)
LEMMA OrderEmit ==
  ASSUME IInv, InvOrder, InvRoom, DrainEmit
  PROVE  InvOrder' /\ InvRoom'
<1> USE DEF IInv
<1> DEFINE f == [Top EXCEPT !.pc = "next"]
<1>1. /\ ~Idle /\ Top \in Frames /\ Top.v \in Nat /\ delivered \in Seq(Nat)
      /\ queue \in Seq(Nat) /\ sent \in Nat /\ At("map")
      /\ \A j \in 1..Len(queue) : queue[j] \in Nat
      /\ delivered' = Append(delivered, Top.v) /\ UNCHANGED <<queue, sent, accepted>>
  BY OneActivation, ElementOfSeq DEF DrainEmit, TypeOK, At, Frames
<1>2. f \in Frames /\ f.pc = "next"
  BY <1>1 DEF Frames
<1>3. ~At("map")'
  BY <1>1, <1>2, ReplaceStack DEF DrainEmit, Left, At
<1> HIDE DEF f
<1>4. Top.v < sent + 1 /\ Ascending(delivered) /\ Below(delivered, Top.v) /\ Above(queue, Top.v)
  BY <1>1 DEF InvOrder
<1>5. Ascending(delivered') /\ \A m \in Nat : Top.v < m => Below(delivered', m)
  BY <1>1, <1>4, AppendAscending
<1>6. Below(delivered', sent + 1) /\ \A j \in 1..Len(queue) : Below(delivered', queue[j])
  BY <1>1, <1>4, <1>5 DEF Above
<1>7. InvOrder'
  BY <1>1, <1>3, <1>5, <1>6 DEF InvOrder
<1>8. InvRoom'
  BY <1>1 DEF InvRoom, NothingDropped
<1> QED BY <1>7, <1>8

(* Every step keeps the order. *)
LEMMA OrderStep ==
  ASSUME IInv, InvOrder, InvRoom, [Next]_vars
  PROVE  InvOrder' /\ InvRoom'
<1> USE DEF IInv
<1>1. ASSUME NEW r \in Nat, Drain(r)
      PROVE  At("map")' => At("map") /\ Top' = Top
  <2>1. CASE Kept
    BY <2>1 DEF Kept, At
  <2>2. CASE Left(Frame(r))
    BY <2>2 DEF Left, At, Frame
  <2> QED BY <1>1, <2>1, <2>2, DrainCall
<1>2. ASSUME NEW n \in 1..MaxDemand, Request(n)
      PROVE  InvOrder' /\ InvRoom'
  <2>1. requested' \in Nat
    BY <1>2, BoundsAssumption DEF Request, TypeOK
  <2> QED BY <1>1, <1>2, <2>1, OrderKept DEF Request
<1>3. CASE OnError \/ OnComplete
  <2>1. requested \in Nat /\ Drain(requested) /\ UNCHANGED <<delivered, sent, accepted, queue>>
    BY <1>3 DEF OnError, OnComplete, TypeOK, history
  <2> QED BY <1>1, <2>1, OrderKept
<1>4. CASE Subscribe \/ Cancel \/ Map \/ OnSubscribe \/ UNCHANGED vars
  <2>1. stack' = stack /\ UNCHANGED <<delivered, sent, accepted>> /\ queue' \in {queue, <<>>}
    BY <1>4 DEF Subscribe, Cancel, Map, OnSubscribe, vars, processor, history
  <2>2. Kept
    BY <2>1, KeepStack
  <2> QED BY <2>1, <2>2, OrderKept DEF Kept, At
<1>5. CASE DrainCancelled \/ EndReturns \/ CallbackThrows
  <2>1. ~Idle /\ stack' = Pop /\ UNCHANGED <<delivered, sent, accepted>> /\ queue' \in {queue, <<>>}
    BY <1>5 DEF DrainCancelled, EndReturns, CallbackThrows, At, history
  <2>2. ~At("map")'
    BY <2>1, PopStack DEF Popped, At
  <2> QED BY <2>1, <2>2, OrderKept
<1>6. CASE DrainTerminate \/ NextReturns
  <2>1. /\ ~Idle /\ Top \in Frames
        /\ UNCHANGED <<delivered, sent, accepted>> /\ queue' \in {queue, Shift}
    BY <1>6, OneActivation DEF DrainTerminate, NextReturns, At, history
  <2>2. PICK f \in Frames : f.pc # "map" /\ stack' = Replace(f)
    <3>1. CASE DrainTerminate
      <4>1. [Top EXCEPT !.pc = "end"] \in Frames /\ [Top EXCEPT !.pc = "end"].pc = "end"
        BY <2>1 DEF Frames
      <4> QED BY <3>1, <4>1 DEF DrainTerminate
    <3>2. CASE NextReturns
      <4>1. Top.e + 1 \in Nat
        BY <2>1 DEF Frames
      <4>2. /\ [Top EXCEPT !.pc = "while", !.e = Top.e + 1] \in Frames
            /\ [Top EXCEPT !.pc = "while", !.e = Top.e + 1].pc = "while"
        BY <2>1, <4>1 DEF Frames
      <4> QED BY <3>2, <4>2 DEF NextReturns
    <3> QED BY <1>6, <3>1, <3>2
  <2>3. ~At("map")'
    BY <2>1, <2>2, ReplaceStack DEF Left, At
  <2> QED BY <2>1, <2>3, OrderKept
<1>7. CASE DrainTail
  <2>1. ~Idle /\ UNCHANGED <<delivered, sent, accepted>> /\ queue' \in {queue, Shift}
    BY <1>7 DEF DrainTail, At, history
  <2>2. ~At("map")'
    <3>1. CASE wip = 1
      BY <1>7, <2>1, <3>1, PopStack DEF DrainTail, Popped, At
    <3>2. CASE wip # 1
      <4>1. Frame(requested') \in Frames
        BY <1>7, NextInvariant DEF Frame, Frames, TypeOK
      <4> QED BY <1>7, <2>1, <3>2, <4>1, ReplaceStack DEF DrainTail, Left, At, Frame
    <3> QED BY <3>1, <3>2
  <2> QED BY <2>1, <2>2, OrderKept
<1> QED
  BY <1>2, <1>3, <1>4, <1>5, <1>6, <1>7, OrderOnNext, OrderTake, OrderEmit
  DEF Next, Downstream, Upstream, DrainLoop, CallbackReturns

(* Values reach the subscriber in the order the upstream sent them, each    *)
(* once, and none of those that the upstream was asked for is refused by    *)
(* the capacity: for every capacity, with or without exceptions.            *)
THEOREM OrderIsKept == Spec => []InOrderUndropped
<1>1. Init => InvOrder /\ InvRoom
  BY DEF Init, InvOrder, InvRoom, NothingDropped, Ascending, Below, Above, At, Idle
<1>2. IInv /\ InvOrder /\ InvRoom /\ [Next]_vars => InvOrder' /\ InvRoom'
  BY OrderStep
<1>3. InvOrder /\ InvRoom => InOrderUndropped
  BY DEF InvOrder, InvRoom, InOrderUndropped, InOrder, Ascending
<1> QED BY <1>1, <1>2, <1>3, Invariance, PTL DEF Spec
=============================================================================
