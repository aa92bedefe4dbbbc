------------------------ MODULE MetricsExporter_proofs ------------------------
(***************************************************************************)
(* Proofs about the metrics exporter, for any number of channels and any   *)
(* nesting of start(), stop() and restart(): that its timer is sound, with *)
(* every remote, and that the last word counts, with a remote that         *)
(* subscribes inside start().                                              *)
(***************************************************************************)
EXTENDS MCMetricsExporter, SequenceTheorems, FiniteSetTheorems, TLAPS

Activations == [at : Places, of : 0..MaxStarts, out : BOOLEAN, restart : BOOLEAN]

(* Some stop() is in progress, and will clear the timer. *)
Stopping == \E i \in 1..Len(stack) : stack[i].at # "start"

-----------------------------------------------------------------------------
(* The inductive invariant for every remote. *)

(* Restarts in progress have their channels reserved. *)
Reserved == starts + Restarts <= MaxStarts

(* The exporter counts the requests of a stream as its wrapper does. *)
Counted ==
  \A c \in Channels :
    /\ ~stream[c].started => ~stream[c].active /\ pending[c] = 0
    /\ c \notin asked => ~stream[c].started
    /\ stream[c].active => stream[c].pending = pending[c]
    /\ pending[c] + emitted[c] <= MaxDemand

(* A timer whose stream is gone runs only until the stop() in progress      *)
(* clears it.                                                               *)
Listening ==
  \A c \in timers : Stopping \/ (stream[c].active /\ remoteSubscriber = c)

IInv == TypeOK /\ Reserved /\ OneTimer /\ Counted /\ Listening

-----------------------------------------------------------------------------
(* The stack and the restarts on it. *)

Pushed(f) ==
  /\ stack' \in Seq(Activations)
  /\ Len(stack') = Len(stack) + 1
  /\ \A i \in 1..Len(stack) : stack'[i] = stack[i]
  /\ stack'[Len(stack) + 1] = f

Popped ==
  /\ stack' \in Seq(Activations)
  /\ Len(stack') = Len(stack) - 1
  /\ \A i \in 1..Len(stack) - 1 : stack'[i] = stack[i]

Replaced(f) ==
  /\ stack' \in Seq(Activations)
  /\ Len(stack') = Len(stack)
  /\ \A i \in 1..Len(stack) - 1 : stack'[i] = stack[i]
  /\ stack'[Len(stack)] = f

LEMMA StackTop ==
  ASSUME stack \in Seq(Activations), ~Idle
  PROVE  /\ Len(stack) \in Nat \ {0} /\ Top \in Activations
         /\ Pop \in Seq(Activations) /\ Len(Pop) = Len(stack) - 1
         /\ \A i \in 1..Len(stack) - 1 : Pop[i] = stack[i]
<1>1. Len(stack) \in Nat \ {0}
  BY EmptySeq, LenProperties DEF Idle
<1>2. stack[Len(stack)] \in Activations
  BY <1>1, ElementOfSeq
<1>3. /\ Pop \in Seq(Activations) /\ Len(Pop) = Len(stack) - 1
      /\ \A i \in 1..Len(stack) - 1 : Pop[i] = stack[i]
  <2>1. Len(stack) - 1 \in Int /\ 1 \in Int /\ \A i \in 1 .. Len(stack) - 1 : stack[i] \in Activations
    BY <1>1, ElementOfSeq
  <2>2. /\ Pop \in Seq(Activations)
        /\ Len(Pop) = IF 1 <= Len(stack) - 1 THEN Len(stack) - 1 - 1 + 1 ELSE 0
        /\ \A i \in 1 .. Len(stack) - 1 - 1 + 1 : Pop[i] = stack[1 + i - 1]
    BY <2>1, SubSeqProperties DEF Pop
  <2>3. Len(Pop) = Len(stack) - 1
    <3> HIDE DEF Pop
    <3>1. \A k, l \in Nat : k # 0 /\ l = (IF 1 <= k - 1 THEN k - 1 - 1 + 1 ELSE 0) => l = k - 1
      OBVIOUS
    <3>2. Len(Pop) \in Nat
      BY <2>2, LenProperties
    <3> QED BY <1>1, <2>2, <3>1, <3>2, Zenon
  <2>4. ASSUME NEW i \in 1 .. Len(stack) - 1 PROVE Pop[i] = stack[i]
    <3>1. i \in 1 .. Len(stack) - 1 - 1 + 1 /\ 1 + i - 1 = i
      BY <1>1
    <3> QED BY <2>2, <3>1
  <2> QED BY <2>2, <2>3, <2>4
<1> QED BY <1>1, <1>2, <1>3 DEF Top

LEMMA Push ==
  ASSUME stack \in Seq(Activations), NEW f \in Activations, stack' = Append(stack, f)
  PROVE  Pushed(f)
BY AppendProperties DEF Pushed

LEMMA Return ==
  ASSUME stack \in Seq(Activations), ~Idle, stack' = Pop
  PROVE  Popped
BY StackTop DEF Popped

LEMMA Replace ==
  ASSUME stack \in Seq(Activations), ~Idle, NEW f \in Activations, stack' = Append(Pop, f)
  PROVE  Replaced(f)
<1>1. /\ Len(stack) \in Nat \ {0} /\ Pop \in Seq(Activations) /\ Len(Pop) = Len(stack) - 1
      /\ \A i \in 1..Len(stack) - 1 : Pop[i] = stack[i]
  BY StackTop
<1>2. /\ stack' \in Seq(Activations) /\ Len(stack') = Len(Pop) + 1
      /\ \A i \in 1..Len(Pop) : stack'[i] = Pop[i]
      /\ stack'[Len(Pop) + 1] = f
  BY <1>1, AppendProperties
<1> QED BY <1>1, <1>2 DEF Replaced

(* Which activations restart. *)
RestartsAt == {i \in 1..Len(stack) : stack[i].restart}

LEMMA RestartsCounted ==
  ASSUME stack \in Seq(Activations)
  PROVE  Restarts = Cardinality(RestartsAt) /\ IsFiniteSet(RestartsAt) /\ Restarts \in Nat
<1>1. IsFiniteSet(1..Len(stack))
  BY FS_Interval, LenProperties
<1>2. IsFiniteSet(RestartsAt)
  BY <1>1, FS_Subset DEF RestartsAt
<1>3. Restarts = Cardinality(RestartsAt)
  BY DEF Restarts, RestartsAt
<1> QED BY <1>2, <1>3, FS_CardinalityType

LEMMA RestartsPushed ==
  ASSUME stack \in Seq(Activations), NEW f \in Activations, Pushed(f)
  PROVE  Restarts' = IF f.restart THEN Restarts + 1 ELSE Restarts
<1>1. Len(stack) \in Nat /\ stack' \in Seq(Activations)
  BY LenProperties DEF Pushed
<1>2. RestartsAt' = IF f.restart THEN RestartsAt \cup {Len(stack) + 1} ELSE RestartsAt
  BY <1>1 DEF Pushed, RestartsAt
<1>3. Len(stack) + 1 \notin RestartsAt
  BY <1>1 DEF RestartsAt
<1>4. Restarts' = Cardinality(RestartsAt')
  BY <1>1 DEF Restarts, RestartsAt
<1> QED BY <1>2, <1>3, <1>4, RestartsCounted, FS_AddElement

LEMMA RestartsPopped ==
  ASSUME stack \in Seq(Activations), ~Idle, Popped
  PROVE  Restarts' = IF Top.restart THEN Restarts - 1 ELSE Restarts
<1>1. Len(stack) \in Nat \ {0} /\ stack' \in Seq(Activations)
  BY StackTop DEF Popped
<1>2. RestartsAt' = RestartsAt \ {Len(stack)}
  BY <1>1 DEF Popped, RestartsAt
<1>3. Len(stack) \in RestartsAt <=> Top.restart
  BY <1>1 DEF RestartsAt, Top
<1>4. Restarts' = Cardinality(RestartsAt')
  BY <1>1 DEF Restarts, RestartsAt
<1>5. Cardinality(RestartsAt \ {Len(stack)}) =
        IF Len(stack) \in RestartsAt THEN Cardinality(RestartsAt) - 1 ELSE Cardinality(RestartsAt)
  BY RestartsCounted, FS_RemoveElement
<1> QED BY <1>2, <1>3, <1>4, <1>5, RestartsCounted

LEMMA RestartsReplaced ==
  ASSUME stack \in Seq(Activations), ~Idle, NEW f \in Activations, Replaced(f)
  PROVE  /\ (f.restart <=> Top.restart) => Restarts' = Restarts
         /\ Top.restart /\ ~f.restart => Restarts' = Restarts - 1
<1>1. Len(stack) \in Nat \ {0} /\ stack' \in Seq(Activations)
  BY StackTop DEF Replaced
<1>2. Restarts' = Cardinality(RestartsAt')
  BY <1>1 DEF Restarts, RestartsAt
<1>3. (f.restart <=> Top.restart) => RestartsAt' = RestartsAt
  BY <1>1 DEF Replaced, RestartsAt, Top
<1>4. ASSUME Top.restart, ~f.restart
      PROVE  RestartsAt' = RestartsAt \ {Len(stack)} /\ Len(stack) \in RestartsAt
  BY <1>1, <1>4 DEF Replaced, RestartsAt, Top
<1>5. ASSUME Top.restart, ~f.restart
      PROVE  Restarts' = Restarts - 1
  BY <1>2, <1>4, <1>5, RestartsCounted, FS_RemoveElement
<1> QED BY <1>2, <1>3, <1>5, RestartsCounted

LEMMA StoppingPushed ==
  ASSUME stack \in Seq(Activations), NEW f \in Activations, Pushed(f)
  PROVE  Stopping' <=> Stopping \/ f.at # "start"
BY LenProperties DEF Pushed, Stopping

LEMMA StoppingPopped ==
  ASSUME stack \in Seq(Activations), ~Idle, Popped, Top.at = "start"
  PROVE  Stopping' <=> Stopping
BY StackTop DEF Popped, Stopping, Top

LEMMA StoppingReplaced ==
  ASSUME stack \in Seq(Activations), ~Idle, NEW f \in Activations, Replaced(f), f.at # "start"
  PROVE  Stopping'
BY StackTop DEF Replaced, Stopping

-----------------------------------------------------------------------------
(* What happens to a wrapper. *)

LEMMA GuardClosed ==
  ASSUME NEW g \in Guards
  PROVE  /\ Closed(g) \in Guards /\ ~Closed(g).active
         /\ Closed(g).started = g.started /\ Closed(g).pending = g.pending
BY DEF Closed, Guards

LEMMA GuardStarted ==
  ASSUME NEW g \in Guards, ~g.started
  PROVE  /\ Started(g) \in Guards /\ Started(g).started /\ Started(g).active
         /\ Started(g).pending = 0
BY DEF Started, Guards

LEMMA GuardAsked ==
  ASSUME NEW g \in Guards, NEW n \in Nat
  PROVE  /\ Asked(g, n) \in Guards /\ Asked(g, n).started = g.started
         /\ Asked(g, n).active = g.active
         /\ g.active /\ n # MAX_REQUEST_N /\ g.pending # MAX_REQUEST_N =>
              Asked(g, n).pending = g.pending + n
<1>1. MAX_REQUEST_N \in Nat
  BY DEF MAX_REQUEST_N
<1> QED BY <1>1 DEF Asked, Guards

LEMMA GuardTookNext ==
  ASSUME NEW g \in Guards, PassesNext(g)
  PROVE  /\ TookNext(g) \in Guards /\ TookNext(g).started = g.started
         /\ TookNext(g).active = g.active
         /\ g.pending # MAX_REQUEST_N => TookNext(g).pending = g.pending - 1
<1>1. g.pending \in Nat /\ g.pending > 0
  BY DEF PassesNext, Guards
<1>2. g.pending - 1 \in Nat
  BY <1>1
<1> QED BY <1>2 DEF TookNext, Guards

-----------------------------------------------------------------------------
(* The timer is sound. *)

Types ==
  /\ intervalHandle \in 0..MaxStarts /\ remoteSubscriber \in 0..MaxStarts
  /\ remoteCancel \in 0..MaxStarts /\ starts \in 0..MaxStarts
  /\ open \subseteq Channels /\ asked \subseteq Channels /\ timers \subseteq Channels
  /\ stream \in [Channels -> Guards]
  /\ pending \in [Channels -> Nat] /\ emitted \in [Channels -> Nat]
  /\ stack \in Seq(Activations)
  /\ wanted \in BOOLEAN /\ broken \in BOOLEAN
LEMMA TypeParts == (TypeOK <=> Types) /\ (TypeOK' <=> Types')
BY Zenon DEF TypeOK, Types, Activations

LEMMA TypeOfStack ==
  ASSUME TypeOK
  PROVE  stack \in Seq(Activations)
BY TypeParts DEF Types

LEMMA InitIInv == Init => IInv
<1> SUFFICES ASSUME Init PROVE IInv
  OBVIOUS
<1>1. Len(stack) = 0 /\ stack \in Seq(Activations)
  BY EmptySeq DEF Init
<1>2. NewGuard \in Guards
  BY DEF NewGuard, Guards
<1>3. TypeOK
  <2>1. 0 \in 0..MaxStarts /\ 0 \in Nat
    BY ConstantsAssumption
  <2> QED BY <1>1, <1>2, <2>1, TypeParts DEF Init, Types
<1>4. RestartsAt = {}
  BY <1>1 DEF RestartsAt
<1>5. Restarts = 0
  BY <1>1, <1>4, RestartsCounted, FS_EmptySet
<1> QED
  BY <1>3, <1>5, ConstantsAssumption
  DEF Init, IInv, Reserved, OneTimer, Counted, Listening, NewGuard

(* start(), with its channel reserved, when no timer runs. *)
LEMMA OpenIInv ==
  ASSUME IInv, NEW c \in 1..MaxStarts, starts' = c, timers' = {}, intervalHandle' = 0,
         remoteSubscriber' \in 0..MaxStarts, remoteCancel' = c,
         open' = open \cup {c}, stack' \in Seq(Activations), c + Restarts' <= MaxStarts,
         wanted' \in BOOLEAN, UNCHANGED <<asked, stream, pending, emitted, broken>>
  PROVE  IInv'
<1> USE DEF IInv
<1>1. TypeOK'
  <2>1. c \in 0..MaxStarts /\ c \in Channels /\ 0 \in 0..MaxStarts
    BY ConstantsAssumption DEF Channels
  <2> QED BY <2>1, TypeParts, Zenon DEF Types
<1>2. Counted'
  BY DEF Counted
<1> QED BY <1>1, <1>2 DEF Reserved, OneTimer, Listening

LEMMA StartIInv ==
  ASSUME IInv, Start
  PROVE  IInv'
<1> DEFINE f == [at |-> "start", of |-> starts + 1, out |-> TRUE, restart |-> FALSE]
<1>1. starts \in 0..MaxStarts /\ MaxStarts \in Nat /\ timers = {} /\ remoteSubscriber \in 0..MaxStarts
      /\ stack \in Seq(Activations) /\ stack = <<>>
  BY ConstantsAssumption, TypeOfStack DEF IInv, TypeOK, OneTimer, Start, Idle
<1>2. starts + 1 \in 1..MaxStarts
  BY <1>1 DEF Start
<1>3. f \in Activations
  BY <1>1, <1>2 DEF Activations, Places
<1>4. Pushed(f)
  BY <1>1, <1>3, Push DEF Start, Open
<1>5. RestartsAt = {}
  BY <1>1, EmptySeq DEF RestartsAt
<1>6. Restarts = 0
  BY <1>1, <1>5, RestartsCounted, FS_EmptySet
<1>7. Restarts' = 0
  BY <1>1, <1>3, <1>4, <1>6, RestartsPushed
<1>8. stack' \in Seq(Activations)
  BY <1>4 DEF Pushed
<1>9. /\ starts' = starts + 1 /\ open' = open \cup {starts + 1} /\ remoteCancel' = starts + 1
      /\ intervalHandle' = 0 /\ timers' = {} /\ remoteSubscriber' \in 0..MaxStarts
      /\ wanted' \in BOOLEAN /\ UNCHANGED <<asked, stream, pending, emitted, broken>>
  BY <1>1 DEF Start, Open
<1>10. starts + 1 + Restarts' <= MaxStarts
  BY <1>1, <1>2, <1>7
<1> QED BY <1>2, <1>8, <1>9, <1>10, OpenIInv

LEMMA RestartIInv ==
  ASSUME IInv, Restart
  PROVE  IInv'
<1> DEFINE f == [at |-> "start", of |-> starts + 1, out |-> TRUE, restart |-> FALSE]
<1>1. /\ starts \in 0..MaxStarts /\ MaxStarts \in Nat /\ timers' = {} /\ intervalHandle' = 0
      /\ remoteSubscriber' = 0 /\ stack \in Seq(Activations) /\ ~Idle /\ Top.restart
      /\ starts + Restarts <= MaxStarts
  BY ConstantsAssumption, TypeOfStack
  DEF IInv, TypeOK, OneTimer, Reserved, Restart, Cleared, At
<1>2. Len(stack) \in Nat \ {0} /\ Restarts \in Nat /\ Len(stack) \in RestartsAt
  BY <1>1, StackTop, RestartsCounted DEF RestartsAt, Top
<1>3. Restarts # 0
  BY <1>1, <1>2, RestartsCounted, FS_EmptySet
<1>4. starts + 1 \in 1..MaxStarts
  BY <1>1, <1>2, <1>3
<1>5. f \in Activations /\ ~f.restart
  BY <1>1, <1>4 DEF Activations, Places
<1>6. Replaced(f)
  BY <1>1, <1>5, Replace DEF Restart, Open
<1>7. Restarts' = Restarts - 1
  BY <1>1, <1>5, <1>6, RestartsReplaced
<1>8. stack' \in Seq(Activations) /\ starts + 1 + Restarts' <= MaxStarts
  BY <1>1, <1>2, <1>6, <1>7 DEF Replaced
<1>9. wanted' \in BOOLEAN
  BY DEF IInv, TypeOK, Restart
<1>10. /\ starts' = starts + 1 /\ open' = open \cup {starts + 1} /\ remoteCancel' = starts + 1
       /\ remoteSubscriber' \in 0..MaxStarts /\ UNCHANGED <<asked, stream, pending, emitted, broken>>
  BY <1>1 DEF Restart, Open
<1> QED BY <1>1, <1>4, <1>8, <1>9, <1>10, OpenIInv

(* stop(), up to remoteCancel(). *)
LEMMA CloseEffect ==
  ASSUME TypeOK, NEW o \in SUBSET Channels, NEW r \in BOOLEAN, Close(o, r)
  PROVE  /\ Stopping' /\ stack' \in Seq(Activations) /\ open' \in SUBSET o
         /\ Restarts' = IF r THEN Restarts + 1 ELSE Restarts
<1> DEFINE f == [at |-> "cancel", of |-> 0, out |-> remoteCancel \in o, restart |-> r]
<1>1. stack \in Seq(Activations)
  BY TypeOfStack
<1>2. 0 \in 0..MaxStarts
  BY ConstantsAssumption
<1>3. f \in Activations /\ f.restart = r /\ f.at # "start"
  BY <1>2 DEF Activations, Places
<1>4. stack' = Append(stack, f) /\ open' \in SUBSET o
  BY DEF Close
<1> HIDE DEF f
<1>5. Pushed(f)
  BY <1>1, <1>3, <1>4, Push
<1>6. Restarts' = IF f.restart THEN Restarts + 1 ELSE Restarts
  BY <1>1, <1>3, <1>5, RestartsPushed
<1>7. Stopping'
  BY <1>1, <1>3, <1>5, StoppingPushed
<1> QED BY <1>3, <1>4, <1>5, <1>6, <1>7 DEF Pushed

LEMMA StopIInv ==
  ASSUME IInv, Stop
  PROVE  IInv'
<1> USE DEF IInv
<1>1. open \in SUBSET Channels /\ FALSE \in BOOLEAN /\ Close(open, FALSE)
  BY TypeParts DEF Stop, Types
<1>2. Stopping' /\ stack' \in Seq(Activations) /\ open' \in SUBSET open /\ Restarts' = Restarts
  BY <1>1, CloseEffect
<1>3. TypeOK'
  BY <1>1, <1>2, TypeParts DEF Stop, Types, exporter
<1> QED BY <1>2, <1>3 DEF Stop, Reserved, OneTimer, Counted, Listening, exporter

LEMMA CancelledIInv ==
  ASSUME IInv, NEW c \in Channels, SnapshotsCancelled(c)
  PROVE  IInv'
<1> USE DEF IInv
<1>1. open \in SUBSET Channels /\ FALSE \in BOOLEAN /\ Close(open, FALSE) /\ 0 \in 0..MaxStarts
  <2>1. open \in SUBSET Channels /\ 0 \in 0..MaxStarts
    BY TypeParts, ConstantsAssumption DEF Types
  <2> QED BY <2>1, Zenon DEF SnapshotsCancelled
<1>2. Stopping' /\ stack' \in Seq(Activations) /\ open' \in SUBSET open /\ Restarts' = Restarts
  BY <1>1, CloseEffect
<1>3. stream \in [Channels -> Guards] /\ stream' = [stream EXCEPT ![c] = Closed(@)]
  BY TypeParts DEF SnapshotsCancelled, Types
<1>4. stream' \in [Channels -> Guards]
  BY <1>3, GuardClosed
<1>5. TypeOK'
  BY <1>1, <1>2, <1>4, TypeParts DEF SnapshotsCancelled, Types
<1>6. Counted'
  BY <1>3, GuardClosed DEF Counted, SnapshotsCancelled
<1> QED BY <1>2, <1>5, <1>6 DEF SnapshotsCancelled, Reserved, OneTimer, Listening

LEMMA AnswerEndedIInv ==
  ASSUME IInv, NEW c \in Channels, AnswerEnded(c)
  PROVE  IInv'
<1> USE DEF IInv
<1>1. open \ {c} \in SUBSET Channels /\ TRUE \in BOOLEAN /\ Close(open \ {c}, TRUE)
      /\ starts \in Nat /\ MaxStarts \in Nat /\ stack \in Seq(Activations)
  <2>1. open \ {c} \in SUBSET Channels /\ starts \in Nat /\ MaxStarts \in Nat
        /\ stack \in Seq(Activations)
    BY TypeParts, ConstantsAssumption DEF Types
  <2> QED BY <2>1, Zenon DEF AnswerEnded
<1>2. Stopping' /\ stack' \in Seq(Activations) /\ open' \in SUBSET (open \ {c})
      /\ Restarts' = Restarts + 1
  BY <1>1, CloseEffect
<1>3. TypeOK'
  BY <1>1, <1>2, TypeParts DEF AnswerEnded, Types, exporter
<1>4. Restarts \in Nat
  BY <1>1, RestartsCounted
<1>5. Reserved'
  BY <1>1, <1>2, <1>4 DEF AnswerEnded, Reserved
<1> QED BY <1>2, <1>3, <1>5 DEF AnswerEnded, OneTimer, Counted, Listening, exporter

LEMMA StartReturnsIInv ==
  ASSUME IInv, StartReturns
  PROVE  IInv'
<1> USE DEF IInv
<1>1. stack \in Seq(Activations) /\ ~Idle /\ Top.at = "start" /\ stack' = Pop
  BY TypeOfStack DEF StartReturns, At
<1>2. Popped
  BY <1>1, Return
<1>3. Stopping' <=> Stopping
  BY <1>1, <1>2, StoppingPopped
<1>4. Restarts \in Nat /\ starts \in Nat /\ MaxStarts \in Nat
  BY <1>1, RestartsCounted, TypeParts, ConstantsAssumption DEF Types
<1>5. Restarts' \in {Restarts, Restarts - 1}
  BY <1>1, <1>2, RestartsPopped
<1>6. Reserved'
  <2>1. \A m, r, k : m \in Nat /\ r \in Nat /\ k \in {r, r - 1} /\ m + r <= MaxStarts
          => m + k <= MaxStarts
    BY <1>4
  <2> QED BY <1>4, <1>5, <2>1 DEF Reserved, StartReturns
<1>7. TypeOK'
  BY <1>2, TypeParts DEF Types, StartReturns, Popped, exporter
<1> QED BY <1>3, <1>6, <1>7 DEF StartReturns, OneTimer, Counted, Listening, exporter

LEMMA StopCompletesIInv ==
  ASSUME IInv, StopCompletes
  PROVE  IInv'
<1> USE DEF IInv
<1> DEFINE rs == remoteSubscriber
           reaches == rs # 0 /\ stream[rs].active
           f == [Top EXCEPT !.at = "complete", !.out = reaches]
<1>1. stack \in Seq(Activations) /\ ~Idle /\ stack' = Append(Pop, f)
  BY TypeOfStack DEF StopCompletes, At
<1>2. stream \in [Channels -> Guards] /\ rs \in 0..MaxStarts /\ MaxStarts \in Nat
  BY TypeParts, ConstantsAssumption DEF Types
<1>3. rs # 0 => rs \in Channels
  BY <1>2 DEF Channels
<1>4. reaches \in BOOLEAN
  BY <1>2, <1>3 DEF Guards
<1>5. f \in Activations /\ f.at # "start" /\ (f.restart <=> Top.restart)
  BY <1>1, <1>4, StackTop DEF Activations, Places
<1>6. stream' = IF reaches THEN [stream EXCEPT ![rs] = Closed(@)] ELSE stream
  BY DEF StopCompletes
<1>7. stream' \in [Channels -> Guards]
  BY <1>2, <1>3, <1>6, GuardClosed
<1>8. Counted'
  <2>1. \A c \in Channels : stream'[c] \in {stream[c], Closed(stream[c])}
    BY <1>2, <1>3, <1>6
  <2>2. \A c \in Channels :
          stream'[c].started = stream[c].started /\ stream'[c].pending = stream[c].pending
          /\ (stream'[c].active => stream[c].active)
    BY <1>2, <2>1, GuardClosed
  <2> QED BY <2>2 DEF Counted, StopCompletes
<1> HIDE DEF f, reaches, rs
<1>9. Replaced(f)
  BY <1>1, <1>5, Replace
<1>10. Restarts' = Restarts /\ Stopping'
  BY <1>1, <1>5, <1>9, RestartsReplaced, StoppingReplaced
<1>11. TypeOK'
  BY <1>7, <1>9, TypeParts DEF Types, StopCompletes, Replaced, exporter
<1> QED BY <1>8, <1>10, <1>11 DEF StopCompletes, Reserved, OneTimer, Listening, exporter

LEMMA StopReturnsIInv ==
  ASSUME IInv, StopReturns
  PROVE  IInv'
<1> USE DEF IInv
<1>1. stack \in Seq(Activations) /\ ~Idle /\ stack' = Pop
  BY TypeOfStack DEF StopReturns, At
<1>2. Popped
  BY <1>1, Return
<1>3. Restarts \in Nat /\ starts \in Nat /\ MaxStarts \in Nat /\ 0 \in 0..MaxStarts
  BY <1>1, RestartsCounted, TypeParts, ConstantsAssumption DEF Types
<1>4. Restarts' \in {Restarts, Restarts - 1}
  BY <1>1, <1>2, RestartsPopped
<1>5. timers' = {} /\ intervalHandle' = 0 /\ remoteSubscriber' = 0
  BY DEF StopReturns, Cleared, OneTimer
<1>6. Reserved'
  <2>1. \A m, r, k : m \in Nat /\ r \in Nat /\ k \in {r, r - 1} /\ m + r <= MaxStarts
          => m + k <= MaxStarts
    BY <1>3
  <2> QED BY <1>3, <1>4, <2>1 DEF Reserved, StopReturns
<1>7. TypeOK'
  BY <1>2, <1>3, <1>5, TypeParts DEF Types, StopReturns, Popped
<1> QED BY <1>5, <1>6, <1>7 DEF StopReturns, OneTimer, Counted, Listening

LEMMA SubscribedIInv ==
  ASSUME IInv, NEW c \in Channels, SnapshotsSubscribed(c)
  PROVE  IInv'
<1> USE DEF IInv
<1>1. stream \in [Channels -> Guards] /\ c \in 0..MaxStarts /\ c # 0 /\ asked' = asked \cup {c}
      /\ UNCHANGED <<remoteCancel, starts, open, pending, stack, wanted, emitted, broken>>
  BY TypeParts, ConstantsAssumption DEF Types, SnapshotsSubscribed, Channels
<1>2. Restarts' = Restarts /\ (Stopping' <=> Stopping)
  BY <1>1 DEF Restarts, Stopping
<1>3. CASE intervalHandle # 0
  <2>1. UNCHANGED <<intervalHandle, remoteSubscriber, stream, timers>>
    BY <1>3 DEF SnapshotsSubscribed
  <2>2. TypeOK'
    BY <1>1, <2>1, TypeParts DEF Types
  <2> QED BY <1>1, <1>2, <2>1, <2>2 DEF Reserved, OneTimer, Counted, Listening
<1>4. CASE intervalHandle = 0
  <2>1. /\ remoteSubscriber' = c /\ intervalHandle' = c /\ timers' = {c}
        /\ stream' = [stream EXCEPT ![c] = Started(@)]
    BY <1>4 DEF SnapshotsSubscribed, OneTimer
  <2>2. c \notin asked /\ ~stream[c].started
    BY DEF SnapshotsSubscribed, Counted
  <2>3. /\ stream'[c] \in Guards /\ stream'[c].started /\ stream'[c].active
        /\ stream'[c].pending = 0 /\ pending[c] = 0
    BY <1>1, <2>1, <2>2, GuardStarted DEF Counted
  <2>4. \A d \in Channels \ {c} : stream'[d] = stream[d]
    BY <1>1, <2>1
  <2>5. stream' \in [Channels -> Guards]
    BY <1>1, <2>1, <2>3
  <2>6. TypeOK'
    BY <1>1, <2>1, <2>5, TypeParts DEF Types
  <2>7. Counted'
    BY <1>1, <2>3, <2>4 DEF Counted
  <2> QED BY <1>1, <1>2, <2>1, <2>3, <2>6, <2>7 DEF Reserved, OneTimer, Listening
<1> QED BY <1>3, <1>4

LEMMA RequestedIInv ==
  ASSUME MaxDemand < MAX_REQUEST_N, IInv, NEW c \in Channels, NEW n \in 1..MaxDemand,
         SnapshotsRequested(c, n)
  PROVE  IInv'
<1> USE DEF IInv
<1>1. /\ stream \in [Channels -> Guards] /\ pending \in [Channels -> Nat]
      /\ emitted \in [Channels -> Nat] /\ n \in Nat /\ MaxDemand \in Nat
  BY TypeParts, ConstantsAssumption DEF Types
<1>2. /\ stream' = [stream EXCEPT ![c] = Asked(@, n)]
      /\ pending' = [pending EXCEPT ![c] = @ + n]
      /\ UNCHANGED <<exporter, starts, open, asked, timers, stack, wanted, emitted, broken>>
      /\ stream[c].active /\ emitted[c] + pending[c] + n <= MaxDemand
  BY DEF SnapshotsRequested
<1>3. stream[c].pending = pending[c] /\ stream[c] \in Guards /\ stream[c].started
  BY <1>1, <1>2 DEF Counted
<1>4. \A k, l, m \in Nat : k + l + m <= MaxDemand => l < MAX_REQUEST_N /\ m < MAX_REQUEST_N
  BY <1>1 DEF MAX_REQUEST_N
<1>5. pending[c] < MAX_REQUEST_N /\ n < MAX_REQUEST_N
  BY <1>1, <1>2, <1>4, Zenon
<1>6. pending[c] # MAX_REQUEST_N /\ n # MAX_REQUEST_N
  BY <1>1, <1>5 DEF MAX_REQUEST_N
<1>7. /\ stream'[c] \in Guards /\ stream'[c].active /\ stream'[c].started
      /\ stream'[c].pending = stream[c].pending + n
  BY <1>1, <1>2, <1>3, <1>6, GuardAsked
<1>8. pending'[c] = pending[c] + n /\ \A d \in Channels \ {c} : stream'[d] = stream[d] /\ pending'[d] = pending[d]
  BY <1>1, <1>2
<1>9. stream' \in [Channels -> Guards] /\ pending' \in [Channels -> Nat]
  BY <1>1, <1>2, <1>7
<1>10. TypeOK'
  BY <1>2, <1>9, TypeParts DEF Types, exporter
<1>11. Counted'
  <2>1. emitted[c] \in Nat /\ pending[c] \in Nat
    BY <1>1
  <2>2. pending'[c] + emitted'[c] <= MaxDemand
    BY <1>1, <1>2, <1>8, <2>1
  <2> QED BY <1>2, <1>3, <1>7, <1>8, <2>2 DEF Counted
<1>12. Listening'
  BY <1>2, <1>7, <1>8 DEF Listening, Stopping, exporter
<1> QED BY <1>2, <1>10, <1>11, <1>12 DEF Reserved, Restarts, OneTimer, exporter

LEMMA TickIInv ==
  ASSUME MaxDemand < MAX_REQUEST_N, IInv, NEW c \in Channels, Tick(c)
  PROVE  IInv'
<1> USE DEF IInv
<1>1. /\ stream \in [Channels -> Guards] /\ pending \in [Channels -> Nat]
      /\ emitted \in [Channels -> Nat] /\ MaxDemand \in Nat /\ stream[c] \in Guards
  BY TypeParts, ConstantsAssumption DEF Types
<1>2. /\ c \in timers /\ Idle /\ pending[c] > 0 /\ pending' = [pending EXCEPT ![c] = @ - 1]
      /\ UNCHANGED <<exporter, starts, open, asked, timers, stack, wanted, broken>>
  BY DEF Tick
<1>3. ~Stopping
  BY <1>2, EmptySeq DEF Stopping, Idle
<1>4. stream[c].active /\ stream[c].pending = pending[c] /\ stream[c].started
  BY <1>1, <1>2, <1>3 DEF Listening, Counted
<1>5. PassesNext(stream[c])
  BY <1>2, <1>4 DEF PassesNext
<1>6. stream' = [stream EXCEPT ![c] = TookNext(@)] /\ emitted' = [emitted EXCEPT ![c] = @ + 1]
  BY <1>5 DEF Tick
<1>7. \A k, l \in Nat : k + l <= MaxDemand => k < MAX_REQUEST_N
  BY <1>1 DEF MAX_REQUEST_N
<1>8. pending[c] \in Nat /\ emitted[c] \in Nat /\ pending[c] + emitted[c] <= MaxDemand
  BY <1>1 DEF Counted
<1>9. pending[c] < MAX_REQUEST_N
  BY <1>7, <1>8, Zenon
<1>10. stream[c].pending # MAX_REQUEST_N
  BY <1>4, <1>8, <1>9 DEF MAX_REQUEST_N
<1>11. /\ stream'[c] \in Guards /\ stream'[c].active /\ stream'[c].started
       /\ stream'[c].pending = pending[c] - 1
  BY <1>1, <1>4, <1>5, <1>6, <1>10, GuardTookNext
<1>12. /\ pending'[c] = pending[c] - 1 /\ emitted'[c] = emitted[c] + 1
       /\ \A d \in Channels \ {c} :
            stream'[d] = stream[d] /\ pending'[d] = pending[d] /\ emitted'[d] = emitted[d]
  BY <1>1, <1>2, <1>6
<1>13. pending[c] - 1 \in Nat /\ emitted[c] + 1 \in Nat
  BY <1>2, <1>8
<1>14. /\ stream' \in [Channels -> Guards] /\ pending' \in [Channels -> Nat]
       /\ emitted' \in [Channels -> Nat]
  BY <1>1, <1>2, <1>6, <1>11, <1>12, <1>13
<1>15. TypeOK'
  BY <1>2, <1>14, TypeParts DEF Types, exporter
<1>16. Counted'
  <2>1. pending'[c] + emitted'[c] <= MaxDemand
    BY <1>1, <1>8, <1>12
  <2> QED BY <1>2, <1>4, <1>11, <1>12, <2>1 DEF Counted
<1>17. Listening'
  BY <1>2, <1>11, <1>12 DEF Listening, Stopping, exporter
<1> QED BY <1>2, <1>15, <1>16, <1>17 DEF Reserved, Restarts, OneTimer, exporter

LEMMA StepIInv ==
  ASSUME MaxDemand < MAX_REQUEST_N, IInv, [Next]_vars
  PROVE  IInv'
<1>1. CASE Start \/ Stop
  BY <1>1, StartIInv, StopIInv
<1>2. CASE Exporter
  BY <1>2, StartReturnsIInv, StopCompletesIInv, StopReturnsIInv, RestartIInv DEF Exporter
<1>3. ASSUME NEW c \in Channels, Remote(c) \/ Tick(c)
      PROVE  IInv'
  BY <1>3, SubscribedIInv, CancelledIInv, AnswerEndedIInv, RequestedIInv, TickIInv DEF Remote
<1>4. CASE UnconvertibleMeter
  BY <1>4
  DEF UnconvertibleMeter, exporter, IInv, TypeOK, Reserved, Restarts, OneTimer, Counted, Listening, Stopping
<1>5. CASE UNCHANGED vars
  BY <1>5 DEF vars, exporter, IInv, TypeOK, Reserved, Restarts, OneTimer, Counted, Listening, Stopping
<1> QED BY <1>1, <1>2, <1>3, <1>4, <1>5 DEF Next, Application

(* The stack, the reservations of restarts, the timer and the two counts of *)
(* the requests fit together, with every remote.                            *)
THEOREM Invariance ==
  ASSUME MaxDemand < MAX_REQUEST_N
  PROVE  Spec => []IInv
<1>1. IInv /\ [Next]_vars => IInv'
  BY StepIInv
<1> QED BY <1>1, InitIInv, PTL DEF Spec

(* However start(), stop() and restart() nest, and with every remote, one   *)
(* timer at most runs, stop() knows it, and it works for a stream that      *)
(* listens: TimersSound.                                                    *)
THEOREM TimersAreSound ==
  ASSUME MaxDemand < MAX_REQUEST_N
  PROVE  Spec => []TimersSound
<1>1. ASSUME IInv PROVE TimersSound
  <2>1. Idle => ~Stopping
    BY EmptySeq DEF Stopping, Idle
  <2>2. timers \subseteq Channels
    BY <1>1, TypeParts DEF IInv, Types
  <2>3. TimerHasListener
    BY <1>1, <2>1, <2>2 DEF TimerHasListener, IInv, Listening, Counted
  <2> QED BY <1>1, <2>3 DEF TimersSound, IInv
<1> QED BY <1>1, Invariance, PTL

-----------------------------------------------------------------------------
(* The last word counts, with a remote that subscribes inside start(). *)

Silent == \A c \in Channels : ~stream[c].active

(* Only the latest channel is open, and only its stream is.                 *)
Latest ==
  /\ remoteCancel = starts /\ open \subseteq {starts}
  /\ \A c \in asked : c <= starts
  /\ \A c \in Channels : stream[c].active => c = starts /\ remoteSubscriber = c

(* The remote is not called back inside restart(), which is therefore on    *)
(* top of the stack, and nothing happens once stop() has told it the end.   *)
Nesting ==
  /\ \A i \in 1..Len(stack) : stack[i].restart =>
       /\ i = Len(stack) /\ stack[i].at # "start"
       /\ stack[i].at = "cancel" => ~stack[i].out
  /\ \A i \in 1..Len(stack) : stack[i].at = "complete" => i = Len(stack) /\ Silent
  /\ Stopping => open = {}

(* StopIsFinal, also while calls are in progress. *)
WhenStopped ==
  ~wanted =>
    /\ open = {}
    /\ \A i \in 1..Len(stack) : ~stack[i].restart
    /\ Stopping \/ (timers = {} /\ Silent)

(* KeepsExporting, also while calls are in progress: each stop() restarts,  *)
(* and the start() of the latest channel waits for the remote to subscribe. *)
WhenStarted ==
  wanted =>
    /\ \A i \in 1..Len(stack) : stack[i].at = "start" \/ stack[i].restart
    /\ Stopping \/
         /\ open = {starts}
         /\ starts \in asked => timers = {starts} /\ stream[starts].active
         /\ starts \notin asked => timers = {} /\ Silent /\ ~Idle /\ Top.of = starts

Last == Latest /\ Nesting /\ WhenStopped /\ WhenStarted

(* A channel is opened when none is open and no stream listens.             *)
LEMMA OpenLast ==
  ASSUME IInv, Latest, Silent, open = {}, starts + 1 \in 1..MaxStarts,
         starts' = starts + 1, remoteCancel' = starts + 1,
         open' = {starts + 1}, timers' = {}, wanted' = TRUE, UNCHANGED <<asked, stream>>,
         stack' \in Seq(Activations), Len(stack') > 0,
         stack'[Len(stack')].of = starts + 1,
         \A i \in 1..Len(stack') : stack'[i].at = "start" /\ ~stack'[i].restart
  PROVE  Last'
<1>1. Len(stack') \in Nat /\ ~Idle' /\ ~Stopping' /\ Silent'
  BY EmptySeq, LenProperties DEF Idle, Stopping, Silent
<1>2. starts \in Nat /\ asked \subseteq Channels /\ starts + 1 \notin asked
  BY TypeParts DEF IInv, Types, Latest, Channels
<1>3. \A c \in asked : c <= starts + 1
  BY <1>2 DEF Latest, Channels
<1>4. Latest'
  BY <1>3 DEF Latest, Silent
<1>5. Nesting'
  BY <1>1 DEF Nesting
<1>6. WhenStarted'
  BY <1>1, <1>2 DEF WhenStarted, Top
<1>7. WhenStopped'
  BY DEF WhenStopped
<1> QED BY <1>4, <1>5, <1>6, <1>7 DEF Last

LEMMA StartLast ==
  ASSUME IInv, Last, Start
  PROVE  Last'
<1> DEFINE f == [at |-> "start", of |-> starts + 1, out |-> TRUE, restart |-> FALSE]
<1>1. stack \in Seq(Activations) /\ stack = <<>> /\ Len(stack) = 0 /\ Idle /\ ~Stopping
      /\ timers = {} /\ starts \in 0..MaxStarts /\ MaxStarts \in Nat /\ open \subseteq Channels
  BY TypeParts, ConstantsAssumption, EmptySeq
  DEF IInv, Types, OneTimer, Start, Idle, Stopping
<1>2. ~wanted
  BY <1>1 DEF Last, WhenStarted
<1>3. open = {} /\ Silent
  BY <1>1, <1>2 DEF Last, WhenStopped
<1>4. starts + 1 \in 1..MaxStarts
  BY <1>1 DEF Start
<1>5. f \in Activations
  BY <1>1, <1>4 DEF Activations, Places
<1>6. Pushed(f)
  BY <1>1, <1>5, Push DEF Start, Open
<1>7. /\ stack' \in Seq(Activations) /\ Len(stack') > 0 /\ stack'[Len(stack')].of = starts + 1
      /\ \A i \in 1..Len(stack') : stack'[i].at = "start" /\ ~stack'[i].restart
  BY <1>1, <1>6 DEF Pushed
<1>8. /\ starts' = starts + 1 /\ remoteCancel' = starts + 1 /\ open' = {starts + 1}
      /\ timers' = {} /\ wanted' = TRUE /\ UNCHANGED <<asked, stream>>
  BY <1>1, <1>3 DEF Start, Open
<1> QED BY <1>3, <1>4, <1>7, <1>8, OpenLast DEF Last

LEMMA RestartLast ==
  ASSUME IInv, Last, Restart
  PROVE  Last'
<1> DEFINE f == [at |-> "start", of |-> starts + 1, out |-> TRUE, restart |-> FALSE]
<1>1. /\ stack \in Seq(Activations) /\ ~Idle /\ Top.at = "complete" /\ Top.restart
      /\ starts \in 0..MaxStarts /\ MaxStarts \in Nat /\ starts + Restarts <= MaxStarts
  BY TypeParts, ConstantsAssumption DEF IInv, Types, Reserved, Restart, At
<1>2. Len(stack) \in Nat \ {0} /\ Restarts \in Nat /\ Len(stack) \in RestartsAt
      /\ stack[Len(stack)] = Top
  BY <1>1, StackTop, RestartsCounted DEF RestartsAt, Top
<1>3. Restarts # 0
  BY <1>1, <1>2, RestartsCounted, FS_EmptySet
<1>4. starts + 1 \in 1..MaxStarts
  BY <1>1, <1>2, <1>3
<1>5. wanted /\ open = {} /\ Silent
  BY <1>1, <1>2 DEF Last, WhenStopped, Nesting, Stopping
<1>6. \A i \in 1..Len(stack) - 1 : stack[i].at = "start" /\ ~stack[i].restart
  BY <1>2, <1>5 DEF Last, WhenStarted, Nesting
<1>7. f \in Activations
  BY <1>1, <1>4 DEF Activations, Places
<1>8. Replaced(f)
  BY <1>1, <1>7, Replace DEF Restart, Open
<1>9. /\ stack' \in Seq(Activations) /\ Len(stack') > 0 /\ stack'[Len(stack')].of = starts + 1
      /\ \A i \in 1..Len(stack') : stack'[i].at = "start" /\ ~stack'[i].restart
  BY <1>2, <1>6, <1>8 DEF Replaced
<1>10. timers' = {} /\ wanted' = TRUE
  BY <1>5 DEF Restart, Cleared, IInv, OneTimer
<1>11. /\ starts' = starts + 1 /\ remoteCancel' = starts + 1 /\ open' = {starts + 1}
       /\ UNCHANGED <<asked, stream>>
  BY <1>5 DEF Restart, Open
<1> QED BY <1>4, <1>5, <1>9, <1>10, <1>11, OpenLast DEF Last

(* stop(), up to remoteCancel(), closes the only channel that is open.      *)
LEMMA CloseLast ==
  ASSUME IInv, Last, NEW o \in SUBSET open, NEW r \in BOOLEAN, Close(o, r)
  PROVE  LET f == [at |-> "cancel", of |-> 0, out |-> remoteCancel \in o, restart |-> r]
         IN  /\ open' = {} /\ Stopping' /\ Pushed(f) /\ Len(stack) \in Nat
             /\ f.at = "cancel" /\ f.restart = r /\ f.out = (remoteCancel \in o)
<1> DEFINE f == [at |-> "cancel", of |-> 0, out |-> remoteCancel \in o, restart |-> r]
<1>1. stack \in Seq(Activations) /\ open \subseteq Channels /\ 0 \in 0..MaxStarts
  BY TypeParts, ConstantsAssumption DEF IInv, Types
<1>2. f \in Activations
  BY <1>1 DEF Activations, Places
<1>3. Pushed(f)
  BY <1>1, <1>2, Push DEF Close
<1>4. open' = {}
  BY DEF Close, Last, Latest
<1>5. Stopping'
  BY <1>1, <1>2, <1>3, StoppingPushed
<1> QED BY <1>1, <1>3, <1>4, <1>5, LenProperties

(* A stop() that is not part of a restart. *)
LEMMA StopsLast ==
  ASSUME IInv, Last, Close(open, FALSE), wanted' = FALSE,
         UNCHANGED <<starts, asked, remoteCancel>>,
         Silent' \/ UNCHANGED <<stream, remoteSubscriber>>,
         Idle \/ (RemoteRuns /\ ~Silent)
  PROVE  Last'
<1> DEFINE f == [at |-> "cancel", of |-> 0, out |-> remoteCancel \in open, restart |-> FALSE]
<1>1. /\ open' = {} /\ Stopping' /\ Pushed(f) /\ Len(stack) \in Nat
      /\ f.at = "cancel" /\ f.restart = FALSE
  BY CloseLast
<1>2. stack \in Seq(Activations)
  BY TypeParts DEF IInv, Types
<1>3. \A i \in 1..Len(stack) : ~stack[i].restart /\ stack[i].at # "complete"
  <2>1. CASE Idle
    BY <2>1, EmptySeq DEF Idle
  <2>2. CASE ~Idle
    <3>1. Top.out /\ ~Silent /\ stack[Len(stack)] = Top /\ Top \in Activations
      BY <1>2, <2>2, StackTop DEF RemoteRuns, Top
    <3>2. ASSUME NEW i \in 1..Len(stack), stack[i].restart PROVE FALSE
      <4>1. i = Len(stack) /\ Top.at \in {"cancel", "complete"} /\ Top.at # "cancel"
        BY <3>1, <3>2 DEF Last, Nesting, Activations, Places
      <4> QED BY <3>1, <3>2, <4>1 DEF Last, Nesting
    <3> QED BY <3>1, <3>2 DEF Last, Nesting
  <2> QED BY <2>1, <2>2
<1> HIDE DEF f
<1>4. \A i \in 1..Len(stack') : ~stack'[i].restart /\ stack'[i].at # "complete"
  BY <1>1, <1>3 DEF Pushed
<1>5. Latest'
  BY <1>1 DEF Last, Latest, Silent
<1>6. Nesting'
  BY <1>1, <1>4 DEF Nesting
<1>7. WhenStopped'
  BY <1>1, <1>4 DEF WhenStopped
<1>8. WhenStarted'
  BY DEF WhenStarted
<1> QED BY <1>5, <1>6, <1>7, <1>8 DEF Last

LEMMA StopLast ==
  ASSUME IInv, Last, Stop
  PROVE  Last'
BY StopsLast DEF Stop, exporter

LEMMA CancelledLast ==
  ASSUME IInv, Last, NEW c \in Channels, SnapshotsCancelled(c)
  PROVE  Last'
<1>1. stream \in [Channels -> Guards] /\ stream' = [stream EXCEPT ![c] = Closed(@)]
      /\ stream[c].active
  BY TypeParts DEF SnapshotsCancelled, IInv, Types
<1>2. ~stream'[c].active /\ \A d \in Channels \ {c} : stream'[d] = stream[d]
  BY <1>1, GuardClosed
<1>3. Silent'
  BY <1>1, <1>2 DEF Silent, Last, Latest
<1>4. ~Silent
  BY <1>1 DEF Silent
<1>5. RemoteRuns /\ Close(open, FALSE) /\ wanted' = FALSE /\ UNCHANGED <<starts, asked, remoteCancel>>
  BY DEF SnapshotsCancelled
<1> QED BY <1>3, <1>4, <1>5, StopsLast

LEMMA AnswerEndedLast ==
  ASSUME IInv, Last, NEW c \in Channels, AnswerEnded(c)
  PROVE  Last'
<1> DEFINE f == [at |-> "cancel", of |-> 0, out |-> remoteCancel \in open \ {c}, restart |-> TRUE]
<1>1. Close(open \ {c}, TRUE) /\ c \in open
      /\ UNCHANGED <<exporter, starts, asked, stream, wanted>>
  BY DEF AnswerEnded
<1>2. /\ open' = {} /\ Stopping' /\ Pushed(f) /\ Len(stack) \in Nat
      /\ f.at = "cancel" /\ f.restart = TRUE /\ f.out = (remoteCancel \in open \ {c})
  BY <1>1, CloseLast
<1>3. ~Stopping /\ wanted /\ ~f.out
  BY <1>1, <1>2 DEF Last, Latest, Nesting, WhenStopped
<1>4. \A i \in 1..Len(stack) : stack[i].at = "start" /\ ~stack[i].restart
  BY <1>3 DEF Stopping, Last, Nesting
<1> HIDE DEF f
<1>5. \A i \in 1..Len(stack') : IF i = Len(stack') THEN stack'[i] = f
        ELSE stack'[i].at = "start" /\ ~stack'[i].restart
  BY <1>2, <1>4 DEF Pushed
<1>6. Latest'
  BY <1>1, <1>2 DEF Last, Latest, exporter
<1>7. Nesting'
  BY <1>2, <1>3, <1>5 DEF Nesting
<1>8. WhenStopped' /\ WhenStarted'
  BY <1>1, <1>2, <1>3, <1>5 DEF WhenStopped, WhenStarted
<1> QED BY <1>6, <1>7, <1>8 DEF Last

(* start() returns when the remote has subscribed, or has ended the answer. *)
Subscribed == Top.of \in asked \/ Top.of \notin open

LEMMA StartReturnsLast ==
  ASSUME IInv, Last, StartReturns, Subscribed
  PROVE  Last'
<1>1. stack \in Seq(Activations) /\ ~Idle /\ Top.at = "start" /\ stack' = Pop
      /\ (Top.of \in asked \/ Top.of \notin open)
      /\ UNCHANGED <<exporter, starts, open, asked, stream, timers, wanted>>
  BY TypeParts DEF IInv, Types, StartReturns, At, Subscribed
<1>2. Popped
  BY <1>1, Return
<1>3. Stopping' <=> Stopping
  BY <1>1, <1>2, StoppingPopped
<1>4. Len(stack) \in Nat \ {0} /\ stack[Len(stack)] = Top
  BY <1>1, StackTop DEF Top
<1>5. \A i \in 1..Len(stack) : ~stack[i].restart /\ stack[i].at # "complete"
  BY <1>1, <1>4 DEF Last, Nesting
<1>6. \A i \in 1..Len(stack') : stack'[i] = stack[i] /\ i \in 1..Len(stack)
  BY <1>2, <1>4 DEF Popped
<1>7. Latest'
  BY <1>1 DEF Last, Latest, exporter
<1>8. Nesting'
  BY <1>1, <1>3, <1>5, <1>6 DEF Last, Nesting
<1>9. WhenStopped'
  BY <1>1, <1>3, <1>6 DEF Last, WhenStopped, Silent
<1>10. WhenStarted'
  BY <1>1, <1>3, <1>6 DEF Last, WhenStarted
<1> QED BY <1>7, <1>8, <1>9, <1>10 DEF Last

LEMMA StopCompletesLast ==
  ASSUME IInv, Last, StopCompletes
  PROVE  Last'
<1> DEFINE rs == remoteSubscriber
           reaches == rs # 0 /\ stream[rs].active
           f == [Top EXCEPT !.at = "complete", !.out = reaches]
<1>1. stack \in Seq(Activations) /\ ~Idle /\ Top.at = "cancel" /\ stack' = Append(Pop, f)
      /\ UNCHANGED <<exporter, starts, open, asked, timers, wanted>>
  BY TypeParts DEF IInv, Types, StopCompletes, At
<1>2. stream \in [Channels -> Guards] /\ rs \in 0..MaxStarts /\ MaxStarts \in Nat
  BY TypeParts, ConstantsAssumption DEF IInv, Types
<1>3. rs # 0 <=> rs \in Channels
  BY <1>2 DEF Channels
<1>4. reaches \in BOOLEAN
  BY <1>2, <1>3 DEF Guards
<1>5. f \in Activations /\ f.at = "complete" /\ (f.restart <=> Top.restart)
  BY <1>1, <1>4, StackTop DEF Activations, Places
<1>6. stream' = IF reaches THEN [stream EXCEPT ![rs] = Closed(@)] ELSE stream
  BY DEF StopCompletes
<1>7. Silent'
  <2>1. ASSUME NEW c \in Channels PROVE ~stream'[c].active
    <3>1. stream[c].active => rs = c
      BY DEF Last, Latest
    <3> QED BY <1>2, <1>3, <1>6, <3>1, GuardClosed
  <2> QED BY <2>1 DEF Silent
<1> HIDE DEF f, reaches, rs
<1>8. Replaced(f)
  BY <1>1, <1>5, Replace
<1>9. Stopping'
  BY <1>1, <1>5, <1>8, StoppingReplaced
<1>10. Len(stack) \in Nat \ {0} /\ stack[Len(stack)] = Top
  BY <1>1, StackTop DEF Top
<1>11. open = {} /\ (wanted => Top.restart) /\ (~wanted => ~Top.restart)
  BY <1>1, <1>10 DEF Stopping, Last, Nesting, WhenStopped, WhenStarted
<1>12. \A i \in 1..Len(stack') : IF i = Len(stack') THEN stack'[i] = f
         ELSE stack'[i] = stack[i] /\ i \in 1..Len(stack) /\ i # Len(stack)
  BY <1>8, <1>10 DEF Replaced
<1>13. \A i \in 1..Len(stack') : i # Len(stack') => ~stack'[i].restart /\ stack'[i].at # "complete"
  BY <1>12 DEF Last, Nesting
<1>14. Latest'
  BY <1>1, <1>7 DEF Last, Latest, Silent, exporter
<1>15. Nesting'
  BY <1>1, <1>5, <1>7, <1>11, <1>12, <1>13 DEF Nesting
<1>16. WhenStopped'
  BY <1>1, <1>5, <1>9, <1>11, <1>12, <1>13 DEF WhenStopped
<1>17. WhenStarted'
  BY <1>1, <1>5, <1>9, <1>11, <1>12 DEF Last, WhenStarted
<1> QED BY <1>14, <1>15, <1>16, <1>17 DEF Last

LEMMA StopReturnsLast ==
  ASSUME IInv, Last, StopReturns
  PROVE  Last'
<1>1. stack \in Seq(Activations) /\ ~Idle /\ Top.at = "complete" /\ ~Top.restart /\ stack' = Pop
      /\ UNCHANGED <<remoteCancel, starts, open, asked, stream, wanted>>
  BY TypeParts DEF IInv, Types, StopReturns, At
<1>2. Popped
  BY <1>1, Return
<1>3. Len(stack) \in Nat \ {0} /\ stack[Len(stack)] = Top
  BY <1>1, StackTop DEF Top
<1>4. ~wanted /\ Silent /\ open = {}
  BY <1>1, <1>3 DEF Stopping, Last, Nesting, WhenStarted
<1>5. timers' = {} /\ Silent'
  BY <1>1, <1>4 DEF StopReturns, Cleared, IInv, OneTimer, Silent
<1>6. \A i \in 1..Len(stack') : stack'[i] = stack[i] /\ i \in 1..Len(stack) /\ i # Len(stack)
  BY <1>2, <1>3 DEF Popped
<1>7. \A i \in 1..Len(stack') : ~stack'[i].restart /\ stack'[i].at # "complete"
  BY <1>6 DEF Last, Nesting
<1>8. Latest'
  BY <1>1, <1>5 DEF Last, Latest, Silent
<1>9. Nesting'
  BY <1>1, <1>4, <1>7 DEF Nesting
<1>10. WhenStopped'
  BY <1>1, <1>4, <1>5, <1>7 DEF WhenStopped
<1>11. WhenStarted'
  BY <1>1, <1>4 DEF WhenStarted
<1> QED BY <1>8, <1>9, <1>10, <1>11 DEF Last

LEMMA SubscribedLast ==
  ASSUME IInv, Last, NEW c \in Channels, c \in open, SnapshotsSubscribed(c)
  PROVE  Last'
<1>1. /\ c \in open /\ c \notin asked /\ asked' = asked \cup {c}
      /\ UNCHANGED <<remoteCancel, starts, open, stack, wanted>>
  BY DEF SnapshotsSubscribed
<1>2. c = starts /\ ~Stopping /\ wanted /\ timers = {} /\ Silent /\ starts \in Nat
  BY <1>1, TypeParts DEF Last, Latest, Nesting, WhenStopped, WhenStarted, IInv, Types
<1>3. intervalHandle = 0
  BY <1>2 DEF IInv, OneTimer
<1>4. remoteSubscriber' = c /\ timers' = {c} /\ stream' = [stream EXCEPT ![c] = Started(@)]
  BY <1>2, <1>3 DEF SnapshotsSubscribed
<1>5. stream \in [Channels -> Guards] /\ ~stream[c].started
  BY <1>1, TypeParts DEF IInv, Types, Counted
<1>6. stream'[c].active /\ \A d \in Channels \ {c} : ~stream'[d].active
  BY <1>2, <1>4, <1>5, GuardStarted DEF Silent
<1>7. ~Stopping'
  BY <1>1, <1>2 DEF Stopping
<1>8. Latest'
  BY <1>1, <1>2, <1>4, <1>6 DEF Last, Latest
<1>9. Nesting'
  BY <1>1, <1>2, <1>7 DEF Last, Nesting, Stopping
<1>10. WhenStopped'
  BY <1>1, <1>2 DEF WhenStopped
<1>11. WhenStarted'
  BY <1>1, <1>2, <1>4, <1>6 DEF Last, WhenStarted
<1> QED BY <1>8, <1>9, <1>10, <1>11 DEF Last

(* Neither requests nor snapshots open or close anything. *)
LEMMA FlowLast ==
  ASSUME Last, UNCHANGED <<exporter, starts, open, asked, timers, stack, wanted>>,
         \A d \in Channels : stream'[d].active = stream[d].active,
         open \subseteq Channels
  PROVE  Last'
<1>1. (Silent' <=> Silent) /\ (Stopping' <=> Stopping) /\ (Idle' <=> Idle)
  BY DEF Silent, Stopping, Idle
<1>2. Latest'
  BY DEF Last, Latest, exporter
<1>3. Nesting'
  BY <1>1 DEF Last, Nesting
<1>4. WhenStopped'
  BY <1>1 DEF Last, WhenStopped
<1>5. WhenStarted'
  BY <1>1 DEF Last, WhenStarted, Top
<1> QED BY <1>2, <1>3, <1>4, <1>5 DEF Last

LEMMA StreamLast ==
  ASSUME IInv, Last, NEW c \in Channels,
         Tick(c) \/ \E n \in 1..MaxDemand : SnapshotsRequested(c, n)
  PROVE  Last'
<1>1. stream \in [Channels -> Guards] /\ open \subseteq Channels
  BY TypeParts DEF IInv, Types
<1>2. CASE Tick(c)
  <2>1. stream' = stream \/ (PassesNext(stream[c]) /\ stream' = [stream EXCEPT ![c] = TookNext(@)])
    BY <1>2 DEF Tick
  <2>2. \A d \in Channels : stream'[d].active = stream[d].active
    BY <1>1, <2>1, GuardTookNext
  <2> QED BY <1>1, <1>2, <2>2, FlowLast DEF Tick
<1>3. ASSUME NEW n \in 1..MaxDemand, SnapshotsRequested(c, n)
      PROVE  Last'
  <2>1. stream' = [stream EXCEPT ![c] = Asked(@, n)] /\ n \in Nat
    BY <1>3, ConstantsAssumption DEF SnapshotsRequested
  <2>2. \A d \in Channels : stream'[d].active = stream[d].active
    BY <1>1, <2>1, GuardAsked
  <2> QED BY <1>1, <1>3, <2>2, FlowLast DEF SnapshotsRequested
<1> QED BY <1>2, <1>3

(* The steps with such a remote. *)
PromptNext ==
  \/ Application \/ (StartReturns /\ Subscribed) \/ StopCompletes \/ StopReturns \/ Restart
  \/ \E c \in Channels :
       \/ c \in open /\ SnapshotsSubscribed(c)
       \/ SnapshotsCancelled(c) \/ AnswerEnded(c) \/ Tick(c)
       \/ \E n \in 1..MaxDemand : SnapshotsRequested(c, n)

LEMMA StepLast ==
  ASSUME IInv, Last, [PromptNext]_vars
  PROVE  Last'
<1>1. CASE Application
  <2>1. CASE UnconvertibleMeter
    <3>1. open \subseteq Channels
      BY TypeParts DEF IInv, Types
    <3> QED BY <2>1, <3>1, FlowLast DEF UnconvertibleMeter
  <2> QED BY <1>1, <2>1, StartLast, StopLast DEF Application
<1>2. CASE (StartReturns /\ Subscribed) \/ StopCompletes \/ StopReturns \/ Restart
  BY <1>2, StartReturnsLast, StopCompletesLast, StopReturnsLast, RestartLast
<1>3. ASSUME NEW c \in Channels,
             \/ c \in open /\ SnapshotsSubscribed(c)
             \/ SnapshotsCancelled(c) \/ AnswerEnded(c) \/ Tick(c)
             \/ \E n \in 1..MaxDemand : SnapshotsRequested(c, n)
      PROVE  Last'
  BY <1>3, SubscribedLast, CancelledLast, AnswerEndedLast, StreamLast
<1>4. CASE UNCHANGED vars
  <2>1. open \subseteq Channels
    BY TypeParts DEF IInv, Types
  <2> QED BY <1>4, <2>1, FlowLast DEF vars
<1> QED BY <1>1, <1>2, <1>3, <1>4 DEF PromptNext

LEMMA InitLast == Init => Last
<1> SUFFICES ASSUME Init PROVE Last
  OBVIOUS
<1>1. Len(stack) = 0 /\ ~Stopping
  BY EmptySeq DEF Init, Stopping
<1>2. Silent
  BY DEF Init, Silent, NewGuard
<1> QED BY <1>1, <1>2 DEF Init, Last, Latest, Nesting, WhenStopped, WhenStarted, Silent

LEMMA LastWord == IInv /\ Last => StopIsFinal /\ KeepsExporting
<1> SUFFICES ASSUME IInv, Last PROVE StopIsFinal /\ KeepsExporting
  OBVIOUS
<1>1. Idle => ~Stopping
  BY EmptySeq DEF Stopping, Idle
<1>2. StopIsFinal
  BY <1>1 DEF StopIsFinal, Last, WhenStopped
<1>3. KeepsExporting
  BY <1>1 DEF KeepsExporting, Last, Latest, WhenStarted
<1> QED BY <1>2, <1>3

(* The instance that subscribes inside start() does only what the exporter *)
(* does, and its steps are those.                                          *)
LEMMA SameRestarts == Prompt!Restarts = Restarts
<1>1. \A S : Prompt!Cardinality(S) = Cardinality(S)
  BY DEF Prompt!Cardinality, Cardinality, Prompt!IsFiniteSet, IsFiniteSet
<1> QED BY <1>1 DEF Prompt!Restarts, Restarts

LEMMA PromptSteps == Prompt!Next => Next /\ PromptNext
<1> USE DEF Prompt!vars, Prompt!exporter, Prompt!Channels, Prompt!Idle, Prompt!Top, Prompt!At,
    Prompt!Pop, Prompt!RemoteRuns, Prompt!Open, Prompt!Close, Prompt!Cleared,
    Prompt!MAX_REQUEST_N, Prompt!Started, Prompt!Closed, Prompt!Asked, Prompt!PassesNext,
    Prompt!TookNext, exporter, Channels, Idle, Top, At, Pop, RemoteRuns, Open, Close, Cleared,
    MAX_REQUEST_N, Started, Closed, Asked, PassesNext, TookNext
<1>1. Prompt!Start => Start
  BY DEF Prompt!Start, Start
<1>2. Prompt!Stop => Stop
  BY DEF Prompt!Stop, Stop
<1>3. Prompt!StartReturns => StartReturns /\ Subscribed
  BY DEF Prompt!StartReturns, StartReturns, Subscribed
<1>4. Prompt!StopCompletes => StopCompletes
  BY DEF Prompt!StopCompletes, StopCompletes
<1>5. Prompt!StopReturns => StopReturns
  BY DEF Prompt!StopReturns, StopReturns
<1>6. Prompt!Restart => Restart
  BY DEF Prompt!Restart, Restart
<1>7. ASSUME NEW c PROVE Prompt!SnapshotsSubscribed(c) => c \in open /\ SnapshotsSubscribed(c)
  BY DEF Prompt!SnapshotsSubscribed, SnapshotsSubscribed
<1>8. ASSUME NEW c PROVE Prompt!SnapshotsCancelled(c) => SnapshotsCancelled(c)
  BY DEF Prompt!SnapshotsCancelled, SnapshotsCancelled
<1>9. ASSUME NEW c PROVE Prompt!AnswerEnded(c) => AnswerEnded(c)
  BY SameRestarts DEF Prompt!AnswerEnded, AnswerEnded
<1>10. ASSUME NEW c, NEW n PROVE Prompt!SnapshotsRequested(c, n) => SnapshotsRequested(c, n)
  BY DEF Prompt!SnapshotsRequested, SnapshotsRequested
<1>11. ASSUME NEW c PROVE Prompt!Tick(c) => Tick(c)
  BY DEF Prompt!Tick, Tick
<1>12. Prompt!UnconvertibleMeter => UnconvertibleMeter
  BY DEF Prompt!UnconvertibleMeter, UnconvertibleMeter
<1>13. Prompt!Channels = Channels
  OBVIOUS
<1> HIDE DEF Prompt!Channels, Channels
<1>14. (Prompt!Application => Application)
       /\ (Prompt!Exporter => Exporter /\ PromptNext)
  BY <1>1, <1>2, <1>3, <1>4, <1>5, <1>6, <1>12
  DEF Prompt!Application, Application, Prompt!Exporter, Exporter, PromptNext
<1>15. ASSUME NEW c \in Channels, Prompt!Remote(c) \/ Prompt!Tick(c)
       PROVE  (Remote(c) \/ Tick(c)) /\ PromptNext
  BY <1>7, <1>8, <1>9, <1>10, <1>11, <1>15 DEF Prompt!Remote, Remote, PromptNext
<1> QED BY <1>13, <1>14, <1>15 DEF Prompt!Next, Next, PromptNext

(* With a remote that subscribes inside start(), stop() and a cancel by the *)
(* remote are final, and a started exporter is connected, however calls     *)
(* nest and however often the remote's answer ends.                         *)
THEOREM LastWordDoesCount ==
  ASSUME MaxDemand < MAX_REQUEST_N
  PROVE  MCSpec => []LastWordCounts
<1>1. MCInit => IInv /\ Last
  BY InitIInv, InitLast DEF MCInit
<1>2. IInv /\ (prompt => Last) /\ [MCNext]_<<vars, prompt>> => IInv' /\ (prompt => Last)'
  <2> SUFFICES ASSUME IInv, prompt => Last, [MCNext]_<<vars, prompt>>
               PROVE  IInv' /\ (prompt => Last)'
    OBVIOUS
  <2>1. [Next]_vars /\ (prompt' => prompt /\ [PromptNext]_vars)
    BY PromptSteps DEF MCNext
  <2> QED BY <2>1, StepIInv, StepLast
<1>3. IInv /\ (prompt => Last) => LastWordCounts
  BY LastWord DEF LastWordCounts
<1> QED BY <1>1, <1>2, <1>3, PTL DEF MCSpec
=============================================================================
