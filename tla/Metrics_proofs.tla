---------------------------- MODULE Metrics_proofs ----------------------------
(***************************************************************************)
(* The wrappers that count and time streams and single calls, for every    *)
(* set of calls and of callbacks that may throw; and the counter they      *)
(* count with, for every maximum.                                          *)
(***************************************************************************)
EXTENDS MCObservers, MCMeters, BinaryHeap, FiniteSetTheorems, SequenceTheorems, TLAPS

(* The first of the callbacks in progress, and what is left without it.    *)
LEMMA First ==
  ASSUME NEW S, NEW s \in Seq(S), s # <<>>
  PROVE  /\ s[1] \in S /\ Len(s) \in Nat \ {0} /\ Tail(s) \in Seq(S)
         /\ Len(Tail(s)) = Len(s) - 1 /\ \A i \in 1 .. Len(Tail(s)) : Tail(s)[i] = s[i + 1]
<1>1. Len(s) \in Nat \ {0}
  BY EmptySeq
<1>2. s[1] \in S
  BY <1>1, ElementOfSeq
<1> QED BY <1>1, <1>2, HeadTailProperties

LEMMA Pushed ==
  ASSUME NEW S, NEW s \in Seq(S), NEW e \in S
  PROVE  /\ <<e>> \o s \in Seq(S) /\ Len(<<e>> \o s) = Len(s) + 1 /\ <<e>> \o s # <<>>
         /\ (<<e>> \o s)[1] = e /\ \A i \in 1 .. Len(s) : (<<e>> \o s)[i + 1] = s[i]
         /\ \A i \in 1 .. Len(s) + 1 :
              i = 1 \/ (i - 1 \in 1 .. Len(s) /\ (<<e>> \o s)[i] = s[i - 1])
<1>1. Len(s) \in Nat
  BY LenProperties
<1>2. <<e>> \in Seq(S) /\ Len(<<e>>) = 1 /\ <<e>>[1] = e
  OBVIOUS
<1> DEFINE t == <<e>> \o s
<1>3. /\ t \in Seq(S) /\ Len(t) = 1 + Len(s)
      /\ \A i \in 1 .. 1 + Len(s) : t[i] = IF i <= 1 THEN <<e>>[i] ELSE s[i - 1]
  BY <1>1, <1>2, ConcatProperties
<1> HIDE DEF t
<1>4. t[1] = e /\ \A i \in 1 .. Len(s) : t[i + 1] = s[i]
  BY <1>1, <1>2, <1>3
<1>5. t # <<>>
  BY <1>1, <1>3, EmptySeq
<1>6. \A i \in 1 .. Len(s) + 1 : i = 1 \/ (i - 1 \in 1 .. Len(s) /\ t[i] = s[i - 1])
  BY <1>1, <1>3
<1> QED BY <1>1, <1>3, <1>4, <1>5, <1>6 DEF t
-----------------------------------------------------------------------------
(* A stream whose source and subscriber keep their promises: source and    *)
(* guard are over together, and how it ended is counted as it was told.    *)
CallOf == [op : {"onSubscribe", "onNext", "onComplete", "onError"}, end : BOOLEAN]

StreamTyped ==
  /\ source \in {"off", "on", "cancelled", "done"} /\ guard \in {"off", "active", "closed"}
  /\ demand \in Nat /\ emitted \in Nat /\ finished \in Nat
  /\ counts \in [{"next", "complete", "error", "cancelled", "timer"} -> Nat]
  /\ told \in [next : Nat, end : {"none", "complete", "error"}]
  /\ calls \in Seq(CallOf)

OrderlyInv ==
  /\ StreamTyped
  /\ (source = "off") = (guard = "off") /\ (source = "on") = (guard = "active")
  /\ counts["next"] = told.next
  /\ counts["cancelled"] = IF source = "cancelled" THEN 1 ELSE 0
  /\ counts["complete"] = IF told.end = "complete" THEN 1 ELSE 0
  /\ counts["error"] = IF told.end = "error" THEN 1 ELSE 0
  /\ told.end # "none" => source = "done"

LEMMA StreamInit == Orderly!Init => OrderlyInv
<1> SUFFICES ASSUME Orderly!Init PROVE OrderlyInv
  OBVIOUS
<1>1. calls \in Seq(CallOf)
  BY EmptySeq DEF Orderly!Init
<1> QED BY <1>1 DEF Orderly!Init, Orderly!Meter, OrderlyInv, StreamTyped

LEMMA CallbackTyped ==
  ASSUME calls \in Seq(CallOf), NEW end \in BOOLEAN,
         NEW op \in {"onSubscribe", "onNext", "onComplete", "onError"}
  PROVE  <<[op |-> op, end |-> end]>> \o calls \in Seq(CallOf)
<1>1. [op |-> op, end |-> end] \in CallOf
  BY DEF CallOf
<1> QED BY <1>1, Pushed

LEMMA OrderlyStep == OrderlyInv /\ Orderly!Next => OrderlyInv'
<1> SUFFICES ASSUME OrderlyInv, Orderly!Next PROVE OrderlyInv'
  OBVIOUS
<1> USE DEF OrderlyInv, StreamTyped, Orderly!Meter
<1>0. calls \in Seq(CallOf)
  OBVIOUS
<1>1. CASE Orderly!OnSubscribe
  <2>1. calls' \in Seq(CallOf)
    BY <1>0, <1>1, CallbackTyped DEF Orderly!OnSubscribe, Orderly!User, Orderly!Callback
  <2> QED BY <1>1, <2>1 DEF Orderly!OnSubscribe
<1>2. CASE Orderly!Cancel
  BY <1>2 DEF Orderly!Cancel, Orderly!CancelMetrics, Orderly!CancelSpan, Orderly!Count, Orderly!Finish
<1>3. CASE Orderly!OnNext
  <2>1. calls' \in Seq(CallOf)
    BY <1>0, <1>3, CallbackTyped DEF Orderly!OnNext, Orderly!User, Orderly!Callback
  <2>2. source = "on" /\ guard = "active" /\ UNCHANGED <<source, guard, finished>>
    BY <1>3 DEF Orderly!OnNext, Orderly!MaySignal
  <2>3. /\ told' = [told EXCEPT !.next = @ + 1] /\ demand' \in Nat /\ emitted' \in Nat
        /\ counts' = [m \in Orderly!Meter |-> IF m \in {"next"} THEN counts[m] + 1 ELSE counts[m]]
    BY <1>3, <2>2 DEF Orderly!OnNext, Orderly!Count
  <2> QED BY <2>1, <2>2, <2>3
<1>4. ASSUME NEW o \in {"complete", "error"}, Orderly!End(o) PROVE OrderlyInv'
  <2>1. calls' \in Seq(CallOf)
    BY <1>0, <1>4, CallbackTyped DEF Orderly!End, Orderly!User, Orderly!Callback
  <2>2. source = "on" /\ guard = "active" /\ source' = "done" /\ UNCHANGED <<demand, emitted>>
    BY <1>4 DEF Orderly!End, Orderly!MaySignal
  <2>3. /\ guard' = "closed" /\ told' = [told EXCEPT !.end = o] /\ UNCHANGED finished
        /\ counts' = [m \in Orderly!Meter |-> IF m \in {o, "timer"} THEN counts[m] + 1 ELSE counts[m]]
    BY <1>4, <2>2 DEF Orderly!End, Orderly!EndMetrics, Orderly!Count
  <2> QED BY <2>1, <2>2, <2>3
<1>5. CASE Orderly!Returns
  <2>1. calls' \in Seq(CallOf)
    BY <1>0, <1>5, First DEF Orderly!Returns, Orderly!Idle
  <2> QED BY <1>5, <2>1 DEF Orderly!Returns, Orderly!Finish
<1>6. CASE Orderly!Throws
  BY <1>6 DEF Orderly!Throws
<1>7. ASSUME NEW n \in 1 .. MaxValues, Orderly!Request(n) PROVE OrderlyInv'
  BY <1>7 DEF Orderly!Request
<1> QED BY <1>1, <1>2, <1>3, <1>4, <1>5, <1>6, <1>7 DEF Orderly!Next

LEMMA OrderlyIsSound == OrderlyInv => Orderly!CountedOnceAsTold
<1> SUFFICES ASSUME OrderlyInv PROVE Orderly!CountedOnceAsTold
  OBVIOUS
<1> USE DEF OrderlyInv, StreamTyped
<1>1. Orderly!TypeOK
  BY DEF Orderly!TypeOK, Orderly!Meter, CallOf
<1>2. Orderly!OneOutcome
  BY DEF Orderly!OneOutcome, Orderly!Outcomes
<1>3. Orderly!CountedAsTold
  BY DEF Orderly!CountedAsTold
<1> QED BY <1>1, <1>2, <1>3 DEF Orderly!CountedOnceAsTold
-----------------------------------------------------------------------------
(* A stream whose signals cross a cancel and whose callbacks throw: its    *)
(* span is finished as often as an outcome was counted, but for the        *)
(* terminal signal in progress, and there is never more than one of them.  *)
Ends(cs) == \E i \in 1 .. Len(cs) : cs[i].end
EndsOnce(cs) ==
  /\ \A i, j \in 1 .. Len(cs) : cs[i].end /\ cs[j].end => i = j
  /\ \A i \in 1 .. Len(cs) : cs[i].end => cs[i].op \in {"onComplete", "onError"}

FaultyInv ==
  /\ StreamTyped
  /\ (source = "off") = (guard = "off") /\ (calls # <<>> => source # "off")
  /\ counts["timer"] = Faulty!Outcomes
  /\ (source \in {"cancelled", "done"}) <=> (Faulty!Outcomes > 0)
  /\ Faulty!Outcomes = finished + (IF Ends(calls) THEN 1 ELSE 0)
  /\ EndsOnce(calls) /\ (Ends(calls) => guard = "closed")

LEMMA EndsPushed ==
  ASSUME NEW cs \in Seq(CallOf), NEW e \in CallOf, EndsOnce(cs),
         e.end => ~Ends(cs) /\ e.op \in {"onComplete", "onError"}
  PROVE  LET ds == <<e>> \o cs IN
         ds \in Seq(CallOf) /\ ds # <<>> /\ EndsOnce(ds) /\ (Ends(ds) <=> e.end \/ Ends(cs))
<1> DEFINE ds == <<e>> \o cs
<1>1. /\ ds \in Seq(CallOf) /\ Len(ds) = Len(cs) + 1 /\ ds # <<>>
      /\ ds[1] = e /\ \A i \in 1 .. Len(cs) : ds[i + 1] = cs[i]
  BY Pushed
<1>2. Len(cs) \in Nat /\ e.end \in BOOLEAN
  BY LenProperties DEF CallOf
<1> HIDE DEF ds
<1>3. \A i \in 1 .. Len(ds) : i = 1 \/ (i - 1 \in 1 .. Len(cs) /\ ds[i] = cs[i - 1])
  BY <1>1, Pushed DEF ds
<1>4. EndsOnce(ds)
  <2>1. ASSUME NEW i \in 1 .. Len(ds), NEW j \in 1 .. Len(ds), ds[i].end, ds[j].end PROVE i = j
    <3>1. CASE i = 1 \/ j = 1
      BY <1>1, <1>3, <2>1, <3>1 DEF Ends
    <3>2. CASE i # 1 /\ j # 1
      <4>1. i - 1 = j - 1
        BY <1>3, <2>1, <3>2 DEF EndsOnce
      <4> QED BY <4>1, <1>1, <1>2
    <3> QED BY <3>1, <3>2
  <2>2. ASSUME NEW i \in 1 .. Len(ds), ds[i].end PROVE ds[i].op \in {"onComplete", "onError"}
    BY <1>1, <1>3, <2>2 DEF EndsOnce
  <2> QED BY <2>1, <2>2 DEF EndsOnce
<1>5. Ends(ds) <=> (e.end \/ Ends(cs))
  <2>1. Ends(ds) => e.end \/ Ends(cs)
    BY <1>1, <1>3 DEF Ends
  <2>2. e.end => Ends(ds)
    BY <1>1, <1>2 DEF Ends
  <2>3. Ends(cs) => Ends(ds)
    <3> SUFFICES ASSUME NEW i \in 1 .. Len(cs), cs[i].end PROVE Ends(ds)
      BY DEF Ends
    <3>1. i + 1 \in 1 .. Len(ds) /\ ds[i + 1].end
      BY <1>1, <1>2
    <3> QED BY <3>1 DEF Ends
  <2>4. Ends(ds) \in BOOLEAN
    BY DEF Ends
  <2> QED BY <1>2, <2>1, <2>2, <2>3, <2>4
<1> QED BY <1>1, <1>4, <1>5 DEF ds

LEMMA EndsPopped ==
  ASSUME NEW cs \in Seq(CallOf), cs # <<>>, EndsOnce(cs)
  PROVE  /\ Tail(cs) \in Seq(CallOf) /\ EndsOnce(Tail(cs))
         /\ (Ends(Tail(cs)) <=> Ends(cs) /\ ~cs[1].end) /\ (cs[1].end => Ends(cs))
<1> DEFINE ds == Tail(cs)
<1>1. /\ cs[1] \in CallOf /\ Len(cs) \in Nat \ {0} /\ ds \in Seq(CallOf)
      /\ Len(ds) = Len(cs) - 1 /\ \A i \in 1 .. Len(ds) : ds[i] = cs[i + 1]
  BY First
<1> HIDE DEF ds
<1>2. \A i \in 1 .. Len(ds) : i + 1 \in 1 .. Len(cs) /\ i + 1 # 1
  BY <1>1
<1>3. EndsOnce(ds)
  <2>1. ASSUME NEW i \in 1 .. Len(ds), NEW j \in 1 .. Len(ds), ds[i].end, ds[j].end PROVE i = j
    <3>1. PICK k \in 1 .. Len(cs), l \in 1 .. Len(cs) :
            k = i + 1 /\ l = j + 1 /\ cs[k] = ds[i] /\ cs[l] = ds[j]
      BY <1>1, <1>2
    <3>2. k = l
      BY <2>1, <3>1 DEF EndsOnce
    <3> QED BY <1>1, <3>1, <3>2
  <2>2. ASSUME NEW i \in 1 .. Len(ds), ds[i].end PROVE ds[i].op \in {"onComplete", "onError"}
    BY <1>1, <1>2, <2>2 DEF EndsOnce
  <2> QED BY <2>1, <2>2 DEF EndsOnce
<1>4. cs[1].end => Ends(cs) /\ ~Ends(ds)
  <2> SUFFICES ASSUME cs[1].end PROVE Ends(cs) /\ ~Ends(ds)
    OBVIOUS
  <2>1. 1 \in 1 .. Len(cs)
    BY <1>1
  <2> QED BY <2>1, <1>1, <1>2 DEF Ends, EndsOnce
<1>5. ~cs[1].end => (Ends(ds) <=> Ends(cs))
  <2> SUFFICES ASSUME ~cs[1].end PROVE (Ends(ds) <=> Ends(cs))
    OBVIOUS
  <2>1. Ends(ds) => Ends(cs)
    BY <1>1, <1>2 DEF Ends
  <2>2. Ends(cs) => Ends(ds)
    <3> SUFFICES ASSUME NEW i \in 1 .. Len(cs), cs[i].end PROVE Ends(ds)
      BY DEF Ends
    <3>1. i # 1
      OBVIOUS
    <3>2. PICK k \in 1 .. Len(ds) : i = k + 1
      <4>1. i - 1 \in 1 .. Len(ds) /\ i = (i - 1) + 1
        BY <1>1, <3>1
      <4> QED BY <4>1
    <3>3. ds[k].end
      BY <1>1, <3>2
    <3> QED BY <3>3 DEF Ends
  <2>3. Ends(ds) \in BOOLEAN /\ Ends(cs) \in BOOLEAN
    BY DEF Ends
  <2> QED BY <2>1, <2>2, <2>3
<1>6. Ends(ds) \in BOOLEAN /\ Ends(cs) \in BOOLEAN
  BY DEF Ends
<1> QED BY <1>1, <1>3, <1>4, <1>5, <1>6 DEF ds

(* The guard calls onError in place of the callback that threw. *)
LEMMA EndsReplaced ==
  ASSUME NEW cs \in Seq(CallOf), cs # <<>>, EndsOnce(cs)
  PROVE  LET ds == [cs EXCEPT ![1].op = "onError"] IN
         ds \in Seq(CallOf) /\ ds # <<>> /\ EndsOnce(ds) /\ (Ends(ds) <=> Ends(cs))
<1>1. cs[1] \in CallOf /\ Len(cs) \in Nat \ {0}
  BY First
<1> DEFINE e == [op |-> "onError", end |-> cs[1].end]
           ds == [cs EXCEPT ![1].op = "onError"]
<1>2. e \in CallOf /\ e.end = cs[1].end /\ e.op = "onError"
  BY <1>1 DEF CallOf
<1>3. ds = [cs EXCEPT ![1] = e]
  <2>1. [cs[1] EXCEPT !.op = "onError"] = e
    BY <1>1 DEF CallOf
  <2> QED BY <2>1
<1>4. /\ ds \in Seq(CallOf) /\ Len(ds) = Len(cs)
      /\ \A i \in 1 .. Len(cs) : ds[i] = IF i = 1 THEN e ELSE cs[i]
  <2> HIDE DEF e
  <2> QED BY <1>1, <1>2, <1>3, ExceptSeq
<1> HIDE DEF e, ds
<1>5. \A i \in 1 .. Len(cs) : ds[i].end = cs[i].end /\ ds[i].op \in {"onError", cs[i].op}
  BY <1>2, <1>4
<1>6. EndsOnce(ds) /\ (Ends(ds) <=> Ends(cs))
  BY <1>4, <1>5 DEF EndsOnce, Ends
<1>7. ds # <<>>
  BY <1>1, <1>4, EmptySeq
<1> QED BY <1>4, <1>6, <1>7 DEF ds

LEMMA FaultyInit == Faulty!Init => FaultyInv
<1> SUFFICES ASSUME Faulty!Init PROVE FaultyInv
  OBVIOUS
<1>1. calls \in Seq(CallOf) /\ Len(calls) = 0
  BY EmptySeq DEF Faulty!Init
<1> QED BY <1>1 DEF Faulty!Init, Faulty!Meter, FaultyInv, StreamTyped, Faulty!Outcomes, Ends, EndsOnce

LEMMA FaultyStep ==
  ASSUME FaultyInv, Faulty!Next
  PROVE  FaultyInv'
<1> USE DEF FaultyInv, StreamTyped, Faulty!Meter
<1>0. calls \in Seq(CallOf) /\ EndsOnce(calls) /\ (Ends(calls) => guard = "closed")
  OBVIOUS
<1>1. CASE Faulty!OnSubscribe
  <2> DEFINE e == [op |-> "onSubscribe", end |-> FALSE]
  <2>1. e \in CallOf /\ ~e.end
    BY DEF CallOf
  <2>2. calls' = <<e>> \o calls
    BY <1>1 DEF Faulty!OnSubscribe, Faulty!User, Faulty!Callback
  <2> HIDE DEF e
  <2>3. calls' \in Seq(CallOf) /\ EndsOnce(calls') /\ (Ends(calls') <=> Ends(calls))
    BY <1>0, <2>1, <2>2, EndsPushed
  <2>4. source' = "on" /\ guard' = "active" /\ ~Ends(calls) /\ UNCHANGED <<demand, emitted, counts, finished, told>>
    BY <1>1 DEF Faulty!OnSubscribe
  <2> QED BY <2>3, <2>4, <1>1 DEF Faulty!OnSubscribe, Faulty!Outcomes
<1>2. CASE Faulty!Cancel
  <2>1. UNCHANGED calls /\ guard = "active" /\ guard' = "closed" /\ UNCHANGED <<demand, emitted, told>>
    BY <1>2 DEF Faulty!Cancel
  <2>2. counts' = [m \in Faulty!Meter |-> IF m \in {"cancelled", "timer"} THEN counts[m] + 1 ELSE counts[m]]
    BY <1>2 DEF Faulty!Cancel, Faulty!CancelMetrics, Faulty!Count
  <2>3. source' = (IF source = "on" THEN "cancelled" ELSE source) /\ finished' = finished + 1
    BY <1>2 DEF Faulty!Cancel, Faulty!CancelSpan, Faulty!Finish
  <2> QED BY <1>0, <2>1, <2>2, <2>3 DEF Faulty!Outcomes
<1>3. CASE Faulty!OnNext
  <2>1. /\ demand' \in Nat /\ emitted' \in Nat /\ UNCHANGED <<source, guard, finished>> /\ source # "off"
        /\ counts' = [m \in Faulty!Meter |-> IF m \in {"next"} THEN counts[m] + 1 ELSE counts[m]]
    BY <1>3 DEF Faulty!OnNext, Faulty!Count, Faulty!MaySignal
  <2>2. /\ calls' \in Seq(CallOf) /\ EndsOnce(calls') /\ (Ends(calls') <=> Ends(calls))
        /\ told' \in [next : Nat, end : {"none", "complete", "error"}]
    <3>1. CASE guard = "active"
      <4> DEFINE e == [op |-> "onNext", end |-> FALSE]
      <4>1. e \in CallOf /\ ~e.end
        BY DEF CallOf
      <4>2. calls' = <<e>> \o calls /\ told' = [told EXCEPT !.next = @ + 1]
        BY <1>3, <3>1 DEF Faulty!OnNext, Faulty!User, Faulty!Callback
      <4> HIDE DEF e
      <4>3. calls' \in Seq(CallOf) /\ EndsOnce(calls') /\ (Ends(calls') <=> Ends(calls))
        BY <1>0, <4>1, <4>2, EndsPushed
      <4>4. told' \in [next : Nat, end : {"none", "complete", "error"}]
        BY <4>2, SMTT(30)
      <4> QED BY <4>3, <4>4
    <3>2. CASE guard # "active"
      BY <1>0, <1>3, <3>2 DEF Faulty!OnNext
    <3> QED BY <3>1, <3>2
  <2> QED BY <2>1, <2>2 DEF Faulty!Outcomes
<1>4. ASSUME NEW o \in {"complete", "error"}, Faulty!End(o) PROVE FaultyInv'
  <2>1. /\ source # "off" /\ source' = "done" /\ UNCHANGED <<demand, emitted>>
        /\ counts' = [m \in Faulty!Meter |-> IF m \in {o, "timer"} THEN counts[m] + 1 ELSE counts[m]]
    BY <1>4 DEF Faulty!End, Faulty!MaySignal, Faulty!EndMetrics, Faulty!Count
  <2>2. Faulty!Outcomes' = Faulty!Outcomes + 1 /\ Faulty!Outcomes \in Nat /\ counts'["timer"] = counts["timer"] + 1
    BY <2>1 DEF Faulty!Outcomes
  <2>3. CASE guard = "active"
    <3> DEFINE e == [op |-> IF o = "error" THEN "onError" ELSE "onComplete", end |-> TRUE]
    <3>1. e \in CallOf /\ e.end /\ e.op \in {"onComplete", "onError"}
      BY DEF CallOf
    <3>2. /\ guard' = "closed" /\ told' = [told EXCEPT !.end = o] /\ UNCHANGED finished
          /\ calls' = <<e>> \o calls
      BY <1>4, <2>3 DEF Faulty!End, Faulty!User, Faulty!Callback
    <3>3. ~Ends(calls)
      BY <1>0, <2>3
    <3> HIDE DEF e
    <3>4. calls' \in Seq(CallOf) /\ EndsOnce(calls') /\ Ends(calls')
      BY <1>0, <3>1, <3>2, <3>3, EndsPushed
    <3>5. StreamTyped' /\ source' # "off" /\ guard' # "off"
      <4>1. told' \in [next : Nat, end : {"none", "complete", "error"}] /\ UNCHANGED <<demand, emitted, finished>>
        BY <2>1, <3>2
      <4>2. counts' \in [Faulty!Meter -> Nat]
        BY <2>1
      <4> QED BY <2>1, <3>2, <3>4, <4>1, <4>2
    <3>6. (Faulty!Outcomes > 0)' /\ (Faulty!Outcomes = finished + (IF Ends(calls) THEN 1 ELSE 0))'
      BY <2>2, <3>2, <3>3, <3>4
    <3> QED BY <2>1, <2>2, <3>2, <3>4, <3>5, <3>6
  <2>4. CASE guard # "active"
    <3>1. finished' = finished + 1 /\ UNCHANGED <<guard, told, calls>>
      BY <1>4, <2>4 DEF Faulty!End, Faulty!Finish
    <3> QED BY <1>0, <2>1, <2>2, <3>1
  <2> QED BY <2>3, <2>4
<1>5. CASE Faulty!Returns
  <2>1. calls # <<>> /\ calls' = Tail(calls) /\ UNCHANGED <<source, guard, demand, emitted, counts, told>>
    BY <1>5 DEF Faulty!Returns, Faulty!Idle
  <2>2. /\ calls' \in Seq(CallOf) /\ EndsOnce(calls')
        /\ (Ends(calls') <=> Ends(calls) /\ ~calls[1].end) /\ (calls[1].end => Ends(calls))
    BY <1>0, <2>1, EndsPopped
  <2>3. finished' = IF calls[1].end THEN finished + 1 ELSE finished
    BY <1>5 DEF Faulty!Returns, Faulty!Finish
  <2>4. Faulty!Outcomes' = Faulty!Outcomes /\ Faulty!Outcomes \in Nat /\ calls[1].end \in BOOLEAN
    <3>1. calls[1] \in CallOf
      BY <1>0, <2>1, First
    <3>2. Faulty!Outcomes' = Faulty!Outcomes /\ Faulty!Outcomes \in Nat
      BY <2>1 DEF Faulty!Outcomes
    <3> QED BY <3>1, <3>2 DEF CallOf
  <2>5. StreamTyped'
    BY <2>1, <2>2, <2>3
  <2>6. (Faulty!Outcomes = finished + (IF Ends(calls) THEN 1 ELSE 0))'
    BY <2>2, <2>3, <2>4
  <2> QED BY <2>1, <2>2, <2>4, <2>5, <2>6
<1>6. CASE Faulty!Throws
  <2>1. calls # <<>> /\ UNCHANGED <<demand, emitted>> /\ source # "off" /\ calls[1] \in CallOf
    BY <1>0, <1>6, First DEF Faulty!Throws, Faulty!Idle
  <2>2. calls[1].op # "onError"
    BY <1>6, ObserversAssumption DEF Faulty!Throws, Faulty!ObserverAssumption
  <2>3. /\ source' \in {"on", "cancelled", "done"} /\ finished' \in Nat
        /\ counts' \in [Faulty!Meter -> Nat]
        /\ \E k \in {0, 1} : Faulty!Outcomes' = Faulty!Outcomes + k /\ finished' = finished + k
        /\ counts'["timer"] = Faulty!Outcomes'
        /\ (source' \in {"cancelled", "done"}) <=> (Faulty!Outcomes' > 0)
    <3>1. CASE calls[1].op = "onNext"
      <4>1. counts' = [m \in Faulty!Meter |-> IF m \in {"cancelled", "timer"} THEN counts[m] + 1 ELSE counts[m]]
        BY <1>6, <3>1 DEF Faulty!Throws, Faulty!CancelMetrics, Faulty!Count
      <4>2. source' = (IF source = "on" THEN "cancelled" ELSE source) /\ finished' = finished + 1
        BY <1>6, <3>1 DEF Faulty!Throws, Faulty!CancelSpan, Faulty!Finish
      <4>3. /\ counts' \in [Faulty!Meter -> Nat] /\ Faulty!Outcomes' = Faulty!Outcomes + 1
            /\ counts'["timer"] = counts["timer"] + 1 /\ Faulty!Outcomes \in Nat
        BY <4>1 DEF Faulty!Outcomes
      <4> QED BY <2>1, <4>2, <4>3
    <3>2. CASE calls[1].op # "onNext"
      <4>1. UNCHANGED <<counts, source, finished>>
        BY <1>6, <3>2 DEF Faulty!Throws
      <4> QED BY <2>1, <4>1 DEF Faulty!Outcomes
    <3> QED BY <3>1, <3>2
  <2>4. Faulty!Outcomes \in Nat /\ Faulty!Outcomes' \in Nat
    BY <2>3 DEF Faulty!Outcomes
  <2>5. CASE guard = "active" \/ calls[1].op = "onComplete"
    <3>1. /\ guard' = "closed" /\ told' = [told EXCEPT !.end = "error"]
          /\ calls' = [calls EXCEPT ![1].op = "onError"]
      BY <1>6, <2>5 DEF Faulty!Throws
    <3>2. calls' \in Seq(CallOf) /\ calls' # <<>> /\ EndsOnce(calls') /\ (Ends(calls') <=> Ends(calls))
      BY <1>0, <2>1, <3>1, EndsReplaced
    <3>3. StreamTyped'
      BY <2>1, <2>3, <3>1, <3>2
    <3>4. (Faulty!Outcomes = finished + (IF Ends(calls) THEN 1 ELSE 0))'
      <4>1. PICK k \in {0, 1} : Faulty!Outcomes' = Faulty!Outcomes + k /\ finished' = finished + k
        BY <2>3
      <4> QED BY <2>4, <3>2, <4>1
    <3> QED BY <2>3, <3>1, <3>2, <3>3, <3>4
  <2>6. CASE ~(guard = "active" \/ calls[1].op = "onComplete")
    <3>1. calls' = Tail(calls) /\ UNCHANGED <<guard, told>>
      BY <1>6, <2>6 DEF Faulty!Throws
    <3>2. ~calls[1].end
      <4>1. 1 \in 1 .. Len(calls)
        BY <1>0, <2>1, First
      <4> QED BY <1>0, <2>2, <2>6, <4>1 DEF EndsOnce
    <3>3. calls' \in Seq(CallOf) /\ EndsOnce(calls') /\ (Ends(calls') <=> Ends(calls))
      <4>1. Ends(calls) \in BOOLEAN
        BY DEF Ends
      <4> QED BY <1>0, <2>1, <3>1, <3>2, <4>1, EndsPopped
    <3>4. StreamTyped'
      BY <2>1, <2>3, <3>1, <3>3
    <3>5. (Faulty!Outcomes = finished + (IF Ends(calls) THEN 1 ELSE 0))'
      <4>1. PICK k \in {0, 1} : Faulty!Outcomes' = Faulty!Outcomes + k /\ finished' = finished + k
        BY <2>3
      <4> QED BY <2>4, <3>3, <4>1
    <3> QED BY <2>1, <2>3, <3>1, <3>3, <3>4, <3>5
  <2> QED BY <2>5, <2>6
<1>7. ASSUME NEW n \in 1 .. MaxValues, Faulty!Request(n) PROVE FaultyInv'
  BY <1>7 DEF Faulty!Request, Faulty!Outcomes
<1> QED BY <1>1, <1>2, <1>3, <1>4, <1>5, <1>6, <1>7 DEF Faulty!Next

(* Only the end of the source counts one, and it moves the source to done, *)
(* which no cancel undoes.                                                 *)
LEMMA EndCountedStep ==
  ASSUME StreamTyped, Faulty!EndCountedOnce, Faulty!Next
  PROVE  Faulty!EndCountedOnce'
<1> USE DEF StreamTyped, Faulty!Meter, Faulty!EndCountedOnce
<1>1. CASE Faulty!OnSubscribe
  BY <1>1 DEF Faulty!OnSubscribe
<1>2. CASE Faulty!Cancel
  BY <1>2 DEF Faulty!Cancel, Faulty!CancelMetrics, Faulty!Count, Faulty!CancelSpan
<1>3. CASE Faulty!OnNext
  BY <1>3 DEF Faulty!OnNext, Faulty!Count
<1>4. ASSUME NEW o \in {"complete", "error"}, Faulty!End(o) PROVE Faulty!EndCountedOnce'
  <2>1. /\ source # "done" /\ source' = "done"
        /\ counts' = [m \in Faulty!Meter |-> IF m \in {o, "timer"} THEN counts[m] + 1 ELSE counts[m]]
    BY <1>4 DEF Faulty!End, Faulty!MaySignal, Faulty!EndMetrics, Faulty!Count
  <2> QED BY <2>1
<1>5. CASE Faulty!Returns
  BY <1>5 DEF Faulty!Returns
<1>6. CASE Faulty!Throws
  <2>1. UNCHANGED <<counts, source>>
        \/ /\ counts' = [m \in Faulty!Meter |-> IF m \in {"cancelled", "timer"} THEN counts[m] + 1 ELSE counts[m]]
           /\ source' = (IF source = "on" THEN "cancelled" ELSE source)
    BY <1>6 DEF Faulty!Throws, Faulty!CancelMetrics, Faulty!Count, Faulty!CancelSpan
  <2> QED BY <2>1
<1>7. ASSUME NEW n \in 1 .. MaxValues, Faulty!Request(n) PROVE Faulty!EndCountedOnce'
  BY <1>7 DEF Faulty!Request
<1> QED BY <1>1, <1>2, <1>3, <1>4, <1>5, <1>6, <1>7 DEF Faulty!Next

LEMMA FaultyIsSound == FaultyInv /\ Faulty!EndCountedOnce => Faulty!ObserversAgree
<1> SUFFICES ASSUME FaultyInv, Faulty!EndCountedOnce PROVE Faulty!ObserversAgree
  OBVIOUS
<1> USE DEF FaultyInv, StreamTyped
<1>1. Faulty!Idle => ~Ends(calls)
  BY EmptySeq DEF Faulty!Idle, Ends
<1> QED
  BY <1>1 DEF Faulty!ObserversAgree, Faulty!MetersMatchSpan, Faulty!OverIsCounted, Faulty!Outcomes
-----------------------------------------------------------------------------
(* Single calls.  Each of them is over at most once, and so is the span of *)
(* each of them; the terminal signals in progress are those whose span is  *)
(* still to finish.                                                        *)
FrameOf == [op : {"onSubscribe", "onComplete", "onError"}, call : Call,
            within : {"none", "complete", "error"}]

Pending(s) == {s[i].call : i \in {j \in 1 .. Len(s) : s[j].within # "none"}}

(* One terminal signal for each call, and a completion only of a call that *)
(* has been timed.                                                         *)
StackOk(s, timed) ==
  /\ \A i, j \in 1 .. Len(s) :
       s[i].within # "none" /\ s[j].within # "none" /\ s[i].call = s[j].call => i = j
  /\ \A i \in 1 .. Len(s) :
       /\ s[i].op = "onComplete" => s[i].within = "complete"
       /\ s[i].within = "complete" => s[i].call \in timed

LEMMA StackPushed ==
  ASSUME NEW s \in Seq(FrameOf), NEW e \in FrameOf, NEW timed, NEW later,
         StackOk(s, timed), timed \subseteq later,
         e.within # "none" => e.call \notin Pending(s),
         e.op = "onComplete" => e.within = "complete",
         e.within = "complete" => e.call \in later
  PROVE  LET t == <<e>> \o s IN
         /\ t \in Seq(FrameOf) /\ t # <<>> /\ StackOk(t, later)
         /\ e.within = "none" => Pending(t) = Pending(s)
         /\ e.within # "none" => Pending(t) = Pending(s) \cup {e.call}
<1> DEFINE t == <<e>> \o s
<1>1. /\ t \in Seq(FrameOf) /\ Len(t) = Len(s) + 1 /\ t # <<>>
      /\ t[1] = e /\ \A i \in 1 .. Len(s) : t[i + 1] = s[i]
      /\ \A i \in 1 .. Len(t) : i = 1 \/ (i - 1 \in 1 .. Len(s) /\ t[i] = s[i - 1])
  BY Pushed
<1>2. Len(s) \in Nat
  BY LenProperties
<1> HIDE DEF t
<1>3. ASSUME NEW i \in 1 .. Len(s) PROVE i + 1 \in 1 .. Len(t)
  BY <1>1, <1>2
<1>4. 1 \in 1 .. Len(t)
  BY <1>1, <1>2
<1>5. \A c \in Pending(s) : c \in Pending(t)
  <2> SUFFICES ASSUME NEW i \in 1 .. Len(s), s[i].within # "none" PROVE s[i].call \in Pending(t)
    BY DEF Pending
  <2>1. i + 1 \in 1 .. Len(t) /\ t[i + 1] = s[i]
    BY <1>1, <1>3
  <2> QED BY <2>1 DEF Pending
<1>6. \A c \in Pending(t) : c \in Pending(s) \/ (c = e.call /\ e.within # "none")
  <2> SUFFICES ASSUME NEW i \in 1 .. Len(t), t[i].within # "none"
               PROVE  t[i].call \in Pending(s) \/ (t[i].call = e.call /\ e.within # "none")
    BY DEF Pending
  <2>1. CASE i = 1
    BY <1>1, <2>1
  <2>2. CASE i # 1
    <3>1. PICK k \in 1 .. Len(s) : t[i] = s[k]
      BY <1>1, <2>2
    <3> QED BY <3>1 DEF Pending
  <2> QED BY <2>1, <2>2
<1>7. e.within # "none" => e.call \in Pending(t)
  BY <1>1, <1>4 DEF Pending
<1>8. ASSUME NEW i \in 1 .. Len(t), NEW j \in 1 .. Len(t),
             t[i].within # "none", t[j].within # "none", t[i].call = t[j].call
      PROVE  i = j
  <2>1. CASE i = 1 \/ j = 1
    <3>1. ASSUME NEW k \in 1 .. Len(t), k # 1, t[k].within # "none" PROVE t[k].call \in Pending(s)
      BY <1>1, <3>1 DEF Pending
    <3> QED BY <1>1, <1>8, <2>1, <3>1
  <2>2. CASE i # 1 /\ j # 1
    <3>1. PICK k \in 1 .. Len(s), l \in 1 .. Len(s) :
            k = i - 1 /\ l = j - 1 /\ t[i] = s[k] /\ t[j] = s[l]
      BY <1>1, <2>2
    <3>2. k = l
      BY <1>8, <3>1 DEF StackOk
    <3>3. i \in Int /\ j \in Int
      BY <1>1, <1>2
    <3> QED BY <3>1, <3>2, <3>3
  <2> QED BY <2>1, <2>2
<1>9. ASSUME NEW i \in 1 .. Len(t)
      PROVE  /\ t[i].op = "onComplete" => t[i].within = "complete"
             /\ t[i].within = "complete" => t[i].call \in later
  <2>1. CASE i = 1
    BY <1>1, <2>1
  <2>2. CASE i # 1
    <3>1. PICK k \in 1 .. Len(s) : t[i] = s[k]
      BY <1>1, <2>2
    <3> QED BY <3>1 DEF StackOk
  <2> QED BY <2>1, <2>2
<1>10. StackOk(t, later)
  BY <1>8, <1>9 DEF StackOk
<1> QED BY <1>1, <1>5, <1>6, <1>7, <1>10 DEF t

LEMMA StackPopped ==
  ASSUME NEW s \in Seq(FrameOf), s # <<>>, NEW timed, StackOk(s, timed)
  PROVE  /\ Tail(s) \in Seq(FrameOf) /\ StackOk(Tail(s), timed)
         /\ s[1].within = "none" => Pending(Tail(s)) = Pending(s)
         /\ s[1].within # "none" =>
              Pending(Tail(s)) = Pending(s) \ {s[1].call} /\ s[1].call \in Pending(s)
<1> DEFINE t == Tail(s)
<1>1. /\ s[1] \in FrameOf /\ Len(s) \in Nat \ {0} /\ t \in Seq(FrameOf)
      /\ Len(t) = Len(s) - 1 /\ \A i \in 1 .. Len(t) : t[i] = s[i + 1]
  BY First
<1> HIDE DEF t
<1>2. \A i \in 1 .. Len(t) : i + 1 \in 1 .. Len(s) /\ i + 1 # 1
  BY <1>1
<1>3. 1 \in 1 .. Len(s)
  BY <1>1
<1>4. StackOk(t, timed)
  <2>1. ASSUME NEW i \in 1 .. Len(t), NEW j \in 1 .. Len(t),
               t[i].within # "none", t[j].within # "none", t[i].call = t[j].call
        PROVE  i = j
    <3>1. PICK k \in 1 .. Len(s), l \in 1 .. Len(s) :
            k = i + 1 /\ l = j + 1 /\ t[i] = s[k] /\ t[j] = s[l]
      BY <1>1, <1>2
    <3>2. k = l
      BY <2>1, <3>1 DEF StackOk
    <3>3. i \in Int /\ j \in Int
      BY <1>1, <1>2
    <3> QED BY <3>1, <3>2, <3>3
  <2>2. ASSUME NEW i \in 1 .. Len(t)
        PROVE  /\ t[i].op = "onComplete" => t[i].within = "complete"
               /\ t[i].within = "complete" => t[i].call \in timed
    BY <1>1, <1>2 DEF StackOk
  <2> QED BY <2>1, <2>2 DEF StackOk
<1>5. \A c \in Pending(t) : c \in Pending(s) /\ (s[1].within # "none" => c # s[1].call)
  <2> SUFFICES ASSUME NEW i \in 1 .. Len(t), t[i].within # "none"
               PROVE  t[i].call \in Pending(s) /\ (s[1].within # "none" => t[i].call # s[1].call)
    BY DEF Pending
  <2>1. i + 1 \in 1 .. Len(s) /\ i + 1 # 1 /\ t[i] = s[i + 1]
    BY <1>1, <1>2
  <2>2. t[i].call \in Pending(s)
    BY <2>1 DEF Pending
  <2>3. s[1].within # "none" => t[i].call # s[1].call
    BY <1>3, <2>1 DEF StackOk
  <2> QED BY <2>2, <2>3
<1>6. \A c \in Pending(s) : c \in Pending(t) \/ (s[1].within # "none" /\ c = s[1].call)
  <2> SUFFICES ASSUME NEW i \in 1 .. Len(s), s[i].within # "none"
               PROVE  s[i].call \in Pending(t) \/ (s[1].within # "none" /\ s[i].call = s[1].call)
    BY DEF Pending
  <2>1. CASE i # 1
    <3>1. PICK k \in 1 .. Len(t) : i = k + 1
      <4>1. i - 1 \in 1 .. Len(t) /\ i = (i - 1) + 1
        BY <1>1, <2>1
      <4> QED BY <4>1
    <3>2. t[k] = s[i]
      BY <1>1, <3>1
    <3> QED BY <3>2 DEF Pending
  <2> QED BY <2>1
<1>7. s[1].within # "none" => s[1].call \in Pending(s)
  BY <1>3 DEF Pending
<1> QED BY <1>1, <1>4, <1>5, <1>6, <1>7 DEF t

LEMMA StackReplaced ==
  ASSUME NEW s \in Seq(FrameOf), s # <<>>, NEW timed, StackOk(s, timed)
  PROVE  LET t == [s EXCEPT ![1].op = "onError"] IN
         t \in Seq(FrameOf) /\ t # <<>> /\ StackOk(t, timed) /\ Pending(t) = Pending(s)
<1>1. s[1] \in FrameOf /\ Len(s) \in Nat \ {0}
  BY First
<1> DEFINE e == [op |-> "onError", call |-> s[1].call, within |-> s[1].within]
           t == [s EXCEPT ![1].op = "onError"]
<1>2. e \in FrameOf /\ e.call = s[1].call /\ e.within = s[1].within /\ e.op = "onError"
  BY <1>1 DEF FrameOf
<1>3. t = [s EXCEPT ![1] = e]
  <2>1. [s[1] EXCEPT !.op = "onError"] = e
    BY <1>1 DEF FrameOf
  <2> QED BY <2>1
<1>4. /\ t \in Seq(FrameOf) /\ Len(t) = Len(s)
      /\ \A i \in 1 .. Len(s) : t[i] = IF i = 1 THEN e ELSE s[i]
  <2> HIDE DEF e
  <2> QED BY <1>1, <1>2, <1>3, ExceptSeq
<1> HIDE DEF e, t
<1>5. \A i \in 1 .. Len(s) :
        /\ t[i].within = s[i].within /\ t[i].call = s[i].call /\ t[i].op \in {"onError", s[i].op}
  BY <1>2, <1>4
<1>6. StackOk(t, timed)
  BY <1>4, <1>5 DEF StackOk
<1>7. Pending(t) = Pending(s)
  BY <1>4, <1>5 DEF Pending
<1>8. t # <<>>
  BY <1>1, <1>4, EmptySeq
<1> QED BY <1>4, <1>6, <1>7, <1>8 DEF t

Layered(f) ==
  /\ f \in [1 .. 3 -> {"new", "active", "closed"}]
  /\ f[2] = f[1] \/ (f[1] = "active" /\ f[2] = "closed")
  /\ f[3] = f[1] \/ (f[1] = "active" /\ f[3] = "closed")

SinglesTyped ==
  /\ future \in [Call -> [1 .. 3 -> {"new", "active", "closed"}]]
  /\ timedFrom \subseteq Call
  /\ meters \in [{"next", "complete", "error", "cancelled", "timer", "nan"} -> Nat]
  /\ spans \in [Call -> Nat] /\ outcomes \in [Call -> {"none", "complete", "error"}]
  /\ stack \in Seq(FrameOf)

(* The calls that are over without having been timed. *)
Untimed == {c \in Single!Over \ timedFrom : outcomes[c] = "error"}

(* No error handler throws. *)
Gentle == "onError" \notin SingleThrows \/ part = "mild"

FuturesInv ==
  \A c \in Call :
    /\ Layered(future[c]) /\ (Gentle => future[c][2] = future[c][1])
    /\ future[c][1] = "new" => c \notin timedFrom
    /\ future[c][1] = "active" => c \in timedFrom

MetersInv ==
  /\ IsFiniteSet(Single!Over)
  /\ meters["timer"] = Single!Outcomes /\ meters["next"] = meters["complete"]
  /\ meters["complete"] + meters["cancelled"] <= Cardinality(Single!Over)
  /\ meters["nan"] <= Cardinality(Untimed)
  /\ Gentle => Single!Outcomes = Cardinality(Single!Over)

SpansInv ==
  \A c \in Call :
    /\ spans[c] = IF c \in Single!Over /\ c \notin Pending(stack) THEN 1 ELSE 0
    /\ c \in Pending(stack) => c \in Single!Over

SinglesInv ==
  SinglesTyped /\ FuturesInv /\ MetersInv /\ SpansInv /\ StackOk(stack, timedFrom)

LEMMA SinglesInit == Single!Init => SinglesInv
<1> SUFFICES ASSUME Single!Init PROVE SinglesInv
  OBVIOUS
<1> USE DEF Single!Init, Single!All, Single!Meter
<1>1. stack \in Seq(FrameOf) /\ Len(stack) = 0 /\ Pending(stack) = {}
  BY EmptySeq DEF Pending
<1>2. SinglesTyped
  BY <1>1 DEF SinglesTyped
<1>3. Single!Over = {} /\ Untimed = {}
  BY DEF Single!Over, Untimed
<1>4. IsFiniteSet({}) /\ Cardinality({}) = 0
  BY FS_EmptySet
<1>5. MetersInv
  BY <1>3, <1>4 DEF MetersInv, Single!Outcomes
<1>6. FuturesInv
  BY DEF FuturesInv, Layered
<1>7. SpansInv /\ StackOk(stack, timedFrom)
  BY <1>1, <1>3 DEF SpansInv, StackOk
<1> QED BY <1>2, <1>5, <1>6, <1>7 DEF SinglesInv

(* A call that ends joins those that are over. *)
LEMMA OverGrows ==
  ASSUME SinglesInv, NEW c \in Call, c \notin Single!Over,
         future' = [future EXCEPT ![c] = Single!All("closed")]
  PROVE  /\ Single!Over' = Single!Over \cup {c} /\ IsFiniteSet(Single!Over')
         /\ Cardinality(Single!Over') = Cardinality(Single!Over) + 1
         /\ Cardinality(Single!Over) \in Nat
         /\ SinglesTyped => future' \in [Call -> [1 .. 3 -> {"new", "active", "closed"}]]
<1> USE DEF SinglesInv, SinglesTyped
<1>1. /\ \A d \in Call : future'[d] = IF d = c THEN Single!All("closed") ELSE future[d]
      /\ Single!All("closed")[1] = "closed"
      /\ Single!All("closed") \in [1 .. 3 -> {"new", "active", "closed"}]
  BY DEF Single!All
<1>2. Single!Over' = Single!Over \cup {c}
  BY <1>1 DEF Single!Over
<1>3. IsFiniteSet(Single!Over)
  BY DEF MetersInv
<1>4. /\ IsFiniteSet(Single!Over \cup {c}) /\ Cardinality(Single!Over) \in Nat
      /\ Cardinality(Single!Over \cup {c}) = Cardinality(Single!Over) + 1
  BY <1>3, FS_AddElement, FS_CardinalityType
<1> QED BY <1>1, <1>2, <1>4

LEMMA Larger ==
  ASSUME NEW S, NEW T, IsFiniteSet(T), S \subseteq T
  PROVE  /\ IsFiniteSet(S) /\ Cardinality(S) \in Nat /\ Cardinality(T) \in Nat
         /\ Cardinality(S) <= Cardinality(T)
         /\ \A c \in T : c \notin S => Cardinality(S) + 1 <= Cardinality(T)
<1>1. /\ IsFiniteSet(S) /\ Cardinality(S) <= Cardinality(T)
      /\ Cardinality(S) = Cardinality(T) => S = T
  BY FS_Subset
<1>2. Cardinality(S) \in Nat /\ Cardinality(T) \in Nat
  BY <1>1, FS_CardinalityType
<1> QED BY <1>1, <1>2

(* What each way to end adds to the meters. *)
LEMMA EndCounted ==
  ASSUME SinglesInv, NEW c \in Call, c \notin Single!Over,
         NEW ms \in {{"next", "complete"}, {"error"}, {"cancelled"}}, Single!Count(c, ms),
         future' = [future EXCEPT ![c] = Single!All("closed")], UNCHANGED <<part, timedFrom>>,
         \A d \in Call : d # c => outcomes'[d] = outcomes[d],
         c \notin timedFrom => outcomes'[c] = "error"
  PROVE  MetersInv' /\ meters' \in [Single!Meter -> Nat]
<1>1. meters \in [Single!Meter -> Nat] /\ MetersInv
  BY DEF SinglesInv, SinglesTyped, Single!Meter
<1>2. /\ Single!Over' = Single!Over \cup {c} /\ IsFiniteSet(Single!Over')
      /\ Cardinality(Single!Over') = Cardinality(Single!Over) + 1 /\ Cardinality(Single!Over) \in Nat
  BY OverGrows
<1>3. PICK nan \in {{}, {"nan"}} :
        /\ meters' = [m \in Single!Meter |-> IF m \in ms \cup {"timer"} \cup nan THEN meters[m] + 1 ELSE meters[m]]
        /\ c \in timedFrom => nan = {}
  BY DEF Single!Count
<1>4. /\ meters' \in [Single!Meter -> Nat]
      /\ meters'["timer"] = Single!Outcomes' /\ meters'["next"] = meters'["complete"]
      /\ Single!Outcomes' = Single!Outcomes + 1 /\ Single!Outcomes \in Nat
      /\ meters'["complete"] + meters'["cancelled"] <= meters["complete"] + meters["cancelled"] + 1
      /\ meters'["nan"] = IF nan = {} THEN meters["nan"] ELSE meters["nan"] + 1
  <2>1. CASE ms = {"next", "complete"}
    BY <1>1, <1>3, <2>1 DEF Single!Outcomes, Single!Meter, MetersInv
  <2>2. CASE ms = {"error"}
    BY <1>1, <1>3, <2>2 DEF Single!Outcomes, Single!Meter, MetersInv
  <2>3. CASE ms = {"cancelled"}
    BY <1>1, <1>3, <2>3 DEF Single!Outcomes, Single!Meter, MetersInv
  <2> QED BY <2>1, <2>2, <2>3
<1>5. meters'["nan"] <= Cardinality(Untimed')
  <2>1. Untimed' \subseteq Single!Over' /\ Untimed \subseteq Untimed' /\ c \notin Untimed
    BY <1>2 DEF Untimed, Single!Over
  <2>2. IsFiniteSet(Untimed')
    BY <1>2, <2>1, Larger
  <2>3. /\ Cardinality(Untimed) \in Nat /\ Cardinality(Untimed') \in Nat
        /\ Cardinality(Untimed) <= Cardinality(Untimed')
        /\ c \in Untimed' => Cardinality(Untimed) + 1 <= Cardinality(Untimed')
    BY <2>1, <2>2, Larger
  <2>4. c \notin timedFrom => c \in Untimed'
    BY <1>2 DEF Untimed
  <2>5. meters["nan"] \in Nat /\ meters["nan"] <= Cardinality(Untimed)
    BY <1>1 DEF MetersInv, Single!Meter
  <2> QED BY <1>3, <1>4, <2>3, <2>4, <2>5
<1>6. Gentle' = Gentle
  BY DEF Gentle
<1>7. (meters["complete"] + meters["cancelled"] <= Cardinality(Single!Over)) /\ meters["complete"] \in Nat /\ meters["cancelled"] \in Nat
  BY <1>1 DEF MetersInv, Single!Meter
<1>8. (meters["complete"] + meters["cancelled"] <= Cardinality(Single!Over))'
  <2>1. meters'["complete"] \in Nat /\ meters'["cancelled"] \in Nat
    BY <1>4 DEF Single!Meter
  <2> QED BY <1>2, <1>4, <1>7, <2>1
<1>9. (Gentle => Single!Outcomes = Cardinality(Single!Over))'
  <2>1. Gentle => Single!Outcomes = Cardinality(Single!Over)
    BY <1>1 DEF MetersInv
  <2> QED BY <1>2, <1>4, <1>6, <2>1
<1> QED BY <1>2, <1>4, <1>5, <1>8, <1>9 DEF MetersInv

LEMMA Closing ==
  ASSUME SinglesInv, NEW c \in Call, future' = [future EXCEPT ![c] = Single!All("closed")],
         UNCHANGED <<timedFrom, part>>
  PROVE  FuturesInv'
<1> USE DEF SinglesInv, SinglesTyped
<1>1. FuturesInv
  OBVIOUS
<1>2. /\ Layered(Single!All("closed")) /\ Single!All("closed")[1] = "closed"
      /\ Single!All("closed")[2] = "closed"
  BY DEF Layered, Single!All
<1>3. ASSUME NEW d \in Call PROVE future'[d] = IF d = c THEN Single!All("closed") ELSE future[d]
  OBVIOUS
<1> QED BY <1>1, <1>2, <1>3 DEF FuturesInv, Gentle

(* One whose metrics have been told an error before adds nothing. *)
LEMMA EndSilent ==
  ASSUME SinglesInv, NEW c \in Call, c \notin Single!Over, c \in timedFrom, ~Gentle,
         future' = [future EXCEPT ![c] = Single!All("closed")],
         UNCHANGED <<part, timedFrom, meters>>, \A d \in Call : d # c => outcomes'[d] = outcomes[d]
  PROVE  MetersInv'
<1>1. MetersInv /\ meters \in [Single!Meter -> Nat]
  BY DEF SinglesInv, SinglesTyped, Single!Meter
<1>2. /\ Single!Over' = Single!Over \cup {c} /\ IsFiniteSet(Single!Over')
      /\ Cardinality(Single!Over') = Cardinality(Single!Over) + 1 /\ Cardinality(Single!Over) \in Nat
  BY OverGrows
<1>3. Untimed' = Untimed
  BY <1>2 DEF Untimed, Single!Over
<1>4. (meters["complete"] + meters["cancelled"] <= Cardinality(Single!Over))'
  BY <1>1, <1>2 DEF MetersInv, Single!Meter
<1>5. ~Gentle'
  BY DEF Gentle
<1> QED BY <1>1, <1>2, <1>3, <1>4, <1>5 DEF MetersInv, Single!Outcomes

LEMMA MetersStay ==
  ASSUME SinglesInv, Single!Over' = Single!Over, Untimed \subseteq Untimed', UNCHANGED <<meters, part>>
  PROVE  MetersInv'
<1>1. MetersInv /\ meters["nan"] \in Nat
  BY DEF SinglesInv, SinglesTyped
<1>2. IsFiniteSet(Single!Over) /\ Untimed' \subseteq Single!Over
  BY <1>1 DEF MetersInv, Untimed
<1>3. IsFiniteSet(Untimed')
  BY <1>2, Larger
<1>4. /\ Cardinality(Untimed) \in Nat /\ Cardinality(Untimed') \in Nat
      /\ Cardinality(Untimed) <= Cardinality(Untimed')
  BY <1>3, Larger
<1>5. meters["nan"] <= Cardinality(Untimed')
  BY <1>1, <1>4 DEF MetersInv
<1> QED BY <1>1, <1>5 DEF MetersInv, Single!Outcomes, Gentle

(* A callback is left: in a terminal signal, its span finishes. *)
LEMMA Leaving ==
  ASSUME SinglesInv, stack # <<>>, Single!Leave, Single!Over' = Single!Over, UNCHANGED timedFrom
  PROVE  /\ SpansInv' /\ StackOk(stack, timedFrom)'
         /\ stack' \in Seq(FrameOf) /\ spans' \in [Call -> Nat]
<1> USE DEF SinglesInv, SinglesTyped
<1>1. /\ stack[1] \in FrameOf /\ stack' = Tail(stack)
      /\ stack' \in Seq(FrameOf) /\ StackOk(stack', timedFrom)
      /\ stack[1].within = "none" => Pending(stack') = Pending(stack)
      /\ stack[1].within # "none" =>
           Pending(stack') = Pending(stack) \ {stack[1].call} /\ stack[1].call \in Pending(stack)
  <2>1. stack \in Seq(FrameOf) /\ StackOk(stack, timedFrom) /\ stack' = Tail(stack)
    BY DEF Single!Leave
  <2> QED BY <2>1, StackPopped, First
<1>2. CASE stack[1].within = "none"
  <2>1. UNCHANGED spans
    BY <1>2 DEF Single!Leave
  <2> QED BY <1>1, <1>2, <2>1 DEF SpansInv
<1>3. CASE stack[1].within # "none"
  <2>1. PICK c \in Call : c = stack[1].call
    BY <1>1 DEF FrameOf
  <2>2. spans' = [spans EXCEPT ![c] = @ + 1]
    BY <1>3, <2>1 DEF Single!Leave, Single!Finish
  <2>3. spans[c] = 0 /\ c \in Single!Over
    BY <1>1, <1>3, <2>1 DEF SpansInv
  <2>4. ASSUME NEW d \in Call
        PROVE  /\ spans'[d] = IF d \in Single!Over /\ d \notin Pending(stack') THEN 1 ELSE 0
               /\ d \in Pending(stack') => d \in Single!Over
    BY <1>1, <1>3, <2>1, <2>2, <2>3 DEF SpansInv
  <2>5. spans' \in [Call -> Nat]
    BY <2>2
  <2> QED BY <1>1, <2>4, <2>5 DEF SpansInv
<1> QED BY <1>2, <1>3

LEMMA SingleOnSubscribe ==
  ASSUME SinglesInv, NEW c \in Call, Single!OnSubscribe(c), UNCHANGED part
  PROVE  SinglesInv'
<1> USE DEF SinglesInv, SinglesTyped
<1> DEFINE e == [op |-> "onSubscribe", call |-> c, within |-> "none"]
<1>1. /\ future[c] = Single!All("new") /\ future' = [future EXCEPT ![c] = Single!All("active")]
      /\ timedFrom' = timedFrom \cup {c} /\ stack' = <<e>> \o stack
      /\ UNCHANGED <<meters, spans, outcomes>>
  BY DEF Single!OnSubscribe, Single!Callback
<1>2. /\ Layered(Single!All("active")) /\ Single!All("active")[1] = "active" /\ Single!All("new")[1] = "new"
      /\ Single!All("active")[2] = "active"
      /\ Single!All("active") \in [1 .. 3 -> {"new", "active", "closed"}]
  BY DEF Layered, Single!All
<1>3. ASSUME NEW d \in Call PROVE future'[d] = IF d = c THEN Single!All("active") ELSE future[d]
  BY <1>1
<1>4. Single!Over' = Single!Over /\ c \notin Single!Over
  BY <1>1, <1>2, <1>3 DEF Single!Over
<1>5. FuturesInv'
  BY <1>1, <1>2, <1>3 DEF FuturesInv, Gentle
<1>6. e \in FrameOf /\ e.within = "none" /\ e.op = "onSubscribe"
  BY DEF FrameOf
<1>7. stack' \in Seq(FrameOf) /\ StackOk(stack', timedFrom') /\ Pending(stack') = Pending(stack)
  <2>1. stack \in Seq(FrameOf) /\ StackOk(stack, timedFrom) /\ timedFrom \subseteq timedFrom'
    BY <1>1
  <2> HIDE DEF e
  <2> QED BY <1>1, <1>6, <2>1, StackPushed
<1>8. MetersInv'
  <2>1. Untimed' = Untimed
    BY <1>1, <1>4 DEF Untimed
  <2> QED BY <1>1, <1>4, <2>1, MetersStay
<1>9. SpansInv'
  BY <1>1, <1>4, <1>7 DEF SpansInv
<1>10. SinglesTyped'
  BY <1>1, <1>2, <1>7
<1> QED BY <1>5, <1>7, <1>8, <1>9, <1>10

LEMMA SingleCancel ==
  ASSUME SinglesInv, NEW c \in Call, Single!Cancel(c), UNCHANGED part
  PROVE  SinglesInv'
<1> USE DEF SinglesInv, SinglesTyped
<1>1. /\ future[c][3] = "active" /\ future' = [future EXCEPT ![c] = Single!All("closed")]
      /\ Single!Count(c, {"cancelled"}) /\ spans' = [spans EXCEPT ![c] = @ + 1]
      /\ UNCHANGED <<timedFrom, outcomes, stack>>
  BY DEF Single!Cancel, Single!Finish
<1>2. c \notin Single!Over /\ c \in timedFrom
  BY <1>1 DEF FuturesInv, Layered, Single!Over
<1>3. /\ Single!Over' = Single!Over \cup {c}
      /\ future' \in [Call -> [1 .. 3 -> {"new", "active", "closed"}]]
  BY <1>1, <1>2, OverGrows
<1>4. MetersInv' /\ meters' \in [Single!Meter -> Nat]
  BY <1>1, <1>2, EndCounted
<1>5. FuturesInv'
  BY <1>1, Closing
<1>6. SpansInv' /\ spans' \in [Call -> Nat]
  <2>1. c \notin Pending(stack) /\ spans[c] = 0
    BY <1>2 DEF SpansInv
  <2>2. ASSUME NEW d \in Call
        PROVE  /\ spans'[d] = IF d \in Single!Over' /\ d \notin Pending(stack') THEN 1 ELSE 0
               /\ d \in Pending(stack') => d \in Single!Over'
    BY <1>1, <1>3, <2>1 DEF SpansInv
  <2>3. spans' \in [Call -> Nat]
    BY <1>1
  <2> QED BY <2>2, <2>3 DEF SpansInv
<1>7. StackOk(stack, timedFrom)'
  BY <1>1
<1>8. SinglesTyped'
  BY <1>1, <1>3, <1>4, <1>6 DEF Single!Meter
<1> QED BY <1>4, <1>5, <1>6, <1>7, <1>8

LEMMA SingleEnd ==
  ASSUME SinglesInv, NEW c \in Call, NEW o \in {"complete", "error"}, Single!End(c, o), UNCHANGED part
  PROVE  SinglesInv'
<1> USE DEF SinglesInv, SinglesTyped
<1>1. /\ future[c][1] = "active" \/ (o = "error" /\ future[c][1] = "new")
      /\ future' = [future EXCEPT ![c] = Single!All("closed")]
      /\ IF future[c][2] # "closed" THEN Single!CountEnd(c, o) ELSE UNCHANGED meters
      /\ UNCHANGED timedFrom
  BY DEF Single!End
<1>2. c \notin Single!Over /\ (o = "complete" => c \in timedFrom)
  BY <1>1 DEF FuturesInv, Single!Over
<1>3. /\ Single!Over' = Single!Over \cup {c}
      /\ future' \in [Call -> [1 .. 3 -> {"new", "active", "closed"}]]
  BY <1>1, <1>2, OverGrows
<1>4. FuturesInv'
  BY <1>1, Closing
<1>5. c \notin Pending(stack) /\ spans[c] = 0
  BY <1>2 DEF SpansInv
<1>6. CASE future[c][3] # "closed"
  <2> DEFINE e == [op |-> IF o = "error" THEN "onError" ELSE "onComplete", call |-> c, within |-> o]
  <2>1. /\ outcomes' = [outcomes EXCEPT ![c] = o] /\ UNCHANGED spans /\ stack' = <<e>> \o stack
    BY <1>6 DEF Single!End, Single!Callback
  <2>2. /\ e \in FrameOf /\ e.within = o /\ e.call = c /\ e.within # "none"
        /\ (e.op = "onComplete" => o = "complete")
    BY DEF FrameOf
  <2>3. /\ stack' \in Seq(FrameOf) /\ StackOk(stack', timedFrom)
        /\ Pending(stack') = Pending(stack) \cup {c}
    <3>1. stack \in Seq(FrameOf) /\ StackOk(stack, timedFrom)
      OBVIOUS
    <3> HIDE DEF e
    <3> QED BY <1>2, <1>5, <2>1, <2>2, <3>1, StackPushed
  <2>4. MetersInv' /\ meters' \in [Single!Meter -> Nat]
    <3>1. (\A d \in Call : d # c => outcomes'[d] = outcomes[d]) /\ outcomes'[c] = o
      BY <2>1
    <3>2. CASE future[c][2] # "closed"
      <4>1. o = "error" => Single!Count(c, {"error"})
        BY <1>1, <3>2 DEF Single!CountEnd
      <4>2. o = "complete" => Single!Count(c, {"next", "complete"})
        BY <1>1, <3>2 DEF Single!CountEnd
      <4> QED BY <1>1, <1>2, <3>1, <4>1, <4>2, EndCounted
    <3>3. CASE future[c][2] = "closed"
      <4>1. ~Gentle /\ UNCHANGED meters /\ c \in timedFrom
        BY <1>1, <1>2, <3>3 DEF FuturesInv, Layered, Single!Over
      <4> QED BY <1>1, <1>2, <3>1, <4>1, EndSilent DEF Single!Meter
    <3> QED BY <3>2, <3>3
  <2>5. SpansInv'
    BY <1>3, <1>5, <2>1, <2>3 DEF SpansInv
  <2>6. SinglesTyped'
    BY <1>1, <1>3, <2>1, <2>3, <2>4 DEF Single!Meter
  <2> QED BY <1>1, <1>4, <2>3, <2>4, <2>5, <2>6
<1>7. CASE future[c][3] = "closed"
  <2>1. spans' = [spans EXCEPT ![c] = @ + 1] /\ UNCHANGED <<outcomes, stack>>
    BY <1>7 DEF Single!End, Single!Finish
  <2>2. c \in timedFrom
    BY <1>1, <1>7 DEF FuturesInv, Layered
  <2>3. MetersInv' /\ meters' \in [Single!Meter -> Nat]
    <3>1. CASE future[c][2] # "closed"
      <4>1. o = "error" => Single!Count(c, {"error"})
        BY <1>1, <3>1 DEF Single!CountEnd
      <4>2. o = "complete" => Single!Count(c, {"next", "complete"})
        BY <1>1, <3>1 DEF Single!CountEnd
      <4> QED BY <1>1, <1>2, <2>1, <2>2, <4>1, <4>2, EndCounted
    <3>2. CASE future[c][2] = "closed"
      <4>1. ~Gentle /\ UNCHANGED meters
        BY <1>1, <3>2 DEF FuturesInv
      <4> QED BY <1>1, <1>2, <2>1, <2>2, <4>1, EndSilent DEF Single!Meter
    <3> QED BY <3>1, <3>2
  <2>4. SpansInv' /\ spans' \in [Call -> Nat]
    <3>1. ASSUME NEW d \in Call
          PROVE  /\ spans'[d] = IF d \in Single!Over' /\ d \notin Pending(stack') THEN 1 ELSE 0
                 /\ d \in Pending(stack') => d \in Single!Over'
      BY <1>3, <1>5, <2>1 DEF SpansInv
    <3>2. spans' \in [Call -> Nat]
      BY <2>1
    <3> QED BY <3>1, <3>2 DEF SpansInv
  <2>5. SinglesTyped'
    BY <1>1, <1>3, <2>1, <2>3, <2>4 DEF Single!Meter
  <2>6. StackOk(stack, timedFrom)'
    BY <1>1, <2>1
  <2> QED BY <1>4, <2>3, <2>4, <2>5, <2>6
<1> QED BY <1>6, <1>7

LEMMA SingleReturns ==
  ASSUME SinglesInv, Single!Returns, UNCHANGED part
  PROVE  SinglesInv'
<1> USE DEF SinglesInv, SinglesTyped
<1>1. stack # <<>> /\ Single!Leave /\ UNCHANGED <<future, timedFrom, meters, outcomes>>
  BY DEF Single!Returns, Single!Idle
<1>2. Single!Over' = Single!Over
  BY <1>1 DEF Single!Over
<1>3. Untimed' = Untimed
  BY <1>1, <1>2 DEF Untimed
<1>4. MetersInv'
  BY <1>1, <1>2, <1>3, MetersStay
<1>5. FuturesInv'
  BY <1>1 DEF FuturesInv, Gentle
<1>6. /\ SpansInv' /\ StackOk(stack, timedFrom)'
      /\ stack' \in Seq(FrameOf) /\ spans' \in [Call -> Nat]
  BY <1>1, <1>2, Leaving
<1> QED BY <1>1, <1>4, <1>5, <1>6

(* What throws but an error handler: the subscriber is told an error in    *)
(* its place, or the exception goes on to the caller.                      *)
LEMMA SingleThrows1 ==
  ASSUME SinglesInv, Single!Throws, stack[1].op # "onError", UNCHANGED part
  PROVE  SinglesInv'
<1> USE DEF SinglesInv, SinglesTyped
<1>1. /\ stack # <<>> /\ stack \in Seq(FrameOf) /\ StackOk(stack, timedFrom)
      /\ stack[1] \in FrameOf /\ UNCHANGED <<meters, timedFrom>>
  BY First DEF Single!Throws, Single!Idle
<1>2. PICK c \in Call : c = stack[1].call
  BY <1>1 DEF FrameOf
<1>3. CASE stack[1].op = "onComplete" \/ future[c][3] = "active"
  <2>1. /\ outcomes' = [outcomes EXCEPT ![c] = "error"] /\ UNCHANGED spans
        /\ stack' = [stack EXCEPT ![1].op = "onError"]
        /\ future' = [future EXCEPT ![c][3] = "closed"]
    BY <1>2, <1>3 DEF Single!Throws
  <2>2. /\ stack' \in Seq(FrameOf) /\ StackOk(stack', timedFrom) /\ Pending(stack') = Pending(stack)
    BY <1>1, <2>1, StackReplaced
  <2>3. future[c][1] # "new"
    <3>1. CASE future[c][3] = "active"
      BY <3>1 DEF FuturesInv, Layered
    <3>2. CASE stack[1].op = "onComplete"
      <4>1. 1 \in 1 .. Len(stack)
        BY <1>1, First
      <4>2. c \in Pending(stack)
        BY <1>2, <3>2, <4>1 DEF StackOk, Pending
      <4>3. c \in Single!Over
        BY <4>2 DEF SpansInv
      <4> QED BY <4>3 DEF Single!Over
    <3> QED BY <1>3, <3>1, <3>2
  <2>4. PICK f : f = [future[c] EXCEPT ![3] = "closed"]
    OBVIOUS
  <2>5. /\ Layered(f) /\ f[1] = future[c][1] /\ f[2] = future[c][2]
        /\ f \in [1 .. 3 -> {"new", "active", "closed"}]
    <3>1. Layered(future[c]) /\ future[c][1] \in {"active", "closed"}
      BY <2>3 DEF FuturesInv, Layered
    <3> QED BY <2>4, <3>1 DEF Layered
  <2>6. future' = [future EXCEPT ![c] = f]
    BY <2>1, <2>4
  <2>7. \A d \in Call : future'[d] = IF d = c THEN f ELSE future[d]
    BY <2>6
  <2>8. FuturesInv' /\ Single!Over' = Single!Over
    <3>1. FuturesInv'
      BY <1>1, <2>5, <2>7 DEF FuturesInv, Gentle
    <3>2. \A d \in Call : future'[d][1] = future[d][1]
      BY <2>5, <2>7
    <3> QED BY <3>1, <3>2 DEF Single!Over
  <2>9. Untimed \subseteq Untimed'
    BY <1>1, <2>1, <2>8 DEF Untimed, Single!Over
  <2>10. MetersInv'
    BY <1>1, <2>8, <2>9, MetersStay
  <2>11. SpansInv'
    BY <2>1, <2>2, <2>8 DEF SpansInv
  <2>12. SinglesTyped'
    BY <1>1, <2>1, <2>2, <2>5, <2>6
  <2> QED BY <1>1, <2>2, <2>8, <2>10, <2>11, <2>12
<1>4. CASE ~(stack[1].op = "onComplete" \/ future[c][3] = "active")
  <2>1. Single!Leave /\ UNCHANGED <<outcomes, future>>
    BY <1>2, <1>4 DEF Single!Throws
  <2>2. Single!Over' = Single!Over
    BY <2>1 DEF Single!Over
  <2>3. Untimed' = Untimed
    BY <1>1, <2>1, <2>2 DEF Untimed
  <2>4. MetersInv'
    BY <1>1, <2>2, <2>3, MetersStay
  <2>5. FuturesInv'
    BY <1>1, <2>1 DEF FuturesInv, Gentle
  <2>6. /\ SpansInv' /\ StackOk(stack, timedFrom)'
        /\ stack' \in Seq(FrameOf) /\ spans' \in [Call -> Nat]
    BY <1>1, <2>1, <2>2, Leaving
  <2> QED BY <1>1, <2>1, <2>4, <2>5, <2>6
<1> QED BY <1>3, <1>4

(* An error handler that throws: within a completion the call counts as    *)
(* failed on top, within onSubscribe as failed while it goes on.           *)
LEMMA SingleThrows2 ==
  ASSUME SinglesInv, Single!Throws, stack[1].op = "onError", ~Gentle, UNCHANGED part
  PROVE  SinglesInv'
<1> USE DEF SinglesInv, SinglesTyped
<1>1. /\ stack # <<>> /\ stack \in Seq(FrameOf) /\ StackOk(stack, timedFrom) /\ stack[1] \in FrameOf
      /\ 1 \in 1 .. Len(stack) /\ Single!Leave /\ UNCHANGED <<outcomes, timedFrom>>
  BY First DEF Single!Throws, Single!Idle
<1>2. PICK c \in Call : c = stack[1].call
  BY <1>1 DEF FrameOf
<1>3. /\ \/ UNCHANGED <<meters, future>>
         \/ Single!Count(c, {"error"}) /\ c \in timedFrom
      /\ \/ UNCHANGED future
         \/ future[c][2] = "active" /\ future' = [future EXCEPT ![c][2] = "closed"]
  <2>1. Single!CaughtInside(c, stack[1].within)
    BY <1>2 DEF Single!Throws
  <2>2. stack[1].within = "complete" => c \in timedFrom
    BY <1>1, <1>2 DEF StackOk
  <2>3. future[c][2] = "active" => c \in timedFrom
    BY DEF FuturesInv, Layered
  <2> QED BY <2>1, <2>2, <2>3 DEF Single!CaughtInside, Single!CountEnd
<1>4. /\ future' \in [Call -> [1 .. 3 -> {"new", "active", "closed"}]]
      /\ \A d \in Call : future'[d][1] = future[d][1]
      /\ FuturesInv'
  <2>1. CASE UNCHANGED future
    BY <1>1, <2>1 DEF FuturesInv, Gentle
  <2>2. CASE future[c][2] = "active" /\ future' = [future EXCEPT ![c][2] = "closed"]
    <3>1. PICK f : f = [future[c] EXCEPT ![2] = "closed"]
      OBVIOUS
    <3>2. future[c][1] = "active" /\ Layered(future[c])
      BY <2>2 DEF FuturesInv, Layered
    <3>3. Layered(f) /\ f[1] = future[c][1] /\ f \in [1 .. 3 -> {"new", "active", "closed"}]
      BY <3>1, <3>2 DEF Layered
    <3>4. \A d \in Call : future'[d] = IF d = c THEN f ELSE future[d]
      BY <2>2, <3>1
    <3>5. ~Gentle'
      BY DEF Gentle
    <3>6. future' = [future EXCEPT ![c] = f]
      BY <2>2, <3>1
    <3>7. FuturesInv'
      BY <1>1, <3>3, <3>4, <3>5 DEF FuturesInv
    <3> QED BY <3>3, <3>4, <3>6, <3>7
  <2> QED BY <1>3, <2>1, <2>2
<1>5. Single!Over' = Single!Over
  BY <1>4 DEF Single!Over
<1>6. Untimed' = Untimed
  BY <1>1, <1>5 DEF Untimed
<1>7. MetersInv' /\ meters' \in [Single!Meter -> Nat]
  <2>1. CASE Single!Count(c, {"error"}) /\ c \in timedFrom
    <3>1. meters' = [m \in Single!Meter |-> IF m \in {"error", "timer"} THEN meters[m] + 1 ELSE meters[m]]
      BY <2>1 DEF Single!Count
    <3>2. /\ meters' \in [Single!Meter -> Nat] /\ meters'["timer"] = Single!Outcomes'
          /\ meters'["next"] = meters'["complete"] /\ UNCHANGED <<meters["complete"], meters["cancelled"], meters["nan"]>>
      BY <3>1 DEF MetersInv, Single!Outcomes, Single!Meter
    <3>3. ~Gentle'
      BY DEF Gentle
    <3> QED BY <1>5, <1>6, <3>2, <3>3 DEF MetersInv
  <2>2. CASE UNCHANGED meters
    <3>1. MetersInv'
      BY <1>5, <1>6, <2>2, MetersStay
    <3> QED BY <2>2, <3>1 DEF Single!Meter
  <2> QED BY <1>3, <2>1, <2>2
<1>8. /\ SpansInv' /\ StackOk(stack, timedFrom)'
      /\ stack' \in Seq(FrameOf) /\ spans' \in [Call -> Nat]
  BY <1>1, <1>5, Leaving
<1> QED BY <1>1, <1>4, <1>7, <1>8 DEF Single!Meter

LEMMA SingleNext == SinglesInv /\ Single!Next /\ part = "single" /\ UNCHANGED part => SinglesInv'
<1> SUFFICES ASSUME SinglesInv, Single!Next, part = "single", UNCHANGED part PROVE SinglesInv'
  OBVIOUS
<1>1. CASE Single!Throws
  <2>1. CASE stack[1].op = "onError"
    <3>1. ~Gentle
      BY <1>1, <2>1 DEF Gentle, Single!Throws
    <3> QED BY <1>1, <2>1, <3>1, SingleThrows2
  <2> QED BY <1>1, <2>1, SingleThrows1
<1> QED
  BY <1>1, SingleReturns, SingleOnSubscribe, SingleCancel, SingleEnd DEF Single!Next

(* Without an error handler that throws, the steps are among the others.   *)
LEMMA MildNext == SinglesInv /\ Mild!Next /\ UNCHANGED part => SinglesInv'
<1> SUFFICES ASSUME SinglesInv, Mild!Next, UNCHANGED part PROVE SinglesInv'
  OBVIOUS
<1>1. CASE Mild!Returns
  <2>1. Single!Returns
    BY <1>1 DEF Mild!Returns, Mild!Idle, Mild!Leave, Mild!Finish,
                Single!Returns, Single!Idle, Single!Leave, Single!Finish
  <2> QED BY <2>1, SingleReturns
<1>2. CASE Mild!Throws
  <2>1. stack[1].op # "onError"
    BY <1>2 DEF Mild!Throws
  <2>2. Single!Throws
    BY <1>2, <2>1 DEF Mild!Throws, Mild!Idle, Mild!Leave, Mild!Finish,
                      Single!Throws, Single!Idle, Single!Leave, Single!Finish
  <2> QED BY <2>1, <2>2, SingleThrows1
<1>3. ASSUME NEW c \in Call, Mild!OnSubscribe(c) PROVE SinglesInv'
  <2>1. Single!OnSubscribe(c)
    BY <1>3 DEF Mild!OnSubscribe, Mild!All, Mild!Callback, Single!OnSubscribe, Single!All, Single!Callback
  <2> QED BY <2>1, SingleOnSubscribe
<1>4. ASSUME NEW c \in Call, Mild!Cancel(c) PROVE SinglesInv'
  <2>1. Single!Cancel(c)
    BY <1>4 DEF Mild!Cancel, Mild!All, Mild!Count, Mild!Meter, Mild!Finish,
                Single!Cancel, Single!All, Single!Count, Single!Meter, Single!Finish
  <2> QED BY <2>1, SingleCancel
<1>5. ASSUME NEW c \in Call, NEW o \in {"complete", "error"}, Mild!End(c, o) PROVE SinglesInv'
  <2>1. Single!End(c, o)
    BY <1>5 DEF Mild!End, Mild!All, Mild!CountEnd, Mild!Count, Mild!Meter, Mild!Finish, Mild!Callback,
                Single!End, Single!All, Single!CountEnd, Single!Count, Single!Meter, Single!Finish, Single!Callback
  <2> QED BY <2>1, SingleEnd
<1> QED BY <1>1, <1>2, <1>3, <1>4, <1>5 DEF Mild!Next

(* The instances count with the same operator. *)
LEMMA SameCardinality ==
  ASSUME NEW S
  PROVE  Single!Cardinality(S) = Cardinality(S) /\ Mild!Cardinality(S) = Cardinality(S)
BY DEF Cardinality, Single!Cardinality, Mild!Cardinality

LEMMA SinglesSound == SinglesInv => SinglesAccounted
<1> SUFFICES ASSUME SinglesInv PROVE SinglesAccounted
  OBVIOUS
<1> USE DEF SinglesInv, SinglesTyped
<1>1. Single!OutcomesAddUp /\ (part = "mild" => Mild!OutcomesAddUp)
  <2>1. Mild!Over = Single!Over /\ Mild!Outcomes = Single!Outcomes
    BY DEF Mild!Over, Single!Over, Mild!Outcomes, Single!Outcomes
  <2>2. /\ meters["timer"] = Single!Outcomes /\ meters["next"] = meters["complete"]
        /\ meters["complete"] + meters["cancelled"] <= Cardinality(Single!Over)
        /\ Gentle => Single!Outcomes = Cardinality(Single!Over)
    BY DEF MetersInv
  <2>3. Single!OutcomesAddUp
    BY <2>2, SameCardinality DEF Gentle, Single!OutcomesAddUp
  <2>4. ASSUME part = "mild" PROVE Mild!OutcomesAddUp
    <3>1. Gentle
      BY <2>4 DEF Gentle
    <3> QED BY <2>1, <2>2, <3>1, SameCardinality DEF Mild!OutcomesAddUp
  <2> QED BY <2>3, <2>4
<1>2. Single!SpanOnce /\ Mild!SpanOnce
  <2>1. stack = <<>> => Pending(stack) = {}
    BY EmptySeq DEF Pending
  <2> QED
    BY <2>1 DEF SpansInv, Single!SpanOnce, Mild!SpanOnce, Single!Idle, Mild!Idle, Single!Over, Mild!Over
<1>3. Single!NaNOnlyFromThrow /\ Mild!NaNOnlyFromThrow
  <2>1. Mild!Over = Single!Over
    BY DEF Mild!Over, Single!Over
  <2>2. meters["nan"] <= Cardinality(Untimed)
    BY DEF MetersInv
  <2> QED BY <2>1, <2>2, SameCardinality DEF Untimed, Single!NaNOnlyFromThrow, Mild!NaNOnlyFromThrow
<1> QED
  BY <1>1, <1>2, <1>3 DEF SinglesAccounted, Single!SinglesAccounted, Mild!SinglesAccounted
-----------------------------------------------------------------------------
(* The run of them all: a behaviour has one of the observers, and the      *)
(* others stay as they began.                                              *)

(* What keeps its promises may as well cross and throw, but does not.      *)
LEMMA OrderlyIsFaulty == Orderly!Next => Faulty!Next
<1> SUFFICES ASSUME Orderly!Next PROVE Faulty!Next
  OBVIOUS
<1>1. CASE Orderly!OnSubscribe
  <2>1. Faulty!OnSubscribe
    BY <1>1 DEF Orderly!OnSubscribe, Orderly!User, Orderly!Callback,
                Faulty!OnSubscribe, Faulty!User, Faulty!Callback
  <2> QED BY <2>1 DEF Faulty!Next
<1>2. CASE Orderly!Cancel
  <2>1. Faulty!Cancel
    BY <1>2 DEF Orderly!Cancel, Orderly!CancelMetrics, Orderly!CancelSpan, Orderly!Count, Orderly!Finish, Orderly!Meter,
                Faulty!Cancel, Faulty!CancelMetrics, Faulty!CancelSpan, Faulty!Count, Faulty!Finish, Faulty!Meter
  <2> QED BY <2>1 DEF Faulty!Next
<1>3. CASE Orderly!OnNext
  <2>1. Faulty!OnNext
    BY <1>3 DEF Orderly!OnNext, Orderly!MaySignal, Orderly!Count, Orderly!Meter, Orderly!User, Orderly!Callback,
                Faulty!OnNext, Faulty!MaySignal, Faulty!Count, Faulty!Meter, Faulty!User, Faulty!Callback
  <2> QED BY <2>1 DEF Faulty!Next
<1>4. ASSUME NEW o \in {"complete", "error"}, Orderly!End(o) PROVE Faulty!Next
  <2>1. Faulty!End(o)
    BY <1>4 DEF Orderly!End, Orderly!MaySignal, Orderly!EndMetrics, Orderly!Count, Orderly!Meter, Orderly!Finish,
                Orderly!User, Orderly!Callback,
                Faulty!End, Faulty!MaySignal, Faulty!EndMetrics, Faulty!Count, Faulty!Meter, Faulty!Finish,
                Faulty!User, Faulty!Callback
  <2> QED BY <2>1 DEF Faulty!Next
<1>5. CASE Orderly!Returns
  <2>1. Faulty!Returns
    BY <1>5 DEF Orderly!Returns, Orderly!Idle, Orderly!Finish, Faulty!Returns, Faulty!Idle, Faulty!Finish
  <2> QED BY <2>1 DEF Faulty!Next
<1>6. CASE Orderly!Throws
  BY <1>6 DEF Orderly!Throws
<1>7. ASSUME NEW n \in 1 .. MaxValues, Orderly!Request(n) PROVE Faulty!Next
  <2>1. Faulty!Request(n)
    BY <1>7 DEF Orderly!Request, Faulty!Request
  <2> QED BY <2>1 DEF Faulty!Next
<1> QED BY <1>1, <1>2, <1>3, <1>4, <1>5, <1>6, <1>7 DEF Orderly!Next

ObserversInv ==
  (part = "orderly" => OrderlyInv) /\ FaultyInv /\ Faulty!EndCountedOnce /\ SinglesInv

LEMMA ObserversStep == ObserversInv /\ [MCNext]_<<part, stream, single>> => ObserversInv'
<1> SUFFICES ASSUME ObserversInv, [MCNext]_<<part, stream, single>> PROVE ObserversInv'
  OBVIOUS
<1>1. FaultyInv /\ Faulty!EndCountedOnce /\ SinglesInv
  BY DEF ObserversInv
<1>2. UNCHANGED part
  BY DEF MCNext
<1>3. ASSUME UNCHANGED stream
      PROVE  FaultyInv' /\ Faulty!EndCountedOnce' /\ (OrderlyInv => OrderlyInv')
  BY <1>1, <1>3 DEF stream, FaultyInv, OrderlyInv, StreamTyped, Faulty!Outcomes, Ends, EndsOnce,
                    Faulty!EndCountedOnce
<1>4. ASSUME UNCHANGED single PROVE SinglesInv'
  <2>1. UNCHANGED <<future, timedFrom, meters, spans, outcomes, stack>>
    BY <1>4 DEF single
  <2>2. Single!Over' = Single!Over /\ Untimed' = Untimed
    BY <2>1 DEF Single!Over, Untimed
  <2>3. MetersInv'
    BY <1>1, <1>2, <2>1, <2>2, MetersStay
  <2>4. SpansInv'
    BY <1>1, <2>1, <2>2 DEF SinglesInv, SpansInv, Pending
  <2>5. FuturesInv /\ SinglesTyped /\ StackOk(stack, timedFrom)
    BY <1>1 DEF SinglesInv
  <2>6. FuturesInv'
    BY <1>2, <2>1, <2>5 DEF FuturesInv, Layered, Gentle
  <2>7. SinglesTyped'
    BY <2>1, <2>5 DEF SinglesTyped
  <2>8. StackOk(stack, timedFrom)'
    BY <2>1, <2>5 DEF StackOk
  <2> QED BY <2>3, <2>4, <2>6, <2>7, <2>8 DEF SinglesInv
<1>5. CASE part = "orderly" /\ Orderly!Next /\ UNCHANGED single
  <2>1. OrderlyInv'
    BY <1>5, OrderlyStep DEF ObserversInv
  <2>2. FaultyInv' /\ Faulty!EndCountedOnce'
    BY <1>1, <1>5, OrderlyIsFaulty, FaultyStep, EndCountedStep DEF FaultyInv
  <2> QED BY <1>4, <1>5, <2>1, <2>2 DEF ObserversInv
<1>6. CASE part = "faulty" /\ Faulty!Next /\ UNCHANGED single
  <2>1. FaultyInv' /\ Faulty!EndCountedOnce'
    BY <1>1, <1>6, FaultyStep, EndCountedStep DEF FaultyInv
  <2> QED BY <1>2, <1>4, <1>6, <2>1 DEF ObserversInv
<1>7. CASE part = "single" /\ Single!Next /\ UNCHANGED stream
  BY <1>1, <1>2, <1>3, <1>7, SingleNext DEF ObserversInv
<1>8. CASE part = "mild" /\ Mild!Next /\ UNCHANGED stream
  BY <1>1, <1>2, <1>3, <1>8, MildNext DEF ObserversInv
<1>9. CASE UNCHANGED <<part, stream, single>>
  BY <1>2, <1>3, <1>4, <1>9 DEF ObserversInv
<1> QED BY <1>5, <1>6, <1>7, <1>8, <1>9 DEF MCNext

LEMMA ObserversInvariance == MCSpec => []ObserversInv
<1>1. MCInit => ObserversInv
  <2> SUFFICES ASSUME MCInit PROVE ObserversInv
    OBVIOUS
  <2>1. Orderly!Init /\ Single!Init
    BY DEF MCInit
  <2>2. Faulty!Init
    BY <2>1 DEF Orderly!Init, Faulty!Init, Orderly!Meter, Faulty!Meter
  <2>3. Faulty!EndCountedOnce
    BY <2>1 DEF Orderly!Init, Orderly!Meter, Faulty!EndCountedOnce
  <2> QED BY <2>1, <2>2, <2>3, StreamInit, FaultyInit, SinglesInit DEF ObserversInv
<1> QED BY <1>1, ObserversStep, PTL DEF MCSpec

(* For every bound: whatever a subscriber requests and whenever it         *)
(* cancels, the meters of a stream whose two ends keep their promises have *)
(* each value once, at most one outcome, and the one the subscriber was    *)
(* told.                                                                   *)
THEOREM StreamsAreCountedAsTold == MCSpec => []CountedOnceAsTold
<1>1. ObserversInv => CountedOnceAsTold
  BY OrderlyIsSound DEF ObserversInv, CountedOnceAsTold
<1> QED BY <1>1, ObserversInvariance, PTL

(* For whatever set of callbacks that throw, and with signals that cross a *)
(* cancel: between the signals, a stream's span was finished and its timer *)
(* updated as often as an outcome was counted, one was counted exactly if  *)
(* the source is over, and its end once, however often it was cancelled.   *)
THEOREM ObserversDoAgree == MCSpec => []ObserversAgree
<1>1. ObserversInv => ObserversAgree
  BY FaultyIsSound DEF ObserversInv, ObserversAgree
<1> QED BY <1>1, ObserversInvariance, PTL

(* For every set of calls of a method, also an infinite one: however they  *)
(* end and whatever throws, the meters add up to the calls that are over   *)
(* (with no more failures than those if no error handler throws), each     *)
(* span is finished once, and no more updates of the timer are NaN than    *)
(* calls failed before they were subscribed to.                            *)
THEOREM SinglesAreAccounted == MCSpec => []SinglesAccounted
<1>1. ObserversInv => SinglesAccounted
  BY SinglesSound DEF ObserversInv
<1> QED BY <1>1, ObserversInvariance, PTL
-----------------------------------------------------------------------------
(* The counter they count with: its count, and the moving average behind   *)
(* it.                                                                     *)
CounterInv ==
  /\ count \in 0 .. MAX_COUNTER_VALUE
  /\ {uncounted, ticked, marked} \subseteq Int
  /\ ticked + uncounted = marked

(* One step back from the far side of the maximum, or up from below zero.  *)
LEMMA WrappedInRange ==
  ASSUME NEW c \in 0 .. MAX_COUNTER_VALUE, NEW n \in Int,
         n <= MaxEvents \/ n <= 1
  PROVE  Wrapped(c + n) \in 0 .. MAX_COUNTER_VALUE
BY CounterAssumption DEF Wrapped

(* Every call keeps the invariant, whatever its argument. *)
LEMMA CounterStep == CounterInv /\ [Next]_vars => CounterInv'
<1> SUFFICES ASSUME CounterInv, [Next]_vars PROVE CounterInv'
  OBVIOUS
<1> USE CounterAssumption DEF CounterInv
<1>1. ASSUME NEW n \in Int, n <= MaxEvents \/ n <= 1, mark(n) PROVE CounterInv'
  <2>1. OrOne(n) \in Int /\ (OrOne(n) <= MaxEvents \/ OrOne(n) <= 1)
    BY <1>1 DEF OrOne
  <2>2. count' \in 0 .. MAX_COUNTER_VALUE
    BY <1>1, <2>1, WrappedInRange DEF mark
  <2>3. OrOne(OrOne(n)) = OrOne(n)
    BY DEF OrOne
  <2> QED BY <1>1, <2>1, <2>2, <2>3 DEF mark, AverageUpdate
<1>2. ASSUME NEW n \in Events, inc(n) PROVE CounterInv'
  BY <1>1, <1>2 DEF inc, Events
<1>3. ASSUME NEW n \in Events, dec(n) PROVE CounterInv'
  <2>1. -OrOne(n) \in Int /\ (-OrOne(n) <= MaxEvents \/ -OrOne(n) <= 1)
    BY <1>3 DEF dec, Events, OrOne
  <2> QED BY <1>1, <1>3, <2>1 DEF dec
<1>4. CASE clear
  BY <1>4 DEF clear
<1>5. CASE tick
  BY <1>5 DEF tick
<1>6. CASE UNCHANGED vars
  BY <1>6 DEF vars
<1> QED BY <1>2, <1>3, <1>4, <1>5, <1>6 DEF Next

(* The three figures stay integers and in step. *)
LEMMA CounterInvariance == Spec => []CounterInv
<1>1. Init => CounterInv
  BY CounterAssumption DEF Init, CounterInv
<1>2. CounterInv /\ [Next]_vars => CounterInv'
  BY CounterStep
<1> QED BY <1>1, <1>2, PTL DEF Spec

(* For every maximum and whatever sequence of increments, decrements,      *)
(* clears and ticks: the count stays within what the code can represent,   *)
(* and no event gets lost between mark() and the ticks of an average.      *)
THEOREM CounterIsSound == Spec => []CounterSound
<1>1. CounterInv => CounterSound
  BY DEF CounterInv, CounterSound, CountInRange, EventsAccounted
<1> QED BY <1>1, CounterInvariance, PTL
-----------------------------------------------------------------------------
(* The registry: a timer that was updated has a duration to export.        *)
MeterOf == [kind : Kinds, durations : SUBSET Durations, count : Nat]

RegistryInv ==
  /\ registered \in Seq(MeterOf)
  /\ pending \in Int /\ requested \in Int /\ sent \in Int
  /\ \A i \in DOMAIN registered : registered[i].count > 0 => registered[i].durations # {}

LEMMA RegistryInit == Registry!Init => RegistryInv
<1> SUFFICES ASSUME Registry!Init PROVE RegistryInv
  OBVIOUS
<1>1. registered \in Seq(MeterOf) /\ DOMAIN registered = {}
  BY DEF Registry!Init
<1> QED BY <1>1 DEF Registry!Init, RegistryInv

LEMMA RegistryStep == RegistryInv /\ [Registry!Next]_registry => RegistryInv'
<1> SUFFICES ASSUME RegistryInv, [Registry!Next]_registry PROVE RegistryInv'
  OBVIOUS
<1> USE MetersAssumption DEF Registry!ExportAssumption
<1>1. CASE Registry!Tick
  BY <1>1 DEF RegistryInv, Registry!Tick
<1>2. ASSUME NEW n \in 1 .. MaxRequested, Registry!Request(n) PROVE RegistryInv'
  BY <1>2 DEF RegistryInv, Registry!Request
<1>3. ASSUME NEW kind \in Kinds, Registry!registerMeter(kind) PROVE RegistryInv'
  <2> DEFINE new == [kind |-> kind, durations |-> {}, count |-> 0]
  <2>1. new \in MeterOf /\ new.count = 0
    BY DEF MeterOf
  <2>2. registered' = Append(registered, new) /\ registered \in Seq(MeterOf)
    BY <1>3 DEF RegistryInv, Registry!registerMeter
  <2> HIDE DEF new
  <2>3. /\ registered' \in Seq(MeterOf) /\ Len(registered') = Len(registered) + 1
        /\ \A i \in 1 .. Len(registered) : registered'[i] = registered[i]
        /\ registered'[Len(registered) + 1] = new
    BY <2>1, <2>2, AppendProperties
  <2>4. ASSUME NEW i \in DOMAIN registered', registered'[i].count > 0
        PROVE  registered'[i].durations # {}
    <3>1. i \in 1 .. Len(registered) + 1
      BY <2>3
    <3>2. CASE i = Len(registered) + 1
      BY <3>2, <2>1, <2>3, <2>4
    <3>3. CASE i \in 1 .. Len(registered)
      BY <3>3, <2>2, <2>3, <2>4 DEF RegistryInv
    <3> QED BY <3>1, <3>2, <3>3, <2>2
  <2> QED BY <2>3, <2>4, <1>3 DEF RegistryInv, Registry!registerMeter
<1>4. ASSUME NEW i \in DOMAIN registered, NEW d \in Durations, Registry!Update(i, d)
      PROVE  RegistryInv'
  <2> DEFINE new == [registered[i] EXCEPT !.durations = @ \cup {d}, !.count = @ + 1]
  <2>1. /\ registered \in Seq(MeterOf) /\ registered[i] \in MeterOf
        /\ registered' = [registered EXCEPT ![i] = new]
    <3>1. registered \in Seq(MeterOf) /\ i \in 1 .. Len(registered)
      BY <1>4 DEF RegistryInv
    <3>2. registered[i] \in MeterOf
      BY <3>1, ElementOfSeq
    <3> QED BY <3>1, <3>2, <1>4 DEF Registry!Update
  <2>2. new \in MeterOf /\ d \in new.durations
    <3>1. PICK m \in MeterOf : m = registered[i]
      BY <2>1
    <3>2. m.durations \cup {d} \in SUBSET Durations /\ m.count + 1 \in Nat
      BY DEF MeterOf
    <3>3. [m EXCEPT !.durations = @ \cup {d}] \in MeterOf
      BY <3>2 DEF MeterOf
    <3>4. [m EXCEPT !.durations = @ \cup {d}, !.count = @ + 1] \in MeterOf
      BY <3>2, <3>3 DEF MeterOf
    <3>5. [m EXCEPT !.durations = @ \cup {d}, !.count = @ + 1].durations = m.durations \cup {d}
      BY DEF MeterOf
    <3> QED BY <3>1, <3>4, <3>5
  <2> HIDE DEF new
  <2>3. /\ registered' \in Seq(MeterOf) /\ DOMAIN registered' = DOMAIN registered
        /\ registered'[i] = new
        /\ \A j \in DOMAIN registered : j # i => registered'[j] = registered[j]
    BY <2>1, <2>2, ExceptSeq
  <2>4. ASSUME NEW j \in DOMAIN registered' PROVE registered'[j].count > 0 => registered'[j].durations # {}
    BY <2>2, <2>3 DEF RegistryInv
  <2> QED BY <2>3, <2>4, <1>4 DEF RegistryInv, Registry!Update
<1>5. CASE UNCHANGED registry
  BY <1>5 DEF RegistryInv, registry
<1> QED BY <1>1, <1>2, <1>3, <1>4, <1>5 DEF Registry!Next

(* What a tick sends is of all meters, and of each what its kind has.      *)
LEMMA TickIsWhole ==
  ASSUME RegistryInv, Registry!Tick, NEW i \in DOMAIN registered
  PROVE  LET of == {x \in snapshot' : x.meter = i} IN
         IF registered[i].kind # "timer" THEN {x.tag : x \in of} = Registry!Rates
         ELSE /\ \E x \in of : x.statistic = "count" /\ x.value = registered[i].count
              /\ registered[i].count > 0 => \E x \in of : x.statistic = "duration"
<1> DEFINE of == {x \in snapshot' : x.meter = i}
<1>1. snapshot' = UNION {Registry!convert(j) : j \in DOMAIN registered}
  BY DEF Registry!Tick, Registry!Exported
<1>2. ASSUME NEW j \in DOMAIN registered, NEW x \in Registry!convert(j) PROVE x.meter = j
  BY DEF Registry!convert, Registry!convertTimer, Registry!basicConverter, Registry!PercentileMeasures,
         Registry!Measure
<1>3. of = Registry!convert(i)
  BY <1>1, <1>2
<1> HIDE DEF of
<1>4. CASE registered[i].kind # "timer"
  <2>1. of = {Registry!Measure(i, rate, "integer", "count", 0) : rate \in Registry!Rates}
    BY <1>3, <1>4 DEF Registry!convert, Registry!basicConverter
  <2>2. \A rate \in Registry!Rates : Registry!Measure(i, rate, "integer", "count", 0).tag = rate
    BY DEF Registry!Measure
  <2>3. {x.tag : x \in of} = Registry!Rates
    BY <2>1, <2>2
  <2> QED BY <1>4, <2>3 DEF of
<1>5. CASE registered[i].kind = "timer"
  <2>1. of = Registry!convertTimer(i)
    BY <1>3, <1>5 DEF Registry!convert
  <2>2. \E x \in of : x.statistic = "count" /\ x.value = registered[i].count
    <3> DEFINE x == Registry!Measure(i, "none", "nanoseconds", "count", registered[i].count)
    <3>1. x \in of
      BY <2>1 DEF Registry!convertTimer
    <3>2. x.statistic = "count" /\ x.value = registered[i].count
      BY DEF Registry!Measure
    <3> QED BY <3>1, <3>2
  <2>3. ASSUME registered[i].count > 0 PROVE \E x \in of : x.statistic = "duration"
    <3> DEFINE ds == registered[i].durations
               x == Registry!Measure(i, "0.001", "nanoseconds", "duration",
                                     Registry!toNanoseconds(Registry!Min(ds)))
    <3>1. ds # {}
      BY <2>3 DEF RegistryInv
    <3>2. x \in of
      BY <3>1, <2>1 DEF Registry!convertTimer, Registry!PercentileMeasures
    <3>3. x.statistic = "duration"
      BY DEF Registry!Measure
    <3> QED BY <3>2, <3>3
  <2> QED BY <1>5, <2>2, <2>3 DEF of
<1> QED BY <1>4, <1>5

LEMMA SnapshotIsWhole ==
  ASSUME RegistryInv, [Registry!Next]_registry
  PROVE  [Registry!SnapshotStep]_registry
<1> SUFFICES ASSUME Registry!Next PROVE Registry!SnapshotStep
  BY DEF registry
<1>1. pending \in Int /\ requested \in Int /\ sent \in Int
  BY DEF RegistryInv
<1>2. CASE Registry!Tick
  <2>1. sent' = sent + 1 /\ pending' = pending - 1 /\ requested' = requested
    BY <1>2 DEF Registry!Tick
  <2>2. requested' - requested = (sent' - sent) + (pending' - pending)
    BY <1>1, <2>1
  <2> QED BY <1>2, <2>2, TickIsWhole DEF Registry!SnapshotStep
<1>3. ASSUME NEW n \in 1 .. MaxRequested, Registry!Request(n) PROVE Registry!SnapshotStep
  <2>1. sent' = sent /\ pending' = pending + n /\ requested' = requested + n
    BY <1>3 DEF Registry!Request
  <2>2. n \in Int
    BY MetersAssumption DEF Registry!ExportAssumption
  <2> QED BY <1>1, <2>1, <2>2 DEF Registry!SnapshotStep
<1>4. ASSUME NEW kind \in Kinds, Registry!registerMeter(kind) PROVE Registry!SnapshotStep
  BY <1>1, <1>4 DEF Registry!registerMeter, Registry!SnapshotStep
<1>5. ASSUME NEW i \in DOMAIN registered, NEW d \in Durations, Registry!Update(i, d)
      PROVE  Registry!SnapshotStep
  BY <1>1, <1>5 DEF Registry!Update, Registry!SnapshotStep
<1> QED BY <1>2, <1>3, <1>4, <1>5 DEF Registry!Next
-----------------------------------------------------------------------------
(* Induction, with a set of numbers in the place of a predicate.           *)
LEMMA LeastOf ==
  ASSUME NEW T \in SUBSET Nat, T # {}
  PROVE  \E p \in T : \A q \in T : p <= q
<1>1. PICK p \in T : \A q \in T : ~(<<q, p>> \in OpToRel(<, Nat))
  BY WFMin, NatLessThanWellFounded
<1>2. ASSUME NEW q \in Nat, q < p
      PROVE  <<q, p>> \in OpToRel(<, Nat)
  BY <1>2, Zenon DEF OpToRel
<1>3. ASSUME NEW q \in T PROVE p <= q
  <2>1. q \in Nat /\ p \in Nat
    OBVIOUS
  <2>2. ~(q < p)
    BY <1>1, <1>2, <2>1
  <2> QED BY <2>1, <2>2
<1> QED BY <1>3

LEMMA Climbs ==
  ASSUME NEW N \in Nat, NEW G, 0 \in G, \A n \in 0 .. N : n < N /\ n \in G => n + 1 \in G
  PROVE  \A n \in 0 .. N : n \in G
<1> DEFINE T == {n \in 0 .. N : n \notin G}
<1> SUFFICES T = {}
  OBVIOUS
<1>1. T \in SUBSET Nat
  OBVIOUS
<1>2. ASSUME T # {} PROVE FALSE
  <2>1. PICK p \in T : \A q \in T : p <= q
    <3> HIDE DEF T
    <3> QED BY <1>1, <1>2, LeastOf
  <2>2. p # 0 /\ p \in 0 .. N /\ p - 1 \in 0 .. N /\ p - 1 < N
    OBVIOUS
  <2>3. p - 1 \notin T
    BY <2>1, <2>2
  <2>4. p - 1 + 1 \in G
    BY <2>2, <2>3
  <2> QED BY <2>2, <2>4
<1> QED BY <1>2

(* A loop on the states S that has gone through n turns.                   *)
Looped(S, a, F, n, f) == f \in [0 .. n -> S] /\ f[0] = a /\ \A k \in 1 .. n : f[k] = F[f[k - 1]]

LEMMA Loops ==
  ASSUME NEW S, NEW a \in S, NEW F \in [S -> S], NEW N \in Nat
  PROVE  \E f : Looped(S, a, F, N, f)
<1> DEFINE G == {n \in Nat : \E f : Looped(S, a, F, n, f)}
<1>1. 0 \in G
  <2>1. Looped(S, a, F, 0, [k \in 0 .. 0 |-> a])
    BY DEF Looped
  <2> QED BY <2>1
<1>2. ASSUME NEW n \in 0 .. N, n < N, n \in G PROVE n + 1 \in G
  <2>1. PICK f : Looped(S, a, F, n, f)
    BY <1>2
  <2> DEFINE g == [k \in 0 .. n + 1 |-> IF k = n + 1 THEN F[f[n]] ELSE f[k]]
  <2>2. f[n] \in S /\ f \in [0 .. n -> S]
    BY <2>1 DEF Looped
  <2>3. F[f[n]] \in S
    BY <2>2
  <2>4. g \in [0 .. n + 1 -> S] /\ g[0] = a
    BY <2>1, <2>2, <2>3 DEF Looped
  <2>5. ASSUME NEW k \in 1 .. n + 1 PROVE g[k] = F[g[k - 1]]
    <3>1. CASE k = n + 1
      BY <3>1
    <3>2. CASE k # n + 1
      <4>1. k \in 1 .. n /\ k - 1 # n + 1 /\ k - 1 \in 0 .. n + 1 /\ k \in 0 .. n + 1
        BY <3>2
      <4> QED BY <4>1, <3>2, <2>1 DEF Looped
    <3> QED BY <3>1, <3>2
  <2> HIDE DEF g
  <2>6. Looped(S, a, F, n + 1, g)
    BY <2>4, <2>5 DEF Looped
  <2> QED BY <2>6
<1> HIDE DEF G
<1>3. \A n \in 0 .. N : n < N /\ n \in G => n + 1 \in G
  BY <1>2
<1>4. N \in G
  BY <1>1, <1>3, Climbs
<1> QED BY <1>4 DEF G
-----------------------------------------------------------------------------
(* The order of a heap, on the array r of the scores of its n elements.    *)
InOrder(r, n) == \A k \in 1 .. n : k > 1 => r[k \div 2] <= r[k]

(* In order but for the place i, whose element may go before its parent.   *)
AlmostUp(r, n, i) ==
  \A k \in 1 .. n : k > 1 =>
    /\ k # i => r[k \div 2] <= r[k]
    /\ k \div 2 = i /\ i > 1 => r[i \div 2] <= r[k]

(* In order but for the children of the place i.                           *)
AlmostDown(r, n, i) ==
  \A k \in 1 .. n : k > 1 =>
    /\ k \div 2 # i => r[k \div 2] <= r[k]
    /\ k \div 2 = i /\ i > 1 => r[i \div 2] <= r[k]

LEMMA Halved ==
  ASSUME NEW k \in Nat, k > 1
  PROVE  k \div 2 \in 1 .. k - 1 /\ (k = 2 * (k \div 2) \/ k = 2 * (k \div 2) + 1)
OBVIOUS

LEMMA Swapped ==
  ASSUME NEW n \in Nat, NEW M, NEW c \in [1 .. n -> M],
         NEW i \in 1 .. n, NEW j \in 1 .. n, i # j
  PROVE  /\ Swap(c, i, j) \in [1 .. n -> M]
         /\ Swap(c, i, j)[i] = c[j] /\ Swap(c, i, j)[j] = c[i]
         /\ \A k \in 1 .. n : k # i /\ k # j => Swap(c, i, j)[k] = c[k]
BY DEF Swap

LEMMA UpSwapped ==
  ASSUME NEW n \in Nat, NEW r \in [1 .. n -> Int], NEW i \in 1 .. n, i > 1,
         AlmostUp(r, n, i), r[i] < r[i \div 2]
  PROVE  AlmostUp(Swap(r, i, i \div 2), n, i \div 2)
<1>1. PICK p \in 1 .. n : p = i \div 2 /\ p < i
  BY Halved
<1>2. PICK d \in [1 .. n -> Int] :
        /\ d = Swap(r, i, p) /\ d[i] = r[p] /\ d[p] = r[i]
        /\ \A k \in 1 .. n : k # i /\ k # p => d[k] = r[k]
  <2> DEFINE s == Swap(r, i, p)
  <2>1. /\ s \in [1 .. n -> Int] /\ s[i] = r[p] /\ s[p] = r[i]
        /\ \A k \in 1 .. n : k # i /\ k # p => s[k] = r[k]
    BY <1>1 DEF Swap
  <2> QED BY <2>1
<1>3. ASSUME NEW k \in 1 .. n, NEW q \in 1 .. n, k > 1, k # p, q = k \div 2 PROVE d[q] <= d[k]
  <2>1. q < k /\ (k # i => r[q] <= r[k]) /\ (q = i => r[p] <= r[k])
    <3>1. q < k
      BY <1>3, Halved
    <3>2. (k # i => r[q] <= r[k]) /\ (q = i => r[p] <= r[k])
      BY <1>1, <1>3 DEF AlmostUp
    <3> QED BY <3>1, <3>2
  <2>2. CASE k = i
    BY <2>2, <1>1, <1>2, <1>3
  <2>3. CASE k # i /\ q = i
    BY <2>1, <2>3, <1>2, <1>3
  <2>4. CASE k # i /\ q # i
    <3>1. r[q] <= r[k] /\ d[k] = r[k]
      BY <2>1, <2>4, <1>2, <1>3
    <3>2. CASE q = p
      <4>1. d[q] = r[i] /\ r[i] < r[q]
        BY <3>2, <1>1, <1>2
      <4>2. r[i] \in Int /\ r[q] \in Int /\ r[k] \in Int
        OBVIOUS
      <4> QED BY <3>1, <4>1, <4>2
    <3>3. CASE q # p
      BY <2>4, <3>1, <3>3, <1>2
    <3> QED BY <3>2, <3>3
  <2> QED BY <2>2, <2>3, <2>4
<1>4. ASSUME NEW k \in 1 .. n, NEW q \in 1 .. n, k > 1, k \div 2 = p, p > 1, q = p \div 2
      PROVE  d[q] <= d[k]
  <2>1. q < p /\ p < k /\ r[q] <= r[p] /\ (k # i => r[p] <= r[k])
    BY <1>1, <1>4, Halved DEF AlmostUp
  <2>2. CASE k = i
    BY <2>1, <2>2, <1>1, <1>2
  <2>3. CASE k # i
    BY <2>1, <2>3, <1>1, <1>2
  <2> QED BY <2>2, <2>3
<1>5. \A k \in 1 .. n : k > 1 => k \div 2 \in 1 .. n
  BY Halved
<1>6. AlmostUp(d, n, p)
  BY <1>1, <1>3, <1>4, <1>5 DEF AlmostUp
<1> QED BY <1>1, <1>2, <1>6

(* The lesser child takes the place of its parent. *)
LEMMA DownSwapped ==
  ASSUME NEW n \in Nat, NEW r \in [1 .. n -> Int], NEW i \in 1 .. n, NEW j \in 1 .. n,
         AlmostDown(r, n, i), j > 1, j \div 2 = i, r[j] < r[i],
         \A k \in 1 .. n : k > 1 /\ k \div 2 = i => r[j] <= r[k]
  PROVE  AlmostDown(Swap(r, i, j), n, j)
<1>1. i < j
  BY Halved
<1>2. PICK d \in [1 .. n -> Int] :
        /\ d = Swap(r, i, j) /\ d[i] = r[j] /\ d[j] = r[i]
        /\ \A k \in 1 .. n : k # i /\ k # j => d[k] = r[k]
  <2> DEFINE s == Swap(r, i, j)
  <2>1. /\ s \in [1 .. n -> Int] /\ s[i] = r[j] /\ s[j] = r[i]
        /\ \A k \in 1 .. n : k # i /\ k # j => s[k] = r[k]
    BY <1>1 DEF Swap
  <2> QED BY <2>1
<1>3. ASSUME NEW k \in 1 .. n, NEW q \in 1 .. n, k > 1, q = k \div 2, q # j PROVE d[q] <= d[k]
  <2>1. q < k /\ (q # i => r[q] <= r[k]) /\ (q = i => r[j] <= r[k])
    BY <1>3, Halved DEF AlmostDown
  <2>2. CASE k = j
    BY <2>2, <1>1, <1>2, <1>3
  <2>3. CASE k = i
    <3>1. r[q] <= r[j]
      BY <2>1, <2>3, <1>3 DEF AlmostDown
    <3> QED BY <3>1, <2>1, <2>3, <1>1, <1>2, <1>3
  <2>4. CASE k # i /\ k # j
    BY <2>1, <2>4, <1>1, <1>2, <1>3
  <2> QED BY <2>2, <2>3, <2>4
<1>4. ASSUME NEW k \in 1 .. n, k > 1, k \div 2 = j PROVE d[j \div 2] <= d[k]
  <2>1. j < k /\ r[j] <= r[k]
    BY <1>1, <1>4, Halved DEF AlmostDown
  <2> QED BY <2>1, <1>1, <1>2
<1>5. \A k \in 1 .. n : k > 1 => k \div 2 \in 1 .. n
  BY Halved
<1>6. AlmostDown(d, n, j)
  BY <1>1, <1>3, <1>4, <1>5 DEF AlmostDown
<1> QED BY <1>2, <1>6

(* Nothing goes before the first element.                                  *)
LEMMA FirstIsLeast ==
  ASSUME NEW n \in Nat, NEW r \in [1 .. n -> Int], InOrder(r, n)
  PROVE  \A k \in 1 .. n : r[1] <= r[k]
<1> SUFFICES ASSUME NEW l \in 1 .. n PROVE r[1] <= r[l]
  OBVIOUS
<1> DEFINE G == {m \in Nat : \A k \in 1 .. n : k <= m => r[1] <= r[k]}
<1>1. 0 \in G
  OBVIOUS
<1>2. ASSUME NEW m \in 0 .. n, m < n, m \in G PROVE m + 1 \in G
  <2> SUFFICES ASSUME NEW k \in 1 .. n, k = m + 1, k > 1 PROVE r[1] <= r[k]
    BY <1>2
  <2>1. PICK q \in 1 .. n : q = k \div 2 /\ q < k
    BY Halved
  <2>2. r[q] <= r[k] /\ r[1] <= r[q]
    BY <1>2, <2>1 DEF InOrder
  <2> QED BY <2>1, <2>2
<1>3. \A m \in 0 .. n : m < n /\ m \in G => m + 1 \in G
  BY <1>2
<1>4. n \in G
  <2> HIDE DEF G
  <2>1. \A m \in 0 .. n : m \in G
    BY <1>1, <1>3, Climbs
  <2> QED BY <2>1
<1> QED BY <1>4
-----------------------------------------------------------------------------
(* The heap: c is an array of the n elements of M, each in one place.      *)
Holds(c, n, M) ==
  /\ c \in [1 .. n -> M]
  /\ \A i, j \in 1 .. n : c[i] = c[j] => i = j
  /\ \A m \in M : \E i \in 1 .. n : c[i] = m

Scored(M) == \A m \in M : m.priority \in Int /\ m.priority # NaN
Scores(c, n) == [k \in 1 .. n |-> c[k].priority]

LEMMA ArrayIsSeq ==
  ASSUME NEW n \in Nat, NEW M, NEW c \in [1 .. n -> M]
  PROVE  c \in Seq(M) /\ Len(c) = n
<1>1. c \in Seq(M)
  BY SeqDef
<1>2. Len(c) \in Nat /\ 1 .. n = 1 .. Len(c)
  BY <1>1, LenProperties
<1> QED BY <1>1, <1>2

LEMMA ScoresAre ==
  ASSUME NEW n \in Nat, NEW M, Scored(M), NEW c \in [1 .. n -> M]
  PROVE  /\ Scores(c, n) \in [1 .. n -> Int]
         /\ \A i, j \in 1 .. n : Less(c[i], c[j]) <=> Scores(c, n)[i] < Scores(c, n)[j]
<1>1. \A i \in 1 .. n : c[i].priority \in Int /\ c[i].priority # NaN
  BY DEF Scored
<1>2. \A i \in 1 .. n : Scores(c, n)[i] = c[i].priority
  BY DEF Scores
<1> QED BY <1>1, <1>2 DEF Scores, Less

LEMMA ScoresSwapped ==
  ASSUME NEW n \in Nat, NEW M, NEW c \in [1 .. n -> M], NEW i \in 1 .. n, NEW j \in 1 .. n
  PROVE  Scores(Swap(c, i, j), n) = Swap(Scores(c, n), i, j)
BY DEF Scores, Swap

LEMMA SwapHolds ==
  ASSUME NEW n \in Nat, NEW M, NEW c, Holds(c, n, M),
         NEW i \in 1 .. n, NEW j \in 1 .. n, i # j
  PROVE  Holds(Swap(c, i, j), n, M)
<1> DEFINE d == Swap(c, i, j)
<1>1. /\ d \in [1 .. n -> M] /\ d[i] = c[j] /\ d[j] = c[i]
      /\ \A k \in 1 .. n : k # i /\ k # j => d[k] = c[k]
  BY DEF Holds, Swap
<1> HIDE DEF d
<1>2. ASSUME NEW k \in 1 .. n, NEW l \in 1 .. n, d[k] = d[l] PROVE k = l
  <2> DEFINE from(x) == IF x = i THEN j ELSE IF x = j THEN i ELSE x
  <2>1. \A x \in 1 .. n : from(x) \in 1 .. n /\ d[x] = c[from(x)]
    BY <1>1
  <2>2. from(k) = from(l)
    <3> HIDE DEF from
    <3> QED BY <1>2, <2>1 DEF Holds
  <2> QED BY <2>2
<1>3. ASSUME NEW m \in M PROVE \E k \in 1 .. n : d[k] = m
  <2>1. PICK k \in 1 .. n : c[k] = m
    BY DEF Holds
  <2> QED BY <1>1, <2>1
<1>4. Holds(d, n, M)
  BY <1>1, <1>2, <1>3 DEF Holds
<1> QED BY <1>4 DEF d

(* A turn of either loop keeps the elements, and goes on or leaves a heap. *)
Turn(n, M) == [content : [1 .. n -> M], at : 1 .. n]
GoesUp(h, n, M) ==
  h \in Turn(n, M) /\ Holds(h.content, n, M) /\ AlmostUp(Scores(h.content, n), n, h.at)
GoesDown(h, n, M) ==
  h \in Turn(n, M) /\ Holds(h.content, n, M) /\ AlmostDown(Scores(h.content, n), n, h.at)

LEMMA RaisedTurn ==
  ASSUME NEW n \in Nat, NEW M, Scored(M), NEW h, GoesUp(h, n, M)
  PROVE  /\ GoesUp(Raised(h), n, M)
         /\ (Raised(h) = h /\ InOrder(Scores(h.content, n), n)) \/ Raised(h).at < h.at
<1>1. PICK c, i : c = h.content /\ i = h.at
  OBVIOUS
<1>2. /\ c \in [1 .. n -> M] /\ i \in 1 .. n /\ Holds(c, n, M)
      /\ AlmostUp(Scores(c, n), n, i)
  BY <1>1 DEF GoesUp, Turn
<1>3. PICK r \in [1 .. n -> Int] :
        r = Scores(c, n) /\ \A k, l \in 1 .. n : Less(c[k], c[l]) <=> r[k] < r[l]
  BY <1>2, ScoresAre
<1>4. CASE ~(i > 1 /\ Less(c[i], c[i \div 2]))
  <2>1. Raised(h) = h
    BY <1>1, <1>4 DEF Raised
  <2>2. ASSUME NEW k \in 1 .. n, k > 1 PROVE r[k \div 2] <= r[k]
    <3>1. k \div 2 \in 1 .. n
      BY <2>2, Halved
    <3>2. CASE k # i
      BY <1>2, <1>3, <2>2, <3>2 DEF AlmostUp
    <3>3. CASE k = i
      BY <1>3, <1>4, <2>2, <3>1, <3>3
    <3> QED BY <3>2, <3>3
  <2> QED BY <1>1, <1>3, <2>1, <2>2 DEF InOrder
<1>5. CASE i > 1 /\ Less(c[i], c[i \div 2])
  <2>1. PICK p \in 1 .. n : p = i \div 2 /\ p < i
    BY <1>2, <1>5, Halved
  <2>2. r[i] < r[i \div 2]
    BY <1>2, <1>3, <1>5, <2>1
  <2>3. AlmostUp(Swap(r, i, i \div 2), n, i \div 2)
    BY <1>2, <1>3, <1>5, <2>2, UpSwapped
  <2>4. Raised(h) = [content |-> Swap(c, i, p), at |-> p]
    BY <1>1, <1>5, <2>1 DEF Raised
  <2>5. Holds(Swap(c, i, p), n, M)
    BY <1>2, <2>1, SwapHolds
  <2>6. Scores(Swap(c, i, p), n) = Swap(r, i, p)
    BY <1>2, <1>3, <2>1, ScoresSwapped
  <2>7. Raised(h).content = Swap(c, i, p) /\ Raised(h).at = p /\ Raised(h) \in Turn(n, M)
    BY <2>1, <2>4, <2>5 DEF Turn, Holds
  <2>8. GoesUp(Raised(h), n, M)
    BY <2>1, <2>3, <2>5, <2>6, <2>7 DEF GoesUp
  <2> QED BY <1>1, <2>1, <2>7, <2>8
<1> QED BY <1>4, <1>5

LEMMA SunkTurn ==
  ASSUME NEW n \in Nat, NEW M, Scored(M), NEW h, GoesDown(h, n, M)
  PROVE  /\ GoesDown(Sunk(h), n, M)
         /\ (Sunk(h) = h /\ InOrder(Scores(h.content, n), n)) \/ Sunk(h).at > h.at
<1>1. PICK c, i : c = h.content /\ i = h.at
  OBVIOUS
<1>2. /\ c \in [1 .. n -> M] /\ i \in 1 .. n /\ Holds(c, n, M)
      /\ AlmostDown(Scores(c, n), n, i)
  BY <1>1 DEF GoesDown, Turn
<1>3. PICK r \in [1 .. n -> Int] :
        r = Scores(c, n) /\ \A k, l \in 1 .. n : Less(c[k], c[l]) <=> r[k] < r[l]
  BY <1>2, ScoresAre
<1>4. Len(c) = n
  BY <1>2, ArrayIsSeq
<1> DEFINE least1 == IF 2 * i <= n /\ Less(c[2 * i], c[i]) THEN 2 * i ELSE i
           swap == IF 2 * i + 1 <= n /\ Less(c[2 * i + 1], c[least1]) THEN 2 * i + 1 ELSE least1
<1>5. Sunk(h) = IF swap = i THEN h ELSE [content |-> Swap(c, i, swap), at |-> swap]
  BY <1>1, <1>4 DEF Sunk
<1>6. PICK l \in 1 .. n :
        /\ l = least1 /\ (l = i \/ (l = 2 * i /\ r[l] < r[i]))
        /\ 2 * i <= n => r[l] <= r[2 * i]
  BY <1>2, <1>3
<1>7. PICK j \in 1 .. n :
        /\ j = swap /\ (j = l \/ (j = 2 * i + 1 /\ r[j] < r[l]))
        /\ 2 * i + 1 <= n => r[j] <= r[2 * i + 1]
  BY <1>2, <1>3, <1>6
<1> HIDE DEF least1, swap
<1>8. \A k \in 1 .. n : k > 1 /\ k \div 2 = i => r[j] <= r[k] /\ k > i
  <2> SUFFICES ASSUME NEW k \in 1 .. n, k > 1, k \div 2 = i PROVE r[j] <= r[k] /\ k > i
    OBVIOUS
  <2>1. k = 2 * i \/ k = 2 * i + 1
    BY Halved
  <2>2. r[j] <= r[l]
    BY <1>3, <1>7
  <2> QED BY <2>1, <2>2, <1>2, <1>3, <1>6, <1>7
<1>9. CASE j = i
  <2>1. Sunk(h) = h
    BY <1>5, <1>7, <1>9
  <2>2. ASSUME NEW k \in 1 .. n, k > 1 PROVE r[k \div 2] <= r[k]
    BY <1>2, <1>3, <1>8, <1>9, <2>2 DEF AlmostDown
  <2> QED BY <1>1, <1>3, <2>1, <2>2 DEF InOrder
<1>10. CASE j # i
  <2>1. j > 1 /\ j \div 2 = i /\ r[j] < r[i] /\ i < j
    <3>1. (j = 2 * i \/ j = 2 * i + 1) /\ r[j] < r[i]
      BY <1>2, <1>3, <1>6, <1>7, <1>10
    <3>2. j > 1 /\ i < j
      BY <3>1, <1>2
    <3>3. j \div 2 = i
      BY <3>1, <1>2
    <3> QED BY <3>1, <3>2, <3>3
  <2>2. AlmostDown(Swap(r, i, j), n, j)
    BY <1>2, <1>3, <1>8, <2>1, DownSwapped
  <2>3. Sunk(h) = [content |-> Swap(c, i, j), at |-> j]
    BY <1>5, <1>7, <1>10
  <2>4. Holds(Swap(c, i, j), n, M)
    BY <1>2, <1>10, SwapHolds
  <2>5. Scores(Swap(c, i, j), n) = Swap(r, i, j)
    BY <1>2, <1>3, ScoresSwapped
  <2>6. Sunk(h).content = Swap(c, i, j) /\ Sunk(h).at = j /\ Sunk(h) \in Turn(n, M)
    BY <2>3, <2>4 DEF Turn, Holds
  <2>7. GoesDown(Sunk(h), n, M)
    BY <2>2, <2>4, <2>5, <2>6 DEF GoesDown
  <2> QED BY <1>1, <2>1, <2>6, <2>7
<1> QED BY <1>9, <1>10
(* The loops end with a heap of the same elements.                         *)
LEMMA BubbledUp ==
  ASSUME NEW n \in Nat, NEW M, Scored(M), NEW s, Holds(s, n, M), NEW i \in 1 .. n,
         AlmostUp(Scores(s, n), n, i)
  PROVE  Holds(bubbleUp(s, i), n, M) /\ InOrder(Scores(bubbleUp(s, i), n), n)
<1> DEFINE S == {h \in Turn(n, M) : GoesUp(h, n, M)}
           a == [content |-> s, at |-> i]
           F == [h \in S |-> Raised(h)]
<1>1. s \in [1 .. n -> M] /\ Len(s) = n
  BY ArrayIsSeq DEF Holds
<1>2. a \in S
  BY <1>1 DEF GoesUp, Turn
<1>3. F \in [S -> S]
  <2> SUFFICES ASSUME NEW h \in S PROVE Raised(h) \in S
    OBVIOUS
  <2>1. GoesUp(Raised(h), n, M)
    BY RaisedTurn
  <2> QED BY <2>1 DEF GoesUp
<1>4. /\ \A h \in S : F[h] = Raised(h)
      /\ \A h \in S : GoesUp(h, n, M)
  OBVIOUS
<1>5. a.content = s /\ a.at = i
  OBVIOUS
<1> HIDE DEF S, F, a
<1>6. PICK f : Looped(S, a, F, n, f)
  BY <1>2, <1>3, Loops
<1>7. /\ f \in [0 .. n -> S] /\ f[0] = a
      /\ \A k \in 1 .. n : f[k] = Raised(f[k - 1])
  <2>1. f \in [0 .. n -> S] /\ f[0] = a /\ \A k \in 1 .. n : f[k] = F[f[k - 1]]
    BY <1>6 DEF Looped
  <2>2. \A k \in 1 .. n : k - 1 \in 0 .. n /\ f[k - 1] \in S
    BY <2>1
  <2> QED BY <1>4, <2>1, <2>2
<1> DEFINE loop == CHOOSE loop :
             loop = [k \in 0 .. n |-> IF k = 0 THEN a ELSE Raised(loop[k - 1])]
<1>8. bubbleUp(s, i) = loop[n].content
  BY <1>1 DEF bubbleUp, a
<1>9. loop = [k \in 0 .. n |-> IF k = 0 THEN a ELSE Raised(loop[k - 1])]
  <2>1. f = [k \in 0 .. n |-> IF k = 0 THEN a ELSE Raised(f[k - 1])]
    BY <1>7
  <2> QED BY <2>1
<1> HIDE DEF loop
<1>10. loop[n] = f[n]
  <2> DEFINE G == {k \in 0 .. n : loop[k] = f[k]}
  <2>1. 0 \in G
    BY <1>7, <1>9
  <2>2. \A k \in 0 .. n : k < n /\ k \in G => k + 1 \in G
    <3> SUFFICES ASSUME NEW k \in 0 .. n, k < n, loop[k] = f[k] PROVE loop[k + 1] = f[k + 1]
      OBVIOUS
    <3>1. k + 1 \in 1 .. n /\ k + 1 \in 0 .. n /\ k + 1 # 0 /\ k + 1 - 1 = k
      OBVIOUS
    <3>2. loop[k + 1] = Raised(loop[k]) /\ f[k + 1] = Raised(f[k])
      BY <1>7, <1>9, <3>1
    <3> QED BY <3>2
  <2>3. \A k \in 0 .. n : k \in G
    <3> HIDE DEF G
    <3> QED BY <2>1, <2>2, Climbs
  <2> QED BY <2>3
(* Each turn goes on to another place, or the loop has ended.              *)
<1> DEFINE Ended(h) == Raised(h) = h /\ InOrder(Scores(h.content, n), n)
           G == {k \in 0 .. n : Ended(f[k]) \/ f[k].at + k <= i}
<1>11. 0 \in G
  BY <1>5, <1>7
<1>12. \A k \in 0 .. n : k < n /\ k \in G => k + 1 \in G
  <2> SUFFICES ASSUME NEW k \in 0 .. n, k < n, k \in G PROVE k + 1 \in G
    OBVIOUS
  <2>1. k + 1 \in 1 .. n /\ f[k + 1] = Raised(f[k]) /\ f[k] \in S /\ f[k + 1] \in S
    BY <1>7
  <2>2. GoesUp(f[k], n, M)
    BY <2>1, <1>4
  <2>3. Ended(f[k]) \/ Raised(f[k]).at < f[k].at
    BY <2>2, RaisedTurn
  <2>4. f[k].at \in 1 .. n /\ f[k + 1].at \in 1 .. n
    BY <2>1, <1>4 DEF GoesUp, Turn
  <2>5. CASE Ended(f[k])
    <3>1. f[k + 1] = f[k]
      BY <2>1, <2>5
    <3> QED BY <3>1, <2>5
  <2>6. CASE ~Ended(f[k])
    <3>1. f[k].at + k <= i /\ f[k + 1].at < f[k].at
      BY <2>1, <2>3, <2>6
    <3> HIDE DEF Ended
    <3>2. f[k + 1].at + (k + 1) <= i
      BY <3>1, <2>4
    <3> QED BY <3>2
  <2> QED BY <2>5, <2>6
<1>13. Ended(f[n])
  <2>1. \A k \in 0 .. n : k \in G
    <3> HIDE DEF G
    <3> QED BY <1>11, <1>12, Climbs
  <2>2. f[n] \in S
    BY <1>7
  <2>3. f[n].at \in 1 .. n
    BY <2>2, <1>4 DEF GoesUp, Turn
  <2>4. SUFFICES ASSUME NEW k \in 0 .. n, k = n, f[k].at + k <= i PROVE FALSE
    BY <2>1
  <2> HIDE DEF Ended, G
  <2> QED BY <2>3, <2>4
<1>14. GoesUp(f[n], n, M)
  BY <1>4, <1>7
<1> QED BY <1>8, <1>10, <1>13, <1>14 DEF GoesUp

LEMMA SunkDown ==
  ASSUME NEW n \in Nat, NEW M, Scored(M), NEW s, Holds(s, n, M), NEW i \in 1 .. n,
         AlmostDown(Scores(s, n), n, i)
  PROVE  Holds(sinkDown(s, i), n, M) /\ InOrder(Scores(sinkDown(s, i), n), n)
<1> DEFINE S == {h \in Turn(n, M) : GoesDown(h, n, M)}
           a == [content |-> s, at |-> i]
           F == [h \in S |-> Sunk(h)]
<1>1. s \in [1 .. n -> M] /\ Len(s) = n
  BY ArrayIsSeq DEF Holds
<1>2. a \in S
  BY <1>1 DEF GoesDown, Turn
<1>3. F \in [S -> S]
  <2> SUFFICES ASSUME NEW h \in S PROVE Sunk(h) \in S
    OBVIOUS
  <2>1. GoesDown(Sunk(h), n, M)
    BY SunkTurn
  <2> QED BY <2>1 DEF GoesDown
<1>4. /\ \A h \in S : F[h] = Sunk(h)
      /\ \A h \in S : GoesDown(h, n, M)
  OBVIOUS
<1>5. a.content = s /\ a.at = i
  OBVIOUS
<1> HIDE DEF S, F, a
<1>6. PICK f : Looped(S, a, F, n, f)
  BY <1>2, <1>3, Loops
<1>7. /\ f \in [0 .. n -> S] /\ f[0] = a
      /\ \A k \in 1 .. n : f[k] = Sunk(f[k - 1])
  <2>1. f \in [0 .. n -> S] /\ f[0] = a /\ \A k \in 1 .. n : f[k] = F[f[k - 1]]
    BY <1>6 DEF Looped
  <2>2. \A k \in 1 .. n : k - 1 \in 0 .. n /\ f[k - 1] \in S
    BY <2>1
  <2> QED BY <1>4, <2>1, <2>2
<1> DEFINE loop == CHOOSE loop :
             loop = [k \in 0 .. n |-> IF k = 0 THEN a ELSE Sunk(loop[k - 1])]
<1>8. sinkDown(s, i) = loop[n].content
  BY <1>1 DEF sinkDown, a
<1>9. loop = [k \in 0 .. n |-> IF k = 0 THEN a ELSE Sunk(loop[k - 1])]
  <2>1. f = [k \in 0 .. n |-> IF k = 0 THEN a ELSE Sunk(f[k - 1])]
    BY <1>7
  <2> QED BY <2>1
<1> HIDE DEF loop
<1>10. loop[n] = f[n]
  <2> DEFINE G == {k \in 0 .. n : loop[k] = f[k]}
  <2>1. 0 \in G
    BY <1>7, <1>9
  <2>2. \A k \in 0 .. n : k < n /\ k \in G => k + 1 \in G
    <3> SUFFICES ASSUME NEW k \in 0 .. n, k < n, loop[k] = f[k] PROVE loop[k + 1] = f[k + 1]
      OBVIOUS
    <3>1. k + 1 \in 1 .. n /\ k + 1 \in 0 .. n /\ k + 1 # 0 /\ k + 1 - 1 = k
      OBVIOUS
    <3>2. loop[k + 1] = Sunk(loop[k]) /\ f[k + 1] = Sunk(f[k])
      BY <1>7, <1>9, <3>1
    <3> QED BY <3>2
  <2>3. \A k \in 0 .. n : k \in G
    <3> HIDE DEF G
    <3> QED BY <2>1, <2>2, Climbs
  <2> QED BY <2>3
(* Each turn goes on to another place, or the loop has ended.              *)
<1> DEFINE Ended(h) == Sunk(h) = h /\ InOrder(Scores(h.content, n), n)
           G == {k \in 0 .. n : Ended(f[k]) \/ i + k <= f[k].at}
<1>11. 0 \in G
  BY <1>5, <1>7
<1>12. \A k \in 0 .. n : k < n /\ k \in G => k + 1 \in G
  <2> SUFFICES ASSUME NEW k \in 0 .. n, k < n, k \in G PROVE k + 1 \in G
    OBVIOUS
  <2>1. k + 1 \in 1 .. n /\ f[k + 1] = Sunk(f[k]) /\ f[k] \in S /\ f[k + 1] \in S
    BY <1>7
  <2>2. GoesDown(f[k], n, M)
    BY <2>1, <1>4
  <2>3. Ended(f[k]) \/ Sunk(f[k]).at > f[k].at
    BY <2>2, SunkTurn
  <2>4. f[k].at \in 1 .. n /\ f[k + 1].at \in 1 .. n
    BY <2>1, <1>4 DEF GoesDown, Turn
  <2>5. CASE Ended(f[k])
    <3>1. f[k + 1] = f[k]
      BY <2>1, <2>5
    <3> QED BY <3>1, <2>5
  <2>6. CASE ~Ended(f[k])
    <3>1. i + k <= f[k].at /\ f[k + 1].at > f[k].at
      BY <2>1, <2>3, <2>6
    <3> HIDE DEF Ended
    <3>2. i + (k + 1) <= f[k + 1].at
      BY <3>1, <2>4
    <3> QED BY <3>2
  <2> QED BY <2>5, <2>6
<1>13. Ended(f[n])
  <2>1. \A k \in 0 .. n : k \in G
    <3> HIDE DEF G
    <3> QED BY <1>11, <1>12, Climbs
  <2>2. f[n] \in S
    BY <1>7
  <2>3. f[n].at \in 1 .. n
    BY <2>2, <1>4 DEF GoesDown, Turn
  <2>4. SUFFICES ASSUME NEW k \in 0 .. n, k = n, i + k <= f[k].at PROVE FALSE
    BY <2>1
  <2> HIDE DEF Ended, G
  <2> QED BY <2>3, <2>4
<1>14. GoesDown(f[n], n, M)
  BY <1>4, <1>7
<1> QED BY <1>8, <1>10, <1>13, <1>14 DEF GoesDown
-----------------------------------------------------------------------------
(* The operations.                                                         *)
IsHeap(c, M) == c \in Seq(M) /\ Holds(c, Len(c), M) /\ InOrder(Scores(c, Len(c)), Len(c))

LEMMA HeapPush ==
  ASSUME NEW M, NEW e, e \notin M, Scored(M \cup {e}), NEW c, IsHeap(c, M)
  PROVE  IsHeap(push(c, e), M \cup {e}) /\ Len(push(c, e)) = Len(c) + 1
<1> DEFINE N == M \cup {e}
           n == Len(c)
           d == Append(c, e)
           r == Scores(c, n)
           q == Scores(d, n + 1)
<1>1. /\ c \in Seq(M) /\ n \in Nat /\ c \in [1 .. n -> M]
      /\ Holds(c, n, M) /\ InOrder(r, n)
  BY LenProperties DEF IsHeap
<1>2. c \in Seq(N) /\ e \in N
  BY <1>1, SeqMonotonic
<1>3. /\ d \in Seq(N) /\ Len(d) = n + 1 /\ d[n + 1] = e
      /\ \A k \in 1 .. n : d[k] = c[k]
  BY <1>2, AppendProperties
<1>4. d \in [1 .. n + 1 -> N]
  BY <1>3, LenProperties
<1> HIDE DEF n, d, N
<1>5. Holds(d, n + 1, N)
  <2>1. \A k \in 1 .. n + 1 : k \in 1 .. n \/ k = n + 1
    BY <1>1
  <2>2. \A k \in 1 .. n : d[k] # e
    BY <1>1, <1>3
  <2>3. \A k, l \in 1 .. n + 1 : d[k] = d[l] => k = l
    BY <1>1, <1>3, <2>1, <2>2 DEF Holds
  <2>4. ASSUME NEW m \in N PROVE \E k \in 1 .. n + 1 : d[k] = m
    <3>1. CASE m = e
      BY <1>1, <1>3, <3>1
    <3>2. CASE m \in M
      <4>1. PICK k \in 1 .. n : c[k] = m
        BY <1>1, <3>2 DEF Holds
      <4> QED BY <1>1, <1>3, <4>1
    <3> QED BY <3>1, <3>2 DEF N
  <2> QED BY <1>4, <2>3, <2>4 DEF Holds
<1>6. Scored(N)
  BY DEF N
<1>7. Scored(M)
  BY DEF Scored
<1>8. r \in [1 .. n -> Int] /\ q \in [1 .. n + 1 -> Int] /\ \A k \in 1 .. n : q[k] = r[k]
  <2>1. r \in [1 .. n -> Int] /\ q \in [1 .. n + 1 -> Int]
    BY <1>1, <1>4, <1>6, <1>7, ScoresAre
  <2> QED BY <1>1, <1>3, <2>1 DEF Scores
<1> HIDE DEF r, q
<1>9. AlmostUp(q, n + 1, n + 1)
  <2> SUFFICES ASSUME NEW k \in 1 .. n + 1, k > 1
               PROVE  (k # n + 1 => q[k \div 2] <= q[k]) /\ k \div 2 # n + 1
    BY DEF AlmostUp
  <2>1. k \div 2 \in 1 .. n
    BY <1>1, Halved
  <2>2. CASE k # n + 1
    BY <1>1, <1>8, <2>1, <2>2 DEF InOrder
  <2> QED BY <1>1, <2>1, <2>2
<1>10. Holds(push(c, e), n + 1, N) /\ InOrder(Scores(push(c, e), n + 1), n + 1)
  <2>1. n + 1 \in Nat /\ n + 1 \in 1 .. n + 1
    BY <1>1
  <2>2. push(c, e) = bubbleUp(d, n + 1)
    BY DEF push, d, n
  <2> QED BY <1>5, <1>6, <1>9, <2>1, <2>2, BubbledUp DEF q
<1>11. push(c, e) \in Seq(N) /\ Len(push(c, e)) = n + 1
  BY <1>1, <1>10, ArrayIsSeq DEF Holds
<1> QED BY <1>10, <1>11 DEF IsHeap, N, n

(* The last element comes to the place of the one that goes.               *)
Hole(c, i) == [Front(c) EXCEPT ![i] = Last(c)]

LEMMA WithoutLast ==
  ASSUME NEW M, NEW c \in Seq(M), c # <<>>
  PROVE  /\ Front(c) \in Seq(M) /\ Len(Front(c)) = Len(c) - 1
         /\ \A k \in 1 .. Len(c) - 1 : Front(c)[k] = c[k]
         /\ Last(c) = c[Len(c)] /\ Len(c) \in Nat \ {0}
<1>1. Len(c) \in Nat \ {0}
  BY EmptySeq
<1>2. \A k \in 1 .. Len(c) - 1 : c[k] \in M
  BY <1>1, ElementOfSeq
<1>3. Len(c) - 1 \in Int /\ 1 \in Int
  BY <1>1
<1>4. /\ SubSeq(c, 1, Len(c) - 1) \in Seq(M)
      /\ Len(SubSeq(c, 1, Len(c) - 1)) = (IF 1 <= Len(c) - 1 THEN Len(c) - 1 - 1 + 1 ELSE 0)
      /\ \A k \in 1 .. Len(c) - 1 - 1 + 1 : SubSeq(c, 1, Len(c) - 1)[k] = c[1 + k - 1]
  BY <1>2, <1>3, SubSeqProperties
<1>5. \A k \in 1 .. Len(c) - 1 : k \in 1 .. Len(c) - 1 - 1 + 1 /\ 1 + k - 1 = k
  BY <1>1
<1>6. Len(SubSeq(c, 1, Len(c) - 1)) = Len(c) - 1
  <2>1. PICK n \in Nat \ {0} : n = Len(c)
    BY <1>1
  <2>2. (IF 1 <= n - 1 THEN n - 1 - 1 + 1 ELSE 0) = n - 1
    OBVIOUS
  <2> QED BY <1>4, <2>1, <2>2
<1>7. \A k \in 1 .. Len(c) - 1 : SubSeq(c, 1, Len(c) - 1)[k] = c[k]
  BY <1>4, <1>5
<1> QED BY <1>1, <1>4, <1>6, <1>7 DEF Front, Last

LEMMA FrontHolds ==
  ASSUME NEW M, NEW c \in Seq(M), c # <<>>, Holds(c, Len(c), M)
  PROVE  Holds(Front(c), Len(c) - 1, M \ {Last(c)})
<1> DEFINE n == Len(c)
           d == Front(c)
<1>1. /\ n \in Nat \ {0} /\ d \in Seq(M) /\ Len(d) = n - 1 /\ Last(c) = c[n]
      /\ \A k \in 1 .. n - 1 : d[k] = c[k]
  BY WithoutLast
<1>2. d \in [1 .. n - 1 -> M] /\ c \in [1 .. n -> M] /\ Holds(c, n, M)
  BY <1>1, LenProperties
<1> HIDE DEF n, d
<1>3. \A k \in 1 .. n - 1 : k \in 1 .. n /\ k # n
  BY <1>1
<1>4. \A k \in 1 .. n - 1 : d[k] # c[n]
  BY <1>1, <1>2, <1>3 DEF Holds
<1>5. d \in [1 .. n - 1 -> M \ {c[n]}]
  BY <1>2, <1>4
<1>6. \A k, l \in 1 .. n - 1 : d[k] = d[l] => k = l
  BY <1>1, <1>2, <1>3 DEF Holds
<1>7. ASSUME NEW m \in M \ {c[n]} PROVE \E k \in 1 .. n - 1 : d[k] = m
  <2>1. PICK k \in 1 .. n : c[k] = m
    BY <1>2 DEF Holds
  <2>2. k \in 1 .. n - 1
    BY <1>1, <2>1
  <2> QED BY <1>1, <2>1, <2>2
<1>8. Holds(d, n - 1, M \ {c[n]})
  BY <1>5, <1>6, <1>7 DEF Holds
<1> QED BY <1>1, <1>8 DEF n, d

LEMMA HoleHolds ==
  ASSUME NEW M, NEW c \in Seq(M), Holds(c, Len(c), M), NEW i \in 1 .. Len(c) - 1
  PROVE  /\ Holds(Hole(c, i), Len(c) - 1, M \ {c[i]})
         /\ Hole(c, i)[i] = c[Len(c)]
         /\ \A k \in 1 .. Len(c) - 1 : k # i => Hole(c, i)[k] = c[k]
<1> DEFINE n == Len(c)
           b == Front(c)
           d == Hole(c, i)
<1>0. Len(c) \in Nat /\ c # <<>>
  BY LenProperties, EmptySeq
<1>1. /\ n \in Nat \ {0} /\ b \in Seq(M) /\ Len(b) = n - 1 /\ Last(c) = c[n]
      /\ \A k \in 1 .. n - 1 : b[k] = c[k]
  BY <1>0, WithoutLast
<1>2. b \in [1 .. n - 1 -> M] /\ c \in [1 .. n -> M] /\ Holds(c, n, M)
  BY <1>1, LenProperties
<1>3. d = [b EXCEPT ![i] = c[n]]
  BY <1>1 DEF Hole
<1> HIDE DEF n, b, d
<1>4. i \in 1 .. n - 1 /\ i \in 1 .. n /\ n \in 1 .. n
  BY <1>1 DEF n
<1>5. \A k \in 1 .. n - 1 : k \in 1 .. n /\ k # n
  BY <1>1
<1>6. c[n] \in M
  BY <1>2, <1>4
<1>7. /\ d \in [1 .. n - 1 -> M] /\ d[i] = c[n]
      /\ \A k \in 1 .. n - 1 : k # i => d[k] = c[k]
  BY <1>1, <1>2, <1>3, <1>4, <1>6
<1>8. \A k \in 1 .. n - 1 : d[k] # c[i]
  BY <1>2, <1>4, <1>5, <1>7 DEF Holds
<1>9. d \in [1 .. n - 1 -> M \ {c[i]}]
  BY <1>7, <1>8
<1>10. \A k, l \in 1 .. n - 1 : d[k] = d[l] => k = l
  BY <1>2, <1>4, <1>5, <1>7 DEF Holds
<1>11. ASSUME NEW m \in M \ {c[i]} PROVE \E k \in 1 .. n - 1 : d[k] = m
  <2>1. PICK k \in 1 .. n : c[k] = m
    BY <1>2 DEF Holds
  <2>2. CASE k = n
    BY <1>4, <1>7, <2>1, <2>2
  <2>3. CASE k # n
    <3>1. k \in 1 .. n - 1 /\ k # i
      BY <1>1, <2>1, <2>3
    <3> QED BY <1>7, <2>1, <3>1
  <2> QED BY <2>2, <2>3
<1>12. Holds(d, n - 1, M \ {c[i]})
  BY <1>9, <1>10, <1>11 DEF Holds
<1> QED BY <1>7, <1>12 DEF n, d
LEMMA HoleOrdered ==
  ASSUME NEW M, Scored(M), NEW c, IsHeap(c, M), NEW i \in 1 .. Len(c) - 1
  PROVE  /\ Less(c[Len(c)], c[i]) => AlmostUp(Scores(Hole(c, i), Len(c) - 1), Len(c) - 1, i)
         /\ ~Less(c[Len(c)], c[i]) => AlmostDown(Scores(Hole(c, i), Len(c) - 1), Len(c) - 1, i)
<1>1. PICK n \in Nat : n = Len(c) /\ c \in Seq(M) /\ c \in [1 .. n -> M] /\ Holds(c, n, M)
  BY LenProperties DEF IsHeap
<1>2. i \in 1 .. n - 1 /\ i \in 1 .. n /\ n \in 1 .. n /\ n - 1 \in Nat
  BY <1>1
<1>3. PICK r \in [1 .. n -> Int] :
        /\ r = Scores(c, n) /\ InOrder(r, n)
        /\ \A k, l \in 1 .. n : Less(c[k], c[l]) <=> r[k] < r[l]
  BY <1>1, ScoresAre DEF IsHeap
<1>4. PICK d : /\ d = Hole(c, i) /\ d \in [1 .. n - 1 -> M] /\ d[i] = c[n]
               /\ \A k \in 1 .. n - 1 : k # i => d[k] = c[k]
  <2>1. /\ Holds(Hole(c, i), n - 1, M \ {c[i]})
        /\ Hole(c, i)[i] = c[n]
        /\ \A k \in 1 .. n - 1 : k # i => Hole(c, i)[k] = c[k]
    BY <1>1, HoleHolds
  <2>2. Hole(c, i) \in [1 .. n - 1 -> M]
    BY <2>1 DEF Holds
  <2> QED BY <2>1, <2>2
<1> DEFINE q == Scores(d, n - 1)
<1>5. q \in [1 .. n - 1 -> Int] /\ q[i] = r[n] /\ \A k \in 1 .. n - 1 : k # i => q[k] = r[k]
  <2>1. Scores(d, n - 1) \in [1 .. n - 1 -> Int]
    BY <1>2, <1>4, ScoresAre
  <2>2. /\ \A k \in 1 .. n - 1 : Scores(d, n - 1)[k] = d[k].priority
        /\ \A k \in 1 .. n : r[k] = c[k].priority
    BY <1>3 DEF Scores
  <2>3. \A k \in 1 .. n - 1 : k \in 1 .. n
    BY <1>1
  <2> QED BY <1>2, <1>4, <2>1, <2>2, <2>3
<1> HIDE DEF q
<1>6. ASSUME NEW k \in 1 .. n - 1, k > 1
      PROVE  /\ k \in 1 .. n /\ k \div 2 \in 1 .. n - 1 /\ k \div 2 < k /\ k \div 2 \in 1 .. n
             /\ r[k \div 2] <= r[k]
  BY <1>1, <1>3, <1>6, Halved DEF InOrder
<1>7. i > 1 => i \div 2 < i /\ i \div 2 \in 1 .. n - 1 /\ i \div 2 \in 1 .. n /\ r[i \div 2] <= r[i]
  BY <1>2, <1>6
<1>8. ASSUME r[n] < r[i] PROVE AlmostUp(q, n - 1, i)
  <2> SUFFICES ASSUME NEW k \in 1 .. n - 1, k > 1
               PROVE  /\ k # i => q[k \div 2] <= q[k]
                      /\ k \div 2 = i /\ i > 1 => q[i \div 2] <= q[k]
    BY DEF AlmostUp
  <2>1. PICK p \in 1 .. n - 1 : p = k \div 2 /\ p \in 1 .. n /\ p < k /\ r[p] <= r[k] /\ k \in 1 .. n
    BY <1>6
  <2>2. k # i => q[p] <= q[k]
    <3>1. r \in [1 .. n -> Int]
      BY <1>2, <1>3
    <3>2. p # i => q[p] = r[p]
      BY <1>5
    <3>3. p = i => q[p] = r[n]
      BY <1>5
    <3>4. k # i => q[k] = r[k]
      BY <1>5
    <3>5. r[n] \in Int /\ r[p] \in Int /\ r[k] \in Int
      BY <1>1, <2>1, <3>1
    <3> QED BY <1>8, <2>1, <3>2, <3>3, <3>4, <3>5
  <2>3. ASSUME p = i, i > 1 PROVE q[i \div 2] <= q[k]
    <3>1. PICK l \in 1 .. n - 1 : l = i \div 2 /\ l \in 1 .. n /\ l < i /\ r[l] <= r[i]
      BY <1>7, <2>3
    <3>2. q[l] = r[l] /\ q[k] = r[k] /\ r[l] <= r[k]
      BY <1>2, <1>3, <1>5, <2>1, <2>3, <3>1
    <3> QED BY <3>1, <3>2
  <2> QED BY <2>1, <2>2, <2>3
<1>9. ASSUME r[i] <= r[n] PROVE AlmostDown(q, n - 1, i)
  <2> SUFFICES ASSUME NEW k \in 1 .. n - 1, k > 1
               PROVE  /\ k \div 2 # i => q[k \div 2] <= q[k]
                      /\ k \div 2 = i /\ i > 1 => q[i \div 2] <= q[k]
    BY DEF AlmostDown
  <2>1. PICK p \in 1 .. n - 1 : p = k \div 2 /\ p \in 1 .. n /\ p < k /\ r[p] <= r[k] /\ k \in 1 .. n
    BY <1>6
  <2>2. p # i => q[p] <= q[k]
    <3>1. CASE k = i
      BY <1>2, <1>3, <1>5, <1>9, <2>1, <3>1
    <3>2. CASE k # i
      BY <1>5, <2>1, <3>2
    <3> QED BY <3>1, <3>2
  <2>3. ASSUME p = i, i > 1 PROVE q[i \div 2] <= q[k]
    <3>1. PICK l \in 1 .. n - 1 : l = i \div 2 /\ l \in 1 .. n /\ l < i /\ r[l] <= r[i]
      BY <1>7, <2>3
    <3>2. q[l] = r[l] /\ q[k] = r[k] /\ r[l] <= r[k]
      BY <1>2, <1>3, <1>5, <2>1, <2>3, <3>1
    <3> QED BY <3>1, <3>2
  <2> QED BY <2>1, <2>2, <2>3
<1>10. Less(c[n], c[i]) <=> r[n] < r[i]
  BY <1>2, <1>3
<1>11. r[n] < r[i] \/ r[i] <= r[n]
  BY <1>2, <1>3
<1> QED BY <1>1, <1>4, <1>8, <1>9, <1>10, <1>11 DEF q

(* The array without the element at i is a heap again.                     *)
LEMMA HoleFilled ==
  ASSUME NEW M, Scored(M), NEW c, IsHeap(c, M), NEW i \in 1 .. Len(c) - 1,
         NEW d, d = IF Less(c[Len(c)], c[i]) THEN bubbleUp(Hole(c, i), i) ELSE sinkDown(Hole(c, i), i)
  PROVE  IsHeap(d, M \ {c[i]}) /\ Len(d) = Len(c) - 1
<1> DEFINE N == M \ {c[i]}
<1>1. PICK n \in Nat : n = Len(c) - 1
  BY LenProperties DEF IsHeap
<1>2. Holds(Hole(c, i), n, N) /\ Scored(N) /\ i \in 1 .. n
  BY <1>1, HoleHolds DEF IsHeap, Scored
<1> HIDE DEF N
<1>3. Holds(d, n, N) /\ InOrder(Scores(d, n), n)
  <2>1. CASE Less(c[Len(c)], c[i])
    <3>1. AlmostUp(Scores(Hole(c, i), n), n, i)
      BY <1>1, <2>1, HoleOrdered
    <3> QED BY <1>2, <2>1, <3>1, BubbledUp
  <2>2. CASE ~Less(c[Len(c)], c[i])
    <3>1. AlmostDown(Scores(Hole(c, i), n), n, i)
      BY <1>1, <2>2, HoleOrdered
    <3> QED BY <1>2, <2>2, <3>1, SunkDown
  <2> QED BY <2>1, <2>2
<1>4. d \in Seq(N) /\ Len(d) = n
  BY <1>3, ArrayIsSeq DEF Holds
<1> QED BY <1>1, <1>3, <1>4 DEF IsHeap, N

LEMMA FrontIsHeap ==
  ASSUME NEW M, Scored(M), NEW c, IsHeap(c, M), c # <<>>
  PROVE  IsHeap(Front(c), M \ {c[Len(c)]}) /\ Len(Front(c)) = Len(c) - 1
<1>1. PICK n \in Nat \ {0} : n = Len(c) /\ c \in Seq(M) /\ c \in [1 .. n -> M] /\ Holds(c, n, M)
  BY EmptySeq, LenProperties DEF IsHeap
<1>2. PICK d : /\ d = Front(c) /\ Len(d) = n - 1 /\ Holds(d, n - 1, M \ {c[n]})
               /\ \A k \in 1 .. n - 1 : d[k] = c[k]
  <2>1. /\ Last(c) = c[n] /\ Len(Front(c)) = n - 1
        /\ \A k \in 1 .. n - 1 : Front(c)[k] = c[k]
    BY <1>1, WithoutLast
  <2>2. Holds(Front(c), n - 1, M \ {c[n]})
    BY <1>1, <2>1, FrontHolds
  <2> QED BY <2>1, <2>2
<1>3. d \in Seq(M \ {c[n]}) /\ n - 1 \in Nat
  BY <1>1, <1>2, ArrayIsSeq DEF Holds
<1>4. InOrder(Scores(d, n - 1), n - 1)
  <2>1. InOrder(Scores(c, n), n)
    BY <1>1 DEF IsHeap
  <2>2. ASSUME NEW k \in 1 .. n - 1, k > 1 PROVE Scores(d, n - 1)[k \div 2] <= Scores(d, n - 1)[k]
    <3>1. k \div 2 \in 1 .. n - 1 /\ k \div 2 \in 1 .. n /\ k \in 1 .. n
      BY <1>1, <2>2, Halved
    <3>2. Scores(c, n)[k \div 2] <= Scores(c, n)[k]
      BY <2>1, <2>2, <3>1 DEF InOrder
    <3> QED BY <1>2, <3>1, <3>2 DEF Scores
  <2> QED BY <2>2 DEF InOrder
<1> QED BY <1>1, <1>2, <1>3, <1>4 DEF IsHeap

LEMMA RootIsLeast ==
  ASSUME NEW M, Scored(M), NEW c, IsHeap(c, M), c # <<>>
  PROVE  c[1] \in M /\ \A m \in M : ~Less(m, c[1])
<1>1. PICK n \in Nat \ {0} : n = Len(c) /\ c \in Seq(M) /\ c \in [1 .. n -> M] /\ Holds(c, n, M)
  BY EmptySeq, LenProperties DEF IsHeap
<1>2. PICK r \in [1 .. n -> Int] :
        /\ r = Scores(c, n) /\ InOrder(r, n)
        /\ \A k, l \in 1 .. n : Less(c[k], c[l]) <=> r[k] < r[l]
  BY <1>1, ScoresAre DEF IsHeap
<1>3. \A k \in 1 .. n : r[1] <= r[k]
  BY <1>2, FirstIsLeast
<1>4. 1 \in 1 .. n
  BY <1>1
<1>5. ASSUME NEW m \in M PROVE ~Less(m, c[1])
  <2>1. PICK k \in 1 .. n : c[k] = m
    BY <1>1 DEF Holds
  <2> QED BY <1>2, <1>3, <1>4, <2>1
<1> QED BY <1>1, <1>4, <1>5

LEMMA HeapPop ==
  ASSUME NEW M, Scored(M), NEW c, IsHeap(c, M), c # <<>>
  PROVE  IsHeap(pop(c), M \ {c[1]}) /\ Len(pop(c)) = Len(c) - 1
<1>1. Len(c) \in Nat \ {0} /\ c \in Seq(M)
  BY EmptySeq DEF IsHeap
<1>2. CASE Len(c) = 1
  <2>1. pop(c) = <<>>
    BY <1>2 DEF pop
  <2>2. IsHeap(Front(c), M \ {c[1]}) /\ Len(Front(c)) = 0
    <3>1. IsHeap(Front(c), M \ {c[Len(c)]}) /\ Len(Front(c)) = Len(c) - 1
      BY FrontIsHeap
    <3> QED BY <1>2, <3>1
  <2>3. Front(c) = <<>>
    BY <2>2, EmptySeq DEF IsHeap
  <2> QED BY <1>2, <2>1, <2>2, <2>3
<1>3. CASE Len(c) # 1
  <2>1. 1 \in 1 .. Len(c) - 1
    <3>1. PICK n \in Nat \ {0} : n = Len(c) /\ n # 1
      BY <1>1, <1>3
    <3>2. 1 \in 1 .. n - 1
      BY <3>1
    <3> QED BY <3>1, <3>2
  <2>2. ~Less(c[Len(c)], c[1])
    BY <1>1, RootIsLeast, ElementOfSeq
  <2>3. pop(c) = sinkDown(Hole(c, 1), 1)
    BY <1>3 DEF pop, Hole
  <2> QED BY <2>1, <2>2, <2>3, HoleFilled
<1> QED BY <1>2, <1>3

LEMMA HeapRemove ==
  ASSUME NEW M, Scored(M), NEW c, IsHeap(c, M), NEW e \in M
  PROVE  IsHeap(remove(c, e), M \ {e}) /\ Len(remove(c, e)) = Len(c) - 1
<1>1. /\ c \in Seq(M) /\ Len(c) \in Nat /\ DOMAIN c = 1 .. Len(c) /\ Holds(c, Len(c), M)
      /\ c # <<>>
  <2>1. c \in Seq(M) /\ Len(c) \in Nat /\ DOMAIN c = 1 .. Len(c) /\ Holds(c, Len(c), M)
    BY LenProperties DEF IsHeap
  <2>2. c # <<>>
    BY <2>1, EmptySeq DEF Holds
  <2> QED BY <2>1, <2>2
<1>2. \E i \in 1 .. Len(c) : c[i] = e
  BY <1>1 DEF Holds
<1> DEFINE i == CHOOSE n \in DOMAIN c : c[n] = e
<1>3. i \in 1 .. Len(c) /\ c[i] = e
  BY <1>1, <1>2
<1>4. Last(c) = c[Len(c)]
  BY DEF Last
<1>5. remove(c, e) =
        IF i = Len(c) THEN Front(c)
        ELSE IF Less(c[Len(c)], e) THEN bubbleUp(Hole(c, i), i) ELSE sinkDown(Hole(c, i), i)
  BY <1>4 DEF remove, Hole
<1> HIDE DEF i
<1>6. CASE i = Len(c)
  BY <1>1, <1>3, <1>5, <1>6, FrontIsHeap
<1>7. CASE i # Len(c)
  <2>1. i \in 1 .. Len(c) - 1
    <3>1. PICK n \in Nat : n = Len(c) /\ i \in 1 .. n /\ i # n
      BY <1>1, <1>3, <1>7
    <3>2. i \in 1 .. n - 1
      BY <3>1
    <3> QED BY <3>1, <3>2
  <2> QED BY <1>3, <1>5, <1>7, <2>1, HoleFilled
<1> QED BY <1>6, <1>7

LEMMA HeapIsOrdered ==
  ASSUME NEW M, Scored(M), NEW c, IsHeap(c, M)
  PROVE  Ordered(c) /\ ToSet(c) = M /\ IsFiniteSet(M) /\ Cardinality(M) = Len(c)
<1>1. PICK n \in Nat : /\ n = Len(c) /\ c \in Seq(M) /\ c \in [1 .. n -> M] /\ Holds(c, n, M)
                       /\ DOMAIN c = 1 .. n
  BY LenProperties DEF IsHeap
<1>2. PICK r \in [1 .. n -> Int] :
        /\ r = Scores(c, n) /\ InOrder(r, n)
        /\ \A k, l \in 1 .. n : Less(c[k], c[l]) <=> r[k] < r[l]
  BY <1>1, ScoresAre DEF IsHeap
<1>3. ASSUME NEW k \in DOMAIN c, k > 1 PROVE ~Less(c[k], c[k \div 2])
  <2>1. k \in 1 .. n /\ k \div 2 \in 1 .. n /\ r[k \div 2] <= r[k]
    BY <1>1, <1>2, <1>3, Halved DEF InOrder
  <2> QED BY <1>2, <2>1
<1>4. ToSet(c) = M
  BY <1>1 DEF ToSet, Holds
<1>5. c \in Bijection(1 .. n, M)
  BY <1>1 DEF Holds, Bijection, Injection, Surjection, IsInjective
<1>6. ExistsBijection(1 .. n, M)
  BY <1>5 DEF ExistsBijection
<1> QED BY <1>1, <1>3, <1>4, <1>6, FS_CountingElements, FS_NatBijection DEF Ordered
-----------------------------------------------------------------------------
(* The instances have copies of the operators on heaps.                    *)
LEMMA HeapOperators ==
  /\ Heap!NaN = NaN /\ \A a, b : Heap!Less(a, b) <=> Less(a, b)
  /\ \A c, e : Heap!push(c, e) = push(c, e) /\ Heap!remove(c, e) = remove(c, e)
  /\ \A c : Heap!pop(c) = pop(c) /\ (Heap!Ordered(c) <=> Ordered(c)) /\ Heap!ToSet(c) = ToSet(c)
  /\ \A S : Heap!Cardinality(S) = Cardinality(S)
<1>1. Heap!NaN = NaN
  BY DEF Heap!NaN, NaN
<1>2. \A a, b : Heap!Less(a, b) <=> Less(a, b)
  BY <1>1 DEF Heap!Less, Less
<1>3. \A h : Heap!Raised(h) = Raised(h)
  BY <1>2 DEF Heap!Raised, Raised, Heap!Swap, Swap
<1>4. \A h : Heap!Sunk(h) = Sunk(h)
  <2>1. \A s, i, j : Heap!Swap(s, i, j) = Swap(s, i, j)
    BY DEF Heap!Swap, Swap
  <2> QED BY <1>2, <2>1, SMTT(30) DEF Heap!Sunk, Sunk
<1>5. \A c, i : Heap!bubbleUp(c, i) = bubbleUp(c, i)
  BY <1>3 DEF Heap!bubbleUp, bubbleUp
<1>6. \A c, i : Heap!sinkDown(c, i) = sinkDown(c, i)
  BY <1>4 DEF Heap!sinkDown, sinkDown
<1>7. \A c : Heap!Front(c) = Front(c) /\ Heap!Last(c) = Last(c)
  BY DEF Heap!Front, Front, Heap!Last, Last
<1>8. \A c, e : Heap!push(c, e) = push(c, e)
  BY <1>5 DEF Heap!push, push
<1>9. \A c : Heap!pop(c) = pop(c)
  BY <1>6, <1>7 DEF Heap!pop, pop
<1>10. \A c, e : Heap!remove(c, e) = remove(c, e)
  <2> SUFFICES ASSUME NEW c, NEW e PROVE Heap!remove(c, e) = remove(c, e)
    OBVIOUS
  <2> DEFINE i == CHOOSE n \in DOMAIN c : c[n] = e
             hole == [Front(c) EXCEPT ![i] = Last(c)]
  <2>1. remove(c, e) = IF i = Len(c) THEN Front(c)
                       ELSE IF Less(Last(c), e) THEN bubbleUp(hole, i) ELSE sinkDown(hole, i)
    BY DEF remove
  <2>2. Heap!remove(c, e) =
          IF i = Len(c) THEN Heap!Front(c)
          ELSE IF Heap!Less(Heap!Last(c), e)
               THEN Heap!bubbleUp([Heap!Front(c) EXCEPT ![i] = Heap!Last(c)], i)
               ELSE Heap!sinkDown([Heap!Front(c) EXCEPT ![i] = Heap!Last(c)], i)
    BY DEF Heap!remove
  <2> HIDE DEF i
  <2> QED BY <2>1, <2>2, <1>2, <1>5, <1>6, <1>7
<1>11. \A c : (Heap!Ordered(c) <=> Ordered(c)) /\ Heap!ToSet(c) = ToSet(c)
  BY <1>2 DEF Heap!Ordered, Ordered, Heap!ToSet, ToSet
<1>12. \A S : Heap!Cardinality(S) = Cardinality(S)
  BY DEF Heap!Cardinality, Cardinality, Heap!IsFiniteSet, IsFiniteSet
<1> QED BY <1>1, <1>2, <1>8, <1>9, <1>10, <1>11, <1>12

(* The heap on its own holds what was pushed and not popped or removed.    *)
HeapInv == members \subseteq [id : Ids, priority : Priorities] /\ IsHeap(content, members)

LEMMA ElementsScored ==
  ASSUME NEW M \in SUBSET [id : Ids, priority : Priorities]
  PROVE  Scored(M)
BY MetersAssumption, HeapOperators DEF Heap!ElementAssumption, Scored

LEMMA HeapInit == Heap!Init => HeapInv
<1> SUFFICES ASSUME Heap!Init PROVE HeapInv
  OBVIOUS
<1>1. content = <<>> /\ members = {}
  BY DEF Heap!Init
<1>2. content \in Seq({}) /\ Len(content) = 0 /\ content \in [1 .. 0 -> {}]
  BY <1>1, EmptySeq
<1>3. Holds(content, 0, {}) /\ InOrder(Scores(content, 0), 0)
  BY <1>2 DEF Holds, InOrder
<1> QED BY <1>1, <1>2, <1>3 DEF HeapInv, IsHeap

LEMMA HeapStep ==
  ASSUME HeapInv, [Heap!Next]_heap
  PROVE  HeapInv' /\ (popped' # popped => \A e \in members : ~Heap!Less(e, popped'[1]))
<1>1. Scored(members) /\ IsHeap(content, members)
  BY ElementsScored DEF HeapInv
<1>2. CASE Heap!Pop
  <2>1. /\ content # <<>> /\ content' = pop(content) /\ members' = members \ {content[1]}
        /\ popped' = <<content[1]>>
    BY <1>2, HeapOperators DEF Heap!Pop
  <2>2. IsHeap(content', members')
    BY <1>1, <2>1, HeapPop
  <2>3. \A e \in members : ~Less(e, content[1])
    BY <1>1, <2>1, RootIsLeast
  <2>4. popped'[1] = content[1]
    BY <2>1
  <2> QED BY <2>1, <2>2, <2>3, <2>4, HeapOperators DEF HeapInv
<1>3. ASSUME NEW e \in [id : Ids, priority : Priorities], Heap!Push(e)
      PROVE  HeapInv' /\ popped' = popped
  <2>1. /\ e \notin members /\ content' = push(content, e) /\ members' = members \cup {e}
        /\ popped' = popped
    BY <1>3, HeapOperators DEF Heap!Push
  <2>2. members \cup {e} \subseteq [id : Ids, priority : Priorities]
    BY DEF HeapInv
  <2>3. IsHeap(push(content, e), members \cup {e})
    BY <1>1, <2>1, <2>2, ElementsScored, HeapPush
  <2> QED BY <2>1, <2>2, <2>3 DEF HeapInv
<1>4. ASSUME NEW e \in [id : Ids, priority : Priorities], Heap!RemoveNode(e)
      PROVE  HeapInv' /\ popped' = popped
  <2>1. /\ e \in members /\ content' = remove(content, e) /\ members' = members \ {e}
        /\ popped' = popped
    BY <1>4, HeapOperators DEF Heap!RemoveNode
  <2>2. IsHeap(content', members')
    BY <1>1, <2>1, HeapRemove
  <2> QED BY <2>1, <2>2 DEF HeapInv
<1>5. CASE UNCHANGED heap
  BY <1>5 DEF heap, HeapInv
<1> QED BY <1>2, <1>3, <1>4, <1>5 DEF Heap!Next

LEMMA HeapIsSound == HeapInv => Heap!SameMembers /\ Heap!HeapOrdered
<1> SUFFICES ASSUME HeapInv PROVE Heap!SameMembers /\ Heap!HeapOrdered
  OBVIOUS
<1>1. Ordered(content) /\ ToSet(content) = members /\ Cardinality(members) = Len(content)
  BY ElementsScored, HeapIsOrdered DEF HeapInv
<1> QED BY <1>1, HeapOperators DEF Heap!SameMembers, Heap!HeapOrdered
-----------------------------------------------------------------------------
(* The decaying sample, while the exponents are those of numbers that a    *)
(* floating point can hold: between two rescalings none becomes infinite,  *)
(* and in the time that passes none zero.                                  *)
InRange ==
  /\ Threshold + MaxIdle + MaxRandom <= MaxExp /\ MaxTime <= MinExp
  /\ MaxExp < Sample!Infinity /\ MinExp < NaN

LEMMA SampleOperators ==
  /\ Sample!NaN = NaN /\ \A a, b : Sample!Less(a, b) <=> Less(a, b)
  /\ \A c, e : Sample!push(c, e) = push(c, e)
  /\ \A c : Sample!pop(c) = pop(c) /\ (Sample!Ordered(c) <=> Ordered(c))
<1>1. Sample!NaN = NaN
  BY DEF Sample!NaN, NaN
<1>2. \A a, b : Sample!Less(a, b) <=> Less(a, b)
  BY <1>1 DEF Sample!Less, Less
<1>3. \A h : Sample!Raised(h) = Raised(h)
  BY <1>2 DEF Sample!Raised, Raised, Sample!Swap, Swap
<1>4. \A h : Sample!Sunk(h) = Sunk(h)
  <2>1. \A s, i, j : Sample!Swap(s, i, j) = Swap(s, i, j)
    BY DEF Sample!Swap, Swap
  <2> QED BY <1>2, <2>1, SMTT(30) DEF Sample!Sunk, Sunk
<1>5. \A c, i : Sample!bubbleUp(c, i) = bubbleUp(c, i)
  BY <1>3 DEF Sample!bubbleUp, bubbleUp
<1>6. \A c, i : Sample!sinkDown(c, i) = sinkDown(c, i)
  BY <1>4 DEF Sample!sinkDown, sinkDown
<1>7. \A c : Sample!Front(c) = Front(c) /\ Sample!Last(c) = Last(c)
  BY DEF Sample!Front, Front, Sample!Last, Last
<1>8. \A c, e : Sample!push(c, e) = push(c, e)
  BY <1>5 DEF Sample!push, push
<1>9. \A c : Sample!pop(c) = pop(c)
  BY <1>6, <1>7 DEF Sample!pop, pop
<1>10. \A c : (Sample!Ordered(c) <=> Ordered(c))
  BY <1>2 DEF Sample!Ordered, Ordered
<1> QED BY <1>1, <1>2, <1>8, <1>9, <1>10

(* The items of the updates K, with priorities from the time start.        *)
Item(j, p) == [val |-> j, priority |-> p]
Items(K, from, start) == {Item(j, from[j] - start) : j \in K}

Clocked ==
  /\ now \in 0 .. MaxTime /\ startTime \in 0 .. now /\ last \in startTime .. now
  /\ nextScaleTime = startTime + Threshold /\ last <= nextScaleTime /\ now - last <= MaxIdle

(* The sample holds the items of K, and none that was dropped had more.    *)
Keeps(K, s, n, from, start) ==
  /\ K \subseteq 1 .. Len(from) /\ IsHeap(s, Items(K, from, start)) /\ Len(s) = n
  /\ n < Limit => K = 1 .. Len(from)
  /\ \A i \in K, j \in (1 .. Len(from)) \ K : from[j] <= from[i]

SampleInv ==
  /\ Clocked /\ size \in 0 .. Limit
  /\ offered \in Seq(0 .. last + MaxRandom)
  /\ \E K : Keeps(K, values, size, offered, startTime)

LEMMA SampleConstants ==
  /\ {Limit, Threshold} \subseteq Nat \ {0}
  /\ {MinExp, MaxExp, MaxRandom, MaxTime, MaxIdle, MaxUpdates} \subseteq Nat
BY MetersAssumption DEF Sample!SampleAssumption

LEMMA TimesInRange ==
  ASSUME InRange, NEW p \in (-MinExp) .. MaxExp, NEW d \in (-MinExp) .. MaxExp,
         p + d \in (-MinExp) .. MaxExp
  PROVE  Sample!Times(p, d) = p + d
<1>1. /\ MinExp \in Nat /\ MaxExp \in Nat /\ NaN = 1000000
      /\ Sample!Infinity = NaN - 1 /\ Sample!Zero = -NaN /\ Sample!NaN = NaN
  BY SampleConstants, SampleOperators DEF NaN, Sample!Infinity, Sample!Zero
<1>2. MaxExp < NaN - 1 /\ MinExp < NaN
  BY <1>1 DEF InRange
<1>3. ASSUME NEW e \in (-MinExp) .. MaxExp
      PROVE  Sample!Number(e) = e /\ e # NaN /\ e # Sample!Infinity /\ e # Sample!Zero
  BY <1>1, <1>2 DEF Sample!Number
<1>4. Sample!Number(d) = d /\ Sample!Number(p + d) = p + d
  BY <1>3
<1>5. /\ p # Sample!NaN /\ p # Sample!Infinity /\ p # Sample!Zero
      /\ d # Sample!Infinity /\ d # Sample!Zero
  BY <1>1, <1>3
<1>6. {p, d} # {Sample!Infinity, Sample!Zero} /\ Sample!Zero \notin {p, d}
  BY <1>5
<1> QED BY <1>4, <1>5, <1>6 DEF Sample!Times

LEMMA ItemsScored ==
  ASSUME NEW from \in Seq(Nat), NEW K \in SUBSET (1 .. Len(from)), NEW start \in Nat,
         \A j \in K : from[j] - start < NaN
  PROVE  Scored(Items(K, from, start))
<1> SUFFICES ASSUME NEW j \in K PROVE from[j] - start \in Int /\ from[j] - start # NaN
  BY DEF Scored, Items, Item
<1>1. from[j] \in Nat
  BY ElementOfSeq
<1> QED BY <1>1 DEF NaN

LEMMA SampleInit == Sample!Init => SampleInv
<1> SUFFICES ASSUME Sample!Init PROVE SampleInv
  OBVIOUS
<1>1. /\ now = 0 /\ startTime = 0 /\ nextScaleTime = Threshold /\ size = 0
      /\ values = <<>> /\ offered = <<>> /\ last = 0
  BY DEF Sample!Init
<1>2. Clocked
  BY <1>1, SampleConstants DEF Clocked
<1>3. Keeps({}, <<>>, 0, <<>>, 0)
  <2>1. Items({}, <<>>, 0) = {}
    BY DEF Items
  <2>2. IsHeap(<<>>, {})
    BY EmptySeq DEF IsHeap, Holds, InOrder
  <2>3. Len(<<>>) = 0 /\ {} = 1 .. 0
    BY EmptySeq
  <2> QED BY <2>1, <2>2, <2>3 DEF Keeps
<1>4. size \in 0 .. Limit /\ offered \in Seq(0 .. last + MaxRandom)
  BY <1>1, SampleConstants, EmptySeq
<1> QED BY <1>1, <1>2, <1>3, <1>4 DEF SampleInv

LEMMA ItemsExtend ==
  ASSUME NEW from \in Seq(Nat), NEW e \in Nat, NEW start \in Nat, NEW K \in SUBSET (1 .. Len(from)),
         NEW N, N = Len(from) + 1
  PROVE  /\ Items(K, Append(from, e), start) = Items(K, from, start)
         /\ Items(K \cup {N}, Append(from, e), start)
              = Items(K, from, start) \cup {Item(N, e - start)}
         /\ Item(N, e - start) \notin Items(K, from, start)
         /\ Append(from, e) \in Seq(Nat) /\ Len(Append(from, e)) = N /\ Append(from, e)[N] = e
         /\ \A j \in 1 .. Len(from) : Append(from, e)[j] = from[j]
<1>1. /\ Append(from, e) \in Seq(Nat) /\ Len(Append(from, e)) = N /\ Append(from, e)[N] = e
      /\ \A j \in 1 .. Len(from) : Append(from, e)[j] = from[j]
  BY AppendProperties
<1>2. PICK g : g = Append(from, e)
  OBVIOUS
<1>3. Len(from) \in Nat /\ N \notin K
  BY LenProperties
<1>4. Items(K, g, start) = Items(K, from, start)
  BY <1>1, <1>2 DEF Items
<1>5. Items(K \cup {N}, g, start) = Items(K, g, start) \cup {Item(N, g[N] - start)}
  BY DEF Items
<1>6. \A j \in K : Item(j, from[j] - start) # Item(N, e - start)
  BY <1>3 DEF Item
<1>7. Item(N, e - start) \notin Items(K, from, start)
  BY <1>6 DEF Items
<1> QED BY <1>1, <1>2, <1>4, <1>5, <1>7

(* What an update takes or drops leaves the greatest.                      *)
LEMMA TakenKeeps ==
  ASSUME NEW from \in Seq(Nat), NEW e \in Nat, NEW start \in Nat, NEW K, NEW s, NEW n \in 0 .. Limit,
         Keeps(K, s, n, from, start), e - start < NaN, \A j \in 1 .. Len(from) : from[j] - start < NaN,
         NEW item, item = Item(Len(from) + 1, e - start),
         NEW t, t = IF n < Limit THEN push(s, item)
                    ELSE IF Less(s[1], item) THEN pop(push(s, item)) ELSE s
  PROVE  \E L : Keeps(L, t, IF n < Limit THEN n + 1 ELSE n, Append(from, e), start)
<1>1. PICK N : N = Len(from) + 1
  OBVIOUS
<1>2. PICK g \in Seq(Nat) :
        /\ g = Append(from, e) /\ Len(g) = N /\ g[N] = e
        /\ \A j \in 1 .. Len(from) : g[j] = from[j]
  <2>1. K \in SUBSET (1 .. Len(from))
    BY DEF Keeps
  <2>2. /\ Append(from, e) \in Seq(Nat) /\ Len(Append(from, e)) = N /\ Append(from, e)[N] = e
        /\ \A j \in 1 .. Len(from) : Append(from, e)[j] = from[j]
    BY <1>1, <2>1, ItemsExtend
  <2> QED BY <2>2
<1>3. /\ K \subseteq 1 .. Len(from) /\ Len(from) \in Nat /\ IsHeap(s, Items(K, from, start)) /\ Len(s) = n
      /\ Limit \in Nat \ {0}
  BY LenProperties, SampleConstants DEF Keeps
<1>4. /\ Items(K, g, start) = Items(K, from, start)
      /\ Items(K \cup {N}, g, start) = Items(K, from, start) \cup {item}
      /\ item \notin Items(K, from, start)
  BY <1>1, <1>2, <1>3, ItemsExtend
<1>5. \A j \in K \cup {N} : j \in 1 .. N /\ g[j] - start < NaN /\ g[j] \in Nat
  BY <1>1, <1>2, <1>3, ElementOfSeq
<1>6. Scored(Items(K \cup {N}, g, start)) /\ Scored(Items(K, from, start))
  <2>1. K \cup {N} \in SUBSET (1 .. Len(g)) /\ K \in SUBSET (1 .. Len(g))
    BY <1>2, <1>5
  <2>2. Scored(Items(K \cup {N}, g, start)) /\ Scored(Items(K, g, start))
    BY <1>5, <2>1, ItemsScored
  <2> QED BY <1>4, <2>2
<1>7. IsHeap(push(s, item), Items(K \cup {N}, g, start)) /\ Len(push(s, item)) = n + 1
  <2>1. PICK M : M = Items(K, from, start)
    OBVIOUS
  <2>2. item \notin M /\ Scored(M \cup {item}) /\ IsHeap(s, M)
    BY <1>3, <1>4, <1>6, <2>1
  <2>3. IsHeap(push(s, item), M \cup {item}) /\ Len(push(s, item)) = Len(s) + 1
    BY <2>2, HeapPush
  <2> QED BY <1>3, <1>4, <2>1, <2>3
<1>8. CASE n < Limit
  <2>1. K = 1 .. Len(from) /\ K \cup {N} = 1 .. N
    BY <1>1, <1>3, <1>8 DEF Keeps
  <2>2. Keeps(K \cup {N}, t, n + 1, g, start)
    BY <1>2, <1>7, <1>8, <2>1 DEF Keeps
  <2> QED BY <1>2, <1>8, <2>2
<1>9. CASE ~(n < Limit)
  <2>1. n = Limit /\ s # <<>>
    BY <1>3, <1>9, EmptySeq
  <2>2. s[1] \in Items(K, from, start) /\ \A m \in Items(K, from, start) : ~Less(m, s[1])
    BY <1>3, <1>6, <2>1, RootIsLeast
  <2>3. PICK k \in K : s[1] = Item(k, from[k] - start)
    BY <2>2 DEF Items
  <2>4. \A i \in K : from[i] \in Nat
    BY <1>3, ElementOfSeq
  <2>5. ASSUME NEW i \in K PROVE from[k] <= from[i]
    <3>1. Item(i, from[i] - start) \in Items(K, from, start)
      BY DEF Items
    <3>2. ~Less(Item(i, from[i] - start), Item(k, from[k] - start))
      BY <2>2, <2>3, <3>1
    <3>3. from[i] - start < NaN /\ from[k] - start < NaN /\ from[i] \in Nat /\ from[k] \in Nat
      BY <1>3, <2>4
    <3>4. PICK a \in Nat, b \in Nat : a = from[i] /\ b = from[k]
      BY <3>3
    <3>5. ~Less(Item(i, a - start), Item(k, b - start)) /\ a - start < NaN /\ b - start < NaN
      BY <3>2, <3>3, <3>4
    <3>6. a - start # NaN /\ b - start # NaN /\ start \in Int
      BY <3>5 DEF NaN
    <3>7. ~(a - start < b - start)
      BY <3>5, <3>6 DEF Less, Item
    <3>8. b <= a
      BY <3>7
    <3> QED BY <3>4, <3>8
  <2>6. Less(s[1], item) <=> from[k] < e
    <3>1. from[k] - start < NaN /\ from[k] \in Nat
      BY <1>3, <2>4
    <3> QED BY <2>3, <3>1 DEF Less, Item, NaN
  <2>7. CASE from[k] < e
    <3>1. t = pop(push(s, item))
      BY <1>9, <2>6, <2>7
    <3>2. PICK p : p = push(s, item) /\ p # <<>>
      BY <1>7, EmptySeq, LenProperties, <2>1, <1>3
    <3>3. /\ p[1] \in Items(K \cup {N}, g, start)
          /\ \A m \in Items(K \cup {N}, g, start) : ~Less(m, p[1])
      BY <1>6, <1>7, <3>2, RootIsLeast
    <3>4. PICK l \in K \cup {N} : p[1] = Item(l, g[l] - start)
      BY <3>3 DEF Items
    <3>5. ASSUME NEW i \in K \cup {N} PROVE g[l] <= g[i]
      <4>1. Item(i, g[i] - start) \in Items(K \cup {N}, g, start)
        BY DEF Items
      <4>2. ~Less(Item(i, g[i] - start), Item(l, g[l] - start))
        BY <3>3, <3>4, <4>1
      <4>3. g[i] - start < NaN /\ g[l] - start < NaN /\ g[i] \in Nat /\ g[l] \in Nat
        BY <1>5
      <4>4. PICK a \in Nat, b \in Nat : a = g[i] /\ b = g[l]
        BY <4>3
      <4>5. ~Less(Item(i, a - start), Item(l, b - start)) /\ a - start < NaN /\ b - start < NaN
        BY <4>2, <4>3, <4>4
      <4>6. a - start # NaN /\ b - start # NaN
        BY <4>5 DEF NaN
      <4>7. ~(a - start < b - start)
        BY <4>5, <4>6 DEF Less, Item
      <4>8. b <= a
        BY <4>7
      <4> QED BY <4>4, <4>8
    <3> DEFINE L == (K \cup {N}) \ {l}
    <3>6. Items(K \cup {N}, g, start) \ {p[1]} = Items(L, g, start)
      <4>1. \A i \in K \cup {N} : Item(i, g[i] - start) = p[1] <=> i = l
        BY <3>4 DEF Item
      <4> QED BY <3>4, <4>1 DEF Items
    <3>7. IsHeap(t, Items(L, g, start)) /\ Len(t) = n
      <4>1. IsHeap(t, Items(K \cup {N}, g, start) \ {p[1]}) /\ Len(t) = Len(p) - 1
        BY <1>6, <1>7, <3>1, <3>2, HeapPop
      <4>2. Len(p) = n + 1 /\ n \in Nat
        BY <1>3, <1>7, <3>2
      <4>3. Len(t) = n
        BY <4>1, <4>2
      <4> HIDE DEF L
      <4>4. IsHeap(t, Items(L, g, start))
        BY <3>6, <4>1
      <4> QED BY <4>3, <4>4
    <3>8. ASSUME NEW i \in L, NEW j \in (1 .. N) \ L PROVE g[j] <= g[i]
      <4>1. g[l] <= g[i] /\ g[l] \in Nat /\ g[i] \in Nat
        BY <1>5, <3>5
      <4>2. CASE j = l
        BY <4>1, <4>2
      <4>3. CASE j # l
        <5>1. j \in (1 .. Len(from)) \ K /\ g[j] = from[j] /\ from[j] \in Nat
          BY <1>1, <1>2, <1>3, <3>8, <4>3, ElementOfSeq
        <5>2. from[j] <= from[k] /\ from[k] \in Nat
          BY <2>4, <5>1 DEF Keeps
        <5>3. i = N => g[i] = e
          BY <1>2
        <5>4. i # N => i \in K /\ g[i] = from[i] /\ from[k] <= from[i]
          BY <1>2, <1>3, <2>5
        <5>5. CASE i = N
          <6>1. g[i] = e /\ g[j] = from[j] /\ from[j] <= from[k] /\ from[k] < e
            BY <2>7, <5>1, <5>2, <5>3, <5>5
          <6>2. e \in Nat /\ from[k] \in Nat /\ from[j] \in Nat
            BY <5>1, <5>2
          <6> QED BY <6>1, <6>2
        <5>6. CASE i # N
          BY <4>1, <5>1, <5>2, <5>4, <5>6
        <5> QED BY <5>5, <5>6
      <4> QED BY <4>2, <4>3
    <3>9. L \subseteq 1 .. Len(g)
      BY <1>2, <1>5
    <3> HIDE DEF L
    <3>10. Keeps(L, t, n, g, start)
      BY <1>2, <1>9, <3>7, <3>8, <3>9 DEF Keeps
    <3> QED BY <1>2, <1>9, <3>10
  <2>8. CASE ~(from[k] < e)
    <3>1. t = s
      BY <1>9, <2>6, <2>8
    <3>2. ASSUME NEW i \in K, NEW j \in (1 .. N) \ K PROVE g[j] <= g[i]
      <4>1. g[i] = from[i] /\ from[k] <= from[i] /\ from[i] \in Nat /\ from[k] \in Nat
        BY <1>2, <1>3, <2>4, <2>5
      <4>2. CASE j = N
        BY <1>2, <2>8, <4>1, <4>2
      <4>3. CASE j # N
        <5>1. j \in (1 .. Len(from)) \ K /\ g[j] = from[j]
          BY <1>1, <1>2, <1>3, <3>2, <4>3
        <5> QED BY <4>1, <5>1 DEF Keeps
      <4> QED BY <4>2, <4>3
    <3>3. Keeps(K, t, n, g, start)
      BY <1>1, <1>2, <1>3, <1>4, <1>9, <3>1, <3>2 DEF Keeps
    <3> QED BY <1>2, <1>9, <3>3
  <2> QED BY <2>7, <2>8
<1> QED BY <1>8, <1>9

(* Rescaling takes the same from every priority.                           *)
LEMMA ShiftKeeps ==
  ASSUME NEW from \in Seq(Nat), NEW start \in Nat, NEW later \in Nat, NEW n, NEW K, NEW s,
         Keeps(K, s, n, from, start),
         \A j \in K : from[j] - start < NaN /\ from[j] - later < NaN,
         NEW t, t = [i \in DOMAIN s |-> [s[i] EXCEPT !.priority = from[s[i].val] - later]]
  PROVE  Keeps(K, t, n, from, later)
<1> DEFINE M == Items(K, from, start)
           N == Items(K, from, later)
<1>1. /\ K \subseteq 1 .. Len(from) /\ n \in Nat /\ Len(s) = n /\ DOMAIN s = 1 .. n
      /\ s \in [1 .. n -> M] /\ Holds(s, n, M) /\ InOrder(Scores(s, n), n)
  BY LenProperties DEF Keeps, IsHeap
<1>2. \A j \in K : from[j] \in Nat
  BY <1>1, ElementOfSeq
<1>3. \A i \in 1 .. n : \E j \in K : s[i] = Item(j, from[j] - start)
  BY <1>1 DEF Items
<1> HIDE DEF M
<1>4. ASSUME NEW i \in 1 .. n
      PROVE  /\ s[i].val \in K
             /\ s[i] = Item(s[i].val, from[s[i].val] - start)
             /\ t[i] = Item(s[i].val, from[s[i].val] - later)
             /\ t[i].val = s[i].val
             /\ s[i].priority = from[s[i].val] - start
             /\ t[i].priority = from[s[i].val] - later
  <2>1. PICK j \in K : s[i] = Item(j, from[j] - start)
    BY <1>3
  <2>2. s[i].val = j
    BY <2>1 DEF Item
  <2>3. [Item(j, from[j] - start) EXCEPT !.priority = from[j] - later] = Item(j, from[j] - later)
    BY DEF Item
  <2>4. t[i] = [s[i] EXCEPT !.priority = from[s[i].val] - later]
    BY <1>1
  <2>5. /\ t[i] = Item(j, from[j] - later) /\ t[i].val = j
        /\ s[i].priority = from[j] - start /\ t[i].priority = from[j] - later
    BY <2>1, <2>2, <2>3, <2>4 DEF Item
  <2> QED BY <2>1, <2>2, <2>5
<1>5. t \in [1 .. n -> N]
  <2>1. DOMAIN t = 1 .. n /\ t = [i \in 1 .. n |-> t[i]]
    BY <1>1
  <2>2. \A i \in 1 .. n : t[i] \in N
    BY <1>4 DEF Items
  <2> HIDE DEF N
  <2> QED BY <2>1, <2>2
<1>6. \A i \in 1 .. n : t[i].val = s[i].val
  BY <1>4
<1>7. ASSUME NEW i \in 1 .. n, NEW k \in 1 .. n, t[i] = t[k] PROVE i = k
  <2>1. s[i].val = s[k].val
    BY <1>6, <1>7
  <2>2. s[i] = s[k]
    BY <1>4, <2>1
  <2> QED BY <1>1, <2>2 DEF Holds
<1>8. ASSUME NEW m \in N PROVE \E i \in 1 .. n : t[i] = m
  <2>1. PICK j \in K : m = Item(j, from[j] - later)
    BY DEF Items
  <2>2. PICK i \in 1 .. n : s[i] = Item(j, from[j] - start)
    BY <1>1 DEF Holds, M, Items
  <2>3. s[i].val = j
    BY <2>2 DEF Item
  <2> QED BY <1>4, <2>1, <2>3
<1> HIDE DEF N
<1>9. Holds(t, n, N)
  BY <1>5, <1>7, <1>8 DEF Holds
<1>10. ASSUME NEW i \in 1 .. n, i > 1 PROVE Scores(t, n)[i \div 2] <= Scores(t, n)[i]
  <2>1. PICK k \in 1 .. n : k = i \div 2
    BY <1>1, <1>10, Halved
  <2>2. PICK a \in K, b \in K : a = s[i].val /\ b = s[k].val
    BY <1>4
  <2>3. s[k].priority <= s[i].priority
    BY <1>1, <1>10, <2>1 DEF InOrder, Scores
  <2>4. /\ s[k].priority = from[b] - start /\ s[i].priority = from[a] - start
        /\ t[k].priority = from[b] - later /\ t[i].priority = from[a] - later
    BY <1>4, <2>2
  <2>5. t[k].priority <= t[i].priority
    <3>1. from[a] \in Nat /\ from[b] \in Nat
      BY <1>2
    <3>2. from[b] - start <= from[a] - start
      BY <2>3, <2>4
    <3>3. from[b] - later <= from[a] - later
      BY <3>1, <3>2
    <3> QED BY <2>4, <3>3
  <2> QED BY <2>1, <2>5 DEF Scores
<1>11. t \in Seq(N) /\ Len(t) = n
  BY <1>1, <1>5, ArrayIsSeq
<1>12. IsHeap(t, N)
  BY <1>9, <1>10, <1>11 DEF IsHeap, InOrder
<1> QED BY <1>11, <1>12 DEF Keeps, N

LEMMA SamplePass == SampleInv /\ Sample!Pass => SampleInv'
<1> SUFFICES ASSUME SampleInv, Sample!Pass PROVE SampleInv'
  OBVIOUS
<1>1. /\ now < MaxTime /\ now - last < MaxIdle /\ now' = now + 1
      /\ UNCHANGED <<startTime, nextScaleTime, size, values, offered, last>>
  BY DEF Sample!Pass
<1>2. Clocked'
  BY <1>1, SampleConstants DEF SampleInv, Clocked
<1> QED BY <1>1, <1>2 DEF SampleInv

LEMMA SampleClear == SampleInv /\ Sample!clear => SampleInv'
<1> SUFFICES ASSUME SampleInv, Sample!clear PROVE SampleInv'
  OBVIOUS
<1>1. /\ values' = <<>> /\ size' = 0 /\ startTime' = now /\ nextScaleTime' = now + Threshold
      /\ offered' = <<>> /\ last' = now /\ now' = now
  BY DEF Sample!clear
<1>2. Clocked'
  BY <1>1, SampleConstants DEF SampleInv, Clocked
<1>3. Keeps({}, <<>>, 0, <<>>, now)
  <2>1. Items({}, <<>>, now) = {}
    BY DEF Items
  <2>2. IsHeap(<<>>, {})
    BY EmptySeq DEF IsHeap, Holds, InOrder
  <2>3. Len(<<>>) = 0 /\ {} = 1 .. 0
    BY EmptySeq
  <2> QED BY <2>1, <2>2, <2>3 DEF Keeps
<1>4. now \in Nat
  BY SampleConstants DEF SampleInv, Clocked
<1>5. size' \in 0 .. Limit /\ offered' \in Seq((0 .. last + MaxRandom)')
  BY <1>1, SampleConstants, EmptySeq
<1> QED BY <1>1, <1>2, <1>3, <1>5 DEF SampleInv

LEMMA SampleUpdate ==
  ASSUME InRange, SampleInv, NEW r \in 0 .. MaxRandom, Sample!update(r)
  PROVE  SampleInv'
<1> DEFINE e == now + r
           item == Item(Len(offered) + 1, e - startTime)
           s == Sample!Taken([val |-> Len(offered) + 1,
                              priority |-> Sample!Times(Sample!Number(now - startTime), r)])
           g == Append(offered, e)
           n == IF size < Limit THEN size + 1 ELSE size
<1>1. /\ Sample!rescale(s) /\ size' = n /\ offered' = g /\ last' = now /\ now' = now
  BY DEF Sample!update
<1>2. /\ {MinExp, MaxExp, MaxRandom, MaxTime, MaxIdle, MaxUpdates} \subseteq Nat
      /\ Limit \in Nat \ {0} /\ Threshold \in Nat \ {0}
      /\ now \in Nat /\ startTime \in Nat /\ last \in Nat
      /\ startTime <= last /\ last <= now /\ now <= MaxTime
      /\ nextScaleTime = startTime + Threshold /\ last <= nextScaleTime /\ now - last <= MaxIdle
  BY SampleConstants DEF SampleInv, Clocked
<1>3. /\ Threshold + MaxIdle + MaxRandom <= MaxExp /\ MaxTime <= MinExp
      /\ MaxExp < NaN - 1 /\ MinExp < NaN /\ NaN = 1000000
  BY SampleOperators DEF InRange, Sample!Infinity, NaN
<1>4. /\ now - startTime \in 0 .. MaxExp /\ r \in 0 .. MaxExp /\ now - startTime + r \in 0 .. MaxExp
      /\ startTime - now \in (-MinExp) .. 0 /\ now \in 0 .. MinExp /\ startTime \in 0 .. MinExp
      /\ e \in Nat /\ e <= now + MaxRandom /\ e - startTime = now - startTime + r
  BY <1>2, <1>3
<1>5. item = [val |-> Len(offered) + 1,
              priority |-> Sample!Times(Sample!Number(now - startTime), r)]
  <2>1. Sample!Number(now - startTime) = now - startTime
    BY <1>2, <1>3, <1>4 DEF Sample!Number
  <2>2. Sample!Times(now - startTime, r) = e - startTime
    <3>1. PICK p \in (-MinExp) .. MaxExp : p = now - startTime
      BY <1>2, <1>4
    <3>2. r \in (-MinExp) .. MaxExp /\ p + r \in (-MinExp) .. MaxExp
      BY <1>2, <1>4, <3>1
    <3>3. Sample!Times(p, r) = p + r
      BY <3>2, TimesInRange
    <3> QED BY <1>4, <3>1, <3>3
  <2> QED BY <2>1, <2>2 DEF Item
<1>6. s = IF size < Limit THEN push(values, item)
          ELSE IF Less(values[1], item) THEN pop(push(values, item)) ELSE values
  BY <1>5, SampleOperators DEF Sample!Taken
<1> HIDE DEF s, item, e, g, n
<1>7. offered \in Seq(0 .. last + MaxRandom) /\ offered \in Seq(Nat) /\ Len(offered) \in Nat
  <2>1. offered \in Seq(0 .. last + MaxRandom)
    BY DEF SampleInv
  <2>2. 0 .. last + MaxRandom \subseteq Nat
    OBVIOUS
  <2> QED BY <2>1, <2>2, SeqMonotonic, LenProperties
<1>8. g \in Seq(0 .. now + MaxRandom) /\ g \in Seq(Nat)
  <2>1. 0 .. last + MaxRandom \subseteq 0 .. now + MaxRandom /\ e \in 0 .. now + MaxRandom
    BY <1>2, <1>4
  <2>2. offered \in Seq(0 .. now + MaxRandom)
    BY <1>7, <2>1, SeqMonotonic
  <2> QED BY <1>4, <1>7, <2>1, <2>2, AppendProperties DEF g
<1>9. \A j \in 1 .. Len(offered) : offered[j] - startTime < NaN
  <2> SUFFICES ASSUME NEW j \in 1 .. Len(offered) PROVE offered[j] - startTime < NaN
    OBVIOUS
  <2>1. offered[j] \in 0 .. last + MaxRandom
    BY <1>7, ElementOfSeq
  <2> QED BY <2>1, <1>2, <1>3
<1>10. PICK K : Keeps(K, values, size, offered, startTime)
  BY DEF SampleInv
<1>11. size \in 0 .. Limit /\ n \in 0 .. Limit
  BY <1>2 DEF SampleInv, n
<1>12. \E L : Keeps(L, s, n, g, startTime)
  <2>1. e - startTime < NaN
    BY <1>2, <1>3, <1>4
  <2> QED BY <1>2, <1>4, <1>6, <1>7, <1>9, <1>10, <1>11, <2>1, TakenKeeps DEF item, g, n
<1>13. PICK L : Keeps(L, s, n, g, startTime)
  BY <1>12
<1>14. \A j \in 1 .. Len(g) : g[j] \in 0 .. now + MaxRandom
  BY <1>8, ElementOfSeq
<1>15. CASE now > nextScaleTime
  <2>1. values' = Sample!Rescaled(s) /\ startTime' = now /\ nextScaleTime' = now + Threshold
    BY <1>1, <1>15 DEF Sample!rescale
  <2>2. Clocked'
    BY <1>1, <1>2, <2>1 DEF Clocked
  <2>3. \A j \in L : g[j] - startTime < NaN /\ g[j] - now < NaN /\ j \in 1 .. Len(g)
    <3> SUFFICES ASSUME NEW j \in L
                 PROVE  g[j] - startTime < NaN /\ g[j] - now < NaN /\ j \in 1 .. Len(g)
      OBVIOUS
    <3>1. j \in 1 .. Len(g) /\ g[j] \in 0 .. now + MaxRandom
      BY <1>13, <1>14 DEF Keeps
    <3> QED BY <3>1, <1>2, <1>3
  <2>4. Sample!Rescaled(s) = [i \in DOMAIN s |-> [s[i] EXCEPT !.priority = g[s[i].val] - now]]
    <3>1. ASSUME NEW i \in DOMAIN s
          PROVE  Sample!Times(s[i].priority, startTime - now) = g[s[i].val] - now
      <4>1. s[i] \in Items(L, g, startTime)
        BY <1>13, LenProperties, ElementOfSeq DEF Keeps, IsHeap
      <4>2. PICK j \in L : s[i] = Item(j, g[j] - startTime)
        BY <4>1 DEF Items
      <4>3. s[i].val = j /\ s[i].priority = g[j] - startTime
        BY <4>2 DEF Item
      <4>4. g[j] \in 0 .. now + MaxRandom
        BY <1>14, <2>3
      <4>5. PICK p \in (-MinExp) .. MaxExp, d \in (-MinExp) .. MaxExp :
              p = g[j] - startTime /\ d = startTime - now
        BY <4>4, <1>2, <1>3, <1>4
      <4>6. p + d = g[j] - now /\ p + d \in (-MinExp) .. MaxExp
        BY <4>4, <4>5, <1>2, <1>3, <1>4
      <4>7. Sample!Times(p, d) = p + d
        BY <4>6, TimesInRange
      <4> QED BY <4>3, <4>5, <4>6, <4>7
    <3> QED BY <3>1 DEF Sample!Rescaled
  <2>5. Keeps(L, values', n, g, now)
    BY <1>2, <1>8, <1>13, <2>1, <2>3, <2>4, ShiftKeeps
  <2> QED BY <1>1, <1>8, <1>11, <2>1, <2>2, <2>5 DEF SampleInv
<1>16. CASE ~(now > nextScaleTime)
  <2>1. values' = s /\ startTime' = startTime /\ nextScaleTime' = nextScaleTime
    BY <1>1, <1>16 DEF Sample!rescale
  <2>2. Clocked'
    BY <1>1, <1>2, <1>16, <2>1 DEF Clocked
  <2> QED BY <1>1, <1>8, <1>11, <1>13, <2>1, <2>2 DEF SampleInv
<1> QED BY <1>15, <1>16

LEMMA SampleStep == InRange /\ SampleInv /\ [Sample!Next]_sample => SampleInv'
<1> SUFFICES ASSUME InRange, SampleInv, [Sample!Next]_sample PROVE SampleInv'
  OBVIOUS
<1>1. CASE UNCHANGED sample
  BY <1>1 DEF sample, SampleInv, Clocked
<1> QED BY <1>1, SampleClear, SamplePass, SampleUpdate DEF Sample!Next

LEMMA SampleIsSound == InRange /\ SampleInv => Sample!KeepsGreatest /\ Sample!StaysHeap
<1> SUFFICES ASSUME InRange, SampleInv PROVE Sample!KeepsGreatest /\ Sample!StaysHeap
  OBVIOUS
<1>1. PICK K : Keeps(K, values, size, offered, startTime)
  BY DEF SampleInv
<1> DEFINE M == Items(K, offered, startTime)
           n == Len(values)
           kept == {values[i].val : i \in DOMAIN values}
<1>2. /\ n \in Nat /\ DOMAIN values = 1 .. n /\ values \in [1 .. n -> M] /\ Holds(values, n, M)
      /\ IsHeap(values, M) /\ K \subseteq 1 .. Len(offered) /\ n = size
  BY <1>1, LenProperties DEF Keeps, IsHeap
<1>3. offered \in Seq(0 .. last + MaxRandom) /\ DOMAIN offered = 1 .. Len(offered)
  BY LenProperties DEF SampleInv
<1>4. Scored(M)
  <2>1. offered \in Seq(Nat)
    <3>1. 0 .. last + MaxRandom \subseteq Nat
      OBVIOUS
    <3> QED BY <1>3, <3>1, SeqMonotonic
  <2>2. \A j \in K : offered[j] - startTime < NaN
    <3> SUFFICES ASSUME NEW j \in K PROVE offered[j] - startTime < NaN
      OBVIOUS
    <3>1. offered[j] \in 0 .. last + MaxRandom
      BY <1>2, <1>3, ElementOfSeq
    <3>2. /\ startTime \in Nat /\ last \in Nat /\ last <= startTime + Threshold
          /\ Threshold + MaxIdle + MaxRandom <= MaxExp /\ MaxExp < NaN - 1 /\ NaN = 1000000
          /\ {Threshold, MaxIdle, MaxRandom, MaxExp, MaxTime} \subseteq Nat
      BY SampleConstants, SampleOperators DEF InRange, Sample!Infinity, NaN, SampleInv, Clocked
    <3> QED BY <3>1, <3>2
  <2>3. startTime \in Nat
    BY SampleConstants DEF SampleInv, Clocked
  <2> QED BY <1>2, <2>1, <2>2, <2>3, ItemsScored
<1>5. kept = K
  <2>1. \A j \in K : Item(j, offered[j] - startTime).val = j
    BY DEF Item
  <2>2. ASSUME NEW i \in 1 .. n PROVE values[i].val \in K
    <3>1. PICK j \in K : values[i] = Item(j, offered[j] - startTime)
      BY <1>2 DEF Items
    <3> QED BY <2>1, <3>1
  <2>3. ASSUME NEW j \in K PROVE \E i \in 1 .. n : values[i].val = j
    <3>1. Item(j, offered[j] - startTime) \in M
      BY DEF Items
    <3>2. PICK i \in 1 .. n : values[i] = Item(j, offered[j] - startTime)
      BY <1>2, <3>1 DEF Holds
    <3> QED BY <2>1, <3>2
  <2> QED BY <1>2, <2>2, <2>3
<1>6. ASSUME NEW i \in K, NEW j \in (1 .. Len(offered)) \ K PROVE offered[i] >= offered[j]
  <2>1. offered[j] <= offered[i]
    BY <1>1 DEF Keeps
  <2>2. offered[i] \in 0 .. last + MaxRandom /\ offered[j] \in 0 .. last + MaxRandom
    BY <1>2, <1>3, ElementOfSeq
  <2> QED BY <2>1, <2>2
<1>7. Ordered(values)
  BY <1>2, <1>4, HeapIsOrdered
<1> HIDE DEF kept, n, M
<1>8. Sample!KeepsGreatest
  BY <1>2, <1>3, <1>5, <1>6 DEF Sample!KeepsGreatest, kept, n
<1> QED BY <1>7, <1>8, SampleOperators DEF Sample!StaysHeap
-----------------------------------------------------------------------------
(* A timer.  Sums over a sequence grow with it.                            *)
Summed(s, n, f) == f \in [0 .. n -> Nat] /\ f[0] = 0 /\ \A k \in 1 .. n : f[k] = f[k - 1] + s[k]

LEMMA SumExists ==
  ASSUME NEW s \in Seq(Nat)
  PROVE  \E f : Summed(s, Len(s), f)
<1>1. PICK N \in Nat : N = Len(s)
  BY LenProperties
<1> DEFINE G == {n \in 0 .. N : \E f : Summed(s, n, f)}
<1>2. 0 \in G
  <2>1. Summed(s, 0, [k \in 0 .. 0 |-> 0])
    BY DEF Summed
  <2> QED BY <2>1
<1>3. ASSUME NEW n \in 0 .. N, n < N, n \in G PROVE n + 1 \in G
  <2>1. PICK f : Summed(s, n, f)
    BY <1>3
  <2>2. n + 1 \in 1 .. N /\ s[n + 1] \in Nat
    BY <1>1, <1>3, ElementOfSeq
  <2> DEFINE g == [k \in 0 .. n + 1 |-> IF k = n + 1 THEN f[n] + s[n + 1] ELSE f[k]]
  <2>3. f \in [0 .. n -> Nat] /\ f[0] = 0 /\ \A k \in 1 .. n : f[k] = f[k - 1] + s[k]
    BY <2>1 DEF Summed
  <2>4. g \in [0 .. n + 1 -> Nat] /\ g[0] = 0
    BY <2>2, <2>3
  <2>5. ASSUME NEW k \in 1 .. n + 1 PROVE g[k] = g[k - 1] + s[k]
    <3>1. CASE k = n + 1
      BY <3>1
    <3>2. CASE k # n + 1
      <4>1. k \in 1 .. n /\ k - 1 # n + 1 /\ k - 1 \in 0 .. n + 1 /\ k \in 0 .. n + 1
        BY <3>2
      <4> QED BY <4>1, <3>2, <2>3
    <3> QED BY <3>1, <3>2
  <2> HIDE DEF g
  <2>6. Summed(s, n + 1, g)
    BY <2>4, <2>5 DEF Summed
  <2> QED BY <2>2, <2>6
<1> HIDE DEF G
<1>4. N \in G
  <2>1. \A n \in 0 .. N : n < N /\ n \in G => n + 1 \in G
    BY <1>3
  <2>2. \A n \in 0 .. N : n \in G
    BY <1>2, <2>1, Climbs
  <2> QED BY <2>2
<1> QED BY <1>1, <1>4 DEF G

LEMMA SumIs ==
  ASSUME NEW s \in Seq(Nat), NEW f, Summed(s, Len(s), f)
  PROVE  Timer!Sum(s) = f[Len(s)]
<1>1. PICK n \in Nat : n = Len(s)
  BY LenProperties
<1>2. f \in [0 .. n -> Nat] /\ f[0] = 0 /\ \A k \in 1 .. n : f[k] = f[k - 1] + s[k]
  BY <1>1 DEF Summed
<1> DEFINE upTo == CHOOSE upTo :
             upTo = [k \in 0 .. n |-> IF k = 0 THEN 0 ELSE upTo[k - 1] + s[k]]
<1>3. Timer!Sum(s) = upTo[n]
  BY <1>1 DEF Timer!Sum
<1>4. upTo = [k \in 0 .. n |-> IF k = 0 THEN 0 ELSE upTo[k - 1] + s[k]]
  <2>1. f = [k \in 0 .. n |-> IF k = 0 THEN 0 ELSE f[k - 1] + s[k]]
    BY <1>2
  <2> QED BY <2>1
<1> HIDE DEF upTo
<1> DEFINE G == {k \in 0 .. n : upTo[k] = f[k]}
<1>5. 0 \in G
  BY <1>2, <1>4
<1>6. ASSUME NEW k \in 0 .. n, k < n, k \in G PROVE k + 1 \in G
  <2>1. k + 1 \in 1 .. n /\ k + 1 - 1 = k /\ k + 1 # 0
    BY <1>6
  <2>2. upTo[k + 1] = upTo[k] + s[k + 1]
    BY <2>1, <1>4
  <2>3. f[k + 1] = f[k] + s[k + 1]
    BY <2>1, <1>2
  <2> QED BY <1>6, <2>1, <2>2, <2>3
<1> HIDE DEF G
<1>7. n \in G
  <2>1. \A k \in 0 .. n : k < n /\ k \in G => k + 1 \in G
    BY <1>6
  <2> QED BY <1>5, <2>1, Climbs
<1> QED BY <1>1, <1>3, <1>7 DEF G

LEMMA SumGrows ==
  ASSUME NEW s \in Seq(Nat), NEW x \in Nat
  PROVE  /\ Timer!Sum(s) \in Nat /\ Timer!Sum(<<>>) = 0
         /\ Timer!Sum(Append(s, x)) = Timer!Sum(s) + x
<1>1. PICK n \in Nat : n = Len(s)
  BY LenProperties
<1>2. PICK f : Summed(s, Len(s), f)
  BY SumExists
<1>3. f \in [0 .. n -> Nat] /\ f[0] = 0 /\ \A k \in 1 .. n : f[k] = f[k - 1] + s[k]
  BY <1>1, <1>2 DEF Summed
<1>4. Timer!Sum(s) = f[n] /\ f[n] \in Nat
  BY <1>1, <1>2, <1>3, SumIs
<1> DEFINE t == Append(s, x)
           g == [k \in 0 .. n + 1 |-> IF k = n + 1 THEN f[n] + x ELSE f[k]]
<1>5. /\ t \in Seq(Nat) /\ Len(t) = n + 1 /\ t[n + 1] = x /\ n + 1 \in 0 .. n + 1
      /\ \A k \in 1 .. n : t[k] = s[k]
  BY <1>1, AppendProperties
<1>6. g \in [0 .. n + 1 -> Nat] /\ g[0] = 0 /\ g[n + 1] = f[n] + x
  BY <1>3, <1>4
<1>7. ASSUME NEW k \in 1 .. n + 1 PROVE g[k] = g[k - 1] + t[k]
  <2>1. CASE k = n + 1
    BY <2>1, <1>5
  <2>2. CASE k # n + 1
    <3>1. k \in 1 .. n /\ k - 1 # n + 1 /\ k - 1 \in 0 .. n + 1 /\ k \in 0 .. n + 1
      BY <2>2
    <3> QED BY <3>1, <2>2, <1>3, <1>5
  <2> QED BY <2>1, <2>2
<1> HIDE DEF t, g
<1>8. Timer!Sum(t) = g[n + 1]
  <2>1. Summed(t, Len(t), g)
    BY <1>5, <1>6, <1>7 DEF Summed
  <2> QED BY <1>5, <2>1, SumIs
<1>9. Timer!Sum(<<>>) = 0
  <2> DEFINE h == [k \in 0 .. 0 |-> 0]
  <2>1. Summed(<<>>, Len(<<>>), h) /\ h[Len(<<>>)] = 0 /\ <<>> \in Seq(Nat)
    BY DEF Summed
  <2> QED BY <2>1, SumIs
<1> QED BY <1>4, <1>6, <1>8, <1>9 DEF t

(* Welford's mean and sum of squares, in whole numbers.                    *)
LEMMA Divided ==
  ASSUME NEW K \in Nat, NEW n \in Nat \ {0}, K % n = 0
  PROVE  \E L \in Nat : K = L * n
<1>1. (K = n * (K \div n) + (K % n)) /\ K \div n \in Nat
  OBVIOUS
<1> QED BY <1>1

(* The mean m of n values moves by a step when x comes. *)
Stepped(n, K, total, x, m, a, step) ==
  /\ n \in Nat \ {0} /\ K \in Nat /\ K % (n + 1) = 0 /\ {total, x, m} \subseteq Nat
  /\ m * n = K * total /\ a \in Int /\ a = K * x - m /\ step \in Int /\ step = a \div (n + 1)

LEMMA MeanMoves ==
  ASSUME NEW n, NEW K, NEW total, NEW x, NEW m, NEW a, NEW step,
         Stepped(n, K, total, x, m, a, step)
  PROVE  /\ m + step \in Nat /\ (m + step) * (n + 1) = K * (total + x)
         /\ n * a = K * (n * x - total) /\ (n + 1) * (a - step) = K * (n * x - total)
<1> /\ n \in Nat \ {0} /\ K \in Nat /\ K % (n + 1) = 0 /\ total \in Nat /\ x \in Nat /\ m \in Nat
    /\ m * n = K * total /\ a \in Int /\ a = K * x - m /\ step \in Int /\ step = a \div (n + 1)
  BY DEF Stepped
<1> PICK L \in Nat : K = L * (n + 1)
  <2>1. PICK d \in Nat \ {0} : d = n + 1
    OBVIOUS
  <2>2. \E L \in Nat : K = L * d
    BY <2>1, Divided
  <2> QED BY <2>1, <2>2
<1>1. n * a = K * (n * x - total)
  OBVIOUS
<1> DEFINE q == a - L * (n * x - total)
<1>2. a = (n + 1) * q
  <2>1. (n + 1) * q = (n + 1) * a - (n + 1) * L * (n * x - total)
    OBVIOUS
  <2>2. (n + 1) * L * (n * x - total) = n * a
    BY <1>1
  <2> QED BY <2>1, <2>2
<1>3. q \in Int
  OBVIOUS
<1> HIDE DEF q
<1>4. step = q
  BY <1>2, <1>3
<1>5. (n + 1) * (m + step) = K * (total + x)
  BY <1>2, <1>4
<1>6. m + step \in Nat
  <2>1. K * (total + x) >= 0
    OBVIOUS
  <2> QED BY <2>1, <1>5
<1>7. (n + 1) * (a - step) = K * (n * x - total)
  <2>1. (n + 1) * (a - q) = (n + 1) * a - (n + 1) * q
    BY <1>3
  <2>2. (n + 1) * a - a = n * a
    OBVIOUS
  <2> QED BY <1>1, <1>2, <1>4, <2>1, <2>2
<1> QED BY <1>1, <1>5, <1>6, <1>7

(* The sum of squares about the mean, s, before and after. *)
Spread(n, K, total, squares, x, s, a, b) ==
  /\ {n, K} \subseteq Nat \ {0} /\ {total, squares, x, s} \subseteq Nat /\ {a, b} \subseteq Int
  /\ s * n = K * K * (n * squares - total * total)
  /\ n * a = K * (n * x - total) /\ (n + 1) * b = K * (n * x - total)

LEMMA SquaresMove ==
  ASSUME NEW n, NEW K, NEW total, NEW squares, NEW x, NEW s, NEW a, NEW b,
         Spread(n, K, total, squares, x, s, a, b)
  PROVE  /\ s + a * b \in Nat
         /\ (s + a * b) * (n + 1)
              = K * K * ((n + 1) * (squares + x * x) - (total + x) * (total + x))
<1> /\ n \in Nat \ {0} /\ K \in Nat \ {0} /\ total \in Nat /\ squares \in Nat /\ x \in Nat
    /\ s \in Nat /\ a \in Int /\ b \in Int
    /\ s * n = K * K * (n * squares - total * total)
    /\ n * a = K * (n * x - total) /\ (n + 1) * b = K * (n * x - total)
  BY DEF Spread
<1> DEFINE u == K * (n * x - total)
<1>1. (n * a) * ((n + 1) * b) = u * u /\ u \in Int
  OBVIOUS
<1>2. (n * (n + 1)) * (a * b) = u * u
  BY <1>1
<1>3. u * u >= 0
  BY <1>1
<1>4. a * b >= 0
  BY <1>2, <1>3
<1>5. n * ((s + a * b) * (n + 1))
        = n * (K * K * ((n + 1) * (squares + x * x) - (total + x) * (total + x)))
  <2>1. n * ((s + a * b) * (n + 1)) = (s * n) * (n + 1) + (n * (n + 1)) * (a * b)
    OBVIOUS
  <2>2. n * ((s + a * b) * (n + 1)) = K * K * (n * squares - total * total) * (n + 1) + u * u
    BY <1>2, <2>1
  <2> QED BY <2>2
<1>6. (s + a * b) * (n + 1)
        = K * K * ((n + 1) * (squares + x * x) - (total + x) * (total + x))
  <2>1. PICK y \in Int, z \in Int :
          /\ y = (s + a * b) * (n + 1)
          /\ z = K * K * ((n + 1) * (squares + x * x) - (total + x) * (total + x))
    OBVIOUS
  <2>2. n * y = n * z
    BY <1>5, <2>1
  <2>3. y = z
    BY <2>2
  <2> QED BY <2>1, <2>3
<1> QED BY <1>4, <1>6
-----------------------------------------------------------------------------
(* How often a value occurs, and which values there are.                   *)
LEMMA TimerCardinality == \A S : Timer!Cardinality(S) = Cardinality(S)
BY DEF Timer!Cardinality, Cardinality

LEMMA OccursIn ==
  ASSUME NEW S, NEW s \in Seq(S), NEW v
  PROVE  /\ IsFiniteSet({i \in DOMAIN s : s[i] = v})
         /\ Timer!Occurrences(s, v) = Cardinality({i \in DOMAIN s : s[i] = v})
         /\ Timer!Occurrences(s, v) \in Nat
<1> DEFINE I == {i \in DOMAIN s : s[i] = v}
<1>1. PICK n \in Nat : n = Len(s) /\ DOMAIN s = 1 .. n
  BY LenProperties
<1>2. I \in SUBSET (1 .. n)
  BY <1>1
<1>3. Timer!Occurrences(s, v) = Cardinality(I)
  BY TimerCardinality DEF Timer!Occurrences
<1> HIDE DEF I
<1>4. IsFiniteSet(1 .. n)
  BY FS_Interval
<1>5. IsFiniteSet(I)
  BY <1>2, <1>4, FS_Subset
<1>6. Cardinality(I) \in Nat
  BY <1>5, FS_CardinalityType
<1> QED BY <1>3, <1>5, <1>6 DEF I

LEMMA OccursMore ==
  ASSUME NEW S, NEW s \in Seq(S), NEW x \in S, NEW v
  PROVE  Timer!Occurrences(Append(s, x), v)
           = Timer!Occurrences(s, v) + (IF x = v THEN 1 ELSE 0)
<1> DEFINE t == Append(s, x)
           I == {i \in DOMAIN s : s[i] = v}
           J == {i \in DOMAIN t : t[i] = v}
<1>1. PICK n \in Nat : n = Len(s) /\ DOMAIN s = 1 .. n
  BY LenProperties
<1>2. /\ t \in Seq(S) /\ DOMAIN t = 1 .. n + 1 /\ t[n + 1] = x /\ n + 1 \in 1 .. n + 1
      /\ \A k \in 1 .. n : t[k] = s[k] /\ k \in 1 .. n + 1
  BY <1>1, AppendProperties, LenProperties
<1>3. n + 1 \notin I /\ J = (IF x = v THEN I \cup {n + 1} ELSE I)
  <2>1. n + 1 \notin I
    BY <1>1
  <2>2. \A k \in 1 .. n + 1 : k \in 1 .. n \/ k = n + 1
    OBVIOUS
  <2> HIDE DEF t
  <2>3. CASE x = v
    BY <2>1, <2>2, <2>3, <1>1, <1>2
  <2>4. CASE x # v
    BY <2>1, <2>2, <2>4, <1>1, <1>2
  <2> QED BY <2>1, <2>3, <2>4
<1>4. /\ IsFiniteSet(I) /\ Timer!Occurrences(s, v) = Cardinality(I)
      /\ Timer!Occurrences(s, v) \in Nat
  BY OccursIn
<1>5. Timer!Occurrences(t, v) = Cardinality(J)
  <2> HIDE DEF t
  <2> QED BY <1>2, OccursIn
<1> HIDE DEF I, J, t
<1>6. Cardinality(J) = Cardinality(I) + (IF x = v THEN 1 ELSE 0)
  <2>1. /\ IsFiniteSet(I \cup {n + 1})
        /\ Cardinality(I \cup {n + 1}) = Cardinality(I) + 1
    BY <1>3, <1>4, FS_AddElement
  <2>2. CASE x = v
    BY <2>1, <2>2, <1>3
  <2>3. CASE x # v
    BY <2>3, <1>3, <1>4
  <2> QED BY <2>2, <2>3
<1> QED BY <1>4, <1>5, <1>6 DEF t

LEMMA OccursSwapped ==
  ASSUME NEW S, NEW s \in Seq(S), NEW x \in S, NEW k \in 1 .. Len(s), NEW v
  PROVE  /\ [s EXCEPT ![k] = x] \in Seq(S) /\ Len([s EXCEPT ![k] = x]) = Len(s)
         /\ Timer!Occurrences([s EXCEPT ![k] = x], v)
              <= Timer!Occurrences(s, v) + (IF x = v THEN 1 ELSE 0)
<1> DEFINE t == [s EXCEPT ![k] = x]
           I == {i \in DOMAIN s : s[i] = v}
           J == {i \in DOMAIN t : t[i] = v}
<1>1. PICK n \in Nat : n = Len(s) /\ DOMAIN s = 1 .. n
  BY LenProperties
<1>2. /\ t \in Seq(S) /\ Len(t) = n
      /\ DOMAIN t = 1 .. n /\ t[k] = x /\ \A i \in 1 .. n : i # k => t[i] = s[i]
  BY <1>1, ExceptSeq, LenProperties
<1> HIDE DEF t
<1>3. /\ IsFiniteSet(I) /\ Timer!Occurrences(s, v) = Cardinality(I)
      /\ Timer!Occurrences(s, v) \in Nat
  BY OccursIn
<1>4. IsFiniteSet(J) /\ Timer!Occurrences(t, v) = Cardinality(J)
  BY <1>2, OccursIn
<1>5. J \in SUBSET (IF x = v THEN I \cup {k} ELSE I)
  BY <1>1, <1>2
<1> HIDE DEF I, J
<1>6. Cardinality(J) <= Cardinality(I) + (IF x = v THEN 1 ELSE 0)
  <2>1. CASE x = v
    <3>1. /\ IsFiniteSet(I \cup {k})
          /\ Cardinality(I \cup {k}) = Cardinality(I) \/ Cardinality(I \cup {k}) = Cardinality(I) + 1
      BY <1>3, FS_AddElement
    <3>2. Cardinality(J) <= Cardinality(I \cup {k})
      BY <2>1, <1>5, <3>1, FS_Subset
    <3>3. Cardinality(I) \in Nat /\ Cardinality(J) \in Nat
      BY <1>3, <1>4, FS_CardinalityType
    <3> QED BY <2>1, <3>1, <3>2, <3>3
  <2>2. CASE x # v
    <3>1. Cardinality(J) <= Cardinality(I)
      BY <2>2, <1>3, <1>5, FS_Subset
    <3>2. Cardinality(I) \in Nat /\ Cardinality(J) \in Nat
      BY <1>3, <1>4, FS_CardinalityType
    <3> QED BY <2>2, <3>1, <3>2
  <2> QED BY <2>1, <2>2
<1> QED BY <1>1, <1>2, <1>3, <1>4, <1>6 DEF t

LEMMA OccursElements ==
  ASSUME NEW S, NEW s \in Seq(S)
  PROVE  /\ Timer!ToSet(s) \subseteq S
         /\ \A x \in S : Timer!ToSet(Append(s, x)) = Timer!ToSet(s) \cup {x}
<1>1. PICK n \in Nat : n = Len(s) /\ DOMAIN s = 1 .. n
  BY LenProperties
<1>2. Timer!ToSet(s) \subseteq S
  BY <1>1, ElementOfSeq DEF Timer!ToSet
<1>3. ASSUME NEW x \in S PROVE Timer!ToSet(Append(s, x)) = Timer!ToSet(s) \cup {x}
  <2> DEFINE t == Append(s, x)
  <2>1. /\ DOMAIN t = 1 .. n + 1 /\ t[n + 1] = x /\ n + 1 \in 1 .. n + 1
        /\ \A k \in 1 .. n : t[k] = s[k] /\ k \in 1 .. n + 1
    BY <1>1, AppendProperties, LenProperties
  <2>2. \A k \in 1 .. n + 1 : k \in 1 .. n \/ k = n + 1
    OBVIOUS
  <2> HIDE DEF t
  <2>3. Timer!ToSet(t) = {s[i] : i \in 1 .. n} \cup {x}
    <3>1. Timer!ToSet(t) \subseteq {s[i] : i \in 1 .. n} \cup {x}
      BY <2>1, <2>2 DEF Timer!ToSet
    <3>2. {s[i] : i \in 1 .. n} \cup {x} \subseteq Timer!ToSet(t)
      BY <2>1, <2>2 DEF Timer!ToSet
    <3> QED BY <3>1, <3>2
  <2> QED BY <1>1, <2>3 DEF t, Timer!ToSet
<1> QED BY <1>2, <1>3
-----------------------------------------------------------------------------
(* The timer's figures, from the updates seen since the last clear().      *)
Durable == Durations \cup {Timer!NaN}
Squared(s) == [i \in 1 .. Len(s) |-> s[i] * s[i]]

Counted ==
  /\ seen \in Seq(Durable) /\ timerValues \in Seq(Durable)
  /\ timerCount = Len(seen) /\ timerCount <= marks /\ marks \in Nat
  /\ Len(timerValues) = (IF timerCount < Limit THEN timerCount ELSE Limit)
  /\ \A v \in Durable : Timer!Occurrences(timerValues, v) <= Timer!Occurrences(seen, v)
Cleared == seen = <<>> => {min, max, sum, varianceM, varianceS} = {Timer!null}
Running ==
  seen \in Seq(Nat) /\ seen # <<>> =>
    LET n == Len(seen)  total == Timer!Sum(seen)  squares == Timer!Sum(Squared(seen)) IN
    /\ sum = total /\ varianceM \in Nat /\ varianceM * n = Scale * total
    /\ Timer!OrZero(varianceS) \in Nat /\ (n > 1 => varianceS \in Nat)
    /\ Timer!OrZero(varianceS) * n = Scale * Scale * (n * squares - total * total)
TimerInv == Counted /\ Cleared /\ Running /\ Timer!Extremes

LEMMA TimerConstants ==
  /\ Durations \subseteq Nat /\ {Limit, Parts, Scale, MaxCount} \subseteq Nat \ {0}
  /\ \A n \in 1 .. MaxCount : Scale % n = 0
  /\ Percentiles \subseteq 1 .. Parts - 1
  /\ Timer!NaN = -1 /\ Timer!null = -2
BY MetersAssumption DEF Timer!HistogramAssumption, Timer!NaN, Timer!null

LEMMA SquaredGrows ==
  ASSUME NEW s \in Seq(Nat), NEW x \in Nat
  PROVE  Squared(s) \in Seq(Nat) /\ Squared(Append(s, x)) = Append(Squared(s), x * x)
<1> DEFINE t == Append(s, x)
<1>1. PICK n \in Nat : n = Len(s) /\ DOMAIN s = 1 .. n
  BY LenProperties
<1>2. /\ t \in Seq(Nat) /\ Len(t) = n + 1 /\ t[n + 1] = x
      /\ \A k \in 1 .. n : t[k] = s[k] /\ s[k] \in Nat
  BY <1>1, AppendProperties, ElementOfSeq
<1> HIDE DEF t
<1>3. Squared(s) = [i \in 1 .. n |-> s[i] * s[i]] /\ Squared(t) = [i \in 1 .. n + 1 |-> t[i] * t[i]]
  BY <1>1, <1>2 DEF Squared
<1>4. Squared(s) \in [1 .. n -> Nat]
  <2>1. \A i \in 1 .. n : s[i] * s[i] \in Nat
    BY <1>2
  <2> QED BY <1>3, <2>1
<1>5. Squared(s) \in Seq(Nat) /\ Len(Squared(s)) = n
  BY <1>4, SeqDef, LenProperties
<1> DEFINE u == Append(Squared(s), x * x)
<1>6. /\ u \in Seq(Nat) /\ DOMAIN u = 1 .. n + 1 /\ u[n + 1] = x * x
      /\ \A k \in 1 .. n : u[k] = s[k] * s[k]
  BY <1>3, <1>5, AppendProperties, LenProperties
<1>7. Squared(t) = u
  <2> HIDE DEF u
  <2>1. u = [i \in 1 .. n + 1 |-> u[i]]
    BY <1>6, LenProperties, SeqDef
  <2>2. \A i \in 1 .. n + 1 : u[i] = t[i] * t[i]
    <3> SUFFICES ASSUME NEW i \in 1 .. n + 1 PROVE u[i] = t[i] * t[i]
      OBVIOUS
    <3>1. CASE i = n + 1
      BY <3>1, <1>2, <1>6
    <3>2. CASE i # n + 1
      <4>1. i \in 1 .. n
        BY <3>2
      <4> QED BY <4>1, <1>2, <1>6
    <3> QED BY <3>1, <3>2
  <2> QED BY <1>3, <2>1, <2>2
<1> QED BY <1>5, <1>7 DEF t, u

LEMMA TimerInit == Timer!Init => TimerInv
<1> SUFFICES ASSUME Timer!Init PROVE TimerInv
  OBVIOUS
<1>1. /\ seen = <<>> /\ timerValues = <<>> /\ timerCount = 0 /\ marks = 0
      /\ {min, max, sum, varianceM, varianceS} = {Timer!null}
  BY DEF Timer!Init
<1>2. Counted
  <2>1. <<>> \in Seq(Durable) /\ Len(<<>>) = 0
    OBVIOUS
  <2>2. \A v \in Durable : Timer!Occurrences(<<>>, v) \in Nat
    BY <2>1, OccursIn
  <2> QED BY <1>1, <2>1, <2>2, TimerConstants DEF Counted
<1> QED BY <1>1, <1>2 DEF TimerInv, Cleared, Running, Timer!Extremes

LEMMA TimerClear == Counted /\ Timer!clear => TimerInv'
<1> SUFFICES ASSUME Counted, Timer!clear PROVE TimerInv'
  OBVIOUS
<1>1. /\ seen' = <<>> /\ timerValues' = <<>> /\ timerCount' = 0 /\ marks' = marks
      /\ {min', max', sum', varianceM', varianceS'} = {Timer!null}
  BY DEF Timer!clear
<1>2. Counted'
  <2>1. <<>> \in Seq(Durable) /\ Len(<<>>) = 0 /\ marks \in Nat
    BY DEF Counted
  <2>2. \A v \in Durable : Timer!Occurrences(<<>>, v) \in Nat
    BY <2>1, OccursIn
  <2> QED BY <1>1, <2>1, <2>2, TimerConstants DEF Counted
<1> QED BY <1>1, <1>2 DEF TimerInv, Cleared, Running, Timer!Extremes

LEMMA CountedMore ==
  ASSUME Counted, NEW val \in Durable, Timer!update(val)
  PROVE  Counted'
<1>1. /\ timerCount' = timerCount + 1 /\ marks' = marks + 1 /\ seen' = Append(seen, val)
      /\ Timer!SampleUpdate(val)
  BY DEF Timer!update
<1>2. PICK n \in Nat : n = Len(seen) /\ n = timerCount
  BY LenProperties DEF Counted
<1>3. /\ seen' \in Seq(Durable) /\ Len(seen') = n + 1
      /\ marks \in Nat /\ n <= marks
  BY <1>1, <1>2, AppendProperties DEF Counted
<1>4. Limit \in Nat \ {0}
  BY TimerConstants
<1>5. \A v \in Durable : /\ Timer!Occurrences(seen', v) = Timer!Occurrences(seen, v) + (IF val = v THEN 1 ELSE 0)
                         /\ Timer!Occurrences(seen, v) \in Nat /\ Timer!Occurrences(timerValues, v) \in Nat
                         /\ Timer!Occurrences(timerValues, v) <= Timer!Occurrences(seen, v)
  <2> SUFFICES ASSUME NEW v \in Durable
               PROVE  /\ Timer!Occurrences(seen', v) = Timer!Occurrences(seen, v) + (IF val = v THEN 1 ELSE 0)
                      /\ Timer!Occurrences(seen, v) \in Nat /\ Timer!Occurrences(timerValues, v) \in Nat
                      /\ Timer!Occurrences(timerValues, v) <= Timer!Occurrences(seen, v)
    OBVIOUS
  <2>1. seen \in Seq(Durable) /\ timerValues \in Seq(Durable)
    BY DEF Counted
  <2>2. Timer!Occurrences(seen', v) = Timer!Occurrences(seen, v) + (IF val = v THEN 1 ELSE 0)
    BY <1>1, <2>1, OccursMore
  <2>3. Timer!Occurrences(seen, v) \in Nat /\ Timer!Occurrences(timerValues, v) \in Nat
    BY <2>1, OccursIn
  <2> QED BY <2>2, <2>3 DEF Counted
(* What the sample does: it gains the value, or the value takes a place, or nothing. *)
<1>6. /\ timerValues' \in Seq(Durable)
      /\ Len(timerValues') = (IF n + 1 < Limit THEN n + 1 ELSE Limit)
      /\ \A v \in Durable : Timer!Occurrences(timerValues', v)
                              <= Timer!Occurrences(timerValues, v) + (IF val = v THEN 1 ELSE 0)
  <2>1. /\ timerValues \in Seq(Durable)
        /\ Len(timerValues) = (IF n < Limit THEN n ELSE Limit)
    BY <1>2 DEF Counted
  <2>2. CASE Len(timerValues) < Limit
    <3>1. timerValues' = Append(timerValues, val)
      BY <1>1, <2>2 DEF Timer!SampleUpdate, Timer!Room
    <3>2. \A v \in Durable : Timer!Occurrences(timerValues', v)
                               = Timer!Occurrences(timerValues, v) + (IF val = v THEN 1 ELSE 0)
      BY <2>1, <3>1, OccursMore
    <3>3. timerValues' \in Seq(Durable) /\ Len(timerValues') = Len(timerValues) + 1
      BY <2>1, <3>1, AppendProperties
    <3>4. Len(timerValues') = (IF n + 1 < Limit THEN n + 1 ELSE Limit)
      BY <1>4, <2>1, <2>2, <3>3
    <3>5. \A v \in Durable : Timer!Occurrences(timerValues', v)
                               <= Timer!Occurrences(timerValues, v) + (IF val = v THEN 1 ELSE 0)
      BY <1>5, <3>2
    <3> QED BY <3>3, <3>4, <3>5
  <2>3. CASE ~(Len(timerValues) < Limit)
    <3>1. Len(timerValues) = Limit /\ Limit <= n
      BY <1>4, <2>1, <2>3
    <3>2. PICK r \in 0 .. timerCount :
            timerValues' = IF r < Limit THEN [timerValues EXCEPT ![r + 1] = val] ELSE timerValues
      BY <1>1, <2>3 DEF Timer!SampleUpdate, Timer!Room
    <3>3. CASE r < Limit
      <4>1. r + 1 \in 1 .. Len(timerValues) /\ timerValues' = [timerValues EXCEPT ![r + 1] = val]
        BY <1>2, <1>4, <3>1, <3>2, <3>3
      <4>2. /\ timerValues' \in Seq(Durable) /\ Len(timerValues') = Len(timerValues)
            /\ \A v \in Durable : Timer!Occurrences(timerValues', v)
                                    <= Timer!Occurrences(timerValues, v) + (IF val = v THEN 1 ELSE 0)
        BY <2>1, <4>1, OccursSwapped
      <4> QED BY <1>4, <3>1, <4>2
    <3>4. CASE ~(r < Limit)
      BY <1>4, <1>5, <2>1, <3>1, <3>2, <3>4
    <3> QED BY <3>3, <3>4
  <2> QED BY <2>2, <2>3
<1>7. \A v \in Durable : Timer!Occurrences(timerValues', v) <= Timer!Occurrences(seen', v)
  <2> SUFFICES ASSUME NEW v \in Durable
               PROVE  Timer!Occurrences(timerValues', v) <= Timer!Occurrences(seen', v)
    OBVIOUS
  <2>1. PICK a \in Nat, b \in Nat, c \in Nat :
          /\ a = Timer!Occurrences(timerValues', v) /\ b = Timer!Occurrences(timerValues, v)
          /\ c = Timer!Occurrences(seen, v)
    BY <1>5, <1>6, OccursIn
  <2>2. PICK d \in 0 .. 1 : d = (IF val = v THEN 1 ELSE 0)
    OBVIOUS
  <2>3. a <= b + d /\ b <= c /\ Timer!Occurrences(seen', v) = c + d
    BY <1>5, <1>6, <2>1, <2>2
  <2> QED BY <2>1, <2>3
<1>8. timerCount' = Len(seen') /\ timerCount' <= marks' /\ marks' \in Nat /\ timerCount' = n + 1
  BY <1>1, <1>2, <1>3
<1> QED BY <1>3, <1>6, <1>7, <1>8 DEF Counted

LEMMA RunningMore ==
  ASSUME Counted, Cleared, Running, NEW val \in Durable, Timer!update(val)
  PROVE  Running'
<1> SUFFICES ASSUME seen' \in Seq(Nat) PROVE Running'
  BY DEF Running
<1>1. /\ timerCount < MaxCount /\ seen' = Append(seen, val)
      /\ sum' = IF Timer!NaN \in {sum, val} THEN Timer!NaN ELSE Timer!OrZero(sum) + val
      /\ Timer!updateVariance(val)
  BY DEF Timer!update
<1>2. PICK n \in Nat : n = Len(seen) /\ n = timerCount
  BY LenProperties DEF Counted
<1>3. /\ Durations \subseteq Nat /\ Scale \in Nat \ {0} /\ MaxCount \in Nat
      /\ \A k \in 1 .. MaxCount : Scale % k = 0
      /\ Timer!NaN = -1 /\ Timer!null = -2
  BY TimerConstants
<1>4. seen \in Seq(Nat) /\ val \in Nat /\ Len(seen') = n + 1 /\ seen' # <<>>
  <2>1. seen \in Seq(Durable) /\ seen' \in Seq(Durable)
    BY <1>1, AppendProperties DEF Counted
  <2>2. Len(seen') = n + 1 /\ \A k \in 1 .. n : seen'[k] = seen[k]
    BY <1>1, <1>2, <2>1, AppendProperties DEF Counted
  <2>3. seen'[n + 1] = val
    BY <1>1, <1>2, <2>1, AppendProperties DEF Counted
  <2>4. \A k \in 1 .. n + 1 : seen'[k] \in Nat
    BY <2>2, ElementOfSeq
  <2>5. val \in Nat /\ \A k \in 1 .. n : seen[k] \in Nat
    BY <2>2, <2>3, <2>4
  <2>6. seen \in [1 .. n -> Nat]
    BY <1>2, <2>1, <2>5, LenProperties, SeqDef
  <2>7. seen \in Seq(Nat)
    BY <2>6, SeqDef
  <2> QED BY <2>2, <2>5, <2>7, EmptySeq
<1> DEFINE total == Timer!Sum(seen)
           squares == Timer!Sum(Squared(seen))
<1>5. /\ Timer!Sum(seen') = total + val /\ total \in Nat
      /\ Timer!Sum(Squared(seen')) = squares + val * val /\ squares \in Nat
  <2>1. Squared(seen) \in Seq(Nat) /\ Squared(seen') = Append(Squared(seen), val * val)
        /\ val * val \in Nat
    BY <1>1, <1>4, SquaredGrows
  <2> QED BY <1>1, <1>4, <2>1, SumGrows
<1>6. CASE n = 0
  <2>1. /\ seen = <<>> /\ sum = Timer!null /\ varianceM = Timer!null /\ varianceS = Timer!null
    BY <1>2, <1>4, <1>6, EmptySeq DEF Cleared
  <2>2. total = 0 /\ squares = 0
    <3>1. Squared(<<>>) = <<>>
      BY DEF Squared
    <3> QED BY <2>1, <3>1, SumGrows
  <2>3. sum' = val /\ varianceM' = Scale * val /\ varianceS' = Timer!null
    BY <1>1, <1>2, <1>3, <1>4, <1>6, <2>1 DEF Timer!updateVariance, Timer!OrZero
  <2>4. Timer!OrZero(varianceS') = 0
    BY <2>3 DEF Timer!OrZero
  <2>5. /\ varianceM' \in Nat /\ varianceM' * 1 = Scale * val
    BY <1>3, <1>4, <2>3
  <2>6. 1 * (val * val) - val * val = 0
    BY <1>4
  <2>7. Scale * Scale * (1 * (val * val) - val * val) = 0
    BY <1>3, <2>6
  <2>8. /\ Timer!Sum(seen') = val /\ Timer!Sum(Squared(seen')) = val * val /\ Len(seen') = 1
    BY <1>4, <1>5, <1>6, <2>2
  <2>9. /\ sum' = Timer!Sum(seen') /\ varianceM' \in Nat
        /\ varianceM' * Len(seen') = Scale * Timer!Sum(seen')
        /\ Timer!OrZero(varianceS') \in Nat /\ ~(Len(seen') > 1)
    BY <2>3, <2>4, <2>5, <2>8
  <2>10. Timer!OrZero(varianceS') * Len(seen')
           = Scale * Scale * (Len(seen') * Timer!Sum(Squared(seen')) - Timer!Sum(seen') * Timer!Sum(seen'))
    BY <2>4, <2>7, <2>8
  <2> QED BY <2>9, <2>10 DEF Running
<1>7. CASE n # 0
  <2>1. /\ sum = total /\ varianceM \in Nat /\ varianceM * n = Scale * total
        /\ Timer!OrZero(varianceS) \in Nat
        /\ Timer!OrZero(varianceS) * n = Scale * Scale * (n * squares - total * total)
    BY <1>2, <1>4, <1>7, EmptySeq DEF Running
  <2>2. sum' = total + val
    <3>1. sum \in Nat /\ sum = total
      BY <1>5, <2>1
    <3>2. Timer!NaN \notin {sum, val} /\ Timer!OrZero(sum) = sum
      BY <1>3, <1>4, <3>1 DEF Timer!OrZero
    <3> QED BY <1>1, <3>1, <3>2
  <2> DEFINE a == Scale * val - varianceM
             step == a \div (n + 1)
             b == a - step
             s == Timer!OrZero(varianceS)
  <2>3. varianceM' = varianceM + step /\ varianceS' = s + a * b
    <3>1. timerCount # 0 /\ Timer!NaN \notin {varianceM, val}
      BY <1>2, <1>3, <1>4, <1>7, <2>1
    <3>2. varianceM' = varianceM + step
      BY <1>1, <1>2, <3>1 DEF Timer!updateVariance
    <3>3. varianceS' = s + Timer!Deviation(Scale * val, varianceM + step)
      BY <1>1, <1>2, <3>1 DEF Timer!updateVariance
    <3>4. Scale * val - (varianceM + step) = b
      <4>1. PICK X \in Int, d \in Int : X = Scale * val /\ d = X - varianceM
        BY <1>3, <1>4, <2>1
      <4>2. PICK e \in Int : e = d \div (n + 1)
        BY <1>7, <4>1
      <4>3. X - (varianceM + e) = d - e
        BY <2>1, <4>1, <4>2
      <4> QED BY <4>1, <4>2, <4>3
    <3> QED BY <3>2, <3>3, <3>4 DEF Timer!Deviation
  <2>4. a \in Int /\ step \in Int /\ b \in Int /\ n \in Nat \ {0} /\ Scale % (n + 1) = 0
    <3>1. a \in Int /\ n + 1 \in 1 .. MaxCount
      BY <1>1, <1>2, <1>3, <1>4, <1>7, <2>1
    <3> HIDE DEF a
    <3>2. step \in Int
      BY <3>1
    <3> HIDE DEF step
    <3>3. b \in Int
      BY <3>1, <3>2
    <3> QED BY <1>3, <1>7, <3>1, <3>2, <3>3
  <2> HIDE DEF total, squares, s
  <2>5. /\ varianceM + step \in Nat /\ (varianceM + step) * (n + 1) = Scale * (total + val)
        /\ n * a = Scale * (n * val - total)
        /\ (n + 1) * b = Scale * (n * val - total)
    <3>1. step = a \div (n + 1) /\ a = Scale * val - varianceM /\ b = a - step
      OBVIOUS
    <3> HIDE DEF step, a, b
    <3>2. Stepped(n, Scale, total, val, varianceM, a, step)
      BY <1>3, <1>4, <1>5, <2>1, <2>4, <3>1 DEF Stepped
    <3> QED BY <3>1, <3>2, MeanMoves
  <2> HIDE DEF step, a, b
  <2>6. /\ s + a * b \in Nat
        /\ (s + a * b) * (n + 1)
             = Scale * Scale * ((n + 1) * (squares + val * val) - (total + val) * (total + val))
    <3>1. /\ s \in Nat
          /\ s * n = Scale * Scale * (n * squares - total * total)
      BY <2>1 DEF s
    <3>2. /\ n \in Nat \ {0} /\ Scale \in Nat \ {0} /\ total \in Nat /\ squares \in Nat
          /\ val \in Nat /\ a \in Int /\ b \in Int
      BY <1>3, <1>4, <1>5, <2>4
    <3>3. /\ n * a = Scale * (n * val - total)
          /\ (n + 1) * b = Scale * (n * val - total)
      BY <2>5
    <3>4. Spread(n, Scale, total, squares, val, s, a, b)
      BY <3>1, <3>2, <3>3 DEF Spread
    <3> QED BY <3>4, SquaresMove
  <2>7. varianceS' \in Nat /\ Timer!OrZero(varianceS') = varianceS' /\ varianceS' = s + a * b
    BY <1>3, <2>3, <2>6 DEF Timer!OrZero
  <2>8. /\ sum' = Timer!Sum(seen') /\ varianceM' \in Nat
        /\ varianceM' * (n + 1) = Scale * Timer!Sum(seen')
    BY <1>5, <2>2, <2>3, <2>5
  <2>9. varianceS' * (n + 1)
          = Scale * Scale * ((n + 1) * Timer!Sum(Squared(seen')) - Timer!Sum(seen') * Timer!Sum(seen'))
    BY <1>5, <2>6, <2>7
  <2> QED BY <1>4, <2>7, <2>8, <2>9 DEF Running
<1> QED BY <1>6, <1>7

LEMMA ExtremesMore ==
  ASSUME Counted, Cleared, Timer!Extremes, NEW val \in Durable, Timer!update(val)
  PROVE  Timer!Extremes'
<1>1. /\ seen' = Append(seen, val) /\ max' = Timer!Greatest(max, val) /\ min' = Timer!Least(min, val)
  BY DEF Timer!update
<1>2. seen \in Seq(Durable) /\ Timer!NaN = -1 /\ Timer!null = -2 /\ Durations \subseteq Nat
  BY TimerConstants DEF Counted
<1>3. PICK n \in Nat : n = Len(seen)
  BY <1>2, LenProperties
<1>4. /\ Timer!ToSet(seen') = Timer!ToSet(seen) \cup {val} /\ Timer!ToSet(seen) \subseteq Durable
      /\ seen' # <<>> /\ seen'[1] = (IF n = 0 THEN val ELSE seen[1])
  <2>1. Timer!ToSet(seen') = Timer!ToSet(seen) \cup {val} /\ Timer!ToSet(seen) \subseteq Durable
    BY <1>1, <1>2, OccursElements
  <2>2. seen' \in Seq(Durable) /\ Len(seen') = n + 1 /\ seen'[n + 1] = val
        /\ \A k \in 1 .. n : seen'[k] = seen[k]
    BY <1>1, <1>2, <1>3, AppendProperties
  <2>3. CASE n = 0
    BY <2>1, <2>2, <2>3, EmptySeq
  <2>4. CASE n # 0
    <3>1. 1 \in 1 .. n
      BY <2>4
    <3> QED BY <2>1, <2>2, <2>4, <3>1, EmptySeq
  <2> QED BY <2>3, <2>4
<1>5. CASE n = 0
  <2>1. seen = <<>> /\ min = Timer!null /\ max = Timer!null
    BY <1>2, <1>3, <1>5, EmptySeq DEF Cleared
  <2>2. Timer!ToSet(seen) = {} /\ min' = val /\ max' = val /\ seen'[1] = val
    BY <1>1, <1>4, <1>5, <2>1 DEF Timer!ToSet, Timer!Least, Timer!Greatest
  <2> QED BY <1>2, <1>4, <2>2 DEF Timer!Extremes, Durable
<1>6. CASE n # 0
  <2>1. seen # <<>> /\ seen'[1] = seen[1]
    BY <1>3, <1>4, <1>6
  <2>2. CASE seen[1] = Timer!NaN
    <3>1. min = Timer!NaN /\ max = Timer!NaN
      BY <2>1, <2>2 DEF Timer!Extremes
    <3>2. min' = Timer!NaN /\ max' = Timer!NaN
      BY <1>1, <1>2, <3>1 DEF Timer!Least, Timer!Greatest
    <3> QED BY <2>1, <2>2, <3>2 DEF Timer!Extremes
  <2>3. CASE seen[1] # Timer!NaN
    <3> DEFINE T == Timer!ToSet(seen) \ {Timer!NaN}
    <3>1. /\ min \in T /\ max \in T /\ \A x \in T : min <= x /\ x <= max
      BY <2>1, <2>3 DEF Timer!Extremes
    <3>2. T \subseteq Nat
      BY <1>2, <1>4 DEF Durable
    <3>3. Timer!ToSet(seen') \ {Timer!NaN} = (IF val = Timer!NaN THEN T ELSE T \cup {val})
      BY <1>4
    <3> HIDE DEF T
    <3>4. CASE val = Timer!NaN
      <4>1. min' = min /\ max' = max
        BY <1>1, <1>2, <3>1, <3>2, <3>4 DEF Timer!Least, Timer!Greatest
      <4> QED BY <2>1, <2>3, <3>1, <3>3, <3>4, <4>1 DEF Timer!Extremes
    <3>5. CASE val # Timer!NaN
      <4>1. val \in Nat /\ min \in Nat /\ max \in Nat
        BY <1>2, <3>1, <3>2, <3>5 DEF Durable
      <4>2. min' = (IF val < min THEN val ELSE min) /\ max' = (IF val > max THEN val ELSE max)
        BY <1>1, <1>2, <3>5, <4>1 DEF Timer!Least, Timer!Greatest
      <4>3. min' \in T \cup {val} /\ max' \in T \cup {val}
        BY <3>1, <4>2
      <4>4. ASSUME NEW x \in T \cup {val} PROVE min' <= x /\ x <= max'
        BY <3>1, <3>2, <4>1, <4>2
      <4> QED BY <2>1, <2>3, <3>3, <3>5, <4>3, <4>4 DEF Timer!Extremes
    <3> QED BY <3>4, <3>5
  <2> QED BY <2>2, <2>3
<1> QED BY <1>5, <1>6

LEMMA TimerStep == TimerInv /\ [Timer!Next]_timer => TimerInv'
<1> SUFFICES ASSUME TimerInv, [Timer!Next]_timer PROVE TimerInv'
  OBVIOUS
<1>1. CASE UNCHANGED timer
  BY <1>1 DEF timer, TimerInv, Counted, Cleared, Running, Timer!Extremes
<1>2. CASE Timer!clear
  BY <1>2, TimerClear DEF TimerInv
<1>3. ASSUME NEW val \in Durable, Timer!update(val) PROVE TimerInv'
  <2>1. Counted' /\ Running' /\ Timer!Extremes'
    BY <1>3, CountedMore, RunningMore, ExtremesMore DEF TimerInv
  <2>2. seen \in Seq(Durable) /\ seen' = Append(seen, val)
    BY <1>3 DEF TimerInv, Counted, Timer!update
  <2>3. seen' # <<>>
    BY <2>2, AppendProperties, LenProperties, EmptySeq
  <2> QED BY <2>1, <2>3 DEF TimerInv, Cleared
<1> QED BY <1>1, <1>2, <1>3 DEF Timer!Next, Durable

LEMMA TimerIsSound == TimerInv => Timer!RunningFigures /\ Timer!Extremes /\ Timer!Sampled
<1> SUFFICES ASSUME TimerInv PROVE Timer!RunningFigures /\ Timer!Extremes /\ Timer!Sampled
  OBVIOUS
<1>1. /\ seen \in Seq(Durable) /\ timerValues \in Seq(Durable) /\ timerCount = Len(seen)
  BY DEF TimerInv, Counted
<1>2. PICK n \in Nat : n = Len(seen) /\ DOMAIN seen = 1 .. n
  BY <1>1, LenProperties
<1>3. Timer!Sampled
  <2>1. Timer!ToSet(timerValues) \subseteq Durable
    BY <1>1, OccursElements
  <2> QED BY <2>1 DEF TimerInv, Counted, Timer!Sampled
<1>4. ASSUME Timer!NaN \notin Timer!ToSet(seen), seen # <<>> PROVE Timer!RunningFigures
  <2>1. seen \in Seq(Nat)
    <3>1. \A k \in 1 .. n : seen[k] \in Durable /\ seen[k] \in Timer!ToSet(seen)
      BY <1>1, <1>2, ElementOfSeq DEF Timer!ToSet
    <3>2. \A k \in 1 .. n : seen[k] \in Nat
      BY <1>4, <3>1, TimerConstants DEF Durable
    <3>3. seen \in [1 .. n -> Nat]
      BY <1>1, <1>2, <3>2, LenProperties, SeqDef
    <3> QED BY <3>3, SeqDef
  <2>2. n # 0 /\ timerCount = n
    BY <1>1, <1>2, <1>4, EmptySeq
  <2>3. /\ sum = Timer!Sum(seen) /\ varianceM * n = Scale * Timer!Sum(seen) /\ (n > 1 => varianceS \in Nat)
        /\ Timer!OrZero(varianceS) * n
             = Scale * Scale * (n * Timer!Sum(Squared(seen)) - Timer!Sum(seen) * Timer!Sum(seen))
    BY <1>2, <1>4, <2>1 DEF TimerInv, Running
  <2>4. Timer!mean = varianceM
    BY <2>2 DEF Timer!mean
  <2>5. n > 1 => Timer!OrZero(varianceS) = varianceS
    BY <2>3, TimerConstants DEF Timer!OrZero
  <2>6. Squared(seen) = [i \in 1 .. n |-> seen[i] * seen[i]]
    BY <1>2 DEF Squared
  <2>7. n > 1 => varianceS * n
             = Scale * Scale * (n * Timer!Sum(Squared(seen)) - Timer!Sum(seen) * Timer!Sum(seen))
    BY <2>3, <2>5
  <2> QED BY <1>2, <2>3, <2>4, <2>6, <2>7 DEF Timer!RunningFigures
<1> QED BY <1>3, <1>4 DEF TimerInv, Timer!RunningFigures

-----------------------------------------------------------------------------
(* Percentiles.  How many values of the sample are smaller than v, and how *)
(* many are no more than v.                                                *)
Smaller(v) == Cardinality({i \in DOMAIN timerValues : timerValues[i] < v})
NoMore(v) == Cardinality({i \in DOMAIN timerValues : timerValues[i] <= v})
Numbers(n) == n \in Nat \ {0} /\ timerValues \in [1 .. n -> Nat] /\ Len(timerValues) = n

LEMMA PartsOfSample ==
  ASSUME NEW n, Numbers(n), NEW I \in SUBSET (1 .. n), NEW J \in SUBSET I
  PROVE  /\ IsFiniteSet(I) /\ Cardinality(I) \in Nat /\ Cardinality(I) <= n
         /\ Cardinality(J) \in Nat /\ Cardinality(J) <= Cardinality(I)
<1>1. n \in Nat /\ IsFiniteSet(1 .. n) /\ Cardinality(1 .. n) = n
  <2>1. n \in Nat \ {0}
    BY DEF Numbers
  <2> QED BY <2>1, FS_Interval
<1>2. IsFiniteSet(I) /\ Cardinality(I) <= n
  BY <1>1, FS_Subset
<1>3. IsFiniteSet(J) /\ Cardinality(J) <= Cardinality(I)
  BY <1>2, FS_Subset
<1> QED BY <1>2, <1>3, FS_CardinalityType

LEMMA SmallerAndNoMore ==
  ASSUME NEW n, Numbers(n), NEW v \in Nat
  PROVE  /\ Smaller(v) \in 0 .. n /\ NoMore(v) \in 0 .. n /\ Smaller(v) <= NoMore(v)
         /\ \A w \in Nat : w < v => NoMore(w) <= Smaller(v)
<1> DEFINE I == {i \in 1 .. n : timerValues[i] < v}
           J == {i \in 1 .. n : timerValues[i] <= v}
<1>1. n \in Nat /\ timerValues \in [1 .. n -> Nat] /\ DOMAIN timerValues = 1 .. n
  BY DEF Numbers
<1>2. Smaller(v) = Cardinality(I) /\ NoMore(v) = Cardinality(J)
  BY <1>1 DEF Smaller, NoMore
<1>3. I \in SUBSET (1 .. n) /\ J \in SUBSET (1 .. n) /\ I \in SUBSET J
  BY <1>1
<1>4. ASSUME NEW w \in Nat, w < v PROVE NoMore(w) <= Smaller(v)
  <2> DEFINE K == {i \in 1 .. n : timerValues[i] <= w}
  <2>1. K \in SUBSET I /\ NoMore(w) = Cardinality(K)
    BY <1>1, <1>4 DEF NoMore
  <2> HIDE DEF I, K
  <2> QED BY <1>2, <1>3, <2>1, PartsOfSample
<1> HIDE DEF I, J
<1>5. /\ Cardinality(I) \in Nat /\ Cardinality(I) <= n
      /\ Cardinality(J) \in Nat /\ Cardinality(J) <= n /\ Cardinality(I) <= Cardinality(J)
  BY <1>3, PartsOfSample
<1> QED BY <1>1, <1>2, <1>4, <1>5

LEMMA SampleBounded ==
  ASSUME NEW n, Numbers(n)
  PROVE  \E b \in Nat : NoMore(b) = n
<1>1. n \in Nat /\ timerValues \in [1 .. n -> Nat] /\ DOMAIN timerValues = 1 .. n
  BY DEF Numbers
<1> DEFINE G == {m \in 0 .. n : \E b \in Nat : \A i \in 1 .. m : timerValues[i] <= b}
<1>2. 0 \in G
  BY <1>1
<1>3. ASSUME NEW m \in 0 .. n, m < n, m \in G PROVE m + 1 \in G
  <2>1. PICK b \in Nat : \A i \in 1 .. m : timerValues[i] <= b
    BY <1>3
  <2>2. m + 1 \in 1 .. n /\ timerValues[m + 1] \in Nat
    BY <1>1, <1>3
  <2> DEFINE c == IF b < timerValues[m + 1] THEN timerValues[m + 1] ELSE b
  <2>3. c \in Nat /\ b <= c /\ timerValues[m + 1] <= c
    BY <2>2
  <2> HIDE DEF c
  <2>4. ASSUME NEW i \in 1 .. m + 1 PROVE timerValues[i] <= c
    <3>1. CASE i = m + 1
      BY <3>1, <2>3
    <3>2. CASE i # m + 1
      <4>1. i \in 1 .. m /\ timerValues[i] \in Nat
        BY <3>2, <1>1, <1>3
      <4> QED BY <4>1, <2>1, <2>3
    <3> QED BY <3>1, <3>2
  <2>5. \E d \in Nat : \A i \in 1 .. m + 1 : timerValues[i] <= d
    BY <2>3, <2>4
  <2> QED BY <1>1, <2>2, <2>5
<1> HIDE DEF G
<1>4. n \in G
  <2>1. \A m \in 0 .. n : m < n /\ m \in G => m + 1 \in G
    BY <1>3
  <2>2. \A m \in 0 .. n : m \in G
    BY <1>1, <1>2, <2>1, Climbs
  <2> QED BY <1>1, <2>2
<1>5. PICK b \in Nat : \A i \in 1 .. n : timerValues[i] <= b
  BY <1>4 DEF G
<1>6. {i \in DOMAIN timerValues : timerValues[i] <= b} = 1 .. n
  BY <1>1, <1>5
<1>7. Cardinality(1 .. n) = n
  BY <1>1, FS_Interval DEF Numbers
<1> QED BY <1>6, <1>7 DEF NoMore

LEMMA RankedSplits ==
  ASSUME NEW n, Numbers(n), NEW k \in 1 .. n
  PROVE  /\ Timer!Ranked(k) \in Nat /\ Smaller(Timer!Ranked(k)) < k /\ k <= NoMore(Timer!Ranked(k))
<1>1. n \in Nat /\ timerValues \in [1 .. n -> Nat] /\ DOMAIN timerValues = 1 .. n
  BY DEF Numbers
<1>2. PICK v \in Nat : k <= NoMore(v) /\ \A w \in Nat : k <= NoMore(w) => v <= w
  <2> DEFINE T == {v \in Nat : k <= NoMore(v)}
  <2>1. T \in SUBSET Nat /\ T # {}
    <3>1. PICK b \in Nat : NoMore(b) = n
      BY SampleBounded
    <3> QED BY <1>1, <3>1
  <2>2. PICK v \in T : \A w \in T : v <= w
    <3> HIDE DEF T
    <3> QED BY <2>1, LeastOf
  <2> QED BY <2>2
<1>3. Smaller(v) < k
  <2>1. CASE v = 0
    <3>1. {i \in DOMAIN timerValues : timerValues[i] < v} = {}
      BY <1>1, <2>1
    <3>2. Smaller(v) = 0
      BY <3>1, FS_EmptySet DEF Smaller
    <3> QED BY <3>2
  <2>2. CASE v # 0
    <3>1. v - 1 \in Nat /\ ~(v <= v - 1)
      BY <2>2
    <3>2. {i \in DOMAIN timerValues : timerValues[i] < v} = {i \in DOMAIN timerValues : timerValues[i] <= v - 1}
      BY <1>1, <2>2
    <3>3. Smaller(v) = NoMore(v - 1)
      BY <3>2 DEF Smaller, NoMore
    <3>4. NoMore(v - 1) \in Nat
      <4>1. PICK u \in Nat : u = v - 1
        BY <3>1
      <4>2. NoMore(u) \in 0 .. n
        BY SmallerAndNoMore
      <4> QED BY <1>1, <4>1, <4>2
    <3> QED BY <1>1, <1>2, <3>1, <3>3, <3>4
  <2> QED BY <2>1, <2>2
<1>4. v \in Timer!ToSet(timerValues)
  <2>1. CASE \E i \in 1 .. n : timerValues[i] = v
    BY <1>1, <2>1 DEF Timer!ToSet
  <2>2. CASE ~ \E i \in 1 .. n : timerValues[i] = v
    <3>1. {i \in DOMAIN timerValues : timerValues[i] < v} = {i \in DOMAIN timerValues : timerValues[i] <= v}
      BY <1>1, <2>2
    <3>2. Smaller(v) = NoMore(v)
      BY <3>1 DEF Smaller, NoMore
    <3> QED BY <1>1, <1>2, <1>3, <3>2, SmallerAndNoMore
  <2> QED BY <2>1, <2>2
<1> DEFINE Splits(w) == Smaller(w) < k /\ k <= NoMore(w)
<1>5. Timer!Ranked(k) = CHOOSE w \in Timer!ToSet(timerValues) : Splits(w)
  BY TimerCardinality DEF Timer!Ranked, Smaller, NoMore
<1>6. Splits(v)
  BY <1>2, <1>3
<1> HIDE DEF Splits
<1>7. Timer!Ranked(k) \in Timer!ToSet(timerValues) /\ Splits(Timer!Ranked(k))
  BY <1>4, <1>5, <1>6
<1>8. Timer!ToSet(timerValues) \subseteq Nat
  BY <1>1 DEF Timer!ToSet
<1> QED BY <1>7, <1>8 DEF Splits

LEMMA RankedRise ==
  ASSUME NEW n, Numbers(n), NEW k \in 1 .. n, NEW j \in 1 .. n, k <= j
  PROVE  Timer!Ranked(k) <= Timer!Ranked(j)
<1>1. PICK v \in Nat, w \in Nat : v = Timer!Ranked(k) /\ w = Timer!Ranked(j)
  BY RankedSplits
<1>2. Smaller(v) < k /\ k <= NoMore(v) /\ Smaller(w) < j /\ j <= NoMore(w)
  BY <1>1, RankedSplits
<1>3. ASSUME w < v PROVE FALSE
  <2>1. NoMore(w) <= Smaller(v)
    BY <1>3, SmallerAndNoMore
  <2>2. Smaller(v) \in Int /\ NoMore(w) \in Int
    BY SmallerAndNoMore
  <2> QED BY <1>2, <2>1, <2>2
<1> QED BY <1>1, <1>3

(* Where the percentile p is looked for: after the first f values, and r of *)
(* Parts on the way to the next.                                           *)
Place(p, n, f, r) == f \in 0 .. n /\ r \in 0 .. Parts - 1 /\ p * (n + 1) = Parts * f + r
Figure(n, f, r) ==
  IF f = 0 THEN Parts * Timer!Ranked(1)
  ELSE IF f = n THEN Parts * Timer!Ranked(n)
  ELSE Parts * Timer!Ranked(f) + r * (Timer!Ranked(f + 1) - Timer!Ranked(f))

LEMMA PlaceOf ==
  ASSUME NEW n, Numbers(n), NEW p \in Percentiles
  PROVE  \E f, r : Place(p, n, f, r) /\ Timer!percentile(p) = Figure(n, f, r)
<1>1. n \in Nat \ {0} /\ Len(timerValues) = n
  BY DEF Numbers
<1>2. PICK P \in Nat \ {0} : P = Parts
  BY TimerConstants
<1>3. p \in Nat /\ p + 1 <= P
  BY <1>2, TimerConstants
<1>4. PICK pos \in Nat : pos = p * (n + 1)
  BY <1>1, <1>3
<1>5. PICK f \in Nat, r \in 0 .. P - 1 :
        f = pos \div P /\ r = (pos % P) /\ pos = P * f + r
  <2>1. pos \div P \in Nat /\ (pos % P) \in 0 .. P - 1
    OBVIOUS
  <2>2. pos = P * (pos \div P) + (pos % P)
    OBVIOUS
  <2> QED BY <2>1, <2>2
<1>6. pos < P * (n + 1)
  <2>1. (p + 1) * (n + 1) <= P * (n + 1)
    BY <1>1, <1>2, <1>3
  <2>2. (p + 1) * (n + 1) = pos + n + 1
    BY <1>1, <1>3, <1>4
  <2>3. P * (n + 1) \in Nat
    BY <1>1, <1>2
  <2> QED BY <1>1, <2>1, <2>2, <2>3
<1>7. f <= n
  <2>1. ASSUME n + 1 <= f PROVE FALSE
    <3>1. P * (n + 1) <= P * f
      BY <1>1, <1>2, <1>5, <2>1
    <3>2. P * (n + 1) \in Nat /\ P * f \in Nat
      BY <1>1, <1>2, <1>5
    <3> QED BY <1>5, <1>6, <3>1, <3>2
  <2> QED BY <1>1, <2>1
<1>8. Place(p, n, f, r)
  BY <1>1, <1>2, <1>4, <1>5, <1>7 DEF Place
<1>9. (pos < P) <=> (f = 0)
  <2>1. CASE f = 0
    BY <2>1, <1>2, <1>5
  <2>2. CASE f # 0
    <3>1. P * 1 <= P * f
      BY <2>2, <1>2, <1>5
    <3>2. P * f \in Nat
      BY <1>2, <1>5
    <3> QED BY <2>2, <1>2, <1>5, <3>1, <3>2
  <2> QED BY <2>1, <2>2
<1>10. (pos >= n * P) <=> (f = n)
  <2>1. CASE f = n
    <3>1. n * P = P * f /\ P * f \in Nat
      BY <2>1, <1>1, <1>2
    <3> QED BY <2>1, <1>5, <3>1
  <2>2. CASE f # n
    <3>1. P * (f + 1) <= n * P
      BY <2>2, <1>1, <1>2, <1>5, <1>7
    <3>2. P * (f + 1) = P * f + P /\ n * P \in Nat /\ P * f \in Nat
      BY <1>1, <1>2, <1>5
    <3> QED BY <2>2, <1>2, <1>5, <3>1, <3>2
  <2> QED BY <2>1, <2>2
<1>11. Timer!percentile(p) =
         IF pos < P THEN P * Timer!Ranked(1)
         ELSE IF pos >= n * P THEN P * Timer!Ranked(n)
         ELSE P * Timer!Ranked(f) + r * (Timer!Ranked(f + 1) - Timer!Ranked(f))
  BY <1>1, <1>2, <1>4, <1>5, Zenon DEF Timer!percentile, Timer!Position
<1>12. Timer!percentile(p) = Figure(n, f, r)
  BY <1>2, <1>9, <1>10, <1>11 DEF Figure
<1> QED BY <1>8, <1>12

LEMMA FigureBetween ==
  ASSUME NEW n, Numbers(n), NEW f \in 0 .. n, NEW r \in 0 .. Parts - 1
  PROVE  \E j \in 1 .. n, k \in 1 .. n :
           /\ f <= j /\ k <= f + 1 /\ Figure(n, f, r) \in Int
           /\ Parts * Timer!Ranked(j) <= Figure(n, f, r)
           /\ Figure(n, f, r) <= Parts * Timer!Ranked(k)
<1>1. n \in Nat \ {0} /\ Parts \in Nat \ {0}
  BY TimerConstants DEF Numbers
<1>2. CASE f = 0
  <2>1. 1 \in 1 .. n /\ Figure(n, f, r) = Parts * Timer!Ranked(1)
    BY <1>1, <1>2 DEF Figure
  <2>2. Timer!Ranked(1) \in Nat
    BY <2>1, RankedSplits
  <2>3. Parts * Timer!Ranked(1) \in Int
    BY <1>1, <2>2
  <2> QED BY <1>2, <2>1, <2>3
<1>3. CASE f # 0 /\ f = n
  <2>1. n \in 1 .. n /\ Figure(n, f, r) = Parts * Timer!Ranked(n)
    BY <1>1, <1>3 DEF Figure
  <2>2. Timer!Ranked(n) \in Nat
    BY <2>1, RankedSplits
  <2>3. Parts * Timer!Ranked(n) \in Int
    BY <1>1, <2>2
  <2> QED BY <1>1, <1>3, <2>1, <2>3
<1>4. CASE f # 0 /\ f # n
  <2>1. f \in 1 .. n /\ f + 1 \in 1 .. n /\ f <= f + 1
    BY <1>1, <1>4
  <2>2. PICK v \in Nat, w \in Nat : v = Timer!Ranked(f) /\ w = Timer!Ranked(f + 1) /\ v <= w
    BY <2>1, RankedSplits, RankedRise
  <2>3. Figure(n, f, r) = Parts * v + r * (w - v)
    BY <1>4, <2>2 DEF Figure
  <2>4. PICK d \in Nat : d = w - v
    BY <2>2
  <2>5. r \in Nat /\ r <= Parts /\ 0 <= r * d /\ r * d <= Parts * d
    BY <1>1, <2>4
  <2>6. Parts * w = Parts * v + Parts * d /\ r * d \in Int /\ Parts * v \in Int /\ Parts * d \in Int
    BY <1>1, <2>4, <2>5
  <2>7. /\ Figure(n, f, r) \in Int /\ Parts * v <= Figure(n, f, r) /\ Figure(n, f, r) <= Parts * w
    BY <2>3, <2>4, <2>5, <2>6
  <2> QED BY <2>1, <2>2, <2>7
<1> QED BY <1>2, <1>3, <1>4

LEMMA FigureSplits ==
  ASSUME NEW n, Numbers(n), NEW p \in Percentiles, NEW f, NEW r, Place(p, n, f, r)
  PROVE  LET below == Cardinality({i \in 1 .. n : Parts * timerValues[i] < Figure(n, f, r)})
             upTo == Cardinality({i \in 1 .. n : Parts * timerValues[i] <= Figure(n, f, r)})
         IN /\ below * Parts <= p * (n + 1) /\ p * (n + 1) < (upTo + 1) * Parts
            /\ below < n /\ upTo > 0
<1>1. /\ n \in Nat \ {0} /\ timerValues \in [1 .. n -> Nat] /\ DOMAIN timerValues = 1 .. n
      /\ Parts \in Nat \ {0} /\ f \in 0 .. n /\ r \in 0 .. Parts - 1 /\ p * (n + 1) = Parts * f + r
  BY TimerConstants DEF Numbers, Place
<1>2. PICK j \in 1 .. n, k \in 1 .. n :
        /\ f <= j /\ k <= f + 1 /\ Figure(n, f, r) \in Int
        /\ Parts * Timer!Ranked(j) <= Figure(n, f, r)
        /\ Figure(n, f, r) <= Parts * Timer!Ranked(k)
  BY <1>1, FigureBetween
<1>3. PICK v \in Nat, w \in Nat, x \in Int :
        v = Timer!Ranked(j) /\ w = Timer!Ranked(k) /\ x = Figure(n, f, r)
  BY <1>2, RankedSplits
<1>4. j <= NoMore(v) /\ Smaller(w) < k
  BY <1>3, RankedSplits
<1> DEFINE B == {i \in 1 .. n : Parts * timerValues[i] < x}
           U == {i \in 1 .. n : Parts * timerValues[i] <= x}
           S == {i \in 1 .. n : timerValues[i] < w}
           T == {i \in 1 .. n : timerValues[i] <= v}
<1>5. Smaller(w) = Cardinality(S) /\ NoMore(v) = Cardinality(T)
  BY <1>1 DEF Smaller, NoMore
<1>6. B \subseteq S
  <2> SUFFICES ASSUME NEW i \in 1 .. n, Parts * timerValues[i] < x PROVE timerValues[i] < w
    OBVIOUS
  <2>1. PICK y \in Nat : y = timerValues[i]
    BY <1>1
  <2>2. ASSUME w <= y PROVE FALSE
    <3>1. Parts * w <= Parts * y /\ Parts * w \in Int /\ Parts * y \in Int
      BY <1>1, <2>2
    <3> QED BY <1>2, <1>3, <2>1, <3>1
  <2> QED BY <2>1, <2>2
<1>7. T \subseteq U
  <2> SUFFICES ASSUME NEW i \in 1 .. n, timerValues[i] <= v PROVE Parts * timerValues[i] <= x
    OBVIOUS
  <2>1. PICK y \in Nat : y = timerValues[i]
    BY <1>1
  <2>2. Parts * y <= Parts * v /\ Parts * v \in Int /\ Parts * y \in Int
    BY <1>1, <2>1
  <2> QED BY <1>2, <1>3, <2>1, <2>2
<1>8. S \in SUBSET (1 .. n) /\ U \in SUBSET (1 .. n) /\ B \in SUBSET S /\ T \in SUBSET U
  BY <1>6, <1>7
<1> HIDE DEF B, U, S, T
<1>9. /\ Cardinality(B) \in Nat /\ Cardinality(S) \in Nat /\ Cardinality(T) \in Nat /\ Cardinality(U) \in Nat
      /\ Cardinality(B) <= Cardinality(S) /\ Cardinality(T) <= Cardinality(U)
  BY <1>8, PartsOfSample
<1>10. PICK below \in Nat, upTo \in Nat : below = Cardinality(B) /\ upTo = Cardinality(U)
  BY <1>9
<1>11. below <= f /\ below < n /\ f <= upTo /\ upTo > 0
  <2>1. /\ below <= Smaller(w) /\ Smaller(w) \in Nat
        /\ NoMore(v) <= upTo /\ NoMore(v) \in Nat
    BY <1>5, <1>9, <1>10
  <2>2. n \in Nat /\ f \in Nat
    BY DEF Numbers, Place
  <2>3. f <= j /\ k <= f + 1 /\ j \in Nat \ {0} /\ k \in Nat /\ k <= n
    BY <1>2, <2>2
  <2> QED BY <1>4, <2>1, <2>2, <2>3
<1>12. below * Parts <= p * (n + 1)
  <2>1. below * Parts <= Parts * f /\ Parts * f \in Int /\ below * Parts \in Int
    BY <1>1, <1>11
  <2> QED BY <1>1, <2>1
<1>13. p * (n + 1) < (upTo + 1) * Parts
  <2>1. Parts * f <= upTo * Parts /\ (upTo + 1) * Parts = upTo * Parts + Parts
        /\ Parts * f \in Int /\ upTo * Parts \in Int
    BY <1>1, <1>11
  <2> QED BY <1>1, <2>1
<1> QED BY <1>3, <1>10, <1>11, <1>12, <1>13 DEF B, U

LEMMA FigureRises ==
  ASSUME NEW n, Numbers(n), NEW p \in Percentiles, NEW q \in Percentiles, p < q,
         NEW f, NEW r, Place(p, n, f, r), NEW g, NEW t, Place(q, n, g, t)
  PROVE  Figure(n, f, r) <= Figure(n, g, t)
<1>1. /\ n \in Nat \ {0} /\ Parts \in Nat \ {0} /\ p \in Nat /\ q \in Nat
      /\ f \in 0 .. n /\ r \in 0 .. Parts - 1 /\ p * (n + 1) = Parts * f + r
      /\ g \in 0 .. n /\ t \in 0 .. Parts - 1 /\ q * (n + 1) = Parts * g + t
  BY TimerConstants DEF Numbers, Place
<1>2. Parts * f + r <= Parts * g + t
  <2>1. p * (n + 1) <= q * (n + 1)
    BY <1>1
  <2> QED BY <1>1, <2>1
<1>3. f <= g
  <2>1. ASSUME g + 1 <= f PROVE FALSE
    <3>1. Parts * (g + 1) <= Parts * f /\ Parts * (g + 1) = Parts * g + Parts
          /\ Parts * f \in Int /\ Parts * g \in Int
      BY <1>1, <2>1
    <3> QED BY <1>1, <1>2, <3>1
  <2> QED BY <1>1, <2>1
<1>4. PICK j \in 1 .. n, k \in 1 .. n :
        /\ f <= j /\ k <= f + 1 /\ Figure(n, f, r) \in Int
        /\ Figure(n, f, r) <= Parts * Timer!Ranked(k)
  BY <1>1, FigureBetween
<1>5. PICK a \in 1 .. n, b \in 1 .. n :
        /\ g <= a /\ b <= g + 1 /\ Figure(n, g, t) \in Int
        /\ Parts * Timer!Ranked(a) <= Figure(n, g, t)
  BY <1>1, FigureBetween
<1>6. CASE f < g
  <2>1. k <= a
    BY <1>1, <1>4, <1>5, <1>6
  <2>2. PICK v \in Nat, w \in Nat : v = Timer!Ranked(k) /\ w = Timer!Ranked(a) /\ v <= w
    BY <2>1, RankedSplits, RankedRise
  <2>3. Parts * v <= Parts * w /\ Parts * v \in Int /\ Parts * w \in Int
    BY <1>1, <2>2
  <2> QED BY <1>4, <1>5, <2>2, <2>3
<1>7. CASE f = g
  <2>1. CASE f = 0 \/ f = n
    <3>1. Figure(n, f, r) = Figure(n, g, t)
      BY <1>7, <2>1 DEF Figure
    <3> QED BY <1>4, <3>1
  <2>2. CASE f # 0 /\ f # n
    <3>1. f \in 1 .. n /\ f + 1 \in 1 .. n /\ f <= f + 1
      BY <1>1, <2>2
    <3>2. PICK v \in Nat, w \in Nat : v = Timer!Ranked(f) /\ w = Timer!Ranked(f + 1) /\ v <= w
      BY <3>1, RankedSplits, RankedRise
    <3>3. PICK d \in Nat : d = w - v
      BY <3>2
    <3>4. Figure(n, f, r) = Parts * v + r * d /\ Figure(n, g, t) = Parts * v + t * d
      BY <1>7, <2>2, <3>2, <3>3 DEF Figure
    <3>5. r <= t
      <4>1. Parts * f \in Int
        BY <1>1
      <4> QED BY <1>1, <1>2, <1>7, <4>1
    <3>6. r * d <= t * d /\ r * d \in Int /\ t * d \in Int /\ Parts * v \in Int
      BY <1>1, <3>3, <3>5
    <3> QED BY <3>4, <3>6
  <2> QED BY <2>1, <2>2
<1> QED BY <1>1, <1>3, <1>6, <1>7

LEMMA PercentilesAreSound == TimerInv => Timer!PercentilesSplit
<1> SUFFICES ASSUME TimerInv, timerValues # <<>>, Timer!NaN \notin Timer!ToSet(timerValues)
             PROVE  Timer!PercentilesSplit
  BY DEF Timer!PercentilesSplit
<1>1. timerValues \in Seq(Durable)
  BY DEF TimerInv, Counted
<1>2. PICK n \in Nat : n = Len(timerValues) /\ DOMAIN timerValues = 1 .. n
  BY <1>1, LenProperties
<1>3. Numbers(n)
  <2>1. \A k \in 1 .. n : timerValues[k] \in Durable /\ timerValues[k] \in Timer!ToSet(timerValues)
    BY <1>1, <1>2, ElementOfSeq DEF Timer!ToSet
  <2>2. \A k \in 1 .. n : timerValues[k] \in Nat
    BY <2>1, TimerConstants DEF Durable
  <2>3. timerValues \in [1 .. n -> Nat]
    BY <1>1, <1>2, <2>2, LenProperties, SeqDef
  <2>4. n # 0
    BY <1>1, <1>2, EmptySeq
  <2> QED BY <1>2, <2>3, <2>4 DEF Numbers
<1>4. ASSUME NEW p \in Percentiles
      PROVE  LET below == Timer!Cardinality({i \in 1 .. n : Parts * timerValues[i] < Timer!percentile(p)})
                 upTo == Timer!Cardinality({i \in 1 .. n : Parts * timerValues[i] <= Timer!percentile(p)})
             IN /\ below * Parts <= p * (n + 1) /\ p * (n + 1) < (upTo + 1) * Parts
                /\ below < n /\ upTo > 0
                /\ \A q \in Percentiles : p < q => Timer!percentile(p) <= Timer!percentile(q)
  <2>1. PICK f, r : Place(p, n, f, r) /\ Timer!percentile(p) = Figure(n, f, r)
    BY <1>3, PlaceOf
  <2>2. ASSUME NEW q \in Percentiles, p < q PROVE Timer!percentile(p) <= Timer!percentile(q)
    <3>1. PICK g, t : Place(q, n, g, t) /\ Timer!percentile(q) = Figure(n, g, t)
      BY <1>3, PlaceOf
    <3> QED BY <1>3, <2>1, <2>2, <3>1, FigureRises
  <2>3. LET below == Cardinality({i \in 1 .. n : Parts * timerValues[i] < Figure(n, f, r)})
            upTo == Cardinality({i \in 1 .. n : Parts * timerValues[i] <= Figure(n, f, r)})
        IN /\ below * Parts <= p * (n + 1) /\ p * (n + 1) < (upTo + 1) * Parts
           /\ below < n /\ upTo > 0
    BY <1>3, <2>1, FigureSplits
  <2> QED BY <2>1, <2>2, <2>3, TimerCardinality
<1> QED BY <1>2, <1>4 DEF Timer!PercentilesSplit
-----------------------------------------------------------------------------
(* Of all the meters, a step is of one and leaves the others alone.        *)
LEMMA StepsOfOne ==
  ASSUME [MetersNext]_<<meter, vars, timer, sample, heap, registry>>
  PROVE  /\ [Next]_vars /\ [Timer!Next]_timer /\ [Sample!Next]_sample
         /\ [Heap!Next]_heap /\ [Registry!Next]_registry
<1>1. CASE MetersNext
  BY <1>1, Zenon DEF MetersNext, vars, timer, sample, heap, registry
<1>2. CASE UNCHANGED <<meter, vars, timer, sample, heap, registry>>
  BY <1>2
<1> QED BY <1>1, <1>2

MetricsInv == CounterInv /\ TimerInv /\ HeapInv /\ RegistryInv

LEMMA MetersStep ==
  MetricsInv /\ [MetersNext]_<<meter, vars, timer, sample, heap, registry>> => MetricsInv'
<1> SUFFICES ASSUME MetricsInv, [MetersNext]_<<meter, vars, timer, sample, heap, registry>>
             PROVE  MetricsInv'
  OBVIOUS
<1>1. [Next]_vars /\ [Timer!Next]_timer /\ [Heap!Next]_heap /\ [Registry!Next]_registry
  BY StepsOfOne
<1> QED BY <1>1, CounterStep, TimerStep, HeapStep, RegistryStep DEF MetricsInv

LEMMA MetricsInvariance == MetersSpec => []MetricsInv
<1>1. MetersInit => MetricsInv
  BY CounterAssumption, TimerInit, HeapInit, RegistryInit DEF MetersInit, MetricsInv, Init, CounterInv
<1> QED BY <1>1, MetersStep, PTL DEF MetersSpec

LEMMA SampleInvariance ==
  ASSUME InRange
  PROVE  MetersSpec => []SampleInv
<1>1. MetersInit => SampleInv
  BY SampleInit DEF MetersInit
<1>2. SampleInv /\ [MetersNext]_<<meter, vars, timer, sample, heap, registry>> => SampleInv'
  BY InRange, StepsOfOne, SampleStep
<1> QED BY <1>1, <1>2, PTL DEF MetersSpec

(* For every maximum, next to the other meters.                            *)
COROLLARY CountersAreSound == MetersSpec => []CounterSound
<1>1. MetricsInv => CounterSound
  BY DEF MetricsInv, CounterInv, CounterSound, CountInRange, EventsAccounted
<1> QED BY <1>1, MetricsInvariance, PTL

(* For every set of durations and every size of the sample: after whatever *)
(* updates and clears, a timer's sum, mean and variance are those of a     *)
(* second pass over all updates since the last clear(), its extremes are   *)
(* theirs, its sample holds only them and as many as fit, and each         *)
(* percentile splits the sample where it should.                           *)
THEOREM FiguresAreSound == MetersSpec => []FiguresSound
<1>1. MetricsInv => FiguresSound
  BY TimerIsSound, PercentilesAreSound DEF MetricsInv, FiguresSound, Timer!FiguresSound
<1> QED BY <1>1, MetricsInvariance, PTL

(* For every set of elements and of priorities: through all pushes, pops   *)
(* and removals the heap is a heap of just the elements it was given, and  *)
(* pop() returns one that no other goes before; and, as long as the        *)
(* exponents stay those of finite numbers other than zero, the decaying    *)
(* sample keeps the items with the greatest priorities of all offered,     *)
(* across its rescalings.                                                  *)
THEOREM QueuesAreSound ==
  ASSUME InRange
  PROVE  MetersSpec => QueuesSound
<1>1. SampleInv /\ MetricsInv
        => Sample!KeepsGreatest /\ Sample!StaysHeap /\ Heap!SameMembers /\ Heap!HeapOrdered
  BY InRange, SampleIsSound, HeapIsSound DEF MetricsInv
<1>2. MetricsInv /\ [MetersNext]_<<meter, vars, timer, sample, heap, registry>>
        => [popped' # popped => \A e \in members : ~Heap!Less(e, popped'[1])]_<<content, members, popped>>
  BY StepsOfOne, HeapStep DEF MetricsInv
<1> QED BY <1>1, <1>2, MetricsInvariance, SampleInvariance, PTL
        DEF MetersSpec, QueuesSound, Heap!PopsLeast, Heap!vars

(* For every set of kinds of meters: each snapshot that is sent has every  *)
(* registered meter in it, whole, and the demand of the subscriber is      *)
(* spent on just the ones that are sent.                                   *)
THEOREM SnapshotsAreSound == MetersSpec => SnapshotsSound
<1>1. MetricsInv /\ [MetersNext]_<<meter, vars, timer, sample, heap, registry>>
        => [Registry!SnapshotStep]_registry
  BY StepsOfOne, SnapshotIsWhole DEF MetricsInv
<1> QED BY <1>1, MetricsInvariance, PTL DEF MetersSpec, SnapshotsSound
===============================================================================
