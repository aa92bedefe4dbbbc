----------------------------- MODULE MCObservers -----------------------------
(***************************************************************************)
(* The observers of streams and of single answers in one run.  They share  *)
(* no state, so each behaviour has one of them: a stream whose source and  *)
(* subscriber keep their promises, one whose signals cross a cancel and    *)
(* whose callbacks throw, or the single calls of a method, with and        *)
(* without error handlers that throw.                                      *)
(***************************************************************************)
EXTENDS Naturals, Sequences, FiniteSets

CONSTANTS Call, MaxValues, StreamThrows, SingleThrows

VARIABLES
  part,  \* "orderly", "faulty", "single" or "mild"
  source, guard, demand, emitted, counts, finished, told, calls,
  future, timedFrom, meters, spans, outcomes, stack

Orderly == INSTANCE StreamObserver WITH
  Crossing <- FALSE, ThrowsIn <- {}
Faulty == INSTANCE StreamObserver WITH
  Crossing <- TRUE, ThrowsIn <- StreamThrows
Single == INSTANCE SingleObserver WITH
  ThrowsIn <- SingleThrows, counts <- meters, finished <- spans, told <- outcomes
Mild == INSTANCE SingleObserver WITH
  ThrowsIn <- SingleThrows \ {"onError"}, counts <- meters, finished <- spans, told <- outcomes

ASSUME ObserversAssumption ==
  Orderly!ObserverAssumption /\ Faulty!ObserverAssumption /\ Single!ThrowsAssumption

stream == <<source, guard, demand, emitted, counts, finished, told, calls>>
single == <<future, timedFrom, meters, spans, outcomes, stack>>

MCInit == part \in {"orderly", "faulty", "single", "mild"} /\ Orderly!Init /\ Single!Init

MCNext ==
  /\ UNCHANGED part
  /\ \/ part = "orderly" /\ Orderly!Next /\ UNCHANGED single
     \/ part = "faulty" /\ Faulty!Next /\ UNCHANGED single
     \/ part = "single" /\ Single!Next /\ UNCHANGED stream
     \/ part = "mild" /\ Mild!Next /\ UNCHANGED stream

MCSpec ==
  /\ MCInit /\ [][MCNext]_<<part, stream, single>>
  /\ WF_stream(Faulty!CallbackEnds) /\ WF_single(Single!CallbackEnds)

(* The meters of an orderly stream say once what its subscriber got.       *)
CountedOnceAsTold == part = "orderly" => Orderly!CountedOnceAsTold

(* Span, meters and source agree whatever throws and crosses.              *)
ObserversAgree == Faulty!ObserversAgree

(* Each single call is accounted for once.                                 *)
SinglesAccounted == IF part = "mild" THEN Mild!SinglesAccounted ELSE Single!SinglesAccounted

(* No span of a stream or a call that is over stays open.                  *)
SpansFinish == Faulty!SpanFinishes /\ Single!SpanFinishes
=============================================================================
