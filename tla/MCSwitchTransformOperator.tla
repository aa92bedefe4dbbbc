---------------------- MODULE MCSwitchTransformOperator ----------------------
(***************************************************************************)
(* Two instances of the switch-transform operator in one run: with an      *)
(* upstream that signals from inside the operator's calls and a result     *)
(* that may come late, and, `apart', with neither.                         *)
(***************************************************************************)
EXTENDS SwitchTransformOperator

VARIABLE apart

Apart == INSTANCE SwitchTransformOperator WITH
  UpstreamReenters <- FALSE, ResultLate <- FALSE

MCInit == Init /\ apart \in BOOLEAN
MCNext == IF apart THEN Apart!Next /\ UNCHANGED apart ELSE Next /\ UNCHANGED apart
MCSpec == MCInit /\ [][MCNext]_<<vars, apart>>

(* The operator itself ends the handler's input once when nothing reenters *)
(* it, without the help of the wrapper; and the end is right in any case.  *)
EndOfInputOnce == EndOfInput /\ (apart => TerminalOnce)
=============================================================================
