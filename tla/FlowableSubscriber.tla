------------------------- MODULE FlowableSubscriber -------------------------
(***************************************************************************)
(* The wrapper that rsocket-flowable puts around every subscriber of a     *)
(* Flowable (external to this repository): it lets signals through only    *)
(* between onSubscribe and the end or the cancel of the stream, and values *)
(* only against demand.  A wrapper is a record; the operators say which    *)
(* signals pass and what becomes of the wrapper.                           *)
(***************************************************************************)
EXTENDS Naturals

MAX_REQUEST_N == 2147483647

Guards == [started : BOOLEAN, active : BOOLEAN, pending : Nat]

NewGuard == [started |-> FALSE, active |-> FALSE, pending |-> 0]

(* Only the first onSubscribe counts. *)
Started(g) ==
  IF g.started THEN g ELSE [started |-> TRUE, active |-> TRUE, pending |-> 0]

PassesNext(g) == g.active /\ g.pending > 0

(* Demand without bound is never used up. *)
TookNext(g) ==
  IF g.pending = MAX_REQUEST_N THEN g ELSE [g EXCEPT !.pending = @ - 1]

(* Requests before onSubscribe, after the end and after a cancel are ignored. *)
Asked(g, n) ==
  IF ~g.active THEN g
  ELSE IF MAX_REQUEST_N \in {n, g.pending} THEN [g EXCEPT !.pending = MAX_REQUEST_N]
  ELSE [g EXCEPT !.pending = @ + n]

(* A terminal signal that passes, and a cancel, close the wrapper. *)
Closed(g) == [g EXCEPT !.active = FALSE]
=============================================================================
