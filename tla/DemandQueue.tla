----------------------------- MODULE DemandQueue -----------------------------
(***************************************************************************)
(* What a queuing processor promises to the two parties it stands between: *)
(* a publisher that offers values and finally closes, and one subscriber   *)
(* that asks for values and may cancel.  No queue, no drain loop and no    *)
(* call stack here: values come out one at a time, in the order they were  *)
(* taken in, never more of them than were asked for; the terminal signal   *)
(* comes after the last value, once; nothing comes out after a cancel.     *)
(***************************************************************************)
EXTENDS Naturals, Sequences

CONSTANT Values     \* what a publisher may offer

VARIABLES
  accepted,         \* the values taken in, oldest first
  closed,           \* "open", or how the publisher ended: "complete", "error"
  subscribed,       \* has the subscriber subscribed?
  demanded,         \* how many values the subscriber has asked for so far
  cancelled,        \* has the subscriber cancelled?
  delivered,        \* the values handed out, oldest first
  outcome           \* the terminal signal handed out, or "none"

vars == <<accepted, closed, subscribed, demanded, cancelled, delivered, outcome>>

Init ==
  /\ accepted = <<>>
  /\ closed = "open"
  /\ subscribed = FALSE
  /\ demanded = 0
  /\ cancelled = FALSE
  /\ delivered = <<>>
  /\ outcome = "none"

Offer(v) ==
  /\ closed = "open"
  /\ accepted' = Append(accepted, v)
  /\ UNCHANGED <<closed, subscribed, demanded, cancelled, delivered, outcome>>

Close(how) ==
  /\ closed = "open"
  /\ closed' = how
  /\ UNCHANGED <<accepted, subscribed, demanded, cancelled, delivered, outcome>>

Subscribe ==
  /\ ~subscribed
  /\ subscribed' = TRUE
  /\ UNCHANGED <<accepted, closed, demanded, cancelled, delivered, outcome>>

Ask ==
  /\ subscribed
  /\ demanded' \in Nat
  /\ demanded' > demanded
  /\ UNCHANGED <<accepted, closed, subscribed, cancelled, delivered, outcome>>

Cancel ==
  /\ subscribed
  /\ cancelled' = TRUE
  /\ UNCHANGED <<accepted, closed, subscribed, demanded, delivered, outcome>>

Live == ~cancelled /\ outcome = "none"

Deliver ==
  /\ Live
  /\ Len(delivered) < demanded
  /\ Len(delivered) < Len(accepted)
  /\ delivered' = Append(delivered, accepted[Len(delivered) + 1])
  /\ UNCHANGED <<accepted, closed, subscribed, demanded, cancelled, outcome>>

Terminate ==
  /\ Live
  /\ subscribed
  /\ closed # "open"
  /\ delivered = accepted
  /\ outcome' = closed
  /\ UNCHANGED <<accepted, closed, subscribed, demanded, cancelled, delivered>>

Next ==
  \/ \E v \in Values : Offer(v)
  \/ \E how \in {"complete", "error"} : Close(how)
  \/ Subscribe
  \/ Ask
  \/ Cancel
  \/ Deliver
  \/ Terminate

Spec == Init /\ [][Next]_vars
=============================================================================
