-------------------------- MODULE MCMetricsExporter --------------------------
(***************************************************************************)
(* Two instances of the metrics exporter in one run: with a remote that    *)
(* subscribes to the snapshots inside start(), as rsocket-core does        *)
(* (`prompt'), and with one that does so whenever it likes.                *)
(***************************************************************************)
EXTENDS MetricsExporter

VARIABLE prompt

Prompt == INSTANCE MetricsExporter WITH LazyRemote <- FALSE

MCInit == Init /\ prompt \in BOOLEAN
MCNext == IF prompt THEN Prompt!Next /\ UNCHANGED prompt ELSE Next /\ UNCHANGED prompt
(* As FairSpec: calls return and timers fire. *)
Returning == IF prompt THEN Prompt!Exporter ELSE Exporter
MCSpec ==
  /\ MCInit /\ [][MCNext]_<<vars, prompt>>
  /\ WF_vars(Returning) /\ \A c \in Channels : WF_vars(Tick(c))

(* With a remote that subscribes inside start(), the last word counts,     *)
(* however calls nest: stop is final, start connects.                      *)
LastWordCounts == prompt => StopIsFinal /\ KeepsExporting
=============================================================================
