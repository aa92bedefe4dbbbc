--------------------------- MODULE MetricsExporter ---------------------------
(***************************************************************************)
(* MetricsExporter: start() opens a channel to the remote handler; the     *)
(* remote subscribes to the exporter's snapshots and requests them; an     *)
(* interval timer sends one snapshot for each request.  When the remote's  *)
(* answer ends, the exporter stops and starts again with a new channel.    *)
(*                                                                         *)
(* The methods keep their state in the exporter (intervalHandle,           *)
(* remoteSubscriber, remoteCancel), which every channel shares, and call   *)
(* the remote, which may call back before the call returns: a cancel or an *)
(* end that arrives inside stop() runs a stop() or a restart() of its own. *)
(* "stack" holds the activations of start() and stop() in progress:        *)
(*   "start"     inside the subscribe of start(), for the channel "of"     *)
(*   "cancel"    stop() has called remoteCancel()                          *)
(*   "complete"  stop() has called remoteSubscriber.onComplete()           *)
(* "out" says whether that call reached the remote, so that it may call    *)
(* back; "restart" whether the stop() is the one of restart().             *)
(*                                                                         *)
(* A channel is the serial number of its start(), which also names the     *)
(* stream of snapshots that the remote may subscribe to, and its timer.    *)
(* Calls of start() that throw and ticks without demand change nothing and *)
(* are left out.  So does a tick whose conversion throws, which every tick *)
(* does once a meter that does not convert has been registered ("broken"). *)
(***************************************************************************)
EXTENDS Sequences, FiniteSets, FlowableSubscriber

CONSTANTS
  LazyRemote,     \* may the remote subscribe to the snapshots after start()?
  MaxStarts,      \* bound: how many channels are opened
  MaxDemand       \* bound: how many snapshots the remote requests of a channel

ASSUME ConstantsAssumption ==
  LazyRemote \in BOOLEAN /\ MaxStarts \in Nat /\ MaxDemand \in Nat

Channels == 1..MaxStarts

VARIABLES
  intervalHandle,   \* the channel whose timer intervalHandle is, or 0
  remoteSubscriber, \* the channel whose snapshots remoteSubscriber takes, or 0
  remoteCancel,     \* the channel that remoteCancel() cancels, or 0
  starts,           \* how many channels have been opened
  open,             \* the channels whose answer has neither ended nor been cancelled
  asked,            \* the channels whose snapshots the remote has subscribed to
  stream,           \* the wrapper of the subscriber of each channel's snapshots
  pending,          \* the local "pending" of each channel's snapshots
  timers,           \* the channels whose interval timer runs
  stack,            \* the activations of start() and stop() in progress
  wanted,           \* history: has the last word been start(), not stop() or cancel?
  emitted,          \* history: how many snapshots each channel was sent
  broken            \* does the registry hold a meter that does not convert?

exporter == <<intervalHandle, remoteSubscriber, remoteCancel>>
vars == <<exporter, starts, open, asked, stream, pending, timers, stack, wanted, emitted, broken>>

Init ==
  /\ intervalHandle = 0
  /\ remoteSubscriber = 0
  /\ remoteCancel = 0
  /\ starts = 0
  /\ open = {}
  /\ asked = {}
  /\ stream = [c \in Channels |-> NewGuard]
  /\ pending = [c \in Channels |-> 0]
  /\ timers = {}
  /\ stack = <<>>
  /\ wanted = FALSE
  /\ emitted = [c \in Channels |-> 0]
  /\ broken = FALSE

Idle == stack = <<>>
Top == stack[Len(stack)]
At(place) == ~Idle /\ Top.at = place
Pop == SubSeq(stack, 1, Len(stack) - 1)

(* Between tasks, and inside a call that has reached it, the remote may act. *)
RemoteRuns == IF Idle THEN TRUE ELSE Top.out

(* start(), up to and into the subscribe; s is the rest of the stack. *)
Open(c, s) ==
  /\ starts' = c
  /\ open' = open \cup {c}
  /\ remoteCancel' = c
  /\ stack' = Append(s, [at |-> "start", of |-> c, out |-> TRUE, restart |-> FALSE])

(* Mutant of Close: stop() leaves the remote's answer alone. *)
CloseLocally(o, restart) ==
  /\ open' = o
  /\ stack' = Append(stack, [at |-> "cancel", of |-> 0, out |-> FALSE,
                             restart |-> restart])

(* stop(), up to and into remoteCancel(), with the channels o open. *)
Close(o, restart) ==
  /\ open' = o \ {remoteCancel}
  /\ stack' = Append(stack, [at |-> "cancel", of |-> 0, out |-> remoteCancel \in o,
                             restart |-> restart])

-----------------------------------------------------------------------------
(* The application. *)

Start ==
  /\ Idle
  /\ intervalHandle = 0
  /\ starts < MaxStarts
  /\ Open(starts + 1, stack)
  /\ wanted' = TRUE
  /\ UNCHANGED <<intervalHandle, remoteSubscriber, asked, stream, pending, timers,
                 emitted, broken>>

Stop ==
  /\ Idle
  /\ Close(open, FALSE)
  /\ wanted' = FALSE
  /\ UNCHANGED <<exporter, starts, asked, stream, pending, timers, emitted, broken>>

(* A meter whose type convert() refuses is registered, to stay. *)
UnconvertibleMeter ==
  /\ broken' = TRUE
  /\ UNCHANGED <<exporter, starts, open, asked, stream, pending, timers, stack, wanted,
                 emitted>>

-----------------------------------------------------------------------------
(* The rest of start() and stop(). *)

(* rsocket-core subscribes to the payloads of a channel from inside the     *)
(* request that start() makes; a lazy remote may do so later.               *)
StartReturns ==
  /\ At("start")
  /\ LazyRemote \/ Top.of \in asked \/ Top.of \notin open
  /\ stack' = Pop
  /\ UNCHANGED <<exporter, starts, open, asked, stream, pending, timers, wanted,
                 emitted, broken>>

StopCompletes ==
  /\ At("cancel")
  /\ LET rs == remoteSubscriber
         reaches == rs # 0 /\ stream[rs].active
     IN /\ stream' = IF reaches THEN [stream EXCEPT ![rs] = Closed(@)] ELSE stream
        /\ stack' = Append(Pop, [Top EXCEPT !.at = "complete", !.out = reaches])
  /\ UNCHANGED <<exporter, starts, open, asked, pending, timers, wanted, emitted, broken>>

(* Mutant of Cleared: the timer is not cleared. *)
TimerForgotten ==
  /\ remoteSubscriber' = 0
  /\ intervalHandle' = 0
  /\ UNCHANGED timers

Cleared ==
  /\ remoteSubscriber' = 0
  /\ intervalHandle' = 0
  /\ timers' = timers \ {intervalHandle}

StopReturns ==
  /\ At("complete")
  /\ ~Top.restart
  /\ Cleared
  /\ stack' = Pop
  /\ UNCHANGED <<remoteCancel, starts, open, asked, stream, pending, wanted, emitted, broken>>

Restart ==
  /\ At("complete")
  /\ Top.restart
  /\ Cleared
  /\ Open(starts + 1, Pop)
  /\ UNCHANGED <<asked, stream, pending, wanted, emitted, broken>>

-----------------------------------------------------------------------------
(* The remote, and the timer. *)

(* The remote subscribes to the snapshots of a channel, once; while a timer *)
(* runs it gets an error instead.                                           *)
SnapshotsSubscribed(c) ==
  /\ RemoteRuns
  /\ c <= starts
  /\ c \notin asked
  /\ LazyRemote \/ c \in open
  /\ asked' = asked \cup {c}
  /\ IF intervalHandle # 0
     THEN UNCHANGED <<intervalHandle, remoteSubscriber, stream, timers>>
     ELSE /\ remoteSubscriber' = c
          /\ intervalHandle' = c
          /\ timers' = timers \cup {c}
          /\ stream' = [stream EXCEPT ![c] = Started(@)]
  /\ UNCHANGED <<remoteCancel, starts, open, pending, stack, wanted, emitted, broken>>

SnapshotsRequested(c, n) ==
  /\ RemoteRuns
  /\ stream[c].active
  /\ emitted[c] + pending[c] + n <= MaxDemand
  /\ stream' = [stream EXCEPT ![c] = Asked(@, n)]
  /\ pending' = [pending EXCEPT ![c] = @ + n]
  /\ UNCHANGED <<exporter, starts, open, asked, timers, stack, wanted, emitted, broken>>

SnapshotsCancelled(c) ==
  /\ RemoteRuns
  /\ stream[c].active
  /\ stream' = [stream EXCEPT ![c] = Closed(@)]
  /\ remoteSubscriber' = 0
  /\ Close(open, FALSE)
  /\ wanted' = FALSE
  /\ UNCHANGED <<intervalHandle, remoteCancel, starts, asked, pending, timers, emitted, broken>>

Restarts == Cardinality({i \in 1..Len(stack) : stack[i].restart})

(* onComplete or onError of the remote's answer. *)
AnswerEnded(c) ==
  /\ RemoteRuns
  /\ c \in open
  /\ starts + Restarts < MaxStarts
  /\ Close(open \ {c}, TRUE)
  /\ UNCHANGED <<exporter, starts, asked, stream, pending, timers, wanted, emitted, broken>>

(* Mutant of Tick: a snapshot that is sent is not counted. *)
TickUncounted(c) ==
  /\ Idle
  /\ c \in timers
  /\ pending[c] > 0
  /\ ~broken
  /\ IF PassesNext(stream[c])
     THEN /\ stream' = [stream EXCEPT ![c] = TookNext(@)]
          /\ emitted' = [emitted EXCEPT ![c] = @ + 1]
     ELSE UNCHANGED <<stream, emitted>>
  /\ UNCHANGED <<exporter, starts, open, asked, pending, timers, stack, wanted, broken>>

Tick(c) ==
  /\ Idle
  /\ c \in timers
  /\ pending[c] > 0
  /\ ~broken
  /\ pending' = [pending EXCEPT ![c] = @ - 1]
  /\ IF PassesNext(stream[c])
     THEN /\ stream' = [stream EXCEPT ![c] = TookNext(@)]
          /\ emitted' = [emitted EXCEPT ![c] = @ + 1]
     ELSE UNCHANGED <<stream, emitted>>
  /\ UNCHANGED <<exporter, starts, open, asked, timers, stack, wanted, broken>>

-----------------------------------------------------------------------------
Application == Start \/ Stop \/ UnconvertibleMeter
Exporter == StartReturns \/ StopCompletes \/ StopReturns \/ Restart
Remote(c) ==
  \/ SnapshotsSubscribed(c) \/ SnapshotsCancelled(c) \/ AnswerEnded(c)
  \/ \E n \in 1..MaxDemand : SnapshotsRequested(c, n)

Next == Application \/ Exporter \/ (\E c \in Channels : Remote(c) \/ Tick(c))

Spec == Init /\ [][Next]_vars

(* The event loop runs a call to its end and fires the timers that are set. *)
FairSpec == Spec /\ WF_vars(Exporter) /\ \A c \in Channels : WF_vars(Tick(c))
-----------------------------------------------------------------------------
(* Every variable has its type. *)
Places == {"start", "cancel", "complete"}
TypeOK ==
  /\ {intervalHandle, remoteSubscriber, remoteCancel, starts} \subseteq 0..MaxStarts
  /\ open \subseteq Channels
  /\ asked \subseteq Channels
  /\ stream \in [Channels -> Guards]
  /\ pending \in [Channels -> Nat]
  /\ timers \subseteq Channels
  /\ stack \in Seq([at : Places, of : 0..MaxStarts, out : BOOLEAN, restart : BOOLEAN])
  /\ wanted \in BOOLEAN
  /\ emitted \in [Channels -> Nat]
  /\ broken \in BOOLEAN

(* No timer is ever lost or doubled: whatever calls stop() and restart() in *)
(* the middle of one another, and however late the remote subscribes, the   *)
(* one timer that runs is the one that intervalHandle names.                *)
OneTimer == timers = {intervalHandle} \ {0}

(* A running timer works for a remote that listens: its stream has not been *)
(* closed, stop() can complete it, and the exporter's count of the requests *)
(* is the wrapper's, so that no snapshot it makes is thrown away.           *)
TimerHasListener ==
  Idle => \A c \in timers :
    stream[c].active /\ remoteSubscriber = c /\ stream[c].pending = pending[c]

(* At most one timer, one that is known, for a remote that listens; and     *)
(* every variable keeps its type.                                           *)
TimersSound == TypeOK /\ OneTimer /\ TimerHasListener

(* stop() and a cancel by the remote are final: nothing that their own      *)
(* calls set off opens a channel again or leaves a timer running.           *)
StopIsFinal == Idle /\ ~wanted => open = {} /\ timers = {}

(* An exporter that was started and not stopped is connected, however often *)
(* the remote's answer ended meanwhile: exactly the latest channel is open, *)
(* remoteCancel is that channel's, and its timer runs.                      *)
KeepsExporting ==
  Idle /\ wanted => open = {starts} /\ remoteCancel = starts /\ timers = {starts}

(* A snapshot that was requested is sent unless the exporter stops or       *)
(* restarts first; or a meter does not convert, with which the timer runs   *)
(* on and nothing is ever sent again, on this or on a later channel.        *)
SnapshotsFlow ==
  \A c \in Channels :
    (c \in timers /\ pending[c] > 0) ~> (pending[c] = 0 \/ c \notin timers \/ broken)
=============================================================================
