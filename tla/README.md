# rsocket-rpc-js: specifications

TLA+ specifications of the logic of `rsocket-rpc-js`: the operators that carry
the streams of an RPC service, the client's connection, the calls from
generated stub to generated server, what counts, samples, exports, traces and
encodes them, and the release script. TLC checks the modules on small
instances; TLAPS proves, for every value of the constants, the theorems of the
modules named `*_proofs`. Paths below are those of the repository, with `src/`
for its root.

## The system

JavaScript runs one thread: a method is interrupted only by what it calls. The
difficulty of this code is therefore reentrancy. Nearly every method calls the
other side (`onNext`, `request`, `cancel`, a transformer, a handler), which may
call back into the same object before it returns. Then there is the order in which independent
events come: the signals of the two ends of a stream, the timer, the connection.

| Component | State | Operations | Interacts with |
|---|---|---|---|
| `core/QueuingFlowableProcessor` | `_once`, `_actual`, `_requested`, `_queue`, `_wip`, `_cancelled`, `_done`, `_error`, `_transformers` | `subscribe`, `request`, `cancel`, `map`; `onSubscribe`, `onNext`, `onError`, `onComplete`; `drain` | calls the subscriber and the transformers from `drain`; asks its upstream once |
| `core/SwitchTransformOperator` | `_subscription`, `_first`, `_inner`, `_done`, `_error`, `_canceled` | `onSubscribe`, `onNext`, `onError`, `onComplete`; `subscribe`, `request`, `cancel`, `map` | upstream, handler (transformer and inner subscriber), requester (outer) |
| `core/RequestHandlingRSocket` | the services by name | `addService`, dispatch of the interaction models | the services; a switch-transform operator for each channel |
| `core/RpcClient`, `RpcSocket` | `_connection`, the machine | `connect`, `close`; SETUP and KEEPALIVE | transport and its connection status |
| `metrics/MetricsExporter` | `intervalHandle`, `remoteSubscriber`, `remoteCancel`; per stream `pending` | `start`, `stop`, restart, the snapshot stream, the timer, the conversion of meters | the generated client; the registry |
| `metrics` meters and registry | counts, rates, histogram figures, samples; the map of meters | `mark`, `inc`, `dec`, `update`, `registerMeter` | exporter, wrappers |
| `metrics/stats` | sample values, heap, moving average | `update`, `tick`, `push`, `pop`, `remove` | histogram |
| `metrics` wrappers (`MetricsSubscriber`, `MetricsSingleSubscriber`, `Metrics`) | counters, start time | signals and cancels passed on and counted | generated clients and servers |
| `tracing` (`SpanSubscriber`, `SpanSingle`, `Tracing`) | the span; the trace map and its buffer | signals passed on and logged; the span finished | generated clients and servers |
| `frames/Metadata` | none | `encodeMetadata`, `getService`, `getMethod`, ... | every call |
| `rsocket-rpc-protobuf` generator, generated `metrics_rsocket_pb.js` | none in the generator; a processor per channel in the generated server | prints clients and servers | all of the above |
| `resources/bumpVersion.js` | `versions.json`, the `package.json` files | bumps a package and what depends on it | npm |

Behaviours that are hard, and what makes each component correct:

- *Queuing processor*: calls from inside the loop, calls while the loop ends,
  cancel in the middle, an end before or without demand, exceptions, overflow.
  Correct means: one loop, demand never exceeded, order kept, nothing lost, the
  end last, and no wakeup lost.
- *Switch-transform operator*: the first payload is held while the handler is
  chosen; the upstream's end, the handler's requests and its late or failing
  answer can come at any of the points where the operator has called out.
  Correct means: the handler sees the whole input in order and its end last,
  its demand is what the upstream is asked for, and the requester is answered.
- *Exporter*: `stop` and `restart` run inside one another. Correct means: one
  timer, for a stream that listens; stop is final; a started exporter stays
  connected.
- *Client*: the connection's status crosses subscription, cancel and `close`, and the
  transport tells its listeners in loops that nest. Correct means: no
  socket for who cancelled, none on a lost connection, an outcome for everyone.
- *Calls*: client, server and registration change apart; a cancel crosses the
  request, the values and the answer; the client cannot decode. Correct means: nothing is left
  running for a client that is through, and the client is told the server's outcome.
- *Meters, samples, heap*: wrap-around, zero, negative, NaN, ties, rescaling.
  Correct means: counts and figures that stand for the events.
- *Wrappers*: a cancel crosses an end, callbacks throw. Correct means: one outcome is counted
  when nothing crosses, an end once in any case, and the span is finished as often as that.
- *Frames, trace map*: 16-bit lengths. Correct means: what was encoded decodes
  to itself.
- *Release script*: cycles of packages, death in the middle. Correct means:
  dependents follow, and a run that died can be done again.

`PROJECT.json` lists the hazards one by one at their lines, with the properties
that would catch them.

## Modules

| Module | What it is | Theorems |
|---|---|---|
| `DemandQueue` | abstract: a queue that hands values out in order, against demand, until it is closed or cancelled | |
| `QueuingFlowableProcessor` | the processor, statement by statement; implements `DemandQueue` | `QueuingFlowableProcessor_proofs` |
| `FlowableSubscriber` | the wrapper that rsocket-flowable (outside the repository) puts around each subscriber | |
| `SwitchTransformOperator` | the operator between upstream, handler and requester; uses `FlowableSubscriber` | `SwitchTransformOperator_proofs` |
| `RpcClient` | `connect()`, the connection Single, `close()`, the sockets, and the transport as the code uses it | `RpcClient_proofs` |
| `RpcCall` | calls over the wire: stub, metadata, dispatch by `RequestHandlingRSocket`, generated server, answer, span | `RpcCall_proofs` |
| `ChannelServer` | a channel of the generated metrics server; uses `DemandQueue`, the contract of the processor inside it | `ServerInput_proofs` |
| `StreamObserver`, `SingleObserver` | the metrics and the span wrapper, chained as in generated code, around a stream and around single answers | `Metrics_proofs` |
| `MetricsExporter` | the exporter, the remote handler and the timer | `MetricsExporter_proofs` |
| `MeterExport` | the registry and the conversion of its meters to snapshots | `Metrics_proofs` |
| `Counter` | counter and base meter: the count, its wrap-around, the moving average's uncounted events | `Metrics_proofs` |
| `Histogram` | timer and histogram: count, minimum, maximum, sum, means, percentiles of the uniform sample | `Metrics_proofs` |
| `BinaryHeap`, `PriorityQueue` | the heap as operators on sequences, and as a queue of elements | `Metrics_proofs` |
| `ExponentiallyDecayingSample` | the sample with its rescaling; uses `BinaryHeap` | `Metrics_proofs` |
| `Frames` | metadata as bytes, with two-byte lengths in a base | `ServerInput_proofs` |
| `TraceContext` | the trace map written to and read from a buffer; extends `Frames` | `ServerInput_proofs` |
| `BumpVersion` | the release script, its files, npm and the death of the process | `BumpVersion_proofs` |
| `MC...` | instances for TLC | |

`MCMeters`, `MCObservers` and `MCServerInput` check several components in one run. The
parts share no state, and each behaviour has one of them (`part`, `meter`), so nothing is interleaved
that does not interact. `MCSwitchTransformOperator` and `MCMetricsExporter`
do the same with two settings of one module (`apart`, `prompt`).

Definitions marked as mutants are not part of a specification: each is a faulty
variant of the definition after it, used to see that a property notices.

### QueuingFlowableProcessor

The variables are the fields, `actual` and `error` reduced to whether they are
set. `stack` holds the activations of `drain()`: their place (`while`: about to
test the loop condition; `map`: in the transformers; `next`, `end`: in the
subscriber) and their locals `r`, `e`, `v`. Each public method is one action up to
and including the head of `drain` (`Drain`), since nothing can happen between. The loop
is cut at the calls to user code: `DrainCancelled`, `DrainTerminate`,
`DrainTake`, `DrainEmit`, `DrainTail` run when the top activation is at its
place; `NextReturns`, `EndReturns`, `CallbackThrows` end a callback. While the
top activation is in a callback, or none exists, `UserCode` allows every public
method. So a second activation *can* be pushed in the model, as in the code, if
`_wip` does not prevent it.

`queue.shift()` on an empty array, and on an `undefined` value, which the code
cannot tell from emptiness, are both modelled (`NoValue`). `accepted`,
`demanded`, `delivered`, `sent`, `outcome`, `upstream` are history.

The upstream calls `onSubscribe` at most once, sends nothing after its end, and
sends without regard to demand. The subscriber requests, cancels and
maps at any time, also after the end. The calls that only throw (second
`subscribe`, `request(n <= 0)`, `onNext(null)`) change nothing and are left out,
and an error is never `null` or `undefined`. A bounded processor asks its
upstream for its capacity once and never again.

`thrown` is the history of whether an exception has left `drain()`. The activation
takes its `_wip` with it, so the processor is mute from then on: `ExceptionIsFinal` says that of every step, whatever
is requested, sent or ended.

`DemandQueue` is implemented with `delivered` refined by what the loop has
taken off the queue as a value, `closed` by `_done` and `_error`, `subscribed`
by `_once`; the rest has the same name. Steps that only move the loop are stutters.

### SwitchTransformOperator

The operator, as `RequestHandlingRSocket.requestChannel` and the servers of
`js_generator.cc` use it. `up`, `in`, `out` are the wrappers in front of the
operator, the handler and the requester; they are part of the behaviour, since
they drop signals after an end and values without demand. `stack` holds the
activations that are inside a call of the handler: the transformer, `inner.onNext`
of the first payload, the end after it. Other methods run without interruption.
`UpstreamReenters` lets the upstream signal inside those activations, `ResultLate` lets
the handler's answer call `outer.onSubscribe` later, `HandlerThrows` lets the
transformer throw before or after it subscribed to its input.

An exception in the handler's `onNext` is turned into a cancel by the wrapper. A
second subscription to the input gets an error of its own and changes nothing.
A handler that answers after the input ended subscribes through the wrapper,
which has remembered the end. The handler's requests come through the `Flowable` that is made around `subscribe`
(`SwitchTransformOperator.js:99`), which refuses amounts above `MAX_REQUEST_N`, so the cap in `request` (line 168) is met only
with equality.

### RpcClient

`status` is the transport's, `listening` its listeners, `calls` the stack of calls in progress:
the transport's loop over a snapshot of its listeners (`notify`), a subscriber's
callback, `onSubscribe`. A subscriber may cancel, `close()` may be called and the
next subscriber may subscribe in any callback, so loops that tell different statuses nest. Each subscription of the
connection Single connects the transport, which refuses all but the first; a second
subscriber is told that error, or, when its listener sees the first one's
connection, given a socket of its own, and SETUP is sent twice on one
transport. That also happens for one who was told the error: the listener stays, since `transport.connect()` throws
inside `onSubscribe` and only a settled status cancels it (`RpcClient.js:75`, `:90`). `SetupsExplained` allows just this socket
beside those of the subscribers that were given one. `connect()` itself says "RpcClient: Unexpected call to connect(), already
connected." whenever a Single exists, also after a failure (`RpcClient.js:65`).

### RpcCall

One action per interaction model at the server (`FireAndForget`,
`RequestResponse`, `RequestStream`, `RequestChannel`), with dispatch by service, by method,
the handler and the wrappers that the generator prints around it; `Stub` makes the span first and then the metadata.
`wire` is a set: frames of different calls overtake one another, and a cancel may pass a reply, but not its own
request. A stream or channel has values on the way (`next` frames), and a client that cannot decode one, or the
single answer, is told an error (`Undecodable`, `ClientNext`): it cancels a stream, which goes on at the server until the cancel is there. Foreign clients send calls of a method that the server does not offer, or without
metadata. Services are added at any time, also while calls are under way; replacing a service by another of its name is left out.

The code treats the four kinds differently, and so does the model: a handler that throws
answers with an error in `requestResponse`, and in `requestChannel` unless it has subscribed to its input before: then the
operator tells that input, or nobody while the first payload is held, and the requester hears nothing
(`SwitchTransformOperator.js:119`). In `requestStream` the
exception leaves `subscribe()` and the caller gets no frame. Both are `escaped` in the model, with the span still open. In `fireAndForget`
it reaches a subscriber without `onError`.

### ChannelServer

The variables of `DemandQueue` are the processor's. The first payload picks the handler, which may subscribe to
the processor at any time after. `AnsweredByPayload` says what the code does with a channel that ends before
its first payload: the requester is subscribed to nothing. The payloads are decoded by a `map` that runs inside `drain()`; one that does not
decode (`DecodingThrows`) leaves the processor `mute`.

### StreamObserver, SingleObserver

Signals pass source, span, metrics, subscriber; `lift()` puts no guard between
them, only rsocket-flowable's guard in front of the subscriber. `Crossing`
lets a source go on for a while after a cancel, `ThrowsIn` names the callbacks that throw.
For single answers there is a guard at each layer and the calls of a method share their meters;
the start time is set in `onSubscribe`, so that a timer is updated with NaN
when a signal comes without it, which the model counts. A stream whose subscriber throws in
`onSubscribe` is left running at its source, with its span open. A single answer's subscriber that throws in `onSubscribe`, and
again in the `onError` that tells it so, is caught by the guard before the metrics, which count an error of a call that
goes on (`CaughtInside`).

### MetricsExporter, MeterExport

A channel is the serial number of its `start()`; it names the remote's answer
(`open`), the snapshot stream (`asked`, `stream`, `pending`) and the timer.
`start()` and `stop()` are cut where they call the remote: `Start`/`Restart` up to
the subscribe, `StartReturns`; `Close` up to `remoteCancel()`, `StopCompletes` up to
`remoteSubscriber.onComplete()`, then `StopReturns` or, in a restart, `Restart`.
Inside a call that has reached it, and between tasks, the remote may subscribe
to the snapshots, request, cancel, or end its answer; the timer and the application act
only between tasks. rsocket-core subscribes to the payloads of a channel
inside the request that `start()` makes; `LazyRemote` is any handler that does not. The application may register a meter that does not
convert (`UnconvertibleMeter`): from then on each tick throws before it sends anything (`broken`).

`MeterExport` has what a tick sends. A meter of a kind that the code does not convert
throws, and the snapshot with it, so a tick sends all meters or nothing. Clock skew and
batch size are ignored by the code and left out.

### Counter, Histogram, the samples, BinaryHeap

Counts wrap at `MAX_COUNTER_VALUE`, 2^32 in the code. `mark(0)` counts as one event (`n || 1`).
Amounts are of either sign, up to one more than the maximum: of a larger one the code subtracts the maximum once, and the count may stay above it.
What a moving average receives is modelled; the rates it computes are floating point and are not.
Running means and sums of squares are scaled by a multiple of all counts, so that the divisions of the code's recurrences are
exact, and compared with their definitions over all values seen. Of a priority in the decaying sample the exponent is
kept, with zero and infinity outside the range of a floating point number, so that after a long idle time
priorities become infinite or zero and no longer tell the values apart. Then rescaling does not keep the order, although the comment says "Order is unaffected"
(`ExponentiallyDecayingSample.js:105`); `MaxIdle` keeps the runs this side of that.

### Frames, TraceContext

A buffer is a sequence of digits to a base, 256 in the code; a length field has two. What does not fit
is refused by the code, as it is here. Bytes of a name stand for its UTF-8, which is external.

### BumpVersion

`stack` holds the recursion of `bumpVersion()`. The script may die between any two
file writes, and is then run again with other arguments; a file is written as a whole or not at all. (One that is torn in the
middle of `writeFileSync` is no JSON: each later run throws where it parses it, and a person has to mend it.) Packages are published in between. Of a version,
the manifest, the file, the published one and the one in memory are kept apart.

## Runs

| Run | Question | Bounds |
|---|---|---|
| `QfpContract` | Is the unbounded processor a queue with demand, with any calls from callbacks, and does everything arrive? | 3 values, demand of 3 in any portions, 1 transformer |
| `QfpFaults` | What remains when the queue overflows, a value is undefined, callbacks throw? Is the processor silent after the first exception? | capacity 2, 4 values, the second undefined |
| `SwitchTransform` | Are input, demand and end passed on whole, and is the requester answered, with everything reentrant, late and failing? Does the operator itself end the input once when its upstream does not reenter? | 4 payloads, 3 requests of 1, 2 or unbounded |
| `Exporter` | One timer, for a listener, and do snapshots flow until a meter does not convert, with any remote? With a prompt one, is stop final and a started exporter connected, however calls nest? | 3 channels, 2 snapshots each |
| `RpcClient` | Who gets a socket, for whom is one built, on which connection, and is everyone told? | 3 subscribers |
| `RpcCall` | Is anything left running for a client that is through, what is the client told, whose child is the span, is every call answered? | 2 calls, 2 services that offer one method name as different kinds |
| `Observers` | Do meters and spans say once, and rightly, what the subscriber got; do they agree, and count an end once, when signals cross a cancel and callbacks throw? | 3 values; 3 calls of one method |
| `Meters` | Are counts, figures, samples, heap and snapshots sound under any sequence of calls? | maximum 7 for 2^32, amounts from -8 to 8, histories of 12; 4 durations, 5 updates; samples of 3, times to 8; heaps of up to 8 elements, ties among them |
| `ServerInput` | Does the server get the metadata and the payloads that the client gave? | base 4, lengths to 15 and one beyond; 3 payloads of 2 kinds |
| `Release` | Do dependents follow, can what a run wrote be published, can a run that died be repeated? | 3 packages in a chain, a diamond and a cycle; 2 runs |
| `MeterExportUnit` | finding: is a timer's maximum the greatest of its exported figures? | violated |
| `ReleaseWrites` | finding: is every changed `package.json` written? | violated |

The bounds are enough for the cases at issue. Three values let one be delivered, one be in
the loop and one be queued (a fourth makes up for the undefined one); demand of three comes as one, two or three requests, before, inside and
after callbacks. `MaxWip` limits repeated cancels only: each raises `_wip` and has no
further effect. Four payloads and three requests let the handler take the first
payload, more than it, and run dry. Three channels let a restart happen inside a
restart. Three subscribers let one connect, one be refused, and one come while the
others are being told. Two calls let any frame of one overtake those of the other. A maximum of 7 is reached
and wrapped several times within the histories. Eight elements fill three levels of the heap and begin a fourth. With base 4 all
combinations of short, empty, longest and too long names and traces occur. Two runs
let the second meet all that the first left. Deadlock is not checked in any run: streams, calls and runs end, and then nothing has to happen.

What the properties except is what the code does:

- `TerminalOnce` is for upstreams that do not reenter. With
  one that ends inside `inner.onNext(first)` the operator calls `inner`'s terminal method
  twice (`SwitchTransformOperator.js:160`), and only the wrapper hides it.
- `LastWordCounts` (`StopIsFinal`, `KeepsExporting`) is for a remote that subscribes inside
  `start()`: a lazy one can start the timer after a `stop()`, and have two channels opened, since
  `start()` is guarded by the timer alone.
- `RequesterAnswered` excepts a handler that
  throws after it subscribed to its input: the requester then hears nothing.
- `Answered` of a call excepts the handler of a stream that throws when it is called, and that of a channel in the case before.
- `AllArrives` and `NoLostWakeup` except a subscriber that comes after the end of an empty stream and never requests: `subscribe()` does not drain.
- `InOrderUndropped` covers what the one upstream request asked for; beyond the capacity the code drops values silently.
- `SnapshotsFlow` excepts what comes after a meter that does not convert, `InputArrives` what comes after a payload that does not decode:
  the code sends and delivers nothing more then.
- `CountedOnceAsTold` is for sources and subscribers that keep their promises. `ObserversAgree`
  holds of all: a cancel and the end that crosses it are counted both, and the span is finished twice, since the wrappers have no
  guard; what never happens is that the meters, the timer, the span and the source disagree on how often, or that an end is counted twice.
- `SetupsExplained` allows the socket for a subscriber that the transport refused, see `RpcClient` above.
- `DemandForwarded` follows the code's saturation at `MAX_REQUEST_N`.

Two disagreements between the code and what it says have a run of their own. The maximum of a timer is
exported in milliseconds between percentiles in nanoseconds, under the label `nanoseconds`. And the release script
says that it writes the `package.json` files whose dependencies changed, but it writes those whose version did: a dependent that is ahead of
its published version has its dependency changed in memory only.

### Fairness

No subscriber, upstream, remote or application has to do anything.

- `QueuingFlowableProcessor!FairSpec`: weak fairness of the loop's steps, which run
  to the end because one thread runs them, and of the return of callbacks, which is an
  assumption on user code. `MCObservers` assumes the latter too.
- `MCMetricsExporter!MCSpec`: weak fairness of `start` and `stop` running to their end, and
  of each timer that is set, which the event loop provides.
- `RpcClient!FairSpec`: calls return, and the transport's attempt to connect ends: it has a timeout of its own.
- `RpcCall!FairSpec`: frames arrive and handlers end. Nothing of the kind is assumed of registration or cancels.
- `MCServerInput!MCSpec`: payloads arrive and the processor's loop runs; that the
  processor delivers is what `QfpContract` checks.

## Proofs

Each theorem has lemmas for the initial state and for the step, with a case for each action,
and a temporal step. None of the properties is inductive; each module's invariant adds
what the code relies on without saying it.

`QueuingFlowableProcessor_proofs`, for every capacity, every set of undefined values,
callbacks that throw or not, and every bound:

- `TypeCorrect`, `DrainsSerialised`, `DemandIsRespected`, `SilentAfterEnd`,
  `OrderIsKept` without further assumption;
- `ExceptionSilences` (`ExceptionIsFinal`) of the processor with its history of exceptions: once one has left `drain()`, `_wip` stays
  above zero with no activation left to lower it, and `_actual` stays set;
- `NothingIsLost`, `TerminalComesLast`, `WakeupsAreNotLost` for `Undefined = {}`:
  an undefined value is lost, and can hide others;
- `SubscriberIsReleased` for `~CallbacksThrow`: an exception keeps `_actual`;
- `ProcessorImplementsQueue` for both: the initial state and each step of the processor map
  to the initial state and to a step, or a stutter, of `DemandQueue`.

That `drain` never runs twice follows from `_wip`
only with the fact that an activation exists only while `_wip > 0`; that the demand
is respected needs `delivered` + what `requested` still holds to be accounted against
`demanded`, with the open activation's `e` in between, and `r <= requested`, so that a later
request cannot make the loop overrun; that `_requested` stays a natural number needs
`e <= r <= requested`. Where values must not be lost, a second invariant relates `accepted`, the values
drained, and the queue while the loop can still run. `WakeupsAreNotLost` needs the invariant that
relates the open activation's view to the calls counted in `_wip` since it read `_requested`:
if it is about to give back the last `_wip`, then no call came after it looked.

`SwitchTransformOperator_proofs`, for any number of payloads and requests and every choice of
who reenters, answers late or throws: `TypeCorrect`, `InputKeepsOrder`, `EndIsTold`,
`RequesterIsAnswered`; `EndsOnce` for `~UpstreamReenters`, without which it is false;
`InputEndsOnce` (`EndOfInputOnce`) says both of the two instances that the run has;
`DemandIsForwarded` is for `2 * MaxRequests < MAX_REQUEST_N`, so that finite requests do not add up to the
number that means unbounded. The invariant says what each activation on the stack
still owes: where a first payload is, who tells the end, and what of the handler's demand
has not been asked of the upstream yet.

`MetricsExporter_proofs`, for any number of channels, with `MaxDemand < MAX_REQUEST_N`:
`TimersAreSound` for any remote; `LastWordDoesCount` (`StopIsFinal` and `KeepsExporting`, in `LastWordCounts`) for the remote that
subscribes inside `start()`, without which it is false. Each step of that instance is one of the exporter with any remote,
so one invariant serves both. Nesting is the difficulty: the invariant says which activation of
`start` or `stop` is the latest, that only its channel may be open, and that those under it
find the fields as if they had been alone.

`RpcClient_proofs`, for any number of subscribers: `TypeCorrect` (no subscription
builds two sockets), `CancelledGetNoSocket`, `SocketsOnLiveTransport` and `TransportIsUsed` (who is sent SETUP, too). For
`SocketsOnLiveTransport` the invariant
`Loops` says that a loop which still tells an old status lies under one that tells
the present one to every listener, so that it finds no listener left. For `TransportIsUsed`, that a
connection nobody was given was made for someone who cancelled, `Heard` follows the one who made the transport
connect: until they are told or cancel they wait among its listeners, no second connecting call is on the stack, and a loop that tells of the connection
still has them before it.

`RpcCall_proofs`, for any calls, services, methods and offers, tracing on either side or both:
`NothingIsLeftRunning`, `ClientToldServersOutcome`, `SpansBelongToCalls`. The invariant
relates the frames under way to both ends: a reply is that of the server's state, a
request means that the server has none yet, and a client that is through while its handler runs has a cancel on the wire.

`Metrics_proofs`, for the wrappers and everything they count with:

- `StreamsAreCountedAsTold`, `ObserversDoAgree` (`OrderlyInv`, `FaultyInv`), for streams of any length and any set of
  callbacks that throw; that an end is counted once (`EndCountedStep`) is an invariant of its own. Inside a chain of signals the layers disagree, so the invariant says that one call in
  progress at most is of an end, and that its outcome is counted while its span is still open. `SinglesAreAccounted` (`SinglesInv`), for any set of calls, an infinite one too:
  that only finitely many of them are over at a time is part of the invariant, since the meters' sums are compared with cardinalities.
- `CountersAreSound`, for every maximum and arguments of either sign up to the maximum and one.
- `FiguresAreSound`, for any durations and sizes of the sample. The code updates mean and variance by recurrences,
  the property compares them with a second pass over all updates. The invariant is Welford's identity in whole numbers: with
  `n` updates, their sum `total` and sum of squares `squares`, the scaled mean times `n` is `Scale * total`, and the scaled sum of squared differences times `n` is
  `Scale^2 * (n * squares - total^2)`. For the sample, that no value occurs in it more often than among the
  updates; for a percentile, that it lies between the two values of the sorted sample whose ranks enclose it.
- `QueuesAreSound`, for any elements and priorities. A turn of `bubbleUp` or `sinkDown` leaves the array in order except at one
  place, and what lies around that place in order with each other; that is carried along the loops, and from the loops to
  `push`, `pop` and `remove`. The decaying sample is a heap of the items offered, of which each has the exponent of its
  time of offer less the present `startTime`; so a rescale moves all alike and the greatest stay the
  greatest. That is for `InRange` (`Threshold + MaxIdle + MaxRandom <= MaxExp`, `MaxTime <= MinExp`: exponents stay those of
  finite numbers other than zero), without which it is false.
- `SnapshotsAreSound`, for any kinds of meters, those that do not convert included.

`ServerInput_proofs`: `MetadataRoundTrip`, for every base and all names and traces that fit, over slices of
concatenated sequences; `TraceTravels` (`TraceInv`), for trace maps of any number of entries: at each turn of its loop the decoder is
at the start of an entry, and the entries before that place are just those in its map; `ChannelIsServed`
(`ChannelInv`), for any messages and any demand: what the handler has got, the processor holds and the client has sent
are prefixes of one another.

`BumpVersion_proofs`, for any packages, any dependencies between them, cycles included, any versions
and any number of runs: `ReleasesAreWhole` (`VersionsFollow`) and `RunsCanRepeat` (`RunsEndOrRepeat`). The invariant
`Owing` says that a dependent of a bumped package has the new version in its dependencies, and is bumped or ahead, unless it is
still to come in the loop of that package's activation; `NotBehind` and `Judged` order the four versions of a package.

The constants' assumptions are named in the modules and hold of the code's values; an
instance ASSUMEs them again in its `MC` module, so that TLC evaluates them.

What the loops over the heap, the sorted sample and the buffer of a trace compute is proved by induction on places and
lengths. The library's induction theorems take an operator, which these provers cannot instantiate; the proofs
take a least counterexample instead (`Climbs` and `WFMin` in `Metrics_proofs`, `LeastOf` in `ServerInput_proofs`). For that the loops are written as recursive
functions.

Model-checked only: liveness (`AllArrives`, `SnapshotsFlow`, `Answered` of the connection and of the calls, `SpansFinish`, `InputArrives`), since
the prover does neither fairness nor `ENABLED`. Each invariant and action property of a run that passes is a theorem.

## Not modelled

- `metrics/src/proto/metrics_pb.js`: generated by protoc, accessors and wire format without logic of this repository.
- Floating point: the rates of `ExponentiallyWeightedMovingAverage`, `stdDev`. What events they receive is modelled.
- The text that `js_generator.cc` prints: names, comments, imports, layout. What the printed code does is in `RpcCall`.
- `stats/lib/utils.js`, which nothing of the heap uses; interfaces (`IMeter.js`, `IMeterRegistry.js`), which are
  types; lint and build configuration.
- rsocket-core (frames, keepalive timing, the machine behind a socket), rsocket-flowable's operators, OpenTracing's tracers,
  UTF-8, npm: external; they are modelled where and as far as the code uses them.
