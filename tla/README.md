# A TLA+ model of Envoy Mobile

Envoy Mobile runs an Envoy proxy inside a mobile application. Application
threads open HTTP streams through a Kotlin or Swift interface; a bridge (JNI, or
Objective-C blocks) turns each call into a C call; the C call posts a closure to
Envoy's main thread; and what comes back travels the same way in reverse, on the
main thread first and then on an executor or dispatch queue that the application
chose. Nearly everything that can go wrong is an order: of threads, of posted
closures, of callbacks, of the destruction of the objects they refer to.

This directory models that machinery, checks it with TLC on small instances, and
proves the most important results with TLAPS for all values of the constants.
Paths below are relative to the repository unless they name a module.

## Inventory

| Part | State | Operations | Talks to |
|---|---|---|---|
| **HTTP dispatcher** (`library/common/http/dispatcher.{h,cc}`) | `init_queue_`, `event_dispatcher_`, `streams_`, a `DirectStream` and its callbacks per stream, counters | `startStream`, `sendHeaders/Data/Trailers`, `cancelStream`, `ready`; the encoder callbacks; `resetStream` | Envoy's event loop and connection manager; the platform's callbacks |
| **Engine and C interface** (`engine.{h,cc}`, `main_interface.cc`) | `strong_engine_`, `engine_`, `main_common_`, `server_`, `client_scope_`, `mutex_`, `cv_`, the main thread | `run_engine`, `terminate_engine`, stream calls, `record*`, `run`, `~Engine` | dispatcher, Envoy's server |
| **Platform bridge filter** (`extensions/filters/http/platform_bridge`) | `iteration_state_`, pending headers and trailers, `*_complete_` | `decode*`, `encode*`, `resumeDecoding/Encoding`, `onResume*`, `onDestroy` | Envoy's filter manager, a platform filter |
| **Assertion filter** (`extensions/filters/http/assertion`) | match statuses | `decode*`, `encode*` | Envoy's matchers, local replies |
| **JVM stream bridge** (`library/java`, `library/common/jni`) | a global reference per stream, the header accumulator, tasks on an `Executor` | `startStream`, `send*`, `cancel`, native callbacks | C interface, application |
| **iOS stream bridge** (`EnvoyHTTPStreamImpl.m`) | `_strongSelf`, `ios_context`, blocks on a queue | `initWithHandle`, `send*`, `cancel`, native callbacks, `cleanUp`, `dealloc` | C interface, application |
| **gRPC framing** (`library/kotlin/.../grpc`, `library/swift/src/grpc`) | the buffered bytes and the processor's state | `sendMessage`, `processData` | stream interface |
| **Filter bridging** (`jni_interface.cc`, `JvmFilterContext.java`, `EnvoyEngineImpl.m`, `Filter.kt`, `Filter.swift`) | native copies of frames, contexts of callbacks, function pointers | conversion of frames and statuses in both directions, `set_*_callbacks`, `release_callbacks`, `release_filter` | platform bridge filter, application filters |
| **Network preference** (`set_preferred_network`, `setDestinationCluster`, `AndroidNetworkMonitor.java`, `EnvoyNetworkMonitor.m`) | one atomic, one monitor | `load`, `startReachabilityIfNeeded`, the monitors' handlers, set; read when headers are sent | dispatcher, operating system |
| **Native resource registry** (`EnvoyNativeResourceRegistry.java`) | phantom references, a thread | `register`, release | JVM garbage collector |
| **Platform API registry** (`common/api/external.cc`) | one map | `registerApi`, `retrieveApi` | engine configuration |
| **Configuration, builders, statistics names, header copies** | none that outlives a call | | |

What makes each modelled part correct:

* *dispatcher*: nothing posted is lost, doubled or overtaken, also around
  `ready`; a stream has at most one terminal callback, however its end, a reset
  and a cancellation interleave; a cancellation brings one; objects are not used
  after they are freed, and are freed; an error report carries what the reply said;
* *engine*: calls never touch an engine that is being destroyed, `~Engine`
  finishes from every stage of construction;
* *platform bridge filter*: frames reach the next filter once, in order, with the
  end of the stream last; no legal platform filter runs into an abort; what a
  filter is shown at resumption is what has not been forwarded;
* *assertion filter*: exactly the streams that break a rule are answered;
* *bridges*: the context outlives the callbacks and is then freed, the
  application hears what was emitted in that order;
* *filter bridging*: the next filter is given what the application answered, and
  every native copy is owned by somebody or released;
* *network preference*: one monitor is built, and when the network stops changing
  the preference and new streams settle on the active network;
* *gRPC*: messages are read as they were framed, however the bytes are cut.

`PROJECT.json` lists the hazards at their lines, with the properties that
concern them.

## Modules

`HttpDispatcher`
: The dispatcher between the C functions and the connection manager. A C call is
  two steps, taking the decision to call and `post` (under `ready_lock_`);
  `ready` is three (lock, drain, publish). The main thread runs one closure, one
  step of the connection manager or one clearing of the deferred-deletion list at
  a time, which is what Envoy's event loop does. `hcm` and the deletion lists are
  external. A frame is its kind and its end flag; a response's headers are what
  `encodeHeaders` reads of them (`Replies`).

`StreamContract`, `PostQueue`
: What `c_types.h` promises of one stream (idle, open, then one terminal
  callback and silence), and what `post` promises (one FIFO queue; the hand-over
  inside `ready` is invisible). `HttpDispatcher` implements both by refinement
  mappings.

`Engine`
: `run_engine` to the end of `~Engine`. A step ends where another thread can
  look: at a lock, a shared variable or a blocking call. `pins` are the
  `shared_ptr`s of calls in flight; the last reference to go runs the destructor
  on its own thread. `server_` and `client_scope_` are read without a lock, so a
  test may also see the older value. Streams are counters here: `HttpDispatcher`
  has the details.

`PlatformBridgeFilter`
: `decode*` and `encode*` share their code, so actions take the path as a
  parameter, and so does the state, except `iteration_state_`, which the code
  shares. The filter manager is external: it holds back headers and trailers,
  buffers data and forwards them in `commonContinue`; its buffer stays allocated
  once it was used. The platform filter returns the data it is given and keeps, on
  each path, to the one rule of `filter.h`: `Continue` while iteration goes on,
  `ResumeIteration` when it has stopped it. It may resume after it dropped data
  (`FilterDataStatus.kt:41-47`), and with or without the pending headers
  (`filter.cc:202`); `omitted` notes the latter. `resumeDecoding` and `resumeEncoding` are
  public and called by the bridge's callbacks; because of the empty weak pointer
  (see Findings) they are actions of their own, bounded by `MaxResumes`, and
  `resume_iteration` only sets `asked`.

`FilterBridge`
: The layer above `PlatformBridgeFilter`: a frame is copied to native memory, a
  JNI function or an Objective-C function hands it to the adapter, the adapter
  turns the application's status into an array, the function takes the array
  apart, and the filter acts on the result. One `Call` is that round trip, which
  is one synchronous call on the main thread. The arrays are modelled position
  by position, because the two sides disagree about positions. `heap` is the set
  of native blocks, `fragments` those that Envoy's buffers own. An entity has a
  `form`, which a copy may change: a text is ASCII or not, and iOS counts UTF-16
  units and copies bytes; data is a whole `ByteBuffer` or a part of one by its
  position and limit, which `buffer_to_native_data` does not look at. The
  function pointers that `registerFilterFactory` of the JVM leaves unassigned are
  null or crash when the filter is created. Which interfaces an application
  implements, on which platform, is chosen in `Init`.

`NetworkPreference`
: The atomic `preferred_network_` from the monitors that write it to
  `setDestinationCluster`, which reads it. `AndroidNetworkMonitor.load` is taken
  apart at its lock, because handlers may run before `instance` is assigned; a
  handler's reading of the active network and its setting of the preference are
  two steps, because the receiver and the callback run on different threads.

`AssertionFilter`
: The handlers for headers, data and trailers on both paths. Envoy's matchers are
  external: a rule is open, satisfied or lost, and the root is a conjunction,
  whose rules may be about both paths. A local reply ends the stream.

`JvmStream`
: A thread inside `startStream`, the main thread calling back, the header
  accumulator of `JvmBridgeUtility`, and the tasks on the `Executor`, which is
  taken to run them in order, as the documented default does. `cancel` fails when
  the engine is gone.

`IosStream`
: Native callbacks that enqueue blocks, a queue that may be serial or concurrent,
  references to the stream held by the application, by `_strongSelf` and by
  blocks, and the payloads that handlers release. `initWithHandle` is three steps,
  up to the call of `start_stream`, the call, and the return, because callbacks and
  their blocks may come between the last two.

`GrpcStream`
: The processors of Kotlin and Swift, side by side and given the same chunks, as
  loops of calls that end when they must wait (`Calls` bounds them; theorem
  `ProcessingEnds` says that it never cuts one short), and `sendMessage`. Bytes
  are numbers below `Base` and the length has `LengthBytes` digits, so that every
  chunking can be enumerated.

`MC*` modules define the sets that configurations use. The `*Proofs` modules
hold the theorems of the module they are named after (`NetworkProofs`:
`NetworkPreference`); `JvmStreamProofs` also has those of `GrpcStream`, the layer
on top of a stream, whose specification is therefore called `GrpcSpec`. Definitions that begin with "Mutant" in
their comment are not used by the specifications: each is a plausible mistake in
the definition after it, and substituting it makes a property fail.

## Runs

Nine runs pass:

| Run | Checks | Bounds |
|---|---|---|
| `dispatcher` | one terminal callback, `streams_` against the connection manager, no use after deletion, order of frames, error reports and counters, both refinements, and that cancellations, frames and deletions happen | one stream, two threads, two frames each way, two cancellations |
| `engine` | references, tests without a lock, what `~Engine` dereferences, and that a shutdown ends | three threads and callbacks, four calls; construction may fail, the condition variable wake up by itself |
| `network` | one monitor; preference and clusters settle | both platforms, two engines, four kinds of network, three changes |
| `filter_request` | order, loss, end of stream, snapshots, aborts, resumption | three data frames, two resumptions, a platform filter for requests, with or without pending headers and after dropped data |
| `filter_bridge` | what the next filter is given; native memory | both platforms, every set of interfaces, headers, a data frame and trailers on each path, `ByteBuffer`s set to a part |
| `assertion_filter` | the verdict is exact, and not early | three data frames a path, a body limit of two, rules about the request, the response, and twice about both |
| `jvm_stream` | global reference, accumulator, headers in both directions, order, the end is heard | two names and values, blocks of two pairs, two maps to send |
| `ios_stream` | lifetime, order, payloads | two data frames, two cancellations, a serial queue, no handler for trailers |
| `grpc_stream` | messages are read as framed; requests are readable | three messages in both directions together, of up to two bytes |

The bounds are the smallest at which the cases of interest occur together: two
threads are enough for a call to be on each side of `ready`'s lock and of a
cancellation; two cancellations for one to be late; two frames for one to be
overtaken and three for one to be buffered, joined and forwarded; three messages for one to be complete, one cut and
one untouched in a chunk; three changes of the network for each of two handlers
to hold an outdated reading while the network has moved on. One data frame a path
is enough for `filter_bridge`: how several are joined is the business of
`PlatformBridgeFilter`, which has three. Where the argument does not depend on the number, the
theorems below remove the bound. Deadlock is not checked: all these systems may
stop when the application makes no more calls, and what must happen is stated as
liveness.

`FramesSurviveTheBridge` and `MemoryIsBalanced` name what they leave out. The
first speaks of paths that were not resumed by a status (see Findings) and allows
the two changes that the code makes (`Copied`): texts cut by iOS, and the whole
array where a `ByteBuffer` is set to a part; the second lists the blocks the code loses (`Lost`: those that
come back with a status that stops iteration, and the contexts of callbacks that
the platform did not take) and says that nothing else is. In `filter_request`,
`ForwardedInOrder` allows one frame to be doubled, that with which a filter resumes
after `StopIterationNoBuffer`, and `NothingLost` and `SnapshotIsExact` allow
headers that a `ResumeIteration` left out to stay pending; the Findings say why.
`PayloadsReleased` counts what is bridged for a callback without a handler as
leaked, and nothing else. `ShutdownEnds` names
the three ways in which a shutdown does not end well: a bad configuration, a last
reference that goes on the main thread, and a wakeup of the condition variable
that nobody asked for (`if` instead of `while` around `cv_.wait`).

Fairness is weak and only on steps of the library and the runtimes under it: a
thread inside a call goes on, the event loop takes what is posted and clears its
deletion list, `Executor`s and dispatch queues run what they were given, the
connection manager finishes a stream it has ended. The application and the
upstream server are never obliged to do anything. `ShutdownEnds` therefore
needs an application that has called `terminate_engine`, and `FramesDelivered`
says nothing about answers. A notified handler of the network monitors runs; that
the operating system notifies every registered handler after each change is
assumed. `StreamsFollowTheNetwork` has the
network's own end of changes as its premise.

## Findings

Three runs are spent on statements of the repository that the code does not keep
and that matter most; `PROJECT.json` quotes the lines.

| Run | What happens |
|---|---|
| `filter_shared_state` | the request and the response share `iteration_state_`: a stop on one path makes a legal continue on the other abort |
| `network_android` | the Android monitor has the numbers of WLAN and WWAN the other way round: on Wi-Fi, streams are routed to `base_wwan` |
| `filter_resume_result` | the adapters write the array of a `ResumeIteration` as headers, data, trailers; the bridges read the entity first. Resuming from data crashes on both platforms; resuming from trailers crashes on iOS and, on the JVM, replaces the trailers by the headers where it does not crash |

The modules state further sentences of the documentation. Each fails, and TLC
shows how when the property is checked with the change to the configuration that
the table names.

| Property | Says | Configuration | What happens |
|---|---|---|---|
| `HttpDispatcher!ActiveStreamFreedFirst` | `dispatcher.h:200-202` | `HttpDispatcher` | `removeStream` defers the `DirectStream` first |
| `HttpDispatcher!CompleteIsBidirectional` | `c_types.h:234` | `HttpDispatcher` | `on_complete` comes while the request is open |
| `HttpDispatcher!AtMostOneTerminal` | `c_types.h:224` | `HttpDispatcher`, `FilterMayStrip = TRUE` | a filter removes `x-envoy-upstream-service-time`, and each data frame brings an `on_error` |
| `Engine!TerminateCompletes` | `engine.cc:103` | `Engine` | after a failed construction nobody notifies `cv_`, and `~Engine` waits for ever |
| `Engine!MainMayDestruct` | `engine.cc:83` | `Engine` | the destructor joins its own thread |
| `Engine!QueuedStreamsAreServed` | `c_types.h:224` | `Engine` | a stream accepted before `ready` never ends |
| `PlatformBridgeFilter!ForwardedOnce` | `FilterDataStatus.kt:41-47` | `Filter_request` | resuming after `StopIterationNoBuffer` forwards a frame twice |
| `PlatformBridgeFilter!PendingIsHeldBack` | `AsyncRequestFilter.kt:20` | `Filter_request` | headers that were forwarded stay pending when `ResumeIteration` does not carry them |
| `PlatformBridgeFilter!AskedIsAnswered` | `RequestFilterCallbacks.kt:10` | `Filter_request`, `SPECIFICATION FairSpec` | the weak pointer behind `resume_iteration` is taken in the constructor, when nothing owns the filter, and never locks |
| `PlatformBridgeFilter!NotUsedAfterRelease` | `platform_bridge/c_types.h:137` | `Filter_request` | an `onResume*` between `onDestroy` and the deferred deletion calls the released filter |
| `FilterBridge!DataIsForwardedAsReturned` | `FilterDataStatus.kt:15` | `FilterBridge` | of a `ByteBuffer` set to a part of its bytes, the JVM forwards all of them |
| `GrpcStream!EveryPlainMessageDelivered` | `GRPCStreamPrototype.kt:129` | `GrpcStream` | a compressed message loses what follows it |
| `GrpcStream!RequestsAreReadBack` | `GRPCStream.kt:36` | `GrpcStream`, `MaySlice = TRUE` | the prefix counts the remaining bytes, the whole array is sent |
| `IosStream!NothingAfterCancel` | `EnvoyHTTPStreamImpl.m:73-74` | `IosStream`, `Serial = FALSE` | frames after `onCancel` |
| `IosStream!CancelAlwaysFires` | `EnvoyEngine.h:50` | `IosStream` | no callback for a late cancellation |
| `JvmStream!CancelInterrupts` | `EnvoyHTTPStream.java:73-74` | `JvmStream` | queued tasks still run |
| `JvmStream!CancelOnceOnly` | `EnvoyHTTPStream.java:76` | `JvmStream`, `MaxCancels = 2` | the second `cancel` succeeds too |
| `JvmStream!TrailersAreAMap` | `JvmBridgeUtility.java:60` | `JvmStream`, `EmptyTrailers = TRUE` | an empty block is `null` |
| `AssertionFilter!BodyIsToBlame` | `assertion/filter.cc:56-58` | `AssertionFilter` | the reply blames the body for the headers or for the response |
| `AssertionFilter!MatchIsAnswered` | `assertion/filter.proto:11` | `AssertionFilter` | a match is passed on, not answered |

## Proofs

All theorems hold for every value of the constants (any threads, streams,
frames, calls, names and values) under the `ASSUME`s of the component's module.
Every invariant and every action property of the passing runs is a theorem.

* `HttpDispatcherProofs`. `LifeInv` says how `ready` hands `init_queue_` over
  (`HandOver`), that the closure that starts a stream is made, posted and run
  once (`StartsOnce`), and that a stream is in `streams_` exactly while the
  connection manager may call its encoder (`MapMirrorsHcm`). With `TypeOK` it is
  inductive whatever filters do to the response (`LifeCorrect`, `MapMirrors`).
  The other results add to it.
  * `AtMostOneTerminal` alone is not inductive: that a cancellation finds no
    terminal callback yet depends on the map, and the map on the connection
    manager. `DispatcherInv` adds that a stream which is not closed has had no
    terminal callback and has heard what its reply allows (`OpenUntilClosed`).
    `OneTerminalPerStream` and the refinement `DispatcherImplementsContract` rest
    on it; `DispatcherImplementsPostQueue` on `HandOver`.
  * `DirectStreamIsSafe` rests on `HeapInv`: what a stream still in use by the
    connection manager consists of is not among the deleted objects, and its
    `ActiveStream` is not on the deferred-delete list either. The order in which
    the two are put on that list is what keeps the `DirectStream` alive.
  * `FramesAreDecodedInOrder` rests on `SendOrder`: one thread sends on a stream;
    the closure that starts it is ahead of its frames in the queue that
    `PostQueue` speaks of; the frames decoded, those queued and the one being
    posted are, in this order, the frames sent. The queue holds the closures of
    all streams, so the invariant has a rising map from the waiting frames of a
    stream to their places.
  * `ErrorsAreReported` rests on `ReportInv`: while a stream is open, what
    `encodeHeaders` keeps of a local reply is still that reply's; and every
    counter is the number of streams that ended in its way.

  The results about callbacks and reports assume `~FilterMayStrip` (no filter removes
  the header by which local replies are recognised); setting it to `TRUE` in
  the configuration shows that they must.
* `EngineProofs`. `EngineInv`: an actor is inside a call exactly while it holds a
  reference; the destructor begins only when there is none; the loop exits and
  members are torn down only after it has begun. Without the first part nothing
  excludes a teardown between the test and the use in `record*`.
  `RecordsAreSafe` and `CallsPin` follow, also with failing configurations,
  spurious wakeups and calls from callbacks. `DtorIsSafe`, that `~Engine` finds
  the `main_common_` it asserts, needs `DtorInv` besides: a notified destructor
  has been notified by a completed construction, and nothing resets
  `main_common_` before the destructor has asked for the exit.
* `NetworkProofs`. `OneMonitorIsBuilt` rests on `LoadInv`: at most one thread is
  inside the lock, and while one registers, there is no instance yet.
  `PreferenceConverges` rests on `NetworkInv`: a handler whose reading is no
  longer the active network has another notification to handle. This is what
  makes the unsynchronised read and write harmless in the end; it holds for any
  number of changes and engines.
* `FilterBridgeProofs`. `MemoryIsReleased` rests on `BridgeInv`: a block that
  Envoy's buffers own came back with `Continue` or is the one that went up, so
  freeing it never frees one of the lost blocks. `FramesSurvive` needs `PassInv`
  besides: one round trip through either bridge takes the answer `Continue` to
  the entity that the next filter is given (`EntityArrives`), changed at most as
  `Copied` says (`CopyOf`), and other answers on a path that was not resumed forward
  nothing.
* `PlatformBridgeFilterProofs`. Under `OnePath` (the platform filter has
  functions for one path), `StateInv` says that `iteration_state_` and the
  platform's own view of that path agree; `OnePathNeverAborts` follows. Run
  `filter_shared_state` shows that the assumption is needed. `SameIteration`
  adds that the filter manager's view agrees too, and gives
  `LateResumptionsDoNothing`. The four theorems about frames assume no more than
  `OnePath`: the filter may resume after it dropped data and leave out the pending
  headers, and the properties name what that does to a frame and to the headers.
  They rest on `FrameInv`, path by path: how far the path has come and which
  frames may follow (`Progress`), that forwarded and held-back frames, one after
  the other, are in order (`InLine`), that each frame is in exactly one place
  (`Accounted`), and what the pending flags say about those places (`Known`).
  None of the four is inductive without the others, because a resumption empties
  the buffer only if the flags are right.
* `AssertionFilterProofs`. `AssertInv`: the statuses of the matchers are what the
  frames seen make of them, a path has the shape headers, data, trailers, and a
  reply was sent exactly when the statuses called for it. A rule that is met is not
  looked at again (`MetIsDecided`), so that a path that has ended without a reply
  goes on without one, whatever the other path brings. `RepliesAreRight` follows
  for every configuration, also with rules about both paths, and `NoReplyTooEarly`
  for rules about one, for every body limit.
* `IosStreamProofs`. `CtxInv`: while native code may call back, no block of a
  terminal callback is queued, so none has run `cleanUp`, `_strongSelf` is set and
  the context is live; `initWithHandle` sets it before native code may call. That the queue holds no such block is what makes it
  inductive; removing any block keeps it so (`RemoveAtKeeps`), hence
  `ContextIsLive` on serial and concurrent queues alike. `PayloadsAreReleased`
  rests on `PayInv`: the objects not yet released are those that blocks on the
  queue will release and those that were bridged for a callback without a
  handler, whose block does nothing; it holds for any set of handlers. `CallbacksAreHeardInOrder` rests
  on `OrderInv`, the queue is the rest of what was emitted, and assumes `Serial`: on a
  concurrent queue the blocks overtake each other.
* `JvmStreamProofs`. `RefInv` counts the global reference against the stages of
  `startStream` and of the callbacks; `RefIsBalanced`. `RequestHeadersSurvive` and
  `ResponsesAreHeard` are about two loops, over the pairs of a block and over the
  keys of a map, and so about what a recursive function computes. The
  library's induction theorems are of no use to these provers, but its theorem
  that a non-empty set of numbers has a least element (`WFMin`) is: an iteration
  at which the loop's invariant (`Half` for the pairs of a block) fails would be preceded by
  another. `HeardInv` then says that between two callbacks the accumulator is as
  at the start, and that the k-th audible callback is the k-th call made or
  waiting on the `Executor`.
* `JvmStreamProofs`, gRPC. The recursive functions of `GrpcStream` count from 0 to
  a bound; `LoopExists` and `LoopIs`, by induction on the counter in the same
  form (`Counting`), say once for all of them that such a function exists and
  is its rounds.
  * `LengthIsReadBack`: after i bytes the reader has the length without its last
    `LengthBytes - i` digits, which is what the writer had divided by. It needs
    `GrpcAssumption`, a length below 2^31 in the code, so that no digits are lost
    and the first is no sign.
  * `ProcessingEnds`: a call that does not wait for data has fewer bytes to go
    or is further in the same frame (`Measure`), except that Kotlin may end in
    an exception.
  * `MessagesDelivered` rests on `ResponseInv`: the bytes on the wire are those of
    the frames sent, from the place at which the bytes that arrived end
    (`Streams`), and each processor either follows or has lost the stream.
    `Following`: its buffer begins at the frame after the messages it passed on,
    and what it has read of that frame, the flag and the length, is that frame's.
    `Lost`: it has met a compressed message, and the messages before it have been
    passed on; nothing is claimed of what it reads then. A call takes `Following`
    to `Following` or `Lost` (`KotlinFollows`, `SwiftFollows`), and a processor
    that follows and waits does not have the next frame to its end
    (`WaitsForTheNext`). `MessagesAsFramed` alone says nothing about the buffer, so
    it cannot be inductive.
  * `RequestsRoundTrip` rests on `RequestInv`, the request body is the stream of
    the frames sent, and on the same steps with a processor that is given the
    whole of it. It assumes `~MaySlice`, that a message is the whole of its
    `ByteBuffer`; the findings show what happens otherwise.

Type invariants are proved for the three modules that check one; elsewhere the
inductive invariants carry the types that the proofs need.

A proof attempt found one mistake in the model: `FilterResult` and `ClustersFor`
had `CASE` arms that overlapped, where `CASE` does not say which one is meant. TLC takes the
first and had shown nothing; the arms now exclude each other.

Only model-checked: liveness (`CancelDelivers`, `FramesDelivered`,
`ClosedStreamsAreFreed`, `ShutdownEnds`, `StreamsFollowTheNetwork`,
`StreamIsFreed`, `EndIsHeard`), because this prover does not reach
fairness; and the findings.

## Not modelled

* *Unreachable at this commit.* The `on_resume_*` functions of both bridges: the
  weak pointer behind `resume_iteration` never locks, so nothing posts a
  resumption (`PlatformBridgeFilter` has the filter's own side of it). The native
  resource registry: its only caller, `EnvoyHTTPFilterCallbacksImpl.create`, is
  not called, and the native methods it would end in are not defined.
* *gRPC.* Lengths of 2^31 bytes and more, with the overflow next to them; two
  threads sending messages on one stream.
* *Bytes.* The copying of headers and buffers is modelled by who owns what, by
  the texts iOS cuts and by the `ByteBuffer`s of which the JVM sends the whole. Bytes that are not UTF-8, on which `to_ios_headers` stops,
  and empty blocks of headers on a filter's path are not among the inputs.
* *JNI local references.* Some conversions do not delete theirs on the attached
  main thread, where nothing else does; the model does not count them.
* *Strings without state.* Configuration templates (apart from the names of the
  clusters), builders, retry policies, names of statistics.
* *The registry of platform APIs*, one map that is written before the engine runs;
  mocks, examples and build files.

Envoy itself (connection manager, filter manager, matchers, event loop) is
external and only as detailed as the library's use of it.

## Plan

Done: dispatcher, contract and queue; engine; network preference; platform bridge
filter and the bridging above it; both stream bridges; gRPC; assertion filter;
theorems about all of them.

Next, in this order:

1. Should the callbacks' weak pointer be repaired, the `on_resume_*` functions in
   `FilterBridge`, the native resource registry with the garbage collector as
   environment, and a composition of `Engine` with a platform filter's
   resumption, for the dispatcher that nothing retains.
2. JNI local references, counted on the main thread.
