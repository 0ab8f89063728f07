------------------------------ MODULE IosStream ------------------------------
(***************************************************************************)
(* EnvoyHTTPStreamImpl (library/objective-c/EnvoyHTTPStreamImpl.m): the    *)
(* stream an iOS application holds.  Native code calls the ios_on_*        *)
(* functions on Envoy's main thread with a raw pointer to the stream's     *)
(* ios_context; each dispatches a block to the application's queue.  The   *)
(* stream keeps itself alive through _strongSelf until the block of the    *)
(* terminal callback has run, and frees the context in dealloc.            *)
(*                                                                         *)
(* The native side is external and does what StreamContract says.          *)
(***************************************************************************)
EXTENDS Naturals, SequencesExt

CONSTANTS
  Serial,      \* is the application's dispatch queue serial?
  Handlers,    \* the callbacks the application has set
  MaxData,     \* bound: data frames of the response
  MaxCancels   \* bound: calls of cancel

FrameKinds    == {"headers", "data", "trailers"}
TerminalKinds == {"complete", "cancel", "error"}
Kinds == FrameKinds \cup TerminalKinds

ASSUME IosAssumption ==
  /\ Serial \in BOOLEAN
  /\ Handlers \subseteq Kinds \ {"complete"}
  /\ MaxData \in Nat /\ MaxCancels \in Nat

VARIABLES
  init,        \* how far initWithHandle is: "idle", "starting", "returning", "done"
  native,      \* "unstarted", "open", or "ended" after the terminal callback
  emitted,     \* the callbacks native code has made
  queue,       \* blocks on the dispatch queue
  app,         \* callbacks of the application that were called
  strongSelf,  \* _strongSelf
  appRef,      \* initWithHandle, and then the application, holds the stream
  context,     \* the ios_context: "none", "live" or "freed"
  cancels,     \* calls of cancel
  unreleased   \* bridged headers, data and messages not yet released

vars == <<init, native, emitted, queue, app, strongSelf, appRef, context, cancels,
          unreleased>>

Init ==
  /\ init = "idle"
  /\ native = "unstarted"
  /\ emitted = <<>>
  /\ queue = <<>>
  /\ app = <<>>
  /\ strongSelf = FALSE
  /\ appRef = FALSE
  /\ context = "none"
  /\ cancels = 0
  /\ unreleased = 0
-----------------------------------------------------------------------------
\* ARC: blocks of terminal callbacks capture the stream.  With the last
\* reference gone, dealloc frees the context.
dealloc ==
  context' = IF strongSelf' \/ appRef' \/ (\E i \in DOMAIN queue' : queue'[i] \in TerminalKinds)
             THEN context ELSE "freed"

\* initWithHandle up to its call: the context, and "the native-held strong ref
\* on this stream before we call start_stream".
initWithHandle ==
  /\ init = "idle" /\ init' = "starting"
  /\ context' = "live"
  /\ strongSelf' = TRUE /\ appRef' = TRUE
  /\ UNCHANGED <<native, emitted, queue, app, cancels, unreleased>>

\* start_stream succeeds, and callbacks may come before it has returned; or it
\* fails because the engine is gone: then none comes and the stream is nil.
start_stream ==
  /\ init = "starting"
  /\ \/ /\ init' = "returning" /\ native' = "open"
        /\ UNCHANGED <<strongSelf, appRef, queue>>
     \/ /\ init' = "done"
        /\ strongSelf' = FALSE /\ appRef' = FALSE
        /\ UNCHANGED <<native, queue>>
  /\ UNCHANGED <<emitted, app, cancels, unreleased>>
  /\ dealloc

\* Mutant: the stream retains itself when start_stream has returned.
RetainsSelfLate ==
  /\ init = "returning" /\ init' = "done"
  /\ strongSelf' = TRUE
  /\ UNCHANGED <<native, emitted, queue, app, appRef, context, cancels, unreleased>>

\* The application has the stream, whatever has been called back by then.
initReturns ==
  /\ init = "returning" /\ init' = "done"
  /\ UNCHANGED <<native, emitted, queue, app, strongSelf, appRef, context, cancels,
                 unreleased>>
-----------------------------------------------------------------------------
(* The callbacks, on Envoy's main thread *)

HasPayload(kind) == kind \in FrameKinds \cup {"error"}

\* Mutant: the application is told of a cancellation at once.
CancelsAtOnce(kind) ==
  IF kind = "cancel" THEN app' = Append(app, kind) /\ UNCHANGED queue
  ELSE queue' = Append(queue, kind) /\ UNCHANGED app

\* dispatch_async to the queue found through the context.
dispatch_async(kind) == queue' = Append(queue, kind) /\ UNCHANGED app

Callback(kind) ==
  /\ native = "open"
  /\ emitted' = Append(emitted, kind)
  /\ dispatch_async(kind)
  /\ native' = IF kind \in TerminalKinds THEN "ended" ELSE native
  /\ unreleased' = IF HasPayload(kind) THEN unreleased + 1 ELSE unreleased
  /\ UNCHANGED <<init, strongSelf, appRef, context, cancels>>

DataFrames == Len(SelectSeq(emitted, LAMBDA k : k = "data"))

ios_on_headers  == emitted = <<>> /\ Callback("headers")
ios_on_data     == /\ emitted # <<>> /\ Last(emitted) # "trailers"
                   /\ DataFrames < MaxData
                   /\ Callback("data")
ios_on_trailers == /\ emitted # <<>> /\ Last(emitted) # "trailers"
                   /\ Callback("trailers")
ios_on_complete == emitted # <<>> /\ Callback("complete")
ios_on_cancel   == cancels > 0 /\ Callback("cancel")
ios_on_error    == Callback("error")
-----------------------------------------------------------------------------
(* The application *)

\* A serial queue runs its blocks in order, one at a time.
Runs(i) == Serial => i = 1

\* Mutant: the stream is given up with the call of cancel.
CleansUpWhenCancelled(kind) == strongSelf' = (strongSelf /\ cancels = 0)

\* cleanUp ends the block of every terminal callback.
cleanUp(kind) == strongSelf' = (strongSelf /\ kind \notin TerminalKinds)

\* Mutant: the message of an error is not released.
KeepsMessage(kind) ==
  unreleased' = IF kind \in Handlers /\ kind \in FrameKinds THEN unreleased - 1 ELSE unreleased

\* Conversion for the handler releases what it converted.
Releases(kind) ==
  unreleased' = IF kind \in Handlers /\ HasPayload(kind) THEN unreleased - 1 ELSE unreleased

RunBlock(i) ==
  LET kind == queue[i] IN
  /\ i \in DOMAIN queue /\ Runs(i)
  /\ queue' = RemoveAt(queue, i)
  /\ app' = IF kind \in Handlers THEN Append(app, kind) ELSE app
  /\ Releases(kind)
  /\ cleanUp(kind)
  /\ UNCHANGED <<init, native, emitted, appRef, cancels>>
  /\ dealloc

\* cancel is reset_stream, whatever has become of the stream.  Without an engine
\* it fails and changes nothing.
cancel ==
  /\ init = "done" /\ appRef /\ cancels < MaxCancels
  /\ cancels' = cancels + 1
  /\ UNCHANGED <<init, native, emitted, queue, app, strongSelf, appRef, context,
                 unreleased>>

\* The application lets go of the stream.
Release ==
  /\ init = "done" /\ appRef
  /\ appRef' = FALSE
  /\ UNCHANGED <<init, native, emitted, queue, app, strongSelf, cancels, unreleased>>
  /\ dealloc

NativeStep ==
  \/ ios_on_headers \/ ios_on_data \/ ios_on_trailers
  \/ ios_on_complete \/ ios_on_cancel \/ ios_on_error

AppStep == cancel \/ Release \/ (\E i \in 1 .. MaxData + 3 : RunBlock(i))

Next == initWithHandle \/ start_stream \/ initReturns \/ NativeStep \/ AppStep

\* The queue runs its blocks, and a cancelled stream that is open is reset
\* (HttpDispatcher's CancelDelivers).
Fairness ==
  /\ \A i \in 1 .. MaxData + 3 : WF_vars(RunBlock(i))
  /\ WF_vars(ios_on_cancel)

Spec == Init /\ [][Next]_vars
FairSpec == Spec /\ Fairness
-----------------------------------------------------------------------------
(* Properties *)

\* As long as native code may still make a callback, the context it would be
\* given has not been freed: also while initWithHandle has not returned, and
\* whatever the application does with its reference.
ContextOutlivesCallbacks == native = "open" => context = "live"

\* The callbacks of the application among the first n that were emitted.
Audible(n) == {i \in 1 .. n : emitted[i] \in Handlers}

\* The application hears what native code emitted, in the same order and
\* without a gap: the k-th callback that it is called for is the k-th that it
\* has a handler for, and nothing comes after the terminal one.
AppHearsInOrder ==
  /\ Len(app) <= Cardinality(Audible(Len(emitted)))
  /\ \A i \in Audible(Len(emitted)) :
       LET k == Cardinality(Audible(i)) IN k <= Len(app) => app[k] = emitted[i]

\* What was bridged for a callback that the application has no handler for: the
\* block that would have released it does nothing.
Leaked == {i \in DOMAIN emitted : HasPayload(emitted[i]) /\ emitted[i] \notin Handlers}

\* Once all blocks of a closed stream have run, every bridged object has been
\* released, but for those of callbacks without a handler; each of these is
\* leaked.
PayloadsReleased == native = "ended" /\ queue = <<>> => unreleased = Cardinality(Leaked)

\* "The stream is kept in memory through a strong reference to itself": and
\* not longer than until the stream has ended and the application let it go.
StreamIsFreed == native = "ended" /\ ~appRef ~> context = "freed"

\* EnvoyHTTPCallbacks.onCancel: "It will fire no more than once, and no other
\* callbacks for the stream will be issued afterwards."
NothingAfterCancel == [][app # <<>> /\ Last(app) = "cancel" => app' = app]_vars

\* EnvoyHTTPCallbacks.onCancel: "this callback will ALWAYS be fired if a stream
\* is canceled, even if the request and/or response is already complete."
CancelAlwaysFires == cancels > 0 ~> Contains(app, "cancel")
=============================================================================
