------------------------------ MODULE JvmStream ------------------------------
(***************************************************************************)
(* A stream as a JVM application sees it: EnvoyHTTPStream,                 *)
(* JvmCallbackContext and the two bridge utilities (library/java), and the *)
(* jvm_on_* functions of library/common/jni/jni_interface.cc that native   *)
(* code calls on Envoy's main thread with a JNI global reference to the    *)
(* JvmCallbackContext.                                                     *)
(*                                                                         *)
(* A block of headers crosses the JNI pair by pair and is put together in  *)
(* a map; frames are handed to the application's Executor as tasks.  The   *)
(* native side is external and does what StreamContract says.              *)
(***************************************************************************)
EXTENDS Naturals, SequencesExt

CONSTANTS
  Keys, Values,   \* names and values of headers
  MaxPairs,       \* bound: pairs in a block of headers
  Requests,       \* maps of headers that the application may send
  MaxData,        \* bound: data frames of the response
  MaxCancels,     \* bound: calls of cancel
  EmptyTrailers   \* may a block of trailers be empty?

ASSUME JvmAssumption ==
  /\ MaxPairs \in Nat \ {0} /\ MaxData \in Nat /\ MaxCancels \in Nat
  /\ EmptyTrailers \in BOOLEAN /\ IsFiniteSet(Keys)
  /\ Requests \subseteq [Keys -> Seq(Values)]

FrameKinds    == {"headers", "data", "trailers"}
TerminalKinds == {"complete", "cancel", "error"}

VARIABLES
  starting,   \* the application's thread in startStream: "before", "posted",
              \*   "refused" or "returned"
  native,     \* "unstarted", "open", or "ended" after the terminal callback
  emitted,    \* the callbacks native code has made, with their blocks
  refs,       \* global references to the JvmCallbackContext
  bridge,     \* JvmBridgeUtility: headerAccumulator (present, map), headerCount
  failed,     \* a Java assertion failed
  tasks,      \* Runnables on the Executor
  app,        \* calls of the application's EnvoyHTTPCallbacks
  cancels,    \* the results of cancel, in order
  request     \* maps of headers sent, each with the native block made from it

vars == <<starting, native, emitted, refs, bridge, failed, tasks, app, cancels, request>>

Pairs == [key : Keys, value : Values]
Blocks == UNION {[1 .. n -> Pairs] : n \in 1 .. MaxPairs}
TrailerBlocks == IF EmptyTrailers THEN Blocks \cup {<<>>} ELSE Blocks

NoHeaders == [k \in Keys |-> <<>>]
Null == [present |-> FALSE, map |-> NoHeaders]

Init ==
  /\ starting = "before"
  /\ native = "unstarted"
  /\ emitted = <<>>
  /\ refs = 0
  /\ bridge = [present |-> FALSE, map |-> NoHeaders, count |-> 0, ok |-> TRUE]
  /\ failed = FALSE
  /\ tasks = <<>>
  /\ app = <<>>
  /\ cancels = <<>>
  /\ request = <<>>
-----------------------------------------------------------------------------
(* JvmBridgeUtility *)

\* Mutant: a second value replaces the first.
ReplacesValue(values, value) == <<value>>

\* values.add(headerValue)
AddsValue(values, value) == Append(values, value)

\* passHeader; ok records whether its assertions held.
passHeader(b, pair, start) ==
  LET map == IF start THEN NoHeaders ELSE b.map IN
  [present |-> TRUE,
   map     |-> [map EXCEPT ![pair.key] = AddsValue(@, pair.value)],
   count   |-> b.count + 1,
   ok      |-> b.ok /\ (IF start THEN ~b.present /\ b.count = 0 ELSE b.present)]

\* pass_headers: the first pair starts the block.
pass_headers(b, block) ==
  LET passed[i \in 0 .. Len(block)] ==
        IF i = 0 THEN b ELSE passHeader(passed[i - 1], block[i], i = 1)
  IN passed[Len(block)]

\* What retrieveHeaders leaves behind.
Retrieved(b) == [present |-> FALSE, map |-> NoHeaders, count |-> 0, ok |-> b.ok]
-----------------------------------------------------------------------------
(* Starting the stream, on a thread of the application *)

\* A global reference is made, and start_stream posts the stream to Envoy's main
\* thread or is refused because there is no engine.
startStream ==
  /\ starting = "before"
  /\ refs' = refs + 1
  /\ \/ starting' = "posted"  /\ native' = "open"
     \/ starting' = "refused" /\ UNCHANGED native
  /\ UNCHANGED <<emitted, bridge, failed, tasks, app, cancels, request>>

\* if (result != ENVOY_SUCCESS) DeleteGlobalRef
DeletesIfRefused == refs' = IF starting = "refused" THEN refs - 1 ELSE refs

startStreamReturns ==
  /\ starting \in {"posted", "refused"}
  /\ starting' = "returned"
  /\ DeletesIfRefused
  /\ UNCHANGED <<native, emitted, bridge, failed, tasks, app, cancels, request>>
-----------------------------------------------------------------------------
(* The callbacks, on Envoy's main thread *)

Emit(kind, block) ==
  /\ native = "open"
  /\ emitted' = Append(emitted, [kind |-> kind, block |-> block])
  /\ UNCHANGED <<starting, app, cancels, request>>

Task(kind, headers) == [kind |-> kind, headers |-> headers]

\* A block of headers or trailers: passed, counted, retrieved, handed on.
OnBlock(kind, block) ==
  LET b == pass_headers(bridge, block) IN
  /\ Emit(kind, block)
  /\ bridge' = Retrieved(b)
  /\ failed' = (failed \/ ~b.ok \/ b.count # Len(block))
  /\ tasks' = Append(tasks, Task(kind, [present |-> b.present, map |-> b.map]))
  /\ UNCHANGED <<native, refs>>

Since(kind) == \E i \in DOMAIN emitted : emitted[i].kind = kind
DataFrames == Len(SelectSeq(emitted, LAMBDA e : e.kind = "data"))

jvm_on_headers(block) == emitted = <<>> /\ OnBlock("headers", block)

jvm_on_trailers(block) ==
  Since("headers") /\ ~Since("trailers") /\ OnBlock("trailers", block)

jvm_on_data ==
  /\ Since("headers") /\ ~Since("trailers") /\ DataFrames < MaxData
  /\ Emit("data", <<>>)
  /\ tasks' = Append(tasks, Task("data", Null))
  /\ UNCHANGED <<native, refs, bridge, failed>>

\* Mutant: a reference is deleted only with an error or a cancellation.
DeletesIfHeard(kind) == refs' = IF kind = "complete" THEN refs ELSE refs - 1

\* DeleteGlobalRef: "No further callbacks happen on this context."
DeleteGlobalRef(kind) == refs' = refs - 1

\* Mutant: only a cancellation is handed on.
IsCancel(kind) == kind = "cancel"

\* Error and cancellation are handed on; the application is not told of the
\* completion.
HandedOn(kind) == kind # "complete"

OnTerminal(kind) ==
  /\ Emit(kind, <<>>)
  /\ native' = "ended"
  /\ tasks' = IF HandedOn(kind) THEN Append(tasks, Task(kind, Null)) ELSE tasks
  /\ DeleteGlobalRef(kind)
  /\ UNCHANGED <<bridge, failed>>

jvm_on_error    == OnTerminal("error")
jvm_on_complete == Since("headers") /\ OnTerminal("complete")
jvm_on_cancel   == Contains(cancels, "ENVOY_SUCCESS") /\ OnTerminal("cancel")
-----------------------------------------------------------------------------
(* The application *)

\* The Executor (external) is serial: it runs the tasks in order.
RunTask ==
  /\ tasks # <<>>
  /\ app' = Append(app, Head(tasks))
  /\ tasks' = Tail(tasks)
  /\ UNCHANGED <<starting, native, emitted, refs, bridge, failed, cancels, request>>

\* reset_stream, whatever has become of the stream: a closure is posted, and
\* the result is ENVOY_SUCCESS; or the engine is gone, for good.
cancel ==
  /\ starting = "returned" /\ native # "unstarted" /\ Len(cancels) < MaxCancels
  /\ \/ /\ ~Contains(cancels, "ENVOY_FAILURE")
        /\ cancels' = Append(cancels, "ENVOY_SUCCESS")
     \/ cancels' = Append(cancels, "ENVOY_FAILURE")
  /\ UNCHANGED <<starting, native, emitted, refs, bridge, failed, tasks, app, request>>

\* The keys of a HashMap come in some order.
Orders == {s \in [1 .. Cardinality(Keys) -> Keys] : Range(s) = Keys}

\* Mutant: only the first value of a header is converted.
FirstPair(headers, k) ==
  IF headers[k] = <<>> THEN <<>> ELSE <<[key |-> k, value |-> headers[k][1]]>>

PairsOf(headers, k) == [i \in DOMAIN headers[k] |-> [key |-> k, value |-> headers[k][i]]]

\* toJniHeaders, then to_native_headers, which keeps the order.
toJniHeaders(headers, order) ==
  LET added[j \in 0 .. Len(order)] ==
        IF j = 0 THEN <<>> ELSE added[j - 1] \o PairsOf(headers, order[j])
  IN added[Len(order)]

sendHeaders(headers, order) ==
  /\ starting = "returned" /\ native # "unstarted" /\ request = <<>>
  /\ request' = <<[map |-> headers, block |-> toJniHeaders(headers, order)]>>
  /\ UNCHANGED <<starting, native, emitted, refs, bridge, failed, tasks, app, cancels>>

Callback ==
  \/ \E block \in Blocks : jvm_on_headers(block)
  \/ \E block \in TrailerBlocks : jvm_on_trailers(block)
  \/ jvm_on_data \/ jvm_on_error \/ jvm_on_complete \/ jvm_on_cancel

Application ==
  \/ startStream \/ startStreamReturns \/ RunTask \/ cancel
  \/ \E headers \in Requests, order \in Orders : sendHeaders(headers, order)

Next == Callback \/ Application

\* The Executor runs its tasks.
Fairness == WF_vars(RunTask)

Spec == Init /\ [][Next]_vars
FairSpec == Spec /\ Fairness
-----------------------------------------------------------------------------
(* Properties *)

\* "To be truly safe we may need stronger guarantees of operation ordering on
\* this ref" (startStream): whether the callbacks end before or after
\* start_stream returns to the application's thread, the reference is there
\* while native code may use it, and is gone once both are done.
RefLivesAsLongAsTheStream ==
  /\ native = "open" => refs = 1
  /\ starting = "returned" /\ native # "open" => refs = 0

\* The assertions of passHeader and of onResponseHeaders and onResponseTrailers
\* hold from one block to the next.
AssertionsHold == ~failed

\* Where the name k is among the first n pairs of a block.
At(block, k, n) == {i \in 1 .. n : block[i].key = k}

\* The values of k among the first n pairs, all of them and in their order.
Carries(values, block, k, n) ==
  /\ Len(values) = Cardinality(At(block, k, n))
  /\ \A i \in At(block, k, n) : values[Cardinality(At(block, k, i))] = block[i].value

Groups(map, block) ==
  /\ DOMAIN map = Keys
  /\ \A k \in Keys : Carries(map[k], block, k, Len(block))

\* The callbacks among the first n that the application is told of.
Audible(n) == {i \in 1 .. n : emitted[i].kind # "complete"}

\* Frame by frame, in the order of native code, the application gets the headers
\* and trailers native code had, with all values of a name in their order; and
\* no assertion about a block fails on the way.
AppHearsWhatWasEmitted ==
  /\ AssertionsHold
  /\ Len(app) + Len(tasks) = Cardinality(Audible(Len(emitted)))
  /\ \A i \in Audible(Len(emitted)) :
       LET k == Cardinality(Audible(i)) IN
       k <= Len(app) => /\ app[k].kind = emitted[i].kind
                        /\ Groups(app[k].headers.map, emitted[i].block)

\* Headers that the application sends reach native code with the same names
\* and the same values for each name in the same order, whatever the order of
\* the map.
HeadersSurviveTheBridge ==
  \A i \in DOMAIN request : Groups(request[i].map, request[i].block)

\* The error or cancellation that ends a stream is the last thing the
\* application hears.
EndIsHeard ==
  Since("error") \/ Since("cancel") ~>
    app # <<>> /\ Last(app).kind \in {"error", "cancel"} /\ tasks = <<>>

\* EnvoyHTTPStream.cancel: "This functions as an interrupt, and aborts further
\* callbacks and handling of the stream."
CancelInterrupts ==
  [][cancels # <<>> /\ app' # app => Last(app').kind \notin FrameKinds]_vars

\* EnvoyHTTPStream.cancel returns "success unless the stream has already been
\* canceled."
CancelOnceOnly ==
  \A i \in DOMAIN cancels : i > 1 => cancels[i] # "ENVOY_SUCCESS"

\* retrieveHeaders returns "Map, a map of header names to one or more values",
\* which EnvoyHTTPCallbacks.onTrailers is given.
TrailersAreAMap ==
  \A i \in DOMAIN app : app[i].kind = "trailers" => app[i].headers.present
=============================================================================
