---------------------------- MODULE HttpDispatcher ----------------------------
(***************************************************************************)
(* Http::Dispatcher (library/common/http/dispatcher.{h,cc}) as the C API   *)
(* of library/common/main_interface.cc drives it.                          *)
(*                                                                         *)
(* Application threads call init_stream / start_stream / send_* /          *)
(* reset_stream.  Each of these wraps its work in a closure and post()s it *)
(* under ready_lock_, into init_queue_ until ready() has published the     *)
(* event dispatcher, and straight to the event dispatcher afterwards.  The *)
(* engine's main thread runs ready() once, runs the posted closures, and   *)
(* is the thread on which Envoy's HTTP connection manager (the HCM) calls  *)
(* back into DirectStreamCallbacks (encodeHeaders, encodeData,             *)
(* encodeTrailers) and DirectStream (resetStream).                         *)
(*                                                                         *)
(* Only the main thread touches streams_, so one closure and one HCM       *)
(* callback are each one step.  ready() takes several steps, because       *)
(* application threads may try to post() while it drains init_queue_.      *)
(***************************************************************************)
EXTENDS Integers, FiniteSets, SequencesExt

CONSTANTS
  Threads,         \* application threads
  MaxStreams,      \* bound: stream handles that init_stream hands out
  MaxFrames,       \* bound: request frames a caller sends on one stream
  MaxCancels,      \* bound: reset_stream calls on one stream
  AttemptCounts,   \* values of the x-envoy-attempt-count response header
  FilterMayStrip   \* may a filter remove x-envoy-upstream-service-time?

ASSUME BoundsAssumption ==
  /\ MaxStreams \in Nat /\ MaxFrames \in Nat /\ MaxCancels \in Nat
  /\ AttemptCounts \subseteq Nat
  /\ FilterMayStrip \in BOOLEAN

Streams == 0 .. MaxStreams - 1

VARIABLES
  \* The callers of the C API
  current_stream_handle_, \* main_interface.cc: the next handle
  app,        \* app[s]: how far the caller has taken handle s
  sent,       \* sent[s]: request frames the caller has passed to send_*
  cancels,    \* cancels[s]: reset_stream calls made on s
  call,       \* call[t]: the closure thread t is about to post(), or NoCall
  \* The hand-over between threads
  ready_lock_, init_queue_, event_dispatcher_,
  drained,    \* how many closures ready() has moved out of init_queue_
  post_q,     \* closures the event dispatcher has yet to run
  \* Http::Dispatcher and the DirectStreams, owned by the main thread
  streams_, success_, error_code_, error_attempt_count_, stats_,
  deferred,   \* the event dispatcher's deferred-delete list
  freed,      \* objects that list has destroyed, in the order it did
  \* The HCM's ActiveStream of each stream
  hcm,        \* hcm[s]: where the ActiveStream is in its life
  decoded,    \* decoded[s]: request frames the request decoder was given
  reply,      \* reply[s]: the response headers the HCM encoded
  \* What the platform callbacks of each stream were told
  heard,      \* heard[s]: the latest response frame
  terminals,  \* terminals[s]: the terminal callbacks, in order
  reported    \* reported[s]: the argument of the latest on_error

apiVars    == <<current_stream_handle_, app, sent, cancels, call>>
queueVars  == <<ready_lock_, init_queue_, event_dispatcher_, drained, post_q>>
streamVars == <<streams_, success_, error_code_, error_attempt_count_>>
heapVars   == <<deferred, freed>>
hcmVars    == <<hcm, decoded, reply>>
cbVars     == <<heard, terminals, reported, stats_>>
vars == <<apiVars, queueVars, streamVars, heapVars, hcmVars, cbVars>>

-----------------------------------------------------------------------------
(* Data *)

Frames   == [op : {"sendHeaders", "sendData", "sendTrailers"},
             end_stream : BOOLEAN]
Closures == [op : {"startStream", "sendHeaders", "sendData", "sendTrailers",
                   "cancelStream"},
             stream : Streams, end_stream : BOOLEAN]
NoCall   == [op |-> "none"]

Closure(op, s, end) == [op |-> op, stream |-> s, end_stream |-> end]
Starts(c, s) == c.op = "startStream" /\ c.stream = s
FrameOf(c) == [op |-> c.op, end_stream |-> c.end_stream]

NoCount   == -1              \* error_attempt_count_.value_or(-1)
NoCode    == "nullopt"
Codes     == {"ENVOY_UNDEFINED_ERROR", "ENVOY_STREAM_RESET",
              "ENVOY_CONNECTION_FAILURE"}
NoReport  == [error_code |-> NoCode, attempt_count |-> NoCount]

\* Response headers: the status, whether x-envoy-upstream-service-time is
\* present, and x-envoy-attempt-count (NoCount: absent or not a number).
Replies == [status : {"2xx", "503", "other"}, service_time : BOOLEAN,
            attempt_count : AttemptCounts \cup {NoCount}]
NoReply == [status |-> "none"]

TerminalKinds == {"complete", "error", "cancel"}
Counters == {"stream_success", "stream_failure", "stream_cancel"}

DirectStream(s) == <<"DirectStream", s>>
ActiveStream(s) == <<"ActiveStream", s>>
Objects == {"DirectStream", "ActiveStream"} \X Streams

Ended(frames) == frames # <<>> /\ frames[Len(frames)].end_stream
-----------------------------------------------------------------------------
(* The C API, on application threads *)

Init ==
  /\ current_stream_handle_ = 0
  /\ app     = [s \in Streams |-> "unused"]
  /\ sent    = [s \in Streams |-> <<>>]
  /\ cancels = [s \in Streams |-> 0]
  /\ call    = [t \in Threads |-> NoCall]
  /\ ready_lock_ = "free"
  /\ init_queue_ = <<>>
  /\ event_dispatcher_ = FALSE
  /\ drained = 0
  /\ post_q = <<>>
  /\ streams_ = {}
  /\ success_    = [s \in Streams |-> FALSE]
  /\ error_code_ = [s \in Streams |-> NoCode]
  /\ error_attempt_count_ = [s \in Streams |-> NoCount]
  /\ stats_ = [c \in Counters |-> 0]
  /\ deferred = <<>>
  /\ freed = <<>>
  /\ hcm     = [s \in Streams |-> "none"]
  /\ decoded = [s \in Streams |-> <<>>]
  /\ reply   = [s \in Streams |-> NoReply]
  /\ heard   = [s \in Streams |-> "nothing"]
  /\ terminals = [s \in Streams |-> <<>>]
  /\ reported  = [s \in Streams |-> NoReport]

\* init_stream: an atomic fetch-and-add.
init_stream ==
  /\ current_stream_handle_ < MaxStreams
  /\ current_stream_handle_' = current_stream_handle_ + 1
  /\ app' = [app EXCEPT ![current_stream_handle_] = "inited"]
  /\ UNCHANGED <<sent, cancels, call, queueVars, streamVars, heapVars,
                 hcmVars, cbVars>>

\* Thread t enters an API function; its closure is built, not yet posted.
Enter(t, c) ==
  /\ call[t] = NoCall
  /\ call' = [call EXCEPT ![t] = c]
  /\ UNCHANGED <<current_stream_handle_, queueVars, streamVars, heapVars,
                 hcmVars, cbVars>>

startStream(t, s) ==
  /\ app[s] = "inited"
  /\ app' = [app EXCEPT ![s] = "starting"]
  /\ Enter(t, Closure("startStream", s, FALSE))
  /\ UNCHANGED <<sent, cancels>>

\* A caller follows the API's documented order: one send_* at a time on a
\* stream that start_stream has returned for, and none after the last frame.
MaySend(s) ==
  /\ app[s] = "started"
  /\ ~Ended(sent[s])
  /\ Len(sent[s]) < MaxFrames
  /\ \A t \in Threads : call[t] # NoCall =>
       call[t].stream # s \/ call[t].op = "cancelStream"

Send(t, c) ==
  /\ MaySend(c.stream)
  /\ sent' = [sent EXCEPT ![c.stream] = Append(@, FrameOf(c))]
  /\ Enter(t, c)
  /\ UNCHANGED <<app, cancels>>

sendHeaders(t, s, end) ==
  /\ sent[s] = <<>>
  /\ Send(t, Closure("sendHeaders", s, end))

sendData(t, s, end) ==
  /\ sent[s] # <<>>
  /\ Send(t, Closure("sendData", s, end))

sendTrailers(t, s) ==
  /\ sent[s] # <<>>
  /\ Send(t, Closure("sendTrailers", s, TRUE))

cancelStream(t, s) ==
  /\ app[s] = "started"
  /\ cancels[s] < MaxCancels
  /\ cancels' = [cancels EXCEPT ![s] = @ + 1]
  /\ Enter(t, Closure("cancelStream", s, FALSE))
  /\ UNCHANGED <<app, sent>>

\* Mutants of enqueue: the init queue filled from the front, and a closure
\* dropped while there is no event dispatcher.
EnqueueInFront(c) ==
  IF event_dispatcher_
  THEN post_q' = Append(post_q, c) /\ UNCHANGED init_queue_
  ELSE init_queue_' = <<c>> \o init_queue_ /\ UNCHANGED post_q

EnqueueOnlyWhenReady(c) ==
  /\ post_q' = IF event_dispatcher_ THEN Append(post_q, c) ELSE post_q
  /\ UNCHANGED init_queue_

enqueue(c) ==
  \/ /\ event_dispatcher_
     /\ post_q' = Append(post_q, c)
     /\ UNCHANGED init_queue_
  \/ /\ ~event_dispatcher_
     /\ init_queue_' = Append(init_queue_, c)
     /\ UNCHANGED post_q

\* Dispatcher::post: the whole critical section of ready_lock_.
post(t) ==
  /\ call[t] # NoCall
  /\ ready_lock_ = "free"
  /\ enqueue(call[t])
  /\ app' = [s \in Streams |->
               IF Starts(call[t], s) THEN "started" ELSE app[s]]
  /\ call' = [call EXCEPT ![t] = NoCall]
  /\ UNCHANGED <<current_stream_handle_, sent, cancels, ready_lock_,
                 event_dispatcher_, drained, streamVars, heapVars, hcmVars,
                 cbVars>>
-----------------------------------------------------------------------------
(* Dispatcher::ready, on the main thread *)

ReadyLock ==
  /\ ~event_dispatcher_ /\ ready_lock_ = "free"
  /\ ready_lock_' = "main"
  /\ UNCHANGED <<apiVars, init_queue_, event_dispatcher_, drained, post_q,
                 streamVars, heapVars, hcmVars, cbVars>>

\* One iteration of the loop over init_queue_, which is never cleared.
ReadyDrain ==
  /\ ready_lock_ = "main"
  /\ drained < Len(init_queue_)
  /\ post_q' = Append(post_q, init_queue_[drained + 1])
  /\ drained' = drained + 1
  /\ UNCHANGED <<apiVars, ready_lock_, init_queue_, event_dispatcher_,
                 streamVars, heapVars, hcmVars, cbVars>>

\* Mutant: the event dispatcher is published before init_queue_ is drained.
PublishBeforeDrain ==
  /\ ready_lock_ = "main"
  /\ event_dispatcher_' = TRUE
  /\ ready_lock_' = "free"
  /\ UNCHANGED <<apiVars, init_queue_, drained, post_q, streamVars, heapVars,
                 hcmVars, cbVars>>

\* stats_, event_dispatcher_ and api_listener_ are set and the lock released.
ReadyPublish ==
  /\ ready_lock_ = "main"
  /\ drained = Len(init_queue_)
  /\ event_dispatcher_' = TRUE
  /\ ready_lock_' = "free"
  /\ UNCHANGED <<apiVars, init_queue_, drained, post_q, streamVars, heapVars,
                 hcmVars, cbVars>>
-----------------------------------------------------------------------------
(* Closing a stream, on the main thread *)

\* Neither ready() nor a call of the HCM that has not returned is on the
\* main thread's stack.
MainIdle == ready_lock_ # "main" /\ \A s \in Streams : hcm[s] # "ended"

\* Dispatcher::removeStream: the map's reference moves to the deferred-delete
\* list.
removeStream(s) ==
  /\ streams_' = streams_ \ {s}
  /\ deferred' = Append(deferred, DirectStream(s))

Terminal(s, kind, counter) ==
  /\ terminals' = [terminals EXCEPT ![s] = Append(@, kind)]
  /\ stats_' = [stats_ EXCEPT ![counter] = @ + 1]

onComplete(s, success) ==
  /\ Terminal(s, "complete",
              IF success THEN "stream_success" ELSE "stream_failure")
  /\ UNCHANGED reported

onError(s, code, count) ==
  /\ Terminal(s, "error", "stream_failure")
  /\ reported' = [reported EXCEPT ![s] =
       [error_code |-> IF code = NoCode THEN "ENVOY_STREAM_RESET" ELSE code,
        attempt_count |-> count]]

onCancel(s) ==
  /\ Terminal(s, "cancel", "stream_cancel")
  /\ UNCHANGED reported

-----------------------------------------------------------------------------
(* The posted closures, on the main thread *)

\* The event dispatcher runs the closures in the order they were posted.
Run(op) ==
  /\ MainIdle
  /\ post_q # <<>>
  /\ Head(post_q).op \in op
  /\ post_q' = Tail(post_q)
  /\ UNCHANGED <<apiVars, ready_lock_, init_queue_, event_dispatcher_, drained>>

runStartStream ==
  LET s == Head(post_q).stream IN
  /\ Run({"startStream"})
  /\ hcm' = [hcm EXCEPT ![s] = "active"]
  /\ streams_' = streams_ \cup {s}
  /\ UNCHANGED <<success_, error_code_, error_attempt_count_, heapVars,
                 decoded, reply, cbVars>>

\* Mutant: only the headers reach the request decoder.
DecodesHeadersOnly(s) == s \in streams_ /\ Head(post_q).op = "sendHeaders"

\* The closures of sendHeaders, sendData and sendTrailers are swallowed when
\* the stream is no longer in the map.
Decodes(s) == s \in streams_

runSend ==
  LET s == Head(post_q).stream IN
  /\ Run({"sendHeaders", "sendData", "sendTrailers"})
  /\ decoded' = IF Decodes(s)
                THEN [decoded EXCEPT ![s] = Append(@, FrameOf(Head(post_q)))]
                ELSE decoded
  /\ UNCHANGED <<streamVars, heapVars, hcm, reply, cbVars>>

\* Mutant: on_cancel without looking the stream up.
CancelUnchecked(s) ==
  /\ onCancel(s)
  /\ streams_' = streams_ \ {s}
  /\ UNCHANGED <<hcm, deferred>>

\* runResetCallbacks makes the HCM defer-delete its ActiveStream.
CancelIfOpen(s) ==
  \/ /\ s \in streams_
     /\ streams_' = streams_ \ {s}
     /\ onCancel(s)
     /\ hcm' = [hcm EXCEPT ![s] = "deferred"]
     /\ deferred' = deferred \o <<DirectStream(s), ActiveStream(s)>>
  \/ /\ s \notin streams_
     /\ UNCHANGED <<streams_, hcm, deferred, terminals, reported, stats_>>

runCancelStream ==
  /\ Run({"cancelStream"})
  /\ CancelIfOpen(Head(post_q).stream)
  /\ UNCHANGED <<success_, error_code_, error_attempt_count_, freed, decoded,
                 reply, heard>>
-----------------------------------------------------------------------------
(* DirectStreamCallbacks, called by the HCM on the main thread *)

\* encodeHeaders, lines 52-54: a failure without
\* x-envoy-upstream-service-time is taken for a local reply.
IsLocalError(h) == h.status # "2xx" /\ ~h.service_time

\* Mutant: the status is passed on in place of an envoy_error_code_t.
StatusAsErrorCode(h) == h.status

mapLocalResponseToError(h) ==
  IF h.status = "503" THEN "ENVOY_CONNECTION_FAILURE"
                      ELSE "ENVOY_UNDEFINED_ERROR"

\* The HCM (external): a reply that comes from upstream needs a request; a
\* local reply does not.  Only the router adds x-envoy-upstream-service-time,
\* and a platform filter may rewrite the headers of an upstream reply.
HcmReplies(s, h) ==
  /\ hcm[s] = "active"
  /\ reply[s] = NoReply
  /\ h.service_time => decoded[s] # <<>>

\* The HCM (external): frames that follow the headers.  A local error is
\* headers and at most one, final, data frame.
HcmContinues(s, end) ==
  /\ hcm[s] = "active"
  /\ reply[s] # NoReply
  /\ IsLocalError(reply[s]) => end \/ FilterMayStrip

\* The HCM holds the stack until doEndStream when the response has ended.
HcmAfterEncode(s, end) ==
  hcm' = IF end THEN [hcm EXCEPT ![s] = "ended"] ELSE hcm

\* Mutants: the stream stays in the map, and the stream is destroyed at once.
CloseKeepsEntry(s, end) == UNCHANGED <<streams_, deferred, freed>>

CloseFreesNow(s, end) ==
  /\ streams_' = IF end THEN streams_ \ {s} ELSE streams_
  /\ freed' = IF end THEN Append(freed, DirectStream(s)) ELSE freed
  /\ UNCHANGED deferred

closeStream(s, end) ==
  /\ IF end THEN removeStream(s) ELSE UNCHANGED <<streams_, deferred>>
  /\ UNCHANGED freed

encodeHeaders(s, h, end) ==
  /\ MainIdle
  /\ HcmReplies(s, h)
  /\ reply' = [reply EXCEPT ![s] = h]
  /\ success_' = [success_ EXCEPT ![s] = h.status = "2xx"]
  /\ closeStream(s, end)
  /\ HcmAfterEncode(s, end)
  /\ \/ /\ IsLocalError(h)
        /\ error_code_' = [error_code_ EXCEPT ![s] = mapLocalResponseToError(h)]
        /\ error_attempt_count_' = [error_attempt_count_ EXCEPT ![s] = h.attempt_count]
        /\ IF end THEN onError(s, mapLocalResponseToError(h), h.attempt_count)
                  ELSE UNCHANGED <<terminals, reported, stats_>>
        /\ UNCHANGED heard
     \/ /\ ~IsLocalError(h)
        /\ heard' = [heard EXCEPT ![s] = IF end THEN "end" ELSE "headers"]
        /\ IF end THEN onComplete(s, h.status = "2xx")
                  ELSE UNCHANGED <<terminals, reported, stats_>>
        /\ UNCHANGED <<error_code_, error_attempt_count_>>
  /\ UNCHANGED <<apiVars, queueVars, decoded>>

encodeData(s, end) ==
  /\ MainIdle
  /\ HcmContinues(s, end)
  /\ closeStream(s, end)
  /\ HcmAfterEncode(s, end)
  /\ \/ /\ error_code_[s] # NoCode
        /\ onError(s, error_code_[s], error_attempt_count_[s])
        /\ UNCHANGED heard
     \/ /\ error_code_[s] = NoCode
        /\ heard' = [heard EXCEPT ![s] = IF end THEN "end" ELSE "data"]
        /\ IF end THEN onComplete(s, success_[s])
                  ELSE UNCHANGED <<terminals, reported, stats_>>
  /\ UNCHANGED <<apiVars, queueVars, success_, error_code_,
                 error_attempt_count_, decoded, reply>>

encodeTrailers(s) ==
  /\ MainIdle
  /\ HcmContinues(s, FALSE)
  /\ closeStream(s, TRUE)
  /\ HcmAfterEncode(s, TRUE)
  /\ heard' = [heard EXCEPT ![s] = "end"]
  /\ onComplete(s, success_[s])
  /\ UNCHANGED <<apiVars, queueVars, success_, error_code_,
                 error_attempt_count_, decoded, reply>>
-----------------------------------------------------------------------------
(* DirectStream::resetStream, called by the HCM on the main thread *)

\* The HCM resets a stream that is still open (upstream reset, timeout), or
\* one whose response has ended while the request side is still open.
HcmResets(s) ==
  \/ MainIdle /\ hcm[s] = "active"
  \/ hcm[s] = "ended" /\ ~Ended(decoded[s])

\* Mutants: no early return for a stream that is gone, the local reply
\* forgotten, and the map's reference not passed to deferredDelete.
ErrorUnchecked(s) ==
  /\ streams_' = streams_ \ {s}
  /\ deferred' = deferred \o <<ActiveStream(s), DirectStream(s)>>
  /\ onError(s, error_code_[s], error_attempt_count_[s])

ErrorForgetsReply(s) ==
  /\ s \in streams_
  /\ streams_' = streams_ \ {s}
  /\ deferred' = deferred \o <<ActiveStream(s), DirectStream(s)>>
  /\ onError(s, NoCode, NoCount)

ErrorLeaks(s) ==
  /\ s \in streams_
  /\ streams_' = streams_ \ {s}
  /\ deferred' = Append(deferred, ActiveStream(s))
  /\ onError(s, error_code_[s], error_attempt_count_[s])

\* After runResetCallbacks has deferred the ActiveStream: nothing more for a
\* stream that is already closed, on_error for one that is open.
ErrorIfOpen(s) ==
  \/ /\ s \notin streams_
     /\ deferred' = Append(deferred, ActiveStream(s))
     /\ UNCHANGED <<streams_, terminals, reported, stats_>>
  \/ /\ s \in streams_
     /\ streams_' = streams_ \ {s}
     /\ deferred' = deferred \o <<ActiveStream(s), DirectStream(s)>>
     /\ onError(s, error_code_[s], error_attempt_count_[s])

resetStream(s) ==
  /\ HcmResets(s)
  /\ hcm' = [hcm EXCEPT ![s] = "deferred"]
  /\ ErrorIfOpen(s)
  /\ UNCHANGED <<apiVars, queueVars, success_, error_code_,
                 error_attempt_count_, freed, decoded, reply, heard>>

\* The HCM (external): doEndStream of an exchange complete in both directions.
HcmEndStream(s) ==
  /\ hcm[s] = "ended" /\ Ended(decoded[s])
  /\ hcm' = [hcm EXCEPT ![s] = "deferred"]
  /\ deferred' = Append(deferred, ActiveStream(s))
  /\ UNCHANGED <<apiVars, queueVars, streamVars, freed, decoded, reply, cbVars>>

\* The event dispatcher (external) destroys the deferred objects, in the
\* order in which they were deferred.
ClearDeferred ==
  /\ MainIdle
  /\ deferred # <<>>
  /\ deferred' = <<>>
  /\ freed' = freed \o deferred
  /\ UNCHANGED <<apiVars, queueVars, streamVars, hcmVars, cbVars>>
-----------------------------------------------------------------------------
ApiCall(t) ==
  \E s \in Streams :
    \/ startStream(t, s)
    \/ \E end \in BOOLEAN : sendHeaders(t, s, end)
    \/ \E end \in BOOLEAN : sendData(t, s, end)
    \/ sendTrailers(t, s)
    \/ cancelStream(t, s)

HcmCall(s) ==
  \/ \E h \in Replies, end \in BOOLEAN : encodeHeaders(s, h, end)
  \/ \E end \in BOOLEAN : encodeData(s, end)
  \/ encodeTrailers(s)
  \/ resetStream(s)
  \/ HcmEndStream(s)

Ready == ReadyLock \/ ReadyDrain \/ ReadyPublish

RunClosure == runStartStream \/ runSend \/ runCancelStream

Next ==
  \/ init_stream
  \/ \E t \in Threads : ApiCall(t) \/ post(t)
  \/ Ready
  \/ RunClosure
  \/ \E s \in Streams : HcmCall(s)
  \/ ClearDeferred

\* A thread that entered post() leaves it, the engine reaches PostInit and
\* runs ready(), the event loop runs closures, finishes HCM calls it is in the
\* middle of and clears its deferred-delete list.  Callers owe nothing, and
\* neither does the remote side.
Fairness ==
  /\ \A t \in Threads : WF_vars(post(t))
  /\ WF_vars(Ready)
  /\ WF_vars(RunClosure)
  /\ \A s \in Streams : WF_vars(hcm[s] = "ended" /\ HcmCall(s))
  /\ WF_vars(ClearDeferred)

Spec == Init /\ [][Next]_vars
FairSpec == Spec /\ Fairness
-----------------------------------------------------------------------------
(* Properties *)

ApiTypeOK ==
  /\ current_stream_handle_ \in 0 .. MaxStreams
  /\ app     \in [Streams -> {"unused", "inited", "starting", "started"}]
  /\ sent    \in [Streams -> Seq(Frames)]
  /\ cancels \in [Streams -> 0 .. MaxCancels]
  /\ call    \in [Threads -> Closures \cup {NoCall}]

QueueTypeOK ==
  /\ ready_lock_ \in {"free", "main"}
  /\ init_queue_ \in Seq(Closures)
  /\ event_dispatcher_ \in BOOLEAN
  /\ drained \in 0 .. Len(init_queue_)
  /\ post_q \in Seq(Closures)

StreamTypeOK ==
  /\ streams_ \subseteq Streams
  /\ success_    \in [Streams -> BOOLEAN]
  /\ error_code_ \in [Streams -> Codes \cup {NoCode}]
  /\ error_attempt_count_ \in [Streams -> AttemptCounts \cup {NoCount}]

HeapTypeOK == deferred \in Seq(Objects) /\ freed \in Seq(Objects)

HcmTypeOK ==
  /\ hcm     \in [Streams -> {"none", "active", "ended", "deferred"}]
  /\ decoded \in [Streams -> Seq(Frames)]
  /\ reply   \in [Streams -> Replies \cup {NoReply}]

CbTypeOK ==
  /\ heard   \in [Streams -> {"nothing", "headers", "data", "end"}]
  /\ terminals \in [Streams -> Seq(TerminalKinds)]
  /\ reported  \in [Streams -> [error_code : Codes \cup {NoCode},
                                attempt_count : AttemptCounts \cup {NoCount}]]
  /\ stats_ \in [Counters -> Nat]

\* The types of the variables, group by group.
TypeOK ==
  /\ ApiTypeOK /\ QueueTypeOK /\ StreamTypeOK
  /\ HeapTypeOK /\ HcmTypeOK /\ CbTypeOK

\* c_types.h: "Exactly one terminal callback will be called per stream",
\* whatever the race between cancelStream, a reset and the end of the
\* response.
AtMostOneTerminal == \A s \in Streams : Len(terminals[s]) <= 1

\* A stream is in streams_ exactly while the HCM may call its encoder.  This
\* is what the ASSERTs of encodeHeaders, encodeData and encodeTrailers and
\* the RELEASE_ASSERT of removeStream rely on, and what keeps the raw
\* request_decoder_ that the send closures use from dangling.
MapMirrorsHcm == \A s \in Streams : s \in streams_ <=> hcm[s] = "active"

\* The DirectStream is alive as long as the HCM can call it: while it is in
\* streams_, and through the synchronous HCM code that follows the final
\* frame and may still reset the stream (the comment in removeStream).
DirectStreamOutlivesCalls ==
  \A s \in Streams : hcm[s] \in {"active", "ended"} =>
    ~Contains(freed, DirectStream(s)) /\ ~Contains(freed, ActiveStream(s))

\* The request decoder is given the frames the caller sent, in that order and
\* without a gap, even when they were posted before ready() and the stream is
\* closed under the caller's feet.
DecodedInOrder == \A s \in Streams : IsPrefix(decoded[s], sent[s])

\* The counters account for every terminal callback: none is missed or
\* counted twice (onComplete, onError, onCancel).
StatsCountTerminals ==
  LET Ended1(kind) == {s \in Streams : Contains(terminals[s], kind)} IN
  /\ stats_["stream_cancel"] = Cardinality(Ended1("cancel"))
  /\ stats_["stream_success"] =
       Cardinality({s \in Ended1("complete") : reply[s].status = "2xx"})
  /\ stats_["stream_failure"] =
       Cardinality({s \in Ended1("complete") : reply[s].status # "2xx"})
         + Cardinality(Ended1("error"))

\* An error reports what made it: the code and attempt count of the local
\* reply the HCM produced, even when the stream is reset before the body of
\* that reply arrives, and ENVOY_STREAM_RESET when there was none.  The counters
\* agree.
ErrorReportFaithful ==
  /\ StatsCountTerminals
  /\ \A s \in Streams : Contains(terminals[s], "error") =>
       LET h == reply[s] IN
       IF h # NoReply /\ IsLocalError(h)
       THEN /\ reported[s] = [error_code |-> mapLocalResponseToError(h),
                              attempt_count |-> h.attempt_count]
            /\ heard[s] = "nothing"
       ELSE reported[s] = [error_code |-> "ENVOY_STREAM_RESET",
                           attempt_count |-> NoCount]

\* The closures posted and not yet run, wherever they are.
Pending == IF event_dispatcher_ THEN post_q ELSE init_queue_

\* ready() moves a prefix of init_queue_ at a time, under the lock, and only
\* before it publishes the event dispatcher.
HandOver ==
  /\ ~event_dispatcher_ => post_q = SubSeq(init_queue_, 1, drained)
  /\ ~event_dispatcher_ /\ ready_lock_ = "free" => drained = 0
  /\ ready_lock_ = "main" => ~event_dispatcher_

\* A handle is given out once; the closure that starts its stream is made by
\* one thread, posted once and run once.
StartedOnce(s) ==
  /\ s >= current_stream_handle_ => app[s] = "unused"
  /\ \A t \in Threads : Starts(call[t], s) => app[s] = "starting"
  /\ \A t, u \in Threads : Starts(call[t], s) /\ Starts(call[u], s) => t = u
  /\ \A i \in DOMAIN Pending : Starts(Pending[i], s) =>
       app[s] = "started" /\ hcm[s] = "none"
  /\ \A i, j \in DOMAIN Pending :
       Starts(Pending[i], s) /\ Starts(Pending[j], s) => i = j
  /\ hcm[s] # "none" => app[s] = "started"

StartsOnce == \A s \in Streams : StartedOnce(s)

\* Until the HCM is done with a stream its owner has heard no terminal
\* callback, and what it heard matches the reply the HCM has encoded so far.
OpenUntilClosed ==
  \A s \in Streams : hcm[s] \in {"none", "active"} =>
    /\ terminals[s] = <<>>
    /\ error_code_[s] # NoCode <=> reply[s] # NoReply /\ IsLocalError(reply[s])
    /\ IF reply[s] = NoReply \/ IsLocalError(reply[s])
       THEN heard[s] = "nothing" ELSE heard[s] \in {"headers", "data"}
    /\ hcm[s] = "none" => reply[s] = NoReply

\* Streams are started once, and the map mirrors the HCM.  Nothing here depends
\* on what the filters do to the response.
LifeInv == HandOver /\ StartsOnce /\ MapMirrorsHcm

\* The inductive invariant behind AtMostOneTerminal and ImplementsContract.
DispatcherInv == LifeInv /\ OpenUntilClosed /\ AtMostOneTerminal

\* The callbacks of every stream follow the contract of c_types.h.
Contract == INSTANCE StreamContract
ImplementsContract == Contract!Spec

\* init_queue_, ready() and the event dispatcher's queue are one FIFO queue:
\* the hand-over loses, repeats and reorders nothing.
Queue == INSTANCE PostQueue WITH queue <- Pending
ImplementsPostQueue == Queue!Spec

\* A stream that was cancelled gets a terminal callback, even when the cancel
\* is posted before the engine is ready or races the end of the response.
CancelDelivers ==
  \A s \in Streams : cancels[s] > 0 ~> terminals[s] # <<>>

\* A frame the caller sent reaches the request decoder unless the stream is
\* closed first.
FramesDelivered ==
  \A s \in Streams : \A n \in 1 .. MaxFrames :
    Len(sent[s]) = n ~> Len(decoded[s]) >= n \/ terminals[s] # <<>>

\* Both objects of a closed stream are destroyed in the end.
ClosedStreamsAreFreed ==
  \A s \in Streams : terminals[s] # <<>> ~>
    Contains(freed, DirectStream(s)) /\ Contains(freed, ActiveStream(s))

\* dispatcher.h, DirectStreamWrapper: "the necessary ordering of ActiveStream
\* deletion w.r.t DirectStream deletion; the former needs to be destroyed
\* first".
ActiveStreamFreedFirst ==
  \A i, j \in DOMAIN freed : \A s \in Streams :
    freed[i] = ActiveStream(s) /\ freed[j] = DirectStream(s) => i < j

\* c_types.h, envoy_on_complete_f: "Callback signature for when an HTTP stream
\* bi-directionally completes without error".
CompleteIsBidirectional ==
  \A s \in Streams : Contains(terminals[s], "complete") => Ended(decoded[s])
=============================================================================
