------------------------- MODULE PlatformBridgeFilter -------------------------
(***************************************************************************)
(* PlatformBridgeFilter (library/common/extensions/filters/http/           *)
(* platform_bridge/filter.{h,cc}): an Envoy HTTP filter that hands every   *)
(* frame of a request and of its response to a filter written for the     *)
(* platform and acts on the status that filter returns.                    *)
(*                                                                         *)
(* decode* and encode* delegate to the same code, so an action has the     *)
(* path, "request" or "response", as its parameter.  Envoy's filter        *)
(* manager around the filter is external: it holds the frames back while   *)
(* the filter has stopped iteration and forwards them to the next filter   *)
(* afterwards.  The platform filter is external too: it returns the data   *)
(* it was given and keeps, on each path, to the one rule of filter.h: a    *)
(* path that it stopped it resumes with ResumeIteration, and Continue is   *)
(* for a path that goes on.  Else every status may come at any time, also  *)
(* after it dropped data, with pending headers or without them.            *)
(***************************************************************************)
EXTENDS Integers, SequencesExt

CONSTANTS
  Implemented,       \* the paths for which the platform filter has functions
  MaxData,           \* bound: data frames on one path
  MaxResumes,        \* bound: calls of resumeDecoding or resumeEncoding
  MayDecline         \* may on_resume_* answer StopIteration?

Paths == {"request", "response"}

ASSUME FilterAssumption ==
  /\ Implemented \subseteq Paths
  /\ MaxData \in Nat /\ MaxResumes \in Nat
  /\ MayDecline \in BOOLEAN

VARIABLES
  \* The filter
  iteration_state_,
  pending_headers_, pending_trailers_, complete_, \* per path
  life,       \* "alive", "released" by onDestroy, or "gone"
  resumes,    \* onResume closures posted to the event dispatcher, by path
  posted,     \* how many were posted so far
  aborted,    \* a RELEASE_ASSERT failed
  \* Envoy's filter manager, per path
  stage,      \* "start", "open" after the headers, "ended" after the last frame
  arrived,    \* data frames that have arrived
  iteration,  \* "continue" or "stop"
  has_buffer, buffer,   \* decodingBuffer() / encodingBuffer()
  forwarded,  \* frames passed to the next filter
  ends,       \* how often the end of the stream was passed to it
  \* The platform filter, per path
  view,       \* "ongoing", "stopped" or, after StopIterationNoBuffer, "dropping"
  dropped,    \* data frames it had dropped
  omitted,    \* it resumed without the pending headers it was left with
  asked,      \* it called resume_iteration and waits for on_resume_*
  resumed_as  \* the life of the filter at the latest on_resume_*

filterVars   == <<iteration_state_, pending_headers_, pending_trailers_, complete_>>
postVars     == <<life, resumes, posted>>
managerVars  == <<stage, arrived, iteration, has_buffer, buffer, forwarded, ends>>
platformVars == <<view, dropped, omitted, asked, resumed_as>>
vars == <<filterVars, postVars, aborted, managerVars, platformVars>>

\* Frames in the order in which they arrive; data frames are 1 .. MaxData.
Headers  == 0
Trailers == MaxData + 1
Injected == -1    \* data that on_resume_* adds of its own

\* The constructor, with an init_filter.
Init ==
  /\ iteration_state_ = "Ongoing"
  /\ pending_headers_  = [p \in Paths |-> FALSE]
  /\ pending_trailers_ = [p \in Paths |-> FALSE]
  /\ complete_ = [p \in Paths |-> FALSE]
  /\ life = "alive"
  /\ resumes = <<>>
  /\ posted = 0
  /\ aborted = FALSE
  /\ stage     = [p \in Paths |-> "start"]
  /\ arrived   = [p \in Paths |-> 0]
  /\ iteration = [p \in Paths |-> "continue"]
  /\ has_buffer = [p \in Paths |-> FALSE]
  /\ buffer    = [p \in Paths |-> <<>>]
  /\ forwarded = [p \in Paths |-> <<>>]
  /\ ends      = [p \in Paths |-> 0]
  /\ view    = [p \in Paths |-> "ongoing"]
  /\ dropped = [p \in Paths |-> {}]
  /\ omitted = [p \in Paths |-> FALSE]
  /\ asked   = [p \in Paths |-> FALSE]
  /\ resumed_as = "alive"
-----------------------------------------------------------------------------
(* The filter manager *)

\* A frame arrives on path p; a response needs a request.
Arrives(p, end) ==
  /\ ~aborted /\ life = "alive"
  /\ p = "response" => stage["request"] # "start"
  /\ stage' = [stage EXCEPT ![p] = IF end THEN "ended" ELSE "open"]
  /\ UNCHANGED postVars

HeadersArrive(p, end) ==
  /\ stage[p] = "start" /\ Arrives(p, end)
  /\ UNCHANGED arrived

DataArrive(p, end) ==
  /\ stage[p] = "open" /\ arrived[p] < MaxData /\ Arrives(p, end)
  /\ arrived' = [arrived EXCEPT ![p] = @ + 1]

TrailersArrive(p) ==
  /\ stage[p] = "open" /\ Arrives(p, TRUE)
  /\ UNCHANGED arrived

NextData(p) == arrived[p] + 1

Pass(p, frames, end) ==
  /\ forwarded' = [forwarded EXCEPT ![p] = @ \o frames]
  /\ ends' = [ends EXCEPT ![p] = IF end THEN @ + 1 ELSE @]

\* commonContinue: headers that were held back, the buffer, then trailers.
\* The next filter consumes the buffer, which stays allocated.
commonContinue(p, buf, trailers, end) ==
  /\ Pass(p, (IF Contains(forwarded[p], Headers) THEN <<>> ELSE <<Headers>>)
               \o buf \o trailers, end)
  /\ iteration' = [iteration EXCEPT ![p] = "continue"]
  /\ buffer' = [buffer EXCEPT ![p] = <<>>]

\* Continue after data: straight on, or by way of the buffer if iteration had
\* stopped.
DataContinues(p, buf, data, end) ==
  \/ /\ iteration[p] = "continue"
     /\ Pass(p, data, end)
     /\ buffer' = [buffer EXCEPT ![p] = buf]
     /\ UNCHANGED <<iteration, has_buffer>>
  \/ /\ iteration[p] = "stop"
     /\ commonContinue(p, buf \o data, <<>>, end)
     /\ has_buffer' = [has_buffer EXCEPT ![p] = TRUE]

\* Stop after data; data that the filter left to the manager is buffered.  A
\* stream that ends so always has a buffer.
DataStops(p, buf, data, end) ==
  /\ iteration' = [iteration EXCEPT ![p] = "stop"]
  /\ buffer' = [buffer EXCEPT ![p] = buf \o data]
  /\ has_buffer' = [has_buffer EXCEPT ![p] = @ \/ data # <<>> \/ end]
  /\ UNCHANGED <<forwarded, ends>>
-----------------------------------------------------------------------------
(* decodeHeaders, encodeHeaders *)

\* Mutants: every frame completes the path, or none does.
CompletedByAny(p, end) == complete_' = [complete_ EXCEPT ![p] = TRUE]
CompletedByNone(p, end) == UNCHANGED complete_

\* request_complete_ / response_complete_ = end_stream.
Completed(p, end) == complete_' = [complete_ EXCEPT ![p] = end]

HeadersContinue(p, end) ==
  /\ Pass(p, <<Headers>>, end)
  /\ UNCHANGED <<iteration_state_, pending_headers_, iteration, view>>

HeadersStop(p) ==
  /\ iteration_state_' = "Stopped"
  /\ pending_headers_' = [pending_headers_ EXCEPT ![p] = TRUE]
  /\ iteration' = [iteration EXCEPT ![p] = "stop"]
  /\ view' = [view EXCEPT ![p] = "stopped"]
  /\ UNCHANGED <<forwarded, ends>>

onHeaders(p, end) ==
  /\ HeadersArrive(p, end) /\ Completed(p, end)
  /\ \/ HeadersContinue(p, end)
     \/ p \in Implemented /\ HeadersStop(p)
  /\ UNCHANGED <<pending_trailers_, aborted, has_buffer, buffer, dropped, omitted,
                 asked, resumed_as>>
-----------------------------------------------------------------------------
(* decodeData, encodeData *)

\* Mutant: data is never presented in aggregate.
NeverBuffering(p) == FALSE

already_buffering(p) ==
  iteration_state_ = "Stopped" /\ has_buffer[p] /\ buffer[p] # <<>>

\* What the platform filter is given: the new data, after the buffered data if
\* there is some.
InData(p) ==
  IF already_buffering(p) THEN Append(buffer[p], NextData(p)) ELSE <<NextData(p)>>

\* The internal buffer, and the data left in the frame, at that point.
BufferThen(p) == IF already_buffering(p) THEN InData(p) ELSE buffer[p]
DataThen(p)   == IF already_buffering(p) THEN <<>> ELSE <<NextData(p)>>

\* A RELEASE_ASSERT on iteration_state_ failed: the process is gone.
Abort ==
  /\ aborted' = TRUE
  /\ UNCHANGED <<iteration_state_, pending_headers_, pending_trailers_, iteration,
                 has_buffer, buffer, forwarded, ends, platformVars>>

DataContinue(p, end) ==
  /\ view[p] = "ongoing"
  /\ \/ iteration_state_ = "Stopped" /\ Abort
     \/ /\ iteration_state_ # "Stopped"
        /\ DataContinues(p, buffer[p], <<NextData(p)>>, end)
        /\ UNCHANGED <<iteration_state_, pending_headers_, pending_trailers_,
                       aborted, platformVars>>

DataStopAndBuffer(p, end) ==
  /\ DataStops(p, BufferThen(p), DataThen(p), end)
  /\ iteration_state_' = "Stopped"
  /\ view' = [view EXCEPT ![p] = "stopped"]
  /\ UNCHANGED <<pending_headers_, pending_trailers_, aborted, dropped, omitted,
                 asked, resumed_as>>

DataStopNoBuffer(p, end) ==
  /\ DataStops(p, <<>>, <<>>, end)
  /\ iteration_state_' = "Stopped"
  /\ view' = [view EXCEPT ![p] = "dropping"]
  /\ dropped' = [dropped EXCEPT ![p] =
                   @ \cup {NextData(p)} \cup Range(buffer[p])]
  /\ UNCHANGED <<pending_headers_, pending_trailers_, aborted, omitted, asked,
                 resumed_as>>

\* Mutant: the pointer to the pending headers is not reset.
KeepsPending(p) == UNCHANGED <<pending_headers_, omitted>>

\* The platform filter returns the pending headers with ResumeIteration, or
\* leaves them out: then the pointer to them stays.
ReturnsHeaders(p) ==
  \/ /\ pending_headers_' = [pending_headers_ EXCEPT ![p] = FALSE]
     /\ UNCHANGED omitted
  \/ /\ pending_headers_[p]
     /\ omitted' = [omitted EXCEPT ![p] = TRUE]
     /\ UNCHANGED pending_headers_

\* Mutant: iteration_state_ keeps its value.
ForgetOngoing(p) ==
  /\ UNCHANGED iteration_state_
  /\ view' = [view EXCEPT ![p] = "ongoing"]
  /\ asked' = [asked EXCEPT ![p] = FALSE]

BecomesOngoing(p) ==
  /\ iteration_state_' = "Ongoing"
  /\ view' = [view EXCEPT ![p] = "ongoing"]
  /\ asked' = [asked EXCEPT ![p] = FALSE]

\* With an internal buffer the result goes there, and whatever is left in the
\* frame is not drained.
DataResume(p, end) ==
  /\ view[p] # "ongoing"
  /\ \/ iteration_state_ # "Stopped" /\ Abort
     \/ /\ iteration_state_ = "Stopped"
        /\ ReturnsHeaders(p)
        /\ IF has_buffer[p]
           THEN DataContinues(p, InData(p), DataThen(p), end)
           ELSE DataContinues(p, <<>>, InData(p), end)
        /\ BecomesOngoing(p)
        /\ UNCHANGED <<pending_trailers_, aborted, dropped, resumed_as>>

onData(p, end) ==
  /\ DataArrive(p, end) /\ Completed(p, end)
  /\ \/ /\ p \notin Implemented
        /\ Pass(p, <<NextData(p)>>, end)
        /\ UNCHANGED <<iteration_state_, pending_headers_, pending_trailers_,
                       aborted, iteration, has_buffer, buffer, platformVars>>
     \/ /\ p \in Implemented
        /\ \/ DataContinue(p, end)
           \/ DataStopAndBuffer(p, end)
           \/ DataStopNoBuffer(p, end)
           \/ DataResume(p, end)
-----------------------------------------------------------------------------
(* decodeTrailers, encodeTrailers *)

\* Continue after trailers (external): straight on, or with all that was held.
TrailersContinues(p) ==
  \/ /\ iteration[p] = "continue"
     /\ Pass(p, <<Trailers>>, TRUE)
     /\ UNCHANGED <<iteration, buffer>>
  \/ /\ iteration[p] = "stop"
     /\ commonContinue(p, buffer[p], <<Trailers>>, TRUE)

TrailersContinue(p) ==
  /\ view[p] = "ongoing"
  /\ \/ iteration_state_ = "Stopped" /\ Abort
     \/ /\ iteration_state_ # "Stopped"
        /\ TrailersContinues(p)
        /\ UNCHANGED <<iteration_state_, pending_headers_, pending_trailers_,
                       aborted, has_buffer, platformVars>>

TrailersStop(p) ==
  /\ iteration_state_' = "Stopped"
  /\ pending_trailers_' = [pending_trailers_ EXCEPT ![p] = TRUE]
  /\ iteration' = [iteration EXCEPT ![p] = "stop"]
  /\ view' = [view EXCEPT ![p] = "stopped"]
  /\ UNCHANGED <<pending_headers_, aborted, has_buffer, buffer, forwarded, ends,
                 dropped, omitted, asked, resumed_as>>

\* Pending data is returned as it was given, or left out: the buffer's content
\* stays.
TrailersResume(p) ==
  /\ view[p] # "ongoing"
  /\ \/ iteration_state_ # "Stopped" /\ Abort
     \/ /\ iteration_state_ = "Stopped"
        /\ ReturnsHeaders(p)
        /\ TrailersContinues(p)
        /\ BecomesOngoing(p)
        /\ UNCHANGED <<pending_trailers_, aborted, has_buffer, dropped, resumed_as>>

onTrailers(p) ==
  /\ TrailersArrive(p) /\ Completed(p, TRUE)
  /\ \/ /\ p \notin Implemented
        /\ Pass(p, <<Trailers>>, TRUE)
        /\ UNCHANGED <<iteration_state_, pending_headers_, pending_trailers_,
                       aborted, iteration, has_buffer, buffer, platformVars>>
     \/ /\ p \in Implemented
        /\ TrailersContinue(p) \/ TrailersStop(p) \/ TrailersResume(p)
-----------------------------------------------------------------------------
(* Asynchronous resumption *)

\* envoy_filter_callback_resume_decoding / _encoding: the context is a copy of
\* weak_from_this() taken in the constructor, when no shared_ptr owned the
\* filter yet, so lock() finds nothing.
resume_iteration(p) ==
  /\ ~aborted /\ p \in Implemented /\ view[p] # "ongoing" /\ ~asked[p]
  /\ asked' = [asked EXCEPT ![p] = TRUE]
  /\ UNCHANGED <<filterVars, postVars, aborted, managerVars, view, dropped,
                 omitted, resumed_as>>

\* resumeDecoding, resumeEncoding, called on the filter itself.
resume(p) ==
  /\ ~aborted /\ life = "alive"
  /\ p \in Implemented /\ view[p] # "ongoing" /\ posted < MaxResumes
  /\ resumes' = Append(resumes, p)
  /\ posted' = posted + 1
  /\ UNCHANGED <<filterVars, life, aborted, managerVars, platformVars>>

\* Mutant: no early return.
AlwaysResumes(p) == life # "gone"

\* The closure holds a weak pointer; onResume* returns early when Ongoing.
Resumes(p) == life # "gone" /\ iteration_state_ # "Ongoing"

\* on_resume_request may decline; the answer of on_resume_response is not
\* looked at.
Declines(p) == p = "request" /\ MayDecline

\* Whatever was pending is returned as it was given; data may be injected when
\* there is no buffer and the stream has not ended.  The manager (external)
\* ignores a stream that is being destroyed.
ResumeAnswered(p) ==
  /\ pending_headers_'  = [pending_headers_ EXCEPT ![p] = FALSE]
  /\ pending_trailers_' = [pending_trailers_ EXCEPT ![p] = FALSE]
  /\ BecomesOngoing(p)
  /\ \/ /\ life = "alive"
        /\ \E inject \in BOOLEAN :
             /\ inject => ~has_buffer[p] /\ ~complete_[p]
             /\ commonContinue(p, IF inject THEN <<Injected>> ELSE buffer[p],
                  IF pending_trailers_[p] THEN <<Trailers>> ELSE <<>>, complete_[p])
             /\ has_buffer' = [has_buffer EXCEPT ![p] = @ \/ inject \/ complete_[p]]
     \/ life = "released" /\ UNCHANGED <<iteration, has_buffer, buffer, forwarded, ends>>

onResume ==
  LET p == Head(resumes) IN
  /\ ~aborted /\ resumes # <<>>
  /\ resumes' = Tail(resumes)
  /\ \/ /\ ~Resumes(p)
        /\ UNCHANGED <<filterVars, managerVars, platformVars>>
     \/ /\ Resumes(p) /\ Declines(p)
        /\ resumed_as' = life
        /\ asked' = [asked EXCEPT ![p] = FALSE]
        /\ UNCHANGED <<filterVars, managerVars, view, dropped, omitted>>
     \/ /\ Resumes(p)
        /\ resumed_as' = life
        /\ ResumeAnswered(p)
        /\ UNCHANGED <<complete_, stage, arrived, dropped, omitted>>
  /\ UNCHANGED <<life, posted, aborted>>
-----------------------------------------------------------------------------
\* onDestroy: release_filter; the object itself is destroyed later.
onDestroy ==
  /\ ~aborted /\ life = "alive"
  /\ life' = "released"
  /\ UNCHANGED <<filterVars, resumes, posted, aborted, managerVars, platformVars>>

DeleteFilter ==
  /\ ~aborted /\ life = "released"
  /\ life' = "gone"
  /\ UNCHANGED <<filterVars, resumes, posted, aborted, managerVars, platformVars>>

Next ==
  \/ \E p \in Paths, end \in BOOLEAN : onHeaders(p, end) \/ onData(p, end)
  \/ \E p \in Paths : onTrailers(p) \/ resume_iteration(p) \/ resume(p)
  \/ onResume \/ onDestroy \/ DeleteFilter

\* The event loop runs posted closures and deletes what is to be deleted.
Fairness == WF_vars(onResume) /\ WF_vars(DeleteFilter)

Spec == Init /\ [][Next]_vars
FairSpec == Spec /\ Fairness
-----------------------------------------------------------------------------
(* Properties *)

\* A platform filter that keeps to the rules on each path never runs into a
\* RELEASE_ASSERT of onData or onTrailers, "invalid filter state: filter
\* iteration must be resumed with ResumeIteration".
NeverAborts == ~aborted

\* The next filter gets the frames in the order of their arrival, the headers
\* first, each at most once, however often iteration stops and resumes; only
\* injected data may come anywhere after the headers.  There is one exception,
\* in the code: a data frame with which the filter resumes, having dropped the
\* one before it, may come twice in a row, because onData puts the result into
\* an internal buffer that is empty and leaves the frame as it is.
Rising(frames, gone) ==
  \A i, j \in DOMAIN frames :
    i < j /\ Injected \notin {frames[i], frames[j]} =>
      \/ frames[i] < frames[j]
      \/ j = i + 1 /\ frames[i] = frames[j] /\ frames[i] - 1 \in gone
ForwardedInOrder ==
  \A p \in Paths :
    /\ Rising(forwarded[p], dropped[p])
    /\ forwarded[p] # <<>> => forwarded[p][1] = Headers

\* Until onDestroy, the headers and every data frame that arrived have been
\* forwarded, or are held back, or were dropped by the platform filter; exactly
\* one of the three.  Only headers that the platform filter left out when it
\* resumed are still noted as pending after they were forwarded.
NothingLost ==
  \A p \in Paths :
    LET seen == (IF stage[p] = "start" THEN {} ELSE {Headers}) \cup (1 .. arrived[p])
        held == (IF pending_headers_[p] THEN {Headers} ELSE {}) \cup Range(buffer[p])
        passed == Range(forwarded[p]) \ {Trailers, Injected}
    IN ~aborted /\ life = "alive" =>
                   /\ seen = passed \cup held \cup dropped[p]
                   /\ passed \cap held \subseteq (IF omitted[p] THEN {Headers} ELSE {})
                   /\ held \cap dropped[p] = {} /\ passed \cap dropped[p] = {}

\* The end of the stream is forwarded once, and only with everything that is
\* not dropped: nothing stays behind.
EndIsLast ==
  \A p \in Paths : ends[p] > 0 =>
    ends[p] = 1 /\ stage[p] = "ended" /\ buffer[p] = <<>> /\ Contains(forwarded[p], Headers)

\* What onResume* would show the platform filter is the state "that has not
\* yet been forwarded along the filter chain" (AsyncRequestFilter.kt).  Headers
\* that were forwarded are shown only to a filter that left them out of a
\* ResumeIteration, which does not clear the pointer then; headers that were
\* not forwarded are always shown.
SnapshotIsExact ==
  \A p \in Implemented : life = "alive" /\ view[p] # "ongoing" =>
    /\ ~Contains(forwarded[p], Headers) => pending_headers_[p]
    /\ pending_headers_[p] => ~Contains(forwarded[p], Headers) \/ omitted[p]
    /\ pending_trailers_[p] => ~Contains(forwarded[p], Trailers)
    /\ complete_[p] <=> stage[p] = "ended"

\* resumeDecoding / resumeEncoding: "This is a no-op if filter iteration is
\* already ongoing" (filter.h), also when the closure is overtaken by a
\* ResumeIteration.
ResumesOnlyStopped ==
  [][\A p \in Paths :
       resumes # <<>> /\ resumes' = Tail(resumes) /\ Head(resumes) = p
         /\ iteration[p] = "continue" => UNCHANGED <<forwarded, ends, iteration>>]_vars

\* FilterDataStatus.kt, StopIterationNoBuffer: "Returning `ResumeIteration` from
\* another filter invocation" continues the iteration; nothing says that the
\* frame it is returned for is forwarded twice.
ForwardedOnce == \A p \in Paths : Rising(forwarded[p], {})

\* AsyncRequestFilter.kt: what is pending "has not yet been forwarded along the
\* filter chain".
PendingIsHeldBack ==
  \A p \in Implemented : life = "alive" /\ view[p] # "ongoing" /\ pending_headers_[p] =>
    ~Contains(forwarded[p], Headers)

\* RequestFilterCallbacks.kt, resumeRequest: "This will result in an
\* onResumeRequest() callback on the RequestFilter."
AskedIsAnswered ==
  \A p \in Implemented : asked[p] ~> ~asked[p] \/ life # "alive"

\* c_types.h, envoy_filter_release_f: the instance is released "once the filter
\* chain is finished with it".
NotUsedAfterRelease == resumed_as = "alive"
=============================================================================
