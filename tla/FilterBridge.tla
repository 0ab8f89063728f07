----------------------------- MODULE FilterBridge -----------------------------
(***************************************************************************)
(* What lies between PlatformBridgeFilter and an application's filter: the *)
(* adapter of the Kotlin and Swift API (EnvoyHTTPFilterAdapter and         *)
(* EnvoyHTTPFilter.init), which answers with an array; the functions of    *)
(* jni_interface.cc and EnvoyEngineImpl.m that take the array apart; and   *)
(* the native memory the frames are copied to and from.                    *)
(*                                                                         *)
(* One stream, whose frames arrive on the engine's main thread; the action *)
(* Call is one frame's way up to the application and back.  What Envoy     *)
(* does with the frames that are held back is detailed in                  *)
(* PlatformBridgeFilter.  The application is external: it answers as the   *)
(* status types of its API allow, and on each path keeps to their rules.   *)
(* on_resume_* is never reached, because the callbacks' weak pointer is    *)
(* taken in the constructor and never locks.                               *)
(***************************************************************************)
EXTENDS Naturals, SequencesExt

CONSTANTS
  Platforms,   \* which of {"ios", "jvm"}
  MaxData,     \* bound: data frames on one path
  Texts        \* the header texts that arrive: of {"ascii", "utf8"}

ASSUME BridgeAssumption ==
  /\ Platforms \subseteq {"ios", "jvm"}
  /\ MaxData \in Nat
  /\ Texts \subseteq {"ascii", "utf8"}

Paths == {"request", "response"}

VARIABLES
  platform, text,
  assertions,   \* are Java's assertions enabled?
  app,          \* the paths for which the filter has the interface ...
  async,        \* ... and the asynchronous one (Kotlin's adapter ignores it)
  instance,     \* "none", "live" or "released"
  process,      \* "running", "crashed" or "aborted" by a RELEASE_ASSERT
  iteration_state_,
  log,          \* the calls so far: path, kind, the entity and the answer
  heap,         \* native blocks that are allocated
  fragments,    \* those of them that Envoy's buffers own
  callbacks,    \* paths whose EnvoyHTTPFilterCallbacksImpl is alive
  held,         \* held[p]: headers and data that Envoy holds back
  forwarded     \* forwarded[p]: what the next filter was given

choices == <<platform, text, assertions, app, async>>
vars == <<choices, instance, process, iteration_state_, log, heap, fragments,
          callbacks, held, forwarded>>

\* An entity: headers and trailers are maps; `by' is who made it, `form' what
\* a copy may change.  Texts are "ascii", "utf8" or "cut"; data is the "whole"
\* of its bytes, a "slice" of a ByteBuffer's by its position and limit, or the
\* "array" behind such a slice.
Entity(kind, by, f) == [kind |-> kind, by |-> by, form |-> f]
\* No element, and an element that is NSNull or null.
Nil  == Entity("nil", "nobody", "none")
Null == Entity("null", "nobody", "none")

IsMap(e) == e.kind \in {"headers", "trailers"}

\* The native copies of the n-th call: of what goes up and of what comes back;
\* and the context of a path's callbacks, a weak pointer to the filter.
Up(n)      == <<"up", n>>
Down(n)    == <<"down", n>>
Context(p) == <<"context", p>>

Init ==
  /\ platform \in Platforms /\ text \in Texts
  /\ assertions \in BOOLEAN /\ (platform = "ios" => ~assertions)
  /\ app \in SUBSET Paths
  /\ async \in SUBSET app /\ (platform = "jvm" => async = {})
  /\ instance = "none" /\ process = "running"
  /\ iteration_state_ = "Ongoing"
  /\ log = <<>>
  /\ heap = {} /\ fragments = {} /\ callbacks = {}
  /\ held = [p \in Paths |-> [headers |-> Null, data |-> Null]]
  /\ forwarded = [p \in Paths |-> <<>>]
-----------------------------------------------------------------------------
(* The constructor of PlatformBridgeFilter, with init_filter *)

\* ios_http_filter_set_*_callbacks: a filter without the setter drops the
\* callbacks, and their context with them.
ios_set_callbacks ==
  /\ callbacks' = async
  /\ heap' = {Context(p) : p \in Paths}
  /\ UNCHANGED process

\* registerFilterFactory of the JVM does not assign set_*_callbacks, in memory
\* that safe_malloc does not clear: they are null, or a call of them crashes.
jvm_set_callbacks ==
  /\ process' \in {"running", "crashed"}
  /\ UNCHANGED <<callbacks, heap>>

Create ==
  /\ instance = "none"
  /\ instance' = "live"
  /\ \/ platform = "ios" /\ ios_set_callbacks
     \/ platform = "jvm" /\ jvm_set_callbacks
  /\ UNCHANGED <<choices, iteration_state_, log, fragments, held, forwarded>>

\* The application lets go of the callbacks: dealloc of
\* EnvoyHTTPFilterCallbacksImpl.
release_callbacks(p) ==
  /\ process = "running" /\ p \in callbacks
  /\ callbacks' = callbacks \ {p}
  /\ heap' = heap \ {Context(p)}
  /\ UNCHANGED <<choices, instance, process, iteration_state_, log, fragments,
                 held, forwarded>>
-----------------------------------------------------------------------------
(* The application's answer and the adapter's array *)

StopStatuses ==
  {"StopIteration", "StopIterationAndBuffer", "StopIterationNoBuffer"}

Calls(p) == SelectSeq(log, LAMBDA c : c.path = p)
Seen(p)  == [k \in {"headers", "data", "trailers"} |->
               Len(SelectSeq(Calls(p), LAMBDA c : c.kind = k))]

\* On this path, the application has stopped iteration.
Stopped(p) == Len(Calls(p)) > 0 /\ Last(Calls(p)).answer.status \in StopStatuses

Answer(s, h, d, t) == [status |-> s, headers |-> h, data |-> d, trailers |-> t]
Own(k) == Entity(k, "app", IF k = "data" THEN "whole" ELSE "ascii")

\* Data is a ByteBuffer on the JVM, which may be set to a part of its bytes.
Views(e) == {e} \cup IF platform = "jvm" /\ e.kind = "data"
                     THEN {Entity("data", e.by, "slice")} ELSE {}

\* A filter may forward what it was given or an entity of its own.
Forwards(kind, e) ==
  {Answer("Continue", f, f, f) : f \in Views(e) \cup Views(Own(kind))}

Stops(kind) ==
  {Answer(s, Null, Null, Null) :
     s \in IF kind = "data" THEN StopStatuses \ {"StopIteration"}
                            ELSE {"StopIteration"}}

\* When it resumes, it may replace the headers and data that are held back.
Replacement(p, k) == {Null} \cup IF held[p][k] = Null THEN {} ELSE Views(Own(k))

Resumes(p, kind) ==
  {Answer("ResumeIteration", h, d, Own("trailers")) :
     h \in Replacement(p, "headers"),
     d \in IF kind = "data" THEN Views(Own("data")) ELSE Replacement(p, "data")}

\* Without the interface for a path, the frame is passed on as it is.
Answers(p, kind, e) ==
  IF p \notin app THEN {Answer("Continue", e, e, e)}
  ELSE Stops(kind) \cup IF Stopped(p) THEN Resumes(p, kind) ELSE Forwards(kind, e)

\* Mutant: a filter's modifications are left behind.
ResultUnmodified(kind, e, a) ==
  IF a.status \in StopStatuses \cup {"Continue"} THEN <<a.status, e>>
  ELSE IF kind = "data" THEN <<a.status, a.headers, a.data>>
  ELSE <<a.status, a.headers, a.data, a.trailers>>

\* EnvoyHTTPFilterAdapter's array, and that of EnvoyHTTPFilter.init(filter:).
FilterResult(kind, e, a) ==
  IF a.status \in StopStatuses THEN <<a.status, e>>
  ELSE IF a.status = "Continue" THEN <<a.status, a[kind]>>
  ELSE IF kind = "data" THEN <<a.status, a.headers, a.data>>
  ELSE <<a.status, a.headers, a.data, a.trailers>>
-----------------------------------------------------------------------------
(* The bridges, which make a native result of the array *)

Native(s, e, h, d) ==
  [status |-> s, entity |-> e, pending_headers |-> h, pending_data |-> d]
Crash == Native("crash", Nil, Nil, Nil)

\* toManagedNativeString copies as many bytes as the string has UTF-16 units.
toNativeHeaders(e) == [e EXCEPT !.form = IF @ = "utf8" THEN "cut" ELSE @]

\* The functions of EnvoyEngineImpl.m, given the array that the filter's block
\* returns.  An object that is not of the expected class, NSNull included, does
\* not know the selector.
ios_http_filter_on_headers(result) ==
  IF IsMap(result[2])
  THEN Native(result[1], toNativeHeaders(result[2]), Nil, Nil)
  ELSE Crash

ios_http_filter_on_data(result) ==
  LET headers == IF Len(result) = 3 THEN result[3] ELSE Nil
  IN IF result[2].kind = "data" /\ (headers = Nil \/ IsMap(headers))
     THEN Native(result[1], result[2], headers, Nil)
     ELSE Crash

ios_http_filter_on_trailers(result) ==
  LET headers == IF Len(result) = 4 THEN result[3] ELSE Nil
      data    == IF Len(result) = 4 THEN result[4] ELSE Nil
  IN IF /\ IsMap(result[2])
        /\ headers = Nil \/ IsMap(headers)
        /\ data = Nil \/ data.kind = "data"
     THEN Native(result[1], toNativeHeaders(result[2]), headers, data)
     ELSE Crash

\* JvmFilterContext.toJniFilterHeadersStatus: its assertion, and a map.
toJniFilterHeadersStatus(result) ==
  (assertions => Len(result) = 2) /\ IsMap(result[2])

\* buffer_to_native_data copies the array behind a ByteBuffer, or refers to the
\* whole of a direct one: position and limit are not looked at.
buffer_to_native_data(e) == [e EXCEPT !.form = IF @ = "slice" THEN "array" ELSE @]

\* The functions of jni_interface.cc read the first two elements.
jvm_http_filter_on_headers(result) ==
  IF toJniFilterHeadersStatus(result)
  THEN Native(result[1], result[2], Nil, Nil)
  ELSE Crash

jvm_http_filter_on_data(result) ==
  IF result[2].kind = "data"
  THEN Native(result[1], buffer_to_native_data(result[2]), Nil, Nil)
  ELSE Crash

jvm_http_filter_on_trailers(result) == jvm_http_filter_on_headers(result)

\* The functions that the two registerFilterFactory put into the
\* envoy_http_filter, for both paths.
ios_http_filter(kind, result) ==
  CASE kind = "headers"  -> ios_http_filter_on_headers(result)
    [] kind = "data"     -> ios_http_filter_on_data(result)
    [] kind = "trailers" -> ios_http_filter_on_trailers(result)

jvm_http_filter(kind, result) ==
  CASE kind = "headers"  -> jvm_http_filter_on_headers(result)
    [] kind = "data"     -> jvm_http_filter_on_data(result)
    [] kind = "trailers" -> jvm_http_filter_on_trailers(result)

\* On iOS, a filter without the block has no result: the frame itself is it.
OnFrame(p, kind, e, a) ==
  LET result == FilterResult(kind, e, a)
  IN IF platform = "jvm" THEN jvm_http_filter(kind, result)
     ELSE IF p \in app THEN ios_http_filter(kind, result)
     ELSE Native("Continue", e, Nil, Nil)
-----------------------------------------------------------------------------
(* PlatformBridgeFilter acts on the native result *)

Fail(outcome) ==
  /\ process' = outcome
  /\ UNCHANGED <<iteration_state_, heap, fragments, held, forwarded>>

\* Mutant: replaceHeaders does not release what it has copied.
ContinueUnreleased(p, kind, result, block) ==
  /\ heap' = heap \cup {block}
  /\ fragments' = IF kind = "data" THEN fragments \cup {block} ELSE fragments
  /\ forwarded' = [forwarded EXCEPT ![p] = Append(@, result.entity)]
  /\ UNCHANGED <<process, iteration_state_, held>>

\* Continue: headers and trailers are copied and the block released, data
\* becomes a fragment of Envoy's buffer.
OnContinue(p, kind, result, block) ==
  /\ heap' = IF kind = "data" THEN heap \cup {block} ELSE heap
  /\ fragments' = IF kind = "data" THEN fragments \cup {block} ELSE fragments
  /\ forwarded' = [forwarded EXCEPT ![p] = Append(@, result.entity)]
  /\ UNCHANGED <<process, iteration_state_, held>>

\* A status that stops iteration: the block that came with it is not looked
\* at.
OnStop(p, kind, e, result, block) ==
  /\ iteration_state_' = "Stopped"
  /\ heap' = heap \cup {block}
  /\ held' = [held EXCEPT ![p] =
       CASE kind = "headers"                         -> [@ EXCEPT !.headers = e]
         [] result.status = "StopIterationAndBuffer" -> [@ EXCEPT !.data = e]
         [] result.status = "StopIterationNoBuffer"  -> [@ EXCEPT !.data = Null]
         [] OTHER                                    -> @]
  /\ UNCHANGED <<process, fragments, forwarded>>

\* ResumeIteration with the trailers and without pending_*, the only form that
\* any bridge lets through.
OnResume(p, result) ==
  /\ iteration_state_' = "Ongoing"
  /\ held' = [held EXCEPT ![p] = [headers |-> Null, data |-> Null]]
  /\ forwarded' = [forwarded EXCEPT ![p] = @ \o
       SelectSeq(<<held[p].headers, held[p].data, result.entity>>,
                 LAMBDA x : x # Null)]
  /\ UNCHANGED <<process, heap, fragments>>

Act(p, kind, e, result, block) ==
  \/ result.status = "crash" /\ Fail("crashed")
  \/ result.status \in StopStatuses /\ OnStop(p, kind, e, result, block)
  \/ /\ result.status = "Continue"
     /\ IF kind # "headers" /\ iteration_state_ = "Stopped"
        THEN Fail("aborted")
        ELSE OnContinue(p, kind, result, block)
  \/ /\ result.status = "ResumeIteration"
     /\ IF iteration_state_ = "Ongoing" THEN Fail("aborted") ELSE OnResume(p, result)

\* The block of the result: without a block of the application's, iOS hands
\* back the one that went up.  Otherwise to_ios_*, pass_headers or jvm_on_data
\* has released that one.
Returned(p) == IF platform = "ios" /\ p \notin app THEN Up(Len(log) + 1)
                                                   ELSE Down(Len(log) + 1)

\* Frames arrive on a path in their order.
Arrives(p, kind) ==
  CASE kind = "headers" -> Seen(p)["headers"] = 0
    [] kind = "data"    -> /\ Seen(p)["headers"] = 1 /\ Seen(p)["trailers"] = 0
                           /\ Seen(p)["data"] < MaxData
    [] OTHER            -> Seen(p)["headers"] = 1 /\ Seen(p)["trailers"] = 0

Call(p, kind) ==
  /\ process = "running" /\ instance = "live"
  /\ Arrives(p, kind)
  /\ LET e == Entity(kind, "wire", IF kind = "data" THEN "whole" ELSE text)
     IN \E a \in Answers(p, kind, e) :
          /\ log' = Append(log, [path |-> p, kind |-> kind, entity |-> e, answer |-> a])
          /\ Act(p, kind, e, OnFrame(p, kind, e, a), Returned(p))
  /\ UNCHANGED <<choices, instance, callbacks>>

\* The next filter or the connection has used a fragment: BridgeFragment::done.
done(b) ==
  /\ process = "running" /\ b \in fragments
  /\ fragments' = fragments \ {b}
  /\ heap' = heap \ {b}
  /\ UNCHANGED <<choices, instance, process, iteration_state_, log, callbacks,
                 held, forwarded>>

\* The stream ends, for whatever reason: release_filter, and Envoy's buffers
\* go with the stream.
onDestroy ==
  /\ process = "running" /\ instance = "live"
  /\ instance' = "released"
  /\ fragments' = {}
  /\ heap' = heap \ fragments
  /\ UNCHANGED <<choices, process, iteration_state_, log, callbacks, held,
                 forwarded>>
-----------------------------------------------------------------------------
Next ==
  \/ Create
  \/ \E p \in Paths : release_callbacks(p)
  \/ \E p \in Paths, kind \in {"headers", "data", "trailers"} : Call(p, kind)
  \/ \E b \in fragments : done(b)
  \/ onDestroy

Spec == Init /\ [][Next]_vars
-----------------------------------------------------------------------------
(* Properties *)

Entities ==
  {Null, Nil}
    \cup [kind : {"headers", "trailers"}, by : {"wire", "app"},
          form : {"ascii", "utf8", "cut"}]
    \cup [kind : {"data"}, by : {"wire", "app"}, form : {"whole", "slice", "array"}]

\* The native blocks that nobody will release: what came back with a status
\* that stops iteration, and the contexts of callbacks that were not taken.
Lost ==
  {Down(n) : n \in {m \in 1 .. Len(log) : log[m].answer.status \in StopStatuses}}
    \cup IF platform = "ios" /\ instance # "none"
         THEN {Context(p) : p \in Paths \ async} ELSE {}

\* As long as the process runs, the native memory that is allocated is what
\* Envoy's buffers own, the contexts of live callbacks, and what is lost:
\* everything else has been released, on both platforms and whichever paths
\* the application filters.
MemoryIsBalanced ==
  process = "running" =>
    heap = fragments \cup {Context(p) : p \in callbacks} \cup Lost

Statuses == {"Continue", "ResumeIteration"} \cup StopStatuses
AnswerSet == [status : Statuses, headers : Entities, data : Entities,
              trailers : Entities]
CallSet == [path : Paths, kind : {"headers", "data", "trailers"},
            entity : Entities, answer : AnswerSet]

\* The inductive invariant behind it: what Envoy's buffers own came back with
\* Continue, so it is none of what is lost.
BridgeInv ==
  /\ text \in Texts /\ log \in Seq(CallSet)
  /\ instance = "none" =>
       heap = {} /\ fragments = {} /\ callbacks = {} /\ log = <<>>
  /\ callbacks \subseteq async /\ async \subseteq Paths
  /\ \A b \in fragments : \E n \in 1 .. Len(log) :
       b = Up(n) \/ (b = Down(n) /\ log[n].answer.status = "Continue")
  /\ MemoryIsBalanced

\* What the application's answers on a path ask to be forwarded, and what they
\* leave held back, by the comments on FilterHeadersStatus, FilterDataStatus
\* and FilterTrailersStatus.
Ask(acc, c) ==
  LET a == c.answer
      Pending(k) == IF a[k] # Null THEN a[k] ELSE acc[k]
  IN CASE c.kind = "headers" /\ a.status = "StopIteration" ->
            [acc EXCEPT !.headers = c.entity]
       [] c.kind # "headers" /\ a.status = "StopIteration" -> acc
       [] a.status = "StopIterationAndBuffer" -> [acc EXCEPT !.data = c.entity]
       [] a.status = "StopIterationNoBuffer"  -> [acc EXCEPT !.data = Null]
       [] a.status = "Continue"               -> [acc EXCEPT !.out = Append(@, a[c.kind])]
       [] OTHER -> [headers |-> Null, data |-> Null,
                    out |-> acc.out \o
                      SelectSeq(<<Pending("headers"), Pending("data")>>
                                  \o IF c.kind = "data" THEN <<>> ELSE <<a.trailers>>,
                                LAMBDA x : x # Null)]

Asked(p) ==
  FoldLeft(Ask, [headers |-> Null, data |-> Null, out |-> <<>>], Calls(p)).out

\* The application has returned ResumeIteration on path p.
HasResumed(p) == \E n \in 1 .. Len(log) :
  log[n].path = p /\ log[n].answer.status = "ResumeIteration"

\* What is left of an entity that the application returns: iOS cuts a text that
\* is not ASCII, and of a part of a ByteBuffer the JVM sends the whole.
Copied(p, e) ==
  [e EXCEPT !.form = IF platform = "ios" /\ p \in app /\ @ = "utf8" THEN "cut"
                     ELSE IF platform = "jvm" /\ @ = "slice" THEN "array" ELSE @]

ForwardsWhatIsAsked(p) ==
  /\ Len(forwarded[p]) = Len(Asked(p))
  /\ \A i \in 1 .. Len(Asked(p)) : forwarded[p][i] = Copied(p, Asked(p)[i])

\* The answers among the first n that let a frame of path p go on.
Passed(p, n) ==
  {i \in 1 .. n : log[i].path = p /\ log[i].answer.status = "Continue"}

\* Whatever the interfaces the application implements and however the frames
\* of the two paths interleave, the next filter is given what the application
\* asked for, in that order, on a path that it has not resumed.  Two things may
\* differ: texts of iOS headers that are not ASCII are cut, and of a ByteBuffer
\* set to a part of its bytes all of them are sent (Copied).
FramesSurviveTheBridge ==
  \A p \in Paths :
    process = "running" /\ ~HasResumed(p) =>
      /\ Len(forwarded[p]) = Cardinality(Passed(p, Len(log)))
      /\ \A i \in Passed(p, Len(log)) :
           forwarded[p][Cardinality(Passed(p, i))] =
             Copied(p, log[i].answer[log[i].kind])

\* FilterDataStatus.Continue: "The (potentially-modified) data to be forwarded
\* along the filter chain", and no more than that.
DataIsForwardedAsReturned ==
  \A p \in Paths : \A i \in 1 .. Len(forwarded[p]) : forwarded[p][i].form # "array"

\* FilterTrailersStatus: "Resume previously-stopped iteration, possibly
\* forwarding headers and data if iteration was stopped during an on*Headers or
\* on*Data invocation."
ResumeIsHonoured ==
  \A p \in Paths :
    process # "aborted" /\ HasResumed(p) =>
      process = "running" /\ ForwardsWhatIsAsked(p)
=============================================================================
