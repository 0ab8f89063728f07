------------------------- MODULE HttpDispatcherProofs -------------------------
(***************************************************************************)
(* Theorems about HttpDispatcher, for every value of its constants.        *)
(***************************************************************************)
EXTENDS HttpDispatcher, FiniteSetTheorems, SequenceTheorems, TLAPS

\* Init gives every variable a value of its type.
LEMMA InitTypeOK == Init => TypeOK
<1>. SUFFICES ASSUME Init PROVE TypeOK
  OBVIOUS
<1>. USE BoundsAssumption DEF Init, BoundsAssumption
<1>1. ApiTypeOK
  BY DEF ApiTypeOK, NoCall
<1>2. QueueTypeOK
  <2>1. Len(init_queue_) = 0 /\ init_queue_ \in Seq(Closures)
    OBVIOUS
  <2>2. event_dispatcher_ \in BOOLEAN
    BY Zenon
  <2>. QED BY <2>1, <2>2 DEF QueueTypeOK
<1>3. StreamTypeOK
  BY DEF StreamTypeOK
<1>4. HeapTypeOK
  BY DEF HeapTypeOK
<1>5. HcmTypeOK
  BY DEF HcmTypeOK
<1>6. CbTypeOK
  BY DEF CbTypeOK, NoReport
<1>. QED BY <1>1, <1>2, <1>3, <1>4, <1>5, <1>6 DEF TypeOK

\* What Head, Tail and Append do to a queue of closures.
LEMMA HeadOfQueue ==
  ASSUME QueueTypeOK, post_q # <<>>
  PROVE  /\ Head(post_q) \in Closures
         /\ Head(post_q).stream \in Streams
         /\ Tail(post_q) \in Seq(Closures)
<1>1. post_q \in Seq(Closures)
  BY DEF QueueTypeOK
<1>2. Head(post_q) \in Closures /\ Tail(post_q) \in Seq(Closures)
  BY <1>1, HeadTailProperties
<1>3. Head(post_q).stream \in Streams
  BY <1>2 DEF Closures
<1>. QED BY <1>2, <1>3

\* Every frame a closure carries is a frame.
LEMMA FrameOfClosure ==
  ASSUME NEW c \in Closures, c.op \in {"sendHeaders", "sendData", "sendTrailers"}
  PROVE  FrameOf(c) \in Frames
BY DEF Closures, FrameOf, Frames

\* A terminal callback appends one terminal and counts it.
LEMMA TerminalTypeOK ==
  ASSUME CbTypeOK, NEW s \in Streams, NEW kind \in TerminalKinds,
         NEW counter \in Counters, Terminal(s, kind, counter)
  PROVE  /\ terminals' \in [Streams -> Seq(TerminalKinds)]
         /\ stats_' \in [Counters -> Nat]
BY DEF CbTypeOK, Terminal

\* on_error keeps the callback variables well typed.
LEMMA OnErrorTypeOK ==
  ASSUME CbTypeOK, NEW s \in Streams, NEW code \in Codes \cup {NoCode},
         NEW count \in AttemptCounts \cup {NoCount}, onError(s, code, count),
         UNCHANGED heard
  PROVE  CbTypeOK'
<1>1. /\ terminals' \in [Streams -> Seq(TerminalKinds)]
      /\ stats_' \in [Counters -> Nat]
  BY TerminalTypeOK DEF onError, TerminalKinds, Counters
<1>2. reported' \in [Streams -> [error_code : Codes \cup {NoCode},
                                 attempt_count : AttemptCounts \cup {NoCount}]]
  BY DEF onError, CbTypeOK, Codes
<1>. QED BY <1>1, <1>2 DEF CbTypeOK

\* on_complete keeps the callback variables well typed.
LEMMA OnCompleteTypeOK ==
  ASSUME CbTypeOK, NEW s \in Streams, NEW success \in BOOLEAN,
         onComplete(s, success),
         heard' \in [Streams -> {"nothing", "headers", "data", "end"}]
  PROVE  CbTypeOK'
<1>1. CASE success
  BY <1>1, TerminalTypeOK DEF onComplete, CbTypeOK, TerminalKinds, Counters
<1>2. CASE ~success
  BY <1>2, TerminalTypeOK DEF onComplete, CbTypeOK, TerminalKinds, Counters
<1>. QED BY <1>1, <1>2

\* on_cancel keeps the callback variables well typed.
LEMMA OnCancelTypeOK ==
  ASSUME CbTypeOK, NEW s \in Streams, onCancel(s), UNCHANGED heard
  PROVE  CbTypeOK'
BY TerminalTypeOK DEF onCancel, CbTypeOK, TerminalKinds, Counters

\* Deferring the objects of a stream keeps the deferred-delete list typed.
LEMMA DeferTypeOK ==
  ASSUME HeapTypeOK, NEW s \in Streams
  PROVE  /\ Append(deferred, DirectStream(s)) \in Seq(Objects)
         /\ Append(deferred, ActiveStream(s)) \in Seq(Objects)
         /\ deferred \o <<DirectStream(s), ActiveStream(s)>> \in Seq(Objects)
         /\ deferred \o <<ActiveStream(s), DirectStream(s)>> \in Seq(Objects)
<1>1. DirectStream(s) \in Objects /\ ActiveStream(s) \in Objects
  BY DEF DirectStream, ActiveStream, Objects
<1>. QED BY <1>1 DEF HeapTypeOK

\* closeStream keeps the map and the deferred-delete list well typed.
LEMMA CloseStreamTypeOK ==
  ASSUME StreamTypeOK, HeapTypeOK, NEW s \in Streams, NEW end \in BOOLEAN,
         closeStream(s, end)
  PROVE  streams_' \subseteq Streams /\ HeapTypeOK'
BY DeferTypeOK DEF closeStream, removeStream, StreamTypeOK, HeapTypeOK

\* A caller's step.
LEMMA ApiTypeStep ==
  ASSUME TypeOK, init_stream \/ (\E t \in Threads : ApiCall(t))
  PROVE  TypeOK'
<1>. USE DEF TypeOK
<1>1. CASE init_stream
  <2>1. ApiTypeOK'
    <3>1. current_stream_handle_' \in 0 .. MaxStreams
      BY <1>1, BoundsAssumption DEF init_stream, ApiTypeOK, BoundsAssumption
    <3>2. app' \in [Streams -> {"unused", "inited", "starting", "started"}]
      BY <1>1 DEF init_stream, ApiTypeOK
    <3>. QED BY <1>1, <3>1, <3>2 DEF init_stream, ApiTypeOK
  <2>. QED BY <1>1, <2>1 DEF init_stream, queueVars, streamVars, heapVars,
         hcmVars, cbVars, QueueTypeOK, StreamTypeOK, HeapTypeOK, HcmTypeOK,
         CbTypeOK
<1>2. ASSUME NEW t \in Threads, NEW c \in Closures, Enter(t, c),
             app' \in [Streams -> {"unused", "inited", "starting", "started"}],
             sent' \in [Streams -> Seq(Frames)],
             cancels' \in [Streams -> 0 .. MaxCancels]
      PROVE  TypeOK'
  <2>1. call' \in [Threads -> Closures \cup {NoCall}]
    BY <1>2 DEF Enter, ApiTypeOK
  <2>2. ApiTypeOK'
    BY <1>2, <2>1 DEF Enter, ApiTypeOK
  <2>. QED BY <1>2, <2>2 DEF Enter, queueVars, streamVars, heapVars, hcmVars,
         cbVars, QueueTypeOK, StreamTypeOK, HeapTypeOK, HcmTypeOK, CbTypeOK
<1>3. ASSUME NEW t \in Threads, NEW s \in Streams, startStream(t, s)
      PROVE  TypeOK'
  <2>1. Closure("startStream", s, FALSE) \in Closures
    BY DEF Closure, Closures
  <2>. QED BY <1>2, <1>3, <2>1 DEF startStream, ApiTypeOK
<1>4. ASSUME NEW t \in Threads, NEW c \in Closures, Send(t, c),
             c.op \in {"sendHeaders", "sendData", "sendTrailers"}
      PROVE  TypeOK'
  <2>1. FrameOf(c) \in Frames
    BY <1>4, FrameOfClosure
  <2>2. sent' \in [Streams -> Seq(Frames)]
    <3>1. c.stream \in Streams /\ sent[c.stream] \in Seq(Frames)
      BY DEF Closures, ApiTypeOK
    <3>2. Append(sent[c.stream], FrameOf(c)) \in Seq(Frames)
      BY <2>1, <3>1, AppendProperties
    <3>. QED BY <1>4, <3>1, <3>2 DEF Send, ApiTypeOK
  <2>. QED BY <1>2, <1>4, <2>2 DEF Send, ApiTypeOK
<1>5. ASSUME NEW t \in Threads, NEW s \in Streams, NEW end \in BOOLEAN,
             sendHeaders(t, s, end) \/ sendData(t, s, end) \/ sendTrailers(t, s)
      PROVE  TypeOK'
  BY <1>4, <1>5 DEF sendHeaders, sendData, sendTrailers, Closure, Closures
<1>6. ASSUME NEW t \in Threads, NEW s \in Streams, cancelStream(t, s)
      PROVE  TypeOK'
  <2>1. Closure("cancelStream", s, FALSE) \in Closures
    BY DEF Closure, Closures
  <2>2. cancels' \in [Streams -> 0 .. MaxCancels]
    BY <1>6, BoundsAssumption DEF cancelStream, ApiTypeOK, BoundsAssumption
  <2>. QED BY <1>2, <1>6, <2>1, <2>2 DEF cancelStream, ApiTypeOK
<1>. QED BY <1>1, <1>3, <1>5, <1>6 DEF ApiCall

\* post and ready: closures move between queues.
LEMMA QueueTypeStep ==
  ASSUME TypeOK, (\E t \in Threads : post(t)) \/ Ready
  PROVE  TypeOK'
<1>. USE DEF TypeOK
<1>1. ASSUME NEW t \in Threads, post(t)
      PROVE  TypeOK'
  <2>1. call[t] \in Closures
    BY <1>1 DEF post, ApiTypeOK
  <2>2. QueueTypeOK'
    <3>1. CASE event_dispatcher_
      BY <1>1, <2>1, <3>1 DEF post, enqueue, QueueTypeOK
    <3>2. CASE ~event_dispatcher_
      BY <1>1, <2>1, <3>2 DEF post, enqueue, QueueTypeOK
    <3>. QED BY <3>1, <3>2
  <2>3. ApiTypeOK'
    BY <1>1 DEF post, ApiTypeOK
  <2>. QED BY <1>1, <2>2, <2>3 DEF post, streamVars, heapVars, hcmVars, cbVars,
         StreamTypeOK, HeapTypeOK, HcmTypeOK, CbTypeOK
<1>2. CASE Ready
  <2>1. QueueTypeOK'
    <3>1. CASE ReadyLock
      BY <3>1 DEF ReadyLock, QueueTypeOK
    <3>2. CASE ReadyDrain
      BY <3>2 DEF ReadyDrain, QueueTypeOK
    <3>3. CASE ReadyPublish
      <4>1. event_dispatcher_' \in BOOLEAN
        BY <3>3 DEF ReadyPublish
      <4>. QED BY <3>3, <4>1 DEF ReadyPublish, QueueTypeOK
    <3>. QED BY <1>2, <3>1, <3>2, <3>3 DEF Ready
  <2>. QED BY <1>2, <2>1 DEF Ready, ReadyLock, ReadyDrain, ReadyPublish, apiVars,
         streamVars, heapVars, hcmVars, cbVars, ApiTypeOK, StreamTypeOK,
         HeapTypeOK, HcmTypeOK, CbTypeOK
<1>. QED BY <1>1, <1>2

\* The posted closures.
LEMMA RunTypeStep ==
  ASSUME TypeOK, RunClosure
  PROVE  TypeOK'
<1>. DEFINE s == Head(post_q).stream
<1>. USE DEF TypeOK
<1>1. /\ post_q # <<>>
      /\ UNCHANGED <<apiVars, ready_lock_, init_queue_, event_dispatcher_, drained>>
      /\ post_q' = Tail(post_q)
  BY DEF RunClosure, runStartStream, runSend, runCancelStream, Run
<1>2. Head(post_q) \in Closures /\ s \in Streams /\ Tail(post_q) \in Seq(Closures)
  BY <1>1, HeadOfQueue
<1>3. ApiTypeOK' /\ QueueTypeOK'
  BY <1>1, <1>2 DEF apiVars, ApiTypeOK, QueueTypeOK
<1>. HIDE DEF s
<1>4. CASE runStartStream
  <2>. USE <1>4 DEF runStartStream
  <2>1. HcmTypeOK'
    BY <1>2 DEF HcmTypeOK, s
  <2>2. StreamTypeOK'
    BY <1>2 DEF StreamTypeOK, s
  <2>. QED BY <1>3, <2>1, <2>2 DEF heapVars, cbVars, HeapTypeOK, CbTypeOK
<1>5. CASE runSend
  <2>. USE <1>5 DEF runSend
  <2>1. FrameOf(Head(post_q)) \in Frames
    BY <1>2, FrameOfClosure DEF Run
  <2>2. decoded' \in [Streams -> Seq(Frames)]
    <3>1. Append(decoded[s], FrameOf(Head(post_q))) \in Seq(Frames)
      BY <1>2, <2>1, AppendProperties DEF HcmTypeOK
    <3>. QED BY <3>1 DEF HcmTypeOK, s
  <2>. QED BY <1>3, <2>2 DEF streamVars, heapVars, cbVars, StreamTypeOK,
         HeapTypeOK, HcmTypeOK, CbTypeOK
<1>6. CASE runCancelStream
  <2>1. CASE s \in streams_
    <3>. USE <1>6, <2>1 DEF runCancelStream, CancelIfOpen, s
    <3>1. CbTypeOK'
      BY <1>2, OnCancelTypeOK
    <3>2. HeapTypeOK'
      BY <1>2, DeferTypeOK DEF HeapTypeOK
    <3>3. HcmTypeOK'
      BY DEF HcmTypeOK
    <3>4. StreamTypeOK'
      BY DEF StreamTypeOK
    <3>. QED BY <1>3, <3>1, <3>2, <3>3, <3>4
  <2>2. CASE s \notin streams_
    BY <1>3, <1>6, <2>2 DEF runCancelStream, CancelIfOpen, s, StreamTypeOK,
       HeapTypeOK, HcmTypeOK, CbTypeOK
  <2>. QED BY <2>1, <2>2
<1>. QED BY <1>4, <1>5, <1>6 DEF RunClosure

\* What the HCM does to a stream.
LEMMA HcmTypeStep ==
  ASSUME TypeOK, NEW s \in Streams, HcmCall(s)
  PROVE  TypeOK'
<1>. USE DEF TypeOK
<1>1. ASSUME NEW h \in Replies, NEW end \in BOOLEAN, encodeHeaders(s, h, end)
      PROVE  TypeOK'
  <2>. USE <1>1 DEF encodeHeaders
  <2>1. streams_' \subseteq Streams /\ HeapTypeOK'
    BY CloseStreamTypeOK
  <2>2. HcmTypeOK'
    <3>1. reply' \in [Streams -> Replies \cup {NoReply}]
      BY DEF HcmTypeOK
    <3>2. hcm' \in [Streams -> {"none", "active", "ended", "deferred"}]
      BY DEF HcmTypeOK, HcmAfterEncode
    <3>. QED BY <3>1, <3>2 DEF HcmTypeOK
  <2>3. mapLocalResponseToError(h) \in Codes
    BY DEF mapLocalResponseToError, Codes
  <2>4. h.attempt_count \in AttemptCounts \cup {NoCount}
    BY DEF Replies
  <2>5. StreamTypeOK'
    <3>1. success_' \in [Streams -> BOOLEAN]
      BY DEF StreamTypeOK
    <3>2. error_code_' \in [Streams -> Codes \cup {NoCode}]
      BY <2>3 DEF StreamTypeOK
    <3>3. error_attempt_count_' \in [Streams -> AttemptCounts \cup {NoCount}]
      BY <2>4 DEF StreamTypeOK
    <3>. QED BY <2>1, <3>1, <3>2, <3>3 DEF StreamTypeOK
  <2>6. CbTypeOK'
    <3>1. heard' \in [Streams -> {"nothing", "headers", "data", "end"}]
      BY DEF CbTypeOK
    <3>2. CASE ~end
      BY <3>1, <3>2 DEF CbTypeOK
    <3>3. CASE end /\ IsLocalError(h)
      BY <2>3, <2>4, <3>3, OnErrorTypeOK
    <3>4. CASE end /\ ~IsLocalError(h)
      <4>1. onComplete(s, h.status = "2xx")
        BY <3>4
      <4>. QED BY <3>1, <4>1, OnCompleteTypeOK
    <3>. QED BY <3>2, <3>3, <3>4
  <2>. QED BY <2>1, <2>2, <2>5, <2>6 DEF apiVars, queueVars, ApiTypeOK, QueueTypeOK
<1>2. ASSUME NEW end \in BOOLEAN, encodeData(s, end)
      PROVE  TypeOK'
  <2>. USE <1>2 DEF encodeData
  <2>1. StreamTypeOK' /\ HeapTypeOK'
    BY CloseStreamTypeOK DEF StreamTypeOK
  <2>2. HcmTypeOK'
    BY DEF HcmTypeOK, HcmAfterEncode
  <2>3. CbTypeOK'
    <3>1. CASE error_code_[s] # NoCode
      BY <3>1, OnErrorTypeOK DEF StreamTypeOK
    <3>2. CASE error_code_[s] = NoCode
      <4>1. heard' \in [Streams -> {"nothing", "headers", "data", "end"}]
        BY <3>2 DEF CbTypeOK
      <4>2. CASE end
        BY <3>2, <4>1, <4>2, OnCompleteTypeOK DEF StreamTypeOK
      <4>3. CASE ~end
        BY <3>2, <4>1, <4>3 DEF CbTypeOK
      <4>. QED BY <4>2, <4>3
    <3>. QED BY <3>1, <3>2
  <2>. QED BY <2>1, <2>2, <2>3 DEF apiVars, queueVars, ApiTypeOK, QueueTypeOK
<1>3. CASE encodeTrailers(s)
  <2>. USE <1>3 DEF encodeTrailers
  <2>1. StreamTypeOK' /\ HeapTypeOK'
    BY CloseStreamTypeOK DEF StreamTypeOK
  <2>2. HcmTypeOK'
    BY DEF HcmTypeOK, HcmAfterEncode
  <2>3. CbTypeOK'
    <3>1. heard' \in [Streams -> {"nothing", "headers", "data", "end"}]
      BY DEF CbTypeOK
    <3>. QED BY <3>1, OnCompleteTypeOK DEF StreamTypeOK
  <2>. QED BY <2>1, <2>2, <2>3 DEF apiVars, queueVars, ApiTypeOK, QueueTypeOK
<1>4. CASE resetStream(s)
  <2>. USE <1>4 DEF resetStream, ErrorIfOpen
  <2>1. StreamTypeOK' /\ HeapTypeOK'
    BY DeferTypeOK DEF StreamTypeOK, HeapTypeOK
  <2>2. HcmTypeOK'
    BY DEF HcmTypeOK
  <2>3. CbTypeOK'
    <3>1. CASE s \in streams_
      BY <3>1, OnErrorTypeOK DEF StreamTypeOK
    <3>2. CASE s \notin streams_
      BY <3>2 DEF CbTypeOK
    <3>. QED BY <3>1, <3>2
  <2>. QED BY <2>1, <2>2, <2>3 DEF apiVars, queueVars, ApiTypeOK, QueueTypeOK
<1>5. CASE HcmEndStream(s)
  <2>. USE <1>5 DEF HcmEndStream
  <2>1. HeapTypeOK'
    BY DeferTypeOK DEF HeapTypeOK
  <2>2. HcmTypeOK'
    BY DEF HcmTypeOK
  <2>. QED BY <2>1, <2>2 DEF apiVars, queueVars, streamVars, cbVars, ApiTypeOK,
         QueueTypeOK, StreamTypeOK, CbTypeOK
<1>. QED BY <1>1, <1>2, <1>3, <1>4, <1>5 DEF HcmCall

\* The deferred-delete list.
LEMMA ClearTypeStep ==
  ASSUME TypeOK, ClearDeferred
  PROVE  TypeOK'
<1>1. HeapTypeOK'
  BY DEF TypeOK, ClearDeferred, HeapTypeOK
<1>. QED BY <1>1 DEF TypeOK, ClearDeferred, apiVars, queueVars, streamVars,
       hcmVars, cbVars, ApiTypeOK, QueueTypeOK, StreamTypeOK, HcmTypeOK, CbTypeOK

\* A stuttering step keeps the types.
LEMMA StutterTypeOK ==
  ASSUME TypeOK, UNCHANGED vars
  PROVE  TypeOK'
BY DEF TypeOK, vars, apiVars, queueVars, streamVars, heapVars, hcmVars, cbVars,
   ApiTypeOK, QueueTypeOK, StreamTypeOK, HeapTypeOK, HcmTypeOK, CbTypeOK

\* Every reachable state of the dispatcher is well typed.
THEOREM TypeCorrect == Spec => []TypeOK
<1>1. TypeOK /\ [Next]_vars => TypeOK'
  BY ApiTypeStep, QueueTypeStep, RunTypeStep, HcmTypeStep, ClearTypeStep,
     StutterTypeOK DEF Next
<1>. QED BY InitTypeOK, <1>1, PTL DEF Spec
-----------------------------------------------------------------------------
(* One terminal callback per stream *)

\* The invariant holds initially: nothing is posted, started or heard.
LEMMA InitInv == Init => DispatcherInv
<1>. SUFFICES ASSUME Init PROVE DispatcherInv
  OBVIOUS
<1>. USE DEF Init
<1>1. HandOver
  BY DEF HandOver
<1>2. StartsOnce
  BY DEF StartsOnce, StartedOnce, Pending, Starts, NoCall
<1>3. MapMirrorsHcm
  BY DEF MapMirrorsHcm
<1>4. OpenUntilClosed
  BY DEF OpenUntilClosed
<1>5. AtMostOneTerminal
  BY DEF AtMostOneTerminal
<1>. QED BY <1>1, <1>2, <1>3, <1>4, <1>5 DEF DispatcherInv, LifeInv

\* A caller disturbs only StartsOnce: it makes a start closure for a stream
\* that had none, or a closure of another kind.
LEMMA ApiLifeStep ==
  ASSUME TypeOK, LifeInv, init_stream \/ (\E t \in Threads : ApiCall(t))
  PROVE  LifeInv'
<1>. USE DEF LifeInv
<1>1. UNCHANGED <<queueVars, streamVars, heapVars, hcmVars, cbVars>>
  BY DEF init_stream, ApiCall, startStream, sendHeaders, sendData, sendTrailers,
     cancelStream, Send, Enter
<1>2. HandOver' /\ MapMirrorsHcm'
  BY <1>1 DEF queueVars, streamVars, hcmVars, HandOver, MapMirrorsHcm
<1>3. Pending' = Pending /\ hcm' = hcm
  BY <1>1 DEF queueVars, hcmVars, Pending
<1>4. CASE init_stream
  <2>1. /\ call' = call
        /\ current_stream_handle_' = current_stream_handle_ + 1
        /\ app' = [app EXCEPT ![current_stream_handle_] = "inited"]
    BY <1>4 DEF init_stream
  <2>2. current_stream_handle_ \in Streams
    BY <1>4, BoundsAssumption DEF init_stream, TypeOK, ApiTypeOK, Streams, BoundsAssumption
  <2>3. app[current_stream_handle_] = "unused"
    BY <2>2, BoundsAssumption DEF StartsOnce, StartedOnce, Streams, BoundsAssumption
  <2>4. ASSUME NEW s \in Streams
        PROVE  StartedOnce(s)'
    <3>0. StartedOnce(s)
      BY DEF StartsOnce
    <3>1. CASE s = current_stream_handle_
      <4>1. app'[s] = "inited" /\ app[s] = "unused" /\ ~(s >= current_stream_handle_')
        BY <2>1, <2>2, <2>3, <3>1, BoundsAssumption
           DEF Streams, TypeOK, ApiTypeOK, BoundsAssumption
      <4>. QED BY <1>3, <2>1, <3>0, <4>1 DEF StartedOnce
    <3>2. CASE s # current_stream_handle_
      <4>1. app'[s] = app[s] /\ (s >= current_stream_handle_' => s >= current_stream_handle_)
        BY <2>1, <2>2, <3>2, BoundsAssumption
           DEF Streams, TypeOK, ApiTypeOK, BoundsAssumption
      <4>. QED BY <1>3, <2>1, <3>0, <4>1 DEF StartedOnce
    <3>. QED BY <3>1, <3>2
  <2>. QED BY <1>2, <2>4 DEF StartsOnce
<1>5. ASSUME NEW t \in Threads, NEW c, Enter(t, c), c.op # "startStream",
             UNCHANGED app
      PROVE  StartsOnce'
  BY <1>3, <1>5 DEF StartsOnce, StartedOnce, Starts, Enter, TypeOK, ApiTypeOK
<1>6. ASSUME NEW t \in Threads, NEW s \in Streams, startStream(t, s)
      PROVE  StartsOnce'
  <2>. SUFFICES ASSUME NEW r \in Streams
                PROVE  StartedOnce(r)'
    BY DEF StartsOnce
  <2>1. /\ app[s] = "inited"
        /\ app' = [app EXCEPT ![s] = "starting"]
        /\ call' = [call EXCEPT ![t] = Closure("startStream", s, FALSE)]
        /\ current_stream_handle_' = current_stream_handle_
    BY <1>6 DEF startStream, Enter
  <2>2. Starts(call'[t], r) <=> r = s
    BY <2>1 DEF Starts, Closure, TypeOK, ApiTypeOK
  <2>3. \A u \in Threads \ {t} : call'[u] = call[u]
    BY <2>1 DEF TypeOK, ApiTypeOK
  <2>4. StartedOnce(r)
    BY DEF StartsOnce
  <2>5. CASE r = s
    <3>1. app'[r] = "starting" /\ app[r] = "inited"
      BY <2>1, <2>5 DEF TypeOK, ApiTypeOK
    <3>. QED BY <1>3, <2>1, <2>2, <2>3, <2>4, <2>5, <3>1 DEF StartedOnce
  <2>6. CASE r # s
    <3>1. app'[r] = app[r]
      BY <2>1, <2>6 DEF TypeOK, ApiTypeOK
    <3>. QED BY <1>3, <2>1, <2>2, <2>3, <2>4, <2>6, <3>1 DEF StartedOnce
  <2>. QED BY <2>5, <2>6
<1>7. ASSUME NEW t \in Threads, NEW s \in Streams, NEW end \in BOOLEAN,
             \/ sendHeaders(t, s, end) \/ sendData(t, s, end)
             \/ sendTrailers(t, s) \/ cancelStream(t, s)
      PROVE  StartsOnce'
  BY <1>5, <1>7 DEF sendHeaders, sendData, sendTrailers, cancelStream, Send, Closure
<1>. QED BY <1>2, <1>4, <1>6, <1>7 DEF ApiCall

\* Before ready() has published the event dispatcher, and while nobody holds
\* the lock, the event dispatcher has been given nothing to run.
LEMMA RunNeedsPublished ==
  ASSUME TypeOK, HandOver, RunClosure
  PROVE  event_dispatcher_ /\ ready_lock_ = "free" /\ Pending = post_q
<1>1. ready_lock_ = "free" /\ post_q # <<>>
  BY DEF RunClosure, runStartStream, runSend, runCancelStream, Run, MainIdle,
     TypeOK, QueueTypeOK
<1>2. event_dispatcher_
  <2>. SUFFICES ASSUME ~event_dispatcher_ PROVE FALSE
    OBVIOUS
  <2>1. post_q = SubSeq(init_queue_, 1, 0)
    BY <1>1 DEF HandOver
  <2>. QED BY <1>1, <2>1, SubSeqEmpty DEF TypeOK, QueueTypeOK
<1>. QED BY <1>1, <1>2 DEF Pending

\* post() puts one closure at the end of the pending ones.
LEMMA PostPending ==
  ASSUME TypeOK, NEW t \in Threads, post(t)
  PROVE  /\ call[t] \in Closures
         /\ Pending \in Seq(Closures)
         /\ Pending' = Append(Pending, call[t])
<1>1. call[t] \in Closures
  BY DEF post, TypeOK, ApiTypeOK
<1>2. CASE event_dispatcher_
  BY <1>1, <1>2 DEF post, enqueue, Pending, TypeOK, QueueTypeOK
<1>3. CASE ~event_dispatcher_
  BY <1>1, <1>3 DEF post, enqueue, Pending, TypeOK, QueueTypeOK
<1>. QED BY <1>1, <1>2, <1>3

\* ready() leaves the pending closures alone.
LEMMA ReadyPending ==
  ASSUME TypeOK, HandOver, Ready
  PROVE  HandOver' /\ Pending' = Pending
<1>. USE DEF TypeOK, QueueTypeOK
<1>1. CASE ReadyLock
  BY <1>1 DEF ReadyLock, HandOver, Pending
<1>2. CASE ReadyDrain
  <2>1. ~event_dispatcher_ /\ post_q = SubSeq(init_queue_, 1, drained)
    BY <1>2 DEF ReadyDrain, HandOver
  <2>2. Append(SubSeq(init_queue_, 1, drained), init_queue_[drained + 1])
          = SubSeq(init_queue_, 1, drained + 1)
    <3>. DEFINE q == init_queue_   m == drained + 1
    <3>1. q \in Seq(Closures) /\ m \in 1 .. Len(q) /\ m - 1 = drained
      BY <1>2 DEF ReadyDrain
    <3>. HIDE DEF q, m
    <3>2. SubSeq(q, 1, m) = SubSeq(q, 1, m - 1) \o <<q[m]>>
      BY <3>1, SubSeqRecursiveSecond
    <3>3. SubSeq(q, 1, m - 1) \in Seq(Closures) /\ q[m] \in Closures
      BY <3>1
    <3>4. Append(SubSeq(q, 1, m - 1), q[m]) = SubSeq(q, 1, m - 1) \o <<q[m]>>
      BY <3>3, AppendIsConcat
    <3>. QED BY <3>1, <3>2, <3>4 DEF q, m
  <2>. QED BY <1>2, <2>1, <2>2 DEF ReadyDrain, HandOver, Pending
<1>3. CASE ReadyPublish
  <2>1. ~event_dispatcher_ /\ post_q = SubSeq(init_queue_, 1, drained)
    BY <1>3 DEF ReadyPublish, HandOver
  <2>2. post_q = init_queue_
    BY <1>3, <2>1, SubSeqFull DEF ReadyPublish
  <2>. QED BY <1>3, <2>1, <2>2 DEF ReadyPublish, HandOver, Pending
<1>. QED BY <1>1, <1>2, <1>3 DEF Ready

\* post() and ready() preserve the invariant.
LEMMA QueueLifeStep ==
  ASSUME TypeOK, LifeInv, (\E t \in Threads : post(t)) \/ Ready
  PROVE  LifeInv'
<1>. USE DEF LifeInv
<1>1. UNCHANGED <<current_stream_handle_, streamVars, heapVars, hcmVars, cbVars>>
  BY DEF post, Ready, ReadyLock, ReadyDrain, ReadyPublish, apiVars
<1>2. MapMirrorsHcm'
  BY <1>1 DEF streamVars, hcmVars, MapMirrorsHcm
<1>3. hcm' = hcm /\ current_stream_handle_' = current_stream_handle_
  BY <1>1 DEF hcmVars
<1>4. ASSUME NEW t \in Threads, post(t)
      PROVE  HandOver' /\ StartsOnce'
  <2>1. HandOver'
    BY <1>4 DEF post, enqueue, HandOver, TypeOK, QueueTypeOK
  <2>2. /\ call[t] \in Closures /\ Pending \in Seq(Closures)
        /\ Pending' = Append(Pending, call[t])
    BY <1>4, PostPending
  <2>. DEFINE n == Len(Pending)
  <2>3. /\ n \in Nat /\ DOMAIN Pending = 1 .. n /\ DOMAIN Pending' = 1 .. n + 1
        /\ Pending'[n + 1] = call[t]
        /\ \A i \in 1 .. n : Pending'[i] = Pending[i]
    BY <2>2, AppendProperties
  <2>4. ASSUME NEW s \in Streams
        PROVE  StartedOnce(s)'
    <3>1. StartedOnce(s)
      BY DEF StartsOnce
    <3>2. /\ app'[s] = IF Starts(call[t], s) THEN "started" ELSE app[s]
          /\ call' = [call EXCEPT ![t] = NoCall]
      BY <1>4 DEF post
    <3>3. ~Starts(call'[t], s) /\ \A u \in Threads \ {t} : call'[u] = call[u]
      BY <3>2 DEF Starts, NoCall, TypeOK, ApiTypeOK
    <3>. HIDE DEF n
    <3>4. CASE Starts(call[t], s)
      <4>1. app[s] = "starting" /\ app'[s] = "started" /\ hcm[s] = "none"
        BY <3>1, <3>2, <3>4 DEF StartedOnce
      <4>2. \A i \in 1 .. n : ~Starts(Pending[i], s)
        BY <2>3, <3>1, <4>1 DEF StartedOnce
      <4>3. \A i \in DOMAIN Pending' : Starts(Pending'[i], s) => i = n + 1
        BY <2>3, <4>2
      <4>4. \A u \in Threads : ~Starts(call'[u], s)
        BY <3>1, <3>3, <3>4 DEF StartedOnce
      <4>5. ~(s >= current_stream_handle_)
        BY <3>1, <4>1 DEF StartedOnce
      <4>. QED BY <1>3, <4>1, <4>3, <4>4, <4>5 DEF StartedOnce
    <3>5. CASE ~Starts(call[t], s)
      <4>1. app'[s] = app[s]
        BY <3>2, <3>5
      <4>2. \A i \in DOMAIN Pending' : Starts(Pending'[i], s) =>
              i \in DOMAIN Pending /\ Starts(Pending[i], s)
        BY <2>3, <3>5
      <4>3. \A u \in Threads : Starts(call'[u], s) => Starts(call[u], s)
        BY <3>3
      <4>. QED BY <1>3, <3>1, <4>1, <4>2, <4>3 DEF StartedOnce
    <3>. QED BY <3>4, <3>5
  <2>. QED BY <2>1, <2>4 DEF StartsOnce
<1>5. CASE Ready
  <2>1. HandOver' /\ Pending' = Pending
    BY <1>5, ReadyPending
  <2>2. call' = call /\ app' = app
    BY <1>5 DEF Ready, ReadyLock, ReadyDrain, ReadyPublish, apiVars
  <2>. QED BY <1>2, <1>3, <2>1, <2>2 DEF StartsOnce, StartedOnce
<1>. QED BY <1>2, <1>4, <1>5

\* Running a closure takes the first pending one.
LEMMA RunPending ==
  ASSUME TypeOK, HandOver, RunClosure
  PROVE  /\ Pending # <<>> /\ Pending \in Seq(Closures)
         /\ Pending' = Tail(Pending) /\ Pending[1] = Head(post_q)
         /\ HandOver' /\ UNCHANGED apiVars
<1>1. event_dispatcher_ /\ Pending = post_q
  BY RunNeedsPublished
<1>2. /\ post_q # <<>> /\ post_q' = Tail(post_q) /\ UNCHANGED apiVars
      /\ UNCHANGED <<ready_lock_, init_queue_, event_dispatcher_, drained>>
  BY DEF RunClosure, runStartStream, runSend, runCancelStream, Run
<1>3. Pending' = Tail(Pending)
  BY <1>1, <1>2 DEF Pending
<1>4. HandOver'
  BY <1>1, <1>2 DEF HandOver
<1>. QED BY <1>1, <1>2, <1>3, <1>4 DEF TypeOK, QueueTypeOK

\* Taking a closure out of the pending ones preserves StartsOnce, also when
\* the closure starts its stream.
LEMMA RunStartsOnce ==
  ASSUME TypeOK, LifeInv, RunClosure, NEW s \in Streams,
         hcm[s] = "none" /\ ~Starts(Head(post_q), s) => hcm'[s] = "none",
         hcm[s] # "none" => hcm'[s] # "none"
  PROVE  StartedOnce(s)'
<1>. DEFINE n == Len(Pending)
<1>1. /\ Pending # <<>> /\ Pending \in Seq(Closures)
      /\ Pending' = Tail(Pending) /\ Pending[1] = Head(post_q)
      /\ call' = call /\ app' = app
      /\ current_stream_handle_' = current_stream_handle_
  BY RunPending DEF LifeInv, apiVars
<1>2. /\ n \in Nat /\ n > 0 /\ DOMAIN Pending = 1 .. n
      /\ DOMAIN Pending' = 1 .. n - 1
      /\ \A i \in 1 .. n - 1 : Pending'[i] = Pending[i + 1]
  BY <1>1, HeadTailProperties
<1>3. StartedOnce(s)
  BY DEF LifeInv, StartsOnce
<1>. HIDE DEF n
<1>4. CASE Starts(Head(post_q), s)
  <2>1. 1 \in DOMAIN Pending /\ Starts(Pending[1], s)
    BY <1>1, <1>2, <1>4
  <2>2. app[s] = "started"
    BY <1>3, <2>1 DEF StartedOnce
  <2>3. \A i \in 1 .. n - 1 : ~Starts(Pending[i + 1], s)
    <3>. SUFFICES ASSUME NEW i \in 1 .. n - 1, Starts(Pending[i + 1], s)
                  PROVE  FALSE
      OBVIOUS
    <3>1. i + 1 \in DOMAIN Pending /\ i + 1 # 1
      BY <1>2
    <3>. QED BY <1>3, <2>1, <3>1 DEF StartedOnce
  <2>4. \A i \in DOMAIN Pending' : ~Starts(Pending'[i], s)
    BY <1>2, <2>3
  <2>. QED BY <1>1, <1>3, <2>2, <2>4 DEF StartedOnce
<1>5. CASE ~Starts(Head(post_q), s)
  <2>1. \A i \in DOMAIN Pending' : i + 1 \in DOMAIN Pending /\ Pending'[i] = Pending[i + 1]
    BY <1>2
  <2>2. \A i, j \in DOMAIN Pending' : i + 1 = j + 1 => i = j
    BY <1>2
  <2>. QED BY <1>1, <1>3, <1>5, <2>1, <2>2 DEF StartedOnce
<1>. QED BY <1>4, <1>5

\* A terminal callback on a stream that had none is its only one.
LEMMA FirstTerminal ==
  ASSUME CbTypeOK, AtMostOneTerminal, NEW s \in Streams, NEW kind \in TerminalKinds,
         terminals[s] = <<>>,
         terminals' = [terminals EXCEPT ![s] = Append(@, kind)]
  PROVE  /\ AtMostOneTerminal'
         /\ terminals' = [terminals EXCEPT ![s] = <<kind>>]
<1>1. Append(terminals[s], kind) = <<kind>> /\ Len(<<kind>>) = 1
  OBVIOUS
<1>2. terminals' = [terminals EXCEPT ![s] = <<kind>>]
  BY <1>1
<1>3. \A r \in Streams : terminals'[r] = IF r = s THEN <<kind>> ELSE terminals[r]
  BY <1>2 DEF CbTypeOK
<1>. QED BY <1>1, <1>2, <1>3 DEF AtMostOneTerminal

\* A closure runs for a stream there is; one that starts its stream finds it
\* not started, and a stream in the map is one that the HCM may call.
LEMMA RunStream ==
  ASSUME TypeOK, LifeInv, RunClosure
  PROVE  /\ Head(post_q).stream \in Streams
         /\ runStartStream => hcm[Head(post_q).stream] = "none"
         /\ Head(post_q).stream \in streams_ => hcm[Head(post_q).stream] = "active"
<1>. DEFINE s == Head(post_q).stream
<1>1. s \in Streams
  BY HeadOfQueue DEF RunClosure, runStartStream, runSend, runCancelStream, Run, TypeOK
<1>2. runStartStream => Starts(Head(post_q), s)
  BY DEF runStartStream, Run, Starts
<1>3. Pending # <<>> /\ Pending \in Seq(Closures) /\ Pending[1] = Head(post_q)
  BY RunPending DEF LifeInv
<1>4. 1 \in DOMAIN Pending
  BY <1>3
<1>. HIDE DEF s
<1>5. runStartStream => hcm[s] = "none"
  BY <1>1, <1>2, <1>3, <1>4 DEF LifeInv, StartsOnce, StartedOnce
<1>6. s \in streams_ => hcm[s] = "active"
  BY <1>1 DEF LifeInv, MapMirrorsHcm
<1>. QED BY <1>1, <1>5, <1>6 DEF s

\* The posted closures preserve the invariant.
LEMMA RunLifeStep ==
  ASSUME TypeOK, LifeInv, RunClosure
  PROVE  LifeInv'
<1>. DEFINE s == Head(post_q).stream
<1>1. HandOver'
  BY RunPending DEF LifeInv
<1>2. /\ s \in Streams /\ (runStartStream => hcm[s] = "none")
      /\ s \in streams_ => hcm[s] = "active"
  BY RunStream
<1>. HIDE DEF s
<1>3. CASE runStartStream
  <2>1. hcm' = [hcm EXCEPT ![s] = "active"] /\ streams_' = streams_ \cup {s}
    BY <1>3 DEF runStartStream, s
  <2>2. Starts(Head(post_q), s)
    BY <1>3 DEF runStartStream, Run, Starts, s
  <2>3. StartsOnce'
    <3>1. ASSUME NEW r \in Streams
          PROVE  StartedOnce(r)'
      <4>1. r # s => hcm'[r] = hcm[r]
        BY <2>1 DEF TypeOK, HcmTypeOK
      <4>2. hcm'[s] = "active"
        BY <1>2, <2>1 DEF TypeOK, HcmTypeOK
      <4>. QED BY <2>2, <4>1, <4>2, RunStartsOnce
    <3>. QED BY <3>1 DEF StartsOnce
  <2>4. MapMirrorsHcm'
    BY <1>2, <2>1 DEF LifeInv, MapMirrorsHcm, TypeOK, HcmTypeOK
  <2>. QED BY <1>1, <2>3, <2>4 DEF LifeInv
<1>4. CASE runSend \/ (runCancelStream /\ s \notin streams_)
  <2>1. UNCHANGED <<streams_, hcm>>
    BY <1>4 DEF runSend, runCancelStream, CancelIfOpen, streamVars, s
  <2>2. StartsOnce'
    BY <2>1, RunStartsOnce DEF StartsOnce
  <2>. QED BY <1>1, <2>1, <2>2 DEF LifeInv, MapMirrorsHcm
<1>5. CASE runCancelStream /\ s \in streams_
  <2>1. hcm' = [hcm EXCEPT ![s] = "deferred"] /\ streams_' = streams_ \ {s}
    BY <1>5 DEF runCancelStream, CancelIfOpen, s
  <2>2. ASSUME NEW r \in Streams
        PROVE  StartedOnce(r)'
    <3>1. hcm[r] = "none" <=> hcm'[r] = "none"
      BY <1>2, <1>5, <2>1 DEF TypeOK, HcmTypeOK
    <3>. QED BY <3>1, RunStartsOnce
  <2>3. MapMirrorsHcm'
    BY <2>1 DEF LifeInv, MapMirrorsHcm, TypeOK, HcmTypeOK
  <2>. QED BY <1>1, <2>2, <2>3 DEF LifeInv, StartsOnce
<1>. QED BY <1>3, <1>4, <1>5 DEF RunClosure

\* What the HCM's calls do to the life of a stream: nothing, or they take it
\* out of the map for good.
LEMMA HcmCallEffect ==
  ASSUME LifeInv, NEW s \in Streams, HcmCall(s)
  PROVE  /\ UNCHANGED <<apiVars, queueVars, decoded>>
         /\ \/ UNCHANGED <<hcm, streams_>>
            \/ /\ hcm[s] \in {"active", "ended"}
               /\ \E next \in {"ended", "deferred"} : hcm' = [hcm EXCEPT ![s] = next]
               /\ streams_' = streams_ \ {s}
<1>1. ASSUME NEW h \in Replies, NEW end \in BOOLEAN, encodeHeaders(s, h, end)
      PROVE  /\ UNCHANGED <<apiVars, queueVars, decoded>> /\ hcm[s] = "active"
             /\ closeStream(s, end) /\ HcmAfterEncode(s, end)
  BY <1>1 DEF encodeHeaders, HcmReplies
<1>2. ASSUME NEW end \in BOOLEAN, encodeData(s, end)
      PROVE  /\ UNCHANGED <<apiVars, queueVars, decoded>> /\ hcm[s] = "active"
             /\ closeStream(s, end) /\ HcmAfterEncode(s, end)
  BY <1>2 DEF encodeData, HcmContinues
<1>3. ASSUME encodeTrailers(s)
      PROVE  /\ UNCHANGED <<apiVars, queueVars, decoded>> /\ hcm[s] = "active"
             /\ closeStream(s, TRUE) /\ HcmAfterEncode(s, TRUE)
  BY <1>3 DEF encodeTrailers, HcmContinues
<1>4. ASSUME resetStream(s)
      PROVE  /\ UNCHANGED <<apiVars, queueVars, decoded>>
             /\ hcm[s] \in {"active", "ended"} /\ hcm' = [hcm EXCEPT ![s] = "deferred"]
             /\ streams_' = streams_ \ {s}
  BY <1>4 DEF resetStream, HcmResets, ErrorIfOpen
<1>5. ASSUME HcmEndStream(s)
      PROVE  /\ UNCHANGED <<apiVars, queueVars, decoded>>
             /\ hcm[s] = "ended" /\ hcm' = [hcm EXCEPT ![s] = "deferred"]
             /\ streams_' = streams_ \ {s}
  BY <1>5 DEF HcmEndStream, streamVars, LifeInv, MapMirrorsHcm
<1>6. ASSUME NEW end \in BOOLEAN, closeStream(s, end), HcmAfterEncode(s, end)
      PROVE  \/ UNCHANGED <<hcm, streams_>>
             \/ hcm' = [hcm EXCEPT ![s] = "ended"] /\ streams_' = streams_ \ {s}
  BY <1>6 DEF closeStream, removeStream, HcmAfterEncode
<1>. QED BY <1>1, <1>2, <1>3, <1>4, <1>5, <1>6 DEF HcmCall

\* The HCM's calls preserve LifeInv.
LEMMA HcmLifeStep ==
  ASSUME TypeOK, LifeInv, NEW s \in Streams, HcmCall(s)
  PROVE  LifeInv'
<1>1. UNCHANGED <<apiVars, queueVars>>
  BY HcmCallEffect
<1>2. HandOver'
  BY <1>1 DEF LifeInv, HandOver, queueVars
<1>3. Pending' = Pending /\ call' = call /\ app' = app
      /\ current_stream_handle_' = current_stream_handle_
  BY <1>1 DEF apiVars, queueVars, Pending
<1>4. (\A r \in Streams : hcm'[r] = "none" <=> hcm[r] = "none") /\ MapMirrorsHcm'
  BY HcmCallEffect DEF LifeInv, MapMirrorsHcm, TypeOK, HcmTypeOK
<1>5. StartsOnce'
  BY <1>3, <1>4 DEF LifeInv, StartsOnce, StartedOnce
<1>. QED BY <1>2, <1>4, <1>5 DEF LifeInv

\* Clearing the deferred-delete list and stuttering preserve LifeInv.
LEMMA IdleLifeStep ==
  ASSUME LifeInv, ClearDeferred \/ UNCHANGED vars
  PROVE  LifeInv'
<1>1. UNCHANGED <<apiVars, queueVars, streamVars, hcmVars>>
  BY DEF ClearDeferred, vars
<1>. QED BY <1>1 DEF apiVars, queueVars, streamVars, hcmVars, LifeInv, HandOver,
       StartsOnce, StartedOnce, Pending, MapMirrorsHcm

\* Streams are started once and the map mirrors the HCM in every reachable
\* state, whether or not a filter rewrites the response.
THEOREM LifeCorrect == Spec => [](TypeOK /\ LifeInv)
<1>1. Init => LifeInv
  BY InitInv DEF DispatcherInv
<1>2. TypeOK /\ LifeInv /\ [Next]_vars => LifeInv'
  BY ApiLifeStep, QueueLifeStep, RunLifeStep, HcmLifeStep, IdleLifeStep DEF Next
<1>. QED BY <1>1, <1>2, TypeCorrect, PTL DEF Spec

\* streams_ holds exactly the streams the HCM may call back.
THEOREM MapMirrors == Spec => []MapMirrorsHcm
<1>1. LifeInv => MapMirrorsHcm
  BY DEF LifeInv
<1>. QED BY <1>1, LifeCorrect, PTL

\* Callers, post() and ready() touch nothing that the main thread owns.
LEMMA CallersEffect ==
  ASSUME init_stream \/ (\E t \in Threads : ApiCall(t) \/ post(t)) \/ Ready
  PROVE  UNCHANGED <<streamVars, heapVars, hcmVars, cbVars>>
<1>1. CASE init_stream
  BY <1>1 DEF init_stream
<1>2. ASSUME NEW t \in Threads, ApiCall(t)
      PROVE  UNCHANGED <<streamVars, heapVars, hcmVars, cbVars>>
  BY <1>2 DEF ApiCall, startStream, sendHeaders, sendData, sendTrailers,
     cancelStream, Send, Enter
<1>3. ASSUME NEW t \in Threads, post(t)
      PROVE  UNCHANGED <<streamVars, heapVars, hcmVars, cbVars>>
  BY <1>3 DEF post
<1>4. CASE Ready
  BY <1>4 DEF Ready, ReadyLock, ReadyDrain, ReadyPublish
<1>. QED BY <1>1, <1>2, <1>3, <1>4

\* The callbacks, apart from on_cancel, come from the HCM.
LEMMA QuietStep ==
  ASSUME OpenUntilClosed, AtMostOneTerminal,
         UNCHANGED <<streamVars, hcmVars, cbVars>>
  PROVE  OpenUntilClosed' /\ AtMostOneTerminal'
BY DEF streamVars, hcmVars, cbVars, OpenUntilClosed, AtMostOneTerminal

\* The posted closures preserve the invariant.
LEMMA RunInvStep ==
  ASSUME TypeOK, DispatcherInv, RunClosure
  PROVE  OpenUntilClosed' /\ AtMostOneTerminal'
<1>. DEFINE s == Head(post_q).stream
<1>1. /\ s \in Streams /\ (runStartStream => hcm[s] = "none")
      /\ s \in streams_ => hcm[s] = "active"
  BY RunStream DEF DispatcherInv
<1>. HIDE DEF s
<1>2. CASE runStartStream
  <2>1. /\ hcm' = [hcm EXCEPT ![s] = "active"]
        /\ UNCHANGED <<error_code_, reply, heard, terminals>>
    BY <1>2 DEF runStartStream, s, cbVars
  <2>. QED BY <1>1, <1>2, <2>1 DEF DispatcherInv, OpenUntilClosed,
         AtMostOneTerminal, TypeOK, HcmTypeOK
<1>3. CASE runSend
  BY <1>3 DEF runSend, DispatcherInv, OpenUntilClosed, AtMostOneTerminal,
     streamVars, cbVars
<1>4. CASE runCancelStream /\ s \in streams_
  <2>1. /\ hcm' = [hcm EXCEPT ![s] = "deferred"]
        /\ terminals' = [terminals EXCEPT ![s] = Append(@, "cancel")]
        /\ UNCHANGED <<error_code_, reply, heard>>
    BY <1>4 DEF runCancelStream, CancelIfOpen, s, onCancel, Terminal
  <2>2. terminals[s] = <<>>
    BY <1>1, <1>4 DEF DispatcherInv, OpenUntilClosed
  <2>3. OpenUntilClosed'
    BY <2>1 DEF DispatcherInv, OpenUntilClosed, TypeOK, HcmTypeOK, CbTypeOK
  <2>4. AtMostOneTerminal'
    BY <1>1, <2>1, <2>2, FirstTerminal DEF DispatcherInv, TypeOK, TerminalKinds
  <2>. QED BY <2>3, <2>4
<1>5. CASE runCancelStream /\ s \notin streams_
  <2>1. UNCHANGED <<hcm, terminals, error_code_, reply, heard>>
    BY <1>5 DEF runCancelStream, CancelIfOpen, s
  <2>. QED BY <2>1 DEF DispatcherInv, OpenUntilClosed, AtMostOneTerminal
<1>. QED BY <1>2, <1>3, <1>4, <1>5 DEF RunClosure

\* A step of the HCM that closes a stream, s, with one terminal callback.
LEMMA ClosingStep ==
  ASSUME TypeOK, DispatcherInv,
         NEW s \in Streams, NEW kind \in TerminalKinds,
         NEW next \in {"ended", "deferred"},
         hcm[s] = "active", hcm' = [hcm EXCEPT ![s] = next],
         terminals' = [terminals EXCEPT ![s] = Append(@, kind)],
         \A r \in Streams \ {s} : /\ error_code_'[r] = error_code_[r]
                                  /\ reply'[r] = reply[r] /\ heard'[r] = heard[r]
  PROVE  OpenUntilClosed' /\ AtMostOneTerminal'
<1>1. \A r \in Streams : hcm'[r] = IF r = s THEN next ELSE hcm[r]
  BY DEF TypeOK, HcmTypeOK
<1>2. AtMostOneTerminal' /\ terminals' = [terminals EXCEPT ![s] = <<kind>>]
  BY FirstTerminal DEF DispatcherInv, OpenUntilClosed, TypeOK
<1>3. \A r \in Streams \ {s} : terminals'[r] = terminals[r]
  BY <1>2 DEF TypeOK, CbTypeOK
<1>4. OpenUntilClosed'
  BY <1>1, <1>3 DEF DispatcherInv, OpenUntilClosed
<1>. QED BY <1>2, <1>4

\* A step of the HCM on an open stream s that leaves it open.
LEMMA OpenStep ==
  ASSUME TypeOK, DispatcherInv, NEW s \in Streams, hcm[s] = "active",
         UNCHANGED <<hcm, terminals>>,
         \A r \in Streams \ {s} : /\ error_code_'[r] = error_code_[r]
                                  /\ reply'[r] = reply[r] /\ heard'[r] = heard[r],
         error_code_'[s] # NoCode <=> reply'[s] # NoReply /\ IsLocalError(reply'[s]),
         IF reply'[s] = NoReply \/ IsLocalError(reply'[s])
         THEN heard'[s] = "nothing" ELSE heard'[s] \in {"headers", "data"}
  PROVE  OpenUntilClosed' /\ AtMostOneTerminal'
BY DEF DispatcherInv, OpenUntilClosed, AtMostOneTerminal

\* The HCM lets go of a stream whose response has ended.
LEMMA AfterEndStep ==
  ASSUME TypeOK, DispatcherInv, NEW s \in Streams, hcm[s] = "ended",
         hcm' = [hcm EXCEPT ![s] = "deferred"],
         UNCHANGED <<terminals, error_code_, reply, heard>>
  PROVE  OpenUntilClosed' /\ AtMostOneTerminal'
<1>1. \A r \in Streams : hcm'[r] = IF r = s THEN "deferred" ELSE hcm[r]
  BY DEF TypeOK, HcmTypeOK
<1>. QED BY <1>1 DEF DispatcherInv, OpenUntilClosed, AtMostOneTerminal

\* What the HCM does to a stream, provided that no filter makes an upstream
\* failure look like a local reply.
LEMMA HcmInvStep ==
  ASSUME TypeOK, DispatcherInv, ~FilterMayStrip, NEW s \in Streams, HcmCall(s)
  PROVE  OpenUntilClosed' /\ AtMostOneTerminal'
<1>1. ASSUME NEW h \in Replies, NEW end \in BOOLEAN, encodeHeaders(s, h, end)
      PROVE  OpenUntilClosed' /\ AtMostOneTerminal'
  <2>. USE <1>1 DEF encodeHeaders
  <2>1. /\ hcm[s] = "active" /\ reply[s] = NoReply
        /\ reply' = [reply EXCEPT ![s] = h] /\ UNCHANGED <<apiVars, queueVars>>
    BY DEF HcmReplies
  <2>2. \A r \in Streams \ {s} : /\ error_code_'[r] = error_code_[r]
                                 /\ reply'[r] = reply[r] /\ heard'[r] = heard[r]
    BY DEF TypeOK, StreamTypeOK, HcmTypeOK, CbTypeOK
  <2>3. CASE end
    <3>1. hcm' = [hcm EXCEPT ![s] = "ended"] /\ streams_' = streams_ \ {s}
      BY <2>3 DEF HcmAfterEncode, closeStream, removeStream
    <3>2. \E kind \in TerminalKinds :
            terminals' = [terminals EXCEPT ![s] = Append(@, kind)]
      BY <2>3 DEF onError, onComplete, Terminal, TerminalKinds
    <3>. QED BY <2>1, <2>2, <3>1, <3>2, ClosingStep
  <2>4. CASE ~end
    <3>1. UNCHANGED <<hcm, streams_, terminals>>
      BY <2>4 DEF HcmAfterEncode, closeStream
    <3>2. reply'[s] = h /\ h # NoReply
      <4>1. h.status # NoReply.status
        BY DEF Replies, NoReply
      <4>. QED BY <2>1, <4>1 DEF TypeOK, HcmTypeOK
    <3>3. CASE IsLocalError(h)
      <4>1. error_code_'[s] # NoCode
        BY <3>3 DEF mapLocalResponseToError, NoCode, TypeOK, StreamTypeOK
      <4>2. heard'[s] = "nothing"
        BY <2>1, <3>3 DEF DispatcherInv, OpenUntilClosed
      <4>. QED BY <2>1, <2>2, <3>1, <3>2, <3>3, <4>1, <4>2, OpenStep
    <3>4. CASE ~IsLocalError(h)
      <4>1. error_code_'[s] = NoCode
        BY <2>1, <3>4 DEF DispatcherInv, OpenUntilClosed
      <4>2. heard'[s] = "headers"
        BY <2>4, <3>4 DEF TypeOK, CbTypeOK
      <4>. QED BY <2>1, <2>2, <3>1, <3>2, <3>4, <4>1, <4>2, OpenStep
    <3>. QED BY <3>3, <3>4
  <2>. QED BY <2>3, <2>4
<1>2. ASSUME NEW end \in BOOLEAN, encodeData(s, end)
      PROVE  OpenUntilClosed' /\ AtMostOneTerminal'
  <2>. USE <1>2 DEF encodeData
  <2>1. /\ hcm[s] = "active" /\ reply[s] # NoReply
        /\ IsLocalError(reply[s]) => end
        /\ UNCHANGED <<apiVars, queueVars, error_code_, reply>>
    BY DEF HcmContinues
  <2>2. \A r \in Streams \ {s} : /\ error_code_'[r] = error_code_[r]
                                 /\ reply'[r] = reply[r] /\ heard'[r] = heard[r]
    BY <2>1 DEF TypeOK, CbTypeOK
  <2>3. CASE end
    <3>1. hcm' = [hcm EXCEPT ![s] = "ended"] /\ streams_' = streams_ \ {s}
      BY <2>3 DEF HcmAfterEncode, closeStream, removeStream
    <3>2. \E kind \in TerminalKinds :
            terminals' = [terminals EXCEPT ![s] = Append(@, kind)]
      BY <2>3 DEF onError, onComplete, Terminal, TerminalKinds
    <3>. QED BY <2>1, <2>2, <3>1, <3>2, ClosingStep
  <2>4. CASE ~end
    <3>1. ~IsLocalError(reply[s]) /\ error_code_[s] = NoCode
      BY <2>1, <2>4 DEF DispatcherInv, OpenUntilClosed
    <3>2. UNCHANGED <<hcm, streams_, terminals>> /\ heard'[s] = "data"
      BY <2>4, <3>1 DEF HcmAfterEncode, closeStream, TypeOK, CbTypeOK
    <3>. QED BY <2>1, <2>2, <3>1, <3>2, OpenStep
  <2>. QED BY <2>3, <2>4
<1>3. CASE encodeTrailers(s)
  <2>. USE <1>3 DEF encodeTrailers
  <2>1. hcm[s] = "active" /\ UNCHANGED <<apiVars, queueVars, error_code_, reply>>
    BY DEF HcmContinues
  <2>2. \A r \in Streams \ {s} : heard'[r] = heard[r]
    BY DEF TypeOK, CbTypeOK
  <2>3. hcm' = [hcm EXCEPT ![s] = "ended"] /\ streams_' = streams_ \ {s}
    BY DEF HcmAfterEncode, closeStream, removeStream
  <2>4. terminals' = [terminals EXCEPT ![s] = Append(@, "complete")]
    BY DEF onComplete, Terminal
  <2>. QED BY <2>1, <2>2, <2>3, <2>4, ClosingStep DEF TerminalKinds
<1>4. CASE resetStream(s)
  <2>. USE <1>4 DEF resetStream, ErrorIfOpen
  <2>1. UNCHANGED <<apiVars, queueVars, error_code_, reply, heard>>
    OBVIOUS
  <2>2. CASE s \in streams_
    <3>1. terminals' = [terminals EXCEPT ![s] = Append(@, "error")]
      BY <2>2 DEF onError, Terminal
    <3>2. hcm[s] = "active"
      BY <2>2 DEF DispatcherInv, LifeInv, MapMirrorsHcm
    <3>. QED BY <2>1, <2>2, <3>1, <3>2, ClosingStep DEF TerminalKinds
  <2>3. CASE s \notin streams_
    <3>1. UNCHANGED <<streams_, terminals>> /\ hcm' = [hcm EXCEPT ![s] = "deferred"]
      BY <2>3
    <3>2. hcm[s] = "ended"
      BY <2>3 DEF HcmResets, DispatcherInv, LifeInv, MapMirrorsHcm
    <3>. QED BY <2>1, <3>1, <3>2, AfterEndStep
  <2>. QED BY <2>2, <2>3
<1>5. CASE HcmEndStream(s)
  BY <1>5, AfterEndStep DEF HcmEndStream, streamVars, cbVars
<1>. QED BY <1>1, <1>2, <1>3, <1>4, <1>5 DEF HcmCall

\* The inductive invariant, as long as no filter strips the header by which
\* encodeHeaders tells an upstream failure from a local reply.
THEOREM InvCorrect ==
  ASSUME ~FilterMayStrip
  PROVE  Spec => [](TypeOK /\ DispatcherInv)
<1>1. TypeOK /\ DispatcherInv /\ [Next]_vars => OpenUntilClosed' /\ AtMostOneTerminal'
  <2>. SUFFICES ASSUME TypeOK, DispatcherInv, [Next]_vars
                PROVE  OpenUntilClosed' /\ AtMostOneTerminal'
    OBVIOUS
  <2>1. CASE UNCHANGED <<streamVars, hcmVars, cbVars>>
    BY <2>1, QuietStep DEF DispatcherInv
  <2>2. CASE ClearDeferred \/ UNCHANGED vars
    BY <2>1, <2>2 DEF ClearDeferred, vars
  <2>. QED BY <2>1, <2>2, CallersEffect, RunInvStep, HcmInvStep DEF Next
<1>2. Init => OpenUntilClosed /\ AtMostOneTerminal
  BY InitInv DEF DispatcherInv
<1>3. TypeOK /\ LifeInv /\ OpenUntilClosed /\ AtMostOneTerminal <=> TypeOK /\ DispatcherInv
  BY DEF DispatcherInv
<1>. QED BY <1>1, <1>2, <1>3, LifeCorrect, PTL DEF Spec

\* No stream ever gets two terminal callbacks, for any number of threads,
\* streams, frames and cancels.
THEOREM OneTerminalPerStream ==
  ASSUME ~FilterMayStrip
  PROVE  Spec => []AtMostOneTerminal
<1>1. DispatcherInv => AtMostOneTerminal
  BY DEF DispatcherInv
<1>. QED BY <1>1, InvCorrect, PTL
-----------------------------------------------------------------------------
(* The dispatcher implements the contract of its callbacks *)

\* A terminal callback of an open stream that leaves heard alone.
LEMMA FailStep ==
  ASSUME TypeOK, DispatcherInv, NEW s \in Streams, hcm[s] = "active",
         NEW kind \in {"error", "cancel"}, UNCHANGED heard,
         terminals' = [terminals EXCEPT ![s] = Append(@, kind)]
  PROVE  Contract!Next
<1>1. terminals[s] = <<>> /\ kind \in TerminalKinds
  BY DEF DispatcherInv, OpenUntilClosed, TerminalKinds
<1>2. terminals' = [terminals EXCEPT ![s] = <<kind>>]
  BY <1>1, FirstTerminal DEF DispatcherInv, TypeOK
<1>. QED BY <1>1, <1>2 DEF Contract!Next, Contract!Fail, Contract!Open

\* The final frame of an open stream, with on_complete.
LEMMA CompleteStep ==
  ASSUME TypeOK, DispatcherInv, NEW s \in Streams, hcm[s] = "active",
         heard' = [heard EXCEPT ![s] = "end"],
         terminals' = [terminals EXCEPT ![s] = Append(@, "complete")]
  PROVE  Contract!Next
<1>1. terminals[s] = <<>> /\ heard[s] # "end"
  BY DEF DispatcherInv, OpenUntilClosed
<1>2. terminals' = [terminals EXCEPT ![s] = <<"complete">>]
  BY <1>1, FirstTerminal DEF DispatcherInv, TypeOK, TerminalKinds
<1>. QED BY <1>1, <1>2 DEF Contract!Next, Contract!Complete, Contract!Open

\* Every HCM callback is a step of the contract, or invisible to it.
LEMMA HcmContractStep ==
  ASSUME TypeOK, DispatcherInv, ~FilterMayStrip, NEW s \in Streams, HcmCall(s)
  PROVE  Contract!Next \/ UNCHANGED <<heard, terminals>>
<1>1. ASSUME NEW h \in Replies, NEW end \in BOOLEAN, encodeHeaders(s, h, end)
      PROVE  Contract!Next \/ UNCHANGED <<heard, terminals>>
  <2>. USE <1>1 DEF encodeHeaders
  <2>1. hcm[s] = "active" /\ reply[s] = NoReply
    BY DEF HcmReplies
  <2>2. terminals[s] = <<>> /\ heard[s] = "nothing"
    BY <2>1 DEF DispatcherInv, OpenUntilClosed
  <2>3. CASE IsLocalError(h)
    BY <2>1, <2>3, FailStep DEF onError, Terminal
  <2>4. CASE ~IsLocalError(h) /\ end
    BY <2>1, <2>4, CompleteStep DEF onComplete, Terminal
  <2>5. CASE ~IsLocalError(h) /\ ~end
    BY <2>2, <2>5 DEF Contract!Next, Contract!Frame, Contract!Open
  <2>. QED BY <2>3, <2>4, <2>5
<1>2. ASSUME NEW end \in BOOLEAN, encodeData(s, end)
      PROVE  Contract!Next
  <2>. USE <1>2 DEF encodeData
  <2>1. hcm[s] = "active" /\ reply[s] # NoReply /\ (IsLocalError(reply[s]) => end)
    BY DEF HcmContinues
  <2>2. CASE error_code_[s] # NoCode
    BY <2>1, <2>2, FailStep DEF onError, Terminal
  <2>3. CASE error_code_[s] = NoCode /\ end
    BY <2>1, <2>3, CompleteStep DEF onComplete, Terminal
  <2>4. CASE error_code_[s] = NoCode /\ ~end
    <3>1. terminals[s] = <<>> /\ heard[s] \in {"headers", "data"}
      BY <2>1, <2>4 DEF DispatcherInv, OpenUntilClosed
    <3>. QED BY <2>4, <3>1 DEF Contract!Next, Contract!Frame, Contract!Open
  <2>. QED BY <2>2, <2>3, <2>4
<1>3. CASE encodeTrailers(s)
  BY <1>3, CompleteStep DEF encodeTrailers, HcmContinues, onComplete, Terminal
<1>4. CASE resetStream(s)
  <2>1. s \in streams_ => hcm[s] = "active"
    BY DEF DispatcherInv, LifeInv, MapMirrorsHcm
  <2>. QED BY <1>4, <2>1, FailStep DEF resetStream, ErrorIfOpen, onError, Terminal
<1>5. CASE HcmEndStream(s)
  BY <1>5 DEF HcmEndStream, cbVars
<1>. QED BY <1>1, <1>2, <1>3, <1>4, <1>5 DEF HcmCall

\* Every posted closure is a step of the contract, or invisible to it.
LEMMA RunContractStep ==
  ASSUME TypeOK, DispatcherInv, RunClosure
  PROVE  Contract!Next \/ UNCHANGED <<heard, terminals>>
<1>. DEFINE s == Head(post_q).stream
<1>1. s \in Streams
  BY HeadOfQueue DEF RunClosure, runStartStream, runSend, runCancelStream, Run, TypeOK
<1>2. s \in streams_ => hcm[s] = "active"
  BY <1>1 DEF DispatcherInv, LifeInv, MapMirrorsHcm
<1>. HIDE DEF s
<1>3. CASE runCancelStream
  <2>1. heard' = heard /\ CancelIfOpen(s)
    BY <1>3 DEF runCancelStream, s
  <2>2. CASE s \in streams_
    <3>1. terminals' = [terminals EXCEPT ![s] = Append(@, "cancel")]
      BY <2>1, <2>2 DEF CancelIfOpen, onCancel, Terminal
    <3>. QED BY <1>1, <1>2, <2>1, <2>2, <3>1, FailStep
  <2>3. CASE s \notin streams_
    BY <2>1, <2>3 DEF CancelIfOpen
  <2>. QED BY <2>2, <2>3
<1>4. CASE runStartStream \/ runSend
  BY <1>4 DEF runStartStream, runSend, cbVars
<1>. QED BY <1>3, <1>4 DEF RunClosure

\* Whatever the threads, the HCM and the event loop do, the owner of every
\* stream sees response frames in order, then at most one terminal callback,
\* on_complete only with the final frame, and nothing afterwards.
THEOREM DispatcherImplementsContract ==
  ASSUME ~FilterMayStrip
  PROVE  Spec => ImplementsContract
<1>1. Init => Contract!Init
  BY DEF Init, Contract!Init
<1>2. TypeOK /\ DispatcherInv /\ [Next]_vars => [Contract!Next]_(Contract!vars)
  <2>. SUFFICES ASSUME TypeOK, DispatcherInv, [Next]_vars
                PROVE  Contract!Next \/ UNCHANGED <<heard, terminals>>
    BY DEF Contract!vars
  <2>1. CASE init_stream \/ (\E t \in Threads : ApiCall(t) \/ post(t)) \/ Ready
    BY <2>1, CallersEffect DEF cbVars
  <2>2. CASE ClearDeferred \/ UNCHANGED vars
    BY <2>2 DEF ClearDeferred, vars, cbVars
  <2>. QED BY <2>1, <2>2, RunContractStep, HcmContractStep DEF Next
<1>. QED BY <1>1, <1>2, InvCorrect, PTL DEF Spec, ImplementsContract, Contract!Spec
-----------------------------------------------------------------------------
(* The two queues and ready() are one FIFO queue *)

\* Actions that neither post nor run a closure leave both queues alone.
LEMMA QueueUntouched ==
  ASSUME \/ init_stream \/ (\E t \in Threads : ApiCall(t))
         \/ (\E s \in Streams : HcmCall(s)) \/ ClearDeferred \/ UNCHANGED vars
  PROVE  UNCHANGED queueVars
BY DEF init_stream, ApiCall, startStream, sendHeaders, sendData, sendTrailers,
   cancelStream, Send, Enter, HcmCall, encodeHeaders, encodeData, encodeTrailers,
   resetStream, HcmEndStream, ClearDeferred, vars

\* The hand-over part of the invariant is inductive by itself: it needs nothing
\* of the streams.
LEMMA HandOverStep == TypeOK /\ HandOver /\ [Next]_vars => HandOver'
<1>. SUFFICES ASSUME TypeOK, HandOver, [Next]_vars PROVE HandOver'
  OBVIOUS
<1>1. ASSUME NEW t \in Threads, post(t) PROVE HandOver'
  BY <1>1 DEF post, enqueue, HandOver, TypeOK, QueueTypeOK
<1>2. CASE UNCHANGED queueVars
  BY <1>2 DEF queueVars, HandOver
<1>. QED BY <1>1, <1>2, ReadyPending, RunPending, QueueUntouched DEF Next

\* However early a thread posts and however its post interleaves with
\* ready(), no closure is lost, repeated or overtaken.
THEOREM DispatcherImplementsPostQueue == Spec => ImplementsPostQueue
<1>1. Init => HandOver
  BY DEF Init, HandOver
<1>2. Spec => [](TypeOK /\ HandOver)
  BY <1>1, TypeCorrect, HandOverStep, PTL DEF Spec
<1>3. Init => Queue!Init
  BY DEF Init, Queue!Init, Pending
<1>4. TypeOK /\ HandOver /\ [Next]_vars => [Queue!Next]_(Queue!vars)
  <2>. SUFFICES ASSUME TypeOK, HandOver, [Next]_vars
                PROVE  Queue!Next \/ UNCHANGED <<call, Pending>>
    BY DEF Queue!vars
  <2>1. CASE UNCHANGED queueVars /\ UNCHANGED call
    BY <2>1 DEF queueVars, Pending
  <2>2. ASSUME NEW t \in Threads, NEW c \in Closures, Enter(t, c)
        PROVE  Queue!Next
    <3>1. UNCHANGED Pending /\ call[t] = NoCall /\ call' = [call EXCEPT ![t] = c]
      BY <2>2 DEF Enter, queueVars, Pending
    <3>. QED BY <3>1 DEF Queue!Next, Queue!Begin
  <2>3. ASSUME NEW t \in Threads, ApiCall(t)
        PROVE  Queue!Next
    <3>1. ASSUME NEW op \in {"startStream", "sendHeaders", "sendData",
                             "sendTrailers", "cancelStream"},
                 NEW s \in Streams, NEW end \in BOOLEAN
          PROVE  Closure(op, s, end) \in Closures
      BY DEF Closure, Closures
    <3>2. \E c \in Closures : Enter(t, c)
      BY <2>3, <3>1 DEF ApiCall, startStream, sendHeaders, sendData,
         sendTrailers, cancelStream, Send
    <3>. QED BY <2>2, <3>2
  <2>4. ASSUME NEW t \in Threads, post(t)
        PROVE  Queue!Next
    <3>1. Pending' = Append(Pending, call[t])
      BY <2>4, PostPending
    <3>. QED BY <2>4, <3>1 DEF post, Queue!Next, Queue!Put
  <2>5. CASE Ready
    <3>1. call' = call
      BY <2>5 DEF Ready, ReadyLock, ReadyDrain, ReadyPublish, apiVars
    <3>. QED BY <2>5, <3>1, ReadyPending
  <2>6. CASE RunClosure
    <3>1. Pending # <<>> /\ Pending' = Tail(Pending) /\ call' = call
      BY <2>6, RunPending DEF apiVars
    <3>. QED BY <3>1 DEF Queue!Next, Queue!Take
  <2>7. CASE \/ init_stream \/ (\E s \in Streams : HcmCall(s))
             \/ ClearDeferred \/ UNCHANGED vars
    <3>1. UNCHANGED call
      BY <2>7 DEF init_stream, HcmCall, encodeHeaders, encodeData, encodeTrailers,
         resetStream, HcmEndStream, ClearDeferred, vars, apiVars
    <3>. QED BY <2>1, <2>7, <3>1, QueueUntouched
  <2>. QED BY <2>3, <2>4, <2>5, <2>6, <2>7 DEF Next
<1>. QED BY <1>2, <1>3, <1>4, PTL DEF Spec, ImplementsPostQueue, Queue!Spec
-----------------------------------------------------------------------------
(* The DirectStream outlives the calls of the HCM *)

\* What a list contains after objects are added at its end.
LEMMA ContainsAppend ==
  ASSUME NEW T, NEW q \in Seq(T), NEW x \in T, NEW e
  PROVE  Contains(Append(q, x), e) <=> Contains(q, e) \/ e = x
<1>1. /\ Len(Append(q, x)) = Len(q) + 1 /\ Len(q) \in Nat
      /\ Append(q, x)[Len(q) + 1] = x
      /\ \A i \in 1 .. Len(q) : Append(q, x)[i] = q[i]
  OBVIOUS
<1>. QED BY <1>1 DEF Contains

\* The same for two lists.
LEMMA ContainsConcat ==
  ASSUME NEW T, NEW q \in Seq(T), NEW r \in Seq(T), NEW e
  PROVE  Contains(q \o r, e) <=> Contains(q, e) \/ Contains(r, e)
<1>. DEFINE m == Len(q)   n == Len(r)   u == q \o r
<1>1. /\ Len(u) = m + n /\ m \in Nat /\ n \in Nat
      /\ \A i \in 1 .. m : u[i] = q[i]
      /\ \A i \in 1 .. n : u[m + i] = r[i]
  OBVIOUS
<1>. HIDE DEF m, n, u
<1>2. ASSUME NEW i \in 1 .. m + n, u[i] = e
      PROVE  (\E j \in 1 .. m : q[j] = e) \/ (\E j \in 1 .. n : r[j] = e)
  <2>1. CASE i <= m
    BY <1>1, <1>2, <2>1
  <2>2. CASE i > m
    <3>1. i - m \in 1 .. n /\ m + (i - m) = i
      BY <1>1, <2>2
    <3>. QED BY <1>1, <1>2, <3>1
  <2>. QED BY <1>1, <2>1, <2>2
<1>3. ASSUME NEW i \in 1 .. m, q[i] = e
      PROVE  \E j \in 1 .. m + n : u[j] = e
  BY <1>1, <1>3
<1>4. ASSUME NEW i \in 1 .. n, r[i] = e
      PROVE  \E j \in 1 .. m + n : u[j] = e
  <2>1. m + i \in 1 .. m + n
    BY <1>1
  <2>. QED BY <1>1, <1>4, <2>1
<1>. QED BY <1>1, <1>2, <1>3, <1>4 DEF Contains, m, n, u

\* What a list of two objects contains.
LEMMA ContainsPair ==
  ASSUME NEW x, NEW y, NEW e
  PROVE  Contains(<<x, y>>, e) <=> e = x \/ e = y
<1>1. Len(<<x, y>>) = 2 /\ <<x, y>>[1] = x /\ <<x, y>>[2] = y
  OBVIOUS
<1>2. 1 .. 2 = {1, 2}
  OBVIOUS
<1>. QED BY <1>1, <1>2 DEF Contains

\* The inductive invariant behind DirectStreamOutlivesCalls.  The DirectStream
\* waits on the deferred-delete list while the HCM is still on the stack; that
\* list is only cleared when it is not.
HeapInv ==
  \A s \in Streams :
    /\ hcm[s] # "deferred" => /\ ~Contains(deferred, ActiveStream(s))
                              /\ ~Contains(freed, ActiveStream(s))
                              /\ ~Contains(freed, DirectStream(s))
    /\ hcm[s] \in {"none", "active"} => ~Contains(deferred, DirectStream(s))

\* Objects of different streams, and the two of one stream, differ.
LEMMA ObjectsDiffer ==
  ASSUME NEW s \in Streams, NEW r \in Streams
  PROVE  /\ DirectStream(s) \in Objects /\ ActiveStream(s) \in Objects
         /\ DirectStream(s) # ActiveStream(r)
         /\ r # s => DirectStream(s) # DirectStream(r) /\ ActiveStream(s) # ActiveStream(r)
BY DEF DirectStream, ActiveStream, Objects

\* A step that defers objects of stream s only, the ActiveStream only when the
\* HCM is done with it.
LEMMA DeferStep ==
  ASSUME TypeOK, HeapInv, UNCHANGED freed, NEW s \in Streams,
         NEW next \in {"ended", "deferred"},
         hcm' = [hcm EXCEPT ![s] = next],
         next = "ended" => hcm[s] = "active",
         \A e : Contains(deferred', e) =>
                  \/ Contains(deferred, e)
                  \/ e = DirectStream(s)
                  \/ e = ActiveStream(s) /\ next = "deferred"
  PROVE  HeapInv'
<1>1. \A r \in Streams : hcm'[r] = IF r = s THEN next ELSE hcm[r]
  BY DEF TypeOK, HcmTypeOK
<1>. SUFFICES ASSUME NEW r \in Streams
              PROVE  /\ hcm'[r] # "deferred" => /\ ~Contains(deferred', ActiveStream(r))
                                                /\ ~Contains(freed', ActiveStream(r))
                                                /\ ~Contains(freed', DirectStream(r))
                     /\ hcm'[r] \in {"none", "active"} => ~Contains(deferred', DirectStream(r))
  BY DEF HeapInv
<1>2. CASE r = s
  BY <1>1, <1>2, ObjectsDiffer DEF HeapInv
<1>3. CASE r # s
  BY <1>1, <1>3, ObjectsDiffer DEF HeapInv
<1>. QED BY <1>2, <1>3

\* closeStream and the HCM that goes on after it.
LEMMA CloseHeapStep ==
  ASSUME TypeOK, HeapInv, NEW s \in Streams, NEW end \in BOOLEAN,
         hcm[s] = "active", closeStream(s, end), HcmAfterEncode(s, end)
  PROVE  HeapInv'
<1>1. CASE end
  <2>1. /\ deferred' = Append(deferred, DirectStream(s)) /\ freed' = freed
        /\ hcm' = [hcm EXCEPT ![s] = "ended"]
    BY <1>1 DEF closeStream, removeStream, HcmAfterEncode
  <2>2. deferred \in Seq(Objects) /\ DirectStream(s) \in Objects
    BY ObjectsDiffer DEF TypeOK, HeapTypeOK
  <2>3. \A e : Contains(deferred', e) => Contains(deferred, e) \/ e = DirectStream(s)
    BY <2>1, <2>2, ContainsAppend
  <2>. QED BY <2>1, <2>3, DeferStep
<1>2. CASE ~end
  BY <1>2 DEF closeStream, HcmAfterEncode, HeapInv
<1>. QED BY <1>1, <1>2

\* The HCM's calls.
LEMMA HcmHeapStep ==
  ASSUME TypeOK, LifeInv, HeapInv, NEW s \in Streams, HcmCall(s)
  PROVE  HeapInv'
<1>0. deferred \in Seq(Objects) /\ DirectStream(s) \in Objects /\ ActiveStream(s) \in Objects
  BY ObjectsDiffer DEF TypeOK, HeapTypeOK
<1>1. ASSUME NEW h \in Replies, NEW end \in BOOLEAN, encodeHeaders(s, h, end)
      PROVE  HeapInv'
  BY <1>1, CloseHeapStep DEF encodeHeaders, HcmReplies
<1>2. ASSUME NEW end \in BOOLEAN, encodeData(s, end)
      PROVE  HeapInv'
  BY <1>2, CloseHeapStep DEF encodeData, HcmContinues
<1>3. CASE encodeTrailers(s)
  BY <1>3, CloseHeapStep DEF encodeTrailers, HcmContinues
<1>4. ASSUME freed' = freed, hcm' = [hcm EXCEPT ![s] = "deferred"],
             \/ deferred' = Append(deferred, ActiveStream(s))
             \/ deferred' = deferred \o <<ActiveStream(s), DirectStream(s)>>
      PROVE  HeapInv'
  <2>1. \A e : Contains(deferred', e) =>
                 Contains(deferred, e) \/ e = DirectStream(s) \/ e = ActiveStream(s)
    <3>1. CASE deferred' = Append(deferred, ActiveStream(s))
      BY <1>0, <3>1, ContainsAppend
    <3>2. CASE deferred' = deferred \o <<ActiveStream(s), DirectStream(s)>>
      <4>1. <<ActiveStream(s), DirectStream(s)>> \in Seq(Objects)
        BY <1>0
      <4>2. ASSUME NEW e
            PROVE  Contains(deferred', e) =>
                     Contains(deferred, e) \/ Contains(<<ActiveStream(s), DirectStream(s)>>, e)
        BY <1>0, <3>2, <4>1, ContainsConcat
      <4>. QED BY <4>2, ContainsPair
    <3>. QED BY <1>4, <3>1, <3>2
  <2>. QED BY <1>4, <2>1, DeferStep
<1>5. CASE resetStream(s)
  BY <1>4, <1>5 DEF resetStream, ErrorIfOpen
<1>6. CASE HcmEndStream(s)
  BY <1>4, <1>6 DEF HcmEndStream
<1>. QED BY <1>1, <1>2, <1>3, <1>5, <1>6 DEF HcmCall

\* The posted closures.
LEMMA RunHeapStep ==
  ASSUME TypeOK, LifeInv, HeapInv, RunClosure
  PROVE  HeapInv'
<1>. DEFINE s == Head(post_q).stream
<1>1. s \in Streams /\ (runStartStream => hcm[s] = "none")
  BY RunStream
<1>. HIDE DEF s
<1>2. CASE runStartStream
  <2>1. hcm' = [hcm EXCEPT ![s] = "active"] /\ UNCHANGED heapVars
    BY <1>2 DEF runStartStream, s
  <2>. QED BY <1>1, <1>2, <2>1 DEF HeapInv, heapVars, TypeOK, HcmTypeOK
<1>3. CASE runSend \/ (runCancelStream /\ s \notin streams_)
  <2>1. UNCHANGED <<hcm, deferred, freed>>
    BY <1>3 DEF runSend, runCancelStream, CancelIfOpen, heapVars, s
  <2>. QED BY <2>1 DEF HeapInv
<1>4. CASE runCancelStream /\ s \in streams_
  <2>1. /\ hcm' = [hcm EXCEPT ![s] = "deferred"] /\ freed' = freed
        /\ deferred' = deferred \o <<DirectStream(s), ActiveStream(s)>>
    BY <1>4 DEF runCancelStream, CancelIfOpen, s
  <2>2. deferred \in Seq(Objects) /\ <<DirectStream(s), ActiveStream(s)>> \in Seq(Objects)
    BY <1>1, ObjectsDiffer DEF TypeOK, HeapTypeOK
  <2>3. \A e : Contains(deferred', e) =>
                 Contains(deferred, e) \/ e = DirectStream(s) \/ e = ActiveStream(s)
    BY <2>1, <2>2, ContainsConcat, ContainsPair
  <2>. QED BY <1>1, <2>1, <2>3, DeferStep
<1>. QED BY <1>2, <1>3, <1>4 DEF RunClosure

\* The event loop clears the list only when no HCM call is on the stack.
LEMMA ClearHeapStep ==
  ASSUME TypeOK, HeapInv, ClearDeferred
  PROVE  HeapInv'
<1>1. /\ \A s \in Streams : hcm[s] # "ended"
      /\ hcm' = hcm /\ deferred' = <<>> /\ freed' = freed \o deferred
  BY DEF ClearDeferred, MainIdle, hcmVars
<1>2. \A e : ~Contains(deferred', e)
  BY <1>1 DEF Contains
<1>3. \A e : Contains(freed', e) => Contains(freed, e) \/ Contains(deferred, e)
  BY <1>1, ContainsConcat DEF TypeOK, HeapTypeOK
<1>4. \A s \in Streams : hcm[s] # "deferred" => hcm[s] \in {"none", "active"}
  BY <1>1 DEF TypeOK, HcmTypeOK
<1>. QED BY <1>1, <1>2, <1>3, <1>4 DEF HeapInv

\* No object of a stream is destroyed while the HCM can still call it, however
\* cancels, resets and the end of the response race, and also while the HCM
\* code that sent the final frame is still on the stack.
THEOREM DirectStreamIsSafe == Spec => []DirectStreamOutlivesCalls
<1>1. Init => HeapInv
  BY DEF Init, HeapInv, Contains
<1>2. TypeOK /\ LifeInv /\ HeapInv /\ [Next]_vars => HeapInv'
  <2>. SUFFICES ASSUME TypeOK, LifeInv, HeapInv, [Next]_vars
                PROVE  HeapInv'
    OBVIOUS
  <2>1. CASE UNCHANGED <<heapVars, hcmVars>>
    BY <2>1 DEF heapVars, hcmVars, HeapInv
  <2>2. CASE UNCHANGED vars
    BY <2>1, <2>2 DEF vars
  <2>. QED BY <2>1, <2>2, CallersEffect, RunHeapStep, HcmHeapStep, ClearHeapStep
         DEF Next
<1>3. HeapInv => DirectStreamOutlivesCalls
  BY DEF HeapInv, DirectStreamOutlivesCalls
<1>. QED BY <1>1, <1>2, <1>3, LifeCorrect, PTL DEF Spec
-----------------------------------------------------------------------------
(* Frames are decoded in the order they were sent *)

\* c carries a request frame of stream s.
Carries(c, s) ==
  c.op \in {"sendHeaders", "sendData", "sendTrailers"} /\ c.stream = s

\* How many frames of s have been posted: the last one sent may still be with
\* the thread that sends it.
Posted(s) ==
  IF \E t \in Threads : Carries(call[t], s) THEN Len(sent[s]) - 1 ELSE Len(sent[s])

\* The numbers of the frames of s that have been posted and not yet run.
Waiting(s) == Len(decoded[s]) + 1 .. Posted(s)

\* place[n] is where the n-th frame of s waits.  The frames wait in the order
\* they were sent, and no other frames of s do.
WaitsAt(s, place) ==
  /\ \A m, n \in Waiting(s) : m < n => place[m] < place[n]
  /\ \A n \in Waiting(s) :
       /\ Carries(Pending[place[n]], s)
       /\ FrameOf(Pending[place[n]]) = sent[s][n]
  /\ \A i \in DOMAIN Pending : Carries(Pending[i], s) =>
       \E n \in Waiting(s) : place[n] = i

\* One thread at a time sends on s, the last frame sent, and only once s has
\* been started.
OneSender(s) ==
  /\ \A t \in Threads : Carries(call[t], s) =>
       sent[s] # <<>> /\ FrameOf(call[t]) = sent[s][Len(sent[s])]
  /\ \A t, u \in Threads : Carries(call[t], s) /\ Carries(call[u], s) => t = u
  /\ sent[s] # <<>> => app[s] = "started"

\* A stream that its caller has started and the main thread has not is pending,
\* in front of its frames.
StartIsFirst(s) ==
  hcm[s] = "none" /\ app[s] = "started" =>
    \E j \in DOMAIN Pending :
      /\ Starts(Pending[j], s)
      /\ \A i \in DOMAIN Pending : Carries(Pending[i], s) => j < i

\* The frames decoded are the first ones sent.
Decoded(s) ==
  /\ Len(decoded[s]) <= Len(sent[s])
  /\ \A n \in 1 .. Len(decoded[s]) : decoded[s][n] = sent[s][n]

\* As long as s is not closed the pending frames continue the decoded ones.
Continued(s) ==
  hcm[s] \in {"none", "active"} =>
    /\ Len(decoded[s]) <= Posted(s)
    /\ \E place \in [Waiting(s) -> DOMAIN Pending] : WaitsAt(s, place)

\* The inductive invariant behind DecodedInOrder.
SendOrder ==
  \A s \in Streams : OneSender(s) /\ StartIsFirst(s) /\ Decoded(s) /\ Continued(s)

\* A step that leaves the frames of s alone: nobody takes a frame of s to post()
\* or out of it, and if it changes where s is in its life it closes s.
LEMMA OrderKept ==
  ASSUME NEW s \in Streams, StartIsFirst(s), Decoded(s), Continued(s), OneSender(s),
         sent'[s] = sent[s], decoded'[s] = decoded[s], Pending' = Pending,
         \A t \in Threads : /\ Carries(call'[t], s) <=> Carries(call[t], s)
                            /\ Carries(call[t], s) => call'[t] = call[t],
         app'[s] = "started" <=> app[s] = "started",
         hcm'[s] = hcm[s] \/ hcm'[s] \in {"ended", "deferred"}
  PROVE  OneSender(s)' /\ StartIsFirst(s)' /\ Decoded(s)' /\ Continued(s)'
<1>1. OneSender(s)'
  BY DEF OneSender
<1>2. StartIsFirst(s)'
  BY DEF StartIsFirst
<1>3. Decoded(s)'
  BY DEF Decoded
<1>4. Posted(s)' = Posted(s)
  BY DEF Posted
<1>5. Waiting(s)' = Waiting(s)
  BY <1>4 DEF Waiting
<1>6. ASSUME NEW place, WaitsAt(s, place)
      PROVE  WaitsAt(s, place)'
  BY <1>5, <1>6 DEF WaitsAt
<1>7. Continued(s)'
  BY <1>4, <1>5, <1>6 DEF Continued
<1>. QED BY <1>1, <1>2, <1>3, <1>7

\* A thread takes one more frame of s to post(); it is alone with it.
LEMMA OrderSent ==
  ASSUME TypeOK, NEW s \in Streams, StartIsFirst(s), Decoded(s), Continued(s), OneSender(s),
         NEW t \in Threads, NEW c \in Closures, c.stream = s, Send(t, c),
         c.op \in {"sendHeaders", "sendData", "sendTrailers"}
  PROVE  OneSender(s)' /\ StartIsFirst(s)' /\ Decoded(s)' /\ Continued(s)'
<1>. DEFINE n == Len(sent[s])
<1>1. /\ app[s] = "started" /\ app' = app /\ call[t] = NoCall
      /\ sent' = [sent EXCEPT ![s] = Append(@, FrameOf(c))]
      /\ call' = [call EXCEPT ![t] = c]
      /\ Pending' = Pending /\ decoded' = decoded /\ hcm' = hcm
  BY DEF Send, MaySend, Enter, queueVars, hcmVars, Pending
<1>2. \A u \in Threads : ~Carries(call[u], s)
  BY DEF Send, MaySend, Carries, NoCall
<1>3. /\ call'[t] = c /\ Carries(c, s)
      /\ \A u \in Threads : Carries(call'[u], s) => u = t
  BY <1>1, <1>2 DEF TypeOK, ApiTypeOK, Carries
<1>4. /\ sent[s] \in Seq(Frames) /\ FrameOf(c) \in Frames
      /\ sent'[s] = Append(sent[s], FrameOf(c))
  BY <1>1, FrameOfClosure DEF TypeOK, ApiTypeOK
<1>5. /\ n \in Nat /\ Len(sent'[s]) = n + 1 /\ sent'[s][n + 1] = FrameOf(c)
      /\ sent'[s] # <<>>
      /\ \A k \in 1 .. n : sent'[s][k] = sent[s][k]
  BY <1>4, AppendProperties
<1>. HIDE DEF n
<1>6. OneSender(s)'
  BY <1>1, <1>3, <1>5 DEF OneSender
<1>7. StartIsFirst(s)'
  BY <1>1 DEF StartIsFirst
<1>8. Posted(s) = n /\ Posted(s)' = n
  BY <1>2, <1>3, <1>5 DEF Posted, n
<1>9. Len(decoded[s]) \in Nat
  BY DEF TypeOK, HcmTypeOK
<1>10. Decoded(s)'
  BY <1>1, <1>5, <1>9 DEF Decoded, n
<1>11. Waiting(s)' = Waiting(s) /\ Waiting(s) \subseteq 1 .. n
  BY <1>1, <1>8, <1>9, <1>5 DEF Waiting
<1>12. ASSUME NEW place, WaitsAt(s, place)
       PROVE  WaitsAt(s, place)'
  BY <1>1, <1>5, <1>11, <1>12 DEF WaitsAt
<1>13. Continued(s)'
  BY <1>1, <1>8, <1>11, <1>12 DEF Continued
<1>. QED BY <1>6, <1>7, <1>10, <1>13

\* The callers.
LEMMA ApiOrderStep ==
  ASSUME TypeOK, LifeInv, SendOrder, init_stream \/ (\E t \in Threads : ApiCall(t))
  PROVE  SendOrder'
<1>. SUFFICES ASSUME NEW s \in Streams
              PROVE  OneSender(s)' /\ StartIsFirst(s)' /\ Decoded(s)' /\ Continued(s)'
  BY DEF SendOrder
<1>0. OneSender(s) /\ StartIsFirst(s) /\ Decoded(s) /\ Continued(s)
  BY DEF SendOrder
<1>1. Pending' = Pending /\ decoded' = decoded /\ hcm' = hcm
  BY CallersEffect, QueueUntouched DEF queueVars, hcmVars, Pending
<1>2. CASE init_stream
  <2>1. /\ call' = call /\ sent' = sent
        /\ app' = [app EXCEPT ![current_stream_handle_] = "inited"]
    BY <1>2 DEF init_stream
  <2>2. s >= current_stream_handle_ => app[s] = "unused"
    BY DEF LifeInv, StartsOnce, StartedOnce
  <2>3. app'[s] = "started" <=> app[s] = "started"
    BY <2>1, <2>2, BoundsAssumption DEF TypeOK, ApiTypeOK, Streams, BoundsAssumption
  <2>. QED BY <1>0, <1>1, <2>1, <2>3, OrderKept
<1>3. ASSUME NEW t \in Threads, NEW c, Enter(t, c), ~Carries(c, s),
             sent'[s] = sent[s], app'[s] = "started" <=> app[s] = "started"
      PROVE  OneSender(s)' /\ StartIsFirst(s)' /\ Decoded(s)' /\ Continued(s)'
  <2>1. call[t] = NoCall /\ call' = [call EXCEPT ![t] = c]
    BY <1>3 DEF Enter
  <2>2. ~Carries(call[t], s)
    BY <2>1 DEF Carries, NoCall
  <2>3. \A u \in Threads : /\ Carries(call'[u], s) <=> Carries(call[u], s)
                           /\ Carries(call[u], s) => call'[u] = call[u]
    BY <1>3, <2>1, <2>2 DEF TypeOK, ApiTypeOK
  <2>. QED BY <1>0, <1>1, <1>3, <2>3, OrderKept
<1>4. ASSUME NEW t \in Threads, NEW r \in Streams, startStream(t, r)
      PROVE  OneSender(s)' /\ StartIsFirst(s)' /\ Decoded(s)' /\ Continued(s)'
  <2>1. ~Carries(Closure("startStream", r, FALSE), s)
    BY DEF Carries, Closure
  <2>. QED BY <1>3, <1>4, <2>1 DEF startStream, TypeOK, ApiTypeOK
<1>5. ASSUME NEW t \in Threads, NEW r \in Streams, cancelStream(t, r)
      PROVE  OneSender(s)' /\ StartIsFirst(s)' /\ Decoded(s)' /\ Continued(s)'
  <2>1. ~Carries(Closure("cancelStream", r, FALSE), s)
    BY DEF Carries, Closure
  <2>. QED BY <1>3, <1>5, <2>1 DEF cancelStream
<1>6. ASSUME NEW t \in Threads, NEW c \in Closures, Send(t, c),
             c.op \in {"sendHeaders", "sendData", "sendTrailers"}
      PROVE  OneSender(s)' /\ StartIsFirst(s)' /\ Decoded(s)' /\ Continued(s)'
  <2>1. CASE c.stream = s
    BY <1>0, <1>6, <2>1, OrderSent
  <2>2. CASE c.stream # s
    BY <1>3, <1>6, <2>2 DEF Send, Carries, TypeOK, ApiTypeOK
  <2>. QED BY <2>1, <2>2
<1>7. ASSUME NEW t \in Threads, NEW r \in Streams, NEW end \in BOOLEAN,
             sendHeaders(t, r, end) \/ sendData(t, r, end) \/ sendTrailers(t, r)
      PROVE  OneSender(s)' /\ StartIsFirst(s)' /\ Decoded(s)' /\ Continued(s)'
  BY <1>6, <1>7 DEF sendHeaders, sendData, sendTrailers, Closure, Closures
<1>. QED BY <1>2, <1>4, <1>5, <1>7 DEF ApiCall

\* post(): a frame of s goes to the end of the pending closures.
LEMMA PostOrderStep ==
  ASSUME TypeOK, LifeInv, SendOrder, NEW t \in Threads, post(t)
  PROVE  SendOrder'
<1>. DEFINE n == Len(Pending)
<1>1. /\ call[t] \in Closures /\ Pending \in Seq(Closures)
      /\ Pending' = Append(Pending, call[t])
  BY PostPending
<1>2. /\ n \in Nat /\ DOMAIN Pending = 1 .. n /\ DOMAIN Pending' = 1 .. n + 1
      /\ Pending'[n + 1] = call[t]
      /\ \A i \in 1 .. n : Pending'[i] = Pending[i]
  BY <1>1, AppendProperties
<1>3. sent' = sent /\ decoded' = decoded /\ hcm' = hcm
  BY DEF post, hcmVars
<1>. HIDE DEF n
<1>. SUFFICES ASSUME NEW s \in Streams
              PROVE  OneSender(s)' /\ StartIsFirst(s)' /\ Decoded(s)' /\ Continued(s)'
  BY DEF SendOrder
<1>4. OneSender(s) /\ StartIsFirst(s) /\ Decoded(s) /\ Continued(s)
  BY DEF SendOrder
<1>5. /\ app'[s] = IF Starts(call[t], s) THEN "started" ELSE app[s]
      /\ call' = [call EXCEPT ![t] = NoCall]
  BY DEF post
<1>6. /\ ~Carries(call'[t], s) /\ \A u \in Threads \ {t} : call'[u] = call[u]
      /\ \A u \in Threads : Carries(call'[u], s) => Carries(call[u], s) /\ u # t
  BY <1>5 DEF Carries, NoCall, TypeOK, ApiTypeOK
<1>7. Starts(call[t], s) => /\ app[s] = "starting" /\ hcm[s] = "none"
                            /\ \A i \in 1 .. n : ~Carries(Pending[i], s)
                            /\ ~Carries(call[t], s)
  <2>. SUFFICES ASSUME Starts(call[t], s)
                PROVE  /\ app[s] = "starting" /\ hcm[s] = "none"
                       /\ \A i \in 1 .. n : ~Carries(Pending[i], s)
                       /\ ~Carries(call[t], s)
    OBVIOUS
  <2>1. app[s] = "starting" /\ hcm[s] = "none"
    BY DEF LifeInv, StartsOnce, StartedOnce
  <2>2. sent[s] = <<>>
    BY <1>4, <2>1 DEF OneSender
  <2>3. Posted(s) \in {0, -1}
    BY <2>2 DEF Posted
  <2>4. Waiting(s) = {}
    <3>1. Len(decoded[s]) \in Nat
      BY DEF TypeOK, HcmTypeOK
    <3>. QED BY <2>3, <3>1 DEF Waiting
  <2>5. \A i \in 1 .. n : ~Carries(Pending[i], s)
    BY <1>2, <1>4, <2>1, <2>4 DEF Continued, WaitsAt
  <2>6. ~Carries(call[t], s)
    BY DEF Starts, Carries
  <2>. QED BY <2>1, <2>5, <2>6
<1>8. OneSender(s)'
  BY <1>3, <1>4, <1>5, <1>6 DEF OneSender
<1>9. StartIsFirst(s)'
  <2>1. CASE Starts(call[t], s)
    <3>1. \A i \in DOMAIN Pending' : ~Carries(Pending'[i], s)
      BY <1>2, <1>7, <2>1
    <3>2. n + 1 \in DOMAIN Pending' /\ Starts(Pending'[n + 1], s)
      BY <1>2, <2>1
    <3>. QED BY <3>1, <3>2 DEF StartIsFirst
  <2>2. CASE ~Starts(call[t], s) /\ hcm[s] = "none" /\ app[s] = "started"
    <3>1. PICK j \in DOMAIN Pending :
            /\ Starts(Pending[j], s)
            /\ \A i \in DOMAIN Pending : Carries(Pending[i], s) => j < i
      BY <1>4, <2>2 DEF StartIsFirst
    <3>2. j \in DOMAIN Pending' /\ Starts(Pending'[j], s) /\ j < n + 1
      BY <1>2, <3>1
    <3>3. \A i \in DOMAIN Pending' : Carries(Pending'[i], s) => j < i
      BY <1>2, <3>1, <3>2
    <3>. QED BY <3>2, <3>3 DEF StartIsFirst
  <2>3. CASE ~Starts(call[t], s) /\ ~(hcm[s] = "none" /\ app[s] = "started")
    BY <1>3, <1>5, <2>3 DEF StartIsFirst
  <2>. QED BY <2>1, <2>2, <2>3
<1>10. Decoded(s)'
  BY <1>3, <1>4 DEF Decoded
<1>11. Len(decoded[s]) \in Nat /\ Len(sent[s]) \in Nat
  BY DEF TypeOK, HcmTypeOK, ApiTypeOK
<1>12. Continued(s)'
  <2>. SUFFICES ASSUME hcm[s] \in {"none", "active"}
                PROVE  /\ Len(decoded'[s]) <= Posted(s)'
                       /\ \E place \in [Waiting(s)' -> DOMAIN Pending'] : WaitsAt(s, place)'
    BY <1>3 DEF Continued
  <2>1. PICK place \in [Waiting(s) -> DOMAIN Pending] : WaitsAt(s, place)
    BY <1>4 DEF Continued
  <2>2. Len(decoded[s]) <= Posted(s)
    BY <1>4 DEF Continued
  <2>3. CASE ~Carries(call[t], s)
    <3>1. Posted(s)' = Posted(s)
      BY <1>3, <1>6, <2>3 DEF Posted
    <3>2. Waiting(s)' = Waiting(s)
      BY <1>3, <3>1 DEF Waiting
    <3>3. place \in [Waiting(s)' -> DOMAIN Pending']
      BY <1>2, <2>1, <3>2
    <3>4. WaitsAt(s, place)'
      BY <1>2, <1>3, <2>1, <2>3, <3>2 DEF WaitsAt
    <3>. QED BY <1>3, <2>2, <3>1, <3>3, <3>4
  <2>4. CASE Carries(call[t], s)
    <3>. DEFINE k == Len(sent[s])
    <3>1. Posted(s) = k - 1 /\ Posted(s)' = k
      BY <1>3, <1>4, <1>6, <2>4 DEF Posted, OneSender
    <3>2. /\ k \in Waiting(s)' /\ \A m \in Waiting(s) : m # k /\ m \in Waiting(s)'
          /\ \A m \in Waiting(s)' : m # k => m \in Waiting(s)
      BY <1>3, <1>11, <2>2, <3>1 DEF Waiting
    <3>. HIDE DEF k
    <3>0. PICK next : next = [m \in Waiting(s)' |-> IF m = k THEN n + 1 ELSE place[m]]
      OBVIOUS
    <3>3. /\ next[k] = n + 1
          /\ \A m \in Waiting(s) : next[m] = place[m] /\ place[m] \in 1 .. n
      BY <1>2, <2>1, <3>0, <3>2
    <3>4. next \in [Waiting(s)' -> DOMAIN Pending']
      BY <1>2, <2>1, <3>0, <3>2
    <3>5. \A l, m \in Waiting(s)' : l < m => next[l] < next[m]
      <4>. SUFFICES ASSUME NEW l \in Waiting(s)', NEW m \in Waiting(s)', l < m
                    PROVE  next[l] < next[m]
        OBVIOUS
      <4>1. l # k
        <5>1. k \in Nat /\ l \in Int /\ m \in Int /\ m <= k
          BY <1>3, <1>11, <3>1 DEF Waiting, k
        <5>. QED BY <5>1
      <4>2. l \in Waiting(s)
        BY <3>2, <4>1
      <4>3. CASE m = k
        BY <1>2, <3>3, <4>2, <4>3
      <4>4. CASE m # k
        BY <2>1, <3>2, <3>3, <4>2, <4>4 DEF WaitsAt
      <4>. QED BY <4>3, <4>4
    <3>6. \A m \in Waiting(s)' : /\ Carries(Pending'[next[m]], s)
                                 /\ FrameOf(Pending'[next[m]]) = sent'[s][m]
      <4>1. Carries(Pending'[n + 1], s) /\ FrameOf(Pending'[n + 1]) = sent'[s][k]
        BY <1>2, <1>3, <1>4, <2>4 DEF OneSender, k
      <4>2. ASSUME NEW m \in Waiting(s)
            PROVE  Carries(Pending'[next[m]], s) /\ FrameOf(Pending'[next[m]]) = sent'[s][m]
        BY <1>2, <1>3, <2>1, <3>3 DEF WaitsAt
      <4>. QED BY <3>2, <3>3, <4>1, <4>2
    <3>7. \A i \in DOMAIN Pending' : Carries(Pending'[i], s) =>
            \E m \in Waiting(s)' : next[m] = i
      <4>. SUFFICES ASSUME NEW i \in DOMAIN Pending', Carries(Pending'[i], s)
                    PROVE  \E m \in Waiting(s)' : next[m] = i
        OBVIOUS
      <4>1. CASE i = n + 1
        BY <3>2, <3>3, <4>1
      <4>2. CASE i # n + 1
        <5>1. i \in DOMAIN Pending /\ Carries(Pending[i], s)
          BY <1>2, <4>2
        <5>2. PICK m \in Waiting(s) : place[m] = i
          BY <2>1, <5>1 DEF WaitsAt
        <5>. QED BY <3>2, <3>3, <5>2
      <4>. QED BY <4>1, <4>2
    <3>8. WaitsAt(s, next)'
      BY <3>5, <3>6, <3>7 DEF WaitsAt
    <3>9. Len(decoded'[s]) <= Posted(s)'
      BY <1>3, <1>11, <2>2, <3>1 DEF k
    <3>. QED BY <3>4, <3>8, <3>9
  <2>. QED BY <2>3, <2>4
<1>. QED BY <1>8, <1>9, <1>10, <1>12

\* The first pending closure is gone; it carried no frame of s.
LEMMA OrderShifted ==
  ASSUME NEW s \in Streams, OneSender(s), StartIsFirst(s), Decoded(s), Continued(s),
         Pending \in Seq(Closures), Pending # <<>>, Pending' = Tail(Pending),
         UNCHANGED <<call, sent, app>>, decoded'[s] = decoded[s],
         ~Carries(Pending[1], s),
         hcm'[s] = "none" => hcm[s] = "none" /\ ~Starts(Pending[1], s),
         hcm'[s] = "active" => hcm[s] \in {"none", "active"}
  PROVE  OneSender(s)' /\ StartIsFirst(s)' /\ Decoded(s)' /\ Continued(s)'
<1>. DEFINE n == Len(Pending)
<1>1. /\ n \in Nat /\ n > 0 /\ DOMAIN Pending = 1 .. n /\ DOMAIN Pending' = 1 .. n - 1
      /\ \A i \in 1 .. n - 1 : Pending'[i] = Pending[i + 1]
  BY HeadTailProperties
<1>. HIDE DEF n
<1>2. OneSender(s)' /\ Decoded(s)'
  BY DEF OneSender, Decoded
<1>3. StartIsFirst(s)'
  <2>. SUFFICES ASSUME hcm'[s] = "none", app'[s] = "started"
                PROVE  \E j \in DOMAIN Pending' :
                         /\ Starts(Pending'[j], s)
                         /\ \A i \in DOMAIN Pending' : Carries(Pending'[i], s) => j < i
    BY DEF StartIsFirst
  <2>1. PICK j \in DOMAIN Pending :
          /\ Starts(Pending[j], s)
          /\ \A i \in DOMAIN Pending : Carries(Pending[i], s) => j < i
    BY DEF StartIsFirst
  <2>2. j - 1 \in DOMAIN Pending' /\ Starts(Pending'[j - 1], s)
    <3>1. j # 1
      BY <2>1
    <3>2. j - 1 \in 1 .. n - 1 /\ (j - 1) + 1 = j
      BY <1>1, <2>1, <3>1
    <3>. QED BY <1>1, <2>1, <3>2
  <2>3. ASSUME NEW i \in DOMAIN Pending', Carries(Pending'[i], s)
        PROVE  j - 1 < i
    <3>1. i + 1 \in DOMAIN Pending /\ Carries(Pending[i + 1], s)
      BY <1>1, <2>3
    <3>2. j < i + 1
      BY <2>1, <3>1
    <3>. QED BY <1>1, <2>1, <2>3, <3>2
  <2>. QED BY <2>2, <2>3
<1>4. Posted(s)' = Posted(s)
  BY DEF Posted
<1>5. Waiting(s)' = Waiting(s)
  BY <1>4 DEF Waiting
<1>6. Continued(s)'
  <2>. SUFFICES ASSUME hcm'[s] \in {"none", "active"}
                PROVE  /\ Len(decoded'[s]) <= Posted(s)'
                       /\ \E place \in [Waiting(s)' -> DOMAIN Pending'] : WaitsAt(s, place)'
    BY DEF Continued
  <2>1. PICK place \in [Waiting(s) -> DOMAIN Pending] : WaitsAt(s, place)
    BY DEF Continued
  <2>2. PICK next : next = [m \in Waiting(s) |-> place[m] - 1]
    OBVIOUS
  <2>3. ASSUME NEW m \in Waiting(s)
        PROVE  /\ place[m] \in 2 .. n /\ next[m] = place[m] - 1 /\ next[m] \in 1 .. n - 1
               /\ Pending'[next[m]] = Pending[place[m]]
    <3>1. place[m] \in 1 .. n /\ Carries(Pending[place[m]], s)
      BY <1>1, <2>1 DEF WaitsAt
    <3>2. place[m] # 1
      BY <3>1
    <3>3. place[m] \in 2 .. n
      BY <1>1, <3>1, <3>2
    <3>4. next[m] = place[m] - 1
      BY <2>2
    <3>5. next[m] \in 1 .. n - 1 /\ next[m] + 1 = place[m]
      BY <1>1, <3>3, <3>4
    <3>. QED BY <1>1, <3>3, <3>4, <3>5
  <2>4. next \in [Waiting(s)' -> DOMAIN Pending']
    BY <1>1, <1>5, <2>2, <2>3
  <2>5. ASSUME NEW l \in Waiting(s), NEW m \in Waiting(s), l < m
        PROVE  next[l] < next[m]
    <3>1. place[l] < place[m]
      BY <2>1, <2>5 DEF WaitsAt
    <3>. QED BY <1>1, <2>3, <3>1
  <2>6. ASSUME NEW i \in DOMAIN Pending', Carries(Pending'[i], s)
        PROVE  \E m \in Waiting(s) : next[m] = i
    <3>1. i + 1 \in DOMAIN Pending /\ Carries(Pending[i + 1], s)
      BY <1>1, <2>6
    <3>2. PICK m \in Waiting(s) : place[m] = i + 1
      BY <2>1, <3>1 DEF WaitsAt
    <3>. QED BY <1>1, <2>3, <2>6, <3>2
  <2>7. WaitsAt(s, next)'
    BY <1>5, <2>1, <2>3, <2>5, <2>6 DEF WaitsAt
  <2>8. Len(decoded'[s]) <= Posted(s)'
    BY <1>4 DEF Continued
  <2>. QED BY <2>4, <2>7, <2>8
<1>. QED BY <1>2, <1>3, <1>6

\* The first pending closure carries a frame of s, which is open: it is the
\* next one to decode.
LEMMA OrderDecoded ==
  ASSUME TypeOK, NEW s \in Streams, OneSender(s), Decoded(s), Continued(s),
         Pending \in Seq(Closures), Pending # <<>>, Pending' = Tail(Pending),
         UNCHANGED <<call, sent, app, hcm>>, hcm[s] = "active",
         Carries(Pending[1], s),
         decoded'[s] = Append(decoded[s], FrameOf(Pending[1]))
  PROVE  OneSender(s)' /\ StartIsFirst(s)' /\ Decoded(s)' /\ Continued(s)'
<1>. DEFINE n == Len(Pending)   d == Len(decoded[s])
<1>1. /\ n \in Nat /\ n > 0 /\ DOMAIN Pending = 1 .. n /\ DOMAIN Pending' = 1 .. n - 1
      /\ \A i \in 1 .. n - 1 : Pending'[i] = Pending[i + 1]
  BY HeadTailProperties
<1>2. d \in Nat /\ Len(sent[s]) \in Nat /\ decoded[s] \in Seq(Frames)
  BY DEF TypeOK, HcmTypeOK, ApiTypeOK
<1>3. FrameOf(Pending[1]) \in Frames
  BY <1>1, FrameOfClosure DEF Carries
<1>4. /\ Len(decoded'[s]) = d + 1 /\ decoded'[s][d + 1] = FrameOf(Pending[1])
      /\ \A i \in 1 .. d : decoded'[s][i] = decoded[s][i]
  BY <1>2, <1>3, AppendProperties
<1>. HIDE DEF n, d
<1>5. Posted(s)' = Posted(s) /\ Posted(s) \in Int /\ Posted(s) <= Len(sent[s])
  BY <1>2 DEF Posted
<1>6. /\ Waiting(s) = d + 1 .. Posted(s) /\ Waiting(s)' = d + 2 .. Posted(s)
      /\ Waiting(s) \subseteq Int
  <2>1. Len(decoded'[s]) + 1 = d + 2
    BY <1>2, <1>4
  <2>. QED BY <1>2, <1>5, <2>1 DEF Waiting, d
<1>7. PICK place \in [Waiting(s) -> DOMAIN Pending] : WaitsAt(s, place)
  BY DEF Continued
<1>8. PICK m0 \in Waiting(s) : place[m0] = 1
  BY <1>1, <1>7 DEF WaitsAt
<1>9. d + 1 \in Waiting(s) /\ m0 = d + 1
  <2>1. d + 1 \in Waiting(s)
    BY <1>2, <1>5, <1>6, <1>8
  <2>2. ~(d + 1 < m0)
    <3>. SUFFICES ASSUME d + 1 < m0 PROVE FALSE
      OBVIOUS
    <3>1. place[d + 1] < place[m0]
      BY <1>7, <1>8, <2>1 DEF WaitsAt
    <3>2. place[d + 1] \in 1 .. n
      BY <1>1, <1>7, <2>1
    <3>. QED BY <1>8, <3>1, <3>2
  <2>. QED BY <1>2, <1>5, <1>6, <1>8, <2>1, <2>2
<1>10. FrameOf(Pending[1]) = sent[s][d + 1]
  BY <1>7, <1>8, <1>9 DEF WaitsAt
<1>11. d + 1 <= Posted(s)
  BY <1>2, <1>5, <1>6, <1>9
<1>12. Decoded(s)'
  <2>1. \A i \in 1 .. d + 1 : decoded'[s][i] = sent[s][i]
    <3>1. \A i \in 1 .. d : decoded[s][i] = sent[s][i]
      BY DEF Decoded, d
    <3>. QED BY <1>2, <1>4, <1>10, <3>1
  <2>. QED BY <1>2, <1>4, <1>5, <1>11, <2>1 DEF Decoded
<1>13. OneSender(s)' /\ StartIsFirst(s)'
  BY DEF OneSender, StartIsFirst
<1>14. PICK next : next = [m \in Waiting(s)' |-> place[m] - 1]
  OBVIOUS
<1>15. ASSUME NEW m \in Waiting(s)'
       PROVE  /\ m \in Waiting(s) /\ m # d + 1
              /\ place[m] \in 2 .. n /\ next[m] = place[m] - 1 /\ next[m] \in 1 .. n - 1
              /\ Pending'[next[m]] = Pending[place[m]]
  <2>1. m \in Waiting(s) /\ d + 1 < m
    BY <1>2, <1>5, <1>6
  <2>2. place[d + 1] < place[m] /\ place[m] \in 1 .. n
    BY <1>1, <1>7, <1>9, <2>1 DEF WaitsAt
  <2>3. place[m] \in 2 .. n
    BY <1>1, <1>8, <1>9, <2>2
  <2>4. next[m] = place[m] - 1
    BY <1>14
  <2>5. next[m] \in 1 .. n - 1 /\ next[m] + 1 = place[m]
    BY <1>1, <2>3, <2>4
  <2>6. m # d + 1
    BY <1>2, <1>6, <2>1
  <2>. QED BY <1>1, <2>1, <2>3, <2>4, <2>5, <2>6
<1>16. next \in [Waiting(s)' -> DOMAIN Pending']
  BY <1>1, <1>14, <1>15
<1>17. ASSUME NEW l \in Waiting(s)', NEW m \in Waiting(s)', l < m
       PROVE  next[l] < next[m]
  <2>1. place[l] < place[m]
    BY <1>7, <1>15, <1>17 DEF WaitsAt
  <2>. QED BY <1>1, <1>15, <2>1
<1>18. ASSUME NEW i \in DOMAIN Pending', Carries(Pending'[i], s)
       PROVE  \E m \in Waiting(s)' : next[m] = i
  <2>1. i + 1 \in DOMAIN Pending /\ Carries(Pending[i + 1], s) /\ i + 1 # 1
    BY <1>1, <1>18
  <2>2. PICK m \in Waiting(s) : place[m] = i + 1
    BY <1>7, <2>1 DEF WaitsAt
  <2>3. m # d + 1
    BY <1>8, <1>9, <2>1, <2>2
  <2>4. m \in Waiting(s)'
    BY <1>2, <1>5, <1>6, <2>2, <2>3
  <2>. QED BY <1>1, <1>15, <1>18, <2>2, <2>4
<1>19. WaitsAt(s, next)'
  BY <1>7, <1>15, <1>17, <1>18 DEF WaitsAt
<1>20. Continued(s)'
  BY <1>4, <1>5, <1>11, <1>16, <1>19 DEF Continued
<1>. QED BY <1>12, <1>13, <1>20

\* The posted closures.
LEMMA RunOrderStep ==
  ASSUME TypeOK, LifeInv, SendOrder, RunClosure
  PROVE  SendOrder'
<1>. DEFINE r == Head(post_q).stream
<1>1. /\ Pending # <<>> /\ Pending \in Seq(Closures) /\ Pending' = Tail(Pending)
      /\ Pending[1] = Head(post_q) /\ UNCHANGED <<call, sent, app>>
  BY RunPending DEF LifeInv, apiVars
<1>2. r \in Streams /\ (r \in streams_ => hcm[r] = "active")
  BY RunStream
<1>. HIDE DEF r
<1>. SUFFICES ASSUME NEW s \in Streams
              PROVE  OneSender(s)' /\ StartIsFirst(s)' /\ Decoded(s)' /\ Continued(s)'
  BY DEF SendOrder
<1>3. OneSender(s) /\ StartIsFirst(s) /\ Decoded(s) /\ Continued(s)
  BY DEF SendOrder
<1>4. CASE runStartStream
  <2>1. /\ hcm' = [hcm EXCEPT ![r] = "active"] /\ decoded' = decoded
        /\ Pending[1].op = "startStream" /\ Pending[1].stream = r
    BY <1>1, <1>4 DEF runStartStream, Run, r
  <2>2. ~Carries(Pending[1], s) /\ (Starts(Pending[1], s) => s = r)
    BY <2>1 DEF Carries, Starts
  <2>3. hcm[r] = "none"
    BY <1>4, RunStream DEF r
  <2>4. /\ hcm'[s] = "none" => hcm[s] = "none" /\ ~Starts(Pending[1], s)
        /\ hcm'[s] = "active" => hcm[s] \in {"none", "active"}
    BY <1>2, <2>1, <2>2, <2>3 DEF TypeOK, HcmTypeOK
  <2>. QED BY <1>1, <1>3, <2>1, <2>2, <2>4, OrderShifted
<1>5. CASE runCancelStream
  <2>1. /\ decoded' = decoded /\ Pending[1].op = "cancelStream"
        /\ hcm' = hcm \/ hcm' = [hcm EXCEPT ![r] = "deferred"]
    BY <1>1, <1>5 DEF runCancelStream, CancelIfOpen, Run, r
  <2>2. ~Carries(Pending[1], s) /\ ~Starts(Pending[1], s)
    BY <2>1 DEF Carries, Starts
  <2>3. hcm'[s] \in {"none", "active"} => hcm[s] = hcm'[s]
    BY <1>2, <2>1 DEF TypeOK, HcmTypeOK
  <2>. QED BY <1>1, <1>3, <2>1, <2>2, <2>3, OrderShifted
<1>6. CASE runSend
  <2>1. /\ hcm' = hcm
        /\ Pending[1].op \in {"sendHeaders", "sendData", "sendTrailers"}
        /\ Pending[1].stream = r
        /\ decoded' = IF r \in streams_
                      THEN [decoded EXCEPT ![r] = Append(@, FrameOf(Pending[1]))]
                      ELSE decoded
    BY <1>1, <1>6 DEF runSend, Run, Decodes, r
  <2>2. CASE s # r
    <3>1. ~Carries(Pending[1], s) /\ ~Starts(Pending[1], s) /\ decoded'[s] = decoded[s]
      BY <2>1, <2>2 DEF Carries, Starts, TypeOK, HcmTypeOK
    <3>. QED BY <1>1, <1>3, <2>1, <3>1, OrderShifted
  <2>3. CASE s = r /\ r \in streams_
    <3>1. Carries(Pending[1], s) /\ decoded'[s] = Append(decoded[s], FrameOf(Pending[1]))
      BY <2>1, <2>3 DEF Carries, TypeOK, HcmTypeOK
    <3>. QED BY <1>1, <1>2, <1>3, <2>1, <2>3, <3>1, OrderDecoded
  <2>4. CASE s = r /\ r \notin streams_
    <3>1. hcm[s] # "active" /\ Carries(Pending[1], s) /\ 1 \in DOMAIN Pending
      BY <1>1, <2>1, <2>4 DEF LifeInv, MapMirrorsHcm, Carries
    <3>2. hcm[s] # "none"
      <4>. SUFFICES ASSUME hcm[s] = "none" PROVE FALSE
        OBVIOUS
      <4>1. PICK m \in Waiting(s) : TRUE
        BY <1>3, <3>1 DEF Continued, WaitsAt
      <4>2. sent[s] # <<>>
        <5>1. Len(decoded[s]) \in Nat /\ Len(sent[s]) \in Nat
          BY DEF TypeOK, HcmTypeOK, ApiTypeOK
        <5>2. Len(sent[s]) > 0
          BY <4>1, <5>1 DEF Waiting, Posted
        <5>. QED BY <5>2
      <4>3. PICK j \in DOMAIN Pending : j < 1
        BY <1>3, <3>1, <4>2 DEF OneSender, StartIsFirst
      <4>. QED BY <1>1, <4>3
    <3>. QED BY <1>1, <1>3, <2>1, <2>4, <3>1, <3>2 DEF OneSender, StartIsFirst,
           Decoded, Continued
  <2>. QED BY <2>2, <2>3, <2>4
<1>. QED BY <1>4, <1>5, <1>6 DEF RunClosure

\* SendOrder says what DecodedInOrder does.
LEMMA OrderImpliesPrefix ==
  ASSUME TypeOK, SendOrder
  PROVE  DecodedInOrder
<1>. SUFFICES ASSUME NEW s \in Streams
              PROVE  IsPrefix(decoded[s], sent[s])
  BY DEF DecodedInOrder
<1>. DEFINE d == decoded[s]   q == sent[s]   n == Len(d)
<1>1. /\ d \in Seq(Frames) /\ q \in Seq(Frames) /\ n \in Nat /\ Len(q) \in Nat
      /\ n <= Len(q) /\ \A i \in 1 .. n : d[i] = q[i]
  BY DEF TypeOK, HcmTypeOK, ApiTypeOK, SendOrder, Decoded
<1>. HIDE DEF d, q
<1>2. SubSeq(d, 1, n) = [i \in 1 .. n |-> d[i]] /\ SubSeq(q, 1, n) = [i \in 1 .. n |-> q[i]]
  BY <1>1
<1>3. SubSeq(d, 1, n) = SubSeq(q, 1, n)
  BY <1>1, <1>2
<1>4. IsPrefix(d, q)
  BY <1>1, <1>3 DEF IsPrefix
<1>. QED BY <1>4 DEF d, q

\* The request decoder is given the frames in the order in which the caller
\* sent them and without a gap: for any number of threads and streams, frames
\* posted before and after ready(), and a stream that closes in between.
THEOREM FramesAreDecodedInOrder == Spec => []DecodedInOrder
<1>1. Init => SendOrder
  <2>. SUFFICES ASSUME Init, NEW s \in Streams
                PROVE  OneSender(s) /\ StartIsFirst(s) /\ Decoded(s) /\ Continued(s)
    BY DEF SendOrder
  <2>. USE DEF Init
  <2>1. \A t \in Threads : ~Carries(call[t], s)
    BY DEF Carries, NoCall
  <2>2. sent[s] = <<>> /\ decoded[s] = <<>> /\ Pending = <<>> /\ app[s] = "unused"
    BY DEF Pending
  <2>3. OneSender(s) /\ StartIsFirst(s) /\ Decoded(s)
    BY <2>1, <2>2 DEF OneSender, StartIsFirst, Decoded
  <2>4. Posted(s) = 0 /\ Waiting(s) = {} /\ DOMAIN Pending = {}
    BY <2>1, <2>2 DEF Posted, Waiting
  <2>5. PICK place : place = [m \in Waiting(s) |-> m]
    OBVIOUS
  <2>6. place \in [Waiting(s) -> DOMAIN Pending] /\ WaitsAt(s, place)
    BY <2>4, <2>5 DEF WaitsAt
  <2>. HIDE DEF Init
  <2>7. Len(decoded[s]) <= Posted(s)
    BY <2>2, <2>4
  <2>8. Continued(s)
    BY <2>6, <2>7 DEF Continued
  <2>. QED BY <2>3, <2>8
<1>2. TypeOK /\ LifeInv /\ SendOrder /\ [Next]_vars => SendOrder'
  <2>. SUFFICES ASSUME TypeOK, LifeInv, SendOrder, [Next]_vars
                PROVE  SendOrder'
    OBVIOUS
  <2>1. ASSUME UNCHANGED <<call, sent, app, decoded, Pending>>,
               \A s \in Streams : hcm'[s] = hcm[s] \/ hcm'[s] \in {"ended", "deferred"}
        PROVE  SendOrder'
    BY <2>1, OrderKept DEF SendOrder
  <2>2. CASE Ready
    <3>1. Pending' = Pending
      BY <2>2, ReadyPending DEF LifeInv
    <3>2. UNCHANGED <<apiVars, hcmVars>>
      BY <2>2 DEF Ready, ReadyLock, ReadyDrain, ReadyPublish
    <3>. QED BY <2>1, <3>1, <3>2 DEF apiVars, hcmVars
  <2>3. ASSUME NEW s \in Streams, HcmCall(s)
        PROVE  SendOrder'
    <3>1. UNCHANGED <<call, sent, app, decoded, Pending>>
      BY <2>3, HcmCallEffect DEF apiVars, queueVars, Pending
    <3>2. \A r \in Streams : hcm'[r] = hcm[r] \/ hcm'[r] \in {"ended", "deferred"}
      BY <2>3, HcmCallEffect DEF TypeOK, HcmTypeOK
    <3>. QED BY <2>1, <3>1, <3>2
  <2>4. CASE ClearDeferred \/ UNCHANGED vars
    BY <2>1, <2>4 DEF ClearDeferred, vars, apiVars, queueVars, hcmVars, Pending
  <2>. QED BY <2>2, <2>3, <2>4, ApiOrderStep, PostOrderStep, RunOrderStep DEF Next
<1>. QED BY <1>1, <1>2, OrderImpliesPrefix, LifeCorrect, PTL DEF Spec
-----------------------------------------------------------------------------
(* Errors report what made them, and the counters agree *)

\* What the DirectStream remembers of the reply until the stream is closed.
RemembersReply(s) ==
  /\ IF reply[s] # NoReply /\ IsLocalError(reply[s])
     THEN /\ error_code_[s] = mapLocalResponseToError(reply[s])
          /\ error_attempt_count_[s] = reply[s].attempt_count
     ELSE error_code_[s] = NoCode /\ error_attempt_count_[s] = NoCount
  /\ reply[s] # NoReply => success_[s] = (reply[s].status = "2xx")

\* The latest on_error of s reports the local reply, or a reset without one.
ReportsCause(s) ==
  IF reply[s] # NoReply /\ IsLocalError(reply[s])
  THEN /\ reported[s] = [error_code |-> mapLocalResponseToError(reply[s]),
                         attempt_count |-> reply[s].attempt_count]
       /\ heard[s] = "nothing"
  ELSE reported[s] = [error_code |-> "ENVOY_STREAM_RESET", attempt_count |-> NoCount]

\* The inductive invariant behind ErrorReportFaithful.
ReportInv ==
  /\ \A s \in Streams : hcm[s] \in {"none", "active"} => RemembersReply(s)
  /\ \A s \in Streams : Contains(terminals[s], "error") => ReportsCause(s)
  /\ StatsCountTerminals

\* The streams whose terminal callback was of a kind, and of those that
\* completed the ones that did, or did not, get a 2xx reply.
EndedBy(kind) == {s \in Streams : Contains(terminals[s], kind)}
Succeeded == {s \in EndedBy("complete") : reply[s].status = "2xx"}
Unsuccessful == {s \in EndedBy("complete") : reply[s].status # "2xx"}

\* Finitely many streams, so that the sets can be counted.
LEMMA StreamsAreFinite ==
  ASSUME NEW T \in SUBSET Streams
  PROVE  IsFiniteSet(T) /\ Cardinality(T) \in Nat
<1>1. IsFiniteSet(Streams)
  <2>1. 0 \in Int /\ MaxStreams - 1 \in Int
    BY BoundsAssumption DEF BoundsAssumption
  <2>. QED BY <2>1, FS_Interval DEF Streams
<1>. QED BY <1>1, FS_Subset, FS_CardinalityType

\* One more stream counts one more.
LEMMA CountOneMore ==
  ASSUME NEW T \in SUBSET Streams, NEW U, NEW s \in Streams, s \notin T, U = T \cup {s}
  PROVE  Cardinality(U) = Cardinality(T) + 1
BY StreamsAreFinite, FS_AddElement

\* The first terminal callback of s adds s to the streams ended by its kind.
LEMMA EndedByStep ==
  ASSUME TypeOK, NEW s \in Streams, NEW kind \in TerminalKinds, terminals[s] = <<>>,
         terminals' = [terminals EXCEPT ![s] = Append(@, kind)]
  PROVE  /\ \A k : Contains(terminals'[s], k) <=> k = kind
         /\ \A r \in Streams \ {s} : terminals'[r] = terminals[r]
         /\ \A k : s \notin EndedBy(k)
         /\ \A k : EndedBy(k)' = IF k = kind THEN EndedBy(k) \cup {s} ELSE EndedBy(k)
<1>1. terminals'[s] = <<kind>> /\ \A r \in Streams \ {s} : terminals'[r] = terminals[r]
  <2>1. Append(terminals[s], kind) = <<kind>>
    OBVIOUS
  <2>. QED BY <2>1 DEF TypeOK, CbTypeOK
<1>2. \A k : ~Contains(<<>>, k) /\ (Contains(<<kind>>, k) <=> k = kind)
  BY DEF Contains
<1>3. \A k : s \notin EndedBy(k)
  BY <1>2 DEF EndedBy
<1>4. \A k : EndedBy(k)' = IF k = kind THEN EndedBy(k) \cup {s} ELSE EndedBy(k)
  <2>. SUFFICES ASSUME NEW k
                PROVE  EndedBy(k)' = IF k = kind THEN EndedBy(k) \cup {s} ELSE EndedBy(k)
    OBVIOUS
  <2>. QED BY <1>1, <1>2, <1>3 DEF EndedBy
<1>. QED BY <1>1, <1>2, <1>3, <1>4

\* The counters, as sizes of these sets.
LEMMA CountersAreSizes ==
  StatsCountTerminals <=>
    /\ stats_["stream_cancel"] = Cardinality(EndedBy("cancel"))
    /\ stats_["stream_success"] = Cardinality(Succeeded)
    /\ stats_["stream_failure"] = Cardinality(Unsuccessful) + Cardinality(EndedBy("error"))
BY DEF StatsCountTerminals, EndedBy, Succeeded, Unsuccessful

\* A terminal callback is counted once, by the counter of its kind.
LEMMA CountStep ==
  ASSUME TypeOK, StatsCountTerminals, NEW s \in Streams,
         NEW kind \in TerminalKinds, NEW counter \in Counters,
         terminals[s] = <<>>, Terminal(s, kind, counter),
         \A r \in Streams \ {s} : reply'[r] = reply[r],
         kind = "cancel" => counter = "stream_cancel",
         kind = "error" => counter = "stream_failure",
         kind = "complete" => counter = IF reply'[s].status = "2xx"
                                        THEN "stream_success" ELSE "stream_failure"
  PROVE  StatsCountTerminals'
<1>1. /\ \A k : s \notin EndedBy(k)
      /\ \A k : EndedBy(k)' = IF k = kind THEN EndedBy(k) \cup {s} ELSE EndedBy(k)
  BY EndedByStep DEF Terminal
<1>2. \A c \in Counters : stats_'[c] = IF c = counter THEN stats_[c] + 1 ELSE stats_[c]
  BY DEF Terminal, TypeOK, CbTypeOK
<1>3. \A k : EndedBy(k) \subseteq Streams
  BY DEF EndedBy
<1>4. Succeeded \subseteq Streams /\ Unsuccessful \subseteq Streams
  BY <1>3 DEF Succeeded, Unsuccessful
<1>5. /\ Cardinality(EndedBy("error")) \in Nat /\ Cardinality(EndedBy("cancel")) \in Nat
      /\ Cardinality(Succeeded) \in Nat /\ Cardinality(Unsuccessful) \in Nat
  BY <1>3, <1>4, StreamsAreFinite
<1>6. s \notin Succeeded /\ s \notin Unsuccessful
  BY <1>1 DEF Succeeded, Unsuccessful
<1>7. /\ stats_["stream_cancel"] = Cardinality(EndedBy("cancel"))
      /\ stats_["stream_success"] = Cardinality(Succeeded)
      /\ stats_["stream_failure"] = Cardinality(Unsuccessful) + Cardinality(EndedBy("error"))
  BY CountersAreSizes
<1>8. kind # "complete" => Succeeded' = Succeeded /\ Unsuccessful' = Unsuccessful
  BY <1>1, <1>3 DEF Succeeded, Unsuccessful
<1>9. /\ "stream_cancel" \in Counters /\ "stream_success" \in Counters
      /\ "stream_failure" \in Counters
  BY DEF Counters
<1>10. CASE kind = "cancel"
  <2>1. EndedBy("cancel")' = EndedBy("cancel") \cup {s} /\ EndedBy("error")' = EndedBy("error")
    BY <1>1, <1>10
  <2>2. Cardinality(EndedBy("cancel")') = Cardinality(EndedBy("cancel")) + 1
    BY <1>1, <1>3, <2>1, CountOneMore
  <2>3. /\ stats_'["stream_cancel"] = Cardinality(EndedBy("cancel")')
        /\ stats_'["stream_success"] = Cardinality(Succeeded')
        /\ stats_'["stream_failure"] = Cardinality(Unsuccessful') + Cardinality(EndedBy("error")')
    BY <1>2, <1>7, <1>8, <1>9, <1>10, <2>1, <2>2
  <2>. QED BY <2>3 DEF StatsCountTerminals, EndedBy, Succeeded, Unsuccessful
<1>11. CASE kind = "error"
  <2>1. EndedBy("error")' = EndedBy("error") \cup {s} /\ EndedBy("cancel")' = EndedBy("cancel")
    BY <1>1, <1>11
  <2>2. Cardinality(EndedBy("error")') = Cardinality(EndedBy("error")) + 1
    BY <1>1, <1>3, <2>1, CountOneMore
  <2>3. /\ stats_'["stream_cancel"] = Cardinality(EndedBy("cancel")')
        /\ stats_'["stream_success"] = Cardinality(Succeeded')
        /\ stats_'["stream_failure"] = Cardinality(Unsuccessful') + Cardinality(EndedBy("error")')
    BY <1>2, <1>5, <1>7, <1>8, <1>9, <1>11, <2>1, <2>2
  <2>. QED BY <2>3 DEF StatsCountTerminals, EndedBy, Succeeded, Unsuccessful
<1>12. CASE kind = "complete"
  <2>1. /\ EndedBy("error")' = EndedBy("error") /\ EndedBy("cancel")' = EndedBy("cancel")
        /\ EndedBy("complete")' = EndedBy("complete") \cup {s}
    BY <1>1, <1>12
  <2>2. CASE reply'[s].status = "2xx"
    <3>1. Succeeded' = Succeeded \cup {s} /\ Unsuccessful' = Unsuccessful
      BY <1>1, <1>3, <2>1, <2>2 DEF Succeeded, Unsuccessful
    <3>2. Cardinality(Succeeded') = Cardinality(Succeeded) + 1
      BY <1>4, <1>6, <3>1, CountOneMore
    <3>3. /\ stats_'["stream_cancel"] = Cardinality(EndedBy("cancel")')
          /\ stats_'["stream_success"] = Cardinality(Succeeded')
          /\ stats_'["stream_failure"] = Cardinality(Unsuccessful') + Cardinality(EndedBy("error")')
      BY <1>2, <1>7, <1>9, <1>12, <2>1, <2>2, <3>1, <3>2
    <3>. QED BY <3>3 DEF StatsCountTerminals, EndedBy, Succeeded, Unsuccessful
  <2>3. CASE reply'[s].status # "2xx"
    <3>1. Succeeded' = Succeeded /\ Unsuccessful' = Unsuccessful \cup {s}
      BY <1>1, <1>3, <2>1, <2>3 DEF Succeeded, Unsuccessful
    <3>2. Cardinality(Unsuccessful') = Cardinality(Unsuccessful) + 1
      BY <1>4, <1>6, <3>1, CountOneMore
    <3>3. /\ stats_'["stream_cancel"] = Cardinality(EndedBy("cancel")')
          /\ stats_'["stream_success"] = Cardinality(Succeeded')
          /\ stats_'["stream_failure"] = Cardinality(Unsuccessful') + Cardinality(EndedBy("error")')
      BY <1>2, <1>5, <1>7, <1>9, <1>12, <2>1, <2>3, <3>1, <3>2
    <3>. QED BY <3>3 DEF StatsCountTerminals, EndedBy, Succeeded, Unsuccessful
  <2>. QED BY <2>2, <2>3
<1>. QED BY <1>10, <1>11, <1>12 DEF TerminalKinds

\* A step that closes s with its terminal callback and tells nothing else.
LEMMA ReportClosing ==
  ASSUME TypeOK, DispatcherInv, ReportInv, NEW s \in Streams,
         hcm[s] = "active", NEW next \in {"ended", "deferred"},
         hcm' = [hcm EXCEPT ![s] = next],
         NEW kind \in TerminalKinds, NEW counter \in Counters,
         Terminal(s, kind, counter),
         kind = "cancel" => counter = "stream_cancel",
         kind = "error" => counter = "stream_failure" /\ ReportsCause(s)',
         kind = "complete" => counter = IF reply'[s].status = "2xx"
                                        THEN "stream_success" ELSE "stream_failure",
         \A r \in Streams \ {s} :
           /\ reply'[r] = reply[r] /\ heard'[r] = heard[r] /\ reported'[r] = reported[r]
           /\ error_code_'[r] = error_code_[r] /\ success_'[r] = success_[r]
           /\ error_attempt_count_'[r] = error_attempt_count_[r]
  PROVE  ReportInv'
<1>1. terminals[s] = <<>>
  BY DEF DispatcherInv, OpenUntilClosed
<1>2. StatsCountTerminals'
  BY <1>1, CountStep DEF ReportInv
<1>3. /\ \A k : Contains(terminals'[s], k) <=> k = kind
      /\ \A r \in Streams \ {s} : terminals'[r] = terminals[r]
  BY <1>1, EndedByStep DEF Terminal
<1>4. \A r \in Streams : hcm'[r] = IF r = s THEN next ELSE hcm[r]
  BY DEF TypeOK, HcmTypeOK
<1>5. ASSUME NEW r \in Streams, hcm'[r] \in {"none", "active"}
      PROVE  RemembersReply(r)'
  <2>1. r # s /\ RemembersReply(r)
    BY <1>4, <1>5 DEF ReportInv
  <2>. QED BY <2>1 DEF RemembersReply
<1>6. ASSUME NEW r \in Streams, Contains(terminals'[r], "error")
      PROVE  ReportsCause(r)'
  <2>1. CASE r = s
    BY <1>3, <1>6, <2>1
  <2>2. CASE r # s
    BY <1>3, <1>6, <2>2 DEF ReportInv, ReportsCause
  <2>. QED BY <2>1, <2>2
<1>. QED BY <1>2, <1>5, <1>6 DEF ReportInv

\* on_complete of a stream whose success the DirectStream remembers.
LEMMA ReportComplete ==
  ASSUME TypeOK, DispatcherInv, ReportInv, NEW s \in Streams, hcm[s] = "active",
         hcm' = [hcm EXCEPT ![s] = "ended"],
         reply[s] # NoReply, UNCHANGED <<reply, success_, error_code_, error_attempt_count_>>,
         \A r \in Streams \ {s} : heard'[r] = heard[r],
         onComplete(s, success_[s])
  PROVE  ReportInv'
<1>1. success_[s] = (reply[s].status = "2xx")
  BY DEF ReportInv, RemembersReply
<1>2. PICK counter \in Counters :
        /\ Terminal(s, "complete", counter)
        /\ counter = IF reply'[s].status = "2xx" THEN "stream_success" ELSE "stream_failure"
  BY <1>1 DEF onComplete, Counters
<1>3. reported' = reported
  BY DEF onComplete
<1>. QED BY <1>2, <1>3, ReportClosing DEF TerminalKinds

\* on_error of an open stream, with what the DirectStream remembers.
LEMMA ReportError ==
  ASSUME TypeOK, DispatcherInv, ReportInv, NEW s \in Streams, hcm[s] = "active",
         NEW next \in {"ended", "deferred"}, hcm' = [hcm EXCEPT ![s] = next],
         UNCHANGED <<reply, success_, error_code_, error_attempt_count_, heard>>,
         onError(s, error_code_[s], error_attempt_count_[s])
  PROVE  ReportInv'
<1>1. RemembersReply(s)
  BY DEF ReportInv
<1>2. /\ reported'[s] = [error_code |-> IF error_code_[s] = NoCode THEN "ENVOY_STREAM_RESET"
                                        ELSE error_code_[s],
                         attempt_count |-> error_attempt_count_[s]]
      /\ \A r \in Streams \ {s} : reported'[r] = reported[r]
  BY DEF onError, TypeOK, CbTypeOK
<1>3. ReportsCause(s)'
  <2>1. CASE reply[s] # NoReply /\ IsLocalError(reply[s])
    <3>1. error_code_[s] # NoCode /\ heard[s] = "nothing"
      BY <2>1 DEF DispatcherInv, OpenUntilClosed
    <3>. QED BY <1>1, <1>2, <2>1, <3>1 DEF RemembersReply, ReportsCause
  <2>2. CASE ~(reply[s] # NoReply /\ IsLocalError(reply[s]))
    BY <1>1, <1>2, <2>2 DEF RemembersReply, ReportsCause
  <2>. QED BY <2>1, <2>2
<1>4. Terminal(s, "error", "stream_failure")
  BY DEF onError
<1>. QED BY <1>2, <1>3, <1>4, ReportClosing DEF TerminalKinds, Counters

\* The headers of a reply.
LEMMA ReportHeaders ==
  ASSUME TypeOK, DispatcherInv, ReportInv, NEW s \in Streams,
         NEW h \in Replies, NEW end \in BOOLEAN, encodeHeaders(s, h, end)
  PROVE  ReportInv'
<1>. USE DEF encodeHeaders
<1>1. /\ hcm[s] = "active" /\ reply[s] = NoReply
      /\ reply' = [reply EXCEPT ![s] = h]
      /\ success_' = [success_ EXCEPT ![s] = h.status = "2xx"]
  BY DEF HcmReplies
<1>2. reply'[s] = h /\ h # NoReply /\ success_'[s] = (h.status = "2xx")
  <2>1. h.status # NoReply.status
    BY DEF Replies, NoReply
  <2>2. success_'[s] = (h.status = "2xx")
    BY <1>1 DEF TypeOK, StreamTypeOK
  <2>. QED BY <1>1, <2>1, <2>2 DEF TypeOK, HcmTypeOK
<1>3. \A r \in Streams \ {s} :
        /\ reply'[r] = reply[r] /\ heard'[r] = heard[r] /\ success_'[r] = success_[r]
        /\ error_code_'[r] = error_code_[r]
        /\ error_attempt_count_'[r] = error_attempt_count_[r]
  BY <1>1 DEF TypeOK, HcmTypeOK, StreamTypeOK, CbTypeOK
<1>4. heard[s] = "nothing" /\ terminals[s] = <<>> /\ RemembersReply(s)
  BY <1>1 DEF DispatcherInv, OpenUntilClosed, ReportInv
<1>5. CASE end /\ IsLocalError(h)
  <2>1. hcm' = [hcm EXCEPT ![s] = "ended"] /\ heard' = heard
        /\ onError(s, mapLocalResponseToError(h), h.attempt_count)
    BY <1>5 DEF HcmAfterEncode
  <2>2. mapLocalResponseToError(h) # NoCode
    BY DEF mapLocalResponseToError, NoCode
  <2>3. /\ reported'[s] = [error_code |-> mapLocalResponseToError(h),
                           attempt_count |-> h.attempt_count]
        /\ \A r \in Streams \ {s} : reported'[r] = reported[r]
    BY <2>1, <2>2 DEF onError, TypeOK, CbTypeOK
  <2>4. ReportsCause(s)'
    BY <1>2, <1>4, <1>5, <2>1, <2>3 DEF ReportsCause
  <2>. QED BY <1>1, <1>3, <2>1, <2>3, <2>4, ReportClosing DEF onError, TerminalKinds, Counters
<1>6. CASE end /\ ~IsLocalError(h)
  <2>1. hcm' = [hcm EXCEPT ![s] = "ended"] /\ onComplete(s, h.status = "2xx")
    BY <1>6 DEF HcmAfterEncode
  <2>2. PICK counter \in Counters :
          /\ Terminal(s, "complete", counter)
          /\ counter = IF reply'[s].status = "2xx" THEN "stream_success" ELSE "stream_failure"
    BY <1>2, <2>1 DEF onComplete, Counters
  <2>3. reported' = reported
    BY <2>1 DEF onComplete
  <2>. QED BY <1>1, <1>3, <2>1, <2>2, <2>3, ReportClosing DEF TerminalKinds
<1>7. CASE ~end
  <2>1. UNCHANGED <<hcm, terminals, reported, stats_>>
    BY <1>7 DEF HcmAfterEncode
  <2>2. RemembersReply(s)'
    <3>1. CASE IsLocalError(h)
      BY <1>2, <3>1 DEF RemembersReply, TypeOK, StreamTypeOK
    <3>2. CASE ~IsLocalError(h)
      BY <1>1, <1>2, <1>4, <3>2 DEF RemembersReply
    <3>. QED BY <3>1, <3>2
  <2>3. ASSUME NEW r \in Streams, hcm'[r] \in {"none", "active"}
        PROVE  RemembersReply(r)'
    <3>1. CASE r = s
      BY <2>2, <3>1
    <3>2. CASE r # s
      BY <1>3, <2>1, <2>3, <3>2 DEF RemembersReply, ReportInv
    <3>. QED BY <3>1, <3>2
  <2>4. ~Contains(terminals[s], "error") /\ ~Contains(terminals[s], "complete")
    BY <1>4 DEF Contains
  <2>5. ASSUME NEW r \in Streams, Contains(terminals'[r], "error")
        PROVE  ReportsCause(r)'
    <3>1. r # s
      BY <2>1, <2>4, <2>5
    <3>. QED BY <1>3, <2>1, <2>5, <3>1 DEF ReportInv, ReportsCause
  <2>6. StatsCountTerminals'
    <3>1. EndedBy("complete")' = EndedBy("complete") /\ s \notin EndedBy("complete")
      BY <2>1, <2>4 DEF EndedBy
    <3>2. Succeeded' = Succeeded /\ Unsuccessful' = Unsuccessful
      <4>1. \A r \in EndedBy("complete") : reply'[r] = reply[r]
        BY <1>3, <3>1 DEF EndedBy
      <4>. QED BY <3>1, <4>1 DEF Succeeded, Unsuccessful
    <3>3. EndedBy("cancel")' = EndedBy("cancel") /\ EndedBy("error")' = EndedBy("error")
      BY <2>1 DEF EndedBy
    <3>4. /\ stats_'["stream_cancel"] = Cardinality(EndedBy("cancel")')
          /\ stats_'["stream_success"] = Cardinality(Succeeded')
          /\ stats_'["stream_failure"] = Cardinality(Unsuccessful') + Cardinality(EndedBy("error")')
      BY <2>1, <3>2, <3>3, CountersAreSizes DEF ReportInv
    <3>. QED BY <3>4 DEF StatsCountTerminals, EndedBy, Succeeded, Unsuccessful
  <2>. QED BY <2>3, <2>5, <2>6 DEF ReportInv
<1>. QED BY <1>5, <1>6, <1>7

\* A step that tells nobody anything and opens no stream but fresh ones.
LEMMA ReportKept ==
  ASSUME ReportInv,
         UNCHANGED <<terminals, reported, stats_, reply, success_, error_code_,
                     error_attempt_count_>>,
         \A s \in Streams : hcm'[s] \in {"none", "active"} => hcm[s] \in {"none", "active"},
         \A s \in Streams : Contains(terminals[s], "error") => heard'[s] = heard[s]
  PROVE  ReportInv'
<1>1. \A s \in Streams : hcm'[s] \in {"none", "active"} => RemembersReply(s)'
  BY DEF ReportInv, RemembersReply
<1>2. \A s \in Streams : Contains(terminals'[s], "error") => ReportsCause(s)'
  BY DEF ReportInv, ReportsCause
<1>3. StatsCountTerminals'
  BY DEF ReportInv, StatsCountTerminals
<1>. QED BY <1>1, <1>2, <1>3 DEF ReportInv

\* The HCM's calls.
LEMMA HcmReportStep ==
  ASSUME TypeOK, DispatcherInv, ReportInv, ~FilterMayStrip, NEW s \in Streams, HcmCall(s)
  PROVE  ReportInv'
<1>1. ASSUME NEW end \in BOOLEAN, encodeData(s, end)
      PROVE  ReportInv'
  <2>. USE <1>1 DEF encodeData
  <2>1. /\ hcm[s] = "active" /\ reply[s] # NoReply
        /\ IsLocalError(reply[s]) => end
        /\ UNCHANGED <<reply, success_, error_code_, error_attempt_count_>>
    BY DEF HcmContinues
  <2>2. terminals[s] = <<>> /\ (error_code_[s] # NoCode <=> IsLocalError(reply[s]))
    BY <2>1 DEF DispatcherInv, OpenUntilClosed
  <2>3. \A r \in Streams \ {s} : heard'[r] = heard[r]
    BY DEF TypeOK, CbTypeOK
  <2>4. CASE error_code_[s] # NoCode
    <3>1. hcm' = [hcm EXCEPT ![s] = "ended"] /\ heard' = heard
      BY <2>1, <2>2, <2>4 DEF HcmAfterEncode
    <3>. QED BY <2>1, <2>4, <3>1, ReportError
  <2>5. CASE error_code_[s] = NoCode /\ end
    BY <2>1, <2>3, <2>5, ReportComplete DEF HcmAfterEncode
  <2>6. CASE error_code_[s] = NoCode /\ ~end
    <3>1. UNCHANGED <<terminals, reported, stats_, hcm>>
      BY <2>6 DEF HcmAfterEncode
    <3>2. ~Contains(terminals[s], "error")
      BY <2>2 DEF Contains
    <3>. QED BY <2>1, <2>3, <3>1, <3>2, ReportKept
  <2>. QED BY <2>4, <2>5, <2>6
<1>2. CASE encodeTrailers(s)
  <2>1. /\ hcm[s] = "active" /\ reply[s] # NoReply /\ hcm' = [hcm EXCEPT ![s] = "ended"]
        /\ UNCHANGED <<reply, success_, error_code_, error_attempt_count_>>
        /\ onComplete(s, success_[s])
    BY <1>2 DEF encodeTrailers, HcmContinues, HcmAfterEncode
  <2>2. \A r \in Streams \ {s} : heard'[r] = heard[r]
    BY <1>2 DEF encodeTrailers, TypeOK, CbTypeOK
  <2>. QED BY <2>1, <2>2, ReportComplete
<1>3. CASE resetStream(s)
  <2>1. /\ UNCHANGED <<reply, success_, error_code_, error_attempt_count_, heard>>
        /\ hcm' = [hcm EXCEPT ![s] = "deferred"]
    BY <1>3 DEF resetStream
  <2>2. CASE s \in streams_
    <3>1. hcm[s] = "active" /\ onError(s, error_code_[s], error_attempt_count_[s])
      BY <1>3, <2>2 DEF resetStream, ErrorIfOpen, DispatcherInv, LifeInv, MapMirrorsHcm
    <3>. QED BY <2>1, <3>1, ReportError
  <2>3. CASE s \notin streams_
    <3>1. UNCHANGED <<terminals, reported, stats_>>
      BY <1>3, <2>3 DEF resetStream, ErrorIfOpen
    <3>2. \A r \in Streams : hcm'[r] \in {"none", "active"} => hcm[r] \in {"none", "active"}
      BY <2>1 DEF TypeOK, HcmTypeOK
    <3>. QED BY <2>1, <3>1, <3>2, ReportKept
  <2>. QED BY <2>2, <2>3
<1>4. CASE HcmEndStream(s)
  <2>1. /\ UNCHANGED <<streamVars, cbVars, reply>>
        /\ hcm' = [hcm EXCEPT ![s] = "deferred"]
    BY <1>4 DEF HcmEndStream
  <2>2. \A r \in Streams : hcm'[r] \in {"none", "active"} => hcm[r] \in {"none", "active"}
    BY <2>1 DEF TypeOK, HcmTypeOK
  <2>. QED BY <2>1, <2>2, ReportKept DEF streamVars, cbVars
<1>. QED BY <1>1, <1>2, <1>3, <1>4, ReportHeaders DEF HcmCall

\* The posted closures.
LEMMA RunReportStep ==
  ASSUME TypeOK, DispatcherInv, ReportInv, RunClosure
  PROVE  ReportInv'
<1>. DEFINE s == Head(post_q).stream
<1>1. /\ s \in Streams /\ (runStartStream => hcm[s] = "none")
      /\ s \in streams_ => hcm[s] = "active"
  BY RunStream DEF DispatcherInv
<1>. HIDE DEF s
<1>2. CASE runStartStream
  <2>1. /\ hcm' = [hcm EXCEPT ![s] = "active"]
        /\ UNCHANGED <<reply, success_, error_code_, error_attempt_count_, cbVars>>
    BY <1>2 DEF runStartStream, s
  <2>2. \A r \in Streams : hcm'[r] \in {"none", "active"} => hcm[r] \in {"none", "active"}
    BY <1>1, <1>2, <2>1 DEF TypeOK, HcmTypeOK
  <2>. QED BY <2>1, <2>2, ReportKept DEF cbVars
<1>3. CASE runSend \/ (runCancelStream /\ s \notin streams_)
  <2>1. UNCHANGED <<reply, success_, error_code_, error_attempt_count_, hcm, terminals,
                    reported, stats_, heard>>
    BY <1>3 DEF runSend, runCancelStream, CancelIfOpen, streamVars, cbVars, s
  <2>. QED BY <2>1, ReportKept
<1>4. CASE runCancelStream /\ s \in streams_
  <2>1. /\ hcm' = [hcm EXCEPT ![s] = "deferred"] /\ onCancel(s)
        /\ UNCHANGED <<reply, success_, error_code_, error_attempt_count_, heard>>
    BY <1>4 DEF runCancelStream, CancelIfOpen, s
  <2>. QED BY <1>1, <1>4, <2>1, ReportClosing DEF onCancel, TerminalKinds, Counters
<1>. QED BY <1>2, <1>3, <1>4 DEF RunClosure

\* Every on_error reports what made it, the local reply with its attempt count
\* or a reset, even when the reset overtakes the body of the reply; and the
\* counters account for every terminal callback.
THEOREM ErrorsAreReported ==
  ASSUME ~FilterMayStrip
  PROVE  Spec => []ErrorReportFaithful
<1>1. Init => ReportInv
  <2>. SUFFICES ASSUME Init PROVE ReportInv
    OBVIOUS
  <2>1. \A s \in Streams : RemembersReply(s)
    BY DEF Init, RemembersReply
  <2>2. \A s \in Streams : \A k : ~Contains(terminals[s], k)
    BY DEF Init, Contains
  <2>3. StatsCountTerminals
    <3>1. EndedBy("cancel") = {} /\ EndedBy("error") = {} /\ Succeeded = {} /\ Unsuccessful = {}
      BY <2>2 DEF EndedBy, Succeeded, Unsuccessful
    <3>2. /\ stats_["stream_cancel"] = 0 /\ stats_["stream_success"] = 0
          /\ stats_["stream_failure"] = 0
      BY DEF Init, Counters
    <3>. QED BY <3>1, <3>2, CountersAreSizes, FS_EmptySet
  <2>. QED BY <2>1, <2>2, <2>3 DEF ReportInv
<1>2. TypeOK /\ DispatcherInv /\ ReportInv /\ [Next]_vars => ReportInv'
  <2>. SUFFICES ASSUME TypeOK, DispatcherInv, ReportInv, [Next]_vars
                PROVE  ReportInv'
    OBVIOUS
  <2>1. CASE UNCHANGED <<streamVars, hcmVars, cbVars>>
    BY <2>1, ReportKept DEF streamVars, hcmVars, cbVars
  <2>2. CASE ClearDeferred \/ UNCHANGED vars
    BY <2>1, <2>2 DEF ClearDeferred, vars
  <2>. QED BY <2>1, <2>2, CallersEffect, RunReportStep, HcmReportStep DEF Next
<1>3. ReportInv => ErrorReportFaithful
  BY DEF ReportInv, ReportsCause, ErrorReportFaithful
<1>. QED BY <1>1, <1>2, <1>3, InvCorrect, PTL DEF Spec
=============================================================================
