-------------------------- MODULE FilterBridgeProofs --------------------------
(***************************************************************************)
(* Theorems about FilterBridge, for every bound on the data frames.        *)
(***************************************************************************)
EXTENDS FilterBridge, FiniteSetTheorems, TLAPS

Kinds == {"headers", "data", "trailers"}

\* The three forms of block are different, and so are the blocks of two calls.
LEMMA BlocksDiffer ==
  ASSUME NEW m, NEW n, NEW p, NEW q
  PROVE  /\ Up(m) # Down(n)
         /\ Up(m) # Context(p)
         /\ Down(m) # Context(p)
         /\ Down(m) = Down(n) => m = n
         /\ Context(p) = Context(q) => p = q
BY DEF Up, Down, Context

LEMMA EntityType ==
  ASSUME BridgeInv, NEW kind \in Kinds
  PROVE  Entity(kind, "wire", IF kind = "data" THEN "whole" ELSE text) \in Entities
BY BridgeAssumption DEF BridgeInv, Entities, Entity, Kinds

\* What the two platforms leave of an entity is an entity; iOS changes texts and
\* the JVM data, each as Copied has it.
LEMMA CopyOf ==
  ASSUME NEW x \in Entities
  PROVE  /\ \A p : Copied(p, x) \in Entities
         /\ platform = "jvm" /\ IsMap(x) => \A p : Copied(p, x) = x
         /\ platform = "jvm" /\ x.kind = "data" =>
              \A p : Copied(p, x) = buffer_to_native_data(x)
         /\ platform = "ios" /\ x.kind = "data" => \A p : Copied(p, x) = x
         /\ platform = "ios" => /\ \A p : p \notin app => Copied(p, x) = x
                                /\ \A p \in app : Copied(p, x) = toNativeHeaders(x)
<1>1. /\ x = [kind |-> x.kind, by |-> x.by, form |-> x.form]
      /\ \A f : [x EXCEPT !.form = f] = [kind |-> x.kind, by |-> x.by, form |-> f]
      /\ x.form \in {"none", "ascii", "utf8", "cut", "whole", "slice", "array"}
      /\ IsMap(x) => x.form \in {"ascii", "utf8", "cut"}
      /\ x.kind = "data" => x.form \in {"whole", "slice", "array"}
  BY DEF Entities, Entity, Null, Nil, IsMap
<1>2. /\ x.form = "utf8" => [kind |-> x.kind, by |-> x.by, form |-> "cut"] \in Entities
      /\ x.form = "slice" => [kind |-> x.kind, by |-> x.by, form |-> "array"] \in Entities
  BY DEF Entities, Entity, Null, Nil
<1>3. [x EXCEPT !.form = x.form] = x
  BY <1>1
<1>4. \A p : Copied(p, x) \in Entities
  BY <1>1, <1>2, <1>3 DEF Copied
<1>5. platform = "jvm" /\ IsMap(x) => \A p : Copied(p, x) = x
  BY <1>1, <1>3 DEF Copied
<1>6. platform = "jvm" /\ x.kind = "data" => \A p : Copied(p, x) = buffer_to_native_data(x)
  BY <1>1, <1>3 DEF Copied, buffer_to_native_data
<1>7. platform = "ios" /\ x.kind = "data" => \A p : Copied(p, x) = x
  BY <1>1, <1>3 DEF Copied
<1>8. platform = "ios" => /\ \A p : p \notin app => Copied(p, x) = x
                          /\ \A p \in app : Copied(p, x) = toNativeHeaders(x)
  BY <1>1, <1>3 DEF Copied, toNativeHeaders
<1>. QED
  BY <1>4, <1>5, <1>6, <1>7, <1>8

LEMMA ViewType ==
  ASSUME NEW x \in Entities
  PROVE  Views(x) \subseteq Entities
<1>1. x.kind = "data" => Entity("data", x.by, "slice") \in Entities
  BY DEF Entities, Entity, Null, Nil
<1>. QED
  BY <1>1 DEF Views

\* The application answers with a status of its API; a filter without the
\* interface for the path is taken to answer Continue.
LEMMA AnswerType ==
  ASSUME NEW p \in Paths, NEW kind \in Kinds, NEW e \in Entities,
         NEW a \in Answers(p, kind, e)
  PROVE  /\ a \in AnswerSet
         /\ p \notin app => a.status = "Continue"
<1>1. Null \in Entities /\ \A k \in Kinds : Own(k) \in Entities
  BY DEF Entities, Entity, Kinds, Own
<1>2. \A k \in Kinds : Replacement(p, k) \subseteq Entities
  BY <1>1, ViewType DEF Replacement
<1>3. \A s \in Statuses, h, d, t \in Entities :
        Answer(s, h, d, t) \in AnswerSet /\ Answer(s, h, d, t).status = s
  BY DEF AnswerSet, Answer
<1>4. \A x \in Stops(kind) : \E s \in StopStatuses : x = Answer(s, Null, Null, Null)
  BY DEF Stops, StopStatuses
<1>5. \A x \in Resumes(p, kind) : \E h, d \in Entities :
        x = Answer("ResumeIteration", h, d, Own("trailers"))
  <2>1. Views(Own("data")) \subseteq Entities
    BY <1>1, ViewType DEF Kinds
  <2>. QED
    BY <1>1, <1>2, <2>1 DEF Resumes, Kinds
<1>6. \A x \in Forwards(kind, e) : \E f \in Entities : x = Answer("Continue", f, f, f)
  <2>1. Views(e) \subseteq Entities /\ Views(Own(kind)) \subseteq Entities
    BY <1>1, ViewType
  <2>. QED
    BY <2>1 DEF Forwards
<1>7. CASE p \notin app
  BY <1>3, <1>7 DEF Answers, Statuses
<1>8. CASE p \in app
  <2>1. a \in Stops(kind) \/ a \in Resumes(p, kind) \/ a \in Forwards(kind, e)
    BY <1>8 DEF Answers
  <2>2. CASE a \in Stops(kind)
    BY <1>1, <1>3, <1>4, <1>8, <2>2 DEF Statuses
  <2>3. CASE a \in Resumes(p, kind)
    BY <1>1, <1>3, <1>5, <1>8, <2>3 DEF Statuses, Kinds
  <2>4. CASE a \in Forwards(kind, e)
    BY <1>3, <1>6, <1>8, <2>4 DEF Statuses
  <2> QED
    BY <2>1, <2>2, <2>3, <2>4
<1> QED
  BY <1>7, <1>8

\* Whichever bridge it crosses, an answer arrives with its status or not at
\* all.
LEMMA StatusArrives ==
  ASSUME NEW p \in Paths, NEW kind \in Kinds, NEW e,
         NEW a \in AnswerSet, p \notin app => a.status = "Continue"
  PROVE  OnFrame(p, kind, e, a).status \in {a.status, "crash"}
<1> DEFINE result == FilterResult(kind, e, a)
<1>1. result[1] = a.status
  BY DEF FilterResult
<1>2. Crash.status = "crash" /\ \A s, x, h, d : Native(s, x, h, d).status = s
  BY DEF Crash, Native
<1> HIDE DEF result
<1>3. jvm_http_filter(kind, result).status \in {result[1], "crash"}
  BY <1>2 DEF jvm_http_filter, jvm_http_filter_on_headers,
              jvm_http_filter_on_data, jvm_http_filter_on_trailers, Kinds
<1>4. ios_http_filter(kind, result).status \in {result[1], "crash"}
  BY <1>2 DEF ios_http_filter, ios_http_filter_on_headers,
              ios_http_filter_on_data, ios_http_filter_on_trailers, Kinds
<1> QED
  BY <1>1, <1>2, <1>3, <1>4 DEF OnFrame, result

\* The new call is the last of the log, and the others stay.
LEMMA LogGrows ==
  ASSUME log \in Seq(CallSet), NEW c \in CallSet, log' = Append(log, c)
  PROVE  /\ log' \in Seq(CallSet)
         /\ Len(log') = Len(log) + 1
         /\ log'[Len(log) + 1] = c
         /\ \A n \in 1 .. Len(log) : log'[n] = log[n]
OBVIOUS

LEMMA InvInit == Init => BridgeInv
BY DEF Init, BridgeInv, MemoryIsBalanced, Lost

LEMMA CreateStep ==
  ASSUME BridgeInv, Create
  PROVE  BridgeInv'
<1> USE DEF BridgeInv, Create, choices
<1>1. CASE platform = "ios" /\ ios_set_callbacks
  <2> USE <1>1 DEF ios_set_callbacks
  <2>1. {m \in 1 .. Len(log) : log[m].answer.status \in StopStatuses} = {}
    OBVIOUS
  <2>2. Lost' = {Context(p) : p \in Paths \ async}
    BY <2>1 DEF Lost
  <2>3. async \subseteq Paths
    BY DEF BridgeInv
  <2>4. MemoryIsBalanced'
    BY <2>2, <2>3 DEF MemoryIsBalanced
  <2> QED
    BY <2>4
<1>2. CASE platform = "jvm" /\ jvm_set_callbacks
  BY <1>2 DEF jvm_set_callbacks, MemoryIsBalanced, Lost
<1> QED
  BY <1>1, <1>2

LEMMA ReleaseStep ==
  ASSUME BridgeInv, NEW p \in Paths, release_callbacks(p)
  PROVE  BridgeInv'
<1> USE DEF BridgeInv, release_callbacks, choices
<1>1. Context(p) \notin fragments
  BY BlocksDiffer
<1>2. Context(p) \notin Lost
  BY BlocksDiffer DEF Lost
<1>3. Lost' = Lost
  BY DEF Lost
<1>4. {Context(q) : q \in callbacks'} = {Context(q) : q \in callbacks} \ {Context(p)}
  BY BlocksDiffer
<1>5. MemoryIsBalanced'
  BY <1>1, <1>2, <1>3, <1>4 DEF MemoryIsBalanced
<1> QED
  BY <1>5

\* What Envoy's buffers own is not lost, so that releasing it is right.
LEMMA FragmentsAreNotLost ==
  ASSUME BridgeInv
  PROVE  fragments \cap (Lost \cup {Context(p) : p \in callbacks}) = {}
<1> SUFFICES ASSUME NEW b \in fragments
             PROVE  b \notin Lost /\ \A p : b # Context(p)
  OBVIOUS
<1>1. PICK n \in 1 .. Len(log) :
        b = Up(n) \/ (b = Down(n) /\ log[n].answer.status = "Continue")
  BY DEF BridgeInv
<1>2. \A m \in 1 .. Len(log) : log[m].answer.status \in StopStatuses => b # Down(m)
  BY <1>1, BlocksDiffer DEF StopStatuses
<1> QED
  BY <1>1, <1>2, BlocksDiffer DEF Lost

LEMMA DoneStep ==
  ASSUME BridgeInv, NEW b \in fragments, done(b)
  PROVE  BridgeInv'
<1> USE DEF BridgeInv, done, choices
<1>1. Lost' = Lost
  BY DEF Lost
<1>2. MemoryIsBalanced'
  BY <1>1, FragmentsAreNotLost DEF MemoryIsBalanced
<1> QED
  BY <1>2

LEMMA DestroyStep ==
  ASSUME BridgeInv, onDestroy
  PROVE  BridgeInv'
<1> USE DEF BridgeInv, onDestroy, choices
<1>1. Lost' = Lost
  BY DEF Lost
<1>2. MemoryIsBalanced'
  BY <1>1, FragmentsAreNotLost DEF MemoryIsBalanced
<1> QED
  BY <1>2

\* A call: its native result is used up, becomes a fragment, or is lost.
LEMMA CallStep ==
  ASSUME BridgeInv, NEW p \in Paths, NEW kind \in Kinds, Call(p, kind)
  PROVE  BridgeInv'
<1> DEFINE e == Entity(kind, "wire", IF kind = "data" THEN "whole" ELSE text)
           k == Len(log) + 1
           block == Returned(p)
<1>1. PICK a \in Answers(p, kind, e) :
        /\ log' = Append(log, [path |-> p, kind |-> kind, entity |-> e, answer |-> a])
        /\ Act(p, kind, e, OnFrame(p, kind, e, a), block)
  BY DEF Call
<1> DEFINE c == [path |-> p, kind |-> kind, entity |-> e, answer |-> a]
           result == OnFrame(p, kind, e, a)
<1>2. process = "running" /\ instance = "live" /\ UNCHANGED <<choices, instance, callbacks>>
  BY DEF Call
<1>3. e \in Entities
  BY EntityType
<1> HIDE DEF e
<1>4. a \in AnswerSet /\ (p \notin app => a.status = "Continue")
  BY <1>1, <1>3, AnswerType
<1>5. result.status \in {a.status, "crash"}
  BY <1>4, StatusArrives
<1>6. c \in CallSet /\ c.answer = a
  BY <1>3, <1>4 DEF CallSet, Kinds
<1> HIDE DEF c, result
<1>7. /\ log \in Seq(CallSet) /\ log' \in Seq(CallSet)
      /\ Len(log) \in Nat /\ Len(log') = k
      /\ log'[k] = c
      /\ \A n \in 1 .. Len(log) : log'[n] = log[n]
  BY <1>1, <1>6, LogGrows DEF BridgeInv, c
<1>8. block \in {Up(k), Down(k)} /\ (p \in app => block = Down(k))
  BY DEF Returned
<1> HIDE DEF block
<1>9. Lost' = Lost \cup IF a.status \in StopStatuses THEN {Down(k)} ELSE {}
  <2>1. {m \in 1 .. Len(log') : log'[m].answer.status \in StopStatuses}
          = {m \in 1 .. Len(log) : log[m].answer.status \in StopStatuses}
              \cup IF a.status \in StopStatuses THEN {k} ELSE {}
    BY <1>6, <1>7
  <2> QED
    BY <1>2, <2>1 DEF Lost, choices
<1>10. CASE result.status = "crash"
  <2>1. Fail("crashed")
    BY <1>1, <1>10 DEF Act, result, StopStatuses
  <2> QED
    BY <1>2, <1>7, <2>1 DEF Fail, BridgeInv, MemoryIsBalanced, choices
<1>11. CASE Fail("aborted") /\ result.status = a.status /\ a.status \notin StopStatuses
  BY <1>2, <1>7, <1>11 DEF Fail, BridgeInv, MemoryIsBalanced, choices
<1>12. CASE result.status \in StopStatuses
  <2>1. OnStop(p, kind, e, result, block)
    BY <1>1, <1>12 DEF Act, result, StopStatuses
  <2>2. a.status \in StopStatuses /\ block = Down(k)
    BY <1>4, <1>5, <1>8, <1>12 DEF StopStatuses
  <2>3. MemoryIsBalanced'
    BY <1>2, <1>9, <2>1, <2>2 DEF OnStop, BridgeInv, MemoryIsBalanced
  <2> QED
    BY <1>2, <1>7, <2>1, <2>3 DEF OnStop, BridgeInv, choices
<1>13. CASE result.status = "Continue" /\ OnContinue(p, kind, result, block)
  <2>1. a.status = "Continue" /\ a.status \notin StopStatuses
    BY <1>5, <1>13 DEF StopStatuses
  <2>2. MemoryIsBalanced'
    BY <1>2, <1>9, <1>13, <2>1 DEF OnContinue, BridgeInv, MemoryIsBalanced
  <2>3. \A b \in fragments' : \E n \in 1 .. Len(log') :
          b = Up(n) \/ (b = Down(n) /\ log'[n].answer.status = "Continue")
    <3> SUFFICES ASSUME NEW b \in fragments'
                 PROVE  \E n \in 1 .. Len(log') :
                   b = Up(n) \/ (b = Down(n) /\ log'[n].answer.status = "Continue")
      OBVIOUS
    <3>1. CASE b \in fragments
      BY <1>7, <3>1 DEF BridgeInv
    <3>2. CASE b = block
      BY <1>6, <1>7, <1>8, <2>1, <3>2
    <3> QED
      BY <1>13, <3>1, <3>2 DEF OnContinue
  <2> QED
    BY <1>2, <1>7, <1>13, <2>2, <2>3 DEF OnContinue, BridgeInv, choices
<1>14. CASE result.status = "ResumeIteration" /\ OnResume(p, result)
  <2>1. a.status \notin StopStatuses
    BY <1>5, <1>14 DEF StopStatuses
  <2>2. UNCHANGED <<process, heap, fragments>>
    BY <1>14, Zenon DEF OnResume
  <2>3. MemoryIsBalanced'
    BY <1>2, <1>9, <2>1, <2>2 DEF BridgeInv, MemoryIsBalanced
  <2> QED
    BY <1>2, <1>7, <2>2, <2>3 DEF BridgeInv, choices
<1>15. \/ result.status = "crash"
       \/ Fail("aborted") /\ result.status = a.status /\ a.status \notin StopStatuses
       \/ result.status \in StopStatuses
       \/ result.status = "Continue" /\ OnContinue(p, kind, result, block)
       \/ result.status = "ResumeIteration" /\ OnResume(p, result)
  BY <1>1, <1>5 DEF Act, result, StopStatuses
<1> QED
  BY <1>10, <1>11, <1>12, <1>13, <1>14, <1>15

LEMMA InvNext ==
  ASSUME BridgeInv, [Next]_vars
  PROVE  BridgeInv'
<1>1. CASE UNCHANGED vars
  BY <1>1 DEF vars, choices, BridgeInv, MemoryIsBalanced, Lost
<1>2. CASE Next
  BY <1>2, CreateStep, ReleaseStep, CallStep, DoneStep, DestroyStep DEF Next, Kinds
<1> QED
  BY <1>1, <1>2

\* Between two calls, the native memory that is allocated for a stream's filter
\* is what Envoy's buffers own, the contexts of live callbacks, what came back
\* with a status that stops iteration and the contexts nobody took; however
\* many frames there are, on either platform.
THEOREM MemoryIsReleased == Spec => []MemoryIsBalanced
<1>1. Init => BridgeInv
  BY InvInit
<1>2. BridgeInv /\ [Next]_vars => BridgeInv'
  BY InvNext
<1>3. BridgeInv => MemoryIsBalanced
  BY DEF BridgeInv
<1> QED
  BY <1>1, <1>2, <1>3, PTL DEF Spec
-----------------------------------------------------------------------------
(* What the application lets go on is what the next filter is given *)

LEMMA PassedIsFinite ==
  ASSUME NEW p, NEW n \in Nat
  PROVE  IsFiniteSet(Passed(p, n)) /\ Cardinality(Passed(p, n)) \in Nat
<1>1. IsFiniteSet(1 .. n) /\ Passed(p, n) \subseteq 1 .. n
  BY FS_Interval DEF Passed
<1>2. IsFiniteSet(Passed(p, n))
  BY <1>1, FS_Subset
<1>. QED
  BY <1>2, FS_CardinalityType

\* The answer to call i has its place among those that were passed on.
LEMMA PlaceOf ==
  ASSUME NEW p, NEW n \in Nat, NEW i \in Passed(p, n)
  PROVE  Cardinality(Passed(p, i)) \in 1 .. Cardinality(Passed(p, n))
<1>1. i \in Nat /\ i \in Passed(p, i) /\ Passed(p, i) \subseteq Passed(p, n)
  BY DEF Passed
<1>2. /\ IsFiniteSet(Passed(p, i)) /\ Cardinality(Passed(p, i)) \in Nat
      /\ IsFiniteSet(Passed(p, n)) /\ Cardinality(Passed(p, n)) \in Nat
  BY <1>1, PassedIsFinite
<1>3. Cardinality(Passed(p, i)) <= Cardinality(Passed(p, n))
  BY <1>1, <1>2, FS_Subset
<1>4. Cardinality(Passed(p, i)) # 0
  BY <1>1, <1>2, FS_EmptySet
<1>. QED
  BY <1>2, <1>3, <1>4

\* The inductive invariant, with BridgeInv: FramesSurviveTheBridge, and that
\* the process runs until there is a filter.
PassInv ==
  /\ platform \in {"ios", "jvm"}
  /\ DOMAIN forwarded = Paths
  /\ instance = "none" => process = "running"
  /\ \A p \in Paths :
       process = "running" /\ ~HasResumed(p) => forwarded[p] \in Seq(Entities)
  /\ FramesSurviveTheBridge

\* Whichever bridge it crosses, the entity of an answer Continue arrives, but
\* for the text of headers on iOS and a part of a ByteBuffer on the JVM.
LEMMA EntityArrives ==
  ASSUME NEW p \in Paths, NEW kind \in Kinds, NEW e \in Entities,
         NEW a \in Answers(p, kind, e), a.status = "Continue",
         platform \in {"ios", "jvm"},
         OnFrame(p, kind, e, a).status = "Continue"
  PROVE  /\ OnFrame(p, kind, e, a).entity = Copied(p, a[kind])
         /\ Copied(p, a[kind]) \in Entities
<1>. DEFINE r == FilterResult(kind, e, a)
<1>1. a \in AnswerSet
  BY AnswerType
<1>2. a[kind] \in Entities
  BY <1>1 DEF AnswerSet, Kinds
<1>3. r = <<"Continue", a[kind]>> /\ r[1] = "Continue" /\ r[2] = a[kind] /\ Len(r) = 2
  <2>1. "Continue" \notin StopStatuses
    BY DEF StopStatuses
  <2>2. r = <<a.status, a[kind]>>
    BY <2>1, Zenon DEF FilterResult
  <2>3. r = <<"Continue", a[kind]>>
    BY <2>2
  <2>. HIDE DEF r
  <2>. QED
    BY <2>3
<1>4. Crash.status # "Continue" /\ \A s, x, h, d : Native(s, x, h, d).entity = x
  BY DEF Crash, Native
<1>. HIDE DEF r
<1>5. Copied(p, a[kind]) \in Entities
  BY <1>2, CopyOf
<1>6. CASE platform = "jvm"
  <2>1. OnFrame(p, kind, e, a) = jvm_http_filter(kind, r)
    BY <1>6 DEF OnFrame, r
  <2>2. CASE kind = "data"
    <3>1. jvm_http_filter(kind, r) = jvm_http_filter_on_data(r)
      BY <2>2 DEF jvm_http_filter
    <3>2. /\ r[2].kind = "data"
          /\ jvm_http_filter_on_data(r).entity = buffer_to_native_data(r[2])
      BY <1>4, <2>1, <3>1 DEF jvm_http_filter_on_data
    <3>. QED
      BY <1>2, <1>3, <1>5, <1>6, <2>1, <3>1, <3>2, CopyOf
  <2>3. CASE kind # "data"
    <3>1. jvm_http_filter(kind, r) = jvm_http_filter_on_headers(r)
      BY <2>3 DEF jvm_http_filter, jvm_http_filter_on_trailers, Kinds
    <3>2. IsMap(r[2]) /\ jvm_http_filter_on_headers(r).entity = r[2]
      BY <1>4, <2>1, <3>1 DEF jvm_http_filter_on_headers, toJniFilterHeadersStatus
    <3>. QED
      BY <1>2, <1>3, <1>5, <1>6, <2>1, <3>1, <3>2, CopyOf
  <2>. QED
    BY <2>2, <2>3
<1>7. CASE platform # "jvm" /\ p \notin app
  <2>1. a = Answer("Continue", e, e, e)
    BY <1>7 DEF Answers
  <2>2. a[kind] = e
    BY <2>1 DEF Answer, Kinds
  <2>3. OnFrame(p, kind, e, a).entity = e
    BY <1>4, <1>7 DEF OnFrame
  <2>4. Copied(p, a[kind]) = a[kind]
    BY <1>2, <1>7, CopyOf
  <2>. QED
    BY <1>5, <2>2, <2>3, <2>4
<1>8. CASE platform # "jvm" /\ p \in app
  <2>1. OnFrame(p, kind, e, a) = ios_http_filter(kind, r)
    BY <1>8 DEF OnFrame, r
  <2>2. CASE kind = "data"
    <3>1. ios_http_filter(kind, r) = ios_http_filter_on_data(r)
      BY <2>2 DEF ios_http_filter
    <3>2. /\ r[2].kind = "data"
          /\ ios_http_filter_on_data(r).entity = r[2]
      BY <1>4, <2>1, <3>1 DEF ios_http_filter_on_data
    <3>3. Copied(p, a[kind]) = a[kind]
      BY <1>2, <1>3, <1>8, <3>2, CopyOf
    <3>. QED
      BY <1>3, <1>5, <2>1, <3>1, <3>2, <3>3
  <2>3. CASE kind # "data"
    <3>1. \/ ios_http_filter(kind, r) = ios_http_filter_on_headers(r)
          \/ ios_http_filter(kind, r) = ios_http_filter_on_trailers(r)
      BY <2>3 DEF ios_http_filter, Kinds
    <3>2. IsMap(r[2]) /\ ios_http_filter(kind, r).entity = toNativeHeaders(r[2])
      BY <1>4, <2>1, <3>1 DEF ios_http_filter_on_headers, ios_http_filter_on_trailers
    <3>3. platform = "ios" => Copied(p, a[kind]) = toNativeHeaders(a[kind])
      BY <1>2, <1>8, CopyOf
    <3>. QED
      BY <1>3, <1>5, <1>8, <2>1, <3>2, <3>3
  <2>. QED
    BY <2>2, <2>3
<1>. QED
  BY <1>6, <1>7, <1>8

\* Where the frames of path q have their places after a call.
LEMMA PassedAfterCall ==
  ASSUME log \in Seq(CallSet), NEW c \in CallSet, log' = Append(log, c), NEW q \in Paths
  PROVE  /\ \A i \in Passed(q, Len(log)) : Passed(q, i)' = Passed(q, i) /\ log'[i] = log[i]
         /\ HasResumed(q) => HasResumed(q)'
         /\ c.path = q /\ c.answer.status = "ResumeIteration" => HasResumed(q)'
         /\ ~(c.path = q /\ c.answer.status = "Continue") =>
              Passed(q, Len(log))' = Passed(q, Len(log))
         /\ c.path = q /\ c.answer.status = "Continue" =>
              /\ Passed(q, Len(log))' = Passed(q, Len(log)) \cup {Len(log) + 1}
              /\ Cardinality(Passed(q, Len(log))') = Cardinality(Passed(q, Len(log))) + 1
<1>. DEFINE n == Len(log)
<1>1. /\ n \in Nat /\ Len(log') = n + 1 /\ log'[n + 1] = c
      /\ \A i \in 1 .. n : log'[i] = log[i]
  BY LogGrows
<1>. DEFINE P(m) == {i \in 1 .. m : log'[i].path = q /\ log'[i].answer.status = "Continue"}
<1>2. Passed(q, Len(log))' = P(n + 1)
  BY <1>1 DEF Passed
<1>3. \A i \in 0 .. n : P(i) = Passed(q, i)
  BY <1>1 DEF Passed
<1>4. ASSUME NEW i \in Passed(q, Len(log))
      PROVE  Passed(q, i)' = Passed(q, i) /\ log'[i] = log[i]
  <2>1. i \in 1 .. n /\ i \in 0 .. n
    BY <1>1 DEF Passed
  <2>2. Passed(q, i)' = P(i)
    BY DEF Passed
  <2>. QED
    BY <1>1, <1>3, <2>1, <2>2
<1>5. HasResumed(q) => HasResumed(q)'
  BY <1>1 DEF HasResumed
<1>6. c.path = q /\ c.answer.status = "ResumeIteration" => HasResumed(q)'
  BY <1>1 DEF HasResumed
<1>7. ~(c.path = q /\ c.answer.status = "Continue") => P(n + 1) = Passed(q, n)
  BY <1>1 DEF Passed
<1>8. c.path = q /\ c.answer.status = "Continue" => P(n + 1) = Passed(q, n) \cup {n + 1}
  BY <1>1 DEF Passed
<1>9. n + 1 \notin Passed(q, n)
  BY <1>1 DEF Passed
<1>10. Cardinality(Passed(q, n) \cup {n + 1}) = Cardinality(Passed(q, n)) + 1
  BY <1>1, <1>9, PassedIsFinite, FS_AddElement
<1>. QED
  BY <1>2, <1>4, <1>5, <1>6, <1>7, <1>8, <1>10

LEMMA PassCallStep ==
  ASSUME BridgeInv, PassInv, NEW p \in Paths, NEW kind \in Kinds, Call(p, kind)
  PROVE  PassInv'
<1> DEFINE e == Entity(kind, "wire", IF kind = "data" THEN "whole" ELSE text)
           n == Len(log)
           block == Returned(p)
<1>1. PICK a \in Answers(p, kind, e) :
        /\ log' = Append(log, [path |-> p, kind |-> kind, entity |-> e, answer |-> a])
        /\ Act(p, kind, e, OnFrame(p, kind, e, a), block)
  BY DEF Call
<1> DEFINE c == [path |-> p, kind |-> kind, entity |-> e, answer |-> a]
           result == OnFrame(p, kind, e, a)
<1>2. /\ process = "running" /\ instance = "live" /\ instance' = "live"
      /\ platform' = platform /\ app' = app
  BY DEF Call, choices
<1>3. e \in Entities
  BY EntityType
<1> HIDE DEF e
<1>4. a \in AnswerSet /\ (p \notin app => a.status = "Continue")
  BY <1>1, <1>3, AnswerType
<1>5. result.status \in {a.status, "crash"}
  BY <1>4, StatusArrives
<1>6. c \in CallSet /\ c.answer = a /\ c.path = p /\ c.kind = kind
  BY <1>3, <1>4 DEF CallSet, Kinds
<1>7. a.status = "Continue" /\ result.status = "Continue" =>
        result.entity = Copied(p, a[kind]) /\ Copied(p, a[kind]) \in Entities
  BY <1>1, <1>3, EntityArrives DEF PassInv
<1> HIDE DEF c, result
<1>8. log \in Seq(CallSet) /\ log' = Append(log, c) /\ n \in Nat
  BY <1>1 DEF BridgeInv, c
<1>9. \/ process' # "running"
      \/ result.status \in StopStatuses /\ forwarded' = forwarded
      \/ /\ result.status = "Continue"
         /\ forwarded' = [forwarded EXCEPT ![p] = Append(@, result.entity)]
      \/ /\ result.status = "ResumeIteration"
         /\ \E x : forwarded' = [forwarded EXCEPT ![p] = x]
  BY <1>1 DEF Act, result, Fail, OnStop, OnContinue, OnResume
<1>10. DOMAIN forwarded' = Paths
  <2>1. \/ forwarded' = forwarded
        \/ \E x : forwarded' = [forwarded EXCEPT ![p] = x]
    BY <1>1 DEF Act, result, Fail, OnStop, OnContinue, OnResume
  <2>. QED
    BY <2>1 DEF PassInv
<1>11. ASSUME NEW q \in Paths, process' = "running", ~HasResumed(q)'
       PROVE  /\ forwarded'[q] \in Seq(Entities)
              /\ Len(forwarded'[q]) = Cardinality(Passed(q, Len(log))')
              /\ \A i \in Passed(q, Len(log))' :
                   forwarded'[q][Cardinality(Passed(q, i)')] =
                     Copied(q, log'[i].answer[log'[i].kind])
  <2>1. /\ \A i \in Passed(q, n) : Passed(q, i)' = Passed(q, i) /\ log'[i] = log[i]
        /\ ~HasResumed(q)
        /\ ~(c.path = q /\ c.answer.status = "ResumeIteration")
        /\ ~(c.path = q /\ c.answer.status = "Continue") =>
             Passed(q, Len(log))' = Passed(q, n)
        /\ c.path = q /\ c.answer.status = "Continue" =>
             /\ Passed(q, Len(log))' = Passed(q, n) \cup {n + 1}
             /\ Cardinality(Passed(q, Len(log))') = Cardinality(Passed(q, n)) + 1
    BY <1>6, <1>8, <1>11, PassedAfterCall
  <2>2. /\ forwarded[q] \in Seq(Entities)
        /\ Len(forwarded[q]) = Cardinality(Passed(q, n))
        /\ \A i \in Passed(q, n) :
             forwarded[q][Cardinality(Passed(q, i))] = Copied(q, log[i].answer[log[i].kind])
    BY <1>2, <2>1 DEF PassInv, FramesSurviveTheBridge
  <2>3. CASE q # p \/ result.status \in StopStatuses
    <3>1. forwarded'[q] = forwarded[q]
      BY <1>9, <1>11, <2>3 DEF PassInv, StopStatuses
    <3>2. Passed(q, Len(log))' = Passed(q, n)
      BY <1>5, <1>6, <2>1, <2>3 DEF StopStatuses
    <3>. QED
      BY <2>1, <2>2, <3>1, <3>2
  <2>4. CASE q = p /\ result.status \notin StopStatuses
    <3>1. /\ result.status = "Continue" /\ a.status = "Continue"
          /\ forwarded' = [forwarded EXCEPT ![p] = Append(@, result.entity)]
      BY <1>5, <1>6, <1>9, <1>11, <2>1, <2>4
    <3>. DEFINE x == Copied(p, a[kind])
    <3>2. forwarded'[q] = Append(forwarded[q], x) /\ x \in Entities
      BY <1>7, <2>4, <3>1 DEF PassInv
    <3>. HIDE DEF x
    <3>3. /\ forwarded'[q] \in Seq(Entities)
          /\ Len(forwarded'[q]) = Len(forwarded[q]) + 1
          /\ forwarded'[q][Len(forwarded[q]) + 1] = x
          /\ \A k \in 1 .. Len(forwarded[q]) : forwarded'[q][k] = forwarded[q][k]
      BY <2>2, <3>2
    <3>4. /\ Passed(q, Len(log))' = Passed(q, n) \cup {n + 1}
          /\ Cardinality(Passed(q, Len(log))') = Cardinality(Passed(q, n)) + 1
      BY <1>6, <2>1, <2>4, <3>1
    <3>5. ASSUME NEW i \in Passed(q, n)
          PROVE  forwarded'[q][Cardinality(Passed(q, i)')] =
                   Copied(q, log'[i].answer[log'[i].kind])
      <4>1. Cardinality(Passed(q, i)) \in 1 .. Len(forwarded[q])
        BY <1>8, <2>2, PlaceOf
      <4>. QED
        BY <2>1, <2>2, <3>3, <4>1
    <3>6. ASSUME NEW i, i = n + 1
          PROVE  forwarded'[q][Cardinality(Passed(q, i)')] =
                   Copied(q, log'[i].answer[log'[i].kind])
      <4>1. log'[i] = c /\ Len(log') = i
        BY <1>6, <1>8, <3>6, LogGrows
      <4>2. Passed(q, i)' = Passed(q, Len(log))'
        BY <4>1 DEF Passed
      <4>3. Cardinality(Passed(q, i)') = Len(forwarded[q]) + 1
        BY <2>2, <3>4, <4>2
      <4>4. Copied(q, log'[i].answer[log'[i].kind]) = x
        BY <1>6, <2>4, <4>1 DEF x
      <4>. QED
        BY <3>3, <4>3, <4>4
    <3>. QED
      BY <2>2, <3>3, <3>4, <3>5, <3>6
  <2>. QED
    BY <2>3, <2>4
<1>12. ASSUME NEW q, NEW x PROVE Copied(q, x)' = Copied(q, x)
  BY <1>2 DEF Copied
<1>13. FramesSurviveTheBridge'
  <2>1. SUFFICES ASSUME NEW q \in Paths, process' = "running", ~HasResumed(q)'
                 PROVE  /\ Len(forwarded'[q]) = Cardinality(Passed(q, Len(log))')
                        /\ \A i \in Passed(q, Len(log))' :
                             forwarded'[q][Cardinality(Passed(q, i)')] =
                               Copied(q, log[i].answer[log[i].kind])'
    BY DEF FramesSurviveTheBridge
  <2>2. \A i : Copied(q, log[i].answer[log[i].kind])' = Copied(q, log'[i].answer[log'[i].kind])
    BY <1>2 DEF Copied
  <2>. QED
    BY <1>11, <2>1, <2>2
<1>. QED
  BY <1>2, <1>10, <1>11, <1>13 DEF PassInv

\* The other steps neither log a call nor forward anything.
LEMMA PassQuietStep ==
  ASSUME PassInv, UNCHANGED <<choices, log, forwarded>>,
         process' = "running" => process = "running",
         instance' = "none" => instance = "none" /\ process' = process
  PROVE  PassInv'
<1>1. platform' = platform /\ app' = app
  BY DEF choices
<1>2. \A q \in Paths : HasResumed(q)' <=> HasResumed(q)
  BY DEF HasResumed
<1>3. FramesSurviveTheBridge'
  <2>1. SUFFICES ASSUME NEW q \in Paths, process' = "running", ~HasResumed(q)'
                 PROVE  /\ Len(forwarded'[q]) = Cardinality(Passed(q, Len(log))')
                        /\ \A i \in Passed(q, Len(log))' :
                             forwarded'[q][Cardinality(Passed(q, i)')] =
                               Copied(q, log[i].answer[log[i].kind])'
    BY DEF FramesSurviveTheBridge
  <2>2. \A i : Copied(q, log[i].answer[log[i].kind])' = Copied(q, log[i].answer[log[i].kind])
    BY <1>1 DEF Copied
  <2>3. Passed(q, Len(log))' = Passed(q, Len(log)) /\ \A i : Passed(q, i)' = Passed(q, i)
    BY DEF Passed
  <2>. QED
    BY <1>2, <2>1, <2>2, <2>3 DEF PassInv, FramesSurviveTheBridge
<1>. QED
  BY <1>1, <1>2, <1>3 DEF PassInv

\* On a path that the application has not resumed, the next filter is given the
\* entities that it let go on, all of them and in that order, whichever of
\* jni_interface.cc and EnvoyEngineImpl.m is between, for any number of frames
\* on the two paths: but for what Copied says of texts on iOS and of a part of
\* a ByteBuffer on the JVM, where the code does change what it was given.
THEOREM FramesSurvive == Spec => []FramesSurviveTheBridge
<1>1. Init => PassInv
  <2>1. SUFFICES ASSUME Init PROVE PassInv
    OBVIOUS
  <2>2. /\ \A p \in Paths : forwarded[p] = <<>>
        /\ log = <<>> /\ process = "running" /\ platform \in {"ios", "jvm"}
        /\ DOMAIN forwarded = Paths
    BY <2>1, BridgeAssumption DEF Init
  <2>3. \A p \in Paths : Passed(p, Len(log)) = {}
    BY <2>2 DEF Passed
  <2>4. <<>> \in Seq(Entities) /\ Len(<<>>) = 0 /\ Cardinality({}) = 0
    BY FS_EmptySet
  <2>5. \A p \in Paths : /\ Len(forwarded[p]) = Cardinality(Passed(p, Len(log)))
                         /\ forwarded[p] \in Seq(Entities)
    BY <2>2, <2>3, <2>4
  <2>6. FramesSurviveTheBridge
    BY <2>3, <2>5 DEF FramesSurviveTheBridge
  <2>. QED
    BY <2>2, <2>5, <2>6 DEF PassInv
<1>2. BridgeInv /\ PassInv /\ [Next]_vars => PassInv'
  <2>1. SUFFICES ASSUME BridgeInv, PassInv, [Next]_vars PROVE PassInv'
    OBVIOUS
  <2>2. ASSUME Create PROVE PassInv'
    BY <2>1, <2>2, PassQuietStep DEF Create, PassInv
  <2>3. ASSUME NEW p \in Paths, release_callbacks(p) PROVE PassInv'
    BY <2>1, <2>3, PassQuietStep DEF release_callbacks
  <2>4. ASSUME NEW b \in fragments, done(b) PROVE PassInv'
    BY <2>1, <2>4, PassQuietStep DEF done
  <2>5. ASSUME onDestroy PROVE PassInv'
    BY <2>1, <2>5, PassQuietStep DEF onDestroy
  <2>6. ASSUME NEW p \in Paths, NEW kind \in Kinds, Call(p, kind) PROVE PassInv'
    BY <2>1, <2>6, PassCallStep
  <2>7. CASE UNCHANGED vars
    BY <2>1, <2>7, PassQuietStep DEF vars
  <2>. QED
    BY <2>1, <2>2, <2>3, <2>4, <2>5, <2>6, <2>7 DEF Next, Kinds
<1>3. BridgeInv /\ [Next]_vars => BridgeInv'
  BY InvNext
<1>4. PassInv => FramesSurviveTheBridge
  BY DEF PassInv
<1> QED
  BY <1>1, <1>2, <1>3, <1>4, InvInit, PTL DEF Spec
=============================================================================
