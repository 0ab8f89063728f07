---------------------- MODULE PlatformBridgeFilterProofs ----------------------
(***************************************************************************)
(* Proofs about a platform filter which has functions for one path only:   *)
(* it never runs into a RELEASE_ASSERT, a late resumption does nothing,    *)
(* and the frames of both paths are forwarded in order, completely, and up *)
(* to one end of the stream.                                               *)
(***************************************************************************)
EXTENDS PlatformBridgeFilter, SequenceTheorems, TLAPS

\* The platform filter looks at requests or at responses, not at both.
OnePath == \A p, q \in Implemented : p = q

Views == {"ongoing", "stopped", "dropping"}

\* The inductive invariant: what the platform filter believes of its path is
\* what the one iteration_state_ of the filter says.
StateInv ==
  /\ aborted = FALSE
  /\ iteration_state_ \in {"Ongoing", "Stopped"}
  /\ view \in [Paths -> Views]
  /\ resumes \in Seq(Implemented)
  /\ \A p \in Implemented : view[p] = "ongoing" <=> iteration_state_ = "Ongoing"

\* StateInv speaks of these variables only.
LEMMA StateInvStable ==
  ASSUME StateInv, UNCHANGED <<aborted, iteration_state_, view, resumes>>
  PROVE  StateInv'
BY DEF StateInv

\* A step that leaves the path p stopped, or ongoing, on both sides.
LEMMA BothAgree ==
  ASSUME OnePath, StateInv, NEW p \in Implemented, NEW v \in Views,
         view' = [view EXCEPT ![p] = v],
         iteration_state_' = (IF v = "ongoing" THEN "Ongoing" ELSE "Stopped"),
         aborted' = aborted, resumes' \in Seq(Implemented)
  PROVE  StateInv'
<1>1. p \in Paths
  BY FilterAssumption
<1>2. view' \in [Paths -> Views] /\ view'[p] = v
  BY <1>1 DEF StateInv
<1>3. \A q \in Implemented : q = p
  BY DEF OnePath
<1>. QED
  BY <1>2, <1>3 DEF StateInv

\* Headers: continue, or stop.
LEMMA HeadersKeepStateInv ==
  ASSUME OnePath, StateInv, NEW p \in Paths, NEW end \in BOOLEAN, onHeaders(p, end)
  PROVE  StateInv'
<1>1. aborted' = aborted /\ resumes' = resumes
  BY DEF onHeaders, HeadersArrive, Arrives, postVars
<1>2. CASE HeadersContinue(p, end)
  BY <1>1, <1>2, StateInvStable DEF HeadersContinue
<1>3. CASE p \in Implemented /\ HeadersStop(p)
  BY <1>1, <1>3, BothAgree DEF HeadersStop, Views, StateInv
<1>. QED
  BY <1>2, <1>3 DEF onHeaders

\* Data: a status that filter.h allows passes the assertions on iteration_state_.
LEMMA DataKeepsStateInv ==
  ASSUME OnePath, StateInv, NEW p \in Paths, NEW end \in BOOLEAN, onData(p, end)
  PROVE  StateInv'
<1>1. resumes' = resumes
  BY DEF onData, DataArrive, Arrives, postVars
<1>2. CASE p \notin Implemented
  BY <1>1, <1>2, StateInvStable DEF onData, platformVars
<1>3. CASE p \in Implemented /\ DataContinue(p, end)
  BY <1>1, <1>3, StateInvStable DEF DataContinue, StateInv, platformVars
<1>4. CASE p \in Implemented /\ DataStopAndBuffer(p, end)
  BY <1>1, <1>4, BothAgree DEF DataStopAndBuffer, Views, StateInv
<1>5. CASE p \in Implemented /\ DataStopNoBuffer(p, end)
  BY <1>1, <1>5, BothAgree DEF DataStopNoBuffer, Views, StateInv
<1>6. CASE p \in Implemented /\ DataResume(p, end)
  <2>1. iteration_state_ = "Stopped"
    BY <1>6 DEF DataResume, StateInv
  <2>2. BecomesOngoing(p) /\ aborted' = aborted
    BY <1>6, <2>1 DEF DataResume
  <2>. QED
    BY <1>1, <1>6, <2>2, BothAgree DEF BecomesOngoing, Views, StateInv
<1>. QED
  BY <1>2, <1>3, <1>4, <1>5, <1>6 DEF onData

\* Trailers, likewise.
LEMMA TrailersKeepStateInv ==
  ASSUME OnePath, StateInv, NEW p \in Paths, onTrailers(p)
  PROVE  StateInv'
<1>1. resumes' = resumes
  BY DEF onTrailers, TrailersArrive, Arrives, postVars
<1>2. CASE p \notin Implemented
  BY <1>1, <1>2, StateInvStable DEF onTrailers, platformVars
<1>3. CASE p \in Implemented /\ TrailersContinue(p)
  BY <1>1, <1>3, StateInvStable DEF TrailersContinue, StateInv, platformVars
<1>4. CASE p \in Implemented /\ TrailersStop(p)
  BY <1>1, <1>4, BothAgree DEF TrailersStop, Views, StateInv
<1>5. CASE p \in Implemented /\ TrailersResume(p)
  <2>1. iteration_state_ = "Stopped"
    BY <1>5 DEF TrailersResume, StateInv
  <2>2. BecomesOngoing(p) /\ aborted' = aborted
    BY <1>5, <2>1 DEF TrailersResume
  <2>. QED
    BY <1>1, <1>5, <2>2, BothAgree DEF BecomesOngoing, Views, StateInv
<1>. QED
  BY <1>2, <1>3, <1>4, <1>5 DEF onTrailers

\* A posted onResume: nothing, a refusal, or iteration goes on.
LEMMA ResumeKeepsStateInv ==
  ASSUME OnePath, StateInv, onResume
  PROVE  StateInv'
<1>. DEFINE p == Head(resumes)
<1>1. p \in Implemented /\ resumes' \in Seq(Implemented) /\ aborted' = aborted
  BY DEF onResume, StateInv
<1>2. CASE ~Resumes(p)
  BY <1>1, <1>2 DEF onResume, filterVars, platformVars, StateInv
<1>3. CASE Resumes(p) /\ ResumeAnswered(p)
  BY <1>1, <1>3, BothAgree DEF ResumeAnswered, BecomesOngoing, Views, StateInv
<1>4. CASE Resumes(p) /\ UNCHANGED <<filterVars, view>>
  BY <1>1, <1>4 DEF filterVars, StateInv
<1>. QED
  BY <1>2, <1>3, <1>4 DEF onResume

\* StateInv holds in every reachable state.
THEOREM StateInvIsInvariant ==
  ASSUME OnePath
  PROVE  Spec => []StateInv
<1>1. Init => StateInv
  <2>1. <<>> \in Seq(Implemented)
    OBVIOUS
  <2>2. [p \in Paths |-> "ongoing"] \in [Paths -> Views]
    BY DEF Views
  <2>3. \A p \in Implemented : p \in Paths
    BY FilterAssumption
  <2>. QED
    BY <2>1, <2>2, <2>3 DEF Init, StateInv
<1>2. ASSUME StateInv, [Next]_vars PROVE StateInv'
  <2>1. ASSUME NEW p \in Paths, NEW end \in BOOLEAN, onHeaders(p, end) \/ onData(p, end)
        PROVE  StateInv'
    BY <1>2, <2>1, HeadersKeepStateInv, DataKeepsStateInv
  <2>2. ASSUME NEW p \in Paths, onTrailers(p) PROVE StateInv'
    BY <1>2, <2>2, TrailersKeepStateInv
  <2>3. ASSUME NEW p \in Paths, resume_iteration(p) PROVE StateInv'
    BY <1>2, <2>3, StateInvStable DEF resume_iteration, filterVars, postVars
  <2>4. ASSUME NEW p \in Paths, resume(p) PROVE StateInv'
    BY <1>2, <2>4 DEF resume, filterVars, platformVars, StateInv
  <2>5. CASE onResume
    BY <1>2, <2>5, ResumeKeepsStateInv
  <2>6. CASE onDestroy \/ DeleteFilter
    BY <1>2, <2>6, StateInvStable DEF onDestroy, DeleteFilter, filterVars, platformVars
  <2>7. CASE UNCHANGED vars
    BY <1>2, <2>7, StateInvStable DEF vars, filterVars, postVars, platformVars
  <2>. QED
    BY <1>2, <2>1, <2>2, <2>3, <2>4, <2>5, <2>6, <2>7 DEF Next
<1>. QED
  BY <1>1, <1>2, PTL DEF Spec

\* For any number of data frames and resumptions, with every status and timing
\* that the rule of filter.h allows: on one path the RELEASE_ASSERTs of onData
\* and onTrailers hold.  (On both paths they do not: see Filter_shared_state.)
THEOREM OnePathNeverAborts ==
  ASSUME OnePath
  PROVE  Spec => []NeverAborts
<1>1. StateInv => NeverAborts
  BY DEF StateInv, NeverAborts
<1>. QED
  BY <1>1, StateInvIsInvariant, PTL

-----------------------------------------------------------------------------
(* Frames in order, and none of them lost *)

FilterTypes ==
  /\ life \in {"alive", "released", "gone"}
  /\ pending_headers_ \in [Paths -> BOOLEAN]
  /\ pending_trailers_ \in [Paths -> BOOLEAN]
  /\ complete_ \in [Paths -> BOOLEAN]
  /\ stage \in [Paths -> {"start", "open", "ended"}]
  /\ arrived \in [Paths -> 0 .. MaxData]
  /\ iteration \in [Paths -> {"continue", "stop"}]
  /\ has_buffer \in [Paths -> BOOLEAN]
  /\ buffer \in [Paths -> Seq(Int)]
  /\ forwarded \in [Paths -> Seq(Int)]
  /\ ends \in [Paths -> Nat]
  /\ dropped \in [Paths -> SUBSET Int]
  /\ omitted \in [Paths -> BOOLEAN]

\* How far the path p has come, and what the manager holds back meanwhile.
Progress(p) ==
  /\ stage[p] = "start" =>
       /\ forwarded[p] = <<>> /\ dropped[p] = {} /\ arrived[p] = 0
       /\ iteration[p] = "continue" /\ ~has_buffer[p]
  /\ iteration[p] = "continue" =>
       buffer[p] = <<>> /\ (stage[p] # "start" => forwarded[p] # <<>>)
  /\ forwarded[p] # <<>> => forwarded[p][1] = Headers
  /\ buffer[p] # <<>> => has_buffer[p]
  /\ complete_[p] <=> stage[p] = "ended"
  /\ stage[p] # "ended" \/ iteration[p] = "stop" =>
       ends[p] = 0 /\ Trailers \notin Range(forwarded[p])
  /\ ends[p] \in {0, 1}
  /\ iteration[p] = "stop" => p \in Implemented

\* The frames that were forwarded precede those held back.
Below(S, T) == \A x \in S, y \in T : y # Injected => x < y
InLine(p) ==
  /\ Rising(forwarded[p], dropped[p]) /\ Rising(buffer[p], dropped[p])
  /\ Below(Range(forwarded[p]), Range(buffer[p]))

\* Every data frame that arrived is in exactly one place.
Accounted(p) ==
  /\ Range(forwarded[p]) \subseteq {Injected, Headers, Trailers} \cup (1 .. arrived[p])
  /\ 1 .. arrived[p] \subseteq Range(forwarded[p]) \cup Range(buffer[p]) \cup dropped[p]
  /\ Range(buffer[p]) \cup dropped[p] \subseteq 1 .. arrived[p]
  /\ Range(forwarded[p]) \cap Range(buffer[p]) = {}
  /\ Range(forwarded[p]) \cap dropped[p] = {}
  /\ Range(buffer[p]) \cap dropped[p] = {}

\* While the stream lives, the filter and the platform filter know what the
\* manager holds back.
Known(p) ==
  life = "alive" =>
    /\ view[p] = "ongoing" <=> iteration[p] = "continue"
    /\ pending_headers_[p] => stage[p] # "start"
    /\ stage[p] # "start" /\ forwarded[p] = <<>> => pending_headers_[p]
    /\ pending_headers_[p] => forwarded[p] = <<>> \/ omitted[p]
    /\ view[p] = "dropping" => arrived[p] \in dropped[p]
    /\ pending_trailers_[p] => stage[p] = "ended" /\ iteration[p] = "stop"
    /\ view[p] = "stopped" /\ has_buffer[p] /\ stage[p] = "open" => buffer[p] # <<>>

PathInv(p) == Progress(p) /\ InLine(p) /\ Accounted(p) /\ Known(p)
FrameInv == FilterTypes /\ \A p \in Paths : PathInv(p)

\* Sequences of frames, by the frames in them.
LEMMA RangeOfNone == Range(<<>>) = {}
BY DEF Range

LEMMA RangeOfOne ==
  ASSUME NEW a \in Int
  PROVE  <<a>> \in Seq(Int) /\ Range(<<a>>) = {a}
<1>1. DOMAIN <<a>> = {1} /\ <<a>>[1] = a
  OBVIOUS
<1>. QED
  BY <1>1 DEF Range

LEMMA RangeOfSome ==
  ASSUME NEW s \in Seq(Int)
  PROVE  Range(s) \subseteq Int /\ (s # <<>> => s[1] \in Range(s))
BY DEF Range

LEMMA RangeOfJoin ==
  ASSUME NEW s \in Seq(Int), NEW t \in Seq(Int)
  PROVE  s \o t \in Seq(Int) /\ Range(s \o t) = Range(s) \cup Range(t)
BY RangeConcatenation

LEMMA RangeOfAppend ==
  ASSUME NEW s \in Seq(Int), NEW a \in Int
  PROVE  /\ Append(s, a) = s \o <<a>> /\ Append(s, a) \in Seq(Int)
         /\ Range(Append(s, a)) = Range(s) \cup {a}
<1>1. Append(s, a) = s \o <<a>>
  OBVIOUS
<1>. QED
  BY <1>1, RangeOfOne, RangeOfJoin

LEMMA ContainsIsIn ==
  ASSUME NEW s \in Seq(Int), NEW a
  PROVE  Contains(s, a) <=> a \in Range(s)
BY DEF Contains, Range

\* One rising sequence after another.
LEMMA RisingConcat ==
  ASSUME NEW s \in Seq(Int), NEW t \in Seq(Int), NEW D, Rising(s, D), Rising(t, D),
         Below(Range(s), Range(t))
  PROVE  Rising(s \o t, D)
<1>. DEFINE u == s \o t
<1>1. SUFFICES ASSUME NEW i \in DOMAIN u, NEW j \in DOMAIN u, i < j,
                      u[i] # Injected, u[j] # Injected
               PROVE  u[i] < u[j] \/ (j = i + 1 /\ u[i] = u[j] /\ u[i] - 1 \in D)
  BY DEF Rising
<1>2. /\ i \in 1 .. (Len(s) + Len(t)) /\ j \in 1 .. (Len(s) + Len(t))
      /\ DOMAIN s = 1 .. Len(s) /\ DOMAIN t = 1 .. Len(t)
      /\ Len(s) \in Nat /\ Len(t) \in Nat
  OBVIOUS
<1>3. CASE j <= Len(s)
  <2>1. i \in DOMAIN s /\ j \in DOMAIN s /\ u[i] = s[i] /\ u[j] = s[j]
    BY <1>1, <1>2, <1>3
  <2>. HIDE DEF u
  <2>. QED
    BY <1>1, <2>1 DEF Rising
<1>4. CASE i > Len(s)
  <2>. DEFINE k == i - Len(s)  l == j - Len(s)
  <2>1. /\ k \in DOMAIN t /\ l \in DOMAIN t /\ k < l /\ (l = k + 1 => j = i + 1)
        /\ u[i] = t[k] /\ u[j] = t[l]
    BY <1>1, <1>2, <1>4
  <2>. HIDE DEF u, k, l
  <2>. QED
    BY <1>1, <2>1 DEF Rising
<1>5. CASE i <= Len(s) /\ j > Len(s)
  <2>1. /\ i \in DOMAIN s /\ j - Len(s) \in DOMAIN t
        /\ u[i] = s[i] /\ u[j] = t[j - Len(s)]
    BY <1>1, <1>2, <1>5
  <2>2. s[i] \in Range(s) /\ t[j - Len(s)] \in Range(t)
    BY <2>1 DEF Range
  <2>. QED
    BY <1>1, <2>1, <2>2 DEF Below
<1>. QED
  BY <1>2, <1>3, <1>4, <1>5

LEMMA RisingShort ==
  ASSUME NEW a \in Int, NEW D
  PROVE  Rising(<<>>, D) /\ Rising(<<a>>, D)
BY DEF Rising

\* A frame that comes twice, its predecessor having been dropped.
LEMMA RisingTwice ==
  ASSUME NEW a \in Int, NEW D, a - 1 \in D
  PROVE  LET u == <<a>> \o <<a>>
         IN  u \in Seq(Int) /\ Range(u) = {a} /\ Rising(u, D)
<1>. DEFINE u == <<a>> \o <<a>>
<1>1. u \in Seq(Int) /\ DOMAIN u = 1 .. 2 /\ u[1] = a /\ u[2] = a
  OBVIOUS
<1>. HIDE DEF u
<1>2. Range(u) = {a}
  BY <1>1, RangeOfOne, RangeOfJoin DEF u
<1>3. Rising(u, D)
  BY <1>1 DEF Rising
<1>. QED
  BY <1>1, <1>2, <1>3 DEF u

\* What was in order stays so when more frames are dropped.
LEMMA RisingWithMore ==
  ASSUME NEW s, NEW D, NEW E, Rising(s, D), D \subseteq E
  PROVE  Rising(s, E)
BY DEF Rising

\* What reaches the next filter when iteration continues after a stop: see
\* commonContinue.
WithHeaders(F, b, t) ==
  F \o ((IF Contains(F, Headers) THEN <<>> ELSE <<Headers>>) \o b \o t)

LEMMA ContinuedFrames ==
  ASSUME NEW F \in Seq(Int), NEW b \in Seq(Int), NEW t \in Seq(Int), NEW D,
         F # <<>> => F[1] = Headers,
         Rising(F, D), Rising(b, D), Rising(t, D),
         Below(Range(F), Range(b)), Below(Range(F), Range(t)), Below(Range(b), Range(t)),
         \A y \in Range(b) \cup Range(t) : y = Injected \/ y > 0
  PROVE  LET out == WithHeaders(F, b, t) IN
         /\ out \in Seq(Int) /\ Rising(out, D) /\ out # <<>> /\ out[1] = Headers
         /\ Range(out) = Range(F) \cup {Headers} \cup Range(b) \cup Range(t)
<1>. DEFINE h == IF Contains(F, Headers) THEN <<>> ELSE <<Headers>>
<1>1. Headers \in Int /\ Headers = 0 /\ <<Headers>> \in Seq(Int) /\ h \in Seq(Int)
  BY DEF Headers
<1>2. h = <<>> <=> F # <<>>
  <2>1. F # <<>> => Contains(F, Headers)
    BY DEF Contains
  <2>2. F = <<>> => ~Contains(F, Headers)
    BY DEF Contains
  <2>. QED
    BY <2>1, <2>2
<1>3. Rising(h, D) /\ Range(h) \subseteq {Headers} /\ Headers \in Range(F) \cup Range(h)
  <2>1. F # <<>> => Headers \in Range(F)
    BY DEF Range
  <2>. QED
    BY <1>1, <1>2, <2>1, RisingShort, RangeOfNone, RangeOfOne
<1>. DEFINE g == h \o b
<1>4. g \in Seq(Int) /\ Rising(g, D) /\ Range(g) = Range(h) \cup Range(b)
  <2>1. Below(Range(h), Range(b))
    BY <1>1, <1>3 DEF Below
  <2>. QED
    BY <1>1, <1>3, <2>1, RisingConcat, RangeOfJoin
<1>. HIDE DEF g
<1>. DEFINE k == g \o t
<1>5. k \in Seq(Int) /\ Rising(k, D) /\ Range(k) = Range(h) \cup Range(b) \cup Range(t)
  <2>1. Below(Range(g), Range(t))
    BY <1>1, <1>3, <1>4 DEF Below
  <2>2. k \in Seq(Int) /\ Range(k) = Range(g) \cup Range(t)
    BY <1>4, RangeOfJoin
  <2>3. Rising(k, D)
    BY <1>4, <2>1, RisingConcat
  <2>. QED
    BY <1>4, <2>2, <2>3
<1>6. F \o k = WithHeaders(F, b, t)
  BY DEF WithHeaders, k, g
<1>7. (k # <<>> /\ F = <<>>) => k[1] = Headers
  <2>1. SUFFICES ASSUME F = <<>> PROVE k[1] = Headers
    OBVIOUS
  <2>2. h = <<Headers>>
    BY <1>2, <2>1
  <2>. QED
    BY <2>2, <1>1, <1>4 DEF k, g
<1>. HIDE DEF k, h
<1>8. Below(Range(F), Range(k))
  <2>1. h = <<>> \/ F = <<>>
    BY <1>2
  <2>2. Below(Range(F), Range(h))
    BY <2>1, RangeOfNone DEF Below
  <2>. QED
    BY <1>5, <2>2 DEF Below
<1>9. F # <<>> \/ k # <<>>
  BY <1>3, <1>5, RangeOfNone
<1>10. (F \o k)[1] = Headers /\ F \o k # <<>>
  BY <1>5, <1>7, <1>9
<1>11. F \o k \in Seq(Int) /\ Range(F \o k) = Range(F) \cup Range(k)
  BY <1>5, RangeOfJoin
<1>12. Rising(F \o k, D)
  BY <1>5, <1>8, RisingConcat
<1>13. Range(F \o k) = Range(F) \cup {Headers} \cup Range(b) \cup Range(t)
  BY <1>3, <1>5, <1>11
<1>. QED
  BY <1>6, <1>10, <1>11, <1>12, <1>13

\* A step that leaves the path q alone.
Untouched(q) ==
  /\ stage'[q] = stage[q] /\ arrived'[q] = arrived[q] /\ iteration'[q] = iteration[q]
  /\ has_buffer'[q] = has_buffer[q] /\ buffer'[q] = buffer[q]
  /\ forwarded'[q] = forwarded[q] /\ ends'[q] = ends[q] /\ dropped'[q] = dropped[q]
  /\ complete_'[q] = complete_[q] /\ omitted'[q] = omitted[q]

LEMMA UntouchedKeeps ==
  ASSUME NEW q, PathInv(q), Untouched(q),
         life' = "alive" => /\ life = "alive" /\ view'[q] = view[q]
                            /\ pending_headers_'[q] = pending_headers_[q]
                            /\ pending_trailers_'[q] = pending_trailers_[q]
  PROVE  PathInv(q)'
<1>1. Progress(q)'
  BY DEF PathInv, Untouched, Progress
<1>2. InLine(q)'
  BY DEF PathInv, Untouched, InLine
<1>3. Accounted(q)'
  BY DEF PathInv, Untouched, Accounted
<1>4. Known(q)'
  BY DEF PathInv, Untouched, Known
<1>. QED
  BY <1>1, <1>2, <1>3, <1>4 DEF PathInv

\* The data frames that this step brings to the path p.
NewData(p) == (arrived[p] + 1) .. arrived'[p]

\* A step after which nothing of the path p is held back: what was held and
\* the new frames have been forwarded.
Flushed(p, new, end) ==
  /\ forwarded'[p] # <<>> /\ forwarded'[p][1] = Headers
  /\ Rising(forwarded'[p], dropped[p])
  /\ Range(forwarded'[p]) = Range(forwarded[p]) \cup {Headers} \cup Range(buffer[p]) \cup new
  /\ NewData(p) \subseteq new /\ new \subseteq {Injected, Trailers} \cup NewData(p)
  /\ arrived[p] <= arrived'[p]
  /\ Trailers \in new => end
  /\ iteration'[p] = "continue" /\ buffer'[p] = <<>> /\ dropped'[p] = dropped[p]
  /\ ends'[p] = IF end THEN ends[p] + 1 ELSE ends[p]
  /\ stage'[p] = (IF end THEN "ended" ELSE "open") /\ complete_'[p] = end
  /\ view'[p] = "ongoing" /\ ~pending_trailers_'[p]
  /\ pending_headers_'[p] => omitted'[p]

LEMMA FlushedKeeps ==
  ASSUME FilterTypes, FilterTypes', NEW p \in Paths, PathInv(p),
         NEW new \in SUBSET Int, NEW end \in BOOLEAN, Flushed(p, new, end),
         stage[p] # "ended" \/ iteration[p] = "stop"
  PROVE  PathInv(p)'
<1>0. /\ arrived[p] \in 0 .. MaxData /\ arrived'[p] \in 0 .. MaxData /\ MaxData \in Nat
      /\ forwarded[p] \in Seq(Int) /\ buffer[p] \in Seq(Int) /\ ends[p] \in Nat
      /\ dropped[p] \in SUBSET Int /\ iteration[p] \in {"continue", "stop"}
  BY FilterAssumption DEF FilterTypes
<1>1. Progress(p)'
  <2>1. Trailers \in Range(forwarded'[p]) => end
    <3>1. Trailers \notin Range(forwarded[p])
      BY DEF PathInv, Progress
    <3>2. Trailers # Headers /\ Trailers \notin Range(buffer[p])
      BY <1>0 DEF PathInv, Accounted, Trailers, Headers
    <3>. QED
      BY <3>1, <3>2 DEF Flushed
  <2>2. ends[p] = 0
    BY <1>0 DEF PathInv, Progress
  <2>. QED
    BY <1>0, <2>1, <2>2 DEF Progress, Flushed
<1>2. InLine(p)'
  <2>1. Rising(<<>>, dropped'[p])
    BY DEF Rising
  <2>2. buffer'[p] = <<>> /\ Rising(forwarded'[p], dropped'[p])
    BY DEF Flushed
  <2>3. Below(Range(forwarded'[p]), {})
    BY DEF Below
  <2>. QED
    BY <2>1, <2>2, <2>3, RangeOfNone DEF InLine
<1>3. Accounted(p)'
  <2>. DEFINE R == Range(forwarded[p])  R2 == Range(forwarded'[p])
              B == Range(buffer[p])
  <2>1. Range(buffer'[p]) = {} /\ dropped'[p] = dropped[p]
    BY RangeOfNone DEF Flushed
  <2>2. R2 = R \cup {Headers} \cup B \cup new
    BY DEF Flushed
  <2>3. 1 .. arrived'[p] = (1 .. arrived[p]) \cup NewData(p)
    BY <1>0 DEF Flushed, NewData
  <2>4. /\ R \subseteq {Injected, Headers, Trailers} \cup (1 .. arrived[p])
        /\ 1 .. arrived[p] \subseteq R \cup B \cup dropped[p]
        /\ B \cup dropped[p] \subseteq 1 .. arrived[p]
        /\ R \cap dropped[p] = {} /\ B \cap dropped[p] = {}
    BY DEF PathInv, Accounted
  <2>5. /\ Headers \notin dropped[p] /\ Injected \notin dropped[p] /\ Trailers \notin dropped[p]
        /\ NewData(p) \cap dropped[p] = {}
    BY <1>0, <2>4 DEF Headers, Injected, Trailers, NewData
  <2>6. NewData(p) \subseteq new /\ new \subseteq {Injected, Trailers} \cup NewData(p)
    BY DEF Flushed
  <2>. HIDE DEF R, R2, B
  <2>7. /\ R2 \subseteq {Injected, Headers, Trailers} \cup (1 .. arrived'[p])
        /\ R2 \cap dropped[p] = {}
        /\ 1 .. arrived'[p] \subseteq R2 \cup dropped[p]
        /\ dropped[p] \subseteq 1 .. arrived'[p]
    BY <2>2, <2>3, <2>4, <2>5, <2>6
  <2>. QED
    BY <2>1, <2>7 DEF Accounted, R2
<1>4. Known(p)'
  BY DEF Known, Flushed
<1>. QED
  BY <1>1, <1>2, <1>3, <1>4 DEF PathInv

\* A step after which iteration on the path p is stopped, nothing forwarded.
Held(p) ==
  /\ p \in Implemented /\ stage[p] # "ended"
  /\ forwarded'[p] = forwarded[p] /\ ends'[p] = ends[p]
  /\ iteration'[p] = "stop" /\ view'[p] \in {"stopped", "dropping"}
  /\ stage'[p] \in {"open", "ended"} /\ (complete_'[p] <=> stage'[p] = "ended")
  /\ arrived[p] <= arrived'[p]
  /\ Rising(buffer'[p], dropped'[p]) /\ dropped[p] \subseteq dropped'[p]
  /\ Range(buffer'[p]) \subseteq Range(buffer[p]) \cup NewData(p)
  /\ Range(buffer'[p]) \cup dropped'[p] = Range(buffer[p]) \cup dropped[p] \cup NewData(p)
  /\ Range(buffer'[p]) \cap dropped'[p] = {}
  /\ buffer'[p] # <<>> => has_buffer'[p]
  /\ forwarded[p] = <<>> => pending_headers_'[p]
  /\ pending_headers_'[p] => forwarded[p] = <<>> \/ omitted'[p]
  /\ pending_trailers_'[p] => stage'[p] = "ended"
  /\ view'[p] = "dropping" => arrived'[p] \in dropped'[p]
  /\ view'[p] = "stopped" /\ has_buffer'[p] /\ stage'[p] = "open" => buffer'[p] # <<>>

LEMMA HeldKeeps ==
  ASSUME FilterTypes, FilterTypes', NEW p \in Paths, PathInv(p), Held(p)
  PROVE  PathInv(p)'
<1>0. /\ arrived[p] \in 0 .. MaxData /\ arrived'[p] \in 0 .. MaxData /\ MaxData \in Nat
      /\ forwarded[p] \in Seq(Int) /\ buffer[p] \in Seq(Int) /\ ends[p] \in Nat
      /\ dropped[p] \in SUBSET Int /\ iteration[p] \in {"continue", "stop"}
  BY FilterAssumption DEF FilterTypes
<1>1. Progress(p)'
  BY <1>0 DEF PathInv, Progress, Held
<1>. DEFINE R == Range(forwarded[p])  B == Range(buffer[p])  B2 == Range(buffer'[p])
<1>5. /\ R \subseteq {Injected, Headers} \cup (1 .. arrived[p])
      /\ 1 .. arrived[p] \subseteq R \cup B \cup dropped[p]
      /\ B \cup dropped[p] \subseteq 1 .. arrived[p]
      /\ R \cap B = {} /\ R \cap dropped[p] = {} /\ B \cap dropped[p] = {}
  BY DEF PathInv, Accounted, Progress, Held
<1>6. /\ B2 \subseteq B \cup NewData(p) /\ B2 \cap dropped'[p] = {}
      /\ B2 \cup dropped'[p] = B \cup dropped[p] \cup NewData(p)
  BY DEF Held
<1>7. Rising(forwarded[p], dropped'[p]) /\ Below(R, B)
  BY RisingWithMore DEF PathInv, InLine, Held
<1>8. /\ Range(forwarded'[p]) = R /\ forwarded'[p] = forwarded[p]
      /\ Rising(buffer'[p], dropped'[p])
  BY DEF Held
<1>9. 1 .. arrived'[p] = (1 .. arrived[p]) \cup NewData(p)
  BY <1>0 DEF Held, NewData
<1>10. Below(R, NewData(p)) /\ R \cap NewData(p) = {}
  <2>1. \A x \in R : x \in Int /\ x <= arrived[p]
    BY <1>0, <1>5 DEF Injected, Headers
  <2>2. \A y \in NewData(p) : y \in Int /\ y > arrived[p]
    BY <1>0 DEF NewData
  <2>. HIDE DEF R
  <2>. QED
    BY <1>0, <2>1, <2>2 DEF Below
<1>. HIDE DEF R, B, B2
<1>2. InLine(p)'
  <2>1. Below(R, B2)
    BY <1>6, <1>7, <1>10 DEF Below
  <2>. QED
    BY <1>7, <1>8, <2>1 DEF InLine, B2
<1>3. Accounted(p)'
  <2>1. /\ R \subseteq {Injected, Headers, Trailers} \cup (1 .. arrived'[p])
        /\ 1 .. arrived'[p] \subseteq R \cup B2 \cup dropped'[p]
        /\ B2 \cup dropped'[p] \subseteq 1 .. arrived'[p]
        /\ R \cap B2 = {} /\ R \cap dropped'[p] = {} /\ B2 \cap dropped'[p] = {}
    BY <1>5, <1>6, <1>9, <1>10
  <2>. QED
    BY <1>8, <2>1 DEF Accounted, B2
<1>4. Known(p)'
  BY <1>0 DEF Known, Held
<1>. QED
  BY <1>1, <1>2, <1>3, <1>4 DEF PathInv

\* A step of the path p: the other path keeps all it has.
OnlyPath(p) ==
  /\ life' = life
  /\ \A q \in Paths \ {p} :
       /\ Untouched(q) /\ view'[q] = view[q]
       /\ pending_headers_'[q] = pending_headers_[q]
       /\ pending_trailers_'[q] = pending_trailers_[q]

LEMMA OnePathStep ==
  ASSUME FrameInv, FilterTypes', NEW p \in Paths, OnlyPath(p), PathInv(p)'
  PROVE  FrameInv'
<1>1. ASSUME NEW q \in Paths, q # p PROVE PathInv(q)'
  BY <1>1, UntouchedKeeps DEF FrameInv, OnlyPath
<1>. QED
  BY <1>1 DEF FrameInv

\* Frames that go to the next filter as they are.
LEMMA PassedOn ==
  ASSUME FilterTypes, NEW p \in Paths, NEW g \in Seq(Int), NEW end \in BOOLEAN,
         Pass(p, g, end)
  PROVE  /\ forwarded' \in [Paths -> Seq(Int)] /\ ends' \in [Paths -> Nat]
         /\ forwarded'[p] = forwarded[p] \o g
         /\ ends'[p] = IF end THEN ends[p] + 1 ELSE ends[p]
         /\ \A q \in Paths \ {p} : forwarded'[q] = forwarded[q] /\ ends'[q] = ends[q]
<1>1. forwarded[p] \o g \in Seq(Int) /\ ends[p] + 1 \in Nat
  BY RangeOfJoin DEF FilterTypes
<1>. QED
  BY <1>1 DEF Pass, FilterTypes

\* Frames that go there after all that was held back.
LEMMA ContinuedOn ==
  ASSUME FilterTypes, NEW p \in Paths, NEW b \in Seq(Int), NEW t \in Seq(Int),
         NEW end \in BOOLEAN, commonContinue(p, b, t, end)
  PROVE  /\ forwarded' \in [Paths -> Seq(Int)] /\ ends' \in [Paths -> Nat]
         /\ iteration' \in [Paths -> {"continue", "stop"}] /\ buffer' \in [Paths -> Seq(Int)]
         /\ forwarded'[p] = WithHeaders(forwarded[p], b, t)
         /\ ends'[p] = IF end THEN ends[p] + 1 ELSE ends[p]
         /\ iteration'[p] = "continue" /\ buffer'[p] = <<>>
         /\ \A q \in Paths \ {p} :
              /\ forwarded'[q] = forwarded[q] /\ ends'[q] = ends[q]
              /\ iteration'[q] = iteration[q] /\ buffer'[q] = buffer[q]
<1>. DEFINE g == (IF Contains(forwarded[p], Headers) THEN <<>> ELSE <<Headers>>) \o b \o t
<1>1. g \in Seq(Int)
  BY DEF Headers
<1>2. Pass(p, g, end)
  BY DEF commonContinue
<1>3. <<>> \in Seq(Int) /\ forwarded[p] \o g = WithHeaders(forwarded[p], b, t)
  BY DEF WithHeaders
<1>4. /\ iteration' \in [Paths -> {"continue", "stop"}] /\ buffer' \in [Paths -> Seq(Int)]
      /\ iteration'[p] = "continue" /\ buffer'[p] = <<>>
      /\ \A q \in Paths \ {p} : iteration'[q] = iteration[q] /\ buffer'[q] = buffer[q]
  BY <1>3 DEF commonContinue, FilterTypes
<1>. HIDE DEF g
<1>. QED
  BY <1>1, <1>2, <1>3, <1>4, PassedOn

\* A single frame after the headers.
LEMMA OneMoreFrame ==
  ASSUME NEW F \in Seq(Int), NEW x \in Int, NEW D, F # <<>>, F[1] = Headers,
         Rising(F, D),
         Below(Range(F), {x})
  PROVE  /\ F \o <<x>> # <<>> /\ (F \o <<x>>)[1] = Headers /\ Rising(F \o <<x>>, D)
         /\ Range(F \o <<x>>) = Range(F) \cup {Headers} \cup {x}
<1>1. Headers \in Range(F)
  BY RangeOfSome
<1>2. <<x>> \in Seq(Int) /\ Range(<<x>>) = {x} /\ Rising(<<x>>, D)
  BY RangeOfOne, RisingShort
<1>3. Rising(F \o <<x>>, D)
  BY <1>2, RisingConcat
<1>4. Range(F \o <<x>>) = Range(F) \cup {x}
  BY <1>2, RangeOfJoin
<1>5. F \o <<x>> # <<>> /\ (F \o <<x>>)[1] = F[1]
  OBVIOUS
<1>. QED
  BY <1>1, <1>3, <1>4, <1>5

\* The headers arrive.
LEMMA HeadersKeepFrames ==
  ASSUME StateInv, FrameInv, NEW p \in Paths, NEW end \in BOOLEAN, onHeaders(p, end)
  PROVE  FrameInv'
<1>0. FilterTypes /\ PathInv(p) /\ stage[p] = "start" /\ life = "alive" /\ life' = life
  BY DEF FrameInv, onHeaders, HeadersArrive, Arrives, postVars
<1>1. /\ forwarded[p] = <<>> /\ dropped[p] = {} /\ arrived[p] = 0 /\ buffer[p] = <<>>
      /\ iteration[p] = "continue" /\ view[p] = "ongoing" /\ ~has_buffer[p]
      /\ ~pending_headers_[p] /\ ~pending_trailers_[p]
  BY <1>0 DEF PathInv, Progress, Known
<1>2. /\ stage' = [stage EXCEPT ![p] = IF end THEN "ended" ELSE "open"]
      /\ complete_' = [complete_ EXCEPT ![p] = end]
      /\ UNCHANGED <<arrived, pending_trailers_, has_buffer, buffer, dropped, omitted>>
  BY DEF onHeaders, HeadersArrive, Arrives, Completed
<1>3. /\ stage' \in [Paths -> {"start", "open", "ended"}]
      /\ complete_' \in [Paths -> BOOLEAN]
      /\ stage'[p] = (IF end THEN "ended" ELSE "open") /\ complete_'[p] = end
      /\ \A q \in Paths \ {p} : stage'[q] = stage[q] /\ complete_'[q] = complete_[q]
  BY <1>0, <1>2 DEF FilterTypes
<1>4. NewData(p) = {}
  BY <1>1, <1>2 DEF NewData
<1>5. CASE HeadersContinue(p, end)
  <2>1. UNCHANGED <<pending_headers_, iteration, view>> /\ Pass(p, <<Headers>>, end)
    BY <1>5 DEF HeadersContinue
  <2>2. Headers \in Int /\ <<Headers>> \in Seq(Int) /\ <<>> \o <<Headers>> = <<Headers>>
    BY DEF Headers
  <2>3. /\ forwarded' \in [Paths -> Seq(Int)] /\ ends' \in [Paths -> Nat]
        /\ forwarded'[p] = <<Headers>>
        /\ ends'[p] = IF end THEN ends[p] + 1 ELSE ends[p]
        /\ \A q \in Paths \ {p} : forwarded'[q] = forwarded[q] /\ ends'[q] = ends[q]
    BY <1>0, <1>1, <2>1, <2>2, PassedOn
  <2>4. FilterTypes'
    BY <1>0, <1>2, <1>3, <2>1, <2>3 DEF FilterTypes
  <2>5. OnlyPath(p)
    BY <1>0, <1>2, <1>3, <2>1, <2>3 DEF OnlyPath, Untouched
  <2>6. Rising(<<Headers>>, dropped[p]) /\ Range(<<Headers>>) = {Headers}
    BY <2>2, RisingShort, RangeOfOne
  <2>7. Flushed(p, {}, end)
    BY <1>0, <1>1, <1>2, <1>3, <1>4, <2>1, <2>3, <2>6, RangeOfNone DEF Flushed
  <2>8. PathInv(p)'
    BY <1>0, <2>4, <2>7, FlushedKeeps
  <2>. QED
    BY <2>4, <2>5, <2>8, OnePathStep
<1>6. CASE p \in Implemented /\ HeadersStop(p)
  <2>1. /\ pending_headers_' = [pending_headers_ EXCEPT ![p] = TRUE]
        /\ iteration' = [iteration EXCEPT ![p] = "stop"]
        /\ view' = [view EXCEPT ![p] = "stopped"]
        /\ UNCHANGED <<forwarded, ends>>
    BY <1>6 DEF HeadersStop
  <2>2. FilterTypes'
    BY <1>0, <1>2, <1>3, <2>1 DEF FilterTypes
  <2>3. OnlyPath(p)
    BY <1>0, <1>2, <1>3, <2>1 DEF OnlyPath, Untouched, FilterTypes, StateInv
  <2>4. view'[p] = "stopped" /\ pending_headers_'[p] /\ iteration'[p] = "stop"
    BY <1>0, <2>1 DEF FilterTypes, StateInv
  <2>5. Rising(<<>>, dropped'[p])
    BY DEF Rising
  <2>6. Held(p)
    BY <1>0, <1>1, <1>2, <1>3, <1>4, <1>6, <2>1, <2>4, <2>5, RangeOfNone DEF Held, FilterTypes
  <2>7. PathInv(p)'
    BY <1>0, <2>2, <2>6, HeldKeeps
  <2>. QED
    BY <2>2, <2>3, <2>7, OnePathStep
<1>. QED
  BY <1>5, <1>6 DEF onHeaders

\* A data frame arrives: what every status starts from.
DataFacts(p, end) ==
  /\ FilterTypes /\ PathInv(p) /\ stage[p] = "open" /\ life = "alive" /\ life' = life
  /\ NextData(p) \in 1 .. MaxData /\ NewData(p) = {NextData(p)} /\ arrived[p] <= arrived'[p]
  /\ arrived'[p] = NextData(p)
  /\ Below(Range(forwarded[p]), {NextData(p)}) /\ Below(Range(buffer[p]), {NextData(p)})
  /\ NextData(p) \notin Range(buffer[p]) \cup dropped[p]
  /\ stage' \in [Paths -> {"start", "open", "ended"}]
  /\ complete_' \in [Paths -> BOOLEAN] /\ arrived' \in [Paths -> 0 .. MaxData]
  /\ stage'[p] = (IF end THEN "ended" ELSE "open") /\ complete_'[p] = end
  /\ \A q \in Paths \ {p} : /\ stage'[q] = stage[q] /\ complete_'[q] = complete_[q]
                            /\ arrived'[q] = arrived[q]

LEMMA DataFactsHold ==
  ASSUME FrameInv, NEW p \in Paths, NEW end \in BOOLEAN, onData(p, end)
  PROVE  DataFacts(p, end)
<1>0. FilterTypes /\ PathInv(p) /\ stage[p] = "open" /\ life = "alive" /\ life' = life
  BY DEF FrameInv, onData, DataArrive, Arrives, postVars
<1>1. /\ stage' = [stage EXCEPT ![p] = IF end THEN "ended" ELSE "open"]
      /\ complete_' = [complete_ EXCEPT ![p] = end]
      /\ arrived' = [arrived EXCEPT ![p] = @ + 1] /\ arrived[p] < MaxData
  BY DEF onData, DataArrive, Arrives, Completed
<1>2. arrived[p] \in 0 .. MaxData /\ MaxData \in Nat
  BY <1>0, FilterAssumption DEF FilterTypes
<1>3. arrived[p] + 1 \in 1 .. MaxData /\ arrived[p] + 1 \in 0 .. MaxData
  BY <1>1, <1>2
<1>4. /\ stage' \in [Paths -> {"start", "open", "ended"}]
      /\ complete_' \in [Paths -> BOOLEAN] /\ arrived' \in [Paths -> 0 .. MaxData]
      /\ stage'[p] = (IF end THEN "ended" ELSE "open") /\ complete_'[p] = end
      /\ arrived'[p] = arrived[p] + 1
      /\ \A q \in Paths \ {p} : /\ stage'[q] = stage[q] /\ complete_'[q] = complete_[q]
                                /\ arrived'[q] = arrived[q]
  BY <1>0, <1>1, <1>3 DEF FilterTypes
<1>5. NewData(p) = {NextData(p)}
  BY <1>2, <1>4 DEF NewData, NextData
<1>6. \A x \in Range(forwarded[p]) : x \in Int /\ x <= arrived[p]
  BY <1>0, <1>2 DEF PathInv, Accounted, Progress, Headers, Injected
<1>7. \A x \in Range(buffer[p]) \cup dropped[p] : x \in Int /\ x <= arrived[p]
  BY <1>0, <1>2 DEF PathInv, Accounted
<1>8. /\ Below(Range(forwarded[p]), {NextData(p)}) /\ Below(Range(buffer[p]), {NextData(p)})
      /\ NextData(p) \notin Range(buffer[p]) \cup dropped[p]
  BY <1>2, <1>6, <1>7 DEF Below, NextData
<1>9. /\ NextData(p) \in 1 .. MaxData /\ arrived[p] <= arrived'[p]
      /\ arrived'[p] = NextData(p)
  BY <1>2, <1>3, <1>4 DEF NextData
<1>. QED
  BY <1>0, <1>4, <1>5, <1>8, <1>9 DEF DataFacts

\* Data that goes straight on.
LEMMA DataStraightOn ==
  ASSUME StateInv, FrameInv, NEW p \in Paths, NEW end \in BOOLEAN, DataFacts(p, end),
         iteration[p] = "continue", Pass(p, <<NextData(p)>>, end), buffer' = buffer,
         UNCHANGED <<pending_headers_, pending_trailers_, iteration, has_buffer, view, dropped,
                     omitted>>
  PROVE  FrameInv'
<1>. DEFINE n == NextData(p)  F == forwarded[p]
<1>1. /\ FilterTypes /\ PathInv(p) /\ n \in Int /\ <<n>> \in Seq(Int) /\ F \in Seq(Int)
      /\ stage[p] = "open" /\ life = "alive" /\ life' = life
  BY DEF DataFacts, FilterTypes
<1>2. /\ forwarded' \in [Paths -> Seq(Int)] /\ ends' \in [Paths -> Nat]
      /\ forwarded'[p] = F \o <<n>>
      /\ ends'[p] = IF end THEN ends[p] + 1 ELSE ends[p]
      /\ \A q \in Paths \ {p} : forwarded'[q] = forwarded[q] /\ ends'[q] = ends[q]
  BY <1>1, PassedOn
<1>3. /\ F # <<>> /\ F[1] = Headers /\ Rising(F, dropped[p]) /\ Below(Range(F), {n}) /\ buffer[p] = <<>>
      /\ (pending_headers_[p] => omitted[p]) /\ ~pending_trailers_[p] /\ view[p] = "ongoing"
  BY <1>1 DEF PathInv, Progress, InLine, Known, DataFacts
<1>4. /\ F \o <<n>> # <<>> /\ (F \o <<n>>)[1] = Headers /\ Rising(F \o <<n>>, dropped[p])
      /\ Range(F \o <<n>>) = Range(F) \cup {Headers} \cup {n}
  BY <1>1, <1>3, OneMoreFrame
<1>5. FilterTypes'
  BY <1>1, <1>2 DEF FilterTypes, DataFacts
<1>6. OnlyPath(p)
  BY <1>2 DEF OnlyPath, Untouched, DataFacts
<1>7. n # Trailers
  BY FilterAssumption DEF DataFacts, Trailers
<1>. HIDE DEF n, F
<1>8. Flushed(p, {n}, end)
  <2>1. NewData(p) = {n} /\ arrived[p] <= arrived'[p]
    BY DEF DataFacts, n
  <2>2. /\ stage'[p] = (IF end THEN "ended" ELSE "open") /\ complete_'[p] = end
    BY DEF DataFacts
  <2>3. Range(forwarded'[p]) = Range(forwarded[p]) \cup {Headers} \cup Range(buffer[p]) \cup {n}
    BY <1>2, <1>3, <1>4, RangeOfNone DEF F
  <2>. QED
    BY <1>2, <1>3, <1>4, <1>7, <2>1, <2>2, <2>3 DEF Flushed
<1>9. PathInv(p)'
  BY <1>1, <1>5, <1>8, FlushedKeeps
<1>. QED
  BY <1>5, <1>6, <1>9, OnePathStep

\* Data after which iteration stays, or becomes, stopped.
LEMMA DataHeld ==
  ASSUME StateInv, FrameInv, NEW p \in Implemented, NEW end \in BOOLEAN, DataFacts(p, end),
         DataStopAndBuffer(p, end) \/ DataStopNoBuffer(p, end)
  PROVE  FrameInv'
<1>. DEFINE n == NextData(p)  B == buffer[p]
<1>1. /\ FilterTypes /\ PathInv(p) /\ n \in Int /\ <<n>> \in Seq(Int) /\ B \in Seq(Int)
      /\ stage[p] = "open" /\ life = "alive" /\ life' = life /\ p \in Paths
  BY FilterAssumption DEF DataFacts, FilterTypes
<1>2. Append(B, n) \in Seq(Int) /\ Append(B, n) # <<>> /\ Append(B, n) = B \o <<n>>
      /\ Range(Append(B, n)) = Range(B) \cup {n} /\ Rising(Append(B, n), dropped[p])
  <2>1. Rising(B, dropped[p]) /\ Below(Range(B), {n})
    BY <1>1 DEF PathInv, InLine, DataFacts
  <2>2. Rising(B \o <<n>>, dropped[p])
    BY <1>1, <2>1, RangeOfOne, RisingShort, RisingConcat
  <2>3. Append(B, n) # <<>>
    BY <1>1
  <2>. QED
    BY <1>1, <2>2, <2>3, RangeOfAppend
<1>3. /\ iteration' = [iteration EXCEPT ![p] = "stop"]
      /\ UNCHANGED <<forwarded, ends, pending_headers_, pending_trailers_, omitted>>
  BY DEF DataStopAndBuffer, DataStopNoBuffer, DataStops
<1>4. /\ forwarded[p] = <<>> => pending_headers_[p]
      /\ pending_headers_[p] => forwarded[p] = <<>> \/ omitted[p]
  BY <1>1 DEF PathInv, Known
<1>5. ~pending_trailers_[p]
  BY <1>1 DEF PathInv, Known
<1>6. iteration' \in [Paths -> {"continue", "stop"}] /\ iteration'[p] = "stop"
      /\ \A q \in Paths \ {p} : iteration'[q] = iteration[q]
  BY <1>1, <1>3 DEF FilterTypes
<1>7. CASE DataStopAndBuffer(p, end)
  <2>1. BufferThen(p) \o DataThen(p) = Append(B, n)
    BY <1>2 DEF BufferThen, DataThen, InData
  <2>2. DataThen(p) = <<>> => has_buffer[p]
    BY DEF DataThen, already_buffering
  <2>3. /\ buffer' = [buffer EXCEPT ![p] = Append(B, n)]
        /\ has_buffer' = [has_buffer EXCEPT ![p] = @ \/ DataThen(p) # <<>> \/ end]
        /\ view' = [view EXCEPT ![p] = "stopped"] /\ dropped' = dropped
    BY <1>7, <2>1 DEF DataStopAndBuffer, DataStops
  <2>. HIDE DEF B, n
  <2>4. /\ buffer' \in [Paths -> Seq(Int)] /\ has_buffer' \in [Paths -> BOOLEAN]
        /\ buffer'[p] = Append(B, n) /\ has_buffer'[p] /\ view'[p] = "stopped"
        /\ \A q \in Paths \ {p} : /\ buffer'[q] = buffer[q] /\ has_buffer'[q] = has_buffer[q]
                                  /\ view'[q] = view[q]
    BY <1>1, <1>2, <2>2, <2>3 DEF FilterTypes, StateInv
  <2>5. FilterTypes'
    BY <1>1, <1>3, <1>6, <2>3, <2>4 DEF FilterTypes, DataFacts
  <2>6. OnlyPath(p)
    BY <1>3, <1>6, <2>3, <2>4 DEF OnlyPath, Untouched, DataFacts
  <2>7. Range(B) \cap dropped[p] = {}
    BY <1>1 DEF PathInv, Accounted, B
  <2>8. Held(p)
    <3>1. Range(buffer'[p]) = Range(buffer[p]) \cup {n} /\ NewData(p) = {n} /\ n \notin dropped[p]
      BY <1>2, <2>4 DEF DataFacts, B, n
    <3>2. /\ Range(buffer'[p]) \subseteq Range(buffer[p]) \cup NewData(p)
          /\ Range(buffer'[p]) \cup dropped'[p] = Range(buffer[p]) \cup dropped[p] \cup NewData(p)
          /\ Range(buffer'[p]) \cap dropped'[p] = {}
      BY <2>3, <2>7, <3>1 DEF B
    <3>. QED
      BY <1>1, <1>2, <1>3, <1>4, <1>5, <1>6, <2>3, <2>4, <3>2 DEF Held, DataFacts
  <2>9. PathInv(p)'
    BY <1>1, <2>5, <2>8, HeldKeeps
  <2>. QED
    BY <1>1, <2>5, <2>6, <2>9, OnePathStep
<1>8. CASE DataStopNoBuffer(p, end)
  <2>1. /\ buffer' = [buffer EXCEPT ![p] = <<>>]
        /\ has_buffer' = [has_buffer EXCEPT ![p] = @ \/ end]
        /\ view' = [view EXCEPT ![p] = "dropping"]
        /\ dropped' = [dropped EXCEPT ![p] = @ \cup {n} \cup Range(B)]
    BY <1>8 DEF DataStopNoBuffer, DataStops
  <2>2. <<>> \in Seq(Int) /\ Range(B) \subseteq Int /\ Rising(<<>>, dropped'[p])
    BY <1>1, RangeOfSome DEF Rising
  <2>. HIDE DEF B, n
  <2>3. /\ buffer' \in [Paths -> Seq(Int)] /\ has_buffer' \in [Paths -> BOOLEAN]
        /\ buffer'[p] = <<>> /\ view'[p] = "dropping"
        /\ \A q \in Paths \ {p} : /\ buffer'[q] = buffer[q] /\ has_buffer'[q] = has_buffer[q]
                                  /\ view'[q] = view[q]
    BY <1>1, <2>1, <2>2 DEF FilterTypes, StateInv
  <2>4. /\ dropped' \in [Paths -> SUBSET Int] /\ dropped'[p] = dropped[p] \cup {n} \cup Range(B)
        /\ \A q \in Paths \ {p} : dropped'[q] = dropped[q]
    BY <1>1, <2>1, <2>2 DEF FilterTypes
  <2>5. FilterTypes'
    BY <1>1, <1>3, <1>6, <2>3, <2>4 DEF FilterTypes, DataFacts
  <2>6. OnlyPath(p)
    BY <1>3, <1>6, <2>3, <2>4 DEF OnlyPath, Untouched, DataFacts
  <2>7. Held(p)
    BY <1>1, <1>3, <1>4, <1>5, <1>6, <2>2, <2>3, <2>4, RangeOfNone DEF Held, DataFacts, B, n
  <2>8. PathInv(p)'
    BY <1>1, <2>5, <2>7, HeldKeeps
  <2>. QED
    BY <1>1, <2>5, <2>6, <2>8, OnePathStep
<1>. QED
  BY <1>7, <1>8

\* commonContinue with the frames b and then t: those that were held back, and
\* the new ones.
Continues(p, b, t, new, end) ==
  /\ commonContinue(p, b, t, end)
  /\ Rising(b, dropped[p]) /\ Rising(t, dropped[p])
  /\ Below(Range(forwarded[p]), Range(b))
  /\ Below(Range(forwarded[p]), Range(t)) /\ Below(Range(b), Range(t))
  /\ \A y \in Range(b) \cup Range(t) : y = Injected \/ y > 0
  /\ Range(b) \cup Range(t) = Range(buffer[p]) \cup new
  /\ NewData(p) \subseteq new /\ new \subseteq {Injected, Trailers} \cup NewData(p)
  /\ arrived[p] <= arrived'[p] /\ (Trailers \in new => end) /\ dropped'[p] = dropped[p]
  /\ stage'[p] = (IF end THEN "ended" ELSE "open") /\ complete_'[p] = end
  /\ view'[p] = "ongoing" /\ ~pending_trailers_'[p]
  /\ pending_headers_'[p] => omitted'[p]

LEMMA ContinuedFlushes ==
  ASSUME FilterTypes, NEW p \in Paths, PathInv(p), NEW b \in Seq(Int), NEW t \in Seq(Int),
         NEW new \in SUBSET Int, NEW end \in BOOLEAN, Continues(p, b, t, new, end)
  PROVE  Flushed(p, new, end)
<1>. DEFINE F == forwarded[p]  out == WithHeaders(F, b, t)
<1>1. F \in Seq(Int) /\ Rising(F, dropped[p]) /\ (F # <<>> => F[1] = Headers)
  BY DEF FilterTypes, PathInv, Progress, InLine
<1>2. /\ out \in Seq(Int) /\ Rising(out, dropped[p]) /\ out # <<>> /\ out[1] = Headers
      /\ Range(out) = Range(F) \cup {Headers} \cup Range(b) \cup Range(t)
  BY <1>1, ContinuedFrames DEF Continues
<1>3. /\ forwarded'[p] = out
      /\ ends'[p] = (IF end THEN ends[p] + 1 ELSE ends[p])
      /\ iteration'[p] = "continue" /\ buffer'[p] = <<>>
  BY ContinuedOn DEF Continues
<1>. HIDE DEF out
<1>4. Range(forwarded'[p]) = Range(forwarded[p]) \cup {Headers} \cup Range(buffer[p]) \cup new
  BY <1>2, <1>3 DEF Continues
<1>. QED
  BY <1>2, <1>3, <1>4 DEF Flushed, Continues

\* The pending headers that come with a ResumeIteration, or do not.
HeadersReturned(p) ==
  /\ pending_headers_' \in [Paths -> BOOLEAN] /\ omitted' \in [Paths -> BOOLEAN]
  /\ pending_headers_'[p] => omitted'[p]
  /\ \A q \in Paths \ {p} :
       pending_headers_'[q] = pending_headers_[q] /\ omitted'[q] = omitted[q]

LEMMA HeadersAreReturned ==
  ASSUME FilterTypes, NEW p \in Paths, ReturnsHeaders(p)
  PROVE  HeadersReturned(p)
BY DEF FilterTypes, ReturnsHeaders, HeadersReturned

\* ResumeIteration with data.  If iteration had stopped without buffering, and
\* there is a buffer from earlier, the frame goes both there and straight on.
LEMMA DataResumed ==
  ASSUME StateInv, FrameInv, NEW p \in Implemented, NEW end \in BOOLEAN,
         DataFacts(p, end), DataResume(p, end)
  PROVE  FrameInv'
<1>. DEFINE n == NextData(p)  B == buffer[p]  F == forwarded[p]
<1>1. /\ FilterTypes /\ PathInv(p) /\ n \in Int /\ <<n>> \in Seq(Int) /\ B \in Seq(Int)
      /\ stage[p] = "open" /\ life = "alive" /\ life' = life /\ p \in Paths
      /\ F \in Seq(Int) /\ n \in 1 .. MaxData /\ MaxData \in Nat
  BY FilterAssumption DEF DataFacts, FilterTypes
<1>2. view[p] \in {"stopped", "dropping"} /\ iteration_state_ = "Stopped"
  BY <1>1 DEF DataResume, StateInv, Views
<1>3. iteration[p] = "stop"
  BY <1>1, <1>2 DEF PathInv, Known, FilterTypes
<1>4. /\ ReturnsHeaders(p) /\ view' = [view EXCEPT ![p] = "ongoing"]
      /\ UNCHANGED <<pending_trailers_, dropped>>
  BY <1>2 DEF DataResume, BecomesOngoing
<1>. DEFINE twice == has_buffer[p] /\ B = <<>>
            b == IF twice THEN <<n>> \o <<n>> ELSE Append(B, n)
<1>5. /\ twice => view[p] = "dropping" /\ n - 1 \in dropped[p]
      /\ ~has_buffer[p] => B = <<>>
  <2>1. /\ view[p] = "stopped" /\ has_buffer[p] => B # <<>>
        /\ view[p] = "dropping" => arrived[p] \in dropped[p]
        /\ B # <<>> => has_buffer[p]
    BY <1>1 DEF PathInv, Progress, Known
  <2>2. arrived[p] = n - 1
    BY <1>1 DEF NextData, FilterTypes
  <2>. QED
    BY <1>2, <2>1, <2>2
<1>6. /\ Append(B, n) \in Seq(Int) /\ Append(B, n) = B \o <<n>>
      /\ Append(B, n) \o <<>> = Append(B, n)
      /\ <<>> \o <<n>> = <<n>> /\ (B = <<>> => Append(B, n) = <<n>>)
  <2>1. /\ Append(B, n) \in Seq(Int) /\ Append(B, n) = B \o <<n>>
        /\ Append(B, n) \o <<>> = Append(B, n)
    BY <1>1, RangeOfAppend, ConcatEmptySeq
  <2>2. <<>> \o <<n>> = <<n>>
    BY <1>1, ConcatEmptySeq
  <2>. QED
    BY <2>1, <2>2
<1>7. commonContinue(p, b, <<>>, end) /\ has_buffer' = [has_buffer EXCEPT ![p] = TRUE]
  <2>1. CASE has_buffer[p] /\ B # <<>>
    <3>1. DataContinues(p, InData(p), DataThen(p), end)
      BY <1>2, <2>1 DEF DataResume
    <3>2. InData(p) = Append(B, n) /\ DataThen(p) = <<>> /\ b = Append(B, n)
      BY <1>2, <2>1 DEF InData, DataThen, already_buffering
    <3>. HIDE DEF b
    <3>. QED
      BY <1>3, <1>6, <3>1, <3>2 DEF DataContinues
  <2>2. CASE twice
    <3>1. DataContinues(p, InData(p), DataThen(p), end)
      BY <1>2, <2>2 DEF DataResume
    <3>2. InData(p) = <<n>> /\ DataThen(p) = <<n>> /\ b = <<n>> \o <<n>>
      BY <2>2 DEF InData, DataThen, already_buffering
    <3>. HIDE DEF b, twice
    <3>. QED
      BY <1>3, <1>6, <3>1, <3>2 DEF DataContinues
  <2>3. CASE ~has_buffer[p]
    <3>1. DataContinues(p, <<>>, InData(p), end)
      BY <1>2, <2>3 DEF DataResume
    <3>2. InData(p) = <<n>> /\ b = <<n>>
      BY <1>5, <1>6, <2>3 DEF InData, already_buffering
    <3>. HIDE DEF b
    <3>. QED
      BY <1>3, <1>6, <3>1, <3>2 DEF DataContinues
  <2>. QED
    BY <2>1, <2>2, <2>3
<1>8. b \in Seq(Int) /\ Range(b) = Range(B) \cup {n} /\ Rising(b, dropped[p])
  <2>1. CASE twice
    <3>1. b = <<n>> \o <<n>> /\ Range(B) = {}
      BY <2>1, RangeOfNone
    <3>2. /\ <<n>> \o <<n>> \in Seq(Int) /\ Range(<<n>> \o <<n>>) = {n}
          /\ Rising(<<n>> \o <<n>>, dropped[p])
      BY <1>1, <1>5, <2>1, RisingTwice
    <3>. QED
      BY <3>1, <3>2
  <2>2. CASE ~twice
    <3>1. Rising(B, dropped[p]) /\ Below(Range(B), {n})
      BY <1>1 DEF PathInv, InLine, DataFacts
    <3>2. Rising(B \o <<n>>, dropped[p])
      BY <1>1, <3>1, RangeOfOne, RisingShort, RisingConcat
    <3>3. b = Append(B, n)
      BY <2>2
    <3>. QED
      BY <1>1, <1>6, <3>2, <3>3, RangeOfAppend
  <2>. QED
    BY <2>1, <2>2
<1>. HIDE DEF b, twice
<1>9. Below(Range(F), Range(b))
  <2>1. Below(Range(F), Range(B)) /\ Below(Range(F), {n})
    BY <1>1 DEF PathInv, InLine, DataFacts
  <2>. QED
    BY <1>8, <2>1 DEF Below
<1>10. \A y \in Range(b) : y > 0
  <2>1. Range(B) \subseteq 1 .. arrived[p] /\ arrived[p] \in 0 .. MaxData
    BY <1>1 DEF PathInv, Accounted, FilterTypes
  <2>. QED
    BY <1>1, <1>8, <2>1
<1>11. Rising(<<>>, dropped[p]) /\ <<>> \in Seq(Int)
  BY DEF Rising
<1>14. n # Trailers
  BY <1>1 DEF Trailers
<1>15. /\ view'[p] = "ongoing" /\ ~pending_trailers_'[p]
       /\ \A q \in Paths \ {p} : view'[q] = view[q]
  BY <1>1, <1>4 DEF FilterTypes, StateInv, PathInv, Known
<1>24. HeadersReturned(p)
  BY <1>1, <1>4, HeadersAreReturned
<1>16. /\ NewData(p) = {n} /\ arrived[p] <= arrived'[p]
       /\ stage'[p] = (IF end THEN "ended" ELSE "open") /\ complete_'[p] = end
  BY DEF DataFacts
<1>. DEFINE t == <<>>  new == {n}
<1>17. t \in Seq(Int) /\ Rising(t, dropped[p]) /\ Range(t) = {} /\ commonContinue(p, b, t, end)
  BY <1>7, <1>11, RangeOfNone
<1>. HIDE DEF b, n, B, F, t
<1>18. new \in SUBSET Int /\ Flushed(p, new, end)
  <2>1. Range(b) \cup Range(t) = Range(buffer[p]) \cup new
    BY <1>8, <1>17 DEF B
  <2>2. /\ Below(Range(forwarded[p]), Range(b)) /\ Below(Range(forwarded[p]), Range(t))
        /\ Below(Range(b), Range(t))
    BY <1>9, <1>17 DEF F, Below
  <2>3. \A y \in Range(b) \cup Range(t) : y = Injected \/ y > 0
    BY <1>10, <1>17
  <2>4. dropped'[p] = dropped[p] /\ new \in SUBSET Int
    BY <1>1, <1>4
  <2>5. /\ NewData(p) \subseteq new /\ new \subseteq {Injected, Trailers} \cup NewData(p)
        /\ Trailers \in new => end
    BY <1>14, <1>16
  <2>6. /\ FilterTypes /\ p \in Paths /\ PathInv(p)
        /\ view'[p] = "ongoing" /\ ~pending_trailers_'[p]
        /\ (pending_headers_'[p] => omitted'[p])
        /\ b \in Seq(Int) /\ Rising(b, dropped[p])
    BY <1>1, <1>8, <1>15, <1>24 DEF HeadersReturned
  <2>. HIDE DEF new
  <2>7. Continues(p, b, t, new, end)
    BY <1>16, <1>17, <2>1, <2>2, <2>3, <2>4, <2>5, <2>6 DEF Continues
  <2>8. Flushed(p, new, end)
    BY <1>17, <2>4, <2>6, <2>7, ContinuedFlushes
  <2>. QED
    BY <2>4, <2>8
<1>. HIDE DEF new
<1>23. /\ forwarded' \in [Paths -> Seq(Int)] /\ ends' \in [Paths -> Nat]
       /\ iteration' \in [Paths -> {"continue", "stop"}] /\ buffer' \in [Paths -> Seq(Int)]
       /\ \A q \in Paths \ {p} :
            /\ forwarded'[q] = forwarded[q] /\ ends'[q] = ends[q]
            /\ iteration'[q] = iteration[q] /\ buffer'[q] = buffer[q]
  BY <1>1, <1>8, <1>17, ContinuedOn
<1>19. /\ has_buffer' \in [Paths -> BOOLEAN]
       /\ \A q \in Paths \ {p} : has_buffer'[q] = has_buffer[q]
  BY <1>1, <1>7 DEF FilterTypes
<1>20. FilterTypes'
  BY <1>1, <1>4, <1>15, <1>23, <1>19, <1>24 DEF FilterTypes, DataFacts, HeadersReturned
<1>21. OnlyPath(p)
  BY <1>4, <1>15, <1>23, <1>19, <1>24 DEF OnlyPath, Untouched, DataFacts, HeadersReturned
<1>22. PathInv(p)'
  BY <1>1, <1>18, <1>20, FlushedKeeps
<1>. QED
  BY <1>1, <1>20, <1>21, <1>22, OnePathStep

LEMMA DataKeepsFrames ==
  ASSUME StateInv, FrameInv, NEW p \in Paths, NEW end \in BOOLEAN, onData(p, end)
  PROVE  FrameInv'
<1>1. DataFacts(p, end)
  BY DataFactsHold
<1>2. FilterTypes /\ PathInv(p) /\ stage[p] = "open" /\ life = "alive"
  BY <1>1 DEF DataFacts
<1>3. CASE p \notin Implemented
  <2>1. iteration[p] = "continue"
    BY <1>2, <1>3 DEF PathInv, Progress, FilterTypes
  <2>2. /\ Pass(p, <<NextData(p)>>, end)
        /\ UNCHANGED <<pending_headers_, pending_trailers_, iteration, has_buffer, buffer,
                       view, dropped, omitted>>
    BY <1>3 DEF onData, platformVars
  <2>. QED
    BY <1>1, <2>1, <2>2, DataStraightOn
<1>4. CASE p \in Implemented /\ DataContinue(p, end)
  <2>1. view[p] = "ongoing" /\ iteration_state_ = "Ongoing"
    BY <1>4 DEF DataContinue, StateInv
  <2>2. iteration[p] = "continue" /\ buffer[p] = <<>>
    BY <1>2, <2>1 DEF PathInv, Known, Progress
  <2>3. /\ DataContinues(p, buffer[p], <<NextData(p)>>, end)
        /\ UNCHANGED <<pending_headers_, pending_trailers_, view, dropped, omitted>>
    BY <1>4, <2>1 DEF DataContinue, platformVars
  <2>4. /\ Pass(p, <<NextData(p)>>, end) /\ buffer' = [buffer EXCEPT ![p] = buffer[p]]
        /\ UNCHANGED <<iteration, has_buffer>>
    BY <2>2, <2>3 DEF DataContinues
  <2>5. buffer' = buffer
    BY <1>2, <2>4 DEF FilterTypes
  <2>. QED
    BY <1>1, <2>2, <2>3, <2>4, <2>5, DataStraightOn
<1>5. CASE p \in Implemented /\ (DataStopAndBuffer(p, end) \/ DataStopNoBuffer(p, end))
  BY <1>1, <1>5, DataHeld
<1>6. CASE p \in Implemented /\ DataResume(p, end)
  BY <1>1, <1>6, DataResumed
<1>. QED
  BY <1>3, <1>4, <1>5, <1>6 DEF onData

\* The trailers come after every frame that was forwarded or is held back.
LEMMA TrailersAreLast ==
  ASSUME FilterTypes, NEW p \in Paths, PathInv(p), stage[p] # "ended" \/ iteration[p] = "stop"
  PROVE  /\ Trailers \in Int /\ Trailers > 0 /\ <<Trailers>> \in Seq(Int)
         /\ Range(<<Trailers>>) = {Trailers} /\ Rising(<<Trailers>>, dropped[p])
         /\ Below(Range(forwarded[p]), {Trailers}) /\ Below(Range(buffer[p]), {Trailers})
         /\ \A y \in Range(buffer[p]) : y > 0
<1>1. arrived[p] \in 0 .. MaxData /\ MaxData \in Nat
  BY FilterAssumption DEF FilterTypes
<1>2. Trailers \in Int /\ Trailers > 0 /\ Trailers > MaxData
  BY <1>1 DEF Trailers
<1>3. \A x \in Range(forwarded[p]) : x \in Int /\ x <= MaxData
  BY <1>1 DEF PathInv, Accounted, Progress, Headers, Injected
<1>4. \A x \in Range(buffer[p]) : x \in Int /\ x > 0 /\ x <= MaxData
  BY <1>1 DEF PathInv, Accounted
<1>5. Below(Range(forwarded[p]), {Trailers}) /\ Below(Range(buffer[p]), {Trailers})
  BY <1>1, <1>2, <1>3, <1>4 DEF Below
<1>. QED
  BY <1>2, <1>4, <1>5, RangeOfOne, RisingShort

\* What a step leaves to be said beside what commonContinue does.
BesideContinue(p) ==
  /\ life' = life
  /\ pending_headers_' \in [Paths -> BOOLEAN] /\ pending_trailers_' \in [Paths -> BOOLEAN]
  /\ complete_' \in [Paths -> BOOLEAN] /\ has_buffer' \in [Paths -> BOOLEAN]
  /\ stage' \in [Paths -> {"start", "open", "ended"}]
  /\ arrived' = arrived /\ dropped' = dropped /\ omitted' \in [Paths -> BOOLEAN]
  /\ \A q \in Paths \ {p} :
       /\ stage'[q] = stage[q] /\ complete_'[q] = complete_[q]
       /\ has_buffer'[q] = has_buffer[q] /\ view'[q] = view[q] /\ omitted'[q] = omitted[q]
       /\ pending_headers_'[q] = pending_headers_[q]
       /\ pending_trailers_'[q] = pending_trailers_[q]

LEMMA ContinuedStep ==
  ASSUME FrameInv, NEW p \in Paths, NEW b \in Seq(Int), NEW t \in Seq(Int),
         NEW new \in SUBSET Int, NEW end \in BOOLEAN, Continues(p, b, t, new, end),
         BesideContinue(p), stage[p] # "ended" \/ iteration[p] = "stop"
  PROVE  FrameInv'
<1>1. FilterTypes /\ PathInv(p)
  BY DEF FrameInv
<1>2. commonContinue(p, b, t, end)
  BY DEF Continues
<1>3. /\ forwarded' \in [Paths -> Seq(Int)] /\ ends' \in [Paths -> Nat]
      /\ iteration' \in [Paths -> {"continue", "stop"}] /\ buffer' \in [Paths -> Seq(Int)]
      /\ \A q \in Paths \ {p} :
           /\ forwarded'[q] = forwarded[q] /\ ends'[q] = ends[q]
           /\ iteration'[q] = iteration[q] /\ buffer'[q] = buffer[q]
  BY <1>1, <1>2, ContinuedOn
<1>4. FilterTypes'
  BY <1>1, <1>3 DEF FilterTypes, BesideContinue
<1>5. OnlyPath(p)
  BY <1>3 DEF OnlyPath, Untouched, BesideContinue
<1>6. Flushed(p, new, end)
  BY <1>1, ContinuedFlushes
<1>7. PathInv(p)'
  BY <1>1, <1>4, <1>6, FlushedKeeps
<1>. QED
  BY <1>4, <1>5, <1>7, OnePathStep

\* The trailers arrive.
LEMMA TrailersKeepFrames ==
  ASSUME StateInv, FrameInv, NEW p \in Paths, onTrailers(p)
  PROVE  FrameInv'
<1>0. FilterTypes /\ PathInv(p) /\ stage[p] = "open" /\ life = "alive" /\ life' = life
  BY DEF FrameInv, onTrailers, TrailersArrive, Arrives, postVars
<1>1. /\ stage' = [stage EXCEPT ![p] = "ended"] /\ complete_' = [complete_ EXCEPT ![p] = TRUE]
      /\ arrived' = arrived
  BY DEF onTrailers, TrailersArrive, Arrives, Completed
<1>2. /\ stage' \in [Paths -> {"start", "open", "ended"}]
      /\ complete_' \in [Paths -> BOOLEAN]
      /\ stage'[p] = "ended" /\ complete_'[p] = TRUE
      /\ \A q \in Paths \ {p} : stage'[q] = stage[q] /\ complete_'[q] = complete_[q]
  BY <1>0, <1>1 DEF FilterTypes
<1>3. NewData(p) = {} /\ arrived[p] <= arrived'[p]
  BY <1>0, <1>1 DEF NewData, FilterTypes
<1>4. /\ Trailers \in Int /\ Trailers > 0 /\ <<Trailers>> \in Seq(Int)
      /\ Range(<<Trailers>>) = {Trailers} /\ Rising(<<Trailers>>, dropped[p])
      /\ Below(Range(forwarded[p]), {Trailers}) /\ Below(Range(buffer[p]), {Trailers})
      /\ \A y \in Range(buffer[p]) : y > 0
  BY <1>0, TrailersAreLast
<1>5. ~pending_trailers_[p]
  BY <1>0 DEF PathInv, Known
<1>6. ASSUME iteration[p] = "continue", Pass(p, <<Trailers>>, TRUE),
             UNCHANGED <<pending_headers_, pending_trailers_, iteration, has_buffer, buffer,
                         view, dropped, omitted>>
      PROVE  FrameInv'
  <2>. DEFINE F == forwarded[p]
  <2>1. /\ F # <<>> /\ F[1] = Headers /\ Rising(F, dropped[p]) /\ buffer[p] = <<>> /\ F \in Seq(Int)
        /\ (pending_headers_[p] => omitted[p]) /\ view[p] = "ongoing"
    BY <1>0, <1>6 DEF PathInv, Progress, InLine, Known, FilterTypes
  <2>2. /\ forwarded' \in [Paths -> Seq(Int)] /\ ends' \in [Paths -> Nat]
        /\ forwarded'[p] = F \o <<Trailers>> /\ ends'[p] = ends[p] + 1
        /\ \A q \in Paths \ {p} : forwarded'[q] = forwarded[q] /\ ends'[q] = ends[q]
    BY <1>0, <1>4, <1>6, PassedOn
  <2>3. /\ F \o <<Trailers>> # <<>> /\ (F \o <<Trailers>>)[1] = Headers
        /\ Rising(F \o <<Trailers>>, dropped[p])
        /\ Range(F \o <<Trailers>>) = Range(F) \cup {Headers} \cup {Trailers}
    BY <1>4, <2>1, OneMoreFrame
  <2>4. Range(forwarded'[p]) = Range(forwarded[p]) \cup {Headers} \cup Range(buffer[p])
                                 \cup {Trailers}
    BY <2>1, <2>2, <2>3, RangeOfNone
  <2>. HIDE DEF F
  <2>5. Flushed(p, {Trailers}, TRUE)
    BY <1>2, <1>3, <1>5, <1>6, <2>1, <2>2, <2>3, <2>4 DEF Flushed
  <2>6. FilterTypes'
    BY <1>0, <1>1, <1>2, <1>6, <2>2 DEF FilterTypes
  <2>7. OnlyPath(p)
    BY <1>0, <1>1, <1>2, <1>6, <2>2 DEF OnlyPath, Untouched
  <2>8. PathInv(p)'
    BY <1>0, <1>4, <2>5, <2>6, FlushedKeeps
  <2>. QED
    BY <2>6, <2>7, <2>8, OnePathStep
<1>7. CASE p \notin Implemented
  <2>1. iteration[p] = "continue"
    BY <1>0, <1>7 DEF PathInv, Progress, FilterTypes
  <2>. QED
    BY <1>6, <1>7, <2>1 DEF onTrailers, platformVars
<1>8. CASE p \in Implemented /\ TrailersContinue(p)
  <2>1. view[p] = "ongoing" /\ iteration_state_ = "Ongoing"
    BY <1>8 DEF TrailersContinue, StateInv
  <2>2. iteration[p] = "continue"
    BY <1>0, <2>1 DEF PathInv, Known
  <2>3. /\ TrailersContinues(p)
        /\ UNCHANGED <<pending_headers_, pending_trailers_, has_buffer, view, dropped, omitted>>
    BY <1>8, <2>1 DEF TrailersContinue, platformVars
  <2>. QED
    BY <1>6, <2>2, <2>3 DEF TrailersContinues
<1>9. CASE p \in Implemented /\ TrailersStop(p)
  <2>1. /\ pending_trailers_' = [pending_trailers_ EXCEPT ![p] = TRUE]
        /\ iteration' = [iteration EXCEPT ![p] = "stop"]
        /\ view' = [view EXCEPT ![p] = "stopped"]
        /\ UNCHANGED <<pending_headers_, has_buffer, buffer, forwarded, ends, dropped, omitted>>
    BY <1>9 DEF TrailersStop
  <2>2. FilterTypes'
    BY <1>0, <1>1, <1>2, <2>1 DEF FilterTypes
  <2>3. OnlyPath(p)
    BY <1>0, <1>1, <1>2, <2>1 DEF OnlyPath, Untouched, FilterTypes, StateInv
  <2>4. view'[p] = "stopped" /\ iteration'[p] = "stop"
    BY <1>0, <2>1 DEF FilterTypes, StateInv
  <2>5. /\ Rising(buffer[p], dropped[p]) /\ Range(buffer[p]) \cap dropped[p] = {}
        /\ buffer[p] # <<>> => has_buffer[p]
        /\ forwarded[p] = <<>> => pending_headers_[p]
        /\ pending_headers_[p] => forwarded[p] = <<>> \/ omitted[p]
    BY <1>0 DEF PathInv, InLine, Accounted, Progress, Known
  <2>6. Held(p)
    BY <1>0, <1>2, <1>3, <1>9, <2>1, <2>4, <2>5 DEF Held
  <2>7. PathInv(p)'
    BY <1>0, <2>2, <2>6, HeldKeeps
  <2>. QED
    BY <2>2, <2>3, <2>7, OnePathStep
<1>10. CASE p \in Implemented /\ TrailersResume(p)
  <2>1. iteration_state_ = "Stopped" /\ iteration[p] = "stop"
    BY <1>0, <1>10 DEF TrailersResume, StateInv, PathInv, Known, FilterTypes
  <2>2. /\ commonContinue(p, buffer[p], <<Trailers>>, TRUE)
        /\ ReturnsHeaders(p)
        /\ view' = [view EXCEPT ![p] = "ongoing"]
        /\ UNCHANGED <<pending_trailers_, has_buffer, dropped>>
    BY <1>10, <2>1 DEF TrailersResume, TrailersContinues, BecomesOngoing
  <2>3. /\ view'[p] = "ongoing" /\ ~pending_trailers_'[p]
        /\ \A q \in Paths \ {p} : view'[q] = view[q]
    BY <1>0, <1>5, <2>2 DEF FilterTypes, StateInv
  <2>8. HeadersReturned(p)
    BY <1>0, <2>2, HeadersAreReturned
  <2>4. BesideContinue(p)
    BY <1>0, <1>1, <1>2, <2>2, <2>3, <2>8 DEF BesideContinue, FilterTypes, HeadersReturned
  <2>5. Rising(buffer[p], dropped[p]) /\ Below(Range(forwarded[p]), Range(buffer[p]))
    BY <1>0 DEF PathInv, InLine
  <2>6. Continues(p, buffer[p], <<Trailers>>, {Trailers}, TRUE)
    BY <1>2, <1>3, <1>4, <2>2, <2>3, <2>5, <2>8 DEF Continues, HeadersReturned
  <2>7. buffer[p] \in Seq(Int) /\ {Trailers} \in SUBSET Int
    BY <1>0, <1>4 DEF FilterTypes
  <2>. QED
    BY <1>0, <1>4, <2>4, <2>6, <2>7, ContinuedStep
<1>. QED
  BY <1>7, <1>8, <1>9, <1>10 DEF onTrailers

\* A posted onResume: what was held back goes on, or data is injected.
LEMMA ResumeKeepsFrames ==
  ASSUME StateInv, FrameInv, onResume
  PROVE  FrameInv'
<1>. DEFINE p == Head(resumes)
<1>1. p \in Implemented /\ p \in Paths /\ life' = life
  BY FilterAssumption DEF onResume, StateInv
<1>. HIDE DEF p
<1>2. FilterTypes /\ PathInv(p)
  BY <1>1 DEF FrameInv
<1>3. ASSUME UNCHANGED <<filterVars, managerVars, view, dropped, omitted>> PROVE FrameInv'
  <2>1. FilterTypes'
    BY <1>1, <1>2, <1>3 DEF FilterTypes, filterVars, managerVars
  <2>2. ASSUME NEW q \in Paths PROVE PathInv(q)'
    BY <1>1, <1>3, UntouchedKeeps DEF FrameInv, Untouched, filterVars, managerVars
  <2>. QED
    BY <2>1, <2>2 DEF FrameInv
<1>4. CASE UNCHANGED <<filterVars, managerVars, platformVars>>
  BY <1>3, <1>4 DEF platformVars
<1>5. CASE /\ Resumes(p) /\ ResumeAnswered(p)
           /\ UNCHANGED <<complete_, stage, arrived, dropped, omitted>>
  <2>1. /\ pending_headers_'  = [pending_headers_ EXCEPT ![p] = FALSE]
        /\ pending_trailers_' = [pending_trailers_ EXCEPT ![p] = FALSE]
        /\ view' = [view EXCEPT ![p] = "ongoing"]
    BY <1>5 DEF ResumeAnswered, BecomesOngoing
  <2>2. /\ pending_headers_' \in [Paths -> BOOLEAN] /\ pending_trailers_' \in [Paths -> BOOLEAN]
        /\ ~pending_headers_'[p] /\ ~pending_trailers_'[p] /\ view'[p] = "ongoing"
        /\ \A q \in Paths \ {p} : /\ pending_headers_'[q] = pending_headers_[q]
                                  /\ pending_trailers_'[q] = pending_trailers_[q]
                                  /\ view'[q] = view[q]
    BY <1>1, <1>2, <2>1 DEF FilterTypes, StateInv
  <2>3. CASE life = "released" /\ UNCHANGED <<iteration, has_buffer, buffer, forwarded, ends>>
    <3>1. FilterTypes'
      BY <1>1, <1>2, <1>5, <2>2, <2>3 DEF FilterTypes
    <3>2. ASSUME NEW q \in Paths PROVE PathInv(q)'
      <4>1. PathInv(q) /\ life' # "alive"
        BY <1>1, <2>3 DEF FrameInv
      <4>2. Untouched(q)
        BY <1>5, <2>3 DEF Untouched
      <4>. QED
        BY <4>1, <4>2, UntouchedKeeps
    <3>. QED
      BY <3>1, <3>2 DEF FrameInv
  <2>4. CASE life = "alive"
    <3>1. PICK inject \in BOOLEAN :
            /\ inject => ~has_buffer[p] /\ ~complete_[p]
            /\ commonContinue(p, IF inject THEN <<Injected>> ELSE buffer[p],
                 IF pending_trailers_[p] THEN <<Trailers>> ELSE <<>>, complete_[p])
            /\ has_buffer' = [has_buffer EXCEPT ![p] = @ \/ inject \/ complete_[p]]
      BY <1>5, <2>4 DEF ResumeAnswered
    <3>. DEFINE b == IF inject THEN <<Injected>> ELSE buffer[p]
                t == IF pending_trailers_[p] THEN <<Trailers>> ELSE <<>>
                i == IF inject THEN {Injected} ELSE {}
                j == IF pending_trailers_[p] THEN {Trailers} ELSE {}
                new == i \cup j
                end == complete_[p]
    <3>2. iteration[p] = "stop" /\ stage[p] # "start"
      <4>1. view[p] # "ongoing"
        BY <1>1, <1>5 DEF Resumes, StateInv
      <4>. QED
        BY <1>1, <1>2, <2>4, <4>1 DEF PathInv, Known, Progress, FilterTypes
    <3>3. /\ end \in BOOLEAN /\ stage[p] = (IF end THEN "ended" ELSE "open")
          /\ pending_trailers_[p] => end
      BY <1>1, <1>2, <2>4, <3>2 DEF PathInv, Progress, Known, FilterTypes
    <3>4. /\ Trailers \in Int /\ Trailers > 0 /\ <<Trailers>> \in Seq(Int)
          /\ Range(<<Trailers>>) = {Trailers} /\ Rising(<<Trailers>>, dropped[p])
          /\ Below(Range(forwarded[p]), {Trailers}) /\ Below(Range(buffer[p]), {Trailers})
          /\ \A y \in Range(buffer[p]) : y > 0
      BY <1>1, <1>2, <3>2, TrailersAreLast
    <3>5. Injected \in Int /\ Injected = -1 /\ Injected # Trailers
      BY <3>4 DEF Injected
    <3>6. Rising(<<>>, dropped[p]) /\ Range(<<>>) = {} /\ <<>> \in Seq(Int)
      BY RangeOfNone DEF Rising
    <3>7. /\ buffer[p] \in Seq(Int) /\ Rising(buffer[p], dropped[p])
          /\ Below(Range(forwarded[p]), Range(buffer[p]))
      BY <1>1, <1>2 DEF FilterTypes, PathInv, InLine
    <3>8. /\ <<Injected>> \in Seq(Int) /\ Range(<<Injected>>) = {Injected}
          /\ Rising(<<Injected>>, dropped[p])
      BY <3>5, RangeOfOne, RisingShort
    <3>9. inject => Range(buffer[p]) = {}
      BY <1>2, <3>1, <3>6 DEF PathInv, Progress
    <3>10. /\ b \in Seq(Int) /\ Rising(b, dropped[p]) /\ Range(b) = Range(buffer[p]) \cup i
           /\ Below(Range(forwarded[p]), Range(b)) /\ \A y \in Range(b) : y = Injected \/ y > 0
      <4>1. CASE inject
        BY <3>8, <3>9, <4>1 DEF Below
      <4>2. CASE ~inject
        BY <3>4, <3>7, <4>2
      <4>. QED
        BY <4>1, <4>2
    <3>11. /\ t \in Seq(Int) /\ Rising(t, dropped[p]) /\ Range(t) = j
           /\ Below(Range(forwarded[p]), Range(t)) /\ \A y \in Range(t) : y = Injected \/ y > 0
      <4>1. CASE pending_trailers_[p]
        BY <3>4, <4>1
      <4>2. CASE ~pending_trailers_[p]
        BY <3>6, <4>2 DEF Below
      <4>. QED
        BY <4>1, <4>2
    <3>12. Below(Range(b), Range(t))
      <4>1. CASE pending_trailers_[p] /\ inject
        BY <3>3, <3>1, <4>1
      <4>2. CASE pending_trailers_[p] /\ ~inject
        BY <3>4, <4>2
      <4>3. CASE ~pending_trailers_[p]
        BY <3>6, <4>3 DEF Below
      <4>. QED
        BY <4>1, <4>2, <4>3
    <3>13. /\ new \in SUBSET Int /\ new \subseteq {Injected, Trailers}
           /\ Trailers \in new => end
      BY <3>3, <3>4, <3>5
    <3>14. NewData(p) = {} /\ arrived[p] <= arrived'[p]
      BY <1>1, <1>2, <1>5 DEF NewData, FilterTypes
    <3>15. commonContinue(p, b, t, end)
      BY <3>1
    <3>16. Range(b) \cup Range(t) = Range(buffer[p]) \cup new
      BY <3>10, <3>11
    <3>17. /\ has_buffer' \in [Paths -> BOOLEAN]
           /\ \A q \in Paths \ {p} : has_buffer'[q] = has_buffer[q]
      BY <1>1, <1>2, <3>1 DEF FilterTypes
    <3>18. BesideContinue(p)
      BY <1>1, <1>2, <1>5, <2>2, <3>17 DEF BesideContinue, FilterTypes
    <3>19. /\ stage'[p] = (IF end THEN "ended" ELSE "open") /\ complete_'[p] = end
           /\ dropped'[p] = dropped[p]
      BY <1>5, <3>3
    <3>. HIDE DEF b, t, new, end
    <3>20. Continues(p, b, t, new, end)
      BY <2>2, <3>10, <3>11, <3>12, <3>13, <3>14, <3>15, <3>16, <3>19 DEF Continues
    <3>21. end \in BOOLEAN
      BY <3>3
    <3>. QED
      BY <1>1, <3>2, <3>10, <3>11, <3>13, <3>18, <3>20, <3>21, ContinuedStep
  <2>. QED
    BY <1>5, <2>3, <2>4 DEF ResumeAnswered
<1>. QED
  BY <1>3, <1>4, <1>5 DEF onResume, p

\* FrameInv holds in every reachable state.
THEOREM FrameInvIsInvariant ==
  ASSUME OnePath
  PROVE  Spec => [](StateInv /\ FrameInv)
<1>1. Init => FrameInv
  <2>1. SUFFICES ASSUME Init PROVE FrameInv
    OBVIOUS
  <2>2. (\A D : Rising(<<>>, D)) /\ Range(<<>>) = {} /\ <<>> \in Seq(Int) /\ 0 \in 0 .. MaxData /\ 1 .. 0 = {}
    BY RangeOfNone, FilterAssumption DEF Rising
  <2>3. FilterTypes
    BY <2>1, <2>2 DEF Init, FilterTypes
  <2>4. ASSUME NEW p \in Paths PROVE PathInv(p)
    BY <2>1, <2>2 DEF Init, PathInv, Progress, InLine, Accounted, Known, Below
  <2>. QED
    BY <2>3, <2>4 DEF FrameInv
<1>2. ASSUME StateInv, FrameInv, [Next]_vars PROVE FrameInv'
  <2>1. ASSUME NEW p \in Paths, NEW end \in BOOLEAN, onHeaders(p, end) \/ onData(p, end)
        PROVE  FrameInv'
    BY <1>2, <2>1, HeadersKeepFrames, DataKeepsFrames
  <2>2. ASSUME NEW p \in Paths, onTrailers(p) PROVE FrameInv'
    BY <1>2, <2>2, TrailersKeepFrames
  <2>3. ASSUME UNCHANGED <<filterVars, managerVars, view, dropped, omitted>>,
               life' \in {life, "released", "gone"}
        PROVE  FrameInv'
    <3>1. FilterTypes'
      BY <1>2, <2>3 DEF FrameInv, FilterTypes, filterVars, managerVars
    <3>2. ASSUME NEW q \in Paths PROVE PathInv(q)'
      BY <1>2, <2>3, UntouchedKeeps DEF FrameInv, Untouched, filterVars, managerVars
    <3>. QED
      BY <3>1, <3>2 DEF FrameInv
  <2>4. ASSUME NEW p \in Paths, resume_iteration(p) \/ resume(p) PROVE FrameInv'
    BY <2>3, <2>4 DEF resume_iteration, resume, postVars, platformVars
  <2>5. CASE onResume
    BY <1>2, <2>5, ResumeKeepsFrames
  <2>6. CASE onDestroy \/ DeleteFilter
    BY <2>3, <2>6 DEF onDestroy, DeleteFilter, platformVars
  <2>7. CASE UNCHANGED vars
    BY <2>3, <2>7 DEF vars, postVars, platformVars
  <2>. QED
    BY <1>2, <2>1, <2>2, <2>4, <2>5, <2>6, <2>7 DEF Next
<1>. QED
  BY <1>1, <1>2, StateInvIsInvariant, PTL DEF Spec

\* For any number of data frames, and however stops, statuses and posted
\* resumptions interleave: the next filter gets the headers first and then the
\* frames in the order of their arrival, none of them twice but for the one that
\* resumes after StopIterationNoBuffer.
THEOREM FramesAreForwardedInOrder ==
  ASSUME OnePath
  PROVE  Spec => []ForwardedInOrder
<1>1. FrameInv => ForwardedInOrder
  BY DEF FrameInv, PathInv, InLine, Progress, ForwardedInOrder
<1>. QED
  BY <1>1, FrameInvIsInvariant, PTL

\* Until onDestroy every frame that arrived has been forwarded, is held back or
\* was dropped by the platform filter, and only one of the three; headers may
\* also be noted as pending still, if the filter resumed without them.
THEOREM NoFrameIsLost ==
  ASSUME OnePath
  PROVE  Spec => []NothingLost
<1>1. ASSUME FrameInv PROVE NothingLost
  <2>1. SUFFICES ASSUME NEW p \in Paths, life = "alive"
                 PROVE  LET seen == (IF stage[p] = "start" THEN {} ELSE {Headers})
                                      \cup (1 .. arrived[p])
                            held == (IF pending_headers_[p] THEN {Headers} ELSE {})
                                      \cup Range(buffer[p])
                            passed == Range(forwarded[p]) \ {Trailers, Injected}
                        IN  /\ seen = passed \cup held \cup dropped[p]
                            /\ passed \cap held \subseteq (IF omitted[p] THEN {Headers} ELSE {})
                            /\ held \cap dropped[p] = {} /\ passed \cap dropped[p] = {}
    BY DEF NothingLost
  <2>. DEFINE R == Range(forwarded[p])  B == Range(buffer[p])  D == dropped[p]  A == 1 .. arrived[p]
              h == IF pending_headers_[p] THEN {Headers} ELSE {}
              s == IF stage[p] = "start" THEN {} ELSE {Headers}
              o == IF omitted[p] THEN {Headers} ELSE {}
  <2>2. /\ R \subseteq {Injected, Headers, Trailers} \cup A /\ A \subseteq R \cup B \cup D
        /\ B \cup D \subseteq A /\ R \cap B = {} /\ R \cap D = {} /\ B \cap D = {}
    BY <1>1 DEF FrameInv, PathInv, Accounted
  <2>3. /\ Headers \notin A /\ Injected \notin A /\ Trailers \notin A
        /\ Headers # Injected /\ Headers # Trailers
    BY <1>1, FilterAssumption DEF FrameInv, FilterTypes, Headers, Injected, Trailers
  <2>4. CASE stage[p] = "start"
    <3>1. R = {} /\ h = {} /\ s = {}
      BY <1>1, <2>1, <2>4, RangeOfNone DEF FrameInv, PathInv, Progress, Known
    <3>. HIDE DEF R, B, D, A, h, s, o
    <3>2. /\ s \cup A = (R \ {Trailers, Injected}) \cup (h \cup B) \cup D
          /\ (R \ {Trailers, Injected}) \cap (h \cup B) \subseteq o /\ (h \cup B) \cap D = {}
          /\ (R \ {Trailers, Injected}) \cap D = {}
      BY <2>2, <2>3, <3>1
    <3>. QED
      BY <3>2 DEF R, B, D, A, h, s, o
  <2>5. CASE stage[p] # "start"
    <3>1. /\ s = {Headers} /\ (h = {} => Headers \in R) /\ h \subseteq {Headers}
          /\ h \cap R \subseteq o
      <4>1. /\ forwarded[p] = <<>> => pending_headers_[p]
            /\ pending_headers_[p] => forwarded[p] = <<>> \/ omitted[p]
        BY <1>1, <2>1, <2>5 DEF FrameInv, PathInv, Known
      <4>2. forwarded[p] # <<>> => Headers \in R
        <5>1. forwarded[p] \in Seq(Int) /\ (forwarded[p] # <<>> => forwarded[p][1] = Headers)
          BY <1>1 DEF FrameInv, FilterTypes, PathInv, Progress
        <5>. QED
          BY <5>1, RangeOfSome
      <4>3. forwarded[p] = <<>> => R = {}
        BY RangeOfNone
      <4>. QED
        BY <2>5, <4>1, <4>2, <4>3
    <3>. HIDE DEF R, B, D, A, h, s, o
    <3>2. /\ s \cup A = (R \ {Trailers, Injected}) \cup (h \cup B) \cup D
          /\ (R \ {Trailers, Injected}) \cap (h \cup B) \subseteq o /\ (h \cup B) \cap D = {}
          /\ (R \ {Trailers, Injected}) \cap D = {}
      BY <2>2, <2>3, <3>1
    <3>. QED
      BY <3>2 DEF R, B, D, A, h, s, o
  <2>. QED
    BY <2>4, <2>5
<1>. QED
  BY <1>1, FrameInvIsInvariant, PTL

\* The end of the stream is passed on once, after all that is not dropped.
THEOREM EndIsForwardedLast ==
  ASSUME OnePath
  PROVE  Spec => []EndIsLast
<1>1. ASSUME FrameInv PROVE EndIsLast
  <2>1. SUFFICES ASSUME NEW p \in Paths, ends[p] > 0
                 PROVE  /\ ends[p] = 1 /\ stage[p] = "ended" /\ buffer[p] = <<>>
                        /\ Contains(forwarded[p], Headers)
    BY DEF EndIsLast
  <2>2. stage[p] = "ended" /\ iteration[p] = "continue" /\ ends[p] = 1
    BY <1>1, <2>1 DEF FrameInv, FilterTypes, PathInv, Progress
  <2>3. buffer[p] = <<>> /\ forwarded[p] # <<>> /\ forwarded[p][1] = Headers
    BY <1>1, <2>2 DEF FrameInv, PathInv, Progress
  <2>. QED
    BY <1>1, <2>2, <2>3, RangeOfSome, ContainsIsIn DEF FrameInv, FilterTypes
<1>. QED
  BY <1>1, FrameInvIsInvariant, PTL

\* What onResume* shows the platform filter is what has not been forwarded,
\* besides headers that it left out of a ResumeIteration.
THEOREM SnapshotsAreExact ==
  ASSUME OnePath
  PROVE  Spec => []SnapshotIsExact
<1>1. ASSUME FrameInv PROVE SnapshotIsExact
  <2>1. SUFFICES ASSUME NEW p \in Implemented, life = "alive", view[p] # "ongoing"
                 PROVE  /\ ~Contains(forwarded[p], Headers) => pending_headers_[p]
                        /\ pending_headers_[p] => ~Contains(forwarded[p], Headers) \/ omitted[p]
                        /\ pending_trailers_[p] => ~Contains(forwarded[p], Trailers)
                        /\ complete_[p] <=> stage[p] = "ended"
    BY DEF SnapshotIsExact
  <2>2. p \in Paths /\ PathInv(p) /\ forwarded[p] \in Seq(Int)
    BY <1>1, FilterAssumption DEF FrameInv, FilterTypes
  <2>3. iteration[p] = "stop" /\ stage[p] # "start"
    BY <1>1, <2>1, <2>2 DEF FrameInv, FilterTypes, PathInv, Known, Progress
  <2>4. /\ forwarded[p] = <<>> => pending_headers_[p]
        /\ pending_headers_[p] => forwarded[p] = <<>> \/ omitted[p]
    BY <2>1, <2>2, <2>3 DEF PathInv, Known
  <2>5. forwarded[p] # <<>> => Headers \in Range(forwarded[p])
    BY <2>2, RangeOfSome DEF PathInv, Progress
  <2>6. forwarded[p] = <<>> => Headers \notin Range(forwarded[p])
    BY RangeOfNone
  <2>7. Trailers \notin Range(forwarded[p]) /\ (complete_[p] <=> stage[p] = "ended")
    BY <2>2, <2>3 DEF PathInv, Progress
  <2>. QED
    BY <2>2, <2>4, <2>5, <2>6, <2>7, ContainsIsIn
<1>. QED
  BY <1>1, FrameInvIsInvariant, PTL

-----------------------------------------------------------------------------
(* A resumption that comes too late *)

\* While the stream lives, the manager has stopped iterating exactly on the
\* path on which the platform filter has; this needs none of the other rules.
SameIteration ==
  /\ life \in {"alive", "released", "gone"}
  /\ iteration \in [Paths -> {"continue", "stop"}]
  /\ life = "alive" =>
       \A p \in Implemented : view[p] = "ongoing" <=> iteration[p] = "continue"

\* A step that stops, or continues, the one path p on both sides.
LEMMA SameIterationStep ==
  ASSUME OnePath, StateInv, SameIteration, NEW p \in Implemented,
         NEW v \in Views, NEW i \in {"continue", "stop"}, v = "ongoing" <=> i = "continue",
         view' = [view EXCEPT ![p] = v], iteration' = [iteration EXCEPT ![p] = i],
         life' = life
  PROVE  SameIteration'
<1>1. p \in Paths /\ \A q \in Implemented : q = p
  BY FilterAssumption DEF OnePath
<1>. QED
  BY <1>1 DEF StateInv, SameIteration

LEMMA SameIterationStable ==
  ASSUME SameIteration, UNCHANGED <<iteration, view>>, life' \in {life, "released", "gone"}
  PROVE  SameIteration'
BY DEF SameIteration

\* Iteration on p had stopped: commonContinue sets it going on both sides.
LEMMA BothContinue ==
  ASSUME OnePath, StateInv, SameIteration, NEW p \in Implemented, NEW b, NEW t, NEW end,
         commonContinue(p, b, t, end), BecomesOngoing(p), life' = life
  PROVE  SameIteration'
BY SameIterationStep DEF commonContinue, BecomesOngoing, Views

LEMMA SameIterationPreserved ==
  ASSUME OnePath, StateInv, SameIteration, [Next]_vars
  PROVE  SameIteration'
<1>0. Implemented \subseteq Paths
  BY FilterAssumption
<1>1. ASSUME NEW p \in Paths, NEW end \in BOOLEAN, onHeaders(p, end) PROVE SameIteration'
  <2>1. life' = life
    BY <1>1 DEF onHeaders, HeadersArrive, Arrives, postVars
  <2>2. CASE HeadersContinue(p, end)
    BY <2>1, <2>2, SameIterationStable DEF HeadersContinue
  <2>3. CASE p \in Implemented /\ HeadersStop(p)
    BY <2>1, <2>3, SameIterationStep DEF HeadersStop, Views
  <2>. QED
    BY <1>1, <2>2, <2>3 DEF onHeaders
<1>2. ASSUME NEW p \in Paths, NEW end \in BOOLEAN, onData(p, end) PROVE SameIteration'
  <2>1. life' = life /\ life = "alive"
    BY <1>2 DEF onData, DataArrive, Arrives, postVars
  <2>2. CASE p \notin Implemented
    BY <1>2, <2>1, <2>2, SameIterationStable DEF onData, platformVars
  <2>3. CASE p \in Implemented /\ DataContinue(p, end)
    <3>1. view[p] = "ongoing" /\ iteration_state_ # "Stopped"
      BY <2>3 DEF DataContinue, StateInv
    <3>2. iteration[p] = "continue" /\ view' = view
      BY <2>1, <2>3, <3>1 DEF SameIteration, DataContinue, platformVars
    <3>3. iteration' = iteration
      BY <2>3, <3>1, <3>2 DEF DataContinue, DataContinues
    <3>. QED
      BY <2>1, <3>2, <3>3, SameIterationStable
  <2>4. CASE p \in Implemented /\ (DataStopAndBuffer(p, end) \/ DataStopNoBuffer(p, end))
    BY <2>1, <2>4, SameIterationStep DEF DataStopAndBuffer, DataStopNoBuffer, DataStops, Views
  <2>5. CASE p \in Implemented /\ DataResume(p, end)
    <3>1. view[p] # "ongoing" /\ iteration_state_ = "Stopped"
      BY <2>5 DEF DataResume, StateInv
    <3>2. iteration[p] # "continue" /\ BecomesOngoing(p)
      BY <2>1, <2>5, <3>1 DEF SameIteration, DataResume
    <3>3. PICK b, data : DataContinues(p, b, data, end)
      BY <2>5, <3>1 DEF DataResume
    <3>4. commonContinue(p, b \o data, <<>>, end)
      BY <3>2, <3>3 DEF DataContinues
    <3>. QED
      BY <2>1, <2>5, <3>2, <3>4, BothContinue
  <2>. QED
    BY <1>2, <2>2, <2>3, <2>4, <2>5 DEF onData
<1>3. ASSUME NEW p \in Paths, onTrailers(p) PROVE SameIteration'
  <2>1. life' = life /\ life = "alive"
    BY <1>3 DEF onTrailers, TrailersArrive, Arrives, postVars
  <2>2. CASE p \notin Implemented
    BY <1>3, <2>1, <2>2, SameIterationStable DEF onTrailers, platformVars
  <2>3. CASE p \in Implemented /\ TrailersContinue(p)
    <3>1. view[p] = "ongoing" /\ iteration_state_ # "Stopped"
      BY <2>3 DEF TrailersContinue, StateInv
    <3>2. iteration[p] = "continue" /\ view' = view
      BY <2>1, <2>3, <3>1 DEF SameIteration, TrailersContinue, platformVars
    <3>3. iteration' = iteration
      BY <2>3, <3>1, <3>2 DEF TrailersContinue, TrailersContinues
    <3>. QED
      BY <2>1, <3>2, <3>3, SameIterationStable
  <2>4. CASE p \in Implemented /\ TrailersStop(p)
    BY <2>1, <2>4, SameIterationStep DEF TrailersStop, Views
  <2>5. CASE p \in Implemented /\ TrailersResume(p)
    <3>1. view[p] # "ongoing" /\ iteration_state_ = "Stopped"
      BY <2>5 DEF TrailersResume, StateInv
    <3>2. iteration[p] # "continue" /\ BecomesOngoing(p)
      BY <2>1, <2>5, <3>1 DEF SameIteration, TrailersResume
    <3>3. commonContinue(p, buffer[p], <<Trailers>>, TRUE)
      BY <2>5, <3>1, <3>2 DEF TrailersResume, TrailersContinues
    <3>. QED
      BY <2>1, <2>5, <3>2, <3>3, BothContinue
  <2>. QED
    BY <1>3, <2>2, <2>3, <2>4, <2>5 DEF onTrailers
<1>4. CASE onResume
  <2>. DEFINE p == Head(resumes)
  <2>1. p \in Implemented /\ life' = life
    BY <1>4 DEF onResume, StateInv
  <2>. HIDE DEF p
  <2>2. CASE UNCHANGED <<iteration, view>>
    BY <2>1, <2>2, SameIterationStable
  <2>3. CASE ResumeAnswered(p)
    <3>1. CASE life = "released" /\ iteration' = iteration
      BY <2>1, <3>1 DEF SameIteration
    <3>2. CASE \E b, t, end : commonContinue(p, b, t, end)
      BY <2>1, <2>3, <3>2, BothContinue DEF ResumeAnswered
    <3>. QED
      BY <2>3, <3>1, <3>2 DEF ResumeAnswered
  <2>. QED
    BY <1>4, <2>2, <2>3 DEF onResume, managerVars, platformVars, p
<1>5. ASSUME NEW p \in Paths, resume_iteration(p) \/ resume(p) PROVE SameIteration'
  BY <1>5, SameIterationStable DEF resume_iteration, resume, postVars, managerVars, platformVars
<1>6. CASE onDestroy \/ DeleteFilter
  BY <1>6, SameIterationStable DEF onDestroy, DeleteFilter, managerVars, platformVars
<1>7. CASE UNCHANGED vars
  BY <1>7, SameIterationStable DEF vars, postVars, managerVars, platformVars
<1>. QED
  BY <1>1, <1>2, <1>3, <1>4, <1>5, <1>6, <1>7 DEF Next

\* A posted resumption that is overtaken by a ResumeIteration, or by another
\* one, forwards nothing and does not touch the iteration of its path.
THEOREM LateResumptionsDoNothing ==
  ASSUME OnePath
  PROVE  Spec => ResumesOnlyStopped
<1>. DEFINE Late == \A p \in Paths :
               resumes # <<>> /\ resumes' = Tail(resumes) /\ Head(resumes) = p
                 /\ iteration[p] = "continue" => UNCHANGED <<forwarded, ends, iteration>>
<1>1. Init => SameIteration
  <2>1. \A p \in Implemented : p \in Paths
    BY FilterAssumption
  <2>. QED
    BY <2>1 DEF Init, SameIteration
<1>2. ASSUME StateInv, SameIteration, [Next]_vars PROVE [Late]_vars
  <2>1. SUFFICES ASSUME Next, resumes # <<>>, resumes' = Tail(resumes),
                        iteration[Head(resumes)] = "continue"
                 PROVE  UNCHANGED <<forwarded, ends, iteration>>
    BY <1>2
  <2>2. resumes \in Seq(Implemented) /\ Len(resumes') = Len(resumes) - 1 /\ Len(resumes) \in Nat
    BY <1>2, <2>1 DEF StateInv
  <2>3. resumes' # resumes /\ \A p : resumes' # Append(resumes, p)
    <3>1. \A p : resumes' = Append(resumes, p) => Len(Append(resumes, p)) = Len(resumes) + 1
      BY <2>2
    <3>. QED
      BY <2>2, <3>1
  <2>4. onResume
    BY <2>1, <2>3 DEF Next, onHeaders, HeadersArrive, onData, DataArrive, onTrailers,
                      TrailersArrive, Arrives, postVars, resume_iteration, resume,
                      onDestroy, DeleteFilter
  <2>. DEFINE p == Head(resumes)
  <2>5. p \in Implemented
    BY <2>1, <2>2
  <2>. HIDE DEF p
  <2>6. life = "alive" => ~Resumes(p)
    BY <1>2, <2>1, <2>5 DEF SameIteration, StateInv, Resumes, p
  <2>7. ResumeAnswered(p) /\ life # "alive" => UNCHANGED <<forwarded, ends, iteration>>
    BY DEF ResumeAnswered
  <2>. QED
    BY <2>4, <2>6, <2>7 DEF onResume, managerVars, p
<1>3. Spec => [](StateInv /\ SameIteration)
  BY <1>1, SameIterationPreserved, StateInvIsInvariant, PTL DEF Spec
<1>. QED
  BY <1>2, <1>3, PTL DEF Spec, ResumesOnlyStopped
=============================================================================
