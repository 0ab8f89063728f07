--------------------------- MODULE IosStreamProofs ---------------------------
(***************************************************************************)
(* Theorems about the stream of an iOS application, for any number of data *)
(* frames and of calls of cancel: the ios_context outlives the callbacks   *)
(* that native code makes with it, whatever queue the application uses;    *)
(* what is bridged is released; and a serial queue keeps the callbacks in  *)
(* order.                                                                  *)
(***************************************************************************)
EXTENDS IosStream, SequenceTheorems, FiniteSetTheorems, FunctionTheorems, TLAPS

\* What is left when an element is removed.
LEMMA RemoveAtIndex ==
  ASSUME NEW S, NEW s \in Seq(S), NEW i \in DOMAIN s
  PROVE  /\ RemoveAt(s, i) \in Seq(S) /\ Len(RemoveAt(s, i)) = Len(s) - 1
         /\ \A j \in 1 .. Len(s) - 1 :
              RemoveAt(s, i)[j] = s[IF j < i THEN j ELSE j + 1]
<1>. DEFINE a == SubSeq(s, 1, i - 1)
            b == SubSeq(s, i + 1, Len(s))
<1>1. a \in Seq(S) /\ Len(a) = i - 1 /\ (\A j \in 1 .. i - 1 : a[j] = s[j])
  OBVIOUS
<1>2. b \in Seq(S) /\ Len(b) = Len(s) - i /\ (\A j \in 1 .. Len(s) - i : b[j] = s[i + j])
  OBVIOUS
<1>. HIDE DEF a, b
<1>. DEFINE c == a \o b
<1>3. /\ c \in Seq(S) /\ Len(c) = Len(a) + Len(b)
      /\ \A j \in 1 .. Len(a) + Len(b) :
           c[j] = IF j <= Len(a) THEN a[j] ELSE b[j - Len(a)]
  BY <1>1, <1>2, ConcatProperties, Zenon DEF c
<1>. HIDE DEF c
<1>4. i \in Nat /\ i >= 1 /\ Len(s) \in Nat /\ i <= Len(s) /\ Len(c) = Len(s) - 1
  BY <1>1, <1>2, <1>3
<1>5. ASSUME NEW j \in 1 .. Len(s) - 1
      PROVE  c[j] = s[IF j < i THEN j ELSE j + 1]
  <2>1. CASE j < i
    <3>1. c[j] = a[j] /\ j \in 1 .. i - 1
      BY <2>1, <1>1, <1>2, <1>3, <1>4
    <3>. QED
      BY <2>1, <3>1, <1>1
  <2>2. CASE ~(j < i)
    <3>1. c[j] = b[j - (i - 1)]
      BY <2>2, <1>1, <1>2, <1>3, <1>4
    <3>2. j - (i - 1) \in 1 .. Len(s) - i /\ i + (j - (i - 1)) = j + 1
      BY <2>2, <1>4
    <3>3. c[j] = s[j + 1]
      BY <3>1, <3>2, <1>2
    <3>. QED
      BY <2>2, <3>3
  <2>. QED
    BY <2>1, <2>2
<1>. QED
  BY <1>3, <1>4, <1>5 DEF RemoveAt, a, b, c

\* Removing an element leaves a sequence of elements that were there.
LEMMA RemoveAtKeeps ==
  ASSUME NEW S, NEW s \in Seq(S), NEW i \in DOMAIN s
  PROVE  /\ RemoveAt(s, i) \in Seq(S)
         /\ \A j \in DOMAIN RemoveAt(s, i) :
              \E k \in DOMAIN s : RemoveAt(s, i)[j] = s[k]
<1>. DEFINE c == RemoveAt(s, i)
<1>1. /\ c \in Seq(S) /\ Len(c) = Len(s) - 1
      /\ \A j \in 1 .. Len(s) - 1 : c[j] = s[IF j < i THEN j ELSE j + 1]
  BY RemoveAtIndex, Zenon
<1>. HIDE DEF c
<1>2. \A j \in 1 .. Len(s) - 1 : (IF j < i THEN j ELSE j + 1) \in DOMAIN s
  OBVIOUS
<1>3. DOMAIN c = 1 .. Len(s) - 1
  BY <1>1
<1>4. \A j \in DOMAIN c : \E k \in DOMAIN s : c[j] = s[k]
  BY <1>1, <1>2, <1>3, Zenon
<1>. QED
  BY <1>1, <1>4 DEF c

NoTerminal(q) == \A j \in DOMAIN q : q[j] \notin TerminalKinds

\* The inductive invariant: while native code may still make a callback, no
\* terminal block is on the queue, so nothing has cleared _strongSelf; and
\* initWithHandle has taken it before it calls start_stream.
CtxInv ==
  /\ queue \in Seq(Kinds)
  /\ native \in {"unstarted", "open", "ended"}
  /\ native = "unstarted" => queue = <<>>
  /\ init \in {"idle", "starting"} => native = "unstarted"
  /\ init = "starting" => strongSelf = TRUE /\ context = "live"
  /\ native = "open" => strongSelf = TRUE /\ context = "live" /\ NoTerminal(queue)

\* A callback of native code appends its block; a terminal one ends the stream.
LEMMA CallbackKeepsCtxInv ==
  ASSUME CtxInv, NEW kind \in Kinds, Callback(kind)
  PROVE  CtxInv'
<1>1. queue' = Append(queue, kind) /\ queue' \in Seq(Kinds) /\ native' \in {"open", "ended"}
  BY DEF CtxInv, Callback, dispatch_async
<1>2. kind \notin TerminalKinds => NoTerminal(queue')
  BY <1>1 DEF CtxInv, NoTerminal, Callback
<1>. QED
  BY <1>1, <1>2 DEF CtxInv, Callback

\* Running a block of an open stream leaves _strongSelf alone.
LEMMA RunBlockKeepsCtxInv ==
  ASSUME CtxInv, NEW i \in Nat, RunBlock(i)
  PROVE  CtxInv'
<1>1. i \in DOMAIN queue /\ queue' = RemoveAt(queue, i) /\ native' = native
  BY DEF RunBlock
<1>2. queue' \in Seq(Kinds) /\ (NoTerminal(queue) => NoTerminal(queue'))
  BY <1>1, RemoveAtKeeps DEF CtxInv, NoTerminal
<1>3. native # "unstarted"
  BY <1>1 DEF CtxInv
<1>4. ASSUME native = "open" PROVE strongSelf' = TRUE /\ context' = "live"
  <2>1. queue[i] \notin TerminalKinds
    BY <1>1, <1>4 DEF CtxInv, NoTerminal
  <2>2. strongSelf' = TRUE
    BY <2>1, <1>4 DEF RunBlock, cleanUp, CtxInv
  <2>. QED
    BY <2>2, <1>4 DEF RunBlock, dealloc, CtxInv
<1>5. init' = init /\ init \notin {"idle", "starting"}
  BY <1>3 DEF RunBlock, CtxInv
<1>. QED
  BY <1>1, <1>2, <1>3, <1>4, <1>5 DEF CtxInv

\* CtxInv holds in every reachable state.
THEOREM CtxInvIsInvariant == Spec => []CtxInv
<1>1. Init => CtxInv
  BY DEF Init, CtxInv, NoTerminal
<1>2. ASSUME CtxInv, [Next]_vars PROVE CtxInv'
  <2>1. CASE initWithHandle
    BY <1>2, <2>1 DEF initWithHandle, CtxInv, NoTerminal
  <2>2. CASE start_stream
    <3>1. init = "starting" /\ strongSelf = TRUE /\ context = "live" /\ queue = <<>>
          /\ native = "unstarted" /\ queue' = queue
      BY <1>2, <2>2 DEF start_stream, CtxInv
    <3>2. CASE native' = "open"
      BY <1>2, <2>2, <3>1, <3>2 DEF start_stream, dealloc, CtxInv, NoTerminal
    <3>3. CASE native' = native
      BY <1>2, <2>2, <3>1, <3>3 DEF start_stream, CtxInv
    <3>. QED
      BY <2>2, <3>2, <3>3 DEF start_stream
  <2>3. CASE initReturns
    BY <1>2, <2>3 DEF initReturns, CtxInv, NoTerminal
  <2>4. CASE NativeStep
    <3>1. \E kind \in Kinds : Callback(kind)
      BY <2>4 DEF NativeStep, ios_on_headers, ios_on_data, ios_on_trailers,
                  ios_on_complete, ios_on_cancel, ios_on_error, Kinds,
                  FrameKinds, TerminalKinds
    <3>. QED
      BY <3>1, <1>2, CallbackKeepsCtxInv
  <2>5. CASE cancel
    BY <1>2, <2>5 DEF cancel, CtxInv, NoTerminal
  <2>6. CASE Release
    BY <1>2, <2>6 DEF Release, dealloc, CtxInv, NoTerminal
  <2>7. ASSUME NEW i \in 1 .. MaxData + 3, RunBlock(i) PROVE CtxInv'
    BY <1>2, <2>7, RunBlockKeepsCtxInv, IosAssumption
  <2>8. CASE UNCHANGED vars
    BY <1>2, <2>8 DEF vars, CtxInv, NoTerminal
  <2>. QED
    BY <1>2, <2>1, <2>2, <2>3, <2>4, <2>5, <2>6, <2>7, <2>8 DEF Next, AppStep
<1>. QED
  BY <1>1, <1>2, PTL DEF Spec

\* On a serial or a concurrent queue, with any set of handlers, and whenever the
\* application drops its reference or cancels: the pointer that native code
\* passes to the ios_on_* functions is to a live context, from the call of
\* start_stream on.
THEOREM ContextIsLive == Spec => []ContextOutlivesCallbacks
<1>1. CtxInv => ContextOutlivesCallbacks
  BY DEF CtxInv, ContextOutlivesCallbacks
<1>. QED
  BY <1>1, CtxInvIsInvariant, PTL
-----------------------------------------------------------------------------
(* What is bridged is released *)

\* The kinds whose objects a block releases, and those whose it does not.
Released  == {kind \in Kinds : HasPayload(kind) /\ kind \in Handlers}
Forgotten == {kind \in Kinds : HasPayload(kind) /\ kind \notin Handlers}

\* The places of a sequence with an element of K.
Places(q, K) == {i \in DOMAIN q : q[i] \in K}

\* The objects that are not yet released are those that the blocks on the queue
\* will release, and those that no block ever will.
PayInv ==
  /\ queue \in Seq(Kinds) /\ emitted \in Seq(Kinds)
  /\ unreleased =
       Cardinality(Places(queue, Released)) + Cardinality(Places(emitted, Forgotten))

LEMMA PlacesAreFinite ==
  ASSUME NEW K, NEW q \in Seq(Kinds)
  PROVE  IsFiniteSet(Places(q, K)) /\ Cardinality(Places(q, K)) \in Nat
<1>1. IsFiniteSet(1 .. Len(q)) /\ Places(q, K) \subseteq 1 .. Len(q)
  BY FS_Interval DEF Places
<1>2. IsFiniteSet(Places(q, K))
  BY <1>1, FS_Subset
<1>. QED
  BY <1>2, FS_CardinalityType

LEMMA PlacesAfterAppend ==
  ASSUME NEW K, NEW q \in Seq(Kinds), NEW kind \in Kinds
  PROVE  Cardinality(Places(Append(q, kind), K)) =
           IF kind \in K THEN Cardinality(Places(q, K)) + 1 ELSE Cardinality(Places(q, K))
<1>. DEFINE c == Append(q, kind)  n == Len(q) + 1
<1>1. /\ DOMAIN q = 1 .. Len(q) /\ Len(q) \in Nat /\ DOMAIN c = 1 .. n /\ c[n] = kind
      /\ \A j \in 1 .. Len(q) : c[j] = q[j]
  OBVIOUS
<1>. HIDE DEF c
<1>2. n \notin Places(q, K)
  BY <1>1 DEF Places
<1>3. kind \in K => Places(c, K) = Places(q, K) \cup {n}
  BY <1>1 DEF Places
<1>4. kind \notin K => Places(c, K) = Places(q, K)
  BY <1>1 DEF Places
<1>5. Cardinality(Places(q, K) \cup {n}) = Cardinality(Places(q, K)) + 1
  BY <1>2, PlacesAreFinite, FS_AddElement
<1>. QED
  BY <1>3, <1>4, <1>5 DEF c

LEMMA PlacesAfterRemove ==
  ASSUME NEW K, NEW q \in Seq(Kinds), NEW i \in DOMAIN q
  PROVE  Cardinality(Places(RemoveAt(q, i), K)) =
           IF q[i] \in K THEN Cardinality(Places(q, K)) - 1 ELSE Cardinality(Places(q, K))
<1>. DEFINE c == RemoveAt(q, i)  rest == Places(q, K) \ {i}
            Old(j) == IF j < i THEN j ELSE j + 1
            f == [j \in Places(c, K) |-> Old(j)]
<1>1. /\ c \in Seq(Kinds) /\ Len(c) = Len(q) - 1
      /\ \A j \in 1 .. Len(q) - 1 : c[j] = q[Old(j)]
  BY RemoveAtIndex, Zenon
<1>. HIDE DEF c
<1>2. /\ Len(q) \in Nat /\ DOMAIN q = 1 .. Len(q) /\ i \in 1 .. Len(q)
      /\ DOMAIN c = 1 .. Len(q) - 1
  BY <1>1
<1>3. ASSUME NEW j \in Places(c, K)
      PROVE  j \in 1 .. Len(q) - 1 /\ Old(j) \in rest
  <2>1. j \in 1 .. Len(q) - 1 /\ c[j] \in K
    BY <1>2 DEF Places
  <2>2. Old(j) \in DOMAIN q /\ Old(j) # i
    BY <1>2, <2>1
  <2>3. q[Old(j)] \in K
    BY <1>1, <2>1
  <2>. HIDE DEF Old
  <2>. QED
    BY <2>1, <2>2, <2>3 DEF Places
<1>4. f \in [Places(c, K) -> rest]
  BY <1>3
<1>5. ASSUME NEW j \in Places(c, K), NEW k \in Places(c, K), f[j] = f[k] PROVE j = k
  <2>1. Old(j) = Old(k)
    BY <1>5
  <2>2. j \in Nat /\ k \in Nat /\ i \in Nat
    BY <1>2, <1>3
  <2>. QED
    BY <2>1, <2>2
<1>6. ASSUME NEW k \in rest PROVE \E j \in Places(c, K) : f[j] = k
  <2>1. k \in 1 .. Len(q) /\ k # i /\ q[k] \in K
    BY <1>2 DEF Places
  <2>2. PICK j \in 1 .. Len(q) - 1 : Old(j) = k
    <3>1. CASE k < i
      BY <1>2, <2>1, <3>1
    <3>2. CASE ~(k < i)
      <4>1. k - 1 \in 1 .. Len(q) - 1 /\ Old(k - 1) = k
        BY <1>2, <2>1, <3>2
      <4>. QED
        BY <4>1
    <3>. QED
      BY <3>1, <3>2
  <2>3. j \in Places(c, K)
    BY <1>1, <1>2, <2>1, <2>2 DEF Places
  <2>. QED
    BY <2>2, <2>3
<1>. HIDE DEF f, Old
<1>7. f \in Bijection(Places(c, K), rest)
  BY <1>4, <1>5, <1>6, Fun_IsBij
<1>8. IsFiniteSet(Places(c, K)) /\ ExistsBijection(Places(c, K), rest)
  BY <1>1, <1>7, PlacesAreFinite, Fun_ExistsBij
<1>9. Cardinality(rest) = Cardinality(Places(c, K))
  BY <1>8, FS_Bijection
<1>10. Cardinality(rest) =
         IF i \in Places(q, K) THEN Cardinality(Places(q, K)) - 1 ELSE Cardinality(Places(q, K))
  BY PlacesAreFinite, FS_RemoveElement
<1>11. i \in Places(q, K) <=> q[i] \in K
  BY DEF Places
<1>. QED
  BY <1>9, <1>10, <1>11 DEF c

LEMMA CallbackKeepsPayInv ==
  ASSUME PayInv, NEW kind \in Kinds, Callback(kind)
  PROVE  PayInv'
<1>. DEFINE a == Cardinality(Places(queue, Released))
            b == Cardinality(Places(emitted, Forgotten))
<1>1. /\ queue' = Append(queue, kind) /\ queue' \in Seq(Kinds)
      /\ emitted' = Append(emitted, kind) /\ emitted' \in Seq(Kinds)
  BY DEF PayInv, Callback, dispatch_async
<1>2. unreleased' = IF HasPayload(kind) THEN unreleased + 1 ELSE unreleased
  BY DEF Callback
<1>3. /\ a' = IF kind \in Released THEN a + 1 ELSE a
      /\ b' = IF kind \in Forgotten THEN b + 1 ELSE b
  BY <1>1, PlacesAfterAppend DEF PayInv
<1>4. a \in Nat /\ b \in Nat /\ unreleased = a + b
  BY PlacesAreFinite DEF PayInv
<1>5. /\ HasPayload(kind) <=> kind \in Released \/ kind \in Forgotten
      /\ ~(kind \in Released /\ kind \in Forgotten)
  BY DEF Released, Forgotten
<1>. HIDE DEF a, b
<1>6. unreleased' = a' + b'
  BY <1>2, <1>3, <1>4, <1>5
<1>. QED
  BY <1>1, <1>6 DEF PayInv, a, b

LEMMA RunBlockKeepsPayInv ==
  ASSUME PayInv, NEW i \in Nat, RunBlock(i)
  PROVE  PayInv'
<1>. DEFINE a == Cardinality(Places(queue, Released))
            b == Cardinality(Places(emitted, Forgotten))
<1>1. /\ i \in DOMAIN queue /\ queue' = RemoveAt(queue, i) /\ queue \in Seq(Kinds)
      /\ emitted' = emitted
  BY DEF RunBlock, PayInv
<1>2. queue' \in Seq(Kinds) /\ queue[i] \in Kinds
  BY <1>1, RemoveAtKeeps
<1>3. unreleased' = IF queue[i] \in Released THEN unreleased - 1 ELSE unreleased
  BY <1>2 DEF RunBlock, Releases, Released
<1>4. a' = (IF queue[i] \in Released THEN a - 1 ELSE a) /\ b' = b
  BY <1>1, PlacesAfterRemove
<1>5. a \in Nat /\ b \in Nat /\ unreleased = a + b
  BY PlacesAreFinite DEF PayInv
<1>. HIDE DEF a, b
<1>6. unreleased' = a' + b'
  BY <1>3, <1>4, <1>5
<1>. QED
  BY <1>1, <1>2, <1>6 DEF PayInv, a, b

\* On a serial or a concurrent queue, with any set of handlers: when the blocks
\* of an ended stream have run, all that the ios_on_* functions were given has
\* been released, but for what was bridged for a callback without a handler.
THEOREM PayloadsAreReleased == Spec => []PayloadsReleased
<1>1. Init => PayInv
  <2>1. <<>> \in Seq(Kinds) /\ \A K : Places(<<>>, K) = {}
    BY DEF Places
  <2>2. Cardinality(Places(<<>>, Released)) = 0 /\ Cardinality(Places(<<>>, Forgotten)) = 0
    BY <2>1, FS_EmptySet
  <2>. QED
    BY <2>1, <2>2 DEF Init, PayInv
<1>2. ASSUME PayInv, [Next]_vars PROVE PayInv'
  <2>1. CASE initWithHandle \/ start_stream \/ initReturns
    BY <1>2, <2>1 DEF initWithHandle, start_stream, initReturns, PayInv
  <2>2. CASE NativeStep
    <3>1. \E kind \in Kinds : Callback(kind)
      BY <2>2 DEF NativeStep, ios_on_headers, ios_on_data, ios_on_trailers,
                  ios_on_complete, ios_on_cancel, ios_on_error, Kinds,
                  FrameKinds, TerminalKinds
    <3>. QED
      BY <3>1, <1>2, CallbackKeepsPayInv
  <2>3. CASE cancel \/ Release
    BY <1>2, <2>3 DEF cancel, Release, PayInv
  <2>4. ASSUME NEW i \in 1 .. MaxData + 3, RunBlock(i) PROVE PayInv'
    BY <1>2, <2>4, RunBlockKeepsPayInv, IosAssumption
  <2>5. CASE UNCHANGED vars
    BY <1>2, <2>5 DEF vars, PayInv
  <2>. QED
    BY <1>2, <2>1, <2>2, <2>3, <2>4, <2>5 DEF Next, AppStep
<1>3. ASSUME PayInv PROVE PayloadsReleased
  <2>1. Places(<<>>, Released) = {}
    BY DEF Places
  <2>2. Places(emitted, Forgotten) = Leaked
    BY <1>3 DEF PayInv, Places, Forgotten, Leaked
  <2>3. Cardinality(Leaked) \in Nat
    BY <1>3, <2>2, PlacesAreFinite DEF PayInv
  <2>4. Cardinality(Places(<<>>, Released)) = 0
    BY <2>1, FS_EmptySet
  <2>. QED
    BY <1>3, <2>2, <2>3, <2>4 DEF PayInv, PayloadsReleased
<1>. QED
  BY <1>1, <1>2, <1>3, PTL DEF Spec
-----------------------------------------------------------------------------
(* A serial queue keeps the order *)

\* The blocks that have run are those of the first so many callbacks.
Ran == Len(emitted) - Len(queue)

\* The queue is the rest of what was emitted, and the application has been
\* called for what it can hear of the part before that.
OrderInv ==
  /\ emitted \in Seq(Kinds) /\ queue \in Seq(Kinds) /\ app \in Seq(Kinds)
  /\ Ran \in Nat
  /\ \A j \in 1 .. Len(queue) : queue[j] = emitted[Ran + j]
  /\ Len(app) = Cardinality(Audible(Ran))
  /\ \A i \in Audible(Ran) : app[Cardinality(Audible(i))] = emitted[i]

LEMMA AudibleIsFinite ==
  ASSUME NEW n \in Nat
  PROVE  IsFiniteSet(Audible(n)) /\ Cardinality(Audible(n)) \in Nat
<1>1. IsFiniteSet(1 .. n) /\ Audible(n) \subseteq 1 .. n
  BY FS_Interval DEF Audible
<1>2. IsFiniteSet(Audible(n))
  BY <1>1, FS_Subset
<1>. QED
  BY <1>2, FS_CardinalityType

LEMMA AudibleGrows ==
  ASSUME NEW m \in Nat, NEW n \in Nat, m <= n
  PROVE  /\ Audible(m) \subseteq Audible(n)
         /\ Cardinality(Audible(m)) <= Cardinality(Audible(n))
<1>1. Audible(m) \subseteq Audible(n)
  BY DEF Audible
<1>. QED
  BY <1>1, AudibleIsFinite, FS_Subset

LEMMA AudibleNext ==
  ASSUME NEW n \in Nat
  PROVE  Cardinality(Audible(n + 1)) =
           IF emitted[n + 1] \in Handlers THEN Cardinality(Audible(n)) + 1
           ELSE Cardinality(Audible(n))
<1>1. n + 1 \notin Audible(n)
  BY DEF Audible
<1>2. emitted[n + 1] \in Handlers => Audible(n + 1) = Audible(n) \cup {n + 1}
  BY DEF Audible
<1>3. emitted[n + 1] \notin Handlers => Audible(n + 1) = Audible(n)
  BY DEF Audible
<1>4. Cardinality(Audible(n) \cup {n + 1}) = Cardinality(Audible(n)) + 1
  BY <1>1, AudibleIsFinite, FS_AddElement
<1>. QED
  BY <1>2, <1>3, <1>4

\* A callback adds to the end of what was emitted and of the queue.
LEMMA CallbackKeepsOrderInv ==
  ASSUME OrderInv, NEW kind \in Kinds, Callback(kind)
  PROVE  OrderInv'
<1>. DEFINE n == Len(emitted)  l == Len(queue)
<1>1. /\ emitted' = Append(emitted, kind) /\ queue' = Append(queue, kind) /\ app' = app
      /\ n \in Nat /\ l \in Nat /\ Ran = n - l /\ Ran \in Nat
  BY DEF Callback, dispatch_async, OrderInv, Ran
<1>2. /\ emitted' \in Seq(Kinds) /\ Len(emitted') = n + 1 /\ emitted'[n + 1] = kind
      /\ \A i \in 1 .. n : emitted'[i] = emitted[i]
      /\ queue' \in Seq(Kinds) /\ Len(queue') = l + 1 /\ queue'[l + 1] = kind
      /\ \A i \in 1 .. l : queue'[i] = queue[i]
  BY <1>1 DEF OrderInv
<1>3. Ran' = Ran
  BY <1>1, <1>2 DEF Ran
<1>4. \A j \in 1 .. Len(queue') : queue'[j] = emitted'[Ran + j]
  <2>1. SUFFICES ASSUME NEW j \in 1 .. l + 1 PROVE queue'[j] = emitted'[Ran + j]
    BY <1>2
  <2>2. CASE j \in 1 .. l
    <3>1. Ran + j \in 1 .. n
      BY <1>1, <2>2
    <3>. QED
      BY <1>2, <2>2, <3>1 DEF OrderInv
  <2>3. CASE j = l + 1
    <3>1. Ran + j = n + 1
      BY <1>1, <2>3
    <3>. QED
      BY <1>2, <2>3, <3>1
  <2>. QED
    BY <1>1, <2>2, <2>3
<1>5. \A k \in 0 .. n : Audible(k)' = Audible(k)
  BY <1>1, <1>2 DEF Audible
<1>6. Audible(Ran)' = Audible(Ran)
  <2>1. Ran \in 0 .. n
    BY <1>1
  <2>2. Audible(Ran)' = {i \in 1 .. Ran : emitted'[i] \in Handlers}
    BY <1>3 DEF Audible
  <2>3. \A i \in 1 .. Ran : emitted'[i] = emitted[i]
    BY <1>1, <1>2
  <2>. QED
    BY <2>2, <2>3 DEF Audible
<1>7. ASSUME NEW i \in Audible(Ran)
      PROVE  Audible(i)' = Audible(i) /\ emitted'[i] = emitted[i]
  <2>1. i \in 1 .. Ran /\ i \in 0 .. n
    BY <1>1 DEF Audible
  <2>. QED
    BY <1>1, <1>2, <1>5, <2>1
<1>8. \A i \in Audible(Ran) : app'[Cardinality(Audible(i)')] = emitted'[i]
  BY <1>1, <1>7 DEF OrderInv
<1>9. Len(app') = Cardinality(Audible(Ran)')
  BY <1>1, <1>6 DEF OrderInv
<1>. QED
  BY <1>1, <1>2, <1>3, <1>4, <1>6, <1>8, <1>9 DEF OrderInv

\* The first block of the queue is that of the next callback to be heard.
LEMMA RunBlockKeepsOrderInv ==
  ASSUME OrderInv, RunBlock(1)
  PROVE  OrderInv'
<1>. DEFINE n == Len(emitted)  l == Len(queue)  r == Ran  kind == queue[1]
<1>1. /\ emitted' = emitted /\ queue' = RemoveAt(queue, 1) /\ 1 \in DOMAIN queue
      /\ app' = IF kind \in Handlers THEN Append(app, kind) ELSE app
      /\ n \in Nat /\ l \in Nat /\ l >= 1 /\ r = n - l /\ r \in Nat
  BY DEF RunBlock, OrderInv, Ran
<1>2. /\ queue' \in Seq(Kinds) /\ Len(queue') = l - 1
      /\ \A j \in 1 .. l - 1 : queue'[j] = queue[IF j < 1 THEN j ELSE j + 1]
  <2>1. queue \in Seq(Kinds)
    BY DEF OrderInv
  <2>. DEFINE c == RemoveAt(queue, 1)
  <2>2. /\ c \in Seq(Kinds) /\ Len(c) = l - 1
        /\ \A j \in 1 .. l - 1 : c[j] = queue[IF j < 1 THEN j ELSE j + 1]
    BY <1>1, <2>1, RemoveAtIndex, Zenon
  <2>3. queue' = c
    BY <1>1
  <2>. HIDE DEF c
  <2>. QED
    BY <2>2, <2>3
<1>3. Ran' = r + 1
  <2>1. Ran' = n - Len(queue') /\ Len(queue') = l - 1
    BY <1>1, <1>2 DEF Ran
  <2>. QED
    BY <1>1, <2>1
<1>4. kind = emitted[r + 1] /\ kind \in Kinds
  BY <1>1 DEF OrderInv
<1>5. \A j \in 1 .. l - 1 : queue'[j] = emitted[(r + 1) + j]
  <2>1. SUFFICES ASSUME NEW j \in 1 .. l - 1 PROVE queue'[j] = emitted[(r + 1) + j]
    OBVIOUS
  <2>2. r \in Nat /\ l \in Nat
    BY <1>1
  <2>3. queue'[j] = queue[IF j < 1 THEN j ELSE j + 1]
    BY <1>2, <2>1, Zenon
  <2>4. \A k \in 1 .. l : queue[k] = emitted[r + k]
    BY DEF OrderInv
  <2>. HIDE DEF r, l
  <2>5. /\ (IF j < 1 THEN j ELSE j + 1) = j + 1 /\ j + 1 \in 1 .. l
        /\ r + (j + 1) = (r + 1) + j
    BY <2>1, <2>2
  <2>. QED
    BY <2>3, <2>4, <2>5
<1>. HIDE DEF r
<1>7. Cardinality(Audible(r + 1)) =
        IF kind \in Handlers THEN Len(app) + 1 ELSE Len(app)
  BY <1>1, <1>4, AudibleNext DEF OrderInv, r
<1>8. app' \in Seq(Kinds) /\ Len(app') = Cardinality(Audible(r + 1))
  BY <1>1, <1>4, <1>7 DEF OrderInv
<1>9. ASSUME NEW i \in Audible(r + 1) PROVE app'[Cardinality(Audible(i))] = emitted[i]
  <2>1. i \in 1 .. r + 1 /\ emitted[i] \in Handlers
    BY DEF Audible
  <2>2. CASE i = r + 1
    <3>1. kind \in Handlers /\ Cardinality(Audible(i)) = Len(app) + 1
      BY <1>4, <1>7, <2>1, <2>2
    <3>2. app' = Append(app, kind) /\ app \in Seq(Kinds)
      BY <1>1, <3>1 DEF OrderInv
    <3>3. app'[Len(app) + 1] = kind
      BY <3>2
    <3>. QED
      BY <1>4, <2>2, <3>1, <3>3
  <2>3. CASE i # r + 1
    <3>1. i \in Audible(r) /\ i \in Nat /\ i <= r /\ i >= 1
      BY <1>1, <2>1, <2>3 DEF Audible
    <3>2. app[Cardinality(Audible(i))] = emitted[i]
      BY <3>1 DEF OrderInv, r
    <3>3. Cardinality(Audible(i)) \in Nat /\ Cardinality(Audible(i)) <= Len(app)
      BY <1>1, <3>1, AudibleGrows, AudibleIsFinite DEF OrderInv, r
    <3>4. Cardinality(Audible(i)) # 0
      <4>1. i \in Audible(i)
        BY <2>1, <3>1 DEF Audible
      <4>. QED
        BY <3>1, <4>1, AudibleIsFinite, FS_EmptySet
    <3>5. Cardinality(Audible(i)) \in 1 .. Len(app)
      BY <3>3, <3>4 DEF OrderInv
    <3>6. \A k \in 1 .. Len(app) : app'[k] = app[k]
      BY <1>1 DEF OrderInv
    <3>. QED
      BY <3>2, <3>5, <3>6
  <2>. QED
    BY <2>2, <2>3
<1>10. Audible(Ran)' = Audible(r + 1)
  BY <1>1, <1>3 DEF Audible
<1>11. ASSUME NEW i \in Audible(r + 1) PROVE Audible(i)' = Audible(i)
  BY <1>1 DEF Audible
<1>12. \A i \in Audible(r + 1) : app'[Cardinality(Audible(i)')] = emitted'[i]
  BY <1>1, <1>9, <1>11
<1>13. r + 1 \in Nat /\ emitted' \in Seq(Kinds)
  BY <1>1 DEF OrderInv
<1>. QED
  BY <1>1, <1>2, <1>3, <1>5, <1>8, <1>10, <1>12, <1>13 DEF OrderInv

\* On a serial queue, with any set of handlers, and whatever the application
\* does: it hears the callbacks that native code makes, and in that order.
THEOREM CallbacksAreHeardInOrder ==
  ASSUME Serial
  PROVE  Spec => []AppHearsInOrder
<1>1. Init => OrderInv
  <2>1. Audible(0) = {} /\ <<>> \in Seq(Kinds) /\ Len(<<>>) = 0 /\ 1 .. 0 = {} /\ 0 - 0 = 0
    BY DEF Audible
  <2>2. ASSUME Init PROVE Ran = 0
    BY <2>2 DEF Init, Ran
  <2>3. ASSUME Init
        PROVE  /\ emitted = <<>> /\ queue = <<>> /\ app = <<>>
               /\ Audible(Ran) = {} /\ Cardinality(Audible(Ran)) = 0
    BY <2>1, <2>2, <2>3, FS_EmptySet DEF Init
  <2>. QED
    BY <2>1, <2>2, <2>3 DEF OrderInv
<1>2. ASSUME OrderInv, [Next]_vars PROVE OrderInv'
  <2>0. ASSUME UNCHANGED <<emitted, queue, app>> PROVE OrderInv'
    <3>1. Ran' = Ran /\ \A n : {i \in 1 .. n : emitted'[i] \in Handlers} = Audible(n)
      BY <2>0 DEF Ran, Audible
    <3>2. Audible(Ran)' = Audible(Ran)
      BY <2>0, <3>1 DEF Audible
    <3>3. ASSUME NEW i \in Audible(Ran) PROVE Audible(i)' = Audible(i)
      BY <2>0 DEF Audible
    <3>. QED
      BY <1>2, <2>0, <3>1, <3>2, <3>3 DEF OrderInv
  <2>1. CASE initWithHandle \/ start_stream \/ initReturns
    BY <2>0, <2>1 DEF initWithHandle, start_stream, initReturns
  <2>2. CASE NativeStep
    <3>1. \E kind \in Kinds : Callback(kind)
      BY <2>2 DEF NativeStep, ios_on_headers, ios_on_data, ios_on_trailers,
                  ios_on_complete, ios_on_cancel, ios_on_error, Kinds,
                  FrameKinds, TerminalKinds
    <3>. QED
      BY <3>1, <1>2, CallbackKeepsOrderInv
  <2>3. CASE cancel \/ Release
    BY <2>0, <2>3 DEF cancel, Release
  <2>4. ASSUME NEW i \in 1 .. MaxData + 3, RunBlock(i) PROVE OrderInv'
    <3>1. i = 1
      BY <2>4 DEF RunBlock, Runs
    <3>. QED
      BY <1>2, <2>4, <3>1, RunBlockKeepsOrderInv
  <2>5. CASE UNCHANGED vars
    BY <2>0, <2>5 DEF vars
  <2>. QED
    BY <1>2, <2>1, <2>2, <2>3, <2>4, <2>5 DEF Next, AppStep
<1>3. ASSUME OrderInv PROVE AppHearsInOrder
  <2>. DEFINE n == Len(emitted)
  <2>1. n \in Nat /\ Ran \in Nat /\ Ran <= n
    BY <1>3 DEF OrderInv, Ran
  <2>2. Len(app) <= Cardinality(Audible(n))
    BY <1>3, <2>1, AudibleGrows DEF OrderInv
  <2>3. ASSUME NEW i \in Audible(n), Cardinality(Audible(i)) <= Len(app)
        PROVE  app[Cardinality(Audible(i))] = emitted[i]
    <3>1. i \in Nat /\ i >= 1 /\ emitted[i] \in Handlers /\ i - 1 \in Nat /\ (i - 1) + 1 = i
      BY <2>1 DEF Audible
    <3>2. CASE i <= Ran
      <4>1. i \in Audible(Ran)
        BY <2>1, <3>1, <3>2 DEF Audible
      <4>. QED
        BY <1>3, <4>1 DEF OrderInv
    <3>3. CASE ~(i <= Ran)
      <4>1. Ran <= i - 1
        BY <2>1, <3>1, <3>3
      <4>2. Cardinality(Audible(i)) = Cardinality(Audible(i - 1)) + 1
        BY <3>1, AudibleNext
      <4>3. Cardinality(Audible(Ran)) <= Cardinality(Audible(i - 1))
        BY <2>1, <3>1, <4>1, AudibleGrows
      <4>4. Cardinality(Audible(i - 1)) \in Nat /\ Cardinality(Audible(Ran)) = Len(app)
        BY <1>3, <3>1, AudibleIsFinite DEF OrderInv
      <4>5. Len(app) \in Nat
        BY <1>3 DEF OrderInv
      <4>. QED
        BY <2>3, <4>2, <4>3, <4>4, <4>5
    <3>. QED
      BY <3>2, <3>3
  <2>. QED
    BY <2>2, <2>3 DEF AppHearsInOrder
<1>. QED
  BY <1>1, <1>2, <1>3, PTL DEF Spec
=============================================================================
