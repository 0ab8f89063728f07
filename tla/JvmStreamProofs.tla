--------------------------- MODULE JvmStreamProofs ---------------------------
(***************************************************************************)
(* Theorems about the stream of a JVM application, for all headers and any *)
(* number of frames: the JNI global reference to its JvmCallbackContext    *)
(* lives exactly as long as native code may use it, and headers survive    *)
(* the JNI in both directions.  The second half is about the gRPC layer on *)
(* top of a stream, in Kotlin and in Swift: messages survive being framed, *)
(* sent, cut into chunks and read again.                                   *)
(*                                                                         *)
(* What a loop computes is proved by induction on its counter, in the form *)
(* that a set of natural numbers without a least element is empty.         *)
(***************************************************************************)
EXTENDS JvmStream, GrpcStream, FiniteSetTheorems, FunctionTheorems, NaturalsInduction,
        SequenceTheorems, WellFoundedInduction, TLAPS

\* The inductive invariant: how many references there are is determined by how
\* far the application's thread has come and by the native stream, although
\* each of them deletes the reference on paths of its own.
RefInv ==
  /\ starting \in {"before", "posted", "refused", "returned"}
  /\ native \in {"unstarted", "open", "ended"}
  /\ starting = "before"  => native = "unstarted" /\ refs = 0
  /\ starting = "refused" => native = "unstarted" /\ refs = 1
  /\ starting = "posted"  => native # "unstarted"
  /\ starting \in {"posted", "returned"} => refs = (IF native = "open" THEN 1 ELSE 0)

\* A callback happens on an open stream only, and a terminal one ends it and
\* deletes the one reference.
LEMMA CallbackKeepsRefInv ==
  ASSUME RefInv, Callback
  PROVE  RefInv'
<1>1. CASE \E block \in Blocks : jvm_on_headers(block)
  BY <1>1 DEF RefInv, jvm_on_headers, OnBlock, Emit
<1>2. CASE \E block \in TrailerBlocks : jvm_on_trailers(block)
  BY <1>2 DEF RefInv, jvm_on_trailers, OnBlock, Emit
<1>3. CASE jvm_on_data
  BY <1>3 DEF RefInv, jvm_on_data, Emit
<1>4. CASE jvm_on_error
  BY <1>4 DEF RefInv, jvm_on_error, OnTerminal, Emit, DeleteGlobalRef
<1>5. CASE jvm_on_complete
  BY <1>5 DEF RefInv, jvm_on_complete, OnTerminal, Emit, DeleteGlobalRef
<1>6. CASE jvm_on_cancel
  BY <1>6 DEF RefInv, jvm_on_cancel, OnTerminal, Emit, DeleteGlobalRef
<1>. QED
  BY <1>1, <1>2, <1>3, <1>4, <1>5, <1>6 DEF Callback

\* Of the application's steps, only those of startStream touch the reference.
LEMMA ApplicationKeepsRefInv ==
  ASSUME RefInv, Application
  PROVE  RefInv'
<1>1. CASE startStream
  BY <1>1 DEF RefInv, startStream
<1>2. CASE startStreamReturns
  BY <1>2 DEF RefInv, startStreamReturns, DeletesIfRefused
<1>3. CASE RunTask
  BY <1>3 DEF RefInv, RunTask
<1>4. CASE cancel
  BY <1>4 DEF RefInv, cancel
<1>5. CASE \E headers \in Requests, order \in Orders : sendHeaders(headers, order)
  BY <1>5 DEF RefInv, sendHeaders
<1>. QED
  BY <1>1, <1>2, <1>3, <1>4, <1>5 DEF Application

\* RefInv holds in every reachable state.
THEOREM RefInvIsInvariant == Spec => []RefInv
<1>1. Init => RefInv
  BY DEF Init, RefInv
<1>2. RefInv /\ [Next]_vars => RefInv'
  <2>1. ASSUME RefInv, UNCHANGED vars PROVE RefInv'
    BY <2>1 DEF RefInv, vars
  <2>. QED
    BY <2>1, CallbackKeepsRefInv, ApplicationKeepsRefInv DEF Next
<1>. QED
  BY <1>1, <1>2, PTL DEF Spec

\* Whatever the headers and the bounds, and whichever of the two threads is
\* faster: the reference is there while native code may use it and gone when
\* both are done (startStream of jni_interface.cc and the jvm_on_* functions).
THEOREM RefIsBalanced == Spec => []RefLivesAsLongAsTheStream
<1>1. RefInv => RefLivesAsLongAsTheStream
  BY DEF RefInv, RefLivesAsLongAsTheStream
<1>. QED
  BY <1>1, RefInvIsInvariant, PTL
-----------------------------------------------------------------------------
(* The values of a name in a block *)

LEMMA LeastElement ==
  ASSUME NEW T, T \subseteq Nat, T # {}
  PROVE  \E n \in T : \A m \in T : ~(m < n)
<1>1. PICK n \in T : \A m \in T : ~(<<m, n>> \in OpToRel(<, Nat))
  BY NatLessThanWellFounded, WFMin
<1>. QED
  BY <1>1 DEF OpToRel

LEMMA AtIsFinite ==
  ASSUME NEW block, NEW k, NEW n \in Nat
  PROVE  IsFiniteSet(At(block, k, n)) /\ Cardinality(At(block, k, n)) \in Nat
<1>1. IsFiniteSet(1 .. n) /\ At(block, k, n) \subseteq 1 .. n
  BY FS_Interval DEF At
<1>2. IsFiniteSet(At(block, k, n))
  BY <1>1, FS_Subset
<1>. QED
  BY <1>2, FS_CardinalityType

\* Every pair has its place among the pairs of its name.
LEMMA AtPlace ==
  ASSUME NEW block, NEW k, NEW n \in Nat, NEW i \in At(block, k, n)
  PROVE  Cardinality(At(block, k, i)) \in 1 .. Cardinality(At(block, k, n))
<1>1. i \in Nat /\ i \in At(block, k, i) /\ At(block, k, i) \subseteq At(block, k, n)
  BY DEF At
<1>2. /\ IsFiniteSet(At(block, k, i)) /\ Cardinality(At(block, k, i)) \in Nat
      /\ IsFiniteSet(At(block, k, n)) /\ Cardinality(At(block, k, n)) \in Nat
  BY <1>1, AtIsFinite
<1>3. Cardinality(At(block, k, i)) <= Cardinality(At(block, k, n))
  BY <1>1, <1>2, FS_Subset
<1>4. Cardinality(At(block, k, i)) # 0
  BY <1>1, <1>2, FS_EmptySet
<1>. QED
  BY <1>2, <1>3, <1>4

LEMMA CarriesNothing ==
  ASSUME NEW block, NEW k
  PROVE  Carries(<<>>, block, k, 0)
<1>1. At(block, k, 0) = {} /\ Len(<<>>) = 0
  BY DEF At
<1>. QED
  BY <1>1, FS_EmptySet DEF Carries

\* One more pair: its value is added to those of its name.
LEMMA CarriesNext ==
  ASSUME NEW values \in Seq(Values), NEW block, NEW k, NEW n \in Nat,
         Carries(values, block, k, n), block[n + 1].value \in Values
  PROVE  Carries(IF block[n + 1].key = k THEN Append(values, block[n + 1].value) ELSE values,
                 block, k, n + 1)
<1>. DEFINE v == block[n + 1].value  more == Append(values, v)
<1>1. CASE block[n + 1].key # k
  <2>1. At(block, k, n + 1) = At(block, k, n)
    BY <1>1 DEF At
  <2>. QED
    BY <1>1, <2>1 DEF Carries
<1>2. CASE block[n + 1].key = k
  <2>1. At(block, k, n + 1) = At(block, k, n) \cup {n + 1} /\ n + 1 \notin At(block, k, n)
    BY <1>2 DEF At
  <2>2. Cardinality(At(block, k, n + 1)) = Cardinality(At(block, k, n)) + 1
    BY <2>1, AtIsFinite, FS_AddElement
  <2>3. /\ Len(more) = Len(values) + 1 /\ more[Len(values) + 1] = v
        /\ \A i \in 1 .. Len(values) : more[i] = values[i]
    OBVIOUS
  <2>. HIDE DEF more, v
  <2>4. Len(values) = Cardinality(At(block, k, n))
    BY DEF Carries
  <2>5. ASSUME NEW i \in At(block, k, n)
        PROVE  more[Cardinality(At(block, k, i))] = block[i].value
    <3>1. Cardinality(At(block, k, i)) \in 1 .. Len(values)
      BY <2>4, AtPlace
    <3>. QED
      BY <2>3, <3>1 DEF Carries
  <2>6. more[Cardinality(At(block, k, n + 1))] = block[n + 1].value
    BY <2>2, <2>3, <2>4 DEF v
  <2>7. Carries(more, block, k, n + 1)
    BY <2>1, <2>2, <2>3, <2>4, <2>5, <2>6 DEF Carries
  <2>. QED
    BY <1>2, <2>7 DEF more, v
<1>. QED
  BY <1>1, <1>2

LEMMA ConcatParts ==
  ASSUME NEW a \in Seq(Pairs), NEW b \in Seq(Pairs)
  PROVE  /\ Len(a) \in Nat /\ Len(b) \in Nat /\ a \o b \in Seq(Pairs)
         /\ Len(a \o b) = Len(a) + Len(b)
         /\ \A i \in 1 .. Len(a) : (a \o b)[i] = a[i]
         /\ \A i \in 1 .. Len(b) : (a \o b)[Len(a) + i] = b[i]
OBVIOUS

\* Pairs of other names behind a block change nothing.
LEMMA CarriesMore ==
  ASSUME NEW a \in Seq(Pairs), NEW b \in Seq(Pairs), NEW k, NEW values,
         \A i \in 1 .. Len(b) : b[i].key # k
  PROVE  Carries(values, a, k, Len(a)) => Carries(values, a \o b, k, Len(a \o b))
<1>. DEFINE c == a \o b
<1>1. /\ Len(a) \in Nat /\ Len(b) \in Nat /\ Len(c) = Len(a) + Len(b)
      /\ \A i \in 1 .. Len(a) : c[i] = a[i]
      /\ \A i \in 1 .. Len(b) : c[Len(a) + i] = b[i]
  BY ConcatParts
<1>. HIDE DEF c
<1>2. ASSUME NEW i \in 1 .. Len(c), c[i].key = k PROVE i \in 1 .. Len(a)
  <2>1. SUFFICES ASSUME i \notin 1 .. Len(a) PROVE FALSE
    OBVIOUS
  <2>2. i - Len(a) \in 1 .. Len(b) /\ Len(a) + (i - Len(a)) = i
    BY <1>1, <2>1
  <2>3. c[i] = b[i - Len(a)]
    BY <1>1, <2>2
  <2>. QED
    BY <1>2, <2>2, <2>3
<1>3. At(c, k, Len(c)) = At(a, k, Len(a))
  BY <1>1, <1>2 DEF At
<1>4. ASSUME NEW i \in At(a, k, Len(a)) PROVE At(c, k, i) = At(a, k, i) /\ c[i] = a[i]
  BY <1>1 DEF At
<1>. QED
  BY <1>3, <1>4 DEF Carries, c

\* The pairs of a name behind a block without it: they carry its values.
LEMMA CarriesPairs ==
  ASSUME NEW a \in Seq(Pairs), NEW headers \in [Keys -> Seq(Values)], NEW k \in Keys,
         At(a, k, Len(a)) = {}
  PROVE  /\ PairsOf(headers, k) \in Seq(Pairs)
         /\ \A i \in 1 .. Len(PairsOf(headers, k)) : PairsOf(headers, k)[i].key = k
         /\ Carries(headers[k], a \o PairsOf(headers, k), k, Len(a \o PairsOf(headers, k)))
<1>. DEFINE v == headers[k]  b == PairsOf(headers, k)  c == a \o b
            n == Len(a)
<1>1. v \in Seq(Values) /\ Len(v) \in Nat /\ DOMAIN v = 1 .. Len(v)
  OBVIOUS
<1>2. b = [i \in 1 .. Len(v) |-> [key |-> k, value |-> v[i]]]
  BY <1>1 DEF PairsOf
<1>3. \A i \in 1 .. Len(v) : v[i] \in Values /\ [key |-> k, value |-> v[i]] \in Pairs
  BY <1>1 DEF Pairs
<1>4. b \in Seq(Pairs) /\ Len(b) = Len(v)
  <2>1. b \in [1 .. Len(v) -> Pairs]
    BY <1>2, <1>3
  <2>. HIDE DEF b
  <2>. QED
    BY <1>1, <2>1
<1>5. \A i \in 1 .. Len(v) : b[i].key = k /\ b[i].value = v[i]
  BY <1>2
<1>. HIDE DEF b, v
<1>6. /\ n \in Nat /\ Len(c) = n + Len(v)
      /\ \A i \in 1 .. n : c[i] = a[i]
      /\ \A i \in 1 .. Len(v) : c[n + i] = b[i]
  <2>1. /\ n \in Nat /\ Len(c) = n + Len(b)
        /\ \A i \in 1 .. n : c[i] = a[i]
        /\ \A i \in 1 .. Len(b) : c[n + i] = b[i]
    BY <1>4, ConcatParts
  <2>. QED
    BY <1>4, <2>1
<1>. HIDE DEF c
<1>7. \A i \in 1 .. n : c[i].key # k
  BY <1>6 DEF At
<1>8. ASSUME NEW m \in 0 .. Len(v) PROVE At(c, k, n + m) = n + 1 .. n + m
  <2>1. ASSUME NEW i \in n + 1 .. n + m PROVE c[i].key = k
    <3>1. i - n \in 1 .. Len(v) /\ n + (i - n) = i
      BY <1>1, <1>6
    <3>. QED
      BY <1>5, <1>6, <3>1
  <2>2. \A i \in 1 .. n + m : i \in 1 .. n \/ i \in n + 1 .. n + m
    BY <1>1, <1>6
  <2>3. \A i \in n + 1 .. n + m : i \in 1 .. n + m
    BY <1>1, <1>6
  <2>. QED
    BY <1>7, <2>1, <2>2, <2>3 DEF At
<1>9. ASSUME NEW m \in 0 .. Len(v) PROVE Cardinality(At(c, k, n + m)) = m
  BY <1>1, <1>6, <1>8, FS_Interval
<1>10. Len(v) = Cardinality(At(c, k, Len(c)))
  BY <1>1, <1>6, <1>9
<1>11. ASSUME NEW i \in At(c, k, Len(c)) PROVE v[Cardinality(At(c, k, i))] = c[i].value
  <2>1. i \in n + 1 .. n + Len(v)
    BY <1>1, <1>6, <1>8
  <2>2. i - n \in 1 .. Len(v) /\ i - n \in 0 .. Len(v) /\ n + (i - n) = i
    BY <1>1, <1>6, <2>1
  <2>3. Cardinality(At(c, k, i)) = i - n
    BY <1>9, <2>2
  <2>. QED
    BY <1>5, <1>6, <2>2, <2>3
<1>12. Carries(v, c, k, Len(c))
  BY <1>10, <1>11 DEF Carries
<1>. QED
  BY <1>4, <1>5, <1>12 DEF c, v, b
-----------------------------------------------------------------------------
(* toJniHeaders, for the headers that the application sends *)

\* added[j] of toJniHeaders, for j up to n.
AddsUpTo(f, n, headers, order) ==
  /\ f = [j \in 0 .. n |-> f[j]]
  /\ f[0] = <<>>
  /\ \A j \in 1 .. n : f[j] = f[j - 1] \o PairsOf(headers, order[j])

LEMMA AddsExist ==
  ASSUME NEW headers, NEW order, NEW n \in Nat
  PROVE  \E f : AddsUpTo(f, n, headers, order)
<1>. DEFINE T == {m \in Nat : ~ \E f : AddsUpTo(f, m, headers, order)}
<1>1. SUFFICES ASSUME T # {} PROVE FALSE
  OBVIOUS
<1>2. PICK m \in T : \A l \in T : ~(l < m)
  BY <1>1, LeastElement
<1>3. CASE m = 0
  <2>1. AddsUpTo([j \in 0 .. 0 |-> <<>>], 0, headers, order)
    BY DEF AddsUpTo
  <2>. QED
    BY <1>2, <1>3, <2>1
<1>4. CASE m # 0
  <2>1. m \in Nat /\ m - 1 \in Nat /\ m - 1 < m
    BY <1>2, <1>4
  <2>2. PICK f : AddsUpTo(f, m - 1, headers, order)
    BY <1>2, <2>1
  <2>. DEFINE last == f[m - 1] \o PairsOf(headers, order[m])
              g == [j \in 0 .. m |-> IF j = m THEN last ELSE f[j]]
  <2>3. g[0] = <<>> /\ g = [j \in 0 .. m |-> g[j]]
    BY <1>4, <2>1, <2>2 DEF AddsUpTo
  <2>4. ASSUME NEW j \in 1 .. m PROVE g[j] = g[j - 1] \o PairsOf(headers, order[j])
    <3>1. j - 1 \in 0 .. m /\ j - 1 # m /\ j \in 0 .. m
      BY <2>1
    <3>2. g[j - 1] = f[j - 1]
      BY <3>1
    <3>3. CASE j = m
      BY <3>1, <3>2, <3>3
    <3>4. CASE j # m
      <4>1. j \in 1 .. m - 1
        BY <2>1, <3>4
      <4>2. f[j] = f[j - 1] \o PairsOf(headers, order[j])
        BY <2>2, <4>1 DEF AddsUpTo
      <4>3. g[j] = f[j]
        BY <3>1, <3>4
      <4>. QED
        BY <3>2, <4>2, <4>3
    <3>. QED
      BY <3>3, <3>4
  <2>. HIDE DEF g
  <2>5. AddsUpTo(g, m, headers, order)
    BY <2>3, <2>4 DEF AddsUpTo
  <2>. QED
    BY <1>2, <2>5
<1>. QED
  BY <1>3, <1>4

LEMMA AddsLoop ==
  ASSUME NEW headers, NEW order, NEW n \in Nat, Len(order) = n
  PROVE  \E f : AddsUpTo(f, n, headers, order) /\ toJniHeaders(headers, order) = f[n]
<1>. DEFINE Loop(g) == g = [j \in 0 .. n |->
              IF j = 0 THEN <<>> ELSE g[j - 1] \o PairsOf(headers, order[j])]
            added == CHOOSE g : Loop(g)
<1>1. PICK f : AddsUpTo(f, n, headers, order)
  BY AddsExist
<1>2. Loop(f)
  BY <1>1 DEF AddsUpTo
<1>3. toJniHeaders(headers, order) = added[n]
  BY DEF toJniHeaders
<1>. HIDE DEF Loop
<1>4. Loop(added)
  BY <1>2, Zenon
<1>. HIDE DEF added
<1>5. AddsUpTo(added, n, headers, order)
  <2>. DEFINE Step(x, j) == x \o PairsOf(headers, order[j])
  <2>1. added = [j \in 0 .. n |-> IF j = 0 THEN <<>> ELSE Step(added[j - 1], j)]
    BY <1>4 DEF Loop
  <2>. HIDE DEF Step
  <2>2. /\ added = [j \in 0 .. n |-> added[j]]
        /\ added[0] = <<>>
        /\ \A j \in 1 .. n : added[j] = Step(added[j - 1], j)
    BY <2>1
  <2>. QED
    BY <2>2 DEF AddsUpTo, Step
<1>. QED
  BY <1>3, <1>5

\* The names that come first in the order, and nothing of the others.
AddedFirst(block, j, headers, order) ==
  /\ block \in Seq(Pairs)
  /\ \A k \in Keys :
       Carries(IF \E m \in 1 .. j : order[m] = k THEN headers[k] ELSE <<>>,
               block, k, Len(block))

LEMMA AddedStep ==
  ASSUME NEW headers \in [Keys -> Seq(Values)], NEW n \in Nat, NEW order \in [1 .. n -> Keys],
         \A i, m \in 1 .. n : order[i] = order[m] => i = m,
         NEW j \in 1 .. n, NEW a, AddedFirst(a, j - 1, headers, order)
  PROVE  AddedFirst(a \o PairsOf(headers, order[j]), j, headers, order)
<1>. DEFINE k0 == order[j]  b == PairsOf(headers, k0)  c == a \o b
            Before(k) == \E m \in 1 .. j - 1 : order[m] = k
<1>1. k0 \in Keys /\ a \in Seq(Pairs) /\ ~Before(k0)
  BY DEF AddedFirst
<1>2. At(a, k0, Len(a)) = {}
  <2>1. Carries(<<>>, a, k0, Len(a))
    BY <1>1 DEF AddedFirst
  <2>2. Cardinality(At(a, k0, Len(a))) = 0
    BY <2>1 DEF Carries
  <2>. QED
    BY <1>1, <2>2, AtIsFinite, FS_EmptySet
<1>3. /\ b \in Seq(Pairs)
      /\ \A i \in 1 .. Len(b) : b[i].key = k0
      /\ Carries(headers[k0], c, k0, Len(c))
  BY <1>1, <1>2, CarriesPairs
<1>4. c \in Seq(Pairs)
  BY <1>1, <1>3, ConcatParts
<1>. HIDE DEF b, k0
<1>5. ASSUME NEW k \in Keys
      PROVE  Carries(IF \E m \in 1 .. j : order[m] = k THEN headers[k] ELSE <<>>, c, k, Len(c))
  <2>1. (\E m \in 1 .. j : order[m] = k) <=> Before(k) \/ k = k0
    BY DEF k0
  <2>2. CASE k = k0
    BY <1>3, <2>1, <2>2
  <2>3. CASE k # k0
    <3>1. Carries(IF Before(k) THEN headers[k] ELSE <<>>, a, k, Len(a))
      BY DEF AddedFirst
    <3>2. Carries(IF Before(k) THEN headers[k] ELSE <<>>, c, k, Len(c))
      BY <1>1, <1>3, <2>3, <3>1, CarriesMore
    <3>. QED
      BY <2>1, <2>3, <3>2
  <2>. QED
    BY <2>2, <2>3
<1>. QED
  BY <1>4, <1>5 DEF AddedFirst, b, k0

\* Whatever the order of the keys, the block has all values of the map.
LEMMA JniHeadersGroup ==
  ASSUME NEW headers \in [Keys -> Seq(Values)], NEW order \in Orders
  PROVE  Groups(headers, toJniHeaders(headers, order))
<1>. DEFINE n == Cardinality(Keys)
<1>1. n \in Nat /\ IsFiniteSet(Keys)
  BY JvmAssumption, FS_CardinalityType
<1>2. order \in [1 .. n -> Keys] /\ \A k \in Keys : \E m \in 1 .. n : order[m] = k
  BY DEF Orders, Range
<1>3. \A i, m \in 1 .. n : order[i] = order[m] => i = m
  <2>1. order \in Surjection(1 .. n, Keys)
    BY <1>2, Fun_IsSurj
  <2>2. IsFiniteSet(1 .. n) /\ Cardinality(1 .. n) = n
    BY <1>1, FS_Interval
  <2>3. order \in Injection(1 .. n, Keys)
    BY <1>1, <2>1, <2>2, FS_SurjSameCardinalityImpliesInj
  <2>. QED
    BY <2>3 DEF Injection, IsInjective
<1>4. Len(order) = n
  BY <1>1, <1>2
<1>5. PICK f : AddsUpTo(f, n, headers, order) /\ toJniHeaders(headers, order) = f[n]
  BY <1>1, <1>4, AddsLoop
<1>6. \A j \in 0 .. n : AddedFirst(f[j], j, headers, order)
  <2>. DEFINE T == {j \in 0 .. n : ~AddedFirst(f[j], j, headers, order)}
  <2>1. SUFFICES ASSUME T # {} PROVE FALSE
    OBVIOUS
  <2>2. PICK j \in T : \A l \in T : ~(l < j)
    <3>1. T \subseteq Nat
      OBVIOUS
    <3>. HIDE DEF T
    <3>. QED
      BY <2>1, <3>1, LeastElement
  <2>3. CASE j = 0
    <3>1. f[0] = <<>> /\ <<>> \in Seq(Pairs) /\ Len(<<>>) = 0
      BY <1>5 DEF AddsUpTo
    <3>2. \A k \in Keys : ~ \E m \in 1 .. 0 : order[m] = k
      OBVIOUS
    <3>3. AddedFirst(<<>>, 0, headers, order)
      BY <3>1, <3>2, CarriesNothing DEF AddedFirst
    <3>. QED
      BY <2>2, <2>3, <3>1, <3>3
  <2>4. CASE j # 0
    <3>1. j \in 1 .. n /\ j - 1 \in 0 .. n /\ j - 1 < j
      BY <1>1, <2>2, <2>4
    <3>2. AddedFirst(f[j - 1], j - 1, headers, order)
      BY <2>2, <3>1
    <3>3. f[j] = f[j - 1] \o PairsOf(headers, order[j])
      BY <1>5, <3>1 DEF AddsUpTo
    <3>. DEFINE a == f[j - 1]
    <3>. HIDE DEF a
    <3>4. AddedFirst(a, j - 1, headers, order)
      BY <3>2 DEF a
    <3>5. AddedFirst(a \o PairsOf(headers, order[j]), j, headers, order)
      BY <1>1, <1>2, <1>3, <3>1, <3>4, AddedStep
    <3>6. AddedFirst(f[j], j, headers, order)
      BY <3>3, <3>5 DEF a
    <3>. QED
      BY <2>2, <3>6
  <2>. QED
    BY <2>3, <2>4
<1>7. AddedFirst(f[n], n, headers, order)
  BY <1>1, <1>6
<1>. QED
  BY <1>2, <1>5, <1>7 DEF AddedFirst, Groups

\* sendHeaders, toJniHeaders and to_native_headers: the block that native code
\* is given has, for every name, the values of the application's map in their
\* order, whatever the order in which the map gives its keys.
THEOREM RequestHeadersSurvive == Spec => []HeadersSurviveTheBridge
<1>. DEFINE Inv == \A i \in DOMAIN request : Groups(request[i].map, request[i].block)
<1>1. Init => Inv
  BY DEF Init
<1>2. ASSUME Inv, [Next]_vars PROVE Inv'
  <2>1. CASE request' = request
    BY <1>2, <2>1
  <2>2. ASSUME NEW headers \in Requests, NEW order \in Orders, sendHeaders(headers, order)
        PROVE  Inv'
    <3>1. headers \in [Keys -> Seq(Values)]
      BY JvmAssumption
    <3>2. Groups(headers, toJniHeaders(headers, order))
      BY <3>1, JniHeadersGroup
    <3>3. request' = <<[map |-> headers, block |-> toJniHeaders(headers, order)]>>
      BY <2>2 DEF sendHeaders
    <3>. QED
      BY <3>2, <3>3 DEF Groups
  <2>3. Callback => request' = request
    BY DEF Callback, jvm_on_headers, jvm_on_trailers, OnBlock, jvm_on_data, jvm_on_error,
           jvm_on_complete, jvm_on_cancel, OnTerminal, Emit
  <2>4. startStream \/ startStreamReturns \/ RunTask \/ cancel => request' = request
    BY DEF startStream, startStreamReturns, RunTask, cancel
  <2>5. UNCHANGED vars => request' = request
    BY DEF vars
  <2>. HIDE DEF Inv
  <2>. QED
    BY <1>2, <2>1, <2>2, <2>3, <2>4, <2>5 DEF Next, Application
<1>3. Inv => HeadersSurviveTheBridge
  BY DEF HeadersSurviveTheBridge
<1>. HIDE DEF Inv
<1>. QED
  BY <1>1, <1>2, <1>3, PTL DEF Spec
-----------------------------------------------------------------------------
(* pass_headers, for the headers and trailers of the response *)

\* passed[i] of pass_headers, for i up to n.
PassesUpTo(f, n, b, block) ==
  /\ f = [i \in 0 .. n |-> f[i]]
  /\ f[0] = b
  /\ \A i \in 1 .. n : f[i] = passHeader(f[i - 1], block[i], i = 1)

LEMMA PassesExist ==
  ASSUME NEW b, NEW block, NEW n \in Nat
  PROVE  \E f : PassesUpTo(f, n, b, block)
<1>. DEFINE T == {m \in Nat : ~ \E f : PassesUpTo(f, m, b, block)}
<1>1. SUFFICES ASSUME T # {} PROVE FALSE
  OBVIOUS
<1>2. PICK m \in T : \A l \in T : ~(l < m)
  BY <1>1, LeastElement
<1>3. CASE m = 0
  <2>1. PassesUpTo([i \in 0 .. 0 |-> b], 0, b, block)
    BY DEF PassesUpTo
  <2>. QED
    BY <1>2, <1>3, <2>1
<1>4. CASE m # 0
  <2>1. m \in Nat /\ m - 1 \in Nat /\ m - 1 < m
    BY <1>2, <1>4
  <2>2. PICK f : PassesUpTo(f, m - 1, b, block)
    BY <1>2, <2>1
  <2>. DEFINE last == passHeader(f[m - 1], block[m], m = 1)
              g == [i \in 0 .. m |-> IF i = m THEN last ELSE f[i]]
  <2>3. g[0] = b /\ g = [i \in 0 .. m |-> g[i]]
    BY <1>4, <2>1, <2>2 DEF PassesUpTo
  <2>4. ASSUME NEW i \in 1 .. m PROVE g[i] = passHeader(g[i - 1], block[i], i = 1)
    <3>1. i - 1 \in 0 .. m /\ i - 1 # m /\ i \in 0 .. m
      BY <2>1
    <3>2. g[i - 1] = f[i - 1]
      BY <3>1
    <3>3. CASE i = m
      BY <3>1, <3>2, <3>3
    <3>4. CASE i # m
      <4>1. i \in 1 .. m - 1
        BY <2>1, <3>4
      <4>2. f[i] = passHeader(f[i - 1], block[i], i = 1)
        BY <2>2, <4>1 DEF PassesUpTo
      <4>3. g[i] = f[i]
        BY <3>1, <3>4
      <4>. QED
        BY <3>2, <4>2, <4>3
    <3>. QED
      BY <3>3, <3>4
  <2>. HIDE DEF g
  <2>5. PassesUpTo(g, m, b, block)
    BY <2>3, <2>4 DEF PassesUpTo
  <2>. QED
    BY <1>2, <2>5
<1>. QED
  BY <1>3, <1>4

LEMMA PassesLoop ==
  ASSUME NEW b, NEW block, NEW n \in Nat, Len(block) = n
  PROVE  \E f : PassesUpTo(f, n, b, block) /\ pass_headers(b, block) = f[n]
<1>. DEFINE Step(x, i) == passHeader(x, block[i], i = 1)
            Loop(g) == g = [i \in 0 .. n |-> IF i = 0 THEN b ELSE Step(g[i - 1], i)]
            passed == CHOOSE g : Loop(g)
<1>1. PICK f : PassesUpTo(f, n, b, block)
  BY PassesExist
<1>2. pass_headers(b, block) = passed[n]
  BY DEF pass_headers
<1>3. /\ f = [i \in 0 .. n |-> f[i]] /\ f[0] = b
      /\ \A i \in 1 .. n : f[i] = Step(f[i - 1], i)
  BY <1>1 DEF PassesUpTo
<1>. HIDE DEF Step
<1>4. Loop(f)
  <2>1. \A i \in 0 .. n : f[i] = IF i = 0 THEN b ELSE Step(f[i - 1], i)
    BY <1>3
  <2>. QED
    BY <1>3, <2>1
<1>. HIDE DEF Loop
<1>5. Loop(passed)
  BY <1>4, Zenon
<1>. HIDE DEF passed
<1>6. /\ passed = [i \in 0 .. n |-> passed[i]] /\ passed[0] = b
      /\ \A i \in 1 .. n : passed[i] = Step(passed[i - 1], i)
  BY <1>5 DEF Loop
<1>7. PassesUpTo(passed, n, b, block)
  BY <1>6 DEF PassesUpTo, Step
<1>. QED
  BY <1>2, <1>7

\* JvmBridgeUtility between two blocks, and after the first n pairs of one.
Quiet == [present |-> FALSE, map |-> NoHeaders, count |-> 0, ok |-> TRUE]

Half(x, block, n) ==
  /\ x = [present |-> n > 0, map |-> x.map, count |-> n, ok |-> TRUE]
  /\ x.map \in [Keys -> Seq(Values)]
  /\ \A k \in Keys : Carries(x.map[k], block, k, n)

LEMMA QuietIsHalf ==
  ASSUME NEW block
  PROVE  Half(Quiet, block, 0) /\ NoHeaders \in [Keys -> Seq(Values)]
<1>1. NoHeaders \in [Keys -> Seq(Values)] /\ \A k \in Keys : NoHeaders[k] = <<>>
  BY DEF NoHeaders
<1>2. \A k \in Keys : Carries(NoHeaders[k], block, k, 0)
  BY <1>1, CarriesNothing
<1>3. Quiet.map = NoHeaders /\ (0 > 0) = FALSE
  BY DEF Quiet
<1>4. Quiet = [present |-> 0 > 0, map |-> Quiet.map, count |-> 0, ok |-> TRUE]
  BY <1>3 DEF Quiet
<1>. QED
  BY <1>1, <1>2, <1>3, <1>4 DEF Half

LEMMA PassHeaderStep ==
  ASSUME NEW block \in Seq(Pairs), NEW i \in 1 .. Len(block), NEW x, Half(x, block, i - 1)
  PROVE  Half(passHeader(x, block[i], i = 1), block, i)
<1>. DEFINE pair == block[i]
            map == IF i = 1 THEN NoHeaders ELSE x.map
            new == [map EXCEPT ![pair.key] = Append(@, pair.value)]
            y == passHeader(x, pair, i = 1)
<1>1. pair \in Pairs
  OBVIOUS
<1>2. pair.key \in Keys /\ pair.value \in Values /\ i - 1 \in Nat /\ (i - 1) + 1 = i
  BY <1>1 DEF Pairs
<1>3. map \in [Keys -> Seq(Values)] /\ \A k \in Keys : Carries(map[k], block, k, i - 1)
  <2>1. CASE i = 1
    <3>1. Quiet.map = NoHeaders
      BY DEF Quiet
    <3>2. \A k \in Keys : Carries(NoHeaders[k], block, k, 0)
      BY <3>1, QuietIsHalf DEF Half
    <3>. QED
      BY <2>1, <3>2, QuietIsHalf
  <2>2. CASE i # 1
    BY <2>2 DEF Half
  <2>. QED
    BY <2>1, <2>2
<1>4. x.present = (i - 1 > 0) /\ x.count = i - 1 /\ x.ok = TRUE
  <2>. DEFINE m == x.map
  <2>1. x = [present |-> i - 1 > 0, map |-> m, count |-> i - 1, ok |-> TRUE]
    BY DEF Half
  <2>. HIDE DEF m
  <2>. QED
    BY <2>1
<1>5. y = [present |-> TRUE, map |-> new, count |-> x.count + 1,
           ok |-> x.ok /\ (IF i = 1 THEN ~x.present /\ x.count = 0 ELSE x.present)]
  BY DEF passHeader, AddsValue
<1>. HIDE DEF map
<1>6. new \in [Keys -> Seq(Values)] /\ \A k \in Keys : Carries(new[k], block, k, i)
  <2>1. new \in [Keys -> Seq(Values)]
    BY <1>2, <1>3
  <2>2. ASSUME NEW k \in Keys PROVE Carries(new[k], block, k, i)
    <3>1. new[k] = IF pair.key = k THEN Append(map[k], pair.value) ELSE map[k]
      BY <1>2, <1>3
    <3>2. map[k] \in Seq(Values) /\ Carries(map[k], block, k, i - 1)
      BY <1>3
    <3>. QED
      BY <1>2, <3>1, <3>2, CarriesNext
  <2>. QED
    BY <2>1, <2>2
<1>. HIDE DEF new, pair, y
<1>7. (x.ok /\ (IF i = 1 THEN ~x.present /\ x.count = 0 ELSE x.present)) = TRUE
  <2>1. CASE i = 1
    <3>1. (i - 1 > 0) = FALSE /\ i - 1 = 0
      BY <2>1
    <3>2. x.present = FALSE /\ x.count = 0 /\ x.ok = TRUE
      BY <1>4, <3>1, Zenon
    <3>. QED
      BY <2>1, <3>2, Zenon
  <2>2. CASE i # 1
    <3>1. (i - 1 > 0) = TRUE
      BY <1>2, <2>2
    <3>2. x.present = TRUE /\ x.ok = TRUE
      BY <1>4, <3>1, Zenon
    <3>. QED
      BY <2>2, <3>2, Zenon
  <2>. QED
    BY <2>1, <2>2
<1>8. x.count + 1 = i /\ (i > 0) = TRUE
  BY <1>4
<1>9. y = [present |-> TRUE, map |-> new, count |-> i, ok |-> TRUE]
  BY <1>5, <1>7, <1>8
<1>10. y.map = new
  BY <1>9
<1>11. y = [present |-> i > 0, map |-> y.map, count |-> i, ok |-> TRUE]
  BY <1>8, <1>9, <1>10
<1>12. Half(y, block, i)
  BY <1>6, <1>10, <1>11 DEF Half
<1>. QED
  BY <1>12 DEF y, pair

\* Whatever its pairs, a block comes out as the map of its names to their
\* values, and the assertions about it hold.
LEMMA PassedHeadersGroup ==
  ASSUME NEW block \in Seq(Pairs)
  PROVE  LET b == pass_headers(Quiet, block) IN
         /\ b.ok /\ b.count = Len(block) /\ b.present \in BOOLEAN
         /\ b.map \in [Keys -> Seq(Values)] /\ Groups(b.map, block)
         /\ Retrieved(b) = Quiet
<1>. DEFINE n == Len(block)
<1>1. n \in Nat
  OBVIOUS
<1>2. PICK f : PassesUpTo(f, n, Quiet, block) /\ pass_headers(Quiet, block) = f[n]
  BY <1>1, PassesLoop
<1>3. \A i \in 0 .. n : Half(f[i], block, i)
  <2>. DEFINE T == {i \in 0 .. n : ~Half(f[i], block, i)}
  <2>1. SUFFICES ASSUME T # {} PROVE FALSE
    OBVIOUS
  <2>2. PICK i \in T : \A l \in T : ~(l < i)
    <3>1. T \subseteq Nat
      OBVIOUS
    <3>. HIDE DEF T
    <3>. QED
      BY <2>1, <3>1, LeastElement
  <2>3. CASE i = 0
    <3>1. f[0] = Quiet
      BY <1>2 DEF PassesUpTo
    <3>. QED
      BY <2>2, <2>3, <3>1, QuietIsHalf
  <2>4. CASE i # 0
    <3>1. i \in 1 .. n /\ i - 1 \in 0 .. n /\ i - 1 < i
      BY <1>1, <2>2, <2>4
    <3>. DEFINE x == f[i - 1]
    <3>2. Half(x, block, i - 1)
      BY <2>2, <3>1
    <3>3. f[i] = passHeader(x, block[i], i = 1)
      BY <1>2, <3>1 DEF PassesUpTo
    <3>. HIDE DEF x
    <3>4. Half(passHeader(x, block[i], i = 1), block, i)
      BY <3>1, <3>2, PassHeaderStep
    <3>. QED
      BY <2>2, <3>3, <3>4
  <2>. QED
    BY <2>3, <2>4
<1>. DEFINE b == f[n]
<1>4. Half(b, block, n)
  BY <1>1, <1>3
<1>. HIDE DEF b
<1>5. PICK m : b = [present |-> n > 0, map |-> m, count |-> n, ok |-> TRUE]
  BY <1>4 DEF Half
<1>6. b.ok /\ b.count = n /\ b.present \in BOOLEAN /\ b.map = m
  BY <1>5
<1>7. b.map \in [Keys -> Seq(Values)] /\ Groups(b.map, block)
  BY <1>4 DEF Half, Groups
<1>8. Retrieved(b) = Quiet
  <2>1. b.ok = TRUE
    BY <1>5
  <2>. QED
    BY <2>1 DEF Retrieved, Quiet
<1>. QED
  BY <1>2, <1>6, <1>7, <1>8 DEF b
-----------------------------------------------------------------------------
(* What the application hears *)

Emissions == [kind : FrameKinds \cup TerminalKinds, block : Seq(Pairs)]
Tasks == [kind : FrameKinds \cup TerminalKinds,
          headers : [present : BOOLEAN, map : [Keys -> Seq(Values)]]]

Fits(task, e) == task.kind = e.kind /\ Groups(task.headers.map, e.block)

\* The k-th call of the application, made or waiting on the Executor.
Said(k) == IF k <= Len(app) THEN app[k] ELSE tasks[k - Len(app)]

\* The inductive invariant: between two callbacks JvmBridgeUtility is as it was
\* at the start, and every audible callback has its call or its task.
HeardInv ==
  /\ bridge = Quiet /\ failed = FALSE
  /\ emitted \in Seq(Emissions) /\ app \in Seq(Tasks) /\ tasks \in Seq(Tasks)
  /\ Len(app) + Len(tasks) = Cardinality(Audible(Len(emitted)))
  /\ \A i \in Audible(Len(emitted)) : Fits(Said(Cardinality(Audible(i))), emitted[i])

LEMMA AudibleIsFinite ==
  ASSUME NEW n \in Nat
  PROVE  IsFiniteSet(Audible(n)) /\ Cardinality(Audible(n)) \in Nat
<1>1. IsFiniteSet(1 .. n) /\ Audible(n) \subseteq 1 .. n
  BY FS_Interval DEF Audible
<1>2. IsFiniteSet(Audible(n))
  BY <1>1, FS_Subset
<1>. QED
  BY <1>2, FS_CardinalityType

LEMMA AudiblePlace ==
  ASSUME NEW n \in Nat, NEW i \in Audible(n)
  PROVE  Cardinality(Audible(i)) \in 1 .. Cardinality(Audible(n))
<1>1. i \in Nat /\ i \in Audible(i) /\ Audible(i) \subseteq Audible(n)
  BY DEF Audible
<1>2. /\ IsFiniteSet(Audible(i)) /\ Cardinality(Audible(i)) \in Nat
      /\ IsFiniteSet(Audible(n)) /\ Cardinality(Audible(n)) \in Nat
  BY <1>1, AudibleIsFinite
<1>3. Cardinality(Audible(i)) <= Cardinality(Audible(n))
  BY <1>1, <1>2, FS_Subset
<1>4. Cardinality(Audible(i)) # 0
  BY <1>1, <1>2, FS_EmptySet
<1>. QED
  BY <1>2, <1>3, <1>4

\* A callback that adds its task, or, when the stream is complete, none.
Adds(e, t) ==
  /\ emitted' = Append(emitted, e) /\ app' = app
  /\ bridge' = Quiet /\ failed' = FALSE
  /\ \/ e.kind # "complete" /\ tasks' = Append(tasks, t) /\ Fits(t, e)
     \/ e.kind = "complete" /\ tasks' = tasks

LEMMA AddsKeepsHeardInv ==
  ASSUME HeardInv, NEW e \in Emissions, NEW t \in Tasks, Adds(e, t)
  PROVE  HeardInv'
<1>. DEFINE n == Len(emitted)  N == Cardinality(Audible(n))
<1>1. /\ n \in Nat /\ N \in Nat /\ Len(app) \in Nat /\ Len(tasks) \in Nat
      /\ Len(app) + Len(tasks) = N
      /\ \A i \in Audible(n) : Fits(Said(Cardinality(Audible(i))), emitted[i])
  <2>1. n \in Nat /\ Len(app) \in Nat /\ Len(tasks) \in Nat
    BY DEF HeardInv
  <2>2. N \in Nat
    BY <2>1, AudibleIsFinite
  <2>3. /\ Len(app) + Len(tasks) = N
        /\ \A i \in Audible(n) : Fits(Said(Cardinality(Audible(i))), emitted[i])
    BY Zenon DEF HeardInv
  <2>. QED
    BY <2>1, <2>2, <2>3
<1>2. /\ emitted' \in Seq(Emissions) /\ Len(emitted') = n + 1 /\ emitted'[n + 1] = e
      /\ \A i \in 1 .. n : emitted'[i] = emitted[i]
  BY DEF HeardInv, Adds
<1>3. /\ app' = app /\ tasks' \in Seq(Tasks)
      /\ \A k \in 1 .. N : Said(k)' = Said(k)
  <2>1. app' = app /\ tasks' \in Seq(Tasks)
    <3>1. app' = app /\ (tasks' = Append(tasks, t) \/ tasks' = tasks)
      BY DEF Adds
    <3>2. tasks \in Seq(Tasks)
      BY DEF HeardInv
    <3>. HIDE DEF Tasks
    <3>. QED
      BY <3>1, <3>2
  <2>2. \A k \in 1 .. Len(tasks) : tasks'[k] = tasks[k]
    BY DEF HeardInv, Adds
  <2>3. ASSUME NEW k \in 1 .. N PROVE Said(k)' = Said(k)
    <3>1. CASE k <= Len(app)
      BY <2>1, <3>1 DEF Said
    <3>2. CASE ~(k <= Len(app))
      <4>1. k - Len(app) \in 1 .. Len(tasks)
        BY <1>1, <3>2
      <4>. QED
        BY <2>1, <2>2, <3>2, <4>1 DEF Said
    <3>. QED
      BY <3>1, <3>2
  <2>. QED
    BY <2>1, <2>3
<1>4. ASSUME NEW i \in Audible(n) PROVE Audible(i)' = Audible(i) /\ emitted'[i] = emitted[i]
  <2>1. i \in 1 .. n
    BY DEF Audible
  <2>. QED
    BY <1>1, <1>2, <2>1 DEF Audible
<1>5. ASSUME NEW i \in Audible(n) PROVE Fits(Said(Cardinality(Audible(i))), emitted[i])'
  <2>. DEFINE k == Cardinality(Audible(i))
  <2>1. k \in 1 .. N
    BY <1>1, AudiblePlace
  <2>2. Cardinality(Audible(i))' = k
    BY <1>4
  <2>. HIDE DEF k
  <2>3. Said(Cardinality(Audible(i)))' = Said(k)
    <3>1. Said(Cardinality(Audible(i)))' = IF k <= Len(app') THEN app'[k] ELSE tasks'[k - Len(app')]
      BY <2>2 DEF Said
    <3>. QED
      BY <1>3, <2>1, <3>1 DEF Said
  <2>4. Fits(Said(k), emitted[i])
    BY <1>1 DEF k
  <2>. QED
    BY <1>4, <2>3, <2>4 DEF Fits, Groups
<1>6. CASE e.kind # "complete"
  <2>1. tasks' = Append(tasks, t) /\ Fits(t, e)
    BY <1>6 DEF Adds
  <2>2. Len(tasks') = Len(tasks) + 1 /\ tasks'[Len(tasks) + 1] = t
    BY <2>1 DEF HeardInv
  <2>3. Audible(Len(emitted))' = Audible(n) \cup {n + 1} /\ n + 1 \notin Audible(n)
    BY <1>1, <1>2, <1>6 DEF Audible
  <2>4. Cardinality(Audible(Len(emitted))') = N + 1
    BY <1>1, <2>3, AudibleIsFinite, FS_AddElement
  <2>5. ASSUME NEW i, i = n + 1 PROVE Fits(Said(Cardinality(Audible(i))), emitted[i])'
    <3>1. Audible(i)' = Audible(Len(emitted))'
      BY <1>2, <2>5 DEF Audible
    <3>2. Cardinality(Audible(i))' = N + 1
      BY <2>4, <3>1
    <3>3. ~(N + 1 <= Len(app)) /\ (N + 1) - Len(app) = Len(tasks) + 1
      BY <1>1
    <3>4. Said(Cardinality(Audible(i)))' =
            IF N + 1 <= Len(app') THEN app'[N + 1] ELSE tasks'[(N + 1) - Len(app')]
      BY <3>2 DEF Said
    <3>. HIDE DEF N
    <3>5. Said(Cardinality(Audible(i)))' = t
      BY <1>3, <2>2, <3>3, <3>4
    <3>. QED
      BY <1>2, <2>1, <2>5, <3>5 DEF Fits, Groups
  <2>6. \A i \in Audible(Len(emitted))' : Fits(Said(Cardinality(Audible(i))), emitted[i])'
    BY <1>5, <2>3, <2>5
  <2>7. Len(app') + Len(tasks') = Cardinality(Audible(Len(emitted))')
    BY <1>1, <1>3, <2>2, <2>4
  <2>. QED
    BY <1>2, <1>3, <2>6, <2>7 DEF HeardInv, Adds
<1>7. CASE e.kind = "complete"
  <2>1. Audible(Len(emitted))' = Audible(n)
    BY <1>1, <1>2, <1>7 DEF Audible
  <2>2. \A i \in Audible(Len(emitted))' : Fits(Said(Cardinality(Audible(i))), emitted[i])'
    BY <1>5, <2>1
  <2>3. Len(app') + Len(tasks') = Cardinality(Audible(Len(emitted))')
    BY <1>1, <1>7, <2>1 DEF Adds
  <2>. QED
    BY <1>2, <1>3, <2>2, <2>3 DEF HeardInv, Adds
<1>. QED
  BY <1>6, <1>7

\* A task that runs moves from the Executor to the application's calls, and is
\* the same call as before.
LEMMA RunTaskKeepsHeardInv ==
  ASSUME HeardInv, RunTask
  PROVE  HeardInv'
<1>. DEFINE n == Len(emitted)  N == Cardinality(Audible(n))
<1>1. /\ emitted' = emitted /\ bridge' = bridge /\ failed' = failed
      /\ tasks # <<>> /\ app' = Append(app, Head(tasks)) /\ tasks' = Tail(tasks)
  BY DEF RunTask
<1>2. app \in Seq(Tasks) /\ tasks \in Seq(Tasks) /\ n \in Nat
  BY DEF HeardInv
<1>3. Len(app) + Len(tasks) = N
  BY DEF HeardInv
<1>4. /\ app' \in Seq(Tasks) /\ tasks' \in Seq(Tasks)
      /\ Len(app') = Len(app) + 1 /\ Len(tasks') = Len(tasks) - 1 /\ Len(tasks) >= 1
      /\ app'[Len(app) + 1] = tasks[1]
      /\ \A k \in 1 .. Len(app) : app'[k] = app[k]
      /\ \A k \in 1 .. Len(tasks) - 1 : tasks'[k] = tasks[k + 1]
  <2>. HIDE DEF Tasks
  <2>. QED
    BY <1>1, <1>2
<1>5. ASSUME NEW k \in 1 .. N PROVE Said(k)' = Said(k)
  <2>. HIDE DEF N
  <2>0. Len(app) \in Nat /\ Len(tasks) \in Nat /\ k \in Nat /\ k <= Len(app) + Len(tasks) /\ k >= 1
    BY <1>2, <1>3
  <2>1. CASE k <= Len(app)
    <3>1. k <= Len(app') /\ k \in 1 .. Len(app)
      BY <1>4, <2>0, <2>1
    <3>. QED
      BY <1>4, <2>1, <3>1 DEF Said
  <2>2. CASE k = Len(app) + 1
    <3>1. k <= Len(app') /\ ~(k <= Len(app)) /\ k - Len(app) = 1
      BY <1>4, <2>0, <2>2
    <3>. QED
      BY <1>4, <2>2, <3>1 DEF Said
  <2>3. CASE k > Len(app) + 1
    <3>1. /\ ~(k <= Len(app')) /\ ~(k <= Len(app)) /\ k - Len(app') \in 1 .. Len(tasks) - 1
          /\ (k - Len(app')) + 1 = k - Len(app)
      BY <1>4, <2>0, <2>3
    <3>2. tasks'[k - Len(app')] = tasks[k - Len(app)]
      BY <1>4, <3>1
    <3>. QED
      BY <3>1, <3>2 DEF Said
  <2>. QED
    BY <2>0, <2>1, <2>2, <2>3
<1>6. Len(emitted)' = n /\ \A i : Audible(i)' = Audible(i)
  BY <1>1 DEF Audible
<1>7. ASSUME NEW i \in Audible(n) PROVE Fits(Said(Cardinality(Audible(i))), emitted[i])'
  <2>. DEFINE k == Cardinality(Audible(i))
  <2>1. k \in 1 .. N
    BY <1>2, AudiblePlace
  <2>2. Cardinality(Audible(i))' = k
    BY <1>6
  <2>. HIDE DEF k
  <2>3. Said(Cardinality(Audible(i)))' = Said(k)
    <3>1. Said(Cardinality(Audible(i)))' = IF k <= Len(app') THEN app'[k] ELSE tasks'[k - Len(app')]
      BY <2>2 DEF Said
    <3>. QED
      BY <1>5, <2>1, <3>1 DEF Said
  <2>4. Fits(Said(k), emitted[i])
    BY Zenon DEF k, HeardInv
  <2>. QED
    BY <1>1, <2>3, <2>4 DEF Fits, Groups
<1>8. \A i \in Audible(Len(emitted))' : Fits(Said(Cardinality(Audible(i))), emitted[i])'
  BY <1>6, <1>7
<1>9. Len(app') + Len(tasks') = Cardinality(Audible(Len(emitted)))'
  <2>1. Cardinality(Audible(Len(emitted)))' = N
    BY <1>6
  <2>. HIDE DEF N
  <2>. QED
    BY <1>2, <1>3, <1>4, <2>1
<1>. QED
  BY <1>1, <1>4, <1>8, <1>9 DEF HeardInv

\* A block of headers or trailers becomes the task with its map.
LEMMA OnBlockAdds ==
  ASSUME HeardInv, NEW kind \in FrameKinds, NEW block \in Seq(Pairs), OnBlock(kind, block)
  PROVE  \E e \in Emissions, t \in Tasks : Adds(e, t)
<1>. DEFINE b == pass_headers(Quiet, block)
            e == [kind |-> kind, block |-> block]
            t == Task(kind, [present |-> b.present, map |-> b.map])
<1>1. /\ b.ok /\ b.count = Len(block) /\ b.present \in BOOLEAN
      /\ b.map \in [Keys -> Seq(Values)] /\ Groups(b.map, block)
      /\ Retrieved(b) = Quiet
  BY PassedHeadersGroup
<1>2. bridge = Quiet /\ failed = FALSE
  BY DEF HeardInv
<1>3. /\ emitted' = Append(emitted, e) /\ app' = app
      /\ bridge' = Retrieved(b)
      /\ failed' = (failed \/ ~b.ok \/ b.count # Len(block))
      /\ tasks' = Append(tasks, t)
  BY <1>2 DEF OnBlock, Emit
<1>. HIDE DEF b
<1>4. failed' = FALSE /\ bridge' = Quiet
  BY <1>1, <1>2, <1>3, Zenon
<1>5. e \in Emissions /\ e.kind = kind /\ e.block = block
  BY DEF Emissions
<1>6. t \in Tasks /\ t.kind = kind /\ t.headers.map = b.map
  BY <1>1 DEF Task, Tasks
<1>7. e.kind # "complete"
  BY <1>5 DEF FrameKinds
<1>8. Fits(t, e)
  BY <1>1, <1>5, <1>6 DEF Fits
<1>. HIDE DEF e, t
<1>9. Adds(e, t)
  BY <1>3, <1>4, <1>7, <1>8 DEF Adds
<1>. QED
  BY <1>5, <1>6, <1>9

\* Data and the end of the stream carry no headers.
LEMMA OtherCallbacksAdd ==
  ASSUME HeardInv,
         jvm_on_data \/ \E kind \in TerminalKinds : OnTerminal(kind)
  PROVE  \E e \in Emissions, t \in Tasks : Adds(e, t)
<1>1. PICK kind \in {"data"} \cup TerminalKinds :
        /\ emitted' = Append(emitted, [kind |-> kind, block |-> <<>>]) /\ app' = app
        /\ bridge' = bridge /\ failed' = failed
        /\ tasks' = IF kind # "complete" THEN Append(tasks, Task(kind, Null)) ELSE tasks
  <2>1. CASE jvm_on_data
    BY <2>1 DEF jvm_on_data, Emit
  <2>2. CASE \E kind \in TerminalKinds : OnTerminal(kind)
    <3>1. PICK kind \in TerminalKinds : OnTerminal(kind)
      BY <2>2
    <3>. QED
      BY <3>1 DEF OnTerminal, Emit, HandedOn
  <2>. QED
    BY <2>1, <2>2
<1>. DEFINE e == [kind |-> kind, block |-> <<>>]
            t == Task(kind, Null)
<1>2. bridge' = Quiet /\ failed' = FALSE
  BY <1>1 DEF HeardInv
<1>3. e \in Emissions /\ e.kind = kind /\ e.block = <<>>
  BY DEF Emissions, FrameKinds, TerminalKinds
<1>4. NoHeaders \in [Keys -> Seq(Values)] /\ Groups(NoHeaders, <<>>)
  <2>1. DOMAIN NoHeaders = Keys /\ \A k \in Keys : NoHeaders[k] = <<>>
    BY DEF NoHeaders
  <2>2. \A k \in Keys : Carries(NoHeaders[k], <<>>, k, 0)
    BY <2>1, CarriesNothing
  <2>. QED
    BY <2>1, <2>2, QuietIsHalf DEF Groups
<1>5. t \in Tasks /\ t.kind = kind /\ t.headers.map = NoHeaders
  BY <1>4 DEF Task, Null, Tasks, FrameKinds, TerminalKinds
<1>6. Fits(t, e)
  BY <1>3, <1>4, <1>5 DEF Fits
<1>7. emitted' = Append(emitted, e) /\ tasks' = IF kind # "complete" THEN Append(tasks, t) ELSE tasks
  BY <1>1
<1>. HIDE DEF e, t
<1>8. Adds(e, t)
  BY <1>1, <1>2, <1>3, <1>6, <1>7 DEF Adds
<1>. QED
  BY <1>3, <1>5, <1>8

LEMMA BlocksAreSequences == Blocks \subseteq Seq(Pairs) /\ TrailerBlocks \subseteq Seq(Pairs)
<1>1. Blocks \subseteq Seq(Pairs)
  <2>. SUFFICES ASSUME NEW n \in 1 .. MaxPairs, NEW block \in [1 .. n -> Pairs]
                PROVE  block \in Seq(Pairs)
    BY DEF Blocks
  <2>1. n \in Nat
    BY JvmAssumption
  <2>. HIDE DEF Pairs
  <2>. QED
    BY <2>1
<1>2. <<>> \in Seq(Pairs)
  OBVIOUS
<1>3. TrailerBlocks = Blocks \/ TrailerBlocks = Blocks \cup {<<>>}
  BY DEF TrailerBlocks
<1>. QED
  BY <1>1, <1>2, <1>3, Zenon

LEMMA NextKeepsHeardInv ==
  ASSUME HeardInv, [Next]_vars
  PROVE  HeardInv'
<1>1. CASE \E block \in Blocks : jvm_on_headers(block)
  <2>1. PICK block \in Blocks : OnBlock("headers", block)
    BY <1>1 DEF jvm_on_headers
  <2>2. block \in Seq(Pairs) /\ "headers" \in FrameKinds
    BY BlocksAreSequences DEF FrameKinds
  <2>. QED
    BY <2>1, <2>2, OnBlockAdds, AddsKeepsHeardInv
<1>2. CASE \E block \in TrailerBlocks : jvm_on_trailers(block)
  <2>1. PICK block \in TrailerBlocks : OnBlock("trailers", block)
    BY <1>2 DEF jvm_on_trailers
  <2>2. block \in Seq(Pairs) /\ "trailers" \in FrameKinds
    BY BlocksAreSequences DEF FrameKinds
  <2>. QED
    BY <2>1, <2>2, OnBlockAdds, AddsKeepsHeardInv
<1>3. CASE jvm_on_data \/ jvm_on_error \/ jvm_on_complete \/ jvm_on_cancel
  <2>1. jvm_on_data \/ \E kind \in TerminalKinds : OnTerminal(kind)
    BY <1>3 DEF jvm_on_error, jvm_on_complete, jvm_on_cancel, TerminalKinds
  <2>. QED
    BY <2>1, OtherCallbacksAdd, AddsKeepsHeardInv
<1>4. CASE RunTask
  BY <1>4, RunTaskKeepsHeardInv
<1>5. CASE \/ startStream \/ startStreamReturns \/ cancel \/ UNCHANGED vars
           \/ \E headers \in Requests, order \in Orders : sendHeaders(headers, order)
  <2>1. UNCHANGED <<emitted, bridge, failed, tasks, app>>
    BY <1>5 DEF startStream, startStreamReturns, cancel, sendHeaders, vars
  <2>. QED
    BY <2>1 DEF HeardInv, Audible, Said
<1>. QED
  BY <1>1, <1>2, <1>3, <1>4, <1>5 DEF Next, Callback, Application

\* AppHearsWhatWasEmitted, for every set of names and values and blocks of every
\* length: a response crosses JvmCallbackContext's accumulator pair by pair and
\* its Executor task by task, and the application gets the maps that native code
\* had the blocks of, in the same order, with no assertion failing.
THEOREM ResponsesAreHeard == Spec => []AppHearsWhatWasEmitted
<1>1. Init => HeardInv
  <2>. SUFFICES ASSUME Init PROVE HeardInv
    OBVIOUS
  <2>1. /\ bridge = Quiet /\ failed = FALSE
        /\ emitted = <<>> /\ app = <<>> /\ tasks = <<>>
    BY DEF Init, Quiet
  <2>2. Len(emitted) = 0 /\ Len(app) + Len(tasks) = 0 /\ Audible(0) = {}
    BY <2>1 DEF Audible
  <2>3. Cardinality(Audible(Len(emitted))) = 0 /\ Audible(Len(emitted)) = {}
    BY <2>2, FS_EmptySet
  <2>. QED
    BY <2>1, <2>2, <2>3 DEF HeardInv
<1>2. HeardInv /\ [Next]_vars => HeardInv'
  BY NextKeepsHeardInv
<1>3. HeardInv => AppHearsWhatWasEmitted
  <2>. SUFFICES ASSUME HeardInv PROVE AppHearsWhatWasEmitted
    OBVIOUS
  <2>1. failed = FALSE /\ Len(app) + Len(tasks) = Cardinality(Audible(Len(emitted)))
    BY DEF HeardInv
  <2>2. ASSUME NEW i \in Audible(Len(emitted)), Cardinality(Audible(i)) <= Len(app)
        PROVE  /\ app[Cardinality(Audible(i))].kind = emitted[i].kind
               /\ Groups(app[Cardinality(Audible(i))].headers.map, emitted[i].block)
    <3>1. Said(Cardinality(Audible(i))) = app[Cardinality(Audible(i))]
      BY <2>2 DEF Said
    <3>2. Fits(Said(Cardinality(Audible(i))), emitted[i])
      BY Zenon DEF HeardInv
    <3>. QED
      BY <3>1, <3>2 DEF Fits
  <2>. QED
    BY <2>1, <2>2 DEF AppHearsWhatWasEmitted, AssertionsHold
<1>. QED
  BY <1>1, <1>2, <1>3, PTL DEF Spec
-----------------------------------------------------------------------------
(* The gRPC layer: loops *)

\* Induction on a counter from 0 to n, with a set for the claim.
LEMMA Counting ==
  ASSUME NEW n \in Nat, NEW T, 0 \in T, \A i \in 1 .. n : i - 1 \in T => i \in T
  PROVE  \A i \in 0 .. n : i \in T
<1>. DEFINE U == {i \in 0 .. n : i \notin T}
<1>1. SUFFICES ASSUME U # {} PROVE FALSE
  OBVIOUS
<1>2. PICK i \in U : \A m \in U : ~(m < i)
  <2>1. U \subseteq Nat
    OBVIOUS
  <2>. HIDE DEF U
  <2>. QED
    BY <1>1, <2>1, LeastElement
<1>. QED
  BY <1>2

\* A loop with n rounds, whose round i takes x to step[i][x], has the values f.
Rounds(f, n, S, a, step) ==
  /\ f \in [0 .. n -> S] /\ f[0] = a
  /\ \A i \in 1 .. n : f[i] = step[i][f[i - 1]]

\* Such a loop has values: the recursive functions of GrpcStream are defined.
LEMMA LoopExists ==
  ASSUME NEW n \in Nat, NEW S, NEW a \in S, NEW step \in [1 .. n -> [S -> S]]
  PROVE  \E f : Rounds(f, n, S, a, step)
<1>. DEFINE Is(f, m) == Rounds(f, m, S, a, step)
            T == {m \in 0 .. n : \E f : Is(f, m)}
<1>1. 0 \in T
  <2>. DEFINE f == [i \in 0 .. 0 |-> a]
  <2>0. f \in [0 .. 0 -> S] /\ f[0] = a /\ 1 .. 0 = {}
    OBVIOUS
  <2>. HIDE DEF f
  <2>1. Is(f, 0)
    BY <2>0 DEF Rounds
  <2>. QED
    BY <2>1
<1>2. ASSUME NEW m \in 1 .. n, m - 1 \in T PROVE m \in T
  <2>1. PICK f : Is(f, m - 1)
    BY <1>2
  <2>. DEFINE last == step[m][f[m - 1]]
              g == [i \in 0 .. m |-> IF i = m THEN last ELSE f[i]]
  <2>2. /\ f \in [0 .. m - 1 -> S] /\ f[0] = a
        /\ \A i \in 1 .. m - 1 : f[i] = step[i][f[i - 1]]
        /\ f[m - 1] \in S /\ last \in S
    BY <2>1 DEF Rounds
  <2>3. /\ g \in [0 .. m -> S] /\ g[0] = a /\ g[m] = last
        /\ \A i \in 0 .. m - 1 : g[i] = f[i]
    <3>. HIDE DEF last
    <3>. QED
      BY <2>2
  <2>. HIDE DEF g
  <2>4. ASSUME NEW i \in 1 .. m PROVE g[i] = step[i][g[i - 1]]
    <3>1. i - 1 \in 0 .. m - 1 /\ g[i - 1] = f[i - 1]
      BY <2>3
    <3>2. CASE i = m
      BY <2>3, <3>1, <3>2
    <3>3. CASE i # m
      <4>1. i \in 0 .. m - 1 /\ i \in 1 .. m - 1
        BY <3>3
      <4>. QED
        BY <2>2, <2>3, <3>1, <4>1
    <3>. QED
      BY <3>2, <3>3
  <2>5. Is(g, m)
    BY <2>3, <2>4 DEF Rounds
  <2>. HIDE DEF Is
  <2>. QED
    BY <2>5
<1>3. \A i \in 0 .. n : i \in T
  <2>. HIDE DEF T
  <2>. QED
    BY <1>1, <1>2, Counting
<1>. QED
  BY <1>3

\* The values of a loop, one by one.
LEMMA RoundsValues ==
  ASSUME NEW n \in Nat, NEW S, NEW a, NEW step, NEW f, Rounds(f, n, S, a, step)
  PROVE  /\ f = [i \in 0 .. n |-> f[i]] /\ f[0] = a
         /\ \A i \in 0 .. n : f[i] \in S
         /\ \A i \in 1 .. n : f[i - 1] \in S /\ f[i] = step[i][f[i - 1]]
BY DEF Rounds

\* Whatever is defined by that recursion is the loop.
LEMMA LoopIs ==
  ASSUME NEW n \in Nat, NEW S, NEW a \in S, NEW step \in [1 .. n -> [S -> S]],
         NEW q, q = [i \in 0 .. n |-> q[i]], q[0] = a,
         \A i \in 1 .. n : q[i - 1] \in S => q[i] = step[i][q[i - 1]]
  PROVE  Rounds(q, n, S, a, step)
<1>. DEFINE T == {i \in 0 .. n : q[i] \in S}
<1>1. \A i \in 0 .. n : i \in T
  <2>1. 0 \in T
    OBVIOUS
  <2>2. ASSUME NEW i \in 1 .. n, i - 1 \in T PROVE i \in T
    <3>1. q[i - 1] \in S /\ q[i] = step[i][q[i - 1]]
      BY <2>2
    <3>2. step[i] \in [S -> S]
      OBVIOUS
    <3>. QED
      BY <3>1, <3>2
  <2>. HIDE DEF T
  <2>. QED
    BY <2>1, <2>2, Counting
<1>2. \A i \in 0 .. n : q[i] \in S
  BY <1>1
<1>3. q \in [0 .. n -> S]
  BY <1>2
<1>4. ASSUME NEW i \in 1 .. n PROVE q[i] = step[i][q[i - 1]]
  <2>1. i - 1 \in 0 .. n
    OBVIOUS
  <2>. QED
    BY <1>2, <2>1
<1>. QED
  BY <1>3, <1>4 DEF Rounds
-----------------------------------------------------------------------------
(* Numbers and their digits *)

\* What Quotients computes.
LEMMA QuotientsLoop ==
  ASSUME NEW n \in Nat
  PROVE  /\ Quotients(n) \in [0 .. LengthBytes -> Nat]
         /\ Quotients(n)[0] = n
         /\ \A i \in 1 .. LengthBytes : Quotients(n)[i] = Quotients(n)[i - 1] \div Base
<1>. DEFINE Div(x) == x \div Base
            Loop(g) == g = [i \in 0 .. LengthBytes |-> IF i = 0 THEN n ELSE Div(g[i - 1])]
            step == [i \in 1 .. LengthBytes |-> [x \in Nat |-> Div(x)]]
            q == CHOOSE g : Loop(g)
<1>1. LengthBytes \in Nat /\ \A x \in Nat : Div(x) \in Nat
  BY GrpcAssumption
<1>2. Quotients(n) = q
  BY DEF Quotients
<1>. HIDE DEF Div
<1>3. /\ step \in [1 .. LengthBytes -> [Nat -> Nat]]
      /\ \A i \in 1 .. LengthBytes, x \in Nat : step[i][x] = Div(x)
  BY <1>1
<1>. HIDE DEF step
<1>4. PICK f : Rounds(f, LengthBytes, Nat, n, step)
  BY <1>1, <1>3, LoopExists, Zenon
<1>5. Loop(f)
  <2>1. /\ f = [i \in 0 .. LengthBytes |-> f[i]] /\ f[0] = n
        /\ \A i \in 1 .. LengthBytes : f[i - 1] \in Nat /\ f[i] = step[i][f[i - 1]]
    BY <1>1, <1>4, RoundsValues
  <2>2. \A i \in 0 .. LengthBytes : f[i] = IF i = 0 THEN n ELSE Div(f[i - 1])
    <3>. SUFFICES ASSUME NEW i \in 0 .. LengthBytes, i # 0 PROVE f[i] = Div(f[i - 1])
      BY <2>1
    <3>1. i \in 1 .. LengthBytes
      BY <1>1
    <3>. QED
      BY <1>3, <2>1, <3>1
  <2>. QED
    BY <2>1, <2>2
<1>6. Loop(q)
  <2>. HIDE DEF Loop
  <2>. QED
    BY <1>5, Zenon
<1>. HIDE DEF q
<1>7. /\ q = [i \in 0 .. LengthBytes |-> q[i]] /\ q[0] = n
      /\ \A i \in 1 .. LengthBytes : q[i] = Div(q[i - 1])
  BY <1>1, <1>6
<1>8. Rounds(q, LengthBytes, Nat, n, step)
  <2>1. \A i \in 1 .. LengthBytes : q[i - 1] \in Nat => q[i] = step[i][q[i - 1]]
    BY <1>3, <1>7
  <2>. HIDE DEF Loop
  <2>. QED
    BY <1>1, <1>3, <1>7, <2>1, LoopIs
<1>. QED
  BY <1>2, <1>7, <1>8 DEF Rounds, Div

\* The rounds of ReadBigEndian.
Reading(v, start, bytes) ==
  /\ v \in [0 .. Len(bytes) -> Int] /\ v[0] = start
  /\ \A i \in 1 .. Len(bytes) : v[i] = v[i - 1] * Base + bytes[i]

\* What ReadBigEndian computes.
LEMMA ReadLoop ==
  ASSUME NEW start \in Int, NEW bytes \in Seq(Byte)
  PROVE  \E v : Reading(v, start, bytes) /\ ReadBigEndian(start, bytes) = v[Len(bytes)]
<1>. DEFINE n == Len(bytes)
            Shift(x, i) == x * Base + bytes[i]
            Loop(g) == g = [i \in 0 .. n |-> IF i = 0 THEN start ELSE Shift(g[i - 1], i)]
            step == [i \in 1 .. n |-> [x \in Int |-> Shift(x, i)]]
            q == CHOOSE g : Loop(g)
<1>1. n \in Nat /\ \A x \in Int, i \in 1 .. n : Shift(x, i) \in Int
  <2>1. \A i \in 1 .. n : bytes[i] \in Byte
    OBVIOUS
  <2>2. n \in Nat /\ Base \in Int /\ Byte \subseteq Int
    BY GrpcAssumption DEF Byte
  <2>3. ASSUME NEW x \in Int, NEW i \in 1 .. n PROVE Shift(x, i) \in Int
    <3>1. bytes[i] \in Int
      BY <2>1, <2>2
    <3>2. x * Base \in Int
      BY <2>2
    <3>. QED
      BY <3>1, <3>2
  <2>. QED
    BY <2>2, <2>3
<1>2. ReadBigEndian(start, bytes) = q[n]
  BY DEF ReadBigEndian
<1>. HIDE DEF Shift
<1>3. /\ step \in [1 .. n -> [Int -> Int]]
      /\ \A i \in 1 .. n, x \in Int : step[i][x] = Shift(x, i)
  BY <1>1
<1>. HIDE DEF step, n
<1>4. PICK f : Rounds(f, n, Int, start, step)
  BY <1>1, <1>3, LoopExists, Zenon
<1>5. Loop(f)
  <2>1. /\ f = [i \in 0 .. n |-> f[i]] /\ f[0] = start
        /\ \A i \in 1 .. n : f[i - 1] \in Int /\ f[i] = step[i][f[i - 1]]
    BY <1>1, <1>4, RoundsValues
  <2>2. \A i \in 0 .. n : f[i] = IF i = 0 THEN start ELSE Shift(f[i - 1], i)
    <3>. SUFFICES ASSUME NEW i \in 0 .. n, i # 0 PROVE f[i] = Shift(f[i - 1], i)
      BY <2>1
    <3>1. i \in 1 .. n
      BY <1>1
    <3>. QED
      BY <1>3, <2>1, <3>1
  <2>. QED
    BY <2>1, <2>2
<1>6. Loop(q)
  <2>. HIDE DEF Loop
  <2>. QED
    BY <1>5, Zenon
<1>. HIDE DEF q
<1>7. /\ q = [i \in 0 .. n |-> q[i]] /\ q[0] = start
      /\ \A i \in 1 .. n : q[i] = Shift(q[i - 1], i)
  <2>1. n \in Nat
    BY <1>1
  <2>. QED
    BY <1>6, <2>1
<1>8. Rounds(q, n, Int, start, step)
  <2>1. \A i \in 1 .. n : q[i - 1] \in Int => q[i] = step[i][q[i - 1]]
    BY <1>3, <1>7
  <2>. HIDE DEF Loop
  <2>. QED
    BY <1>1, <1>3, <1>7, <2>1, LoopIs
<1>9. Reading(q, start, bytes)
  BY <1>7, <1>8 DEF Rounds, Reading, Shift, n
<1>. QED
  BY <1>2, <1>9 DEF n

\* A number is its quotient and its last digit.
LEMMA Division ==
  ASSUME NEW x \in Nat
  PROVE  /\ x \div Base \in Nat /\ x % Base \in Byte
         /\ (x \div Base) * Base + (x % Base) = x
<1>1. Base \in Nat /\ Base > 0
  BY GrpcAssumption
<1>. QED
  BY <1>1 DEF Byte

\* A number that is not larger has a quotient that is not larger.
LEMMA DivisionKeepsOrder ==
  ASSUME NEW x \in Nat, NEW y \in Nat, x <= y
  PROVE  x \div Base <= y \div Base
BY GrpcAssumption

\* A length that a message may have has LengthBytes digits, and the leading one
\* is not a sign.
LEMMA LengthFits ==
  ASSUME NEW n \in 0 .. MaxLength
  PROVE  /\ Quotients(n)[LengthBytes] = 0
         /\ Quotients(n)[LengthBytes - 1] % Base < Base \div 2
<1>. DEFINE q == Quotients(n)  m == Quotients(MaxLength)
            T == {i \in 0 .. LengthBytes : q[i] <= m[i]}
<1>1. LengthBytes \in Nat \ {0} /\ MaxLength \in Nat /\ n \in Nat /\ n <= MaxLength
  BY GrpcAssumption
<1>2. /\ q \in [0 .. LengthBytes -> Nat] /\ q[0] = n
      /\ \A i \in 1 .. LengthBytes : q[i] = q[i - 1] \div Base
  BY <1>1, QuotientsLoop
<1>3. /\ m \in [0 .. LengthBytes -> Nat] /\ m[0] = MaxLength
      /\ \A i \in 1 .. LengthBytes : m[i] = m[i - 1] \div Base
  BY <1>1, QuotientsLoop
<1>4. m[LengthBytes - 1] < Base \div 2
  BY GrpcAssumption
<1>. HIDE DEF q, m
<1>5. \A i \in 0 .. LengthBytes : i \in T
  <2>1. 0 \in T
    BY <1>1, <1>2, <1>3
  <2>2. ASSUME NEW i \in 1 .. LengthBytes, i - 1 \in T PROVE i \in T
    <3>1. q[i - 1] \in Nat /\ m[i - 1] \in Nat /\ q[i - 1] <= m[i - 1] /\ i \in 0 .. LengthBytes
      BY <1>1, <1>2, <1>3, <2>2
    <3>2. q[i - 1] \div Base <= m[i - 1] \div Base
      BY <3>1, DivisionKeepsOrder
    <3>. QED
      BY <1>2, <1>3, <3>1, <3>2
  <2>. HIDE DEF T
  <2>. QED
    BY <1>1, <2>1, <2>2, Counting
<1>. DEFINE top == q[LengthBytes - 1]
<1>6. top \in Nat /\ m[LengthBytes - 1] \in Nat /\ top <= m[LengthBytes - 1]
  BY <1>1, <1>2, <1>3, <1>5
<1>7. q[LengthBytes] = top \div Base
  BY <1>1, <1>2
<1>. HIDE DEF top
<1>8. Base \in Nat /\ Base > 1
  BY GrpcAssumption
<1>9. top < Base \div 2 /\ Base \div 2 <= Base /\ Base \div 2 \in Nat
  BY <1>4, <1>6, <1>8
<1>10. top \div Base = 0 /\ top % Base = top
  BY <1>6, <1>8, <1>9
<1>. QED
  BY <1>7, <1>9, <1>10 DEF top, q

\* What sendMessage writes as the length of a message is what both processors
\* read, Kotlin's signed and Swift's unsigned one, for every base and number of
\* bytes and every length that a signed integer of so many bytes can hold.
THEOREM LengthIsReadBack ==
  ASSUME NEW n \in 0 .. MaxLength
  PROVE  /\ BigEndian(n) \in Seq(Byte) /\ Len(BigEndian(n)) = LengthBytes
         /\ Signed(BigEndian(n)) = n /\ Unsigned(BigEndian(n)) = n
<1>. DEFINE q == Quotients(n)  bytes == BigEndian(n)
<1>1. LengthBytes \in Nat \ {0} /\ n \in Nat
  BY GrpcAssumption
<1>2. /\ q \in [0 .. LengthBytes -> Nat] /\ q[0] = n
      /\ \A i \in 1 .. LengthBytes : q[i] = q[i - 1] \div Base
  BY <1>1, QuotientsLoop
<1>3. q[LengthBytes] = 0 /\ q[LengthBytes - 1] % Base < Base \div 2
  BY LengthFits
<1>4. bytes = [i \in 1 .. LengthBytes |-> q[LengthBytes - i] % Base]
  BY DEF BigEndian
<1>. HIDE DEF q
<1>5. ASSUME NEW i \in 1 .. LengthBytes
      PROVE  q[LengthBytes - i] \in Nat /\ q[LengthBytes - i] % Base \in Byte
  <2>1. q[LengthBytes - i] \in Nat
    BY <1>1, <1>2
  <2>. QED
    BY <2>1, Division
<1>6. bytes \in [1 .. LengthBytes -> Byte]
  BY <1>4, <1>5
<1>. HIDE DEF bytes
<1>7. bytes \in Seq(Byte) /\ Len(bytes) = LengthBytes
  BY <1>1, <1>6
<1>8. ReadBigEndian(0, bytes) = n
  <2>1. PICK v : Reading(v, 0, bytes) /\ ReadBigEndian(0, bytes) = v[LengthBytes]
    BY <1>7, ReadLoop
  <2>2. /\ v[0] = 0
        /\ \A i \in 1 .. LengthBytes : v[i] = v[i - 1] * Base + bytes[i]
    BY <1>7, <2>1 DEF Reading
  <2>. DEFINE T == {i \in 0 .. LengthBytes : v[i] = q[LengthBytes - i]}
  <2>3. \A i \in 0 .. LengthBytes : i \in T
    <3>1. 0 \in T
      BY <1>1, <1>3, <2>2
    <3>2. ASSUME NEW i \in 1 .. LengthBytes, i - 1 \in T PROVE i \in T
      <4>. DEFINE x == q[LengthBytes - i]
      <4>1. x \in Nat /\ bytes[i] = x % Base
        BY <1>4, <1>5
      <4>2. /\ LengthBytes - i + 1 \in 1 .. LengthBytes /\ i \in 0 .. LengthBytes
            /\ (LengthBytes - i + 1) - 1 = LengthBytes - i
            /\ LengthBytes - (i - 1) = LengthBytes - i + 1
        BY <1>1
      <4>3. q[LengthBytes - (i - 1)] = x \div Base
        BY <1>2, <4>2
      <4>4. v[i - 1] = x \div Base
        BY <3>2, <4>3
      <4>5. v[i] = (x \div Base) * Base + (x % Base)
        BY <2>2, <4>1, <4>4
      <4>. HIDE DEF x
      <4>6. v[i] = x
        BY <4>1, <4>5, Division
      <4>. QED
        BY <4>2, <4>6 DEF x
    <3>. HIDE DEF T
    <3>. QED
      BY <1>1, <3>1, <3>2, Counting
  <2>4. v[LengthBytes] = q[LengthBytes - LengthBytes] /\ LengthBytes - LengthBytes = 0
    BY <1>1, <2>3
  <2>. QED
    BY <1>2, <2>1, <2>4
<1>9. bytes[1] < Base \div 2
  BY <1>1, <1>3, <1>4
<1>. QED
  BY <1>7, <1>8, <1>9 DEF Signed, Unsigned, bytes
-----------------------------------------------------------------------------
(* Frames, and where they are in a stream of bytes *)

\* A part of a sequence that ends within it.
LEMMA PartOf ==
  ASSUME NEW S, NEW s \in Seq(S), NEW a \in Nat, a > 0, NEW b \in Int, b <= Len(s)
  PROVE  /\ SubSeq(s, a, b) \in Seq(S)
         /\ Len(SubSeq(s, a, b)) = IF a <= b THEN b - a + 1 ELSE 0
         /\ \A i \in 1 .. b - a + 1 : SubSeq(s, a, b)[i] = s[a + i - 1]
<1>1. \A i \in a .. b : s[i] \in S
  OBVIOUS
<1>. QED
  BY <1>1, SubSeqProperties

\* A message is a sequence of bytes of at most MaxLength bytes, and a flag.
LEMMA MessageType ==
  ASSUME NEW m \in Messages
  PROVE  /\ m.payload \in Seq(Byte) /\ Len(m.payload) \in 0 .. MaxLength
         /\ m.flag \in Byte
<1>1. m.payload \in Payloads /\ m.flag \in {0, 1}
  BY DEF Messages
<1>2. PICK n \in 0 .. MaxLength : m.payload \in [1 .. n -> Byte]
  BY <1>1 DEF Payloads
<1>3. n \in Nat /\ {0, 1} \subseteq Byte
  BY GrpcAssumption DEF Byte
<1>4. m.payload \in Seq(Byte) /\ Len(m.payload) = n
  BY <1>2, <1>3
<1>. QED
  BY <1>1, <1>3, <1>4

\* One sequence of bytes behind another.
LEMMA Joined ==
  ASSUME NEW a \in Seq(Byte), NEW b \in Seq(Byte)
  PROVE  /\ Len(a) \in Nat /\ Len(b) \in Nat /\ a \o b \in Seq(Byte)
         /\ Len(a \o b) = Len(a) + Len(b)
         /\ \A i \in 1 .. Len(a) : (a \o b)[i] = a[i]
         /\ \A i \in 1 .. Len(b) : (a \o b)[Len(a) + i] = b[i]
OBVIOUS

\* What sendMessage writes: the flag, the length, and the message behind them.
LEMMA FrameParts ==
  ASSUME NEW m \in Messages
  PROVE  /\ Framed(m) \in Seq(Byte)
         /\ Len(Framed(m)) = PrefixLength + Len(m.payload)
         /\ Framed(m)[1] = m.flag
         /\ \A i \in 1 .. LengthBytes : Framed(m)[1 + i] = BigEndian(Len(m.payload))[i]
         /\ \A i \in 1 .. Len(m.payload) : Framed(m)[PrefixLength + i] = m.payload[i]
<1>. DEFINE flag == <<m.flag>>  length == BigEndian(Len(m.payload))  prefix == flag \o length
<1>0. LengthBytes \in Nat \ {0}
  BY GrpcAssumption
<1>1. flag \in Seq(Byte) /\ Len(flag) = 1 /\ flag[1] = m.flag
  BY MessageType
<1>2. length \in Seq(Byte) /\ Len(length) = LengthBytes
  BY MessageType, LengthIsReadBack
<1>3. m.payload \in Seq(Byte)
  BY MessageType
<1>4. Framed(m) = prefix \o m.payload
  BY DEF Framed, Prefix
<1>. HIDE DEF flag, length
<1>5. /\ prefix \in Seq(Byte) /\ Len(prefix) = PrefixLength
      /\ prefix[1] = m.flag /\ \A i \in 1 .. LengthBytes : prefix[1 + i] = length[i]
  <2>1. /\ prefix \in Seq(Byte) /\ Len(prefix) = Len(flag) + Len(length)
        /\ \A i \in 1 .. Len(flag) : prefix[i] = flag[i]
        /\ \A i \in 1 .. Len(length) : prefix[Len(flag) + i] = length[i]
    BY <1>1, <1>2, Joined
  <2>. HIDE DEF prefix
  <2>. QED
    BY <1>0, <1>1, <1>2, <2>1 DEF PrefixLength
<1>. HIDE DEF prefix
<1>6. /\ Framed(m) \in Seq(Byte) /\ Len(Framed(m)) = PrefixLength + Len(m.payload)
      /\ \A i \in 1 .. PrefixLength : Framed(m)[i] = prefix[i]
      /\ \A i \in 1 .. Len(m.payload) : Framed(m)[PrefixLength + i] = m.payload[i]
  <2>1. /\ prefix \o m.payload \in Seq(Byte)
        /\ Len(prefix \o m.payload) = Len(prefix) + Len(m.payload)
        /\ \A i \in 1 .. Len(prefix) : (prefix \o m.payload)[i] = prefix[i]
        /\ \A i \in 1 .. Len(m.payload) : (prefix \o m.payload)[Len(prefix) + i] = m.payload[i]
    BY <1>3, <1>5, Joined
  <2>. QED
    BY <1>4, <1>5, <2>1
<1>7. 1 \in 1 .. PrefixLength /\ \A i \in 1 .. LengthBytes : 1 + i \in 1 .. PrefixLength
  BY <1>0 DEF PrefixLength
<1>. QED
  BY <1>5, <1>6, <1>7 DEF length

\* e[k] is where the k-th message of ms ends.
Ends(e, ms) ==
  /\ e \in [0 .. Len(ms) -> Nat] /\ e[0] = 0
  /\ \A k \in 1 .. Len(ms) : e[k] = e[k - 1] + PrefixLength + Len(ms[k].payload)

\* EndOf adds up the frames.
LEMMA EndsExist ==
  ASSUME NEW ms \in Seq(Messages)
  PROVE  \E e : Ends(e, ms) /\ \A k : EndOf(ms, k) = e[k]
<1>. DEFINE n == Len(ms)
            Add(x, k) == x + Len(Framed(ms[k]))
            Loop(g) == g = [i \in 0 .. n |-> IF i = 0 THEN 0 ELSE Add(g[i - 1], i)]
            step == [i \in 1 .. n |-> [x \in Nat |-> Add(x, i)]]
            q == CHOOSE g : Loop(g)
<1>1. /\ n \in Nat
      /\ \A x \in Nat, k \in 1 .. n : /\ Add(x, k) \in Nat
                                      /\ Add(x, k) = x + PrefixLength + Len(ms[k].payload)
  <2>1. n \in Nat /\ LengthBytes \in Nat
    BY GrpcAssumption
  <2>2. ASSUME NEW x \in Nat, NEW k \in 1 .. n
        PROVE  Add(x, k) \in Nat /\ Add(x, k) = x + PrefixLength + Len(ms[k].payload)
    <3>1. ms[k] \in Messages
      OBVIOUS
    <3>2. Len(Framed(ms[k])) = PrefixLength + Len(ms[k].payload)
      BY <3>1, FrameParts
    <3>3. Len(ms[k].payload) \in Nat
      BY <3>1, MessageType
    <3>. DEFINE u == Len(Framed(ms[k]))  w == Len(ms[k].payload)
    <3>4. Add(x, k) = x + u /\ u = PrefixLength + w /\ w \in Nat
      BY <3>2, <3>3
    <3>. HIDE DEF u, w, Add
    <3>5. Add(x, k) \in Nat /\ Add(x, k) = x + PrefixLength + w
      BY <2>1, <3>4 DEF PrefixLength
    <3>. QED
      BY <3>5 DEF w
  <2>. HIDE DEF Add
  <2>. QED
    BY <2>1, <2>2
<1>2. \A k : EndOf(ms, k) = q[k]
  BY DEF EndOf
<1>. HIDE DEF Add, n
<1>3. /\ step \in [1 .. n -> [Nat -> Nat]]
      /\ \A i \in 1 .. n, x \in Nat : step[i][x] = Add(x, i)
  BY <1>1
<1>. HIDE DEF step
<1>4. PICK f : Rounds(f, n, Nat, 0, step)
  BY <1>1, <1>3, LoopExists
<1>5. Loop(f)
  <2>1. /\ f = [i \in 0 .. n |-> f[i]] /\ f[0] = 0
        /\ \A i \in 1 .. n : f[i - 1] \in Nat /\ f[i] = step[i][f[i - 1]]
    BY <1>1, <1>4, RoundsValues
  <2>2. \A i \in 0 .. n : f[i] = IF i = 0 THEN 0 ELSE Add(f[i - 1], i)
    <3>. SUFFICES ASSUME NEW i \in 0 .. n, i # 0 PROVE f[i] = Add(f[i - 1], i)
      BY <2>1
    <3>1. i \in 1 .. n
      BY <1>1
    <3>. QED
      BY <1>3, <2>1, <3>1
  <2>. QED
    BY <2>1, <2>2
<1>6. Loop(q)
  <2>. HIDE DEF Loop
  <2>. QED
    BY <1>5, Zenon
<1>. HIDE DEF q
<1>7. /\ q = [i \in 0 .. n |-> q[i]] /\ q[0] = 0
      /\ \A i \in 1 .. n : q[i] = Add(q[i - 1], i)
  <2>1. n \in Nat
    BY <1>1
  <2>. QED
    BY <1>6, <2>1
<1>8. Rounds(q, n, Nat, 0, step)
  <2>1. \A i \in 1 .. n : q[i - 1] \in Nat => q[i] = step[i][q[i - 1]]
    BY <1>3, <1>7
  <2>. HIDE DEF Loop
  <2>. QED
    BY <1>1, <1>3, <1>7, <2>1, LoopIs
<1>9. q \in [0 .. n -> Nat] /\ \A i \in 1 .. n : q[i - 1] \in Nat
  BY <1>1, <1>8, RoundsValues DEF Rounds
<1>10. Ends(q, ms)
  BY <1>1, <1>7, <1>9 DEF Ends, n
<1>. QED
  BY <1>2, <1>10

\* The ends rise.
LEMMA EndsRise ==
  ASSUME NEW ms \in Seq(Messages), NEW k \in 0 .. Len(ms), NEW l \in 0 .. Len(ms), k < l
  PROVE  EndOf(ms, k) < EndOf(ms, l)
<1>1. PICK e : Ends(e, ms) /\ \A i : EndOf(ms, i) = e[i]
  BY EndsExist
<1>. DEFINE T == {i \in 0 .. Len(ms) : k < i => e[k] < e[i]}
<1>2. 0 \in T /\ LengthBytes \in Nat
  BY GrpcAssumption
<1>3. ASSUME NEW i \in 1 .. Len(ms), i - 1 \in T PROVE i \in T
  <2>1. ms[i] \in Messages
    OBVIOUS
  <2>2. Len(ms[i].payload) \in Nat
    BY <2>1, MessageType
  <2>3. e[k] \in Nat /\ e[i - 1] \in Nat
    <3>1. i - 1 \in 0 .. Len(ms)
      OBVIOUS
    <3>. QED
      BY <1>1, <3>1 DEF Ends
  <2>4. e[i] = e[i - 1] + PrefixLength + Len(ms[i].payload)
    BY <1>1 DEF Ends
  <2>5. e[i - 1] < e[i] /\ e[i] \in Nat
    BY <1>2, <2>2, <2>3, <2>4 DEF PrefixLength
  <2>6. i \in 0 .. Len(ms) /\ (k < i => k < i - 1 \/ k = i - 1)
    OBVIOUS
  <2>7. k < i - 1 => e[k] < e[i - 1]
    BY <1>3
  <2>8. k < i => e[k] < e[i]
    BY <2>3, <2>5, <2>6, <2>7
  <2>. QED
    BY <2>6, <2>8
<1>4. \A i \in 0 .. Len(ms) : i \in T
  <2>1. Len(ms) \in Nat
    OBVIOUS
  <2>. HIDE DEF T
  <2>. QED
    BY <1>2, <1>3, <2>1, Counting
<1>. QED
  BY <1>1, <1>4

\* The end of a message, from the end of the one before.
LEMMA EndOfStep ==
  ASSUME NEW ms \in Seq(Messages)
  PROVE  /\ EndOf(ms, 0) = 0
         /\ \A k \in 0 .. Len(ms) : EndOf(ms, k) \in Nat
         /\ \A k \in 1 .. Len(ms) :
              EndOf(ms, k) = EndOf(ms, k - 1) + PrefixLength + Len(ms[k].payload)
<1>1. PICK e : Ends(e, ms) /\ \A i : EndOf(ms, i) = e[i]
  BY EndsExist
<1>. QED
  BY <1>1 DEF Ends

\* A message more changes none of the ends before it.
LEMMA EndOfAppend ==
  ASSUME NEW ms \in Seq(Messages), NEW m \in Messages
  PROVE  \A k \in 0 .. Len(ms) : EndOf(Append(ms, m), k) = EndOf(ms, k)
<1>. DEFINE more == Append(ms, m)
            T == {k \in 0 .. Len(ms) : EndOf(more, k) = EndOf(ms, k)}
<1>1. /\ more \in Seq(Messages) /\ Len(more) = Len(ms) + 1 /\ Len(ms) \in Nat
      /\ \A k \in 1 .. Len(ms) : more[k] = ms[k]
  OBVIOUS
<1>. HIDE DEF more
<1>2. 0 \in T
  BY <1>1, EndOfStep
<1>3. ASSUME NEW k \in 1 .. Len(ms), k - 1 \in T PROVE k \in T
  <2>1. EndOf(more, k - 1) = EndOf(ms, k - 1) /\ k \in 1 .. Len(more) /\ k \in 0 .. Len(ms)
    BY <1>1, <1>3
  <2>2. EndOf(more, k) = EndOf(more, k - 1) + PrefixLength + Len(more[k].payload)
    BY <1>1, <2>1, EndOfStep
  <2>3. EndOf(ms, k) = EndOf(ms, k - 1) + PrefixLength + Len(ms[k].payload)
    BY EndOfStep
  <2>. QED
    BY <1>1, <2>1, <2>2, <2>3
<1>4. \A k \in 0 .. Len(ms) : k \in T
  <2>. HIDE DEF T
  <2>. QED
    BY <1>1, <1>2, <1>3, Counting
<1>. QED
  BY <1>4 DEF more
-----------------------------------------------------------------------------
(* One call of a processor *)

\* Neither processor goes on without more data.
Waiting(c) ==
  /\ ~(c.state = "CompressionFlag" /\ c.buffer # <<>>)
  /\ ~(c.state = "MessageLength" /\ HasPrefix(c))
  /\ ~(c.state = "Message" /\ HasMessage(c))

Flagged(c, state, buffer) ==
  [state |-> state, length |-> c.length, buffer |-> buffer, out |-> c.out]
Measured(c, length) ==
  [state |-> "Message", length |-> length, buffer |-> c.buffer, out |-> c.out]
Delivered(c) ==
  [state |-> "CompressionFlag", length |-> 0, buffer |-> Rest(c),
   out |-> Append(c.out, SubSeq(c.buffer, PrefixLength + 1, PrefixLength + c.length))]
CrashedAt(c) ==
  [state |-> "Crashed", length |-> c.length, buffer |-> c.buffer, out |-> Append(c.out, <<>>)]

\* The arms of the two functions, as records.
LEMMA Arms ==
  ASSUME NEW c \in Processors
  PROVE  /\ c.state = "CompressionFlag" /\ c.buffer # <<>> =>
              /\ c.buffer[1] = 0 => /\ KotlinStep(c) = Flagged(c, "MessageLength", c.buffer)
                                    /\ SwiftStep(c) = Flagged(c, "MessageLength", c.buffer)
              /\ c.buffer[1] # 0 => /\ KotlinStep(c) = Flagged(c, "MessageLength", <<>>)
                                    /\ SwiftStep(c) = Flagged(c, "CompressionFlag", <<>>)
         /\ c.state = "MessageLength" /\ HasPrefix(c) =>
              /\ KotlinStep(c) = Measured(c, Signed(PrefixedLength(c.buffer)))
              /\ SwiftStep(c) = Measured(c, Unsigned(PrefixedLength(c.buffer)))
         /\ c.state = "Message" /\ HasMessage(c) =>
              /\ PrefixLength + c.length > 0 => KotlinStep(c) = Delivered(c)
              /\ ~(PrefixLength + c.length > 0) => KotlinStep(c) = CrashedAt(c)
              /\ SwiftStep(c) = Delivered(c)
         /\ Waiting(c) => KotlinStep(c) = c /\ SwiftStep(c) = c
<1>1. c = [state |-> c.state, length |-> c.length, buffer |-> c.buffer, out |-> c.out]
  BY DEF Processors
<1>2. CASE c.state = "CompressionFlag" /\ c.buffer # <<>>
  BY <1>1, <1>2 DEF KotlinStep, SwiftStep, Flagged, Waiting
<1>3. CASE c.state = "MessageLength" /\ HasPrefix(c)
  BY <1>1, <1>3 DEF KotlinStep, SwiftStep, Measured, Waiting
<1>4. CASE c.state = "Message" /\ HasMessage(c)
  <2>1. Deliver(c) = Delivered(c)
    <3>. DEFINE rest == Rest(c)
                out == Append(c.out, SubSeq(c.buffer, PrefixLength + 1, PrefixLength + c.length))
    <3>1. Deliver(c) = [c EXCEPT !.state = "CompressionFlag", !.buffer = rest,
                                 !.length = 0, !.out = out]
      BY DEF Deliver
    <3>2. Delivered(c) = [state |-> "CompressionFlag", length |-> 0, buffer |-> rest, out |-> out]
      BY DEF Delivered
    <3>. HIDE DEF rest, out
    <3>. QED
      BY <1>1, <3>1, <3>2
  <2>2. [c EXCEPT !.state = "Crashed", !.out = Append(@, <<>>)] = CrashedAt(c)
    <3>. DEFINE more == Append(c.out, <<>>)
                d == [c EXCEPT !.state = "Crashed", !.out = more]
                e == CrashedAt(c)
    <3>1. c.out \in Seq(Seq(Byte)) /\ <<>> \in Seq(Byte)
      BY DEF Processors
    <3>2. more \in Seq(Seq(Byte))
      BY <3>1
    <3>3. e = [state |-> "Crashed", length |-> c.length, buffer |-> c.buffer, out |-> more]
      BY DEF CrashedAt
    <3>. HIDE DEF more, e
    <3>4. d \in Processors /\ e \in Processors
      BY <3>2, <3>3 DEF Processors
    <3>5. d.state = "Crashed" /\ d.length = c.length /\ d.buffer = c.buffer /\ d.out = more
      BY <3>2 DEF Processors
    <3>. HIDE DEF d
    <3>6. d = e
      BY <3>3, <3>4, <3>5 DEF Processors
    <3>. QED
      BY <3>6 DEF d, e, more
  <2>3. KotlinStep(c) = IF PrefixLength + c.length > 0 THEN Deliver(c)
                        ELSE [c EXCEPT !.state = "Crashed", !.out = Append(@, <<>>)]
    BY <1>4 DEF KotlinStep
  <2>4. SwiftStep(c) = Deliver(c)
    BY <1>4 DEF SwiftStep
  <2>. QED
    BY <1>4, <2>1, <2>2, <2>3, <2>4 DEF Waiting
<1>5. CASE Waiting(c)
  BY <1>5 DEF KotlinStep, SwiftStep, Waiting
<1>. QED
  BY <1>2, <1>3, <1>4, <1>5 DEF Waiting

\* A length that was read is a number, and for Swift not a negative one.
LEMMA ReadsANumber ==
  ASSUME NEW bytes \in Seq(Byte)
  PROVE  /\ Signed(bytes) \in Int
         /\ Unsigned(bytes) \in Nat
<1>0. Len(bytes) \in Nat /\ Base \in Nat /\ Byte \subseteq Nat
  BY GrpcAssumption DEF Byte
<1>1. ASSUME NEW start \in Int PROVE ReadBigEndian(start, bytes) \in Int
  <2>1. PICK v : Reading(v, start, bytes) /\ ReadBigEndian(start, bytes) = v[Len(bytes)]
    BY ReadLoop
  <2>. QED
    BY <1>0, <2>1 DEF Reading
<1>2. ReadBigEndian(0, bytes) \in Nat
  <2>1. PICK v : Reading(v, 0, bytes) /\ ReadBigEndian(0, bytes) = v[Len(bytes)]
    BY ReadLoop
  <2>. DEFINE T == {i \in 0 .. Len(bytes) : v[i] \in Nat}
  <2>2. 0 \in T
    BY <1>0, <2>1 DEF Reading
  <2>3. ASSUME NEW i \in 1 .. Len(bytes), i - 1 \in T PROVE i \in T
    <3>1. v[i - 1] \in Nat /\ v[i] = v[i - 1] * Base + bytes[i] /\ i \in 0 .. Len(bytes)
      BY <1>0, <2>1, <2>3 DEF Reading
    <3>2. bytes[i] \in Byte
      OBVIOUS
    <3>3. v[i - 1] * Base \in Nat
      BY <1>0, <3>1
    <3>4. bytes[i] \in Nat
      BY <1>0, <3>2
    <3>5. v[i] \in Nat
      BY <3>1, <3>3, <3>4
    <3>. QED
      BY <3>1, <3>5
  <2>4. \A i \in 0 .. Len(bytes) : i \in T
    <3>. HIDE DEF T
    <3>. QED
      BY <1>0, <2>2, <2>3, Counting
  <2>. QED
    BY <1>0, <2>1, <2>4
<1>3. (IF bytes[1] < Base \div 2 THEN 0 ELSE -1) \in Int
  OBVIOUS
<1>. QED
  BY <1>1, <1>2, <1>3 DEF Signed, Unsigned

\* The bytes of the length, once the prefix is in the buffer.
LEMMA PrefixedBytes ==
  ASSUME NEW buffer \in Seq(Byte), Len(buffer) >= PrefixLength
  PROVE  /\ PrefixedLength(buffer) \in Seq(Byte) /\ Len(PrefixedLength(buffer)) = LengthBytes
         /\ \A i \in 1 .. LengthBytes : PrefixedLength(buffer)[i] = buffer[1 + i]
<1>1. LengthBytes \in Nat \ {0} /\ PrefixLength = 1 + LengthBytes
  BY GrpcAssumption DEF PrefixLength
<1>. DEFINE part == SubSeq(buffer, 2, PrefixLength)
<1>2. /\ part \in Seq(Byte) /\ Len(part) = IF 2 <= PrefixLength THEN PrefixLength - 2 + 1 ELSE 0
      /\ \A i \in 1 .. PrefixLength - 2 + 1 : part[i] = buffer[2 + i - 1]
  <2>1. 2 \in Nat /\ 2 > 0 /\ PrefixLength \in Int /\ PrefixLength <= Len(buffer)
    BY <1>1
  <2>. QED
    BY <2>1, PartOf
<1>3. PrefixedLength(buffer) = part
  BY DEF PrefixedLength
<1>. HIDE DEF part
<1>. QED
  BY <1>1, <1>2, <1>3

\* The parts of the buffer that Deliver passes on and keeps.
LEMMA DeliveredParts ==
  ASSUME NEW c \in Processors, HasMessage(c), PrefixLength + c.length > 0,
         NEW message, message = SubSeq(c.buffer, PrefixLength + 1, PrefixLength + c.length)
  PROVE  /\ message \in Seq(Byte) /\ (c.length >= 0 => Len(message) = c.length)
         /\ \A i \in 1 .. c.length : message[i] = c.buffer[PrefixLength + i]
         /\ Rest(c) \in Seq(Byte) /\ Len(Rest(c)) = Len(c.buffer) - PrefixLength - c.length
         /\ \A i \in 1 .. Len(Rest(c)) : Rest(c)[i] = c.buffer[PrefixLength + c.length + i]
<1>1. /\ PrefixLength \in Nat /\ c.length \in Int /\ c.buffer \in Seq(Byte)
      /\ Len(c.buffer) \in Nat /\ Len(c.buffer) >= c.length + PrefixLength
  BY GrpcAssumption DEF Processors, PrefixLength, HasMessage
<1>. DEFINE a == PrefixLength + 1  b == PrefixLength + c.length
            x == b + 1  y == Len(c.buffer)  rest == SubSeq(c.buffer, x, y)
<1>2. /\ a \in Nat /\ a > 0 /\ b \in Int /\ b <= Len(c.buffer)
      /\ x \in Nat /\ x > 0 /\ y \in Int /\ y <= Len(c.buffer)
  BY <1>1
<1>3. Rest(c) = rest
  BY DEF Rest
<1>4. message = SubSeq(c.buffer, a, b)
  OBVIOUS
<1>. HIDE DEF a, b, x, y
<1>5. /\ message \in Seq(Byte) /\ Len(message) = IF a <= b THEN b - a + 1 ELSE 0
      /\ \A i \in 1 .. b - a + 1 : message[i] = c.buffer[a + i - 1]
  <2>. DEFINE part == SubSeq(c.buffer, a, b)
  <2>1. /\ part \in Seq(Byte) /\ Len(part) = IF a <= b THEN b - a + 1 ELSE 0
        /\ \A i \in 1 .. b - a + 1 : part[i] = c.buffer[a + i - 1]
    <3>1. c.buffer \in Seq(Byte) /\ a \in Nat /\ a > 0 /\ b \in Int /\ b <= Len(c.buffer)
      BY <1>1, <1>2
    <3>. QED
      BY <3>1, PartOf, Zenon
  <2>2. message = part
    BY <1>4
  <2>. HIDE DEF part
  <2>. QED
    BY <2>1, <2>2
<1>6. /\ rest \in Seq(Byte) /\ Len(rest) = IF x <= y THEN y - x + 1 ELSE 0
      /\ \A i \in 1 .. y - x + 1 : rest[i] = c.buffer[x + i - 1]
  BY <1>1, <1>2, PartOf
<1>. HIDE DEF rest
<1>7. /\ c.length >= 0 => Len(message) = c.length
      /\ \A i \in 1 .. c.length : message[i] = c.buffer[PrefixLength + i]
  <2>1. b - a + 1 = c.length /\ (c.length >= 0 /\ ~(a <= b) => c.length = 0)
    BY <1>1 DEF a, b
  <2>2. \A i \in Int : a + i - 1 = PrefixLength + i
    BY <1>1 DEF a
  <2>3. c.length >= 0 => Len(message) = c.length
    BY <1>2, <1>5, <2>1
  <2>4. ASSUME NEW i \in 1 .. c.length PROVE message[i] = c.buffer[PrefixLength + i]
    <3>1. i \in Int /\ i \in 1 .. b - a + 1
      BY <2>1
    <3>2. message[i] = c.buffer[a + i - 1]
      BY <1>5, <3>1
    <3>. QED
      BY <2>2, <3>1, <3>2
  <2>. QED
    BY <2>3, <2>4
<1>8. /\ Len(rest) = Len(c.buffer) - PrefixLength - c.length
      /\ \A i \in 1 .. Len(rest) : rest[i] = c.buffer[PrefixLength + c.length + i]
  <2>1. /\ y - x + 1 = Len(c.buffer) - PrefixLength - c.length
        /\ ~(x <= y) => Len(c.buffer) - PrefixLength - c.length = 0
    BY <1>1 DEF x, y, b
  <2>2. \A i \in Int : x + i - 1 = PrefixLength + c.length + i
    BY <1>1 DEF x, b
  <2>3. Len(rest) = y - x + 1
    BY <1>2, <1>6, <2>1
  <2>4. ASSUME NEW i \in 1 .. Len(rest) PROVE rest[i] = c.buffer[PrefixLength + c.length + i]
    <3>1. i \in Int /\ i \in 1 .. y - x + 1
      BY <2>3
    <3>2. rest[i] = c.buffer[x + i - 1]
      BY <1>6, <3>1
    <3>. QED
      BY <2>2, <3>1, <3>2
  <2>. QED
    BY <2>1, <2>3, <2>4
<1>. QED
  BY <1>3, <1>5, <1>6, <1>7, <1>8

\* Deliver leaves a processor, also with a negative length that Kotlin accepts.
LEMMA DeliveredType ==
  ASSUME NEW c \in Processors, HasMessage(c), PrefixLength + c.length > 0
  PROVE  Delivered(c) \in Processors
<1>. DEFINE message == SubSeq(c.buffer, PrefixLength + 1, PrefixLength + c.length)
<1>1. message \in Seq(Byte) /\ Rest(c) \in Seq(Byte)
  BY DeliveredParts
<1>2. Delivered(c) = [state |-> "CompressionFlag", length |-> 0, buffer |-> Rest(c),
                      out |-> Append(c.out, message)]
  BY DEF Delivered
<1>. HIDE DEF message
<1>3. c.out \in Seq(Seq(Byte))
  BY DEF Processors
<1>4. Append(c.out, message) \in Seq(Seq(Byte))
  BY <1>1, <1>3
<1>. QED
  BY <1>1, <1>2, <1>4 DEF Processors

\* An upper bound of the calls that are left.
Measure(c) ==
  3 * Len(c.buffer) + (IF c.state = "CompressionFlag" THEN 2
                       ELSE IF c.state = "MessageLength" THEN 1 ELSE 0)

\* The measure stays below the bound on the calls.
LEMMA MeasureBound ==
  ASSUME NEW c \in Processors
  PROVE  Measure(c) \in Nat /\ Calls(c) \in Nat /\ Measure(c) < Calls(c)
<1>. DEFINE n == Len(c.buffer)
            k == IF c.state = "CompressionFlag" THEN 2
                 ELSE IF c.state = "MessageLength" THEN 1 ELSE 0
<1>1. n \in Nat /\ k \in 0 .. 2
  BY DEF Processors
<1>2. Measure(c) = 3 * n + k /\ Calls(c) = 3 * (n + 1)
  BY DEF Measure, Calls
<1>. HIDE DEF n, k
<1>. QED
  BY <1>1, <1>2

\* A call of processData goes on to wait, or comes nearer to it.
LEMMA KotlinStepType ==
  ASSUME NEW c \in Processors
  PROVE  /\ KotlinStep(c) \in Processors
         /\ Waiting(c) \/ Waiting(KotlinStep(c)) \/ Measure(KotlinStep(c)) < Measure(c)
<1>0. /\ c.length \in Int /\ c.buffer \in Seq(Byte) /\ Len(c.buffer) \in Nat
      /\ c.out \in Seq(Seq(Byte)) /\ <<>> \in Seq(Byte) /\ Len(<<>>) = 0
      /\ PrefixLength \in Nat
  BY GrpcAssumption DEF Processors, PrefixLength
<1>. DEFINE d == KotlinStep(c)
<1>1. CASE c.state = "CompressionFlag" /\ c.buffer # <<>>
  <2>1. PICK b \in {c.buffer, <<>>} : d = Flagged(c, "MessageLength", b)
    BY <1>1, Arms
  <2>. HIDE DEF d
  <2>2. /\ d \in Processors /\ d.state = "MessageLength" /\ Len(d.buffer) \in Nat
        /\ Len(d.buffer) <= Len(c.buffer)
    <3>1. b \in Seq(Byte) /\ Len(b) \in Nat /\ Len(b) <= Len(c.buffer)
      <4>1. CASE b = c.buffer
        BY <1>0, <4>1
      <4>2. CASE b = <<>>
        BY <1>0, <4>2
      <4>. QED
        BY <4>1, <4>2
    <3>2. d \in Processors /\ d.state = "MessageLength" /\ d.buffer = b
      BY <1>0, <2>1, <3>1 DEF Flagged, Processors
    <3>. QED
      BY <3>1, <3>2
  <2>3. Measure(d) < Measure(c)
    BY <1>0, <1>1, <2>2 DEF Measure
  <2>. QED
    BY <2>2, <2>3 DEF d
<1>2. CASE c.state = "MessageLength" /\ HasPrefix(c)
  <2>1. d = Measured(c, Signed(PrefixedLength(c.buffer)))
    BY <1>2, Arms
  <2>2. Signed(PrefixedLength(c.buffer)) \in Int
    BY <1>0, <1>2, PrefixedBytes, ReadsANumber DEF HasPrefix
  <2>. HIDE DEF d
  <2>3. d \in Processors /\ d.state = "Message" /\ d.buffer = c.buffer
    BY <1>0, <2>1, <2>2 DEF Measured, Processors
  <2>4. Measure(d) < Measure(c)
    BY <1>0, <1>2, <2>3 DEF Measure
  <2>. QED
    BY <2>3, <2>4 DEF d
<1>3. CASE c.state = "Message" /\ HasMessage(c)
  <2>1. CASE PrefixLength + c.length > 0
    <3>1. d = Delivered(c)
      BY <1>3, <2>1, Arms
    <3>2. d \in Processors /\ Len(Rest(c)) = Len(c.buffer) - PrefixLength - c.length
      BY <1>3, <2>1, <3>1, DeliveredType, DeliveredParts
    <3>. HIDE DEF d
    <3>3. d.state = "CompressionFlag" /\ d.buffer = Rest(c)
      BY <3>1 DEF Delivered
    <3>4. Measure(d) < Measure(c)
      BY <1>0, <1>3, <2>1, <3>2, <3>3 DEF Measure
    <3>. QED
      BY <3>2, <3>4 DEF d
  <2>2. CASE ~(PrefixLength + c.length > 0)
    <3>1. d = CrashedAt(c)
      BY <1>3, <2>2, Arms
    <3>. HIDE DEF d
    <3>2. Append(c.out, <<>>) \in Seq(Seq(Byte))
      BY <1>0
    <3>3. d \in Processors /\ d.state = "Crashed"
      BY <1>0, <3>1, <3>2 DEF CrashedAt, Processors
    <3>. QED
      BY <3>3 DEF Waiting, d
  <2>. QED
    BY <2>1, <2>2
<1>4. CASE Waiting(c)
  BY <1>4, Arms
<1>. QED
  BY <1>1, <1>2, <1>3, <1>4 DEF Waiting

\* The length that Swift reads is never negative.
SwiftProcessors == {c \in Processors : c.length \in Nat}

\* A call of processBuffer comes nearer to waiting.
LEMMA SwiftStepType ==
  ASSUME NEW c \in SwiftProcessors
  PROVE  /\ SwiftStep(c) \in SwiftProcessors
         /\ Waiting(c) \/ Measure(SwiftStep(c)) < Measure(c)
<1>0. /\ c \in Processors /\ c.length \in Nat /\ c.buffer \in Seq(Byte) /\ Len(c.buffer) \in Nat
      /\ c.out \in Seq(Seq(Byte)) /\ <<>> \in Seq(Byte) /\ Len(<<>>) = 0
      /\ PrefixLength \in Nat \ {0}
  BY GrpcAssumption DEF SwiftProcessors, Processors, PrefixLength
<1>. DEFINE d == SwiftStep(c)
<1>1. CASE c.state = "CompressionFlag" /\ c.buffer # <<>>
  <2>0. Len(c.buffer) > 0
    BY <1>0, <1>1
  <2>1. CASE c.buffer[1] = 0
    <3>1. d = Flagged(c, "MessageLength", c.buffer)
      BY <1>0, <1>1, <2>1, Arms
    <3>. HIDE DEF d
    <3>2. d \in SwiftProcessors /\ d.state = "MessageLength" /\ d.buffer = c.buffer
      BY <1>0, <3>1 DEF Flagged, Processors, SwiftProcessors
    <3>3. Measure(d) < Measure(c)
      BY <1>0, <1>1, <3>2 DEF Measure
    <3>. QED
      BY <3>2, <3>3 DEF d
  <2>2. CASE c.buffer[1] # 0
    <3>1. d = Flagged(c, "CompressionFlag", <<>>)
      BY <1>0, <1>1, <2>2, Arms
    <3>. HIDE DEF d
    <3>2. d \in SwiftProcessors /\ d.state = "CompressionFlag" /\ d.buffer = <<>>
      BY <1>0, <3>1 DEF Flagged, Processors, SwiftProcessors
    <3>3. Measure(d) < Measure(c)
      BY <1>0, <1>1, <2>0, <3>2 DEF Measure
    <3>. QED
      BY <3>2, <3>3 DEF d
  <2>. QED
    BY <2>1, <2>2
<1>2. CASE c.state = "MessageLength" /\ HasPrefix(c)
  <2>1. d = Measured(c, Unsigned(PrefixedLength(c.buffer)))
    BY <1>0, <1>2, Arms
  <2>2. Unsigned(PrefixedLength(c.buffer)) \in Nat
    BY <1>0, <1>2, PrefixedBytes, ReadsANumber DEF HasPrefix
  <2>. HIDE DEF d
  <2>3. d \in SwiftProcessors /\ d.state = "Message" /\ d.buffer = c.buffer
    BY <1>0, <2>1, <2>2 DEF Measured, Processors, SwiftProcessors
  <2>4. Measure(d) < Measure(c)
    BY <1>0, <1>2, <2>3 DEF Measure
  <2>. QED
    BY <2>3, <2>4 DEF d
<1>3. CASE c.state = "Message" /\ HasMessage(c)
  <2>0. PrefixLength + c.length > 0
    BY <1>0
  <2>1. d = Delivered(c)
    BY <1>0, <1>3, Arms
  <2>2. d \in Processors /\ Len(Rest(c)) = Len(c.buffer) - PrefixLength - c.length
    BY <1>0, <1>3, <2>0, <2>1, DeliveredType, DeliveredParts
  <2>. HIDE DEF d
  <2>3. d.state = "CompressionFlag" /\ d.buffer = Rest(c) /\ d.length = 0
    BY <2>1 DEF Delivered
  <2>4. Measure(d) < Measure(c)
    BY <1>0, <1>3, <2>0, <2>2, <2>3 DEF Measure
  <2>. QED
    BY <2>2, <2>3, <2>4 DEF d, SwiftProcessors
<1>4. CASE Waiting(c)
  BY <1>0, <1>4, Arms
<1>. QED
  BY <1>1, <1>2, <1>3, <1>4 DEF Waiting
-----------------------------------------------------------------------------
(* All calls for a chunk *)

\* The states that the calls of processData, and of processBuffer, pass.
KotlinLoops(f, c) ==
  /\ f \in [0 .. Calls(c) -> Processors] /\ f[0] = c
  /\ \A i \in 1 .. Calls(c) : f[i] = KotlinStep(f[i - 1])
SwiftLoops(f, c) ==
  /\ f \in [0 .. Calls(c) -> SwiftProcessors] /\ f[0] = c
  /\ \A i \in 1 .. Calls(c) : f[i] = SwiftStep(f[i - 1])

\* processData is its calls, one after the other.
LEMMA KotlinLoop ==
  ASSUME NEW c \in Processors
  PROVE  \E f : KotlinLoops(f, c) /\ processData(c) = f[Calls(c)]
<1>. DEFINE n == Calls(c)
            Loop(g) == g = [i \in 0 .. n |-> IF i = 0 THEN c ELSE KotlinStep(g[i - 1])]
            step == [i \in 1 .. n |-> [x \in Processors |-> KotlinStep(x)]]
            q == CHOOSE g : Loop(g)
<1>1. n \in Nat /\ \A x \in Processors : KotlinStep(x) \in Processors
  <2>1. c \in Processors
    BY DEF SwiftProcessors
  <2>2. Len(c.buffer) \in Nat
    BY <2>1 DEF Processors
  <2>. QED
    BY <2>2, KotlinStepType DEF Calls
<1>2. processData(c) = q[n]
  BY DEF processData
<1>3. /\ step \in [1 .. n -> [Processors -> Processors]]
      /\ \A i \in 1 .. n, x \in Processors : step[i][x] = KotlinStep(x)
  BY <1>1
<1>. HIDE DEF step, n
<1>4. PICK f : Rounds(f, n, Processors, c, step)
  BY <1>1, <1>3, LoopExists, Zenon
<1>5. Loop(f)
  <2>1. /\ f = [i \in 0 .. n |-> f[i]] /\ f[0] = c
        /\ \A i \in 1 .. n : f[i - 1] \in Processors /\ f[i] = step[i][f[i - 1]]
    BY <1>1, <1>4, RoundsValues
  <2>2. \A i \in 0 .. n : f[i] = IF i = 0 THEN c ELSE KotlinStep(f[i - 1])
    <3>. SUFFICES ASSUME NEW i \in 0 .. n, i # 0 PROVE f[i] = KotlinStep(f[i - 1])
      BY <2>1
    <3>1. i \in 1 .. n
      BY <1>1
    <3>. QED
      BY <1>3, <2>1, <3>1
  <2>. QED
    BY <2>1, <2>2
<1>6. Loop(q)
  <2>. HIDE DEF Loop
  <2>. QED
    BY <1>5, Zenon
<1>. HIDE DEF q
<1>7. /\ q = [i \in 0 .. n |-> q[i]] /\ q[0] = c
      /\ \A i \in 1 .. n : q[i] = KotlinStep(q[i - 1])
  <2>1. n \in Nat
    BY <1>1
  <2>. QED
    BY <1>6, <2>1
<1>8. Rounds(q, n, Processors, c, step)
  <2>1. \A i \in 1 .. n : q[i - 1] \in Processors => q[i] = step[i][q[i - 1]]
    BY <1>3, <1>7
  <2>. HIDE DEF Loop
  <2>. QED
    BY <1>1, <1>3, <1>7, <2>1, LoopIs
<1>9. KotlinLoops(q, c)
  BY <1>7, <1>8 DEF Rounds, KotlinLoops, n
<1>. QED
  BY <1>2, <1>9 DEF n

\* processBuffer is its calls, one after the other.
LEMMA SwiftLoop ==
  ASSUME NEW c \in SwiftProcessors
  PROVE  \E f : SwiftLoops(f, c) /\ processBuffer(c) = f[Calls(c)]
<1>. DEFINE n == Calls(c)
            Loop(g) == g = [i \in 0 .. n |-> IF i = 0 THEN c ELSE SwiftStep(g[i - 1])]
            step == [i \in 1 .. n |-> [x \in SwiftProcessors |-> SwiftStep(x)]]
            q == CHOOSE g : Loop(g)
<1>1. n \in Nat /\ \A x \in SwiftProcessors : SwiftStep(x) \in SwiftProcessors
  <2>1. c \in Processors
    BY DEF SwiftProcessors
  <2>2. Len(c.buffer) \in Nat
    BY <2>1 DEF Processors
  <2>. QED
    BY <2>2, SwiftStepType DEF Calls
<1>2. processBuffer(c) = q[n]
  BY DEF processBuffer
<1>3. /\ step \in [1 .. n -> [SwiftProcessors -> SwiftProcessors]]
      /\ \A i \in 1 .. n, x \in SwiftProcessors : step[i][x] = SwiftStep(x)
  BY <1>1
<1>. HIDE DEF step, n
<1>4. PICK f : Rounds(f, n, SwiftProcessors, c, step)
  BY <1>1, <1>3, LoopExists, Zenon
<1>5. Loop(f)
  <2>1. /\ f = [i \in 0 .. n |-> f[i]] /\ f[0] = c
        /\ \A i \in 1 .. n : f[i - 1] \in SwiftProcessors /\ f[i] = step[i][f[i - 1]]
    BY <1>1, <1>4, RoundsValues
  <2>2. \A i \in 0 .. n : f[i] = IF i = 0 THEN c ELSE SwiftStep(f[i - 1])
    <3>. SUFFICES ASSUME NEW i \in 0 .. n, i # 0 PROVE f[i] = SwiftStep(f[i - 1])
      BY <2>1
    <3>1. i \in 1 .. n
      BY <1>1
    <3>. QED
      BY <1>3, <2>1, <3>1
  <2>. QED
    BY <2>1, <2>2
<1>6. Loop(q)
  <2>. HIDE DEF Loop
  <2>. QED
    BY <1>5, Zenon
<1>. HIDE DEF q
<1>7. /\ q = [i \in 0 .. n |-> q[i]] /\ q[0] = c
      /\ \A i \in 1 .. n : q[i] = SwiftStep(q[i - 1])
  <2>1. n \in Nat
    BY <1>1
  <2>. QED
    BY <1>6, <2>1
<1>8. Rounds(q, n, SwiftProcessors, c, step)
  <2>1. \A i \in 1 .. n : q[i - 1] \in SwiftProcessors => q[i] = step[i][q[i - 1]]
    BY <1>3, <1>7
  <2>. HIDE DEF Loop
  <2>. QED
    BY <1>1, <1>3, <1>7, <2>1, LoopIs
<1>9. SwiftLoops(q, c)
  BY <1>7, <1>8 DEF Rounds, SwiftLoops, n
<1>. QED
  BY <1>2, <1>9 DEF n

\* The calls of processData end with one that has to wait.
LEMMA KotlinLoopEnds ==
  ASSUME NEW c \in Processors, NEW f, KotlinLoops(f, c)
  PROVE  Waiting(f[Calls(c)])
<1>. DEFINE T == {i \in 0 .. Calls(c) : Waiting(f[i]) \/ Measure(f[i]) + i < Calls(c)}
<1>1. /\ f \in [0 .. Calls(c) -> Processors] /\ f[0] = c
      /\ \A i \in 1 .. Calls(c) : f[i] = KotlinStep(f[i - 1])
  BY DEF KotlinLoops
<1>2. \A x \in Processors : x \in Processors
  BY DEF SwiftProcessors
<1>3. \A x \in Processors : Measure(x) \in Nat
  BY <1>2, MeasureBound
<1>4. Calls(c) \in Nat /\ Measure(c) < Calls(c)
  BY <1>2, MeasureBound
<1>5. 0 \in T
  BY <1>1, <1>3, <1>4
<1>6. ASSUME NEW i \in 1 .. Calls(c), i - 1 \in T PROVE i \in T
  <2>. DEFINE x == f[i - 1]  y == f[i]
  <2>1. i - 1 \in 0 .. Calls(c) /\ i \in 0 .. Calls(c)
    BY <1>4
  <2>2. x \in Processors /\ y \in Processors /\ y = KotlinStep(x)
    BY <1>1, <2>1
  <2>3. Measure(x) \in Nat /\ Measure(y) \in Nat /\ x \in Processors
    BY <1>2, <1>3, <2>2
  <2>4. Waiting(x) \/ Measure(x) + (i - 1) < Calls(c)
    BY <1>6
  <2>5. Waiting(x) => y = x
    BY <2>2, <2>3, Arms
  <2>6. Waiting(x) \/ Waiting(y) \/ Measure(y) < Measure(x)
    BY <2>2, KotlinStepType
  <2>. HIDE DEF x, y
  <2>7. Waiting(y) \/ Measure(y) + i < Calls(c)
    BY <1>4, <2>3, <2>4, <2>5, <2>6
  <2>. QED
    BY <2>1, <2>7 DEF y
<1>7. \A i \in 0 .. Calls(c) : i \in T
  <2>. HIDE DEF T
  <2>. QED
    BY <1>4, <1>5, <1>6, Counting
<1>8. Calls(c) \in 0 .. Calls(c) /\ f[Calls(c)] \in Processors
  BY <1>1, <1>4
<1>9. Measure(f[Calls(c)]) \in Nat
  BY <1>3, <1>8
<1>. QED
  BY <1>4, <1>7, <1>8, <1>9

\* The calls of processBuffer end with one that has to wait.
LEMMA SwiftLoopEnds ==
  ASSUME NEW c \in SwiftProcessors, NEW f, SwiftLoops(f, c)
  PROVE  Waiting(f[Calls(c)])
<1>. DEFINE T == {i \in 0 .. Calls(c) : Waiting(f[i]) \/ Measure(f[i]) + i < Calls(c)}
<1>1. /\ f \in [0 .. Calls(c) -> SwiftProcessors] /\ f[0] = c
      /\ \A i \in 1 .. Calls(c) : f[i] = SwiftStep(f[i - 1])
  BY DEF SwiftLoops
<1>2. \A x \in SwiftProcessors : x \in Processors
  BY DEF SwiftProcessors
<1>3. \A x \in SwiftProcessors : Measure(x) \in Nat
  BY <1>2, MeasureBound
<1>4. Calls(c) \in Nat /\ Measure(c) < Calls(c)
  BY <1>2, MeasureBound
<1>5. 0 \in T
  BY <1>1, <1>3, <1>4
<1>6. ASSUME NEW i \in 1 .. Calls(c), i - 1 \in T PROVE i \in T
  <2>. DEFINE x == f[i - 1]  y == f[i]
  <2>1. i - 1 \in 0 .. Calls(c) /\ i \in 0 .. Calls(c)
    BY <1>4
  <2>2. x \in SwiftProcessors /\ y \in SwiftProcessors /\ y = SwiftStep(x)
    BY <1>1, <2>1
  <2>3. Measure(x) \in Nat /\ Measure(y) \in Nat /\ x \in Processors
    BY <1>2, <1>3, <2>2
  <2>4. Waiting(x) \/ Measure(x) + (i - 1) < Calls(c)
    BY <1>6
  <2>5. Waiting(x) => y = x
    BY <2>2, <2>3, Arms
  <2>6. Waiting(x) \/ Waiting(y) \/ Measure(y) < Measure(x)
    BY <2>2, SwiftStepType
  <2>. HIDE DEF x, y
  <2>7. Waiting(y) \/ Measure(y) + i < Calls(c)
    BY <1>4, <2>3, <2>4, <2>5, <2>6
  <2>. QED
    BY <2>1, <2>7 DEF y
<1>7. \A i \in 0 .. Calls(c) : i \in T
  <2>. HIDE DEF T
  <2>. QED
    BY <1>4, <1>5, <1>6, Counting
<1>8. Calls(c) \in 0 .. Calls(c) /\ f[Calls(c)] \in SwiftProcessors
  BY <1>1, <1>4
<1>9. Measure(f[Calls(c)]) \in Nat
  BY <1>3, <1>8
<1>. QED
  BY <1>4, <1>7, <1>8, <1>9

\* processData and processBuffer call themselves until they have to wait for
\* more data: the bound Calls cuts neither recursion short.
THEOREM ProcessingEnds ==
  /\ \A c \in Processors : /\ processData(c) \in Processors
                            /\ KotlinStep(processData(c)) = processData(c)
  /\ \A c \in SwiftProcessors : /\ processBuffer(c) \in SwiftProcessors
                                 /\ SwiftStep(processBuffer(c)) = processBuffer(c)
<1>1. \A x \in SwiftProcessors : x \in Processors
  BY DEF SwiftProcessors
<1>2. \A x \in Processors : Calls(x) \in Nat
  BY DEF Calls, Processors
<1>3. ASSUME NEW c \in Processors
      PROVE  processData(c) \in Processors /\ KotlinStep(processData(c)) = processData(c)
  <2>1. PICK f : KotlinLoops(f, c) /\ processData(c) = f[Calls(c)]
    BY KotlinLoop
  <2>2. f[Calls(c)] \in Processors
    BY <1>2, <2>1 DEF KotlinLoops
  <2>3. Waiting(f[Calls(c)])
    BY <2>1, KotlinLoopEnds
  <2>. QED
    BY <2>1, <2>2, <2>3, Arms
<1>4. ASSUME NEW c \in SwiftProcessors
      PROVE  processBuffer(c) \in SwiftProcessors /\ SwiftStep(processBuffer(c)) = processBuffer(c)
  <2>1. PICK f : SwiftLoops(f, c) /\ processBuffer(c) = f[Calls(c)]
    BY SwiftLoop
  <2>2. f[Calls(c)] \in SwiftProcessors
    BY <1>1, <1>2, <2>1 DEF SwiftLoops
  <2>3. Waiting(f[Calls(c)])
    BY <2>1, SwiftLoopEnds
  <2>. QED
    BY <1>1, <2>1, <2>2, <2>3, Arms
<1>. QED
  BY <1>3, <1>4
-----------------------------------------------------------------------------
(* A processor on the peer's stream *)

\* The bytes that follow the first from bytes of the stream of the messages ms.
Streams(bytes, from, ms) ==
  \A k \in 1 .. Len(ms), at \in 1 .. Len(bytes) :
    \A j \in 1 .. Len(Framed(ms[k])) :
      EndOf(ms, k - 1) + j = from + at => bytes[at] = Framed(ms[k])[j]

\* The first k messages are not compressed, and have been passed on.
Passed(out, ms, k) ==
  \A i \in 1 .. k : ms[i].flag = 0 /\ out[i] = ms[i].payload

\* n bytes of the stream have come, and the processor is at their frames.
Following(c, ms, n) ==
  LET m == Len(c.out) IN
  /\ c \in Processors /\ c.state # "Crashed" /\ c.length \in Nat
  /\ m <= Len(ms) /\ Passed(c.out, ms, m)
  /\ EndOf(ms, m) + Len(c.buffer) = n /\ n <= EndOf(ms, Len(ms))
  /\ Streams(c.buffer, EndOf(ms, m), ms)
  /\ c.state # "CompressionFlag" => c.buffer # <<>> /\ ms[m + 1].flag = 0
  /\ c.state = "Message" => HasPrefix(c) /\ c.length = Len(ms[m + 1].payload)

\* A compressed message has begun to come, and was dropped; what was passed on
\* before it stays.
Lost(c, ms, n) ==
  \E p \in 1 .. Len(ms) :
    /\ ms[p].flag # 0 /\ EndOf(ms, p - 1) < n
    /\ p - 1 <= Len(c.out) /\ Passed(c.out, ms, p - 1)

\* The prefix is never empty.
LEMMA PrefixLengthType ==
  LengthBytes \in Nat \ {0} /\ PrefixLength = 1 + LengthBytes /\ PrefixLength \in Nat
BY GrpcAssumption DEF PrefixLength

\* What a processor that follows the stream has in its buffer: the head of the
\* frame of the next message.
LEMMA AtFrame ==
  ASSUME NEW ms \in Seq(Messages), NEW n \in Nat, NEW c, Following(c, ms, n), c.buffer # <<>>,
         NEW k, k = Len(c.out) + 1
  PROVE  /\ k \in 1 .. Len(ms) /\ k - 1 = Len(c.out) /\ ms[k] \in Messages
         /\ \A j \in 1 .. Len(c.buffer) :
              j <= Len(Framed(ms[k])) => c.buffer[j] = Framed(ms[k])[j]
         /\ c.buffer[1] = ms[k].flag
<1>1. /\ c \in Processors /\ Len(c.out) <= Len(ms)
      /\ EndOf(ms, Len(c.out)) + Len(c.buffer) = n /\ n <= EndOf(ms, Len(ms))
      /\ Streams(c.buffer, EndOf(ms, Len(c.out)), ms)
  BY DEF Following
<1>2. c.buffer \in Seq(Byte) /\ Len(c.buffer) \in Nat /\ Len(c.out) \in Nat /\ Len(ms) \in Nat
  BY <1>1 DEF Processors
<1>3. Len(c.buffer) > 0
  BY <1>2
<1>4. EndOf(ms, Len(ms)) \in Nat /\ EndOf(ms, Len(c.out)) \in Nat
  BY <1>1, <1>2, EndOfStep
<1>5. Len(c.out) # Len(ms)
  BY <1>1, <1>2, <1>3, <1>4
<1>6. k \in 1 .. Len(ms) /\ k - 1 = Len(c.out)
  BY <1>1, <1>2, <1>5
<1>7. ms[k] \in Messages
  BY <1>6
<1>8. /\ Len(Framed(ms[k])) = PrefixLength + Len(ms[k].payload) /\ Len(ms[k].payload) \in Nat
      /\ Framed(ms[k])[1] = ms[k].flag
  BY <1>7, FrameParts, MessageType
<1>. DEFINE l == Len(Framed(ms[k]))  w == Len(ms[k].payload)
<1>9. l \in Nat /\ 1 <= l
  <2>1. l = PrefixLength + w /\ w \in Nat
    BY <1>8
  <2>. HIDE DEF l, w
  <2>. QED
    BY <2>1, PrefixLengthType
<1>10. ASSUME NEW j \in 1 .. Len(c.buffer), j <= l
      PROVE  c.buffer[j] = Framed(ms[k])[j]
  <2>1. j \in 1 .. l
    <3>. HIDE DEF l
    <3>. QED
      BY <1>10, <1>9
  <2>. QED
    BY <1>1, <1>6, <2>1 DEF Streams
<1>11. 1 \in 1 .. Len(c.buffer) /\ 1 <= l
  BY <1>2, <1>3, <1>9
<1>. QED
  BY <1>6, <1>7, <1>8, <1>10, <1>11

\* The flag has been read.
LEMMA FlagRead ==
  ASSUME NEW ms \in Seq(Messages), NEW n \in Nat, NEW c, Following(c, ms, n),
         c.state = "CompressionFlag", c.buffer # <<>>
  PROVE  /\ c.buffer[1] = 0 => Following(Flagged(c, "MessageLength", c.buffer), ms, n)
         /\ c.buffer[1] # 0 => \A d : d.out = c.out => Lost(d, ms, n)
<1>. DEFINE m == Len(c.out)  k == m + 1
<1>1. /\ c \in Processors /\ c.length \in Nat /\ m <= Len(ms) /\ Passed(c.out, ms, m)
      /\ EndOf(ms, m) + Len(c.buffer) = n /\ n <= EndOf(ms, Len(ms))
      /\ Streams(c.buffer, EndOf(ms, m), ms)
  BY DEF Following
<1>2. c.buffer[1] = ms[k].flag /\ k \in 1 .. Len(ms) /\ k - 1 = m
  BY AtFrame
<1>3. /\ c.buffer \in Seq(Byte) /\ Len(c.buffer) \in Nat /\ c.out \in Seq(Seq(Byte)) /\ m \in Nat
  BY <1>1 DEF Processors
<1>4. Len(c.buffer) > 0 /\ EndOf(ms, m) \in Nat
  BY <1>1, <1>3, EndOfStep
<1>5. ASSUME c.buffer[1] = 0
      PROVE  Following(Flagged(c, "MessageLength", c.buffer), ms, n)
  <2>. DEFINE d == Flagged(c, "MessageLength", c.buffer)
  <2>1. /\ d.state = "MessageLength" /\ d.length = c.length /\ d.buffer = c.buffer /\ d.out = c.out
        /\ d \in Processors
    BY <1>1, <1>3 DEF Flagged, Processors
  <2>. HIDE DEF d
  <2>2. Following(d, ms, n)
    BY <1>1, <1>2, <1>5, <2>1 DEF Following
  <2>. QED
    BY <2>2 DEF d
<1>6. ASSUME c.buffer[1] # 0, NEW d, d.out = c.out PROVE Lost(d, ms, n)
  <2>1. EndOf(ms, k - 1) < n /\ k - 1 <= m
    BY <1>1, <1>2, <1>3, <1>4
  <2>. QED
    BY <1>1, <1>2, <1>6, <2>1 DEF Lost
<1>. QED
  BY <1>5, <1>6

\* The length has been read.
LEMMA LengthRead ==
  ASSUME NEW ms \in Seq(Messages), NEW n \in Nat, NEW c, Following(c, ms, n),
         c.state = "MessageLength", HasPrefix(c)
  PROVE  \E length : /\ Signed(PrefixedLength(c.buffer)) = length
                     /\ Unsigned(PrefixedLength(c.buffer)) = length
                     /\ Following(Measured(c, length), ms, n)
<1>. DEFINE m == Len(c.out)  k == m + 1  length == Len(ms[k].payload)
            bytes == PrefixedLength(c.buffer)
<1>1. /\ c \in Processors /\ m <= Len(ms) /\ Passed(c.out, ms, m)
      /\ EndOf(ms, m) + Len(c.buffer) = n /\ n <= EndOf(ms, Len(ms))
      /\ Streams(c.buffer, EndOf(ms, m), ms)
      /\ c.buffer # <<>> /\ ms[k].flag = 0
  BY DEF Following
<1>2. /\ k \in 1 .. Len(ms) /\ ms[k] \in Messages
      /\ \A j \in 1 .. Len(c.buffer) :
           j <= Len(Framed(ms[k])) => c.buffer[j] = Framed(ms[k])[j]
  BY <1>1, AtFrame
<1>3. /\ c.buffer \in Seq(Byte) /\ Len(c.buffer) \in Nat /\ c.out \in Seq(Seq(Byte))
      /\ Len(c.buffer) >= PrefixLength
  BY <1>1 DEF Processors, HasPrefix
<1>4. /\ length \in 0 .. MaxLength /\ length \in Nat
      /\ Len(Framed(ms[k])) = PrefixLength + length
      /\ \A i \in 1 .. LengthBytes : Framed(ms[k])[1 + i] = BigEndian(length)[i]
  BY <1>2, FrameParts, MessageType
<1>5. /\ bytes \in Seq(Byte) /\ Len(bytes) = LengthBytes
      /\ \A i \in 1 .. LengthBytes : bytes[i] = c.buffer[1 + i]
  BY <1>3, PrefixedBytes
<1>6. /\ BigEndian(length) \in Seq(Byte) /\ Len(BigEndian(length)) = LengthBytes
      /\ Signed(BigEndian(length)) = length /\ Unsigned(BigEndian(length)) = length
  BY <1>4, LengthIsReadBack
<1>. HIDE DEF length, bytes
<1>7. bytes = BigEndian(length)
  <2>1. ASSUME NEW i \in 1 .. LengthBytes PROVE bytes[i] = BigEndian(length)[i]
    <3>1. 1 + i \in 1 .. Len(c.buffer) /\ 1 + i <= Len(Framed(ms[k]))
      BY <1>3, <1>4, PrefixLengthType
    <3>. QED
      BY <1>2, <1>4, <1>5, <3>1
  <2>. QED
    BY <1>5, <1>6, <2>1
<1>. DEFINE d == Measured(c, length)
<1>8. /\ d.state = "Message" /\ d.length = length /\ d.buffer = c.buffer /\ d.out = c.out
      /\ d \in Processors
  BY <1>1, <1>3, <1>4 DEF Measured, Processors
<1>. HIDE DEF d
<1>9. HasPrefix(d)
  BY <1>3, <1>8 DEF HasPrefix
<1>10. Following(d, ms, n)
  BY <1>1, <1>4, <1>8, <1>9 DEF Following, length
<1>. QED
  BY <1>6, <1>7, <1>10 DEF d, bytes

\* The message has been delivered.
LEMMA MessageRead ==
  ASSUME NEW ms \in Seq(Messages), NEW n \in Nat, NEW c, Following(c, ms, n),
         c.state = "Message", HasMessage(c)
  PROVE  PrefixLength + c.length > 0 /\ Following(Delivered(c), ms, n)
<1>. DEFINE m == Len(c.out)  k == m + 1  payload == ms[k].payload
            message == SubSeq(c.buffer, PrefixLength + 1, PrefixLength + c.length)
            rest == Rest(c)
<1>1. /\ c \in Processors /\ c.length \in Nat /\ m <= Len(ms) /\ Passed(c.out, ms, m)
      /\ EndOf(ms, m) + Len(c.buffer) = n /\ n <= EndOf(ms, Len(ms))
      /\ Streams(c.buffer, EndOf(ms, m), ms)
      /\ c.buffer # <<>> /\ ms[k].flag = 0 /\ c.length = Len(payload)
  BY DEF Following
<1>2. /\ k \in 1 .. Len(ms) /\ ms[k] \in Messages /\ k - 1 = m
      /\ \A j \in 1 .. Len(c.buffer) :
           j <= Len(Framed(ms[k])) => c.buffer[j] = Framed(ms[k])[j]
  <2>1. c.buffer # <<>>
    BY <1>1
  <2>. QED
    BY <2>1, AtFrame
<1>3. /\ c.buffer \in Seq(Byte) /\ Len(c.buffer) \in Nat /\ c.out \in Seq(Seq(Byte))
      /\ m \in Nat /\ Len(ms) \in Nat /\ Len(c.buffer) >= c.length + PrefixLength
  BY <1>1 DEF Processors, HasMessage
<1>4. /\ payload \in Seq(Byte) /\ Len(Framed(ms[k])) = PrefixLength + c.length
      /\ \A i \in 1 .. c.length : Framed(ms[k])[PrefixLength + i] = payload[i]
  <2>1. /\ payload \in Seq(Byte) /\ Len(Framed(ms[k])) = PrefixLength + Len(payload)
        /\ \A i \in 1 .. Len(payload) : Framed(ms[k])[PrefixLength + i] = payload[i]
    BY <1>2, FrameParts, MessageType
  <2>2. c.length = Len(payload)
    BY <1>1
  <2>. HIDE DEF payload, k
  <2>. QED
    BY <2>1, <2>2
<1>5. PrefixLength + c.length > 0
  <2>1. c.length \in Nat
    BY <1>1
  <2>. QED
    BY <2>1, PrefixLengthType
<1>6. /\ message \in Seq(Byte) /\ Len(message) = c.length
      /\ \A i \in 1 .. c.length : message[i] = c.buffer[PrefixLength + i]
      /\ rest \in Seq(Byte) /\ Len(rest) = Len(c.buffer) - PrefixLength - c.length
      /\ \A i \in 1 .. Len(rest) : rest[i] = c.buffer[PrefixLength + c.length + i]
  <2>1. c \in Processors /\ c.length >= 0
    BY <1>1
  <2>2. /\ message \in Seq(Byte) /\ (c.length >= 0 => Len(message) = c.length)
        /\ \A i \in 1 .. c.length : message[i] = c.buffer[PrefixLength + i]
        /\ rest \in Seq(Byte) /\ Len(rest) = Len(c.buffer) - PrefixLength - c.length
        /\ \A i \in 1 .. Len(rest) : rest[i] = c.buffer[PrefixLength + c.length + i]
    BY <1>5, <2>1, DeliveredParts
  <2>. HIDE DEF message, rest
  <2>. QED
    BY <2>1, <2>2
<1>. DEFINE d == Delivered(c)  out == Append(c.out, message)
<1>7. /\ d.state = "CompressionFlag" /\ d.length = 0 /\ d.buffer = rest /\ d.out = out
      /\ d \in Processors
  BY <1>1, <1>5, DeliveredType DEF Delivered
<1>. HIDE DEF message, rest, d, payload
<1>8. message = payload
  <2>1. ASSUME NEW i \in 1 .. c.length PROVE message[i] = payload[i]
    <3>1. PrefixLength + i \in 1 .. Len(c.buffer) /\ PrefixLength + i <= Len(Framed(ms[k]))
      BY <1>1, <1>3, <1>4, PrefixLengthType
    <3>. QED
      BY <1>2, <1>4, <1>6, <3>1
  <2>2. c.length = Len(payload)
    BY <1>1
  <2>3. message \in Seq(Byte) /\ Len(message) = Len(payload)
    BY <1>6, <2>2
  <2>4. payload \in Seq(Byte)
    BY <1>4
  <2>5. \A i \in 1 .. Len(message) : message[i] = payload[i]
    BY <2>1, <2>2, <2>3
  <2>. QED
    BY <2>3, <2>4, <2>5
<1>9. /\ Len(out) = k /\ \A i \in 1 .. m : out[i] = c.out[i]
      /\ out[k] = message
  BY <1>3, <1>6
<1>. HIDE DEF out
<1>10. Passed(out, ms, k)
  <2>1. ASSUME NEW i \in 1 .. k PROVE ms[i].flag = 0 /\ out[i] = ms[i].payload
    <3>1. CASE i = k
      BY <1>1, <1>8, <1>9, <3>1 DEF payload
    <3>2. CASE i # k
      <4>1. i \in 1 .. m
        BY <1>3, <3>2
      <4>. QED
        BY <1>1, <1>9, <4>1 DEF Passed
    <3>. QED
      BY <3>1, <3>2
  <2>. QED
    BY <2>1 DEF Passed
<1>11. /\ EndOf(ms, m) \in Nat /\ EndOf(ms, k) \in Nat
       /\ EndOf(ms, k) = EndOf(ms, m) + PrefixLength + c.length
  BY <1>1, <1>2, <1>3, EndOfStep DEF payload
<1>12. EndOf(ms, k) + Len(rest) = n
  <2>. DEFINE a == EndOf(ms, m)  b == EndOf(ms, k)  x == Len(c.buffer)  y == Len(rest)
              z == c.length
  <2>1. /\ a \in Nat /\ b = a + PrefixLength + z /\ x \in Nat /\ z \in Nat
        /\ y = x - PrefixLength - z /\ a + x = n
    BY <1>1, <1>3, <1>6, <1>11
  <2>. HIDE DEF a, b, x, y, z
  <2>2. b + y = n
    BY <2>1, PrefixLengthType
  <2>. QED
    BY <2>2 DEF b, y
<1>13. Streams(rest, EndOf(ms, k), ms)
  <2>1. SUFFICES ASSUME NEW l \in 1 .. Len(ms), NEW at \in 1 .. Len(rest),
                        NEW j \in 1 .. Len(Framed(ms[l])),
                        EndOf(ms, l - 1) + j = EndOf(ms, k) + at
                 PROVE  rest[at] = Framed(ms[l])[j]
    BY DEF Streams
  <2>. DEFINE by == PrefixLength + c.length + at
  <2>2. by \in 1 .. Len(c.buffer) /\ EndOf(ms, k) + at = EndOf(ms, m) + by
    <3>. DEFINE a == EndOf(ms, m)  b == EndOf(ms, k)  x == Len(c.buffer)  y == Len(rest)
                z == c.length
    <3>1. /\ a \in Nat /\ b = a + PrefixLength + z /\ x \in Nat /\ z \in Nat
          /\ y = x - PrefixLength - z /\ at \in 1 .. y
      BY <1>1, <1>3, <1>6, <1>11
    <3>2. by = PrefixLength + z + at
      OBVIOUS
    <3>. HIDE DEF a, b, x, y, z, by
    <3>3. by \in 1 .. x /\ b + at = a + by
      BY <3>1, <3>2, PrefixLengthType
    <3>. QED
      BY <3>3 DEF a, b, x
  <2>3. rest[at] = c.buffer[by]
    BY <1>6
  <2>4. EndOf(ms, l - 1) + j = EndOf(ms, m) + by
    BY <2>1, <2>2
  <2>. HIDE DEF by
  <2>5. c.buffer[by] = Framed(ms[l])[j]
    BY <1>1, <2>2, <2>4 DEF Streams
  <2>. QED
    BY <2>3, <2>5
<1>14. Following(d, ms, n)
  BY <1>1, <1>2, <1>7, <1>9, <1>10, <1>12, <1>13 DEF Following
<1>. QED
  BY <1>5, <1>14 DEF d

\* A call of either processor keeps up with the stream, or drops the rest of it.
LEMMA KotlinFollows ==
  ASSUME NEW ms \in Seq(Messages), NEW n \in Nat, NEW c, Following(c, ms, n)
  PROVE  Following(KotlinStep(c), ms, n) \/ Lost(KotlinStep(c), ms, n)
<1>0. c \in Processors
  BY DEF Following
<1>1. CASE c.state = "CompressionFlag" /\ c.buffer # <<>>
  <2>1. CASE c.buffer[1] = 0
    BY <1>0, <1>1, <2>1, Arms, FlagRead
  <2>2. CASE c.buffer[1] # 0
    <3>1. KotlinStep(c) = Flagged(c, "MessageLength", <<>>)
      BY <1>0, <1>1, <2>2, Arms
    <3>2. KotlinStep(c).out = c.out
      BY <3>1 DEF Flagged
    <3>. QED
      BY <1>1, <2>2, <3>2, FlagRead
  <2>. QED
    BY <2>1, <2>2
<1>2. CASE c.state = "MessageLength" /\ HasPrefix(c)
  BY <1>0, <1>2, Arms, LengthRead
<1>3. CASE c.state = "Message" /\ HasMessage(c)
  BY <1>0, <1>3, Arms, MessageRead
<1>4. CASE Waiting(c)
  BY <1>0, <1>4, Arms
<1>. QED
  BY <1>1, <1>2, <1>3, <1>4 DEF Waiting

\* The same for Swift, which stays with the flag after compressed data.
LEMMA SwiftFollows ==
  ASSUME NEW ms \in Seq(Messages), NEW n \in Nat, NEW c, Following(c, ms, n)
  PROVE  Following(SwiftStep(c), ms, n) \/ Lost(SwiftStep(c), ms, n)
<1>0. c \in Processors
  BY DEF Following
<1>1. CASE c.state = "CompressionFlag" /\ c.buffer # <<>>
  <2>1. CASE c.buffer[1] = 0
    BY <1>0, <1>1, <2>1, Arms, FlagRead
  <2>2. CASE c.buffer[1] # 0
    <3>1. SwiftStep(c) = Flagged(c, "CompressionFlag", <<>>)
      BY <1>0, <1>1, <2>2, Arms
    <3>2. SwiftStep(c).out = c.out
      BY <3>1 DEF Flagged
    <3>. QED
      BY <1>1, <2>2, <3>2, FlagRead
  <2>. QED
    BY <2>1, <2>2
<1>2. CASE c.state = "MessageLength" /\ HasPrefix(c)
  BY <1>0, <1>2, Arms, LengthRead
<1>3. CASE c.state = "Message" /\ HasMessage(c)
  BY <1>0, <1>3, Arms, MessageRead
<1>4. CASE Waiting(c)
  BY <1>0, <1>4, Arms
<1>. QED
  BY <1>1, <1>2, <1>3, <1>4 DEF Waiting

\* What has been passed on is never taken back.
LEMMA OutGrows ==
  ASSUME NEW c \in Processors, NEW d \in {KotlinStep(c), SwiftStep(c)}
  PROVE  /\ Len(c.out) \in Nat /\ Len(d.out) \in Nat /\ Len(c.out) <= Len(d.out)
         /\ \A i \in 1 .. Len(c.out) : d.out[i] = c.out[i]
<1>. DEFINE message == SubSeq(c.buffer, PrefixLength + 1, PrefixLength + c.length)
<1>1. d.out \in {c.out, Append(c.out, message), Append(c.out, <<>>)}
  <2>1. CASE c.state = "CompressionFlag" /\ c.buffer # <<>>
    <3>1. \E s, b : d = Flagged(c, s, b)
      BY <2>1, Arms
    <3>. QED
      BY <3>1 DEF Flagged
  <2>2. CASE c.state = "MessageLength" /\ HasPrefix(c)
    <3>1. \E l : d = Measured(c, l)
      BY <2>2, Arms
    <3>. QED
      BY <3>1 DEF Measured
  <2>3. CASE c.state = "Message" /\ HasMessage(c)
    <3>1. d = Delivered(c) \/ d = CrashedAt(c)
      BY <2>3, Arms
    <3>. QED
      BY <3>1 DEF Delivered, CrashedAt
  <2>4. CASE Waiting(c)
    BY <2>4, Arms
  <2>. QED
    BY <2>1, <2>2, <2>3, <2>4 DEF Waiting
<1>2. c.out \in Seq(Seq(Byte))
  BY DEF Processors
<1>. DEFINE s == c.out  t == d.out
<1>3. s \in Seq(Seq(Byte)) /\ t \in {s, Append(s, message), Append(s, <<>>)}
  BY <1>1, <1>2
<1>. HIDE DEF s, t, message
<1>4. Len(s) \in Nat /\ Len(t) \in Nat /\ Len(s) <= Len(t) /\ \A i \in 1 .. Len(s) : t[i] = s[i]
  <2>1. ASSUME NEW x, t = Append(s, x)
        PROVE  Len(s) \in Nat /\ Len(t) \in Nat /\ Len(s) <= Len(t) /\ \A i \in 1 .. Len(s) : t[i] = s[i]
    BY <1>3, <2>1
  <2>2. CASE t = s
    BY <1>3, <2>2
  <2>. QED
    BY <1>3, <2>1, <2>2
<1>. QED
  BY <1>4 DEF s, t

\* What was passed on before a compressed message is still there after a call.
LEMMA LostForGood ==
  ASSUME NEW ms \in Seq(Messages), NEW n \in Nat, NEW c \in Processors, Lost(c, ms, n),
         NEW d \in {KotlinStep(c), SwiftStep(c)}
  PROVE  Lost(d, ms, n)
<1>1. PICK p \in 1 .. Len(ms) : /\ ms[p].flag # 0 /\ EndOf(ms, p - 1) < n
                                /\ p - 1 <= Len(c.out) /\ Passed(c.out, ms, p - 1)
  BY DEF Lost
<1>2. /\ Len(c.out) \in Nat /\ Len(d.out) \in Nat /\ Len(c.out) <= Len(d.out)
      /\ \A i \in 1 .. Len(c.out) : d.out[i] = c.out[i]
  BY OutGrows
<1>3. p - 1 <= Len(d.out) /\ \A i \in 1 .. p - 1 : i \in 1 .. Len(c.out)
  BY <1>1, <1>2
<1>4. Passed(d.out, ms, p - 1)
  BY <1>1, <1>2, <1>3 DEF Passed
<1>. QED
  BY <1>1, <1>3, <1>4 DEF Lost

\* All the calls for a chunk.
LEMMA SwiftChunk ==
  ASSUME NEW ms \in Seq(Messages), NEW n \in Nat, NEW c \in SwiftProcessors,
         Following(c, ms, n) \/ Lost(c, ms, n)
  PROVE  /\ processBuffer(c) \in SwiftProcessors
         /\ \/ Lost(processBuffer(c), ms, n)
            \/ Following(processBuffer(c), ms, n) /\ Waiting(processBuffer(c))
<1>1. PICK f : SwiftLoops(f, c) /\ processBuffer(c) = f[Calls(c)]
  BY SwiftLoop
<1>2. /\ f \in [0 .. Calls(c) -> SwiftProcessors] /\ f[0] = c
      /\ \A i \in 1 .. Calls(c) : f[i] = SwiftStep(f[i - 1])
  BY <1>1 DEF SwiftLoops
<1>3. Waiting(f[Calls(c)])
  BY <1>1, SwiftLoopEnds
<1>4. c \in Processors /\ Calls(c) \in Nat
  BY MeasureBound DEF SwiftProcessors
<1>. DEFINE T == {i \in 0 .. Calls(c) : Following(f[i], ms, n) \/ Lost(f[i], ms, n)}
<1>5. 0 \in T
  BY <1>2, <1>4
<1>6. ASSUME NEW i \in 1 .. Calls(c), i - 1 \in T PROVE i \in T
  <2>1. i - 1 \in 0 .. Calls(c) /\ i \in 0 .. Calls(c)
    BY <1>4
  <2>2. f[i - 1] \in SwiftProcessors /\ f[i] = SwiftStep(f[i - 1])
    BY <1>2, <2>1
  <2>3. f[i - 1] \in Processors
    BY <2>2 DEF SwiftProcessors
  <2>4. Following(f[i - 1], ms, n) \/ Lost(f[i - 1], ms, n)
    BY <1>6
  <2>. DEFINE x == f[i - 1]  y == f[i]
  <2>5. x \in Processors /\ y = SwiftStep(x) /\ (Following(x, ms, n) \/ Lost(x, ms, n))
    BY <2>2, <2>3, <2>4
  <2>. HIDE DEF x, y
  <2>6. Following(y, ms, n) \/ Lost(y, ms, n)
    <3>1. CASE Following(x, ms, n)
      BY <2>5, <3>1, SwiftFollows
    <3>2. CASE Lost(x, ms, n)
      BY <2>5, <3>2, LostForGood
    <3>. QED
      BY <2>5, <3>1, <3>2
  <2>. QED
    BY <2>1, <2>6 DEF y
<1>7. \A i \in 0 .. Calls(c) : i \in T
  <2>. HIDE DEF T
  <2>. QED
    BY <1>4, <1>5, <1>6, Counting
<1>8. Calls(c) \in 0 .. Calls(c)
  BY <1>4
<1>. QED
  BY <1>1, <1>2, <1>3, <1>7, <1>8

\* The same for processData.
LEMMA KotlinChunk ==
  ASSUME NEW ms \in Seq(Messages), NEW n \in Nat, NEW c \in Processors,
         Following(c, ms, n) \/ Lost(c, ms, n)
  PROVE  /\ processData(c) \in Processors
         /\ \/ Lost(processData(c), ms, n)
            \/ Following(processData(c), ms, n) /\ Waiting(processData(c))
<1>1. PICK f : KotlinLoops(f, c) /\ processData(c) = f[Calls(c)]
  BY KotlinLoop
<1>2. /\ f \in [0 .. Calls(c) -> Processors] /\ f[0] = c
      /\ \A i \in 1 .. Calls(c) : f[i] = KotlinStep(f[i - 1])
  BY <1>1 DEF KotlinLoops
<1>3. Waiting(f[Calls(c)])
  BY <1>1, KotlinLoopEnds
<1>4. c \in Processors /\ Calls(c) \in Nat
  BY MeasureBound
<1>. DEFINE T == {i \in 0 .. Calls(c) : Following(f[i], ms, n) \/ Lost(f[i], ms, n)}
<1>5. 0 \in T
  BY <1>2, <1>4
<1>6. ASSUME NEW i \in 1 .. Calls(c), i - 1 \in T PROVE i \in T
  <2>1. i - 1 \in 0 .. Calls(c) /\ i \in 0 .. Calls(c)
    BY <1>4
  <2>2. f[i - 1] \in Processors /\ f[i] = KotlinStep(f[i - 1])
    BY <1>2, <2>1
  <2>3. f[i - 1] \in Processors
    BY <2>2
  <2>4. Following(f[i - 1], ms, n) \/ Lost(f[i - 1], ms, n)
    BY <1>6
  <2>. DEFINE x == f[i - 1]  y == f[i]
  <2>5. x \in Processors /\ y = KotlinStep(x) /\ (Following(x, ms, n) \/ Lost(x, ms, n))
    BY <2>2, <2>3, <2>4
  <2>. HIDE DEF x, y
  <2>6. Following(y, ms, n) \/ Lost(y, ms, n)
    <3>1. CASE Following(x, ms, n)
      BY <2>5, <3>1, KotlinFollows
    <3>2. CASE Lost(x, ms, n)
      BY <2>5, <3>2, LostForGood
    <3>. QED
      BY <2>5, <3>1, <3>2
  <2>. QED
    BY <2>1, <2>6 DEF y
<1>7. \A i \in 0 .. Calls(c) : i \in T
  <2>. HIDE DEF T
  <2>. QED
    BY <1>4, <1>5, <1>6, Counting
<1>8. Calls(c) \in 0 .. Calls(c)
  BY <1>4
<1>. QED
  BY <1>1, <1>2, <1>3, <1>7, <1>8
-----------------------------------------------------------------------------
(* The stream grows at one end, and is taken from at the other *)

\* From the end of one message to the end of the next is its frame.
LEMMA FrameLength ==
  ASSUME NEW ms \in Seq(Messages), NEW k \in 1 .. Len(ms)
  PROVE  /\ Len(Framed(ms[k])) \in Nat /\ EndOf(ms, k - 1) \in Nat /\ EndOf(ms, k) \in Nat
         /\ EndOf(ms, k) = EndOf(ms, k - 1) + Len(Framed(ms[k]))
<1>. DEFINE l == Len(Framed(ms[k]))  w == Len(ms[k].payload)
            a == EndOf(ms, k - 1)  b == EndOf(ms, k)
<1>1. ms[k] \in Messages
  OBVIOUS
<1>2. l = PrefixLength + w /\ w \in Nat
  BY <1>1, FrameParts, MessageType
<1>3. a \in Nat /\ b \in Nat /\ b = a + PrefixLength + w
  <2>1. k - 1 \in 0 .. Len(ms) /\ k \in 0 .. Len(ms)
    OBVIOUS
  <2>. QED
    BY <2>1, EndOfStep
<1>. HIDE DEF l, w, a, b
<1>4. l \in Nat /\ b = a + l
  BY <1>2, <1>3, PrefixLengthType
<1>. QED
  BY <1>3, <1>4 DEF l, a, b

\* No message ends before an earlier one.
LEMMA EndsInOrder ==
  ASSUME NEW ms \in Seq(Messages), NEW k \in 0 .. Len(ms), NEW l \in 0 .. Len(ms), k <= l
  PROVE  EndOf(ms, k) <= EndOf(ms, l)
<1>1. EndOf(ms, k) \in Nat /\ EndOf(ms, l) \in Nat
  BY EndOfStep
<1>2. CASE k = l
  BY <1>1, <1>2
<1>3. CASE k < l
  BY <1>1, <1>3, EndsRise
<1>. QED
  BY <1>2, <1>3

\* A stream that is cut in two.
LEMMA StreamsPart ==
  ASSUME NEW ms \in Seq(Messages), NEW from \in Nat, NEW bytes \in Seq(Byte),
         Streams(bytes, from, ms), NEW a \in 0 .. Len(bytes),
         NEW head, head = SubSeq(bytes, 1, a), NEW tail, tail = SubSeq(bytes, a + 1, Len(bytes))
  PROVE  /\ head \in Seq(Byte) /\ Len(head) = a /\ Streams(head, from, ms)
         /\ tail \in Seq(Byte) /\ Len(tail) = Len(bytes) - a /\ Streams(tail, from + a, ms)
<1>0. Len(bytes) \in Nat /\ a \in Nat /\ a <= Len(bytes)
  OBVIOUS
<1>1. /\ head \in Seq(Byte) /\ Len(head) = a
      /\ \A i \in 1 .. a : head[i] = bytes[i]
  <2>. DEFINE s == SubSeq(bytes, 1, a)
  <2>1. /\ s \in Seq(Byte) /\ Len(s) = IF 1 <= a THEN a - 1 + 1 ELSE 0
        /\ \A i \in 1 .. a - 1 + 1 : s[i] = bytes[1 + i - 1]
    <3>1. 1 \in Nat /\ 1 > 0 /\ a \in Int /\ a <= Len(bytes)
      BY <1>0
    <3>. QED
      BY <3>1, PartOf
  <2>2. head = s
    OBVIOUS
  <2>. HIDE DEF s
  <2>. QED
    BY <1>0, <2>1, <2>2
<1>2. /\ tail \in Seq(Byte) /\ Len(tail) = Len(bytes) - a
      /\ \A i \in 1 .. Len(bytes) - a : tail[i] = bytes[a + i]
  <2>. DEFINE s == SubSeq(bytes, a + 1, Len(bytes))  b == a + 1  n == Len(bytes)
  <2>1. /\ s \in Seq(Byte) /\ Len(s) = IF b <= n THEN n - b + 1 ELSE 0
        /\ \A i \in 1 .. n - b + 1 : s[i] = bytes[b + i - 1]
    <3>1. b \in Nat /\ b > 0 /\ n \in Int /\ n <= Len(bytes)
      BY <1>0
    <3>. QED
      BY <3>1, PartOf
  <2>2. tail = s /\ n - b + 1 = n - a /\ n \in Nat /\ (~(b <= n) => n - a = 0)
    BY <1>0
  <2>3. \A i \in Int : b + i - 1 = a + i
    BY <1>0
  <2>. HIDE DEF s, b, n
  <2>4. Len(s) = n - a
    BY <2>1, <2>2
  <2>5. ASSUME NEW i \in 1 .. n - a PROVE s[i] = bytes[a + i]
    <3>1. i \in Int /\ i \in 1 .. n - b + 1
      BY <2>2
    <3>2. s[i] = bytes[b + i - 1]
      BY <2>1, <3>1
    <3>. QED
      BY <2>3, <3>1, <3>2
  <2>. QED
    BY <2>1, <2>2, <2>4, <2>5 DEF n
<1>3. Streams(head, from, ms)
  <2>1. \A i \in 1 .. Len(head) : i \in 1 .. Len(bytes) /\ head[i] = bytes[i]
    BY <1>0, <1>1
  <2>. QED
    BY <2>1 DEF Streams
<1>4. Streams(tail, from + a, ms)
  <2>1. SUFFICES ASSUME NEW k \in 1 .. Len(ms), NEW at \in 1 .. Len(tail),
                        NEW j \in 1 .. Len(Framed(ms[k])),
                        EndOf(ms, k - 1) + j = (from + a) + at
                 PROVE  tail[at] = Framed(ms[k])[j]
    BY DEF Streams
  <2>2. a + at \in 1 .. Len(bytes) /\ (from + a) + at = from + (a + at)
    <3>. DEFINE n == Len(bytes)
    <3>1. at \in 1 .. n - a /\ n \in Nat
      BY <1>0, <1>2
    <3>. HIDE DEF n
    <3>2. a + at \in 1 .. n
      BY <1>0, <3>1
    <3>. QED
      BY <1>0, <3>1, <3>2 DEF n
  <2>3. tail[at] = bytes[a + at]
    BY <1>2
  <2>4. EndOf(ms, k - 1) + j = from + (a + at)
    BY <2>1, <2>2
  <2>5. bytes[a + at] = Framed(ms[k])[j]
    BY <2>2, <2>4 DEF Streams
  <2>. QED
    BY <2>3, <2>5
<1>. QED
  BY <1>1, <1>2, <1>3, <1>4

\* Two pieces of a stream, one behind the other.
LEMMA StreamsJoined ==
  ASSUME NEW ms \in Seq(Messages), NEW from \in Nat,
         NEW a \in Seq(Byte), NEW b \in Seq(Byte),
         Streams(a, from, ms), Streams(b, from + Len(a), ms)
  PROVE  Streams(a \o b, from, ms)
<1>. DEFINE s == a \o b
<1>1. /\ Len(a) \in Nat /\ Len(b) \in Nat /\ Len(s) = Len(a) + Len(b)
      /\ \A i \in 1 .. Len(a) : s[i] = a[i]
      /\ \A i \in 1 .. Len(b) : s[Len(a) + i] = b[i]
  BY Joined
<1>. HIDE DEF s
<1>2. SUFFICES ASSUME NEW k \in 1 .. Len(ms), NEW at \in 1 .. Len(s),
                      NEW j \in 1 .. Len(Framed(ms[k])), EndOf(ms, k - 1) + j = from + at
               PROVE  s[at] = Framed(ms[k])[j]
  BY DEF Streams, s
<1>3. CASE at <= Len(a)
  <2>1. at \in 1 .. Len(a)
    BY <1>1, <1>3
  <2>. QED
    BY <1>1, <1>2, <2>1 DEF Streams
<1>4. CASE ~(at <= Len(a))
  <2>. DEFINE i == at - Len(a)
  <2>1. i \in 1 .. Len(b) /\ at = Len(a) + i /\ from + at = (from + Len(a)) + i
    BY <1>1, <1>4
  <2>. HIDE DEF i
  <2>2. s[at] = b[i]
    BY <1>1, <2>1
  <2>3. EndOf(ms, k - 1) + j = (from + Len(a)) + i
    BY <1>2, <2>1
  <2>4. b[i] = Framed(ms[k])[j]
    BY <2>1, <2>3 DEF Streams
  <2>. QED
    BY <2>2, <2>4
<1>. QED
  BY <1>3, <1>4

\* Bytes of messages sent before are the same with a message more.
LEMMA StreamsAppend ==
  ASSUME NEW ms \in Seq(Messages), NEW m \in Messages, NEW from \in Nat, NEW bytes \in Seq(Byte),
         Streams(bytes, from, ms), from + Len(bytes) <= EndOf(ms, Len(ms))
  PROVE  Streams(bytes, from, Append(ms, m))
<1>. DEFINE more == Append(ms, m)
<1>1. /\ Len(ms) \in Nat /\ Len(more) = Len(ms) + 1 /\ Len(bytes) \in Nat
      /\ \A k \in 1 .. Len(ms) : more[k] = ms[k]
  OBVIOUS
<1>2. \A k \in 0 .. Len(ms) : EndOf(more, k) = EndOf(ms, k)
  BY EndOfAppend
<1>. HIDE DEF more
<1>3. SUFFICES ASSUME NEW k \in 1 .. Len(more), NEW at \in 1 .. Len(bytes),
                      NEW j \in 1 .. Len(Framed(more[k])), EndOf(more, k - 1) + j = from + at
               PROVE  bytes[at] = Framed(more[k])[j]
  BY DEF Streams, more
<1>4. k - 1 \in 0 .. Len(ms)
  BY <1>1
<1>5. EndOf(more, k - 1) = EndOf(ms, k - 1)
  BY <1>2, <1>4
<1>6. k # Len(ms) + 1
  <2>1. ASSUME k - 1 = Len(ms) PROVE FALSE
    <3>1. EndOf(ms, Len(ms)) \in Nat
      BY <1>1, EndOfStep
    <3>2. EndOf(ms, Len(ms)) + j = from + at
      BY <1>3, <1>5, <2>1
    <3>3. j \in Nat /\ j > 0 /\ at \in Nat /\ at <= Len(bytes)
      <4>. DEFINE l == Len(Framed(more[k]))
      <4>1. j \in 1 .. l
        OBVIOUS
      <4>. HIDE DEF l
      <4>. QED
        BY <1>1, <4>1
    <3>. QED
      BY <1>1, <3>1, <3>2, <3>3
  <2>. QED
    BY <1>1, <2>1
<1>7. k \in 1 .. Len(ms) /\ more[k] = ms[k]
  BY <1>1, <1>6
<1>8. j \in 1 .. Len(Framed(ms[k])) /\ EndOf(ms, k - 1) + j = from + at
  BY <1>3, <1>5, <1>7
<1>9. bytes[at] = Framed(ms[k])[j]
  BY <1>7, <1>8 DEF Streams
<1>. QED
  BY <1>7, <1>9

\* A message that is sent follows the ones before it.
LEMMA StreamsFrame ==
  ASSUME NEW ms \in Seq(Messages), NEW m \in Messages
  PROVE  Streams(Framed(m), EndOf(ms, Len(ms)), Append(ms, m))
<1>. DEFINE more == Append(ms, m)  last == Len(ms)
<1>1. /\ last \in Nat /\ Len(more) = last + 1 /\ more \in Seq(Messages) /\ more[last + 1] = m
  OBVIOUS
<1>2. EndOf(more, last) = EndOf(ms, last)
  BY <1>1, EndOfAppend
<1>. HIDE DEF more, last
<1>3. SUFFICES ASSUME NEW k \in 1 .. Len(more), NEW at \in 1 .. Len(Framed(m)),
                      NEW j \in 1 .. Len(Framed(more[k])), EndOf(more, k - 1) + j = EndOf(more, last) + at
               PROVE  Framed(m)[at] = Framed(more[k])[j]
  BY <1>2 DEF Streams, more, last
<1>. DEFINE l == Len(Framed(more[k]))  e == EndOf(more, k - 1)  z == EndOf(more, last)
            w == Len(Framed(m))
<1>4. l \in Nat /\ e \in Nat /\ EndOf(more, k) = e + l /\ EndOf(more, k) \in Nat
  BY <1>1, FrameLength
<1>5. z \in Nat
  BY <1>1, EndOfStep
<1>6. w \in Nat
  <2>1. Framed(m) \in Seq(Byte)
    BY FrameParts
  <2>. QED
    BY <2>1
<1>7. k \in 1 .. last \/ k = last + 1
  BY <1>1
<1>8. e + j = z + at /\ j \in 1 .. l /\ at \in 1 .. w
  BY <1>3
<1>9. ~(k \in 1 .. last)
  <2>1. SUFFICES ASSUME k \in 1 .. last PROVE FALSE
    OBVIOUS
  <2>2. k \in 0 .. Len(more) /\ last \in 0 .. Len(more) /\ k <= last
    BY <1>1, <2>1
  <2>3. EndOf(more, k) <= z
    BY <1>1, <2>2, EndsInOrder
  <2>4. e + l <= z
    BY <1>4, <2>3
  <2>. HIDE DEF e, l, z, w
  <2>. QED
    BY <1>4, <1>5, <1>6, <1>8, <2>4
<1>10. k = last + 1 /\ k - 1 = last
  BY <1>1, <1>7, <1>9
<1>11. more[k] = m /\ e = z
  BY <1>1, <1>10
<1>12. j = at
  <2>. HIDE DEF e, l, z, w
  <2>. QED
    BY <1>4, <1>5, <1>6, <1>8, <1>11
<1>. QED
  BY <1>11, <1>12

\* A processor does not notice that the peer has sent a message.
LEMMA FollowingAppend ==
  ASSUME NEW ms \in Seq(Messages), NEW m \in Messages, NEW n \in Nat, NEW c
  PROVE  /\ Following(c, ms, n) => Following(c, Append(ms, m), n)
         /\ Lost(c, ms, n) => Lost(c, Append(ms, m), n)
<1>. DEFINE more == Append(ms, m)
<1>1. /\ Len(ms) \in Nat /\ Len(more) = Len(ms) + 1 /\ more \in Seq(Messages)
      /\ \A k \in 1 .. Len(ms) : more[k] = ms[k]
  OBVIOUS
<1>2. \A k \in 0 .. Len(ms) : EndOf(more, k) = EndOf(ms, k) /\ EndOf(ms, k) \in Nat
  BY EndOfAppend, EndOfStep
<1>3. ASSUME NEW from \in Nat, NEW bytes \in Seq(Byte),
             Streams(bytes, from, ms), from + Len(bytes) <= EndOf(ms, Len(ms))
      PROVE  Streams(bytes, from, more)
  BY <1>3, StreamsAppend
<1>. HIDE DEF more
<1>4. ASSUME Following(c, ms, n) PROVE Following(c, more, n)
  <2>. DEFINE k == Len(c.out)
  <2>1. /\ c \in Processors /\ c.state # "Crashed" /\ c.length \in Nat
        /\ k <= Len(ms) /\ Passed(c.out, ms, k)
        /\ EndOf(ms, k) + Len(c.buffer) = n /\ n <= EndOf(ms, Len(ms))
        /\ Streams(c.buffer, EndOf(ms, k), ms)
        /\ c.state # "CompressionFlag" => c.buffer # <<>> /\ ms[k + 1].flag = 0
        /\ c.state = "Message" => HasPrefix(c) /\ c.length = Len(ms[k + 1].payload)
    BY <1>4 DEF Following
  <2>2. c.buffer \in Seq(Byte) /\ k \in Nat /\ k <= Len(ms)
    BY <2>1 DEF Processors
  <2>3. k \in 0 .. Len(ms) /\ Len(ms) \in 0 .. Len(ms) /\ \A i \in 1 .. k : i \in 1 .. Len(ms)
    BY <1>1, <2>2
  <2>4. EndOf(more, k) = EndOf(ms, k) /\ EndOf(ms, k) \in Nat
    BY <1>2, <2>3
  <2>5. Streams(c.buffer, EndOf(more, k), more)
    BY <1>3, <2>1, <2>2, <2>4
  <2>6. n <= EndOf(more, Len(more))
    <3>1. Len(ms) \in 0 .. Len(more) /\ Len(more) \in 0 .. Len(more) /\ Len(ms) <= Len(more)
      BY <1>1
    <3>2. EndOf(more, Len(ms)) <= EndOf(more, Len(more))
      BY <1>1, <3>1, EndsInOrder
    <3>3. /\ EndOf(more, Len(more)) \in Nat /\ EndOf(ms, Len(ms)) \in Nat
          /\ EndOf(more, Len(ms)) = EndOf(ms, Len(ms))
      BY <1>1, <1>2, <2>3, <3>1, EndOfStep
    <3>. QED
      BY <2>1, <3>2, <3>3
  <2>7. Passed(c.out, more, k) /\ k <= Len(more)
    BY <1>1, <2>1, <2>2, <2>3 DEF Passed
  <2>8. c.buffer # <<>> => more[k + 1] = ms[k + 1]
    <3>1. SUFFICES ASSUME c.buffer # <<>> PROVE k + 1 \in 1 .. Len(ms)
      BY <1>1
    <3>. QED
      BY <1>4, <3>1, AtFrame
  <2>9. c.state = "Message" => c.state # "CompressionFlag"
    OBVIOUS
  <2>. HIDE DEF k
  <2>10. /\ c.state # "CompressionFlag" => c.buffer # <<>> /\ more[k + 1].flag = 0
         /\ c.state = "Message" => HasPrefix(c) /\ c.length = Len(more[k + 1].payload)
    BY <2>1, <2>8, <2>9
  <2>. QED
    BY <2>1, <2>4, <2>5, <2>6, <2>7, <2>10 DEF Following, k
<1>5. ASSUME Lost(c, ms, n) PROVE Lost(c, more, n)
  <2>1. PICK p \in 1 .. Len(ms) : /\ ms[p].flag # 0 /\ EndOf(ms, p - 1) < n
                                  /\ p - 1 <= Len(c.out) /\ Passed(c.out, ms, p - 1)
    BY <1>5 DEF Lost
  <2>2. p \in 1 .. Len(more) /\ p - 1 \in 0 .. Len(ms) /\ \A i \in 1 .. p - 1 : i \in 1 .. Len(ms)
    BY <1>1
  <2>3. more[p] = ms[p] /\ EndOf(more, p - 1) = EndOf(ms, p - 1)
    BY <1>1, <1>2, <2>2
  <2>4. Passed(c.out, more, p - 1)
    BY <1>1, <2>1, <2>2 DEF Passed
  <2>. QED
    BY <2>1, <2>2, <2>3, <2>4 DEF Lost
<1>. QED
  BY <1>4, <1>5 DEF more

\* The buffer with a chunk more, as a record.
Fed(c, chunk) ==
  [state |-> c.state, length |-> c.length, buffer |-> c.buffer \o chunk, out |-> c.out]

\* A chunk is put behind what is in the buffer.
LEMMA FollowingChunk ==
  ASSUME NEW ms \in Seq(Messages), NEW n \in Nat, NEW c \in Processors, NEW chunk \in Seq(Byte),
         Streams(chunk, n, ms), n + Len(chunk) <= EndOf(ms, Len(ms))
  PROVE  /\ [c EXCEPT !.buffer = @ \o chunk] = Fed(c, chunk) /\ Fed(c, chunk) \in Processors
         /\ Following(c, ms, n) => Following(Fed(c, chunk), ms, n + Len(chunk))
         /\ Lost(c, ms, n) => Lost(Fed(c, chunk), ms, n + Len(chunk))
<1>. DEFINE d == Fed(c, chunk)  buffer == c.buffer \o chunk
<1>1. c.buffer \in Seq(Byte) /\ c.out \in Seq(Seq(Byte)) /\ Len(c.buffer) \in Nat /\ Len(chunk) \in Nat
  BY DEF Processors
<1>2. buffer \in Seq(Byte) /\ Len(buffer) = Len(c.buffer) + Len(chunk)
  BY <1>1, Joined
<1>3. d = [state |-> c.state, length |-> c.length, buffer |-> buffer, out |-> c.out]
  BY DEF Fed
<1>4. [c EXCEPT !.buffer = @ \o chunk] = d
  <2>1. [c EXCEPT !.buffer = @ \o chunk] = [c EXCEPT !.buffer = buffer]
    OBVIOUS
  <2>2. c = [state |-> c.state, length |-> c.length, buffer |-> c.buffer, out |-> c.out]
    BY DEF Processors
  <2>. HIDE DEF buffer, d
  <2>3. [c EXCEPT !.buffer = buffer] = d
    BY <1>3, <2>2
  <2>. QED
    BY <2>1, <2>3
<1>. HIDE DEF d
<1>5. d \in Processors
  <2>. HIDE DEF buffer
  <2>. QED
    BY <1>2, <1>3 DEF Processors
<1>6. d.state = c.state /\ d.length = c.length /\ d.buffer = buffer /\ d.out = c.out
  BY <1>3
<1>7. ASSUME Following(c, ms, n) PROVE Following(d, ms, n + Len(chunk))
  <2>. DEFINE k == Len(c.out)
  <2>1. /\ c \in Processors /\ c.state # "Crashed" /\ c.length \in Nat
        /\ k <= Len(ms) /\ Passed(c.out, ms, k)
        /\ EndOf(ms, k) + Len(c.buffer) = n
        /\ Streams(c.buffer, EndOf(ms, k), ms)
        /\ c.state # "CompressionFlag" => c.buffer # <<>> /\ ms[k + 1].flag = 0
        /\ c.state = "Message" => HasPrefix(c) /\ c.length = Len(ms[k + 1].payload)
    BY <1>7 DEF Following
  <2>2. k \in Nat /\ k \in 0 .. Len(ms)
    BY <1>1, <2>1
  <2>3. EndOf(ms, k) \in Nat
    BY <2>2, EndOfStep
  <2>4. Streams(buffer, EndOf(ms, k), ms)
    <3>1. Streams(chunk, EndOf(ms, k) + Len(c.buffer), ms)
      BY <2>1
    <3>. QED
      BY <1>1, <2>1, <2>3, <3>1, StreamsJoined
  <2>5. EndOf(ms, k) + Len(buffer) = n + Len(chunk)
    <3>1. EndOf(ms, k) + Len(c.buffer) = n
      BY <2>1
    <3>. HIDE DEF k, buffer
    <3>. QED
      BY <1>1, <1>2, <2>3, <3>1
  <2>6. c.buffer # <<>> => buffer # <<>>
    BY <1>1
  <2>. HIDE DEF buffer
  <2>7. HasPrefix(c) => HasPrefix(d)
    BY <1>1, <1>2, <1>6, PrefixLengthType DEF HasPrefix
  <2>. QED
    BY <1>5, <1>6, <2>1, <2>4, <2>5, <2>6, <2>7 DEF Following
<1>8. ASSUME Lost(c, ms, n) PROVE Lost(d, ms, n + Len(chunk))
  <2>1. PICK p \in 1 .. Len(ms) : /\ ms[p].flag # 0 /\ EndOf(ms, p - 1) < n
                                  /\ p - 1 <= Len(c.out) /\ Passed(c.out, ms, p - 1)
    BY <1>8 DEF Lost
  <2>2. EndOf(ms, p - 1) \in Nat
    <3>1. p - 1 \in 0 .. Len(ms)
      OBVIOUS
    <3>. QED
      BY <3>1, EndOfStep
  <2>3. EndOf(ms, p - 1) < n + Len(chunk)
    BY <1>1, <2>1, <2>2
  <2>. QED
    BY <1>6, <2>1, <2>3 DEF Lost
<1>. QED
  BY <1>4, <1>5, <1>7, <1>8 DEF d

\* A processor that waits has not got the next message to its last byte.
LEMMA WaitsForTheNext ==
  ASSUME NEW ms \in Seq(Messages), NEW n \in Nat, NEW c, Following(c, ms, n), Waiting(c),
         NEW k \in 1 .. Len(ms), k = Len(c.out) + 1
  PROVE  n < EndOf(ms, k)
<1>. DEFINE e == EndOf(ms, k - 1)  x == Len(c.buffer)  w == Len(ms[k].payload)  z == EndOf(ms, k)
<1>1. /\ c \in Processors /\ c.state # "Crashed" /\ c.length \in Nat
      /\ EndOf(ms, Len(c.out)) + x = n
      /\ c.state = "Message" => c.length = Len(ms[Len(c.out) + 1].payload)
  BY DEF Following
<1>2. /\ c.buffer \in Seq(Byte) /\ x \in Nat /\ Len(c.out) \in Nat
      /\ c.state \in {"CompressionFlag", "MessageLength", "Message"}
  BY <1>1 DEF Processors
<1>3. k - 1 = Len(c.out) /\ ms[k] \in Messages
  BY <1>2
<1>4. e + x = n /\ (c.state = "Message" => c.length = w)
  BY <1>1, <1>3
<1>5. w \in Nat
  BY <1>3, MessageType
<1>6. e \in Nat /\ z = e + PrefixLength + w
  <2>1. k - 1 \in 0 .. Len(ms)
    OBVIOUS
  <2>. QED
    BY <2>1, EndOfStep
<1>7. x < PrefixLength + w
  <2>1. CASE c.state = "CompressionFlag"
    <3>1. c.buffer = <<>>
      BY <2>1 DEF Waiting
    <3>2. x = 0
      BY <3>1
    <3>. HIDE DEF x, w
    <3>. QED
      BY <1>5, <3>2, PrefixLengthType
  <2>2. CASE c.state = "MessageLength"
    <3>1. ~(x >= PrefixLength)
      BY <2>2 DEF Waiting, HasPrefix
    <3>. HIDE DEF x, w
    <3>. QED
      BY <1>2, <1>5, <3>1, PrefixLengthType
  <2>3. CASE c.state = "Message"
    <3>1. ~(x >= c.length + PrefixLength) /\ c.length = w
      BY <1>4, <2>3 DEF Waiting, HasMessage
    <3>. HIDE DEF x, w
    <3>. QED
      BY <1>2, <1>5, <3>1, PrefixLengthType
  <2>. QED
    BY <1>2, <2>1, <2>2, <2>3
<1>. HIDE DEF e, x, w, z
<1>8. n < z
  BY <1>2, <1>4, <1>5, <1>6, <1>7, PrefixLengthType
<1>. QED
  BY <1>8 DEF z
-----------------------------------------------------------------------------
(* The response *)

\* What a processor has of the messages ms after n bytes, between two chunks.
Keeps(c, ms, n) == Lost(c, ms, n) \/ (Following(c, ms, n) /\ Waiting(c))

\* The bytes on the wire are the ones that follow those that have arrived, and
\* each processor keeps up.
ResponseInv ==
  /\ sent \in Seq(Messages) /\ arrived \in Nat /\ wire \in Seq(Byte)
  /\ arrived + Len(wire) = EndOf(sent, Len(sent)) /\ Streams(wire, arrived, sent)
  /\ kotlin \in Processors /\ Keeps(kotlin, sent, arrived)
  /\ swift \in SwiftProcessors /\ Keeps(swift, sent, arrived)

\* A processor at its start, given bytes of the stream from the first on.
LEMMA NewFollows ==
  ASSUME NEW ms \in Seq(Messages), NEW bytes \in Seq(Byte), Streams(bytes, 0, ms),
         Len(bytes) <= EndOf(ms, Len(ms)),
         NEW c, c = [state |-> "CompressionFlag", length |-> 0, buffer |-> bytes, out |-> <<>>]
  PROVE  Following(c, ms, Len(bytes)) /\ c \in SwiftProcessors /\ c \in Processors
<1>1. c.state = "CompressionFlag" /\ c.length = 0 /\ c.buffer = bytes /\ c.out = <<>>
  OBVIOUS
<1>2. c \in Processors
  BY DEF Processors
<1>3. Len(c.out) = 0 /\ EndOf(ms, 0) = 0 /\ Len(bytes) \in Nat /\ Len(ms) \in Nat
  BY <1>1, EndOfStep
<1>4. Passed(c.out, ms, 0)
  BY DEF Passed
<1>. QED
  BY <1>1, <1>2, <1>3, <1>4 DEF Following, SwiftProcessors

\* The invariant holds before anything is sent.
LEMMA ResponseInit == GrpcInit => ResponseInv
<1>. SUFFICES ASSUME GrpcInit PROVE ResponseInv
  OBVIOUS
<1>1. /\ sent = <<>> /\ wire = <<>> /\ arrived = 0
      /\ kotlin = [state |-> "CompressionFlag", length |-> 0, buffer |-> <<>>, out |-> <<>>]
      /\ swift = kotlin
  BY DEF GrpcInit, NewProcessor
<1>2. sent \in Seq(Messages) /\ wire \in Seq(Byte) /\ Len(sent) = 0 /\ Len(wire) = 0
  BY <1>1
<1>3. EndOf(sent, 0) = 0
  BY <1>2, EndOfStep
<1>4. Streams(wire, 0, sent)
  BY <1>2 DEF Streams
<1>5. Following(kotlin, sent, 0) /\ kotlin \in SwiftProcessors /\ kotlin \in Processors
  <2>1. /\ kotlin = [state |-> "CompressionFlag", length |-> 0, buffer |-> wire, out |-> <<>>]
        /\ Len(wire) <= EndOf(sent, Len(sent))
    BY <1>1, <1>2, <1>3
  <2>2. Following(kotlin, sent, Len(wire)) /\ kotlin \in SwiftProcessors /\ kotlin \in Processors
    BY <1>2, <1>4, <2>1, NewFollows
  <2>. QED
    BY <1>2, <2>2
<1>6. kotlin.state = "CompressionFlag" /\ kotlin.buffer = <<>>
  BY <1>1
<1>7. Waiting(kotlin)
  BY <1>6 DEF Waiting
<1>8. Keeps(kotlin, sent, arrived) /\ Keeps(swift, sent, arrived)
  BY <1>1, <1>5, <1>7 DEF Keeps
<1>. QED
  BY <1>1, <1>2, <1>3, <1>4, <1>5, <1>8 DEF ResponseInv

\* A message from the peer keeps the invariant.
LEMMA ResponsePeerSends ==
  ASSUME ResponseInv, NEW m \in Messages, PeerSends(m)
  PROVE  ResponseInv'
<1>. DEFINE more == Append(sent, m)  bytes == wire \o Framed(m)
<1>1. /\ sent' = more /\ wire' = bytes
      /\ arrived' = arrived /\ kotlin' = kotlin /\ swift' = swift
  BY DEF PeerSends
<1>2. /\ sent \in Seq(Messages) /\ arrived \in Nat /\ wire \in Seq(Byte)
      /\ arrived + Len(wire) = EndOf(sent, Len(sent)) /\ Streams(wire, arrived, sent)
      /\ kotlin \in Processors /\ Keeps(kotlin, sent, arrived)
      /\ swift \in SwiftProcessors /\ Keeps(swift, sent, arrived)
  BY DEF ResponseInv
<1>3. /\ more \in Seq(Messages) /\ Len(more) = Len(sent) + 1 /\ Len(sent) \in Nat
      /\ Len(wire) \in Nat /\ more[Len(more)] = m
  BY <1>2
<1>4. Framed(m) \in Seq(Byte)
  BY FrameParts
<1>5. bytes \in Seq(Byte) /\ Len(bytes) = Len(wire) + Len(Framed(m)) /\ Len(Framed(m)) \in Nat
  BY <1>2, <1>4, Joined
<1>6. EndOf(more, Len(sent)) = EndOf(sent, Len(sent))
  BY <1>2, <1>3, EndOfAppend
<1>7. Streams(bytes, arrived, more)
  <2>1. Streams(wire, arrived, more)
    <3>1. arrived + Len(wire) <= EndOf(sent, Len(sent))
      BY <1>2, <1>3
    <3>. QED
      BY <1>2, <3>1, StreamsAppend
  <2>2. Streams(Framed(m), arrived + Len(wire), more)
    BY <1>2, StreamsFrame
  <2>. QED
    BY <1>2, <1>3, <1>4, <2>1, <2>2, StreamsJoined
<1>8. Keeps(kotlin, more, arrived) /\ Keeps(swift, more, arrived)
  BY <1>2, FollowingAppend DEF Keeps
<1>. HIDE DEF more, bytes
<1>9. arrived + Len(bytes) = EndOf(more, Len(more))
  <2>1. Len(more) \in 1 .. Len(more) /\ Len(more) - 1 = Len(sent)
    BY <1>3
  <2>2. EndOf(more, Len(more)) = EndOf(more, Len(more) - 1) + Len(Framed(more[Len(more)]))
    BY <1>3, <2>1, FrameLength
  <2>3. EndOf(more, Len(more)) = EndOf(sent, Len(sent)) + Len(Framed(m))
    BY <1>3, <1>6, <2>1, <2>2
  <2>. QED
    BY <1>2, <1>3, <1>5, <2>3
<1>10. /\ more \in Seq(Messages) /\ arrived \in Nat /\ bytes \in Seq(Byte)
       /\ kotlin \in Processors /\ swift \in SwiftProcessors
  BY <1>2, <1>3, <1>5
<1>. QED
  BY <1>1, <1>7, <1>8, <1>9, <1>10 DEF ResponseInv

\* A chunk of any size keeps the invariant.
LEMMA ResponseData ==
  ASSUME ResponseInv, NEW n \in 1 .. Len(wire), onResponseData(n)
  PROVE  ResponseInv'
<1>. DEFINE chunk == SubSeq(wire, 1, n)  rest == SubSeq(wire, n + 1, Len(wire))  now == arrived + n
<1>1. /\ wire' = rest /\ arrived' = now /\ sent' = sent
      /\ kotlin' = processData([kotlin EXCEPT !.buffer = @ \o chunk])
      /\ swift' = processBuffer([swift EXCEPT !.buffer = @ \o chunk])
  BY DEF onResponseData
<1>2. /\ sent \in Seq(Messages) /\ arrived \in Nat /\ wire \in Seq(Byte)
      /\ arrived + Len(wire) = EndOf(sent, Len(sent)) /\ Streams(wire, arrived, sent)
      /\ kotlin \in Processors /\ Keeps(kotlin, sent, arrived)
      /\ swift \in SwiftProcessors /\ Keeps(swift, sent, arrived)
  BY DEF ResponseInv
<1>3. Len(wire) \in Nat /\ n \in 0 .. Len(wire) /\ n \in Nat /\ now \in Nat
  BY <1>2
<1>4. /\ chunk \in Seq(Byte) /\ Len(chunk) = n /\ Streams(chunk, arrived, sent)
      /\ rest \in Seq(Byte) /\ Len(rest) = Len(wire) - n /\ Streams(rest, now, sent)
  BY <1>2, <1>3, StreamsPart
<1>. HIDE DEF chunk, rest
<1>5. now + Len(rest) = EndOf(sent, Len(sent)) /\ arrived + Len(chunk) = now
      /\ arrived + Len(chunk) <= EndOf(sent, Len(sent))
  BY <1>2, <1>3, <1>4
<1>. HIDE DEF now
<1>6. ASSUME NEW c \in Processors, Keeps(c, sent, arrived)
      PROVE  /\ [c EXCEPT !.buffer = @ \o chunk] = Fed(c, chunk) /\ Fed(c, chunk) \in Processors
             /\ Following(Fed(c, chunk), sent, now) \/ Lost(Fed(c, chunk), sent, now)
  <2>1. /\ [c EXCEPT !.buffer = @ \o chunk] = Fed(c, chunk) /\ Fed(c, chunk) \in Processors
        /\ Following(c, sent, arrived) => Following(Fed(c, chunk), sent, arrived + Len(chunk))
        /\ Lost(c, sent, arrived) => Lost(Fed(c, chunk), sent, arrived + Len(chunk))
    BY <1>2, <1>4, <1>5, FollowingChunk
  <2>. QED
    BY <1>5, <1>6, <2>1 DEF Keeps
<1>7. kotlin' \in Processors /\ Keeps(kotlin', sent, now)
  <2>. DEFINE d == Fed(kotlin, chunk)
  <2>1. kotlin' = processData(d) /\ d \in Processors /\ (Following(d, sent, now) \/ Lost(d, sent, now))
    BY <1>1, <1>2, <1>6
  <2>. HIDE DEF d
  <2>. QED
    BY <1>2, <1>3, <2>1, KotlinChunk DEF Keeps
<1>8. swift' \in SwiftProcessors /\ Keeps(swift', sent, now)
  <2>. DEFINE d == Fed(swift, chunk)
  <2>0. swift \in Processors /\ swift.length \in Nat
    BY <1>2 DEF SwiftProcessors
  <2>1. swift' = processBuffer(d) /\ d \in Processors /\ (Following(d, sent, now) \/ Lost(d, sent, now))
    BY <1>1, <1>2, <1>6, <2>0
  <2>2. d.length = swift.length
    BY DEF Fed
  <2>3. d \in SwiftProcessors
    BY <2>0, <2>1, <2>2 DEF SwiftProcessors
  <2>. HIDE DEF d
  <2>. QED
    BY <1>2, <1>3, <2>1, <2>3, SwiftChunk DEF Keeps
<1>. QED
  BY <1>1, <1>2, <1>3, <1>4, <1>5, <1>7, <1>8 DEF ResponseInv

\* Every step keeps the invariant.
LEMMA ResponseStep == ResponseInv /\ [GrpcNext]_grpcVars => ResponseInv'
<1>. SUFFICES ASSUME ResponseInv, [GrpcNext]_grpcVars PROVE ResponseInv'
  OBVIOUS
<1>1. CASE \E m \in Messages : PeerSends(m)
  BY <1>1, ResponsePeerSends
<1>2. CASE \E n \in 1 .. Len(wire) : onResponseData(n)
  BY <1>2, ResponseData
<1>3. CASE UNCHANGED <<sent, wire, arrived, kotlin, swift>>
  BY <1>3 DEF ResponseInv
<1>4. ASSUME NEW b \in ByteBuffers, sendMessage(b)
      PROVE  UNCHANGED <<sent, wire, arrived, kotlin, swift>>
  BY <1>4 DEF sendMessage
<1>. QED
  BY <1>1, <1>2, <1>3, <1>4 DEF GrpcNext, grpcVars

\* What has to have been passed on after n bytes of the stream of ms.
DueAt(ms, n) ==
  {k \in 1 .. Len(ms) : EndOf(ms, k) <= n /\ \A i \in 1 .. k : ms[i].flag = 0}

\* What a processor has passed on between two chunks.
LEMMA KeptAsFramed ==
  ASSUME NEW ms \in Seq(Messages), NEW n \in Nat, NEW c \in Processors, Keeps(c, ms, n)
  PROVE  /\ \A k \in DueAt(ms, n) : k \in DOMAIN c.out /\ c.out[k] = ms[k].payload
         /\ (\A k \in 1 .. Len(ms) : ms[k].flag = 0) => DOMAIN c.out = DueAt(ms, n)
<1>. DEFINE m == Len(c.out)  due == DueAt(ms, n)
<1>. HIDE DEF due
<1>0. DOMAIN c.out = 1 .. m /\ m \in Nat /\ Len(ms) \in Nat
  BY DEF Processors
<1>1. CASE Lost(c, ms, n)
  <2>1. PICK p \in 1 .. Len(ms) : /\ ms[p].flag # 0 /\ EndOf(ms, p - 1) < n
                                  /\ p - 1 <= m /\ Passed(c.out, ms, p - 1)
    BY <1>1 DEF Lost
  <2>2. ASSUME NEW k \in due PROVE k \in DOMAIN c.out /\ c.out[k] = ms[k].payload
    <3>1. k \in 1 .. Len(ms) /\ \A i \in 1 .. k : ms[i].flag = 0
      BY DEF due, DueAt
    <3>2. ~(p \in 1 .. k)
      BY <2>1, <3>1
    <3>3. k \in 1 .. p - 1 /\ k \in 1 .. m
      BY <1>0, <2>1, <3>1, <3>2
    <3>. QED
      BY <1>0, <2>1, <3>3 DEF Passed
  <2>3. ~(\A k \in 1 .. Len(ms) : ms[k].flag = 0)
    BY <2>1
  <2>. QED
    BY <2>2, <2>3 DEF due
<1>2. CASE Following(c, ms, n) /\ Waiting(c)
  <2>1. /\ m <= Len(ms) /\ Passed(c.out, ms, m)
        /\ EndOf(ms, m) + Len(c.buffer) = n /\ Len(c.buffer) \in Nat
    BY <1>2 DEF Following, Processors
  <2>2. ASSUME NEW k \in 1 .. Len(ms), EndOf(ms, k) <= n PROVE k \in 1 .. m
    <3>1. SUFFICES ASSUME m < k PROVE FALSE
      BY <1>0
    <3>2. m + 1 \in 1 .. Len(ms) /\ m + 1 <= k /\ m + 1 \in 0 .. Len(ms) /\ k \in 0 .. Len(ms)
      BY <1>0, <3>1
    <3>3. n < EndOf(ms, m + 1)
      BY <1>2, <3>2, WaitsForTheNext
    <3>4. EndOf(ms, m + 1) <= EndOf(ms, k)
      BY <3>2, EndsInOrder
    <3>5. EndOf(ms, m + 1) \in Nat /\ EndOf(ms, k) \in Nat
      BY <3>2, EndOfStep
    <3>. QED
      BY <2>2, <3>3, <3>4, <3>5
  <2>3. ASSUME NEW k \in 1 .. m PROVE k \in due
    <3>1. k \in 1 .. Len(ms) /\ k \in 0 .. Len(ms) /\ m \in 0 .. Len(ms) /\ k <= m
      BY <1>0, <2>1
    <3>2. EndOf(ms, k) <= EndOf(ms, m)
      BY <3>1, EndsInOrder
    <3>3. EndOf(ms, k) \in Nat /\ EndOf(ms, m) \in Nat
      BY <3>1, EndOfStep
    <3>4. EndOf(ms, k) <= n
      BY <2>1, <3>2, <3>3
    <3>5. \A i \in 1 .. k : ms[i].flag = 0
      <4>1. \A i \in 1 .. k : i \in 1 .. m
        BY <1>0
      <4>. QED
        BY <2>1, <4>1 DEF Passed
    <3>. QED
      BY <3>1, <3>4, <3>5 DEF due, DueAt
  <2>4. \A k \in due : k \in 1 .. m
    BY <2>2 DEF due, DueAt
  <2>5. \A k \in due : c.out[k] = ms[k].payload
    BY <2>1, <2>4 DEF Passed
  <2>6. 1 .. m = due
    BY <2>3, <2>4
  <2>. QED
    BY <1>0, <2>4, <2>5, <2>6 DEF due
<1>. QED
  BY <1>1, <1>2 DEF Keeps

\* However the response is cut into chunks, Kotlin and Swift pass on exactly
\* the messages whose last byte has arrived, byte for byte and in order, up to
\* the first compressed one: for messages of any number and length, any number
\* of length bytes, and any base.
THEOREM MessagesDelivered == GrpcSpec => []MessagesAsFramed
<1>1. ResponseInv => MessagesAsFramed
  <2>. SUFFICES ASSUME ResponseInv PROVE MessagesAsFramed
    OBVIOUS
  <2>1. /\ sent \in Seq(Messages) /\ arrived \in Nat
        /\ kotlin \in Processors /\ Keeps(kotlin, sent, arrived)
        /\ swift \in SwiftProcessors /\ Keeps(swift, sent, arrived)
    BY DEF ResponseInv
  <2>2. swift \in Processors
    BY <2>1 DEF SwiftProcessors
  <2>3. Due = DueAt(sent, arrived)
    BY DEF Due, DueAt
  <2>4. ASSUME NEW c \in {kotlin, swift}
        PROVE  /\ \A k \in Due : k \in DOMAIN c.out /\ c.out[k] = sent[k].payload
               /\ (\A k \in 1 .. Len(sent) : sent[k].flag = 0) => DOMAIN c.out = Due
    <3>1. c \in Processors /\ Keeps(c, sent, arrived)
      BY <2>1, <2>2
    <3>. QED
      BY <2>1, <2>3, <3>1, KeptAsFramed, Zenon
  <2>. QED
    BY <2>4 DEF MessagesAsFramed
<1>. QED
  BY <1>1, ResponseInit, ResponseStep, PTL DEF GrpcSpec
-----------------------------------------------------------------------------
(* The request *)

\* The messages that the peer is to read.
Plain(ps) == [i \in 1 .. Len(ps) |-> [payload |-> ps[i], flag |-> 0]]

\* The request body is the stream of the messages sent.
RequestInv ==
  /\ requested \in Seq(Payloads) /\ body \in Seq(Byte)
  /\ Len(body) = EndOf(Plain(requested), Len(requested))
  /\ Streams(body, 0, Plain(requested))

\* A message of the application, as the peer sees it.
LEMMA PlainMessage ==
  ASSUME NEW p \in Payloads
  PROVE  [payload |-> p, flag |-> 0] \in Messages
BY DEF Messages

\* The messages of the application, one by one.
LEMMA PlainMessages ==
  ASSUME NEW ps \in Seq(Payloads)
  PROVE  /\ Plain(ps) \in Seq(Messages) /\ Len(Plain(ps)) = Len(ps)
         /\ \A i \in 1 .. Len(ps) : Plain(ps)[i] = [payload |-> ps[i], flag |-> 0]
<1>. DEFINE n == Len(ps)
<1>1. n \in Nat /\ \A i \in 1 .. n : ps[i] \in Payloads
  OBVIOUS
<1>2. Plain(ps) \in [1 .. n -> Messages]
  BY <1>1, PlainMessage DEF Plain
<1>3. Plain(ps) \in Seq(Messages) /\ Len(Plain(ps)) = n
  BY <1>1, <1>2
<1>. QED
  BY <1>3 DEF Plain

\* One message more on both sides.
LEMMA PlainAppend ==
  ASSUME NEW ps \in Seq(Payloads), NEW p \in Payloads
  PROVE  Plain(Append(ps, p)) = Append(Plain(ps), [payload |-> p, flag |-> 0])
<1>. DEFINE more == Append(ps, p)  m == [payload |-> p, flag |-> 0]
            a == Plain(more)  b == Append(Plain(ps), m)
<1>1. /\ more \in Seq(Payloads) /\ Len(more) = Len(ps) + 1 /\ Len(ps) \in Nat
      /\ more[Len(ps) + 1] = p /\ \A i \in 1 .. Len(ps) : more[i] = ps[i]
  OBVIOUS
<1>. HIDE DEF more
<1>2. /\ a \in Seq(Messages) /\ Len(a) = Len(more)
      /\ \A i \in 1 .. Len(more) : a[i] = [payload |-> more[i], flag |-> 0]
  BY <1>1, PlainMessages
<1>3. /\ Plain(ps) \in Seq(Messages) /\ Len(Plain(ps)) = Len(ps)
      /\ \A i \in 1 .. Len(ps) : Plain(ps)[i] = [payload |-> ps[i], flag |-> 0]
  BY PlainMessages
<1>4. m \in Messages
  BY PlainMessage
<1>. HIDE DEF m
<1>5. /\ b \in Seq(Messages) /\ Len(b) = Len(ps) + 1 /\ b[Len(ps) + 1] = m
      /\ \A i \in 1 .. Len(ps) : b[i] = Plain(ps)[i]
  BY <1>1, <1>3, <1>4
<1>. HIDE DEF a, b
<1>6. ASSUME NEW i \in 1 .. Len(ps) + 1 PROVE a[i] = b[i]
  <2>1. CASE i = Len(ps) + 1
    BY <1>1, <1>2, <1>5, <2>1 DEF m
  <2>2. CASE i # Len(ps) + 1
    <3>1. i \in 1 .. Len(ps) /\ i \in 1 .. Len(more)
      BY <1>1, <2>2
    <3>. QED
      BY <1>1, <1>2, <1>3, <1>5, <3>1
  <2>. QED
    BY <2>1, <2>2
<1>7. a = b
  BY <1>1, <1>2, <1>5, <1>6
<1>. QED
  BY <1>7 DEF a, b, more, m

\* The invariant holds before anything is sent.
LEMMA RequestInit == GrpcInit => RequestInv
<1>. SUFFICES ASSUME GrpcInit PROVE RequestInv
  OBVIOUS
<1>1. requested = <<>> /\ body = <<>>
  BY DEF GrpcInit
<1>2. /\ requested \in Seq(Payloads) /\ body \in Seq(Byte)
      /\ Len(requested) = 0 /\ Len(body) = 0
  BY <1>1
<1>3. Plain(requested) \in Seq(Messages) /\ Len(Plain(requested)) = 0
  BY <1>2, PlainMessages
<1>4. EndOf(Plain(requested), 0) = 0
  BY <1>3, EndOfStep
<1>5. Streams(body, 0, Plain(requested))
  BY <1>3 DEF Streams
<1>. QED
  BY <1>2, <1>4, <1>5 DEF RequestInv

\* sendMessage puts the frame of the message behind the body.
LEMMA RequestSend ==
  ASSUME ~MaySlice, RequestInv, NEW b \in ByteBuffers, sendMessage(b)
  PROVE  RequestInv'
<1>. DEFINE p == b.array  m == [payload |-> p, flag |-> 0]  ms == Plain(requested)
            last == Len(requested)  more == Append(requested, p)
<1>1. p \in Payloads /\ b.position = 0 /\ b.limit = Len(p)
  BY DEF ByteBuffers
<1>2. m \in Messages
  BY <1>1, PlainMessage
<1>3. m.payload = p /\ m.flag = 0 /\ p \in Seq(Byte)
  <2>1. m.payload = p /\ m.flag = 0
    OBVIOUS
  <2>2. m.payload \in Seq(Byte)
    BY <1>2, MessageType
  <2>. QED
    BY <2>1, <2>2
<1>4. Remaining(b) = p
  <2>1. Remaining(b) = SubSeq(p, 1, Len(p))
    BY <1>1 DEF Remaining
  <2>. HIDE DEF p
  <2>2. SubSeq(p, 1, Len(p)) = p
    BY <1>3
  <2>. QED
    BY <2>1, <2>2
<1>5. requested' = more /\ body' = body \o Framed(m)
  <2>1. Framed(m) = Prefix(0, Len(p)) \o p
    BY <1>3 DEF Framed
  <2>2. DataOf(b) = p
    BY DEF DataOf
  <2>3. /\ requested' = Append(requested, Remaining(b))
        /\ body' = body \o (Prefix(0, Len(Remaining(b))) \o DataOf(b))
    BY DEF sendMessage
  <2>. QED
    BY <1>4, <2>1, <2>2, <2>3
<1>6. /\ requested \in Seq(Payloads) /\ body \in Seq(Byte) /\ Len(body) \in Nat
      /\ Len(body) = EndOf(ms, last) /\ Streams(body, 0, ms)
  BY DEF RequestInv
<1>7. ms \in Seq(Messages) /\ Len(ms) = last /\ last \in Nat
  BY <1>6, PlainMessages
<1>8. more \in Seq(Payloads) /\ Len(more) = last + 1 /\ Plain(more) = Append(ms, m)
  BY <1>1, <1>6, PlainAppend
<1>9. Framed(m) \in Seq(Byte)
  BY <1>2, FrameParts
<1>. HIDE DEF m, ms, p
<1>. DEFINE bytes == body \o Framed(m)
<1>10. bytes \in Seq(Byte) /\ Len(bytes) = Len(body) + Len(Framed(m)) /\ Len(Framed(m)) \in Nat
  BY <1>6, <1>9, Joined
<1>. DEFINE all == Append(ms, m)
<1>11. Streams(bytes, 0, all)
  <2>0. all \in Seq(Messages)
    BY <1>2, <1>7
  <2>1. Streams(body, 0, all)
    <3>1. 0 + Len(body) <= EndOf(ms, Len(ms))
      BY <1>6, <1>7
    <3>. QED
      BY <1>2, <1>6, <1>7, <3>1, StreamsAppend
  <2>2. Streams(Framed(m), 0 + Len(body), all)
    <3>1. 0 + Len(body) = EndOf(ms, Len(ms))
      BY <1>6, <1>7
    <3>. QED
      BY <1>2, <1>7, <3>1, StreamsFrame
  <2>. QED
    BY <1>6, <1>9, <2>0, <2>1, <2>2, StreamsJoined
<1>12. Len(bytes) = EndOf(all, Len(more))
  <2>1. /\ all \in Seq(Messages) /\ Len(all) = last + 1 /\ all[last + 1] = m
        /\ last + 1 \in 1 .. Len(all) /\ (last + 1) - 1 = last
    BY <1>2, <1>7
  <2>2. EndOf(all, last) = EndOf(ms, last)
    BY <1>2, <1>7, EndOfAppend
  <2>. HIDE DEF all
  <2>3. EndOf(all, last + 1) = EndOf(all, (last + 1) - 1) + Len(Framed(all[last + 1]))
    BY <2>1, FrameLength
  <2>4. EndOf(all, last + 1) = EndOf(ms, last) + Len(Framed(m))
    BY <2>1, <2>2, <2>3
  <2>. QED
    BY <1>6, <1>8, <1>10, <2>4
<1>13. Plain(more) = all
  BY <1>8
<1>. HIDE DEF bytes, all, more
<1>14. requested' = more /\ body' = bytes
  BY <1>5 DEF bytes
<1>15. more \in Seq(Payloads)
  BY <1>8
<1>. QED
  BY <1>10, <1>11, <1>12, <1>13, <1>14, <1>15 DEF RequestInv

\* Every step keeps the invariant.
LEMMA RequestStep ==
  ASSUME ~MaySlice
  PROVE  RequestInv /\ [GrpcNext]_grpcVars => RequestInv'
<1>. SUFFICES ASSUME RequestInv, [GrpcNext]_grpcVars PROVE RequestInv'
  OBVIOUS
<1>1. CASE \E b \in ByteBuffers : sendMessage(b)
  BY <1>1, RequestSend
<1>2. CASE UNCHANGED <<requested, body>>
  BY <1>2 DEF RequestInv
<1>3. ASSUME NEW m \in Messages, PeerSends(m) PROVE UNCHANGED <<requested, body>>
  BY <1>3 DEF PeerSends
<1>4. ASSUME NEW n \in 1 .. Len(wire), onResponseData(n) PROVE UNCHANGED <<requested, body>>
  BY <1>4 DEF onResponseData
<1>. QED
  BY <1>1, <1>2, <1>3, <1>4 DEF GrpcNext, grpcVars

\* A processor that is given the whole stream of plain messages passes them all.
LEMMA ReadBack ==
  ASSUME NEW ps \in Seq(Payloads), NEW bytes \in Seq(Byte),
         Len(bytes) = EndOf(Plain(ps), Len(ps)), Streams(bytes, 0, Plain(ps)),
         NEW c, c = [state |-> "CompressionFlag", length |-> 0, buffer |-> bytes, out |-> <<>>],
         NEW peer, peer = processData(c)
  PROVE  peer.out = ps /\ peer.buffer = <<>>
<1>. DEFINE ms == Plain(ps)  n == Len(bytes)  m == Len(peer.out)
<1>1. /\ ms \in Seq(Messages) /\ Len(ms) = Len(ps)
      /\ \A i \in 1 .. Len(ps) : ms[i] = [payload |-> ps[i], flag |-> 0]
  BY PlainMessages
<1>. HIDE DEF ms
<1>2. n \in Nat /\ Len(ps) \in Nat /\ n = EndOf(ms, Len(ms)) /\ n <= EndOf(ms, Len(ms))
  BY <1>1 DEF ms
<1>3. Streams(bytes, 0, ms)
  BY DEF ms
<1>4. Following(c, ms, n) /\ c \in Processors
  BY <1>1, <1>2, <1>3, NewFollows
<1>. HIDE DEF n
<1>5. peer \in Processors /\ (Lost(peer, ms, n) \/ (Following(peer, ms, n) /\ Waiting(peer)))
  <2>1. processData(c) \in Processors
    BY <1>1, <1>2, <1>4, KotlinChunk
  <2>2. Lost(processData(c), ms, n) \/ (Following(processData(c), ms, n) /\ Waiting(processData(c)))
    BY <1>1, <1>2, <1>4, KotlinChunk
  <2>3. peer = processData(c)
    OBVIOUS
  <2>. QED
    BY <2>1, <2>2, <2>3
<1>6. ASSUME NEW i \in 1 .. Len(ps) PROVE ms[i].flag = 0 /\ ms[i].payload = ps[i]
  <2>1. ms[i] = [payload |-> ps[i], flag |-> 0]
    BY <1>1
  <2>. QED
    BY <2>1
<1>7. Following(peer, ms, n) /\ Waiting(peer)
  BY <1>1, <1>5, <1>6 DEF Lost
<1>8. /\ m <= Len(ms) /\ Passed(peer.out, ms, m) /\ EndOf(ms, m) + Len(peer.buffer) = n
  BY <1>7 DEF Following
<1>9. peer.out \in Seq(Seq(Byte)) /\ peer.buffer \in Seq(Byte) /\ m \in Nat /\ Len(peer.buffer) \in Nat
  BY <1>5 DEF Processors
<1>10. m = Len(ms)
  <2>1. SUFFICES ASSUME m < Len(ms) PROVE FALSE
    BY <1>1, <1>2, <1>8, <1>9
  <2>2. /\ m + 1 \in 1 .. Len(ms) /\ m + 1 \in 0 .. Len(ms) /\ Len(ms) \in 0 .. Len(ms)
        /\ m + 1 <= Len(ms)
    BY <1>1, <1>2, <1>9, <2>1
  <2>3. n < EndOf(ms, m + 1)
    BY <1>1, <1>2, <1>7, <2>2, WaitsForTheNext
  <2>4. EndOf(ms, m + 1) <= EndOf(ms, Len(ms)) /\ EndOf(ms, m + 1) \in Nat
    BY <1>1, <2>2, EndsInOrder, EndOfStep
  <2>. QED
    BY <1>2, <2>3, <2>4
<1>11. peer.buffer = <<>>
  <2>1. Len(peer.buffer) = 0
    BY <1>2, <1>8, <1>9, <1>10
  <2>. QED
    BY <1>9, <2>1
<1>12. peer.out = ps
  <2>1. ASSUME NEW i \in 1 .. m PROVE peer.out[i] = ps[i]
    <3>1. i \in 1 .. Len(ps)
      BY <1>1, <1>10
    <3>. QED
      BY <1>6, <1>8, <3>1 DEF Passed
  <2>2. Len(peer.out) = Len(ps)
    BY <1>1, <1>10
  <2>3. ps = [i \in 1 .. Len(ps) |-> ps[i]]
    OBVIOUS
  <2>. DEFINE out == peer.out
  <2>4. out \in Seq(Seq(Byte)) /\ Len(out) = Len(ps) /\ \A i \in 1 .. Len(ps) : out[i] = ps[i]
    BY <1>9, <2>1, <2>2
  <2>. HIDE DEF out
  <2>5. out = [i \in 1 .. Len(out) |-> out[i]]
    BY <2>4
  <2>6. out = ps
    BY <2>3, <2>4, <2>5
  <2>. QED
    BY <2>6 DEF out
<1>. QED
  BY <1>11, <1>12

\* The peer, reading the request body with processData, gets the messages that
\* the application sent, where every message is the whole of its ByteBuffer.
THEOREM RequestsRoundTrip ==
  ASSUME ~MaySlice
  PROVE  GrpcSpec => []RequestsAreReadBack
<1>1. RequestInv => RequestsAreReadBack
  <2>. SUFFICES ASSUME RequestInv PROVE RequestsAreReadBack
    OBVIOUS
  <2>. DEFINE c == [NewProcessor EXCEPT !.buffer = body]
              d == [state |-> "CompressionFlag", length |-> 0, buffer |-> body, out |-> <<>>]
  <2>1. c = d
    BY DEF NewProcessor
  <2>2. /\ requested \in Seq(Payloads) /\ body \in Seq(Byte)
        /\ Len(body) = EndOf(Plain(requested), Len(requested))
        /\ Streams(body, 0, Plain(requested))
    BY DEF RequestInv
  <2>3. processData(d).out = requested /\ processData(d).buffer = <<>>
    BY <2>2, ReadBack
  <2>4. processData(c) = processData(d)
    BY <2>1
  <2>5. RequestsAreReadBack <=> processData(c).out = requested /\ processData(c).buffer = <<>>
    BY DEF RequestsAreReadBack
  <2>. QED
    BY <2>3, <2>4, <2>5
<1>. QED
  BY <1>1, RequestInit, RequestStep, PTL DEF GrpcSpec
=============================================================================
