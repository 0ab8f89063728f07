------------------------- MODULE AssertionFilterProofs -------------------------
(***************************************************************************)
(* Theorems about the assertion filter, for every set of configurations,   *)
(* every limit of the body rules and any number of data frames.            *)
(***************************************************************************)
EXTENDS AssertionFilter, FiniteSetTheorems, TLAPS

Frames   == [part : Parts, hit : BOOLEAN]
Statuses == [matches : BOOLEAN, might_change : BOOLEAN]
Replies  == [path : Paths, part : Parts]

Types ==
  /\ Rules \subseteq Paths \X Parts
  /\ statuses_ \in [Rules -> Statuses]
  /\ frames \in [Paths -> Seq(Frames)]
  /\ empty_hit \in [Paths -> BOOLEAN]
  /\ ended \in [Paths -> BOOLEAN]
  /\ reply \in Seq(Replies)

\* The headers are the first frame of a path; trailers are the last and end it.
Shape(F, end) ==
  /\ \A i \in DOMAIN F : F[i].part = "headers" <=> i = 1
  /\ \A i \in DOMAIN F : F[i].part = "trailers" => end /\ i = Len(F)
  /\ end => F # <<>>

\* The status of a rule, by what has been seen of its path.
Open       == [matches |-> FALSE, might_change |-> TRUE]
Decided(m) == [matches |-> m, might_change |-> FALSE]

BodyHit(F)  == \E i \in DOMAIN F : F[i].part = "body" /\ F[i].hit /\ i <= BodyLimit + 1
BodyFull(F) == BodyLimit + 1 \in DOMAIN F /\ F[BodyLimit + 1].part = "body"

HeadersStatus(F) == IF F = <<>> THEN Open ELSE Decided(F[1].hit)
BodyStatus(F) ==
  IF BodyHit(F) THEN Decided(TRUE) ELSE IF BodyFull(F) THEN Decided(FALSE) ELSE Open
TrailersStatus(F, end, e) ==
  IF ~end THEN Open
  ELSE Decided(IF F[Len(F)].part = "trailers" THEN F[Len(F)].hit ELSE e)

StatusOf(part, F, end, e) ==
  IF part = "headers" THEN HeadersStatus(F)
  ELSE IF part = "body" THEN BodyStatus(F) ELSE TrailersStatus(F, end, e)

StatusesFollow ==
  \A r \in Rules : statuses_[r] = StatusOf(r[2], frames[r[1]], ended[r[1]], empty_hit[r[1]])

\* If a path has ended without a reply, all rules are met, those about the other
\* path too; a reply means that they are not, and that the path has ended or no
\* rule is open.
ReplyInv ==
  /\ reply = <<>> =>
       \A p \in Paths : ended[p] => Matches(statuses_)
  /\ \A i \in DOMAIN reply :
       /\ ~Matches(statuses_)
       /\ ended[reply[i].path] \/ ~MightChange(statuses_)

AssertInv ==
  /\ Types
  /\ \A p \in Paths : Shape(frames[p], ended[p])
  /\ StatusesFollow
  /\ ReplyInv

\* On a path that goes on, all frames but the first are data.
LEMMA DataIsTheRest ==
  ASSUME Types, NEW p \in Paths, Shape(frames[p], ended[p]), ~ended[p], frames[p] # <<>>
  PROVE  DataSeen(p) = Len(frames[p]) - 1
<1>. DEFINE F == frames[p]
<1>1. F \in Seq(Frames) /\ Len(F) \in Nat /\ Len(F) >= 1 /\ DOMAIN F = 1 .. Len(F)
  BY DEF Types
<1>2. \A i \in DOMAIN F : F[i].part = "body" <=> i # 1
  <2>1. SUFFICES ASSUME NEW i \in DOMAIN F PROVE F[i].part = "body" <=> i # 1
    OBVIOUS
  <2>2. F[i] \in Frames
    BY <1>1
  <2>4. F[i].part \in Parts
    BY <2>2 DEF Frames
  <2>3. (F[i].part = "headers" <=> i = 1) /\ F[i].part # "trailers"
    BY DEF Shape
  <2>. QED
    BY <2>3, <2>4 DEF Parts
<1>3. Of(p, "body") = 2 .. Len(F)
  BY <1>1, <1>2 DEF Of
<1>4. Cardinality(2 .. Len(F)) = Len(F) - 1
  BY <1>1, FS_Interval
<1>. QED
  BY <1>3, <1>4 DEF DataSeen

\* A frame touches the rule for it only, if that is still open.
LEMMA FeedByRule ==
  ASSUME NEW s \in [Rules -> Statuses], NEW p, NEW part, NEW hit \in BOOLEAN
  PROVE  Feed(s, p, part, hit)
           = [r \in Rules |-> IF r = <<p, part>> THEN RuleAfter(s[r], p, part, hit) ELSE s[r]]
<1>1. CASE MightChange(s)
  BY <1>1 DEF Feed
<1>2. CASE ~MightChange(s)
  <2>1. \A r \in Rules : RuleAfter(s[r], p, part, hit) = s[r]
    BY <1>2 DEF MightChange, RuleAfter
  <2>2. s = [r \in Rules |-> IF r = <<p, part>> THEN RuleAfter(s[r], p, part, hit) ELSE s[r]]
    BY <2>1
  <2>. QED
    BY <1>2, <2>2 DEF Feed
<1>. QED
  BY <1>1, <1>2

LEMMA OpenAfter ==
  ASSUME NEW p, NEW part, NEW hit \in BOOLEAN
  PROVE  /\ \A m \in BOOLEAN : RuleAfter(Decided(m), p, part, hit) = Decided(m)
         /\ part # "body" => RuleAfter(Open, p, part, hit) = Decided(hit)
         /\ part = "body" =>
              RuleAfter(Open, p, part, hit) =
                IF hit THEN Decided(TRUE)
                ELSE IF DataSeen(p) + 1 < BodyLimit THEN Open ELSE Decided(FALSE)
<1>1. \A m \in BOOLEAN : RuleAfter(Decided(m), p, part, hit) = Decided(m)
  BY DEF RuleAfter, Decided
<1>2. part # "body" => RuleAfter(Open, p, part, hit) = Decided(hit)
  BY DEF RuleAfter, Decided, Open
<1>3. ASSUME part = "body", hit PROVE RuleAfter(Open, p, part, hit) = Decided(TRUE)
  BY <1>3 DEF RuleAfter, Decided, Open
<1>4. ASSUME part = "body", ~hit
      PROVE  RuleAfter(Open, p, part, hit) =
               [matches |-> FALSE, might_change |-> DataSeen(p) + 1 < BodyLimit]
  BY <1>4 DEF RuleAfter, Open
<1>5. \A b \in BOOLEAN : [matches |-> FALSE, might_change |-> b]
                             = IF b THEN Open ELSE Decided(FALSE)
  BY DEF Open, Decided
<1>6. [matches |-> FALSE, might_change |-> DataSeen(p) + 1 < BodyLimit]
        = IF DataSeen(p) + 1 < BodyLimit THEN Open ELSE Decided(FALSE)
  <2>1. CASE DataSeen(p) + 1 < BodyLimit
    <3>1. (DataSeen(p) + 1 < BodyLimit) = TRUE
      BY <2>1
    <3>. QED
      BY <1>5, <2>1, <3>1, Zenon
  <2>2. CASE ~(DataSeen(p) + 1 < BodyLimit)
    <3>1. (DataSeen(p) + 1 < BodyLimit) = FALSE
      BY <2>2
    <3>. QED
      BY <1>5, <2>2, <3>1, Zenon
  <2>. QED
    BY <2>1, <2>2, Zenon
<1>7. ASSUME part = "body"
      PROVE  RuleAfter(Open, p, part, hit) =
                IF hit THEN Decided(TRUE)
                ELSE IF DataSeen(p) + 1 < BodyLimit THEN Open ELSE Decided(FALSE)
  <2>1. CASE hit
    BY <1>3, <1>7, <2>1, Zenon
  <2>2. CASE ~hit
    BY <1>4, <1>6, <1>7, <2>2, Zenon
  <2>. QED
    BY <2>1, <2>2, Zenon
<1>. QED
  BY <1>1, <1>2, <1>7, Zenon

\* What a data frame, and any other, does to the status of a body rule.
LEMMA BodyStatusAfter ==
  ASSUME NEW F \in Seq(Frames), NEW part \in Parts, NEW hit \in BOOLEAN
  PROVE  LET G == Append(F, [part |-> part, hit |-> hit]) IN
         /\ part # "body" => BodyStatus(G) = BodyStatus(F)
         /\ part = "body" =>
              BodyStatus(G) =
                IF BodyStatus(F) # Open THEN BodyStatus(F)
                ELSE IF Len(F) > BodyLimit THEN Open
                ELSE IF hit THEN Decided(TRUE)
                ELSE IF Len(F) < BodyLimit THEN Open ELSE Decided(FALSE)
<1>. DEFINE f == [part |-> part, hit |-> hit]  G == Append(F, f)  n == Len(F)
<1>1. /\ n \in Nat /\ DOMAIN F = 1 .. n /\ DOMAIN G = 1 .. n + 1 /\ G[n + 1] = f
      /\ \A i \in 1 .. n : G[i] = F[i]
  BY DEF Frames
<1>2. BodyLimit \in Nat /\ BodyLimit >= 1
  BY AssertionAssumption
<1>3. Open # Decided(TRUE) /\ Open # Decided(FALSE) /\ Decided(TRUE) # Decided(FALSE)
  BY DEF Open, Decided
<1>4. f.part = part /\ f.hit = hit
  OBVIOUS
<1>. HIDE DEF f, G, n
<1>5. BodyHit(G) <=> BodyHit(F) \/ (part = "body" /\ hit /\ n <= BodyLimit)
  <2>1. BodyHit(F) => BodyHit(G)
    BY <1>1 DEF BodyHit
  <2>2. part = "body" /\ hit /\ n <= BodyLimit => BodyHit(G)
    <3>1. n + 1 \in DOMAIN G /\ G[n + 1] = f
      BY <1>1
    <3>2. n <= BodyLimit => n + 1 <= BodyLimit + 1
      BY <1>1, <1>2
    <3>. QED
      BY <1>4, <3>1, <3>2 DEF BodyHit
  <2>3. ASSUME BodyHit(G) PROVE BodyHit(F) \/ (part = "body" /\ hit /\ n <= BodyLimit)
    <3>1. PICK i \in DOMAIN G : G[i].part = "body" /\ G[i].hit /\ i <= BodyLimit + 1
      BY <2>3 DEF BodyHit
    <3>2. CASE i \in 1 .. n
      BY <1>1, <3>1, <3>2 DEF BodyHit
    <3>3. CASE i = n + 1
      BY <1>1, <1>2, <1>4, <3>1, <3>3
    <3>. QED
      BY <1>1, <3>2, <3>3
  <2>. QED
    BY <2>1, <2>2, <2>3
<1>6. BodyFull(G) <=> BodyFull(F) \/ (part = "body" /\ n = BodyLimit)
  BY <1>1, <1>2, <1>4 DEF BodyFull
<1>7. BodyStatus(F) = Open <=> ~BodyHit(F) /\ ~BodyFull(F)
  BY <1>3 DEF BodyStatus
<1>8. part # "body" => BodyStatus(G) = BodyStatus(F)
  BY <1>5, <1>6 DEF BodyStatus
<1>9. ASSUME part = "body"
      PROVE  BodyStatus(G) =
                IF BodyStatus(F) # Open THEN BodyStatus(F)
                ELSE IF n > BodyLimit THEN Open
                ELSE IF hit THEN Decided(TRUE)
                ELSE IF n < BodyLimit THEN Open ELSE Decided(FALSE)
  <2>1. CASE BodyHit(F)
    BY <1>3, <1>5, <2>1 DEF BodyStatus
  <2>2. CASE ~BodyHit(F) /\ BodyFull(F)
    <3>1. n > BodyLimit
      BY <1>1, <1>2, <2>2 DEF BodyFull
    <3>2. ~BodyHit(G) /\ BodyFull(G)
      BY <1>1, <1>2, <1>5, <1>6, <2>2, <3>1
    <3>. QED
      BY <1>3, <2>2, <3>2 DEF BodyStatus
  <2>3. CASE ~BodyHit(F) /\ ~BodyFull(F)
    <3>1. BodyHit(G) <=> hit /\ n <= BodyLimit
      BY <1>5, <1>9, <2>3
    <3>2. BodyFull(G) <=> n = BodyLimit
      BY <1>6, <1>9, <2>3
    <3>3. BodyStatus(F) = Open
      BY <1>7, <2>3
    <3>4. CASE n > BodyLimit
      <4>1. ~(n <= BodyLimit) /\ n # BodyLimit
        BY <1>1, <1>2, <3>4
      <4>2. BodyStatus(G) = Open
        BY <3>1, <3>2, <4>1, Zenon DEF BodyStatus
      <4>. QED
        BY <3>3, <3>4, <4>2, Zenon
    <3>5. CASE ~(n > BodyLimit) /\ hit
      <4>1. n <= BodyLimit
        BY <1>1, <1>2, <3>5
      <4>2. BodyStatus(G) = Decided(TRUE)
        BY <3>1, <3>5, <4>1, Zenon DEF BodyStatus
      <4>. QED
        BY <3>3, <3>5, <4>2, Zenon
    <3>6. CASE ~(n > BodyLimit) /\ ~hit
      <4>1. n < BodyLimit <=> n # BodyLimit
        BY <1>1, <1>2, <3>6
      <4>2. BodyStatus(G) = IF n < BodyLimit THEN Open ELSE Decided(FALSE)
        BY <3>1, <3>2, <3>6, <4>1, Zenon DEF BodyStatus
      <4>. QED
        BY <3>3, <3>6, <4>2, Zenon
    <3>. QED
      BY <3>4, <3>5, <3>6, Zenon
  <2>. QED
    BY <2>1, <2>2, <2>3
<1>. QED
  BY <1>8, <1>9 DEF G, f, n

LEMMA StatusOfType ==
  ASSUME NEW F \in Seq(Frames), NEW end \in BOOLEAN, NEW e \in BOOLEAN, NEW part,
         Shape(F, end)
  PROVE  StatusOf(part, F, end, e) \in Statuses
<1>1. Open \in Statuses /\ \A m \in BOOLEAN : Decided(m) \in Statuses
  BY DEF Open, Decided, Statuses
<1>2. \A i \in DOMAIN F : F[i].hit \in BOOLEAN
  <2>1. SUFFICES ASSUME NEW i \in DOMAIN F PROVE F[i].hit \in BOOLEAN
    OBVIOUS
  <2>2. F[i] \in Frames
    OBVIOUS
  <2>. QED
    BY <2>2 DEF Frames
<1>3. HeadersStatus(F) \in Statuses
  BY <1>1, <1>2 DEF HeadersStatus
<1>4. BodyStatus(F) \in Statuses
  BY <1>1 DEF BodyStatus
<1>5. TrailersStatus(F, end, e) \in Statuses
  <2>1. end => Len(F) \in DOMAIN F
    BY DEF Shape
  <2>. QED
    BY <1>1, <1>2, <2>1 DEF TrailersStatus
<1>. QED
  BY <1>3, <1>4, <1>5 DEF StatusOf

\* The frame that comes next on a path: headers first.
MayCome(p, part) ==
  /\ ~ended[p]
  /\ IF part = "headers" THEN frames[p] = <<>> ELSE frames[p] # <<>>

NextFrames(p, part, hit) == Append(frames[p], [part |-> part, hit |-> hit])

LEMMA NextShape ==
  ASSUME Types, NEW p \in Paths, Shape(frames[p], ended[p]), NEW part \in Parts,
         NEW hit \in BOOLEAN, NEW end \in BOOLEAN, MayCome(p, part),
         part = "trailers" => end
  PROVE  /\ NextFrames(p, part, hit) \in Seq(Frames)
         /\ Shape(NextFrames(p, part, hit), end)
<1>. DEFINE F == frames[p]  f == [part |-> part, hit |-> hit]  G == Append(F, f)
<1>1. F \in Seq(Frames) /\ f \in Frames /\ f.part = part
  BY DEF Types, Frames
<1>2. /\ G \in Seq(Frames) /\ Len(F) \in Nat /\ Len(G) = Len(F) + 1
      /\ DOMAIN F = 1 .. Len(F) /\ DOMAIN G = 1 .. Len(F) + 1
      /\ \A i \in 1 .. Len(F) : G[i] = F[i]
      /\ G[Len(F) + 1] = f /\ G # <<>>
  BY <1>1
<1>3. /\ \A i \in DOMAIN F : F[i].part = "headers" <=> i = 1
      /\ \A i \in DOMAIN F : F[i].part # "trailers"
  BY DEF Shape, MayCome
<1>4. part = "headers" <=> Len(F) + 1 = 1
  BY <1>1, <1>2 DEF MayCome
<1>. HIDE DEF F, f, G
<1>5. ASSUME NEW i \in DOMAIN G
      PROVE  /\ G[i].part = "headers" <=> i = 1
             /\ G[i].part = "trailers" => end /\ i = Len(G)
  <2>1. CASE i \in 1 .. Len(F)
    BY <1>2, <1>3, <2>1
  <2>2. CASE i = Len(F) + 1
    BY <1>1, <1>2, <1>4, <2>2
  <2>. QED
    BY <1>2, <2>1, <2>2
<1>6. Shape(G, end)
  BY <1>2, <1>5 DEF Shape
<1>. QED
  BY <1>2, <1>6 DEF NextFrames, G, F, f

\* The status of a rule after a frame, before the end of the stream is
\* considered.
LEMMA FedStatus ==
  ASSUME AssertInv, NEW p \in Paths, NEW part \in Parts, NEW hit \in BOOLEAN,
         MayCome(p, part), NEW r \in Rules
  PROVE  Feed(statuses_, p, part, hit)[r] =
           IF r[1] = p
           THEN StatusOf(r[2], NextFrames(p, part, hit), part = "trailers", empty_hit[p])
           ELSE statuses_[r]
<1>. DEFINE F == frames[p]  f == [part |-> part, hit |-> hit]  G == Append(F, f)
            e == empty_hit[p]
<1>0. /\ Types /\ Shape(F, ended[p]) /\ ~ended[p] /\ statuses_ \in [Rules -> Statuses]
      /\ F \in Seq(Frames) /\ f \in Frames /\ f.part = part /\ f.hit = hit
      /\ r[1] \in Paths /\ r[2] \in Parts /\ r = <<r[1], r[2]>>
  <2>1. Types /\ Shape(F, ended[p]) /\ ~ended[p]
    BY DEF AssertInv, MayCome
  <2>2. /\ statuses_ \in [Rules -> Statuses] /\ F \in Seq(Frames)
        /\ Rules \subseteq Paths \X Parts
    BY <2>1 DEF Types
  <2>3. f \in Frames /\ f.part = part /\ f.hit = hit
    BY DEF Frames
  <2>4. r \in Paths \X Parts
    BY <2>2
  <2>5. r[1] \in Paths /\ r[2] \in Parts /\ r = <<r[1], r[2]>>
    BY <2>4
  <2>. QED
    BY <2>1, <2>2, <2>3, <2>5
<1>1. Feed(statuses_, p, part, hit)[r] =
        IF r = <<p, part>> THEN RuleAfter(statuses_[r], p, part, hit) ELSE statuses_[r]
  BY <1>0, FeedByRule
<1>2. CASE r[1] # p
  BY <1>0, <1>1, <1>2
<1>3. CASE r[1] = p
  <2>1. statuses_[r] = StatusOf(r[2], F, FALSE, e)
    BY <1>0, <1>3 DEF AssertInv, StatusesFollow, MayCome, Types
  <2>2. /\ Len(F) \in Nat /\ Len(G) = Len(F) + 1 /\ G # <<>>
        /\ \A i \in 1 .. Len(F) : G[i] = F[i]
        /\ G[Len(F) + 1] = f
    BY <1>0
  <2>. DEFINE fed == Feed(statuses_, p, part, hit)[r]
  <2>3. CASE r[2] = "headers"
    <3>1. statuses_[r] = HeadersStatus(F) /\ StatusOf(r[2], G, part = "trailers", e) = HeadersStatus(G)
      BY <2>1, <2>3 DEF StatusOf
    <3>2. CASE part = "headers"
      <4>1. F = <<>> /\ G[1] = f
        BY <2>2, <3>2 DEF MayCome
      <4>2. statuses_[r] = Open /\ HeadersStatus(G) = Decided(hit)
        BY <1>0, <2>2, <3>1, <4>1 DEF HeadersStatus
      <4>3. fed = Decided(hit)
        BY <1>0, <1>1, <1>3, <2>3, <3>2, <4>2, OpenAfter
      <4>. QED
        BY <1>3, <3>1, <4>2, <4>3 DEF NextFrames
    <3>3. CASE part # "headers"
      <4>1. F # <<>> /\ G[1] = F[1]
        BY <1>0, <2>2, <3>3 DEF MayCome
      <4>2. HeadersStatus(G) = HeadersStatus(F)
        BY <2>2, <4>1 DEF HeadersStatus
      <4>3. r # <<p, part>>
        BY <1>0, <2>3, <3>3
      <4>. QED
        BY <1>1, <1>3, <3>1, <4>2, <4>3 DEF NextFrames
    <3>. QED
      BY <3>2, <3>3
  <2>4. CASE r[2] = "body"
    <3>1. statuses_[r] = BodyStatus(F) /\ StatusOf(r[2], G, part = "trailers", e) = BodyStatus(G)
      BY <2>1, <2>4 DEF StatusOf
    <3>2. CASE part # "body"
      <4>1. r # <<p, part>>
        BY <1>0, <2>4, <3>2
      <4>2. BodyStatus(G) = BodyStatus(F)
        BY <1>0, <3>2, BodyStatusAfter
      <4>. QED
        BY <1>1, <1>3, <3>1, <4>1, <4>2 DEF NextFrames
    <3>3. CASE part = "body"
      <4>1. r = <<p, part>> /\ fed = RuleAfter(BodyStatus(F), p, part, hit)
        BY <1>0, <1>1, <1>3, <2>4, <3>1, <3>3
      <4>2. BodyStatus(G) =
                IF BodyStatus(F) # Open THEN BodyStatus(F)
                ELSE IF Len(F) > BodyLimit THEN Open
                ELSE IF hit THEN Decided(TRUE)
                ELSE IF Len(F) < BodyLimit THEN Open ELSE Decided(FALSE)
        BY <1>0, <3>3, BodyStatusAfter
      <4>3. CASE BodyStatus(F) # Open
        <5>1. BodyStatus(F) \in {Decided(TRUE), Decided(FALSE)}
          BY <4>3 DEF BodyStatus
        <5>2. RuleAfter(BodyStatus(F), p, part, hit) = BodyStatus(F)
          BY <5>1, OpenAfter
        <5>. QED
          BY <1>3, <3>1, <4>1, <4>2, <4>3, <5>2, Zenon DEF NextFrames
      <4>4. CASE BodyStatus(F) = Open
        <5>1. F # <<>> /\ DataSeen(p) = Len(F) - 1
          BY <1>0, <3>3, DataIsTheRest DEF MayCome
        <5>2. ~(Len(F) > BodyLimit)
          <6>1. SUFFICES ASSUME Len(F) > BodyLimit PROVE FALSE
            OBVIOUS
          <6>2. BodyLimit \in Nat /\ BodyLimit >= 1
            BY AssertionAssumption
          <6>3. BodyLimit + 1 \in DOMAIN F /\ BodyLimit + 1 # 1
            BY <1>0, <6>1, <6>2
          <6>4. F[BodyLimit + 1] \in Frames
            BY <1>0, <6>3
          <6>5. F[BodyLimit + 1].part = "body"
            BY <1>0, <6>3, <6>4 DEF Shape, Frames, Parts
          <6>6. BodyFull(F)
            BY <6>3, <6>5 DEF BodyFull
          <6>. QED
            BY <4>4, <6>6 DEF BodyStatus, Open, Decided
        <5>3. DataSeen(p) + 1 < BodyLimit <=> Len(F) < BodyLimit
          BY <2>2, <5>1, AssertionAssumption
        <5>4. RuleAfter(Open, p, part, hit) =
                IF hit THEN Decided(TRUE)
                ELSE IF DataSeen(p) + 1 < BodyLimit THEN Open ELSE Decided(FALSE)
          BY <3>3, OpenAfter
        <5>5. RuleAfter(Open, p, part, hit) = BodyStatus(G)
          BY <4>2, <4>4, <5>2, <5>3, <5>4, Zenon
        <5>. QED
          BY <1>3, <3>1, <4>1, <4>4, <5>5, Zenon DEF NextFrames
      <4>. QED
        BY <4>3, <4>4
    <3>. QED
      BY <3>2, <3>3
  <2>5. CASE r[2] = "trailers"
    <3>1. statuses_[r] = Open
      BY <2>1, <2>5 DEF StatusOf, TrailersStatus
    <3>2. CASE part = "trailers"
      <4>1. fed = Decided(hit)
        BY <1>0, <1>1, <1>3, <2>5, <3>1, <3>2, OpenAfter
      <4>2. G[Len(G)].part = "trailers" /\ G[Len(G)].hit = hit
        BY <1>0, <2>2, <3>2
      <4>3. StatusOf(r[2], G, part = "trailers", e) = Decided(hit)
        BY <2>5, <3>2, <4>2 DEF StatusOf, TrailersStatus
      <4>. QED
        BY <1>3, <4>1, <4>3 DEF NextFrames
    <3>3. CASE part # "trailers"
      <4>1. r # <<p, part>>
        BY <1>0, <2>5, <3>3
      <4>2. StatusOf(r[2], G, part = "trailers", e) = Open
        BY <2>5, <3>3 DEF StatusOf, TrailersStatus
      <4>. QED
        BY <1>1, <1>3, <3>1, <4>1, <4>2 DEF NextFrames
    <3>. QED
      BY <3>2, <3>3
  <2>. QED
    BY <1>0, <2>3, <2>4, <2>5 DEF Parts
<1>. QED
  BY <1>2, <1>3

\* The statuses at the end of a handler.
LEMMA HandledStatus ==
  ASSUME AssertInv, NEW p \in Paths, NEW part \in Parts, NEW hit \in BOOLEAN,
         NEW end \in BOOLEAN, MayCome(p, part), part = "trailers" => end,
         Handle(p, part, hit, end)
  PROVE  /\ statuses_' \in [Rules -> Statuses]
         /\ \A r \in Rules :
              statuses_'[r] =
                IF r[1] = p THEN StatusOf(r[2], NextFrames(p, part, hit), end, empty_hit[p])
                ELSE statuses_[r]
<1>. DEFINE fed == Feed(statuses_, p, part, hit)  G == NextFrames(p, part, hit)
            e == empty_hit[p]
            Status(r, last) == IF r[1] = p THEN StatusOf(r[2], G, last, e) ELSE statuses_[r]
<1>1. /\ Types /\ Shape(frames[p], ended[p]) /\ statuses_ \in [Rules -> Statuses]
      /\ e \in BOOLEAN /\ Rules \subseteq Paths \X Parts
  BY DEF AssertInv, Types
<1>2. /\ G \in Seq(Frames) /\ Shape(G, end) /\ Shape(G, part = "trailers")
      /\ (part = "trailers") \in BOOLEAN
  <2>1. G \in Seq(Frames) /\ Shape(G, end)
    BY <1>1, NextShape
  <2>2. CASE part = "trailers"
    <3>1. (part = "trailers") = TRUE /\ end = TRUE
      BY <2>2
    <3>. QED
      BY <2>1, <3>1
  <2>3. CASE part # "trailers"
    <3>1. (part = "trailers") = FALSE
      BY <2>3
    <3>2. Shape(G, FALSE)
      BY <1>1, <2>3, NextShape
    <3>. QED
      BY <2>1, <3>1, <3>2
  <2>. QED
    BY <2>2, <2>3
<1>3. G[Len(G)].part = part
  BY <1>1 DEF NextFrames, Types, Frames
<1>. HIDE DEF G, e
<1>4. \A r \in Rules : fed[r] = Status(r, part = "trailers")
  BY FedStatus DEF G, e
<1>5. \A r \in Rules, last \in BOOLEAN : Shape(G, last) => Status(r, last) \in Statuses
  BY <1>1, <1>2, StatusOfType
<1>6. fed \in [Rules -> Statuses]
  <2>1. fed = [r \in Rules |-> fed[r]]
    BY <1>1, FeedByRule
  <2>2. \A r \in Rules : fed[r] \in Statuses
    BY <1>2, <1>4, <1>5
  <2>. QED
    BY <2>1, <2>2
<1>7. \A r \in Rules : r[2] # "trailers" => Status(r, TRUE) = Status(r, FALSE)
  <2>1. \A part_ : part_ # "trailers" /\ part_ \in Parts =>
          StatusOf(part_, G, TRUE, e) = StatusOf(part_, G, FALSE, e)
    BY DEF StatusOf, Parts
  <2>2. \A r \in Rules : r[2] \in Parts
    BY <1>1
  <2>. QED
    BY <2>1, <2>2, Zenon
<1>. HIDE DEF fed
<1>8. CASE part = "trailers"
  <2>1. (part = "trailers") = end /\ statuses_' = fed
    BY <1>8 DEF Handle, fed
  <2>. QED
    BY <1>4, <1>6, <2>1 DEF G, e
<1>9. CASE part # "trailers" /\ ~end
  <2>1. (part = "trailers") = end /\ statuses_' = fed
    BY <1>9 DEF Handle, fed
  <2>. QED
    BY <1>4, <1>6, <2>1 DEF G, e
<1>10. CASE part # "trailers" /\ end
  <2>0. (part = "trailers") = FALSE /\ end = TRUE
    BY <1>10
  <2>1. \A r \in Rules : r = <<p, "trailers">> => fed[r] = Open
    BY <1>4, <2>0 DEF StatusOf, TrailersStatus
  <2>2. \A r \in Rules : r[1] = p /\ r[2] = "trailers" => r = <<p, "trailers">>
    BY <1>1
  <2>3. CASE Fails(fed)
    <3>1. statuses_' = fed
      BY <1>10, <2>3 DEF Handle, fed
    <3>2. \A r \in Rules : ~(r[1] = p /\ r[2] = "trailers")
      BY <2>1, <2>2, <2>3 DEF Fails, MightChange, Open
    <3>3. \A r \in Rules : Status(r, TRUE) = Status(r, FALSE)
      BY <1>7, <3>2
    <3>. QED
      BY <1>4, <1>6, <2>0, <3>1, <3>3 DEF G, e
  <2>4. CASE ~Fails(fed)
    <3>1. statuses_' = Feed(fed, p, "trailers", e)
      BY <1>10, <2>4 DEF Handle, fed, WithEmptyTrailers, e
    <3>2. statuses_' = [r \in Rules |-> IF r = <<p, "trailers">>
                                        THEN RuleAfter(fed[r], p, "trailers", e) ELSE fed[r]]
      BY <1>1, <1>6, <3>1, FeedByRule
    <3>3. RuleAfter(Open, p, "trailers", e) = Decided(e)
      BY <1>1, OpenAfter
    <3>4. StatusOf("trailers", G, TRUE, e) = Decided(e)
      BY <1>3, <1>10 DEF StatusOf, TrailersStatus
    <3>5. ASSUME NEW r \in Rules PROVE statuses_'[r] = Status(r, TRUE)
      <4>1. CASE r = <<p, "trailers">>
        <5>1. r[1] = p /\ r[2] = "trailers"
          BY <4>1
        <5>. QED
          BY <2>1, <3>2, <3>3, <3>4, <4>1, <5>1
      <4>2. CASE r # <<p, "trailers">>
        <5>1. statuses_'[r] = Status(r, FALSE)
          BY <1>4, <2>0, <3>2, <4>2
        <5>2. r[1] = p => r[2] # "trailers"
          BY <2>2, <4>2
        <5>3. Status(r, TRUE) = Status(r, FALSE)
          BY <1>7, <5>2
        <5>. QED
          BY <5>1, <5>3
      <4>. QED
        BY <4>1, <4>2
    <3>6. \A r \in Rules : statuses_'[r] \in Statuses
      BY <1>2, <1>5, <2>0, <3>5
    <3>7. statuses_' \in [Rules -> Statuses]
      BY <3>2, <3>6
    <3>. QED
      BY <2>0, <3>5, <3>7 DEF G, e
  <2>. QED
    BY <2>3, <2>4
<1>. QED
  BY <1>8, <1>9, <1>10

\* A rule that is met stays so: the matcher does not look at it again.
LEMMA MetIsDecided ==
  ASSUME AssertInv, NEW r \in Rules, statuses_[r].matches
  PROVE  ~statuses_[r].might_change
<1>1. ~Open.matches /\ \A m : ~Decided(m).might_change
  BY DEF Open, Decided
<1>2. statuses_[r] = Open \/ \E m : statuses_[r] = Decided(m)
  BY DEF AssertInv, StatusesFollow, StatusOf, HeadersStatus, BodyStatus, TrailersStatus
<1>. QED
  BY <1>1, <1>2

\* A handler keeps the invariant.
LEMMA HandleStep ==
  ASSUME AssertInv, NEW p \in Paths, NEW part \in Parts, NEW hit \in BOOLEAN,
         NEW end \in BOOLEAN, MayCome(p, part), part = "trailers" => end,
         Handle(p, part, hit, end)
  PROVE  AssertInv'
<1>. DEFINE fed == Feed(statuses_, p, part, hit)  G == NextFrames(p, part, hit)
<1>1. /\ Types /\ Shape(frames[p], ended[p]) /\ \A q \in Paths : Shape(frames[q], ended[q])
      /\ Rules \subseteq Paths \X Parts /\ reply = <<>>
      /\ frames \in [Paths -> Seq(Frames)] /\ ended \in [Paths -> BOOLEAN]
  BY DEF AssertInv, Types, Handle
<1>2. G \in Seq(Frames) /\ Shape(G, end)
  BY <1>1, NextShape
<1>3. /\ statuses_' \in [Rules -> Statuses]
      /\ \A r \in Rules :
           statuses_'[r] =
             IF r[1] = p THEN StatusOf(r[2], G, end, empty_hit[p]) ELSE statuses_[r]
  BY HandledStatus
<1>4. /\ frames' = [frames EXCEPT ![p] = G] /\ ended' = [ended EXCEPT ![p] = end]
      /\ empty_hit' = empty_hit
  BY DEF Handle, NextFrames
<1>. HIDE DEF G
<1>5. Rules' = Rules
  BY <1>3 DEF Rules
<1>6. /\ frames'[p] = G /\ ended'[p] = end
      /\ \A q \in Paths : q # p => frames'[q] = frames[q] /\ ended'[q] = ended[q]
  BY <1>1, <1>4
<1>7. reply' = <<>> \/ \E x \in Replies : reply' = <<x>> /\ x.path = p
  <2>1. \A x \in Parts : [path |-> p, part |-> x] \in Replies /\ [path |-> p, part |-> x].path = p
    BY DEF Replies
  <2>2. reply' = reply \/ \E x \in Parts : reply' = Append(reply, [path |-> p, part |-> x])
    BY DEF Handle, FinalCheck, Reply, Parts
  <2>3. \A x : Append(<<>>, x) = <<x>>
    OBVIOUS
  <2>. QED
    BY <1>1, <2>1, <2>2, <2>3
<1>8. Types'
  <2>1. frames' \in [Paths -> Seq(Frames)] /\ ended' \in [Paths -> BOOLEAN]
    BY <1>1, <1>2, <1>4
  <2>2. reply' \in Seq(Replies)
    <3>1. <<>> \in Seq(Replies) /\ \A x \in Replies : <<x>> \in Seq(Replies)
      OBVIOUS
    <3>. QED
      BY <1>7, <3>1
  <2>. QED
    BY <1>1, <1>3, <1>4, <1>5, <2>1, <2>2 DEF Types
<1>9. \A q \in Paths : Shape(frames'[q], ended'[q])
  BY <1>1, <1>2, <1>6
<1>10. StatusesFollow'
  <2>1. SUFFICES ASSUME NEW r \in Rules
                 PROVE  statuses_'[r] = StatusOf(r[2], frames'[r[1]], ended'[r[1]], empty_hit'[r[1]])
    BY <1>5 DEF StatusesFollow
  <2>2. r[1] \in Paths
    BY <1>1
  <2>3. CASE r[1] = p
    BY <1>3, <1>4, <1>6, <2>3
  <2>4. CASE r[1] # p
    <3>1. statuses_'[r] = statuses_[r]
      BY <1>3, <2>4
    <3>2. statuses_[r] = StatusOf(r[2], frames[r[1]], ended[r[1]], empty_hit[r[1]])
      BY DEF AssertInv, StatusesFollow
    <3>. QED
      BY <1>4, <1>6, <2>2, <2>4, <3>1, <3>2
  <2>. QED
    BY <2>3, <2>4
<1>11. ReplyInv'
  <2>1. CASE reply' = <<>> /\ ~end
    <3>1. SUFFICES ASSUME NEW q \in Paths, ended'[q] PROVE Matches(statuses_)'
      BY <2>1 DEF ReplyInv
    <3>2. Matches(statuses_)
      BY <1>1, <1>6, <2>1, <3>1 DEF AssertInv, ReplyInv
    <3>3. ~MightChange(statuses_)
      BY <3>2, MetIsDecided DEF Matches, MightChange
    <3>4. Feed(statuses_, p, part, hit) = statuses_
      BY <3>3 DEF Feed
    <3>5. statuses_' = statuses_
      BY <2>1, <3>4 DEF Handle, FinalCheck, Reply
    <3>. QED
      BY <1>5, <3>2, <3>5 DEF Matches
  <2>2. CASE reply' = <<>> /\ end
    <3>1. \A x : Append(reply, x) # <<>>
      BY <1>1
    <3>2. Matches(statuses_')
      BY <1>1, <2>2, <3>1 DEF Handle, FinalCheck, Reply
    <3>3. Matches(statuses_)'
      BY <1>5, <3>2 DEF Matches
    <3>. QED
      BY <2>2, <3>3 DEF ReplyInv
  <2>3. CASE reply' # <<>>
    <3>1. PICK x \in Replies : reply' = <<x>> /\ x.path = p
      BY <1>7, <2>3
    <3>2. ~Matches(statuses_') /\ (end \/ ~MightChange(statuses_'))
      BY <1>1, <2>3 DEF Handle, FinalCheck, Fails
    <3>3. ~Matches(statuses_)' /\ (end \/ ~MightChange(statuses_)')
      BY <1>5, <3>2 DEF Matches, MightChange
    <3>4. \A i \in DOMAIN reply' : reply'[i].path = p
      BY <3>1
    <3>. QED
      BY <1>6, <2>3, <3>3, <3>4 DEF ReplyInv
  <2>. QED
    BY <2>1, <2>2, <2>3
<1>. QED
  BY <1>8, <1>9, <1>10, <1>11 DEF AssertInv

\* The matcher's statuses are what the frames so far say, and a local reply is
\* there exactly when they do not fit: the inductive invariant of Handle.
THEOREM AssertInvariant == Spec => []AssertInv
<1>1. Init => AssertInv
  <2>1. SUFFICES ASSUME Init PROVE AssertInv
    OBVIOUS
  <2>2. PICK rules \in Configs :
          statuses_ = [r \in rules |-> [matches |-> FALSE, might_change |-> TRUE]]
    BY <2>1 DEF Init
  <2>3. Rules = rules /\ rules \subseteq Paths \X Parts
    BY <2>2, AssertionAssumption DEF Rules
  <2>4. /\ \A p \in Paths : frames[p] = <<>> /\ ~ended[p]
        /\ reply = <<>>
        /\ \A r \in Rules : r[1] \in Paths /\ statuses_[r] = Open
    BY <2>1, <2>2, <2>3 DEF Init, Open
  <2>5. Types
    <3>1. statuses_ \in [Rules -> Statuses]
      BY <2>2, <2>3 DEF Statuses
    <3>2. <<>> \in Seq(Frames) /\ <<>> \in Seq(Replies)
      OBVIOUS
    <3>. QED
      BY <2>1, <2>3, <3>1, <3>2 DEF Types, Init
  <2>6. \A p \in Paths : Shape(frames[p], ended[p])
    <3>1. DOMAIN <<>> = {}
      OBVIOUS
    <3>. QED
      BY <2>4, <3>1 DEF Shape
  <2>7. StatusesFollow
    <3>1. \A part, e : StatusOf(part, <<>>, FALSE, e) = Open
      <4>1. ~BodyHit(<<>>) /\ ~BodyFull(<<>>)
        BY DEF BodyHit, BodyFull
      <4>. QED
        BY <4>1 DEF StatusOf, HeadersStatus, BodyStatus, TrailersStatus
    <3>2. \A p \in Paths : ended[p] = FALSE
      BY <2>1 DEF Init
    <3>. QED
      BY <2>4, <3>1, <3>2 DEF StatusesFollow
  <2>8. ReplyInv
    BY <2>4 DEF ReplyInv
  <2>. QED
    BY <2>5, <2>6, <2>7, <2>8 DEF AssertInv
<1>2. AssertInv /\ [Next]_vars => AssertInv'
  <2>1. SUFFICES ASSUME AssertInv, [Next]_vars PROVE AssertInv'
    OBVIOUS
  <2>2. CASE UNCHANGED vars
    BY <2>1, <2>2 DEF vars, AssertInv, Types, StatusesFollow, ReplyInv, Rules, Matches, MightChange
  <2>3. CASE Next
    <3>1. PICK p \in Paths, hit \in BOOLEAN, end \in BOOLEAN :
            onHeaders(p, hit, end) \/ onData(p, hit, end) \/ onTrailers(p, hit)
      BY <2>3 DEF Next
    <3>0. "headers" \in Parts /\ "body" \in Parts /\ "trailers" \in Parts
      BY DEF Parts
    <3>2. CASE onHeaders(p, hit, end)
      <4>1. MayCome(p, "headers") /\ Handle(p, "headers", hit, end)
        BY <3>2 DEF onHeaders, MayCome, Handle
      <4>. QED
        BY <2>1, <3>0, <4>1, HandleStep
    <3>3. CASE onData(p, hit, end)
      <4>1. MayCome(p, "body") /\ Handle(p, "body", hit, end)
        BY <3>3 DEF onData, MayCome, Handle
      <4>. QED
        BY <2>1, <3>0, <4>1, HandleStep
    <3>4. CASE onTrailers(p, hit)
      <4>1. MayCome(p, "trailers") /\ Handle(p, "trailers", hit, TRUE)
        BY <3>4 DEF onTrailers, MayCome, Handle
      <4>. QED
        BY <2>1, <3>0, <4>1, HandleStep
    <3>. QED
      BY <3>1, <3>2, <3>3, <3>4
  <2>. QED
    BY <2>1, <2>2, <2>3
<1>. QED
  BY <1>1, <1>2, PTL DEF Spec

LEMMA OnlyOne ==
  ASSUME NEW n \in Nat, NEW S, S = {n}
  PROVE  Cardinality({j \in S : j <= n}) <= BodyLimit
<1>1. {j \in S : j <= n} = {n}
  OBVIOUS
<1>2. Cardinality({n}) = 1
  BY FS_Singleton
<1>3. Cardinality({j \in S : j <= n}) = 1
  BY <1>1, <1>2
<1>4. 1 <= BodyLimit
  BY AssertionAssumption
<1>. QED
  BY <1>3, <1>4

\* What a rule says of the frames, and what the matcher makes of it.
LEMMA HeadersSatisfied ==
  ASSUME AssertInv, NEW r \in Rules, r[2] = "headers", frames[r[1]] # <<>>
  PROVE  /\ Of(r[1], r[2]) # {}
         /\ Satisfied(r) <=> statuses_[r].matches
<1>. DEFINE p == r[1]  F == frames[p]  of == Of(p, "headers")
<1>1. p \in Paths /\ F \in Seq(Frames) /\ Shape(F, ended[p]) /\ F # <<>>
  BY DEF AssertInv, Types
<1>2. 1 \in DOMAIN F /\ of = {1}
  BY <1>1 DEF Of, Shape
<1>4. Satisfied(r) <=> F[1].hit
  <2>1. Cardinality({j \in of : j <= 1}) <= BodyLimit
    BY <1>2, OnlyOne
  <2>2. Satisfied(r) <=>
          \E i \in of : F[i].hit /\ Cardinality({j \in of : j <= i}) <= BodyLimit
    BY DEF Satisfied
  <2>. QED
    BY <1>2, <2>1, <2>2
<1>5. statuses_[r] = Decided(F[1].hit)
  BY <1>1 DEF AssertInv, StatusesFollow, StatusOf, HeadersStatus
<1>. QED
  BY <1>2, <1>4, <1>5 DEF Decided

LEMMA BodySatisfied ==
  ASSUME AssertInv, NEW r \in Rules, r[2] = "body"
  PROVE  /\ Satisfied(r) <=> statuses_[r].matches
         /\ ~statuses_[r].matches /\ ~statuses_[r].might_change
              => DataSeen(r[1]) >= BodyLimit
<1>. DEFINE p == r[1]  F == frames[p]  of == Of(p, "body")
<1>1. p \in Paths /\ F \in Seq(Frames) /\ Shape(F, ended[p]) /\ DOMAIN F = 1 .. Len(F)
  BY DEF AssertInv, Types
<1>2. BodyLimit \in Nat /\ BodyLimit >= 1
  BY AssertionAssumption
<1>3. ASSUME NEW i \in of PROVE i \in Nat /\ {j \in of : j <= i} = 2 .. i /\ i >= 2
  <2>1. i \in DOMAIN F /\ F[i].part = "body" /\ i \in Nat /\ i <= Len(F) /\ Len(F) \in Nat
    BY <1>1, <1>3 DEF Of
  <2>2. i # 1 /\ i >= 2
    BY <1>1, <2>1 DEF Shape
  <2>3. ASSUME NEW j \in 2 .. i PROVE j \in of
    <3>1. j \in DOMAIN F /\ j # 1
      BY <1>1, <2>1, <2>3
    <3>2. F[j].part # "headers"
      BY <1>1, <3>1 DEF Shape
    <3>3. F[j].part # "trailers"
      <4>1. CASE j = i
        BY <2>1, <4>1
      <4>2. CASE j # i
        <5>1. j # Len(F)
          BY <2>1, <2>3, <4>2
        <5>. QED
          BY <1>1, <3>1, <5>1 DEF Shape
      <4>. QED
        BY <4>1, <4>2
    <3>4. F[j] \in Frames
      BY <1>1, <3>1
    <3>5. F[j].part \in Parts
      BY <3>4 DEF Frames
    <3>. QED
      BY <3>1, <3>2, <3>3, <3>5 DEF Of, Parts
  <2>4. \A j \in of : j \in Nat /\ j # 1 /\ j >= 1
    BY <1>1 DEF Of, Shape
  <2>. HIDE DEF of
  <2>5. \A j \in of : j <= i => j \in 2 .. i
    BY <2>1, <2>4
  <2>6. \A j \in 2 .. i : j \in of /\ j <= i
    BY <2>1, <2>3
  <2>7. {j \in of : j <= i} = 2 .. i
    BY <2>5, <2>6
  <2>. QED
    BY <2>1, <2>2, <2>7
<1>4. ASSUME NEW i \in of
      PROVE  Cardinality({j \in of : j <= i}) <= BodyLimit <=> i <= BodyLimit + 1
  <2>1. Cardinality(2 .. i) = i - 1
    BY <1>3, <1>4, FS_Interval
  <2>2. Cardinality({j \in of : j <= i}) = i - 1
    BY <1>3, <1>4, <2>1
  <2>. QED
    BY <1>2, <1>3, <1>4, <2>2
<1>5. Satisfied(r) <=> BodyHit(F)
  <2>1. Satisfied(r) <=>
          \E i \in of : F[i].hit /\ Cardinality({j \in of : j <= i}) <= BodyLimit
    BY DEF Satisfied
  <2>2. Satisfied(r) <=> \E i \in of : F[i].hit /\ i <= BodyLimit + 1
    BY <1>4, <2>1
  <2>. QED
    BY <2>2 DEF BodyHit, Of
<1>6. statuses_[r] = BodyStatus(F)
  BY DEF AssertInv, StatusesFollow, StatusOf
<1>7. Satisfied(r) <=> statuses_[r].matches
  BY <1>5, <1>6 DEF BodyStatus, Open, Decided
<1>8. ASSUME ~statuses_[r].matches, ~statuses_[r].might_change
      PROVE  DataSeen(p) >= BodyLimit
  <2>1. BodyFull(F)
    BY <1>6, <1>8 DEF BodyStatus, Open, Decided
  <2>2. BodyLimit + 1 \in of
    BY <2>1 DEF BodyFull, Of
  <2>3. 2 .. BodyLimit + 1 \subseteq of
    BY <1>3, <2>2
  <2>4. Cardinality(2 .. BodyLimit + 1) = BodyLimit
    BY <1>2, FS_Interval
  <2>5. IsFiniteSet(of)
    <3>1. IsFiniteSet(1 .. Len(F))
      BY <1>1, FS_Interval
    <3>2. of \subseteq 1 .. Len(F)
      BY <1>1 DEF Of
    <3>. QED
      BY <3>1, <3>2, FS_Subset
  <2>6. Cardinality(2 .. BodyLimit + 1) <= Cardinality(of)
    BY <2>3, <2>5, FS_Subset
  <2>7. Cardinality(of) \in Nat
    BY <2>5, FS_CardinalityType
  <2>. QED
    BY <1>2, <2>4, <2>6, <2>7 DEF DataSeen
<1>. QED
  BY <1>7, <1>8

LEMMA TrailersSatisfied ==
  ASSUME AssertInv, NEW r \in Rules, r[2] = "trailers"
  PROVE  /\ ended[r[1]] => (Satisfied(r) <=> statuses_[r].matches)
         /\ ~statuses_[r].might_change => ended[r[1]]
<1>. DEFINE p == r[1]  F == frames[p]  of == Of(p, "trailers")
<1>1. p \in Paths /\ F \in Seq(Frames) /\ Shape(F, ended[p])
  BY DEF AssertInv, Types
<1>2. statuses_[r] = TrailersStatus(F, ended[p], empty_hit[p])
  BY DEF AssertInv, StatusesFollow, StatusOf
<1>3. ~statuses_[r].might_change => ended[p]
  BY <1>2 DEF TrailersStatus, Open
<1>4. ASSUME ended[p] PROVE Satisfied(r) <=> statuses_[r].matches
  <2>1. Len(F) \in DOMAIN F
    BY <1>1, <1>4 DEF Shape
  <2>2. CASE F[Len(F)].part = "trailers"
    <3>1. of = {Len(F)} /\ Len(F) \in Nat
      BY <1>1, <2>1, <2>2 DEF Of, Shape
    <3>3. Cardinality({j \in of : j <= Len(F)}) <= BodyLimit
      BY <3>1, OnlyOne
    <3>4. of # {}
      BY <3>1
    <3>5. Satisfied(r) <=>
            \E i \in of : F[i].hit /\ Cardinality({j \in of : j <= i}) <= BodyLimit
      BY <3>4 DEF Satisfied
    <3>6. Satisfied(r) <=> F[Len(F)].hit
      BY <3>1, <3>3, <3>5
    <3>. QED
      BY <1>2, <1>4, <2>2, <3>6 DEF TrailersStatus, Decided
  <2>3. CASE F[Len(F)].part # "trailers"
    <3>1. of = {}
      BY <1>1, <2>3 DEF Of, Shape
    <3>2. Satisfied(r) <=> empty_hit[p]
      BY <1>4, <3>1 DEF Satisfied
    <3>. QED
      BY <1>2, <1>4, <2>3, <3>2 DEF TrailersStatus, Decided
  <2>. QED
    BY <2>2, <2>3
<1>. QED
  BY <1>3, <1>4

\* The matcher says what the rule says, also of a path that goes on.
LEMMA MetRule ==
  ASSUME AssertInv, NEW r \in Rules
  PROVE  Satisfied(r) <=> statuses_[r].matches
<1>. DEFINE p == r[1]  F == frames[p]
<1>1. r \in Paths \X Parts /\ p \in Paths /\ r[2] \in Parts /\ Shape(F, ended[p])
  BY DEF AssertInv, Types
<1>2. statuses_[r] = StatusOf(r[2], F, ended[p], empty_hit[p]) /\ ~Open.matches
  BY DEF AssertInv, StatusesFollow, Open
<1>3. CASE r[2] = "headers" /\ F = <<>>
  <2>1. Of(p, "headers") = {}
    BY <1>3 DEF Of
  <2>2. ~Satisfied(r)
    BY <1>3, <2>1 DEF Satisfied
  <2>3. statuses_[r] = Open
    BY <1>2, <1>3 DEF StatusOf, HeadersStatus
  <2>. QED
    BY <1>2, <2>2, <2>3
<1>4. CASE r[2] = "headers" /\ F # <<>>
  BY <1>4, HeadersSatisfied
<1>5. CASE r[2] = "body"
  BY <1>5, BodySatisfied
<1>6. CASE r[2] = "trailers" /\ ended[p]
  BY <1>6, TrailersSatisfied
<1>7. CASE r[2] = "trailers" /\ ~ended[p]
  <2>1. Of(p, "trailers") = {}
    BY <1>1, <1>7 DEF Of, Shape
  <2>2. ~Satisfied(r)
    BY <1>7, <2>1 DEF Satisfied
  <2>3. statuses_[r] = Open
    BY <1>2, <1>7 DEF StatusOf, TrailersStatus
  <2>. QED
    BY <1>2, <2>2, <2>3
<1>. QED
  BY <1>1, <1>3, <1>4, <1>5, <1>6, <1>7 DEF Parts

\* A rule that the matcher has given up is lost.
LEMMA GivenUpRule ==
  ASSUME AssertInv, NEW r \in Rules, ~statuses_[r].matches,
         ended[r[1]] \/ ~statuses_[r].might_change
  PROVE  Lost(r)
<1>1. r \in Paths \X Parts
  BY DEF AssertInv, Types
<1>2. r[2] \in Parts
  BY <1>1
<1>3. CASE ended[r[1]]
  BY <1>3, MetRule DEF Lost
<1>4. CASE ~ended[r[1]] /\ r[2] = "headers"
  <2>1. statuses_[r] = HeadersStatus(frames[r[1]])
    BY <1>4 DEF AssertInv, StatusesFollow, StatusOf
  <2>2. frames[r[1]] # <<>>
    BY <1>4, <2>1 DEF HeadersStatus, Open
  <2>. QED
    BY <1>4, <2>2, HeadersSatisfied DEF Lost
<1>5. CASE ~ended[r[1]] /\ r[2] = "body"
  BY <1>5, BodySatisfied DEF Lost
<1>6. CASE ~ended[r[1]] /\ r[2] = "trailers"
  BY <1>6, TrailersSatisfied
<1>. QED
  BY <1>2, <1>3, <1>4, <1>5, <1>6 DEF Parts

\* decodeHeaders, decodeData and decodeTrailers, and their twins: once a path
\* has ended, there is a local reply if and only if one of the rules, about
\* this path or the other, is not satisfied by the frames so far.
THEOREM RepliesAreRight == Spec => []RepliesIffUnsatisfied
<1>1. AssertInv => RepliesIffUnsatisfied
  <2>1. SUFFICES ASSUME AssertInv, NEW p \in Paths, ended[p]
                 PROVE  reply # <<>> <=> \E r \in Rules : ~Satisfied(r)
    BY DEF RepliesIffUnsatisfied
  <2>2. \A r \in Rules : Satisfied(r) <=> statuses_[r].matches
    BY <2>1, MetRule
  <2>3. CASE reply = <<>>
    <3>1. \A r \in Rules : statuses_[r].matches
      BY <2>1, <2>3 DEF AssertInv, ReplyInv, Matches
    <3>. QED
      BY <2>2, <2>3, <3>1
  <2>4. CASE reply # <<>>
    <3>1. 1 \in DOMAIN reply
      BY <2>1, <2>4 DEF AssertInv, Types
    <3>2. ~Matches(statuses_)
      BY <2>1, <3>1 DEF AssertInv, ReplyInv
    <3>. QED
      BY <2>2, <2>4, <3>2 DEF Matches
  <2>. QED
    BY <2>3, <2>4
<1>. QED
  BY <1>1, AssertInvariant, PTL

\* The same functions: a path that alone has rules is not answered while the
\* frames to come could still satisfy all of them.
THEOREM NoReplyTooEarly == Spec => []RepliesOnlyWhenLost
<1>1. AssertInv => RepliesOnlyWhenLost
  <2>1. SUFFICES ASSUME AssertInv, NEW i \in DOMAIN reply,
                        \A r \in Rules : r[1] = reply[i].path
                 PROVE  \E r \in Rules : Lost(r)
    BY DEF RepliesOnlyWhenLost
  <2>2. ~Matches(statuses_) /\ (ended[reply[i].path] \/ ~MightChange(statuses_))
    BY <2>1 DEF AssertInv, ReplyInv
  <2>3. PICK r \in Rules : ~statuses_[r].matches
    BY <2>2 DEF Matches
  <2>4. ended[r[1]] \/ ~statuses_[r].might_change
    BY <2>1, <2>2 DEF MightChange
  <2>. QED
    BY <2>1, <2>3, <2>4, GivenUpRule
<1>. QED
  BY <1>1, AssertInvariant, PTL
================================================================================
