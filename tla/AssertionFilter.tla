---------------------------- MODULE AssertionFilter ----------------------------
(***************************************************************************)
(* AssertionFilter (library/common/extensions/filters/http/assertion/      *)
(* filter.cc): checks the frames of a request and of its response against  *)
(* configured rules and sends a local reply when they do not match.        *)
(*                                                                         *)
(* decode* and encode* are the same code with other texts, so an action    *)
(* has the path as its parameter.  Envoy's matcher is external: a rule for *)
(* one part of one path each, combined by "and".  What the filter manager  *)
(* does with a local reply is not modelled: the stream ends there.         *)
(***************************************************************************)
EXTENDS Naturals, SequencesExt

CONSTANTS
  Configs,    \* configurations: sets of rules, each <<path, part>>
  BodyLimit,  \* data frames after which a body rule gives up
  MaxData     \* bound: data frames on one path

Paths == {"request", "response"}
Parts == {"headers", "body", "trailers"}

ASSUME AssertionAssumption ==
  /\ Configs \subseteq SUBSET (Paths \X Parts)
  /\ BodyLimit \in Nat \ {0} /\ MaxData \in Nat

VARIABLES
  statuses_,  \* MatchStatus of every rule
  frames,     \* per path, the frames so far: their part, and whether they
              \*   match the rule for it
  empty_hit,  \* per path: do empty trailers match the rule for trailers?
  ended,      \* per path: the last frame has been seen
  reply       \* local replies that were sent: path and part in the text

vars == <<statuses_, frames, empty_hit, ended, reply>>

\* The rules of the configuration in use.
Rules == DOMAIN statuses_

\* The constructor: onNewStream.
Init ==
  /\ \E rules \in Configs :
       statuses_ = [r \in rules |-> [matches |-> FALSE, might_change |-> TRUE]]
  /\ frames = [p \in Paths |-> <<>>]
  /\ empty_hit \in [Paths -> BOOLEAN]
  /\ ended = [p \in Paths |-> FALSE]
  /\ reply = <<>>
-----------------------------------------------------------------------------
(* The matcher *)

Matches(s)     == \A r \in Rules : s[r].matches
MightChange(s) == \E r \in Rules : s[r].might_change

\* Where the frames of a part are on path p.
Of(p, part) == {i \in DOMAIN frames[p] : frames[p][i].part = part}

DataSeen(p) == Cardinality(Of(p, "body"))

\* A rule for headers or trailers is decided by the one frame of that kind, one
\* for the body by the frame that matches, or at its limit.
RuleAfter(status, p, part, hit) ==
  CASE ~status.might_change -> status
    [] status.might_change /\ (hit \/ part # "body") ->
         [matches |-> hit, might_change |-> FALSE]
    [] status.might_change /\ ~hit /\ part = "body" ->
         [matches |-> FALSE, might_change |-> DataSeen(p) + 1 < BodyLimit]

Feed(s, p, part, hit) ==
  IF ~MightChange(s) THEN s
  ELSE [r \in Rules |-> IF r = <<p, part>> THEN RuleAfter(s[r], p, part, hit) ELSE s[r]]
-----------------------------------------------------------------------------
(* decodeHeaders, decodeData, decodeTrailers; encodeHeaders, ... *)

\* Mutant: a mismatch is taken to be final.
NotYetMatched(s) == ~Matches(s)

Fails(s) == ~Matches(s) /\ ~MightChange(s)

Reply(p, part) == reply' = Append(reply, [path |-> p, part |-> part])

\* Mutant: the trailers are not checked at the end.
SkipsTrailers(s, p) == s

\* The rules after a stream that ends without trailers.
WithEmptyTrailers(s, p) == Feed(s, p, "trailers", empty_hit[p])

\* The last check: whatever is still open "must be because of body data".
FinalCheck(s, p) ==
  \/ Fails(s) /\ Reply(p, "trailers")
  \/ ~Fails(s) /\ ~Matches(s) /\ Reply(p, "body")
  \/ Matches(s) /\ UNCHANGED reply

\* Continue, or a local reply and StopIteration.
Handle(p, part, hit, end) ==
  LET fed == Feed(statuses_, p, part, hit) IN
  /\ reply = <<>> /\ ~ended[p]
  /\ frames' = [frames EXCEPT ![p] = Append(@, [part |-> part, hit |-> hit])]
  /\ ended' = [ended EXCEPT ![p] = end]
  /\ \/ /\ Fails(fed) /\ Reply(p, part)
        /\ statuses_' = fed
     \/ /\ ~Fails(fed) /\ ~end
        /\ statuses_' = fed
        /\ UNCHANGED reply
     \/ /\ ~Fails(fed) /\ end
        /\ statuses_' = IF part = "trailers" THEN fed ELSE WithEmptyTrailers(fed, p)
        /\ FinalCheck(statuses_', p)
  /\ UNCHANGED empty_hit

\* A response needs the headers of its request, and may come before its end.
onHeaders(p, hit, end) ==
  /\ frames[p] = <<>>
  /\ p = "response" => frames["request"] # <<>>
  /\ Handle(p, "headers", hit, end)

onData(p, hit, end) ==
  /\ frames[p] # <<>> /\ DataSeen(p) < MaxData
  /\ Handle(p, "body", hit, end)

onTrailers(p, hit) ==
  /\ frames[p] # <<>>
  /\ Handle(p, "trailers", hit, TRUE)

Next ==
  \E p \in Paths, hit, end \in BOOLEAN :
    onHeaders(p, hit, end) \/ onData(p, hit, end) \/ onTrailers(p, hit)

Spec == Init /\ [][Next]_vars
-----------------------------------------------------------------------------
(* Properties *)

\* What a rule says of the frames so far: one that it is about, and within its
\* limit, is a hit.  Trailers are empty if the path has ended without them.
Satisfied(r) ==
  LET of == Of(r[1], r[2]) IN
  IF r[2] = "trailers" /\ of = {} THEN ended[r[1]] /\ empty_hit[r[1]]
  ELSE \E i \in of : /\ frames[r[1]][i].hit
                     /\ Cardinality({j \in of : j <= i}) <= BodyLimit

\* Once a path has ended, there is a local reply if and only if some rule is not
\* satisfied by then, however the frames are cut and whichever of data and
\* trailers is missing.  A rule about the other path counts: its frames must
\* have come before.
RepliesIffUnsatisfied ==
  \A p \in Paths : ended[p] =>
    (reply # <<>> <=> \E r \in Rules : ~Satisfied(r))

\* A rule that cannot be satisfied any more.
Lost(r) ==
  LET of == Of(r[1], r[2]) IN
  ~Satisfied(r) /\ (ended[r[1]] \/ (IF r[2] = "body" THEN DataSeen(r[1]) >= BodyLimit ELSE of # {}))

\* With rules about one path only, it is not answered before its fate is
\* sealed.
RepliesOnlyWhenLost ==
  \A i \in DOMAIN reply : (\A r \in Rules : r[1] = reply[i].path) =>
    \E r \in Rules : Lost(r)

\* decodeHeaders and the other functions: "if matches_ is still unsatisfied
\* here, it must be because of body data", which the reply names.
BodyIsToBlame ==
  \A i \in DOMAIN reply : reply[i].part = "body" =>
    LET r == <<reply[i].path, "body">> IN r \in Rules /\ ~Satisfied(r)

\* filter.proto: a request that matches is answered by "a local reply with
\* Http::Code::OK on the last frame of the request stream".
MatchIsAnswered ==
  ended["request"] /\ (\A r \in Rules : r[1] = "request" /\ Satisfied(r)) => reply # <<>>
=============================================================================
