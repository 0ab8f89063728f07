---------------------------- MODULE StreamContract ----------------------------
(***************************************************************************)
(* What the envoy_http_callbacks of library/common/types/c_types.h promise *)
(* the owner of a stream: response frames in HTTP order, then at most one  *)
(* terminal callback (on_complete, on_error or on_cancel), and silence     *)
(* afterwards.  on_complete comes with the final frame and only with it.   *)
(***************************************************************************)
EXTENDS Sequences

CONSTANT Streams

VARIABLES
  heard,      \* the latest response frame each stream was given
  terminals   \* the terminal callbacks of each stream, in order

vars == <<heard, terminals>>

Init ==
  /\ heard     = [s \in Streams |-> "nothing"]
  /\ terminals = [s \in Streams |-> <<>>]

Open(s) == terminals[s] = <<>>

\* on_headers, then on_data any number of times.
Frame(s) ==
  /\ Open(s)
  /\ \/ heard[s] = "nothing" /\ heard' = [heard EXCEPT ![s] = "headers"]
     \/ heard[s] \in {"headers", "data"} /\ heard' = [heard EXCEPT ![s] = "data"]
  /\ UNCHANGED terminals

\* The frame that ends the response, and on_complete.
Complete(s) ==
  /\ Open(s)
  /\ heard[s] # "end"
  /\ heard' = [heard EXCEPT ![s] = "end"]
  /\ terminals' = [terminals EXCEPT ![s] = <<"complete">>]

\* on_error or on_cancel, at any time before another terminal callback.
Fail(s) ==
  /\ Open(s)
  /\ \E kind \in {"error", "cancel"} :
       terminals' = [terminals EXCEPT ![s] = <<kind>>]
  /\ UNCHANGED heard

Next == \E s \in Streams : Frame(s) \/ Complete(s) \/ Fail(s)

Spec == Init /\ [][Next]_vars
=============================================================================
