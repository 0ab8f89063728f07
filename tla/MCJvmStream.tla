----------------------------- MODULE MCJvmStream -----------------------------
(* Small instances of JvmStream for TLC. *)
EXTENDS JvmStream

TwoKeys   == {"a", "b"}
TwoValues == {"x", "y"}

\* One name with two values, and two names.
TwoRequests == {[k \in TwoKeys |-> IF k = "a" THEN <<"y", "x">> ELSE <<>>],
                [k \in TwoKeys |-> IF k = "a" THEN <<"x">> ELSE <<"x", "y">>]}
=============================================================================
