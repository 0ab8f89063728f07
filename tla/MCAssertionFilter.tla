--------------------------- MODULE MCAssertionFilter ---------------------------
(* Small instances of AssertionFilter for TLC. *)
EXTENDS AssertionFilter

RequestRules  == {"request"} \X Parts
ResponseRules == {"response"} \X Parts
HeaderRules   == Paths \X {"headers"}
EndRules      == {<<"request", "body">>, <<"response", "trailers">>}

SmallConfigs == {RequestRules, ResponseRules, HeaderRules, EndRules}
=============================================================================
