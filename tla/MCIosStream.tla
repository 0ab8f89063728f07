----------------------------- MODULE MCIosStream -----------------------------
(* Small instances of IosStream for TLC. *)
EXTENDS IosStream

\* All of the callbacks but onTrailers.
SomeHandlers == {"headers", "data", "cancel", "error"}
=============================================================================
