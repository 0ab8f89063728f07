------------------------ MODULE MCPlatformBridgeFilter ------------------------
(* Small instances of PlatformBridgeFilter for TLC. *)
EXTENDS PlatformBridgeFilter

RequestOnly  == {"request"}
BothPaths    == {"request", "response"}
=============================================================================
