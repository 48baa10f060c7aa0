------------------------- MODULE MCNativeAgentDriver -------------------------
(* Instances of NativeAgentDriver for TLC.                                   *)
EXTENDS NativeAgentDriver
=============================================================================
