--------------------------- MODULE MCPolicyRunner ---------------------------
(* Small instances of PolicyRunner for TLC.                                *)
EXTENDS PolicyRunner
=============================================================================
