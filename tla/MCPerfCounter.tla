--------------------------- MODULE MCPerfCounter ---------------------------
(***************************************************************************)
(* Instances of PerfCounter for TLC.                                       *)
(***************************************************************************)
EXTENDS PerfCounter
=============================================================================
