----------------------------- MODULE MCCounters -----------------------------
(***************************************************************************)
(* Instance of Counters for TLC.                                           *)
(***************************************************************************)
EXTENDS Counters
=============================================================================
