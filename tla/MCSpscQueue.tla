---------------------------- MODULE MCSpscQueue ----------------------------
(***************************************************************************)
(* An instance of SpscQueue for TLC.                                       *)
(***************************************************************************)
EXTENDS SpscQueue
============================================================================
