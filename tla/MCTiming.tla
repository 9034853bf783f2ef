------------------------------ MODULE MCTiming ------------------------------
(***************************************************************************)
(* Instances of Timing for TLC: numbers of eight bits.                     *)
(***************************************************************************)
EXTENDS Timing, MCDoubles
=============================================================================
