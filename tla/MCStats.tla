------------------------------ MODULE MCStats ------------------------------
(***************************************************************************)
(* Instance of Stats for TLC: numbers of eight bits.                       *)
(***************************************************************************)
EXTENDS Stats, MCDoubles
=============================================================================
