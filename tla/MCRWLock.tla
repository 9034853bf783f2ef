------------------------------ MODULE MCRWLock ------------------------------
(***************************************************************************)
(* An instance of RWLock for TLC.                                          *)
(***************************************************************************)
EXTENDS RWLock
=============================================================================
