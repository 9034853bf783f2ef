----------------------------- MODULE MCSpinLock -----------------------------
(***************************************************************************)
(* Instance of SpinLock for TLC.                                           *)
(***************************************************************************)
EXTENDS SpinLock
=============================================================================
