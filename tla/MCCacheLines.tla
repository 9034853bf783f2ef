---------------------------- MODULE MCCacheLines ----------------------------
(***************************************************************************)
(* Instance of CacheLines for TLC.                                         *)
(***************************************************************************)
EXTENDS CacheLines
=============================================================================
