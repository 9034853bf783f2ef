-------------------------- MODULE MCMessagePassing --------------------------
(***************************************************************************)
(* The tests that main runs in exercises 00, 01 and 04.                    *)
(***************************************************************************)
EXTENDS MessagePassing

Times(n, version) == [i \in 1..n |-> version]

Tests00 == <<"acqrel">>
Tests01 == Times(5, "relaxed") \o Times(5, "correct")
Tests04 == Times(3, "broken") \o <<"seqcst", "acqrel">>

ThePrograms == {Tests00, Tests01, Tests04}
=============================================================================
