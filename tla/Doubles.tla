------------------------------ MODULE Doubles ------------------------------
(***************************************************************************)
(* Numbers of type double, for the statistics and the elapsed times.  A    *)
(* double is modelled as an integer number of units, the least positive    *)
(* double; every operation computes the exact result and rounds it.  What  *)
(* rounding may do is assumed: it is what IEEE arithmetic guarantees where *)
(* nothing overflows and no quotient or product underflows.                *)
(***************************************************************************)
EXTENDS Integers

CONSTANTS Rounded(_, _), \* Rounded(n, d): the double nearest to n/d units
          U,             \* 1/U bounds a rounding error: 2^53 for a double
          One,           \* units in 1.0
          Limit          \* no sum up to here overflows

Abs(x) == IF x < 0 THEN -x ELSE x

Floats == {f \in 0..Limit : Rounded(f, 1) = f}

\* Rounded(n, d) is a double whose error is at most the share 1/U of n/d.
Accurate(n, d) == /\ Rounded(n, d) \in Floats
                  /\ U * Abs(d * Rounded(n, d) - n) <= n

\* Sums and differences are rounded accurately.
ASSUME DoublesAssumption == /\ {U, One, Limit} \subseteq Nat \ {0}
                            /\ \A n \in 0..Limit : Accurate(n, 1)
=============================================================================
