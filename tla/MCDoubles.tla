----------------------------- MODULE MCDoubles -----------------------------
(***************************************************************************)
(* Rounding for TLC: numbers of eight bits.                                *)
(***************************************************************************)
EXTENDS Integers

\* The number of eight significant bits nearest to n/d, ties to even.
Nearest(n, d) ==
  LET e == CHOOSE e \in 0..20 : /\ n < d * 2^(8 + e)
                                /\ e = 0 \/ n >= d * 2^(7 + e)
      ulp == d * 2^e
      q == n \div ulp
      r == 2 * (n % ulp)
  IN  2^e * (IF r > ulp \/ (r = ulp /\ q % 2 = 1) THEN q + 1 ELSE q)
=============================================================================
