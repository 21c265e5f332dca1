------------------------------- MODULE Powers -------------------------------
(***************************************************************************)
(* b to the power of n, as a recursive function: the provers do not know   *)
(* the operator of Integers.                                               *)
(***************************************************************************)
EXTENDS Integers

Power(b, n) == LET p[i \in Nat] == IF i = 0 THEN 1 ELSE b * p[i - 1] IN p[n]
=============================================================================
