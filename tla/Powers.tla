------------------------------- MODULE Powers -------------------------------
(***************************************************************************)
(* Powers of two, as a function that proofs can be made about.             *)
(***************************************************************************)
EXTENDS Naturals

Pow2[k \in Nat] == IF k = 0 THEN 1 ELSE 2 * Pow2[k - 1]
=============================================================================
