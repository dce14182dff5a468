----------------------------- MODULE MCChannel -----------------------------
(***************************************************************************)
(* Instances of Channel for TLC.                                           *)
(***************************************************************************)
EXTENDS Channel, TLC

CONSTANTS t1, t2, k1, k2

OneThread == {t1}
TwoThreads == {t1, t2}
OneKey == {k1}
TwoKeys == {k1, k2}

\* Messages that endpoint 0 and endpoint 1 send.
Push20 == (0 :> 2) @@ (1 :> 0)
Push31 == (0 :> 3) @@ (1 :> 1)

NoFault == {}
AllFaults == FaultKind

Symmetry == Permutations(TwoThreads) \cup Permutations(TwoKeys)

=============================================================================
