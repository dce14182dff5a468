---------------------------- MODULE MCThreadPool ----------------------------
(***************************************************************************)
(* An instance of ThreadPool for TLC.  The tasks may not be permuted, as   *)
(* liveness properties are checked.                                        *)
(***************************************************************************)
EXTENDS ThreadPool, TLC

CONSTANTS w1, w2, w3, c1, c2, t1, t2, t3

Workers == {w1, w2, w3}
Clients == {c1, c2}
Tasks == {t1, t2, t3}

=============================================================================
