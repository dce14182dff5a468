-------------------------- MODULE MCChunkedMessage --------------------------
(***************************************************************************)
(* Instances of ChunkedMessage for TLC.                                    *)
(***************************************************************************)
EXTENDS ChunkedMessage, TLC

CONSTANT m1

OneMsg == {m1}

\* Three chunks in two batches, that may be pushed twice.
Bytes5 == m1 :> 5
Twice == m1 :> 2

=============================================================================
