---------------------------- MODULE MCChannelMem ----------------------------
(***************************************************************************)
(* Instances of ChannelMem for TLC.                                        *)
(***************************************************************************)
EXTENDS ChannelMem, TLC

CONSTANTS t1, t2

OneThread == {t1}
TwoThreads == {t1, t2}

\* Messages that endpoint 0 and endpoint 1 send.
Push11 == (0 :> 1) @@ (1 :> 1)
Push22 == (0 :> 2) @@ (1 :> 2)

=============================================================================
