----------------------------- MODULE MCCrypto -----------------------------
(***************************************************************************)
(* An instance of CryptoObjects for TLC, and the round trip of the modes.  *)
(***************************************************************************)
EXTENDS CryptoObjects

CONSTANTS g1, g2, h1, h2

Symmetry == Permutations({g1, g2}) \cup Permutations({h1, h2})

MCFailures == {{}, {3}, {5}, {7}, {8}, {9, 10}}

MCPieces == {<<>>, <<1>>, <<2, 1>>}
MCMacKeys == {<<"k", 1>>, <<"k", 2>>}
MCIvs == [head : {1, 2}, rest : {0}, bytes : {12, 16}] \cup [head : {1}, rest : {1, 2}, bytes : {20}]
MCTexts == {<<>>, <<{<<"text", 1>>}>>, <<{<<"text", 2>>}, {}, {<<"text", 2>>}>>}

(* Decrypt undoes Encrypt in every mode, for inputs of up to two batches   *)
(* and a block.                                                            *)
ASSUME RoundTrip ==
  \A type \in CryptoType, len \in 0 .. 2 * BatchBlocks + 1 :
    LET plain == [i \in 1 .. len |-> {<<"plain", i % 2>>}]
        iv == {<<"iv">>}
    IN  Decrypt(type, 1, iv, Encrypt(type, 1, iv, plain)) = plain
=============================================================================
