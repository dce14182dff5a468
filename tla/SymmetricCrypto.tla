-------------------------- MODULE SymmetricCrypto --------------------------
(***************************************************************************)
(* SymmetricCrypto of yasl/crypto: the modes of operation of a block       *)
(* cipher over inputs that are handed to OpenSSL in batches, and the       *)
(* pseudo random stream made with them.                                    *)
(*                                                                         *)
(* The cipher is ideal: Enc and Dec are terms, and undo each other.  A     *)
(* block is a set of terms, read as their exclusive or, so that chaining   *)
(* and key streams cancel as they do in the code.                          *)
(***************************************************************************)
EXTENDS Naturals, SequencesExt

CONSTANTS
  BatchBlocks,  \* kBatchSize, in blocks
  BlockUnits    \* units of output in a cipher block

ASSUME SymmetricAssumption == {BatchBlocks, BlockUnits} \subseteq Nat \ {0}

CryptoType == {"ECB", "CBC", "CTR"}

(* EVP_CipherUpdate of one block: the context holds the key and the block  *)
(* that the next one is chained with (CBC) or the next counter (CTR).      *)
XorBlock(a, b) == SymDiff(a, b)
EncBlock(key, block) == {<<"enc", key, block>>}
DecBlock(key, block) ==
  IF \E e \in block : block = {e} /\ e[1] = "enc" /\ e[2] = key
  THEN (CHOOSE e \in block : TRUE)[3]
  ELSE {<<"dec", key, block>>}

CreateEVPCipherCtx(type, key, iv) == [type |-> type, key |-> key, iv |-> iv, ctr |-> 0]

UpdateBlock(ctx, block, enc) ==
  CASE ctx.type = "ECB" ->
         [ctx |-> ctx, out |-> IF enc THEN EncBlock(ctx.key, block) ELSE DecBlock(ctx.key, block)]
    [] ctx.type = "CBC" ->
         LET out == IF enc THEN EncBlock(ctx.key, XorBlock(block, ctx.iv))
                           ELSE XorBlock(DecBlock(ctx.key, block), ctx.iv)
         IN  [ctx |-> [ctx EXCEPT !.iv = IF enc THEN out ELSE block], out |-> out]
    [] ctx.type = "CTR" ->
         [ctx |-> [ctx EXCEPT !.ctr = @ + 1],
          out |-> XorBlock(block, EncBlock(ctx.key, {<<"ctr", ctx.iv, ctx.ctr>>}))]

EVP_CipherUpdate(ctx, blocks, enc) ==
  LET after[i \in 0 .. Len(blocks)] ==
        IF i = 0 THEN [ctx |-> ctx, out |-> <<>>]
        ELSE LET acc == after[i - 1]
                 r == UpdateBlock(acc.ctx, blocks[i], enc)
             IN  [ctx |-> r.ctx, out |-> Append(acc.out, r.out)]
  IN  after[Len(blocks)]

(* Encrypt and Decrypt: batch i takes the input from i * kBatchSize on.    *)
(* CBC and CTR work on a copy of the context, so that each call starts     *)
(* from the initial vector; the context of ECB is shared and keeps nothing.*)
(* Inputs are whole blocks: ECB and CBC throw otherwise.                   *)
Batch(blocks, i) ==
  SubSeq(blocks, i * BatchBlocks + 1, Min({(i + 1) * BatchBlocks, Len(blocks)}))

CryptLoop(type, key, iv, blocks, enc) ==
  LET batches == (Len(blocks) + BatchBlocks - 1) \div BatchBlocks
      after[i \in 0 .. batches] ==
        IF i = 0 THEN [ctx |-> CreateEVPCipherCtx(type, key, iv), out |-> <<>>]
        ELSE LET acc == after[i - 1]
                 r == EVP_CipherUpdate(acc.ctx, Batch(blocks, i - 1), enc)
             IN  [ctx |-> r.ctx, out |-> acc.out \o r.out]
  IN  after[batches].out

Encrypt(type, key, iv, blocks) == CryptLoop(type, key, iv, blocks, TRUE)
Decrypt(type, key, iv, blocks) == CryptLoop(type, key, iv, blocks, FALSE)

(* FillPseudoRandom: consecutive counters, encrypted; a last block that is *)
(* used in part is used up.                                                *)
EcbMakeContentBlocks(count, nblocks) == [i \in 1 .. nblocks |-> {<<"count", count + i - 1>>}]

nblock(units) == (units + BlockUnits - 1) \div BlockUnits

FillPseudoRandom(type, seed, iv, count, units) ==
  LET cipher == Encrypt(type, seed, iv, EcbMakeContentBlocks(count, nblock(units)))
  IN  [i \in 1 .. units |->
       <<"stream", cipher[(i - 1) \div BlockUnits + 1], (i - 1) % BlockUnits>>]

NextCount(count, units) == count + nblock(units)
=============================================================================
