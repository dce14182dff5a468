-------------------------------- MODULE Drbg --------------------------------
(***************************************************************************)
(* The deterministic random bit generators of yasl/crypto/drbg and their   *)
(* entropy sources.  Each operation is a function of the generator and of  *)
(* the entropy source; its result has the field ok, FALSE when it throws,  *)
(* and the state it leaves behind either way.                              *)
(*                                                                         *)
(* The block cipher is ideal: an encryption is the term that names its key *)
(* and its input, and terms are equal only when they are the same.         *)
(* Entropy comes in words of eight bytes that never repeat.                *)
(***************************************************************************)
EXTENDS SymmetricCrypto

CONSTANTS
  reseed_interval_,   \* of Sm4Drbg
  kReseedInterval,    \* of NistAesDrbg
  max_rand_request_   \* of NistAesDrbg, in units

ASSUME DrbgAssumption ==
  {reseed_interval_, kReseedInterval, max_rand_request_} \subseteq Nat \ {0}

CeilDiv(a, b) == (a + b - 1) \div b

-----------------------------------------------------------------------------
(* An entropy source is the number of words asked for so far and the words *)
(* at which RDSEED fails; StdEntropySource, and IntelEntropySource without *)
(* RDSEED, read /dev/urandom and have none.                                *)
GetEntropy(src, entropy_bytes) ==
  LET batch_size == CeilDiv(entropy_bytes, 8)
      failing == {i \in src.bad : i > src.n /\ i <= src.n + batch_size}
  IN  IF failing = {}
      THEN [ok |-> TRUE, src |-> [src EXCEPT !.n = @ + batch_size],
            out |-> [i \in 1 .. batch_size |-> <<"entropy", src.n + i>>]]
      ELSE [ok |-> FALSE, src |-> [src EXCEPT !.n = Min(failing)], out |-> <<>>]

makeEntropySource(rdseed, failures) == [n |-> 0, bad |-> IF rdseed THEN failures ELSE {}]

GetEntropyBytes(strength) == strength \div 8 + 16

-----------------------------------------------------------------------------
(* Sm4Drbg.                                                                *)
kBlockSize == 16
seed_length_ == 32
min_length_ == 16

Enc(key, block) == <<"enc", key, block>>
Xor(a, b) == <<"xor", a, b>>
ZeroBlock == <<"zero">>

(* v_ is a block and the number of increments since it was set.            *)
Inc128(v) == [v EXCEPT ![3] = @ + 1]
NewV(block) == <<"v", block, 0>>

(* CbcMac takes whole blocks: of the block iv, the header of eight bytes   *)
(* and the seed_length_ + 1 bytes of s behind it, the last nine bytes are  *)
(* never read.  Of the seed material this leaves the first three words.    *)
(* RngDf copies seed material of any length into those 33 bytes, so that   *)
(* what is behind them is overwritten when it is longer: the inputs here   *)
(* have at most 17 bytes, behind 16 of entropy.                            *)
CbcMac(iv, seed_material) ==
  LET n == (kBlockSize + seed_length_ + 9) \div kBlockSize
      words == (n * kBlockSize - kBlockSize - 8) \div 8
  IN  <<"mac", iv, Len(seed_material),
        SubSeq(seed_material, 1, Min({words, Len(seed_material)}))>>

RngDf(seed_material) ==
  LET mac0 == CbcMac(0, seed_material)
      mac1 == CbcMac(1, seed_material)
  IN  <<Enc(mac0, mac1), Enc(mac0, Enc(mac0, mac1))>>

(* ctx is the key the cipher context was last initialised with.            *)
RngUpdate(g) ==
  LET v1 == Inc128(g.v)
      v2 == Inc128(v1)
      key == Xor(Enc(g.ctx, v1), g.seed_material[1])
  IN  [g EXCEPT !.reseed_counter = @ + 1, !.ctx = key,
                !.v = NewV(Xor(Enc(g.ctx, v2), g.seed_material[2]))]

Seeded(g) == [RngUpdate(g) EXCEPT !.reseed_counter = 1, !.uses = 0]

Sm4Instantiate(src, personal_string) ==
  LET e == GetEntropy(src, min_length_)
      g == [kind |-> "sm4", ctx |-> ZeroBlock, v |-> NewV(ZeroBlock),
            seed_material |-> RngDf(e.out \o personal_string),
            reseed_counter |-> 0, uses |-> 0]
  IN  [ok |-> e.ok, src |-> e.src, g |-> IF e.ok THEN Seeded(g) ELSE g]

ReSeed(g, src, additional_input) ==
  LET e == GetEntropy(src, min_length_)
  IN  [ok |-> e.ok, src |-> e.src,
       g |-> IF e.ok THEN Seeded([g EXCEPT !.seed_material = RngDf(e.out \o additional_input)])
                     ELSE g]

(* Mutant: a test for equality, which steps of two may jump over.          *)
ReseedDue_Equal(g) == g.reseed_counter = reseed_interval_

ReseedDue(g) == g.reseed_counter > reseed_interval_

(* The entropy drawn in Generate only goes into the argument that ReSeed   *)
(* does not use: ReSeed draws its own.                                     *)
Reseeded(g, src, additional_input) ==
  IF ~ReseedDue(g) THEN [ok |-> TRUE, src |-> src, g |-> g]
  ELSE LET e == GetEntropy(src, min_length_)
       IN  IF e.ok THEN ReSeed(g, e.src, additional_input)
                   ELSE [ok |-> FALSE, src |-> e.src, g |-> g]

(* The output is a prefix of the encryption of the additional input, or of *)
(* zeros; v_ does not enter it.                                            *)
Sm4Generate(g, src, rand_length, additional_input) ==
  LET r == Reseeded(g, src, additional_input)
      input == IF additional_input = <<>> THEN ZeroBlock ELSE RngDf(additional_input)[1]
      h == [r.g EXCEPT !.reseed_counter = @ + 1, !.uses = @ + 1, !.v = Inc128(@)]
  IN  IF ~r.ok THEN [ok |-> FALSE, src |-> r.src, g |-> r.g, out |-> <<>>]
      ELSE [ok |-> TRUE, src |-> r.src, g |-> RngUpdate(h),
            out |-> [i \in 1 .. rand_length |-> <<"sm4", Enc(h.ctx, input), i>>]]

-----------------------------------------------------------------------------
(* RAND_DRBG of OpenSSL, as NistAesDrbg uses it: it counts the requests    *)
(* from 1 after each seeding and reseeds when the count has reached the    *)
(* interval or the caller asks for it; an exception that leaves one of its *)
(* callbacks finds it in the error state, which the next request repairs   *)
(* by instantiating again.                                                 *)
Copied(g, field, bytes) == [g EXCEPT ![field] = Max({@, bytes})]

(* GetEntropy and GetNonce of nist_aes_drbg.cc: how many bytes they copy   *)
(* into the arrays of the ENTROPY_CTX.                                     *)
EntropyBytes(strength) == Max({strength \div 8, strength \div 8 + 16})
NonceBytes(strength) == Max({strength \div 16, (strength \div 2) \div 8})

RandSeed(g, src, withNonce, data) ==
  LET e == GetEntropy(src, EntropyBytes(g.strength))
      nonce == IF withNonce /\ e.ok THEN GetEntropy(e.src, NonceBytes(g.strength)) ELSE e
      h == Copied(Copied(g, "entropyCopied", EntropyBytes(g.strength)),
                  "nonceCopied", IF withNonce THEN NonceBytes(g.strength) ELSE 0)
  IN  IF e.ok /\ nonce.ok
      THEN [ok |-> TRUE, src |-> nonce.src,
            g |-> [h EXCEPT !.ready = TRUE, !.gen_counter = 1, !.uses = 0,
                            !.seed = <<data, e.out, nonce.out>>]]
      ELSE [ok |-> FALSE, src |-> nonce.src, g |-> [g EXCEPT !.ready = FALSE]]

RAND_DRBG_instantiate(g, src, pers) == RandSeed(g, src, TRUE, <<"pers", pers>>)
RAND_DRBG_reseed(g, src) == RandSeed(g, src, FALSE, <<"again", g.seed, g.uses>>)

RandFresh(r, prediction_resistance) ==
  IF r.ok /\ (r.g.gen_counter >= kReseedInterval \/ prediction_resistance)
  THEN RAND_DRBG_reseed(r.g, r.src) ELSE r

RandOutput(r, len) ==
  IF ~r.ok THEN [ok |-> FALSE, src |-> r.src, g |-> r.g, out |-> <<>>]
  ELSE [ok |-> TRUE, src |-> r.src,
        g |-> [r.g EXCEPT !.gen_counter = @ + 1, !.uses = @ + 1],
        out |-> [i \in 1 .. len |-> <<"nist", r.g.seed, r.g.uses, i>>]]

RAND_DRBG_generate(g, src, len, prediction_resistance) ==
  RandOutput(RandFresh(IF g.ready THEN [ok |-> TRUE, src |-> src, g |-> g]
                       ELSE RAND_DRBG_instantiate(g, src, <<>>),
                       prediction_resistance),
             len)

(* The constructor of NistAesDrbg.                                         *)
NistInstantiate(src, strength, personal_string) ==
  RAND_DRBG_instantiate(
    [kind |-> "nist", strength |-> strength, ready |-> FALSE, seed |-> <<>>,
     gen_counter |-> 0, uses |-> 0, entropyCopied |-> 0, nonceCopied |-> 0],
    src, personal_string)

-----------------------------------------------------------------------------
(* The requests that FillRandomBytes splits a buffer of so many units      *)
(* into, and the loop over them, which the first exception ends.           *)
Requests(units, size) ==
  [i \in 1 .. CeilDiv(units, size) |-> Min({size, units - (i - 1) * size})]

Request(acc, len, prediction_resistance) ==
  LET r == IF acc.g.kind = "nist"
           THEN RAND_DRBG_generate(acc.g, acc.src, len, prediction_resistance)
           ELSE Sm4Generate(acc.g, acc.src, len, <<>>)
  IN  IF acc.ok THEN [r EXCEPT !.out = acc.out \o @] ELSE acc

\* The loop of a fill: op applied to the state so far and each request in turn.
InOrder(op(_, _), base, seq) ==
  LET after[i \in 0 .. Len(seq)] == IF i = 0 THEN base ELSE op(after[i - 1], seq[i])
  IN  after[Len(seq)]

FillRequests(g, src, requests, prediction_resistance) ==
  InOrder(LAMBDA acc, len : Request(acc, len, prediction_resistance),
          [ok |-> TRUE, src |-> src, g |-> g, out |-> <<>>], requests)

NistGenerate(g, src, units, prediction_resistance) ==
  FillRequests(g, src, Requests(units, max_rand_request_), prediction_resistance)

FillRandomBytes(g, src, units) ==
  IF g.kind = "nist" THEN NistGenerate(g, src, units, FALSE)
  ELSE FillRequests(g, src, Requests(units, BlockUnits), FALSE)

(* HealthCheck draws kDefaultHealthCheckSize outputs and as many words of  *)
(* entropy, and compares them pairwise.                                    *)
HealthCheck(g, src, size) ==
  LET random == FillRandomBytes(g, src, size)
      entropy == GetEntropy(random.src, 8 * size)
  IN  IF ~random.ok THEN random
      ELSE [ok |-> entropy.ok, src |-> entropy.src, g |-> random.g, out |-> random.out,
            healthy |-> IsInjective(random.out) /\ IsInjective(entropy.out)]
=============================================================================
