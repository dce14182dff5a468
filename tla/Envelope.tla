------------------------------ MODULE Envelope ------------------------------
(***************************************************************************)
(* The digital envelopes of yasl/crypto: SmEnvSeal and SmEnvOpen over      *)
(* Sm4Mte, RsaEnvSeal and RsaEnvOpen over GcmCrypto.  The sender's results *)
(* travel apart from each other, and the receiver may put together parts   *)
(* of different envelopes, or take the wrong vector or key.                *)
(*                                                                         *)
(* Texts are sequences of cipher blocks.  Public key encryption is ideal:  *)
(* only the private key of the pair opens what its public key has closed.  *)
(***************************************************************************)
EXTENDS SymmetricCrypto, Digest

CONSTANTS
  Pairs,      \* key pairs of receivers
  Ivs,        \* initial vectors: [head : their first 16 bytes, rest, bytes : their length]
  Memory,     \* what may lie behind a vector in memory
  Texts,      \* plaintexts
  MaxSealed,  \* bound on the envelopes of a behaviour
  MaxOpened   \* bound on the attempts to open one

ASSUME EnvelopeAssumption == \A text \in Texts : text \in Seq(Range(text))

VARIABLES
  sealed,   \* the envelopes: what Seal was given and what it returned
  opened,   \* the last attempt to open: its arguments and its result
  attempts

envVars == <<sealed, opened, attempts>>

EnvelopeInit == sealed = <<>> /\ opened = <<>> /\ attempts = 0

HMAC_BLOCKS == 2     \* HMAC_SIZE, two blocks of SM4
GCM_IV_BYTES == 12   \* EVP_CIPHER_iv_length of both GCM ciphers
SM4_IV_BYTES == 16

(* CopyDataAsUint128: the first 16 bytes of a vector, whatever its length. *)
(* Behind a shorter one they are read from the memory that follows it.     *)
CopyDataAsUint128(iv, behind) ==
  IF iv.bytes < SM4_IV_BYTES THEN {<<"iv", iv, behind>>} ELSE {<<"iv", iv.head>>}

(* Steps 1 and 2 of Sm4MteEncrypt, and 2 of Sm4MteDecrypt: the key of the  *)
(* mac is the first half of a hash of vector and key.                      *)
MteMac(key, iv, plaintext) ==
  LET iv_key_hash == DigestFinal([DigestInitEx("SM3") EXCEPT !.data = <<iv, key>>])
      mac == DigestFinal([Init_HMAC("SM3", <<iv_key_hash, 1>>) EXCEPT !.data = plaintext])
  IN  [i \in 1 .. HMAC_BLOCKS |-> {<<"mac", mac, i>>}]

Sm4MteEncrypt(key, iv, behind, plaintext) ==
  Encrypt("CTR", key, CopyDataAsUint128(iv, behind), MteMac(key, iv, plaintext) \o plaintext)

Failed == [ok |-> FALSE, plaintext |-> <<>>]

(* Mutant: the mac is not compared.                                        *)
MacEqual_Skipped(a, b) == Len(a) = Len(b)

MacEqual(a, b) == a = b

Sm4MteDecrypt(key, iv, behind, ciphertext) ==
  LET hmac_plaintext == Decrypt("CTR", key, CopyDataAsUint128(iv, behind), ciphertext)
      hmac_from_cipher == SubSeq(hmac_plaintext, 1, HMAC_BLOCKS)
      plaintext == SubSeq(hmac_plaintext, HMAC_BLOCKS + 1, Len(hmac_plaintext))
  IN  IF /\ Len(hmac_plaintext) > HMAC_BLOCKS
         /\ MacEqual(MteMac(key, iv, plaintext), hmac_from_cipher)
      THEN [ok |-> TRUE, plaintext |-> plaintext]
      ELSE Failed

(* GcmCrypto with no additional data: counter mode and a tag.              *)
GcmTag(key, iv, ciphertext) == <<"tag", key, iv, ciphertext>>

GcmEncrypt(key, iv, plaintext) ==
  LET ciphertext == Encrypt("CTR", key, {<<"gcm", iv>>}, plaintext)
  IN  [ciphertext |-> ciphertext, mac |-> GcmTag(key, iv, ciphertext)]

(* The text is written before the tag is verified, and stays when it fails.*)
(* An empty ciphertext may come as a view without data; EVP_DecryptUpdate  *)
(* takes a missing input for the end, and refuses it as no tag is set yet. *)
GcmDecrypt(key, iv, ciphertext, no_data, mac) ==
  IF iv.bytes = GCM_IV_BYTES /\ ~(ciphertext = <<>> /\ no_data)
  THEN [ok |-> MacEqual(GcmTag(key, iv, ciphertext), mac),
        plaintext |-> Decrypt("CTR", key, {<<"gcm", iv>>}, ciphertext)]
  ELSE Failed

(* RsaEncryptor, Sm2Encryptor and their counterparts.                      *)
EncryptKey(pub, symmetric_key) == [pair |-> pub, key |-> symmetric_key]
DecryptKey(pri, encrypted_key) ==
  IF encrypted_key.pair = pri THEN [ok |-> TRUE, key |-> encrypted_key.key]
                              ELSE [ok |-> FALSE, key |-> 0]

(* GenRandKey: a key that no other envelope has.                           *)
GenRandKey == Len(sealed) + 1

Envelope(kind, pair, iv, text, encrypted_key, ciphertext, mac) ==
  [kind |-> kind, pair |-> pair, iv |-> iv, text |-> text,
   encrypted_key |-> encrypted_key, ciphertext |-> ciphertext, mac |-> mac]

SmEnvSeal(pair, iv, behind, text) ==
  sealed' = Append(sealed, Envelope("sm", pair, iv, text, EncryptKey(pair, GenRandKey),
                                    Sm4MteEncrypt(GenRandKey, iv, behind, text), <<>>))

(* A vector of another length makes GcmCrypto throw.                       *)
RsaEnvSeal(pair, iv, text) ==
  /\ iv.bytes = GCM_IV_BYTES
  /\ LET r == GcmEncrypt(GenRandKey, iv, text)
     IN  sealed' = Append(sealed, Envelope("rsa", pair, iv, text, EncryptKey(pair, GenRandKey),
                                           r.ciphertext, r.mac))

Seal ==
  /\ Len(sealed) < MaxSealed
  /\ \E pair \in Pairs, iv \in Ivs, text \in Texts :
       (\E behind \in Memory : SmEnvSeal(pair, iv, behind, text)) \/ RsaEnvSeal(pair, iv, text)
  /\ UNCHANGED <<opened, attempts>>

SmEnvOpen(pri, iv, behind, encrypted_key, ciphertext) ==
  LET k == DecryptKey(pri, encrypted_key)
  IN  IF k.ok THEN Sm4MteDecrypt(k.key, iv, behind, ciphertext) ELSE Failed

RsaEnvOpen(pri, iv, encrypted_key, ciphertext, no_data, mac) ==
  LET k == DecryptKey(pri, encrypted_key)
  IN  IF k.ok THEN GcmDecrypt(k.key, iv, ciphertext, no_data, mac) ELSE Failed

(* The receiver takes the key of one envelope, the ciphertext of another   *)
(* and the mac of a third.                                                 *)
Open ==
  /\ attempts < MaxOpened /\ attempts' = attempts + 1
  /\ \E pri \in Pairs, iv \in Ivs, a, b, c \in DOMAIN sealed,
        behind \in Memory, no_data \in BOOLEAN :
       LET kind == sealed[a].kind
           encrypted_key == sealed[a].encrypted_key
           ciphertext == sealed[b].ciphertext
           mac == IF kind = "sm" THEN <<>> ELSE sealed[c].mac
       IN  /\ kind = "sm" => c = b
           /\ sealed[b].kind = kind /\ sealed[c].kind = kind
           /\ opened' =
                [args |-> <<kind, pri, iv, encrypted_key, ciphertext, mac>>,
                 result |-> IF kind = "sm"
                            THEN SmEnvOpen(pri, iv, behind, encrypted_key, ciphertext)
                            ELSE RsaEnvOpen(pri, iv, encrypted_key, ciphertext, no_data, mac)]
  /\ UNCHANGED sealed

EnvelopeNext == Seal \/ Open

-----------------------------------------------------------------------------
ArgsOf(e) == <<e.kind, e.pair, e.iv, e.encrypted_key, e.ciphertext, e.mac>>

(* What the code seals and cannot be relied on to open: an empty text,     *)
(* which Sm4MteDecrypt refuses, and GcmDecrypt if the view of the          *)
(* ciphertext has no data; and, with SmEnvSeal, any text under a vector of *)
(* less than 16 bytes.                                                     *)
MayNotOpen(e) == e.text = <<>> \/ (e.kind = "sm" /\ e.iv.bytes < SM4_IV_BYTES)

(* An envelope opens to the text that was put into it, unless it is one of *)
(* those, and nothing else opens: not with another key or vector, be it    *)
(* one with the same first 16 bytes, nor parts of two envelopes.           *)
EnvelopeTrue ==
  opened # <<>> =>
    IF opened.result.ok
    THEN \E e \in Range(sealed) : ArgsOf(e) = opened.args /\ e.text = opened.result.plaintext
    ELSE \A e \in Range(sealed) : ArgsOf(e) = opened.args => MayNotOpen(e)

-----------------------------------------------------------------------------
(* The inductive invariant: envelope i was sealed with key i, so that the  *)
(* key of an attempt tells which envelope it is from.                      *)
SealedInv(i) ==
  LET e == sealed[i]
  IN  /\ e.encrypted_key = EncryptKey(e.pair, i) /\ e.text \in Texts
      /\ \/ /\ e.kind = "sm" /\ e.mac = <<>>
            /\ \E behind \in Memory : e.ciphertext = Sm4MteEncrypt(i, e.iv, behind, e.text)
         \/ /\ e.kind = "rsa" /\ e.iv.bytes = GCM_IV_BYTES
            /\ e.ciphertext = GcmEncrypt(i, e.iv, e.text).ciphertext
            /\ e.mac = GcmEncrypt(i, e.iv, e.text).mac

EnvelopeInv ==
  /\ sealed \in Seq(Range(sealed))
  /\ \A i \in DOMAIN sealed : SealedInv(i)
  /\ opened # <<>> => opened.args[4].key \in DOMAIN sealed
  /\ EnvelopeTrue
=============================================================================
