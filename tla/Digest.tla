------------------------------- MODULE Digest -------------------------------
(***************************************************************************)
(* The hash objects of yasl/crypto: SslHash, Blake3Hash and Hmac, which    *)
(* take data bit by bit and give a digest of all of it at any time.        *)
(*                                                                         *)
(* A digest is a term of the function and of what went into it.  An        *)
(* OpenSSL context that has been finalized takes nothing more.             *)
(***************************************************************************)
EXTENDS Naturals, SequencesExt

CONSTANTS
  Hashers,   \* the objects
  Pieces,    \* data for Update, sequences of bytes
  MacKeys,   \* keys of Hmac
  OutLens,   \* output lengths asked of Blake3Hash
  MaxHashed  \* bound on the calls of a behaviour

BLAKE3_OUT_LEN == 32

HashAlgorithm ==
  {"UNKNOWN", "SHA224", "SHA256", "SHA384", "SHA512", "SHA_1", "SM3", "BLAKE2B", "BLAKE3"}

VARIABLES
  hasher,  \* the object, or <<>>
  fed,     \* what the caller has given it since it was made or reset
  digest,  \* the last result: the object, what it had been fed, and the value
  hashed   \* the number of calls

digestVars == <<hasher, fed, digest, hashed>>

DigestInit ==
  /\ hasher = [h \in Hashers |-> <<>>]
  /\ fed = [h \in Hashers |-> <<>>]
  /\ digest = <<>> /\ hashed = 0

(* The functions of OpenSSL by which the objects compute, or "none" for an *)
(* algorithm that is refused.  SslHash has no SHA-224 of its own.          *)
CreateEvpMD(algo) ==
  CASE algo \in {"SHA224", "SHA256"} -> "SHA256"
    [] algo \in {"UNKNOWN", "BLAKE3"} -> "none"
    [] OTHER -> algo

HmacMd(algo) == IF algo \in {"UNKNOWN", "BLAKE2B", "BLAKE3"} THEN "none" ELSE algo

(* A context: what it computes, with which key, what it holds, and whether *)
(* it has been finalized.                                                  *)
Init_HMAC(algo, key) == [md |-> HmacMd(algo), key |-> key, data |-> <<>>, final |-> FALSE]
DigestInitEx(md) == [md |-> md, key |-> <<>>, data |-> <<>>, final |-> FALSE]

DigestFinal(ctx) == <<ctx.md, ctx.key, ctx.data>>

CleanContext(o) ==
  CASE o.kind = "ssl" -> DigestInitEx(CreateEvpMD(o.algo))
    [] o.kind = "hmac" -> Init_HMAC(o.algo, o.key)
    [] o.kind = "blake3" -> DigestInitEx("BLAKE3")

HashCall == hashed < MaxHashed /\ hashed' = hashed + 1

Made(h, o) ==
  /\ hasher' = [hasher EXCEPT ![h] =
       [kind |-> o.kind, algo |-> o.algo, key |-> o.key, len |-> o.len, ctx |-> CleanContext(o)]]
  /\ fed' = [fed EXCEPT ![h] = <<>>]

(* The constructors that do not throw; those that throw leave no object.   *)
ConstructHash(h) ==
  /\ HashCall /\ hasher[h] = <<>>
  /\ \/ \E algo \in HashAlgorithm :
          /\ CreateEvpMD(algo) # "none"
          /\ Made(h, [kind |-> "ssl", algo |-> algo, key |-> <<>>, len |-> 0])
     \/ \E algo \in HashAlgorithm, key \in MacKeys :
          /\ HmacMd(algo) # "none"
          /\ Made(h, [kind |-> "hmac", algo |-> algo, key |-> key, len |-> 0])
     \/ \E len \in OutLens :
          /\ 0 < len /\ len <= BLAKE3_OUT_LEN
          /\ Made(h, [kind |-> "blake3", algo |-> "BLAKE3", key |-> <<>>, len |-> len])
  /\ UNCHANGED digest

ResetHash(h) ==
  /\ HashCall /\ hasher[h] # <<>>
  /\ hasher' = [hasher EXCEPT ![h].ctx = CleanContext(hasher[h])]
  /\ fed' = [fed EXCEPT ![h] = <<>>]
  /\ UNCHANGED digest

(* Update; it throws if OpenSSL refuses the data.                          *)
UpdateHash(h) ==
  /\ HashCall /\ hasher[h] # <<>>
  /\ \E data \in Pieces :
       /\ hasher' = IF hasher[h].ctx.final THEN hasher
                    ELSE [hasher EXCEPT ![h].ctx.data = @ \o data]
       /\ fed' = [fed EXCEPT ![h] = @ \o data]
  /\ UNCHANGED digest

(* Mutant: the context itself is finalized, not a snapshot of it.          *)
Finalized_InPlace(ctx) == [ctx EXCEPT !.final = TRUE]

(* What a call leaves of the object's context when it finalizes a copy.    *)
Finalized(ctx) == ctx

(* CumulativeHash and CumulativeMac; Blake3Hash cuts the output.           *)
Cumulative(h) ==
  /\ HashCall /\ hasher[h] # <<>>
  /\ digest' = [by |-> hasher[h], fed |-> fed[h],
                value |-> <<DigestFinal(hasher[h].ctx), hasher[h].len>>]
  /\ hasher' = [hasher EXCEPT ![h].ctx = Finalized(@)]
  /\ UNCHANGED fed

DestroyHash(h) ==
  /\ HashCall /\ hasher[h] # <<>>
  /\ hasher' = [hasher EXCEPT ![h] = <<>>]
  /\ UNCHANGED <<fed, digest>>

DigestNext ==
  \E h \in Hashers :
    \/ ConstructHash(h) \/ ResetHash(h) \/ UpdateHash(h) \/ Cumulative(h) \/ DestroyHash(h)

-----------------------------------------------------------------------------
(* "Get a hash of all data added to the object since its creation or last  *)
(* call" of Reset (hash_interface.h:41-44, hmac.h:28-31): whatever the     *)
(* pieces, and however many digests were taken in between, a result is the *)
(* function the object names, of the object's key and of all its data, and *)
(* no other object's.  (SslHash of SHA224 computes SHA-256: excepted.)     *)
DigestTrue ==
  digest # <<>> =>
    LET o == digest.by
    IN  \/ digest.value = <<<<o.algo, o.key, digest.fed>>, o.len>>
        \/ o.kind = "ssl" /\ o.algo = "SHA224"

-----------------------------------------------------------------------------
IsContext(c) == c = [f \in {"md", "key", "data", "final"} |-> c[f]]

(* The inductive invariant: the context of an object is that of a new one  *)
(* with all the data in it, and has not been finalized.                    *)
HasherInv(h) ==
  LET o == hasher[h]
      c == o.ctx
  IN  /\ o = [f \in {"kind", "algo", "key", "len", "ctx"} |-> o[f]]
      /\ \/ o.kind = "ssl" /\ o.algo \in HashAlgorithm \ {"UNKNOWN", "BLAKE3"} /\ o.key = <<>>
         \/ o.kind = "hmac" /\ o.algo \in HashAlgorithm \ {"UNKNOWN", "BLAKE2B", "BLAKE3"}
         \/ o.kind = "blake3" /\ o.algo = "BLAKE3" /\ o.key = <<>>
      /\ IsContext(c)
      /\ c.md = CleanContext(o).md /\ c.key = CleanContext(o).key
      /\ c.data = fed[h] /\ ~c.final

DigestInv ==
  /\ hasher = [h \in Hashers |-> hasher[h]] /\ fed = [h \in Hashers |-> fed[h]]
  /\ \A h \in Hashers : hasher[h] # <<>> => HasherInv(h)
  /\ DigestTrue
=============================================================================
