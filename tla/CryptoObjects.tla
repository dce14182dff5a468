--------------------------- MODULE CryptoObjects ---------------------------
(***************************************************************************)
(* The objects of yasl/crypto that keep state, one family per behaviour:   *)
(* random generators, hash objects, or digital envelopes.                  *)
(***************************************************************************)
EXTENDS Prg, Envelope

VARIABLE family

cryptoVars == <<family, vars, digestVars, envVars>>

GeneratorsIdle == obj = [g \in Gens |-> <<>>] /\ src = <<>> /\ calls = 0
                  /\ handed = [g \in Gens |-> <<>>] /\ stale = [g \in Gens |-> FALSE]

CryptoInit ==
  \/ family = "random" /\ Init /\ DigestInit /\ EnvelopeInit
  \/ family = "digest" /\ DigestInit /\ GeneratorsIdle /\ EnvelopeInit
  \/ family = "envelope" /\ EnvelopeInit /\ GeneratorsIdle /\ DigestInit

CryptoNext ==
  /\ UNCHANGED family
  /\ \/ family = "random" /\ Next /\ UNCHANGED <<digestVars, envVars>>
     \/ family = "digest" /\ DigestNext /\ UNCHANGED <<vars, envVars>>
     \/ family = "envelope" /\ EnvelopeNext /\ UNCHANGED <<vars, digestVars>>

CryptoSpec == CryptoInit /\ [][CryptoNext]_cryptoVars

-----------------------------------------------------------------------------
(* What the three families keep.                                           *)
CryptoInv == DigestInv /\ GeneratorInv /\ EnvelopeInv
=============================================================================
