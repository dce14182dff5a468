-------------------------------- MODULE Prg --------------------------------
(***************************************************************************)
(* PseudoRandomGenerator of yasl/crypto/pseudo_random_generator.h, over    *)
(* the counter streams of SymmetricCrypto or over a generator of Drbg, and *)
(* Sm4Drbg and NistAesDrbg used on their own: several objects in a program *)
(* that share the machine's entropy, which may fail at any word.           *)
(***************************************************************************)
EXTENDS Drbg

CONSTANTS
  Gens,         \* the objects
  Seeds,        \* seeds, a subset of 0, 1, ...
  Counters,     \* counters given to SetStatus
  CounterBits,  \* width of the count of FillPseudoRandom (64); counter_ has twice as many
  BATCH_SIZE,   \* cached values, whole blocks
  FillUnits,    \* lengths of the buffers given to Fill
  Strengths,    \* SecurityStrengthFlags of NistAesDrbg, in bits
  HealthSize,   \* kDefaultHealthCheckSize
  Failures,     \* sets of entropy words at which RDSEED fails
  MaxCalls      \* bound on the calls of a behaviour

ASSUME PrgAssumption ==
  /\ BATCH_SIZE \in Nat \ {0} /\ BATCH_SIZE % BlockUnits = 0
  /\ CounterBits \in Nat /\ Counters \subseteq 0 .. 2^(2 * CounterBits) - 1
  /\ FillUnits \subseteq Nat /\ HealthSize \in Nat
  /\ Strengths \subseteq {128, 192, 256}

VARIABLES
  obj,     \* the object, or <<>>
  src,     \* the entropy source
  handed,  \* the values each object has handed out since it was last seeded
  stale,   \* whether SetSeed or SetStatus left old values in the cache
  calls

vars == <<obj, src, handed, stale, calls>>

CounterModes == {"kAesEcb", "KSm4Ecb"}
DrbgModes == {"kNistAesCtrDrbg", "kGmSm4CtrDrbg"}
Alone == {"NistAesDrbg", "Sm4Drbg"}

Mode(g) == obj[g].mode
IsPrg(g) == obj[g] # <<>> /\ Mode(g) \in CounterModes \cup DrbgModes
HasDrbg(g) == obj[g] # <<>> /\ Mode(g) \notin CounterModes

(* A seed of 0 is no personal string; any other one is two words.          *)
Personal(seed) == IF seed = 0 THEN <<>> ELSE <<<<"personal", seed, 1>>, <<"personal", seed, 2>>>>

Init ==
  /\ obj = [g \in Gens |-> <<>>]
  /\ \E rdseed \in BOOLEAN, failures \in Failures : src = makeEntropySource(rdseed, failures)
  /\ handed = [g \in Gens |-> <<>>]
  /\ stale = [g \in Gens |-> FALSE]
  /\ calls = 0

Called == calls < MaxCalls /\ calls' = calls + 1

(* The constructors; one that throws leaves no object.                     *)
Construct(g) ==
  /\ Called /\ obj[g] = <<>>
  /\ \E mode \in CounterModes \cup DrbgModes \cup Alone, seed \in Seeds, strength \in Strengths :
       LET r == CASE mode \in CounterModes -> [ok |-> TRUE, src |-> src, g |-> <<>>]
                  [] mode \in {"kNistAesCtrDrbg", "NistAesDrbg"} ->
                       NistInstantiate(src, strength, Personal(seed))
                  [] OTHER -> Sm4Instantiate(src, Personal(seed))
       IN  /\ mode = "NistAesDrbg" \/ strength = 128
           /\ src' = r.src
           /\ obj' = [obj EXCEPT ![g] =
                IF r.ok THEN [mode |-> mode, seed |-> seed, counter |-> 0, drbg |-> r.g,
                              num_consumed |-> BATCH_SIZE,
                              cache |-> [i \in 1 .. BATCH_SIZE |-> <<"initial", 0>>]]
                ELSE <<>>]
           /\ handed' = [handed EXCEPT ![g] = IF mode \in CounterModes THEN <<>> ELSE @]
           /\ stale' = [stale EXCEPT ![g] = FALSE]

DrbgResult(o, r) == [ok |-> r.ok, src |-> r.src, o |-> [o EXCEPT !.drbg = r.g], out |-> r.out]

(* What Fill and GenerateBudgets do to the object, for a buffer of so many *)
(* units: the count of FillPseudoRandom is narrower than counter_.         *)
Produce(o, units) ==
  IF o.mode \in CounterModes
  THEN LET count == o.counter % 2^CounterBits
       IN  [ok |-> TRUE, src |-> src,
            o |-> [o EXCEPT !.counter = NextCount(count, units) % 2^CounterBits],
            out |-> FillPseudoRandom("ECB", <<o.mode, o.seed>>, {}, count, units)]
  ELSE DrbgResult(o, FillRandomBytes(o.drbg, src, units))

(* GenerateBudgets writes into the cache as far as it comes.               *)
Cached(r) == [r EXCEPT !.o.cache = r.out \o SubSeq(@, Len(r.out) + 1, BATCH_SIZE)]
GenerateBudgets(o) == Cached(Produce(o, BATCH_SIZE))

Finish(g, r, out) ==
  /\ src' = r.src
  /\ obj' = [obj EXCEPT ![g] = r.o]
  /\ handed' = [handed EXCEPT ![g] = IF r.ok THEN @ \o out ELSE @]
  /\ UNCHANGED stale

(* Mutant: the cache counts as unread before it has been filled.           *)
Refill_ResetFirst(o) == GenerateBudgets([o EXCEPT !.num_consumed = 0])

Unread(r) == IF r.ok THEN [r EXCEPT !.o.num_consumed = 0] ELSE r
Refill(o) == Unread(GenerateBudgets(o))

(* operator(): the next value of the cache, or the exception of a refill.  *)
Consume(g, r) ==
  Finish(g, [r EXCEPT !.o.num_consumed = IF r.ok THEN @ + 1 ELSE @],
         <<r.o.cache[r.o.num_consumed + 1]>>)

Call(g) ==
  /\ Called /\ IsPrg(g)
  /\ Consume(g, IF obj[g].num_consumed = BATCH_SIZE THEN Refill(obj[g])
                ELSE [ok |-> TRUE, src |-> src, o |-> obj[g], out |-> <<>>])

Fill(g) ==
  /\ Called /\ IsPrg(g)
  /\ \E units \in FillUnits : \E r \in {Produce(obj[g], units)} : Finish(g, r, r.out)

(* SetSeed and SetStatus: the cache is kept, and a generator of Drbg does  *)
(* not notice.                                                             *)
SetState(g, seed, counter) ==
  /\ Called /\ IsPrg(g)
  /\ obj' = [obj EXCEPT ![g].seed = seed, ![g].counter = counter]
  /\ IF Mode(g) \in CounterModes
     THEN /\ handed' = [handed EXCEPT ![g] = <<>>]
          /\ stale' = [stale EXCEPT ![g] = obj[g].num_consumed < BATCH_SIZE]
     ELSE UNCHANGED <<handed, stale>>
  /\ UNCHANGED src

SetSeed(g) == \E seed \in Seeds : SetState(g, seed, 0)
SetStatus(g) == \E seed \in Seeds, counter \in Counters : SetState(g, seed, counter)

(* Generate of a generator used on its own: Sm4Drbg gives at most a block. *)
WithDrbg(g, r) ==
  Finish(g, [ok |-> r.ok, src |-> r.src, o |-> [obj[g] EXCEPT !.drbg = r.g]], r.out)

Generate(g) ==
  /\ Called /\ obj[g] # <<>> /\ Mode(g) \in Alone
  /\ \/ /\ Mode(g) = "Sm4Drbg"
        /\ \E additional_input \in {<<>>, <<<<"additional", 1>>>>} :
             WithDrbg(g, Sm4Generate(obj[g].drbg, src, BlockUnits, additional_input))
     \/ /\ Mode(g) = "NistAesDrbg"
        /\ \E units \in FillUnits, prediction_resistance \in BOOLEAN :
             WithDrbg(g, NistGenerate(obj[g].drbg, src, units, prediction_resistance))

CheckHealth(g) ==
  /\ Called /\ obj[g] # <<>> /\ Mode(g) = "NistAesDrbg"
  /\ LET r == HealthCheck(obj[g].drbg, src, HealthSize) IN WithDrbg(g, [r EXCEPT !.out = <<>>])

(* ~NistAesDrbg and the others; what a drbg has handed out stays handed.   *)
Destroy(g) ==
  /\ Called /\ obj[g] # <<>>
  /\ obj' = [obj EXCEPT ![g] = <<>>]
  /\ UNCHANGED <<src, handed, stale>>

Next ==
  \E g \in Gens :
    \/ Construct(g) \/ Call(g) \/ Fill(g) \/ SetSeed(g) \/ SetStatus(g)
    \/ Generate(g) \/ CheckHealth(g) \/ Destroy(g)

Spec == Init /\ [][Next]_vars

-----------------------------------------------------------------------------
(* No value is handed out twice: by one object since it was last seeded,   *)
(* whatever calls of operator() and Fill, and failures of the entropy in   *)
(* the middle of them, come in between; and, for the generators that seed  *)
(* themselves, by any two objects with the same seed.  (SetSeed of         *)
(* pseudo_random_generator.h keeps the cache: values of the same seed left *)
(* in it come again, so the epochs that begin like this are excepted.)     *)
NeverTwice ==
  /\ \A g \in Gens : ~stale[g] => IsInjective(handed[g])
  /\ \A g, h \in Gens :
       g # h /\ HasDrbg(g) /\ HasDrbg(h) => Range(handed[g]) \cap Range(handed[h]) = {}

(* No generator answers more requests than its interval without fresh      *)
(* entropy, although reseed_counter_ of Sm4Drbg counts in steps of two and *)
(* a reseeding may throw between its two draws.                            *)
SeedsAreFresh ==
  \A g \in Gens : HasDrbg(g) =>
    obj[g].drbg.uses <= IF obj[g].drbg.kind = "sm4" THEN reseed_interval_ ELSE kReseedInterval

(* The callbacks of NistAesDrbg, which copy what OpenSSL asks for without  *)
(* looking at its length, stay within the arrays of the ENTROPY_CTX, and   *)
(* what they copy is no less than the security strength.                   *)
SeedFits ==
  \A g \in Gens : HasDrbg(g) /\ obj[g].drbg.kind = "nist" =>
    LET d == obj[g].drbg
    IN  /\ d.entropyCopied <= 48 /\ d.nonceCopied <= 16
        /\ 8 * d.entropyCopied >= d.strength /\ 16 * d.nonceCopied >= d.strength

(* Both: every seed of a generator has enough entropy, and is not used for *)
(* too long.                                                               *)
SeedsSound == SeedsAreFresh /\ SeedFits

-----------------------------------------------------------------------------
(* The inductive invariant behind SeedsSound: what the counters of the     *)
(* generators say about the requests answered since the last seeding.      *)
IsSm4(d) == d = [f \in {"kind", "ctx", "v", "seed_material", "reseed_counter", "uses"} |-> d[f]]
IsNist(d) == d = [f \in {"kind", "strength", "ready", "seed", "gen_counter", "uses",
                         "entropyCopied", "nonceCopied"} |-> d[f]]
IsObj(o) == o = [f \in {"mode", "seed", "counter", "drbg", "num_consumed", "cache"} |-> o[f]]

Sm4Inv(d) ==
  /\ d.kind = "sm4" /\ IsSm4(d)
  /\ d.uses \in 0 .. reseed_interval_ /\ d.reseed_counter = 2 * d.uses + 1

NistInv(d) ==
  /\ d.kind = "nist" /\ IsNist(d) /\ d.strength \in {128, 192, 256}
  /\ d.uses \in 0 .. kReseedInterval /\ d.gen_counter = d.uses + 1
  /\ d.entropyCopied = EntropyBytes(d.strength) /\ d.nonceCopied = NonceBytes(d.strength)

DrbgInv(d, kind) == IF kind = "nist" THEN NistInv(d) ELSE Sm4Inv(d)
KindOf(mode) == IF mode \in {"kNistAesCtrDrbg", "NistAesDrbg"} THEN "nist" ELSE "sm4"

ObjInv(o) == IsObj(o) /\ (o.mode \notin CounterModes => DrbgInv(o.drbg, KindOf(o.mode)))

GeneratorInv == obj = [g \in Gens |-> obj[g]] /\ \A g \in Gens : obj[g] # <<>> => ObjInv(obj[g])
=============================================================================
