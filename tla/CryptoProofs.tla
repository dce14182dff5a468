---------------------------- MODULE CryptoProofs ----------------------------
(***************************************************************************)
(* For any objects, data and lengths: CryptoInv is inductive and gives     *)
(* DigestTrue, SeedsSound and EnvelopeTrue.                                *)
(***************************************************************************)
EXTENDS CryptoObjects, SequenceTheorems, WellFoundedInduction, TLAPS

-----------------------------------------------------------------------------
(* Induction, with a set in place of a predicate.                          *)

\* A set of numbers that is not empty has a least element.
LEMMA Least ==
  ASSUME NEW T \in SUBSET Nat, T # {}
  PROVE  \E x \in T : \A y \in T : x <= y
<1> DEFINE R == OpToRel(<, Nat)
<1>1. IsWellFoundedOn(R, Nat)
  BY NatLessThanWellFounded
<1>2. \A x, y \in Nat : x < y => <<x, y>> \in R
  BY DEF OpToRel
<1> HIDE DEF R
<1>3. PICK x \in T : \A y \in T : ~(<<y, x>> \in R)
  BY <1>1, WFMin
<1>4. \A y \in T : x <= y
  <2> SUFFICES ASSUME NEW y \in T PROVE ~(y < x)
    OBVIOUS
  <2>1. x \in Nat /\ y \in Nat
    OBVIOUS
  <2>2. QED
    BY <1>2, <1>3, <2>1
<1>5. QED
  BY <1>4

\* A set that holds 0, and the successors of its numbers, holds all of them.
LEMMA Induction ==
  ASSUME NEW S, 0 \in S, \A n \in Nat : n \in S => n + 1 \in S
  PROVE  Nat \subseteq S
<1> DEFINE T == Nat \ S
<1> SUFFICES ASSUME T # {} PROVE FALSE
  OBVIOUS
<1>1. T \in SUBSET Nat
  OBVIOUS
<1> HIDE DEF T
<1>2. PICK x \in T : \A y \in T : x <= y
  BY <1>1, Least
<1>3. x \in Nat /\ x \notin S /\ x # 0
  BY DEF T
<1>4. x - 1 \in Nat /\ x - 1 \notin T
  BY <1>2, <1>3
<1>5. QED
  BY <1>3, <1>4 DEF T

-----------------------------------------------------------------------------
(* Digest.                                                                 *)

\* A clean context.
LEMMA ContextFields ==
  ASSUME NEW o, o.kind \in {"ssl", "hmac", "blake3"}
  PROVE  /\ IsContext(CleanContext(o))
         /\ CleanContext(o).data = <<>> /\ ~CleanContext(o).final
  BY DEF IsContext, CleanContext, DigestInitEx, Init_HMAC

\* What the context of an object of each kind computes.
LEMMA ContextFacts ==
  ASSUME NEW o
  PROVE  /\ o.kind = "ssl" =>
              CleanContext(o).md = CreateEvpMD(o.algo) /\ CleanContext(o).key = <<>>
         /\ o.kind = "hmac" =>
              CleanContext(o).md = HmacMd(o.algo) /\ CleanContext(o).key = o.key
         /\ o.kind = "blake3" =>
              CleanContext(o).md = "BLAKE3" /\ CleanContext(o).key = <<>>
  BY DEF CleanContext, DigestInitEx, Init_HMAC

\* The digest of an object.
LEMMA HasherFacts ==
  ASSUME NEW h, HasherInv(h)
  PROVE  LET o == hasher[h]
         IN  \/ DigestFinal(o.ctx) = <<o.algo, o.key, fed[h]>>
             \/ o.kind = "ssl" /\ o.algo = "SHA224"
<1> DEFINE o == hasher[h]
           c == CleanContext(o)
<1>1. o.kind \in {"ssl", "hmac", "blake3"}
  BY DEF HasherInv
<1>2. \/ c.md = o.algo /\ c.key = o.key
      \/ o.kind = "ssl" /\ o.algo = "SHA224"
  <2>1. CASE o.kind = "ssl"
    <3>1. c.md = CreateEvpMD(o.algo) /\ c.key = <<>>
      BY <2>1, ContextFacts
    <3>2. o.algo \in HashAlgorithm \ {"UNKNOWN", "BLAKE3"} /\ o.key = <<>>
      BY <2>1 DEF HasherInv
    <3>3. o.algo = "SHA224" \/ CreateEvpMD(o.algo) = o.algo
      BY <3>2 DEF HashAlgorithm, CreateEvpMD
    <3>4. QED
      BY <2>1, <3>1, <3>2, <3>3
  <2>2. CASE o.kind = "hmac"
    <3>1. c.md = HmacMd(o.algo) /\ c.key = o.key
      BY <2>2, ContextFacts
    <3>2. o.algo \notin {"UNKNOWN", "BLAKE2B", "BLAKE3"}
      BY <2>2 DEF HasherInv
    <3>3. QED
      BY <3>1, <3>2 DEF HmacMd
  <2>3. CASE o.kind = "blake3"
    <3>1. c.md = "BLAKE3" /\ c.key = <<>>
      BY <2>3, ContextFacts
    <3>2. QED
      BY <2>3, <3>1 DEF HasherInv
  <2>4. QED
    BY <1>1, <2>1, <2>2, <2>3
<1>3. o.ctx.md = c.md /\ o.ctx.key = c.key /\ o.ctx.data = fed[h]
  BY DEF HasherInv
<1> HIDE DEF c
<1>4. DigestFinal(o.ctx) = <<c.md, c.key, fed[h]>>
  BY <1>3 DEF DigestFinal
<1>5. QED
  BY <1>2, <1>4

\* An object changes, and its data with it.
LEMMA HasherStep ==
  ASSUME DigestInv, NEW h \in Hashers, NEW o, NEW data,
         hasher' = [hasher EXCEPT ![h] = o], fed' = [fed EXCEPT ![h] = data], digest' = digest,
         o # <<>> => HasherInv(h)'
  PROVE  DigestInv'
<1>1. hasher' = [x \in Hashers |-> hasher'[x]] /\ fed' = [x \in Hashers |-> fed'[x]]
  BY DEF DigestInv
<1>2. hasher'[h] = o /\ \A x \in Hashers \ {h} : hasher'[x] = hasher[x] /\ fed'[x] = fed[x]
  BY DEF DigestInv
<1>3. ASSUME NEW x \in Hashers, hasher'[x] # <<>> PROVE HasherInv(x)'
  <2>1. CASE x = h
    BY <1>2, <1>3, <2>1
  <2>2. CASE x # h
    BY <1>2, <1>3, <2>2 DEF DigestInv, HasherInv
  <2>3. QED
    BY <2>1, <2>2
<1>4. QED
  BY <1>1, <1>3 DEF DigestInv, DigestTrue

\* A new object.
LEMMA MadeStep ==
  ASSUME DigestInv, NEW h \in Hashers, digest' = digest, NEW o, Made(h, o),
         \/ o.kind = "ssl" /\ o.algo \in HashAlgorithm \ {"UNKNOWN", "BLAKE3"} /\ o.key = <<>>
         \/ o.kind = "hmac" /\ o.algo \in HashAlgorithm \ {"UNKNOWN", "BLAKE2B", "BLAKE3"}
         \/ o.kind = "blake3" /\ o.algo = "BLAKE3" /\ o.key = <<>>
  PROVE  DigestInv'
<1> DEFINE p == [kind |-> o.kind, algo |-> o.algo, key |-> o.key, len |-> o.len,
                 ctx |-> CleanContext(o)]
<1>1. hasher' = [hasher EXCEPT ![h] = p] /\ fed' = [fed EXCEPT ![h] = <<>>]
  BY DEF Made
<1>2. hasher'[h] = p /\ fed'[h] = <<>>
  BY <1>1 DEF DigestInv
<1>3. /\ CleanContext(p) = CleanContext(o)
      /\ p = [f \in {"kind", "algo", "key", "len", "ctx"} |-> p[f]]
      /\ p.kind = o.kind /\ p.algo = o.algo /\ p.key = o.key /\ p.ctx = CleanContext(o)
  BY DEF CleanContext
<1>4. /\ IsContext(CleanContext(o))
      /\ CleanContext(o).data = <<>> /\ ~CleanContext(o).final
  BY ContextFields
<1> HIDE DEF p
<1>5. HasherInv(h)'
  BY <1>2, <1>3, <1>4 DEF HasherInv
<1>6. QED
  BY <1>1, <1>5, HasherStep

\* The steps of the hash objects.
LEMMA DigestStep == DigestInv /\ DigestNext => DigestInv'
<1> SUFFICES ASSUME DigestInv, NEW h \in Hashers,
                    \/ ConstructHash(h) \/ ResetHash(h) \/ UpdateHash(h)
                    \/ Cumulative(h) \/ DestroyHash(h)
             PROVE  DigestInv'
  BY DEF DigestNext
<1>0. hasher = [x \in Hashers |-> hasher[x]] /\ fed = [x \in Hashers |-> fed[x]]
  BY DEF DigestInv
<1>1. CASE ConstructHash(h)
  <2>1. ASSUME NEW algo \in HashAlgorithm, CreateEvpMD(algo) # "none",
               Made(h, [kind |-> "ssl", algo |-> algo, key |-> <<>>, len |-> 0])
        PROVE  DigestInv'
    <3>1. algo \in HashAlgorithm \ {"UNKNOWN", "BLAKE3"}
      BY <2>1 DEF CreateEvpMD, HashAlgorithm
    <3>2. QED
      BY <1>1, <2>1, <3>1, MadeStep DEF ConstructHash
  <2>2. ASSUME NEW algo \in HashAlgorithm, NEW key \in MacKeys, HmacMd(algo) # "none",
               Made(h, [kind |-> "hmac", algo |-> algo, key |-> key, len |-> 0])
        PROVE  DigestInv'
    <3>1. algo \in HashAlgorithm \ {"UNKNOWN", "BLAKE2B", "BLAKE3"}
      BY <2>2 DEF HmacMd, HashAlgorithm
    <3>2. QED
      BY <1>1, <2>2, <3>1, MadeStep DEF ConstructHash
  <2>3. ASSUME NEW len \in OutLens,
               Made(h, [kind |-> "blake3", algo |-> "BLAKE3", key |-> <<>>, len |-> len])
        PROVE  DigestInv'
    BY <1>1, <2>3, MadeStep DEF ConstructHash
  <2>4. QED
    BY <1>1, <2>1, <2>2, <2>3 DEF ConstructHash
<1> DEFINE o == hasher[h]
<1>2. ASSUME hasher[h] # <<>>, NEW c, NEW data,
             IsContext(c),
             c.md = CleanContext(hasher[h]).md, c.key = CleanContext(hasher[h]).key,
             c.data = data, ~c.final,
             hasher' = [hasher EXCEPT ![h] = [hasher[h] EXCEPT !.ctx = c]],
             fed' = [fed EXCEPT ![h] = data], digest' = digest
      PROVE  DigestInv'
  <2> DEFINE p == [hasher[h] EXCEPT !.ctx = c]
  <2>1. HasherInv(h)
    BY <1>2 DEF DigestInv
  <2>2. o = [f \in {"kind", "algo", "key", "len", "ctx"} |-> o[f]]
    BY <2>1 DEF HasherInv
  <2>3. /\ p = [f \in {"kind", "algo", "key", "len", "ctx"} |-> p[f]]
        /\ p.kind = o.kind /\ p.algo = o.algo /\ p.key = o.key /\ p.len = o.len /\ p.ctx = c
    BY <2>2
  <2>4. hasher' = [hasher EXCEPT ![h] = p]
    BY <1>2
  <2> HIDE DEF p
  <2>5. hasher'[h] = p /\ fed'[h] = data
    BY <1>0, <1>2, <2>4
  <2>6. CleanContext(p) = CleanContext(o)
    BY <2>3 DEF CleanContext
  <2>7. \/ p.kind = "ssl" /\ p.algo \in HashAlgorithm \ {"UNKNOWN", "BLAKE3"} /\ p.key = <<>>
        \/ p.kind = "hmac" /\ p.algo \in HashAlgorithm \ {"UNKNOWN", "BLAKE2B", "BLAKE3"}
        \/ p.kind = "blake3" /\ p.algo = "BLAKE3" /\ p.key = <<>>
    BY <2>1, <2>3 DEF HasherInv
  <2>8. HasherInv(h)'
    BY <1>2, <2>3, <2>5, <2>6, <2>7 DEF HasherInv
  <2>9. QED
    BY <1>2, <2>4, <2>8, HasherStep
<1>3. CASE ResetHash(h)
  <2>1. o.kind \in {"ssl", "hmac", "blake3"}
    BY <1>3 DEF DigestInv, ResetHash, HasherInv
  <2>2. PICK c : c = CleanContext(o)
    OBVIOUS
  <2>3. /\ IsContext(c)
        /\ c.data = <<>> /\ ~c.final
    BY <2>1, <2>2, ContextFields
  <2>4. /\ hasher[h] # <<>> /\ hasher' = [hasher EXCEPT ![h] = [hasher[h] EXCEPT !.ctx = c]]
        /\ fed' = [fed EXCEPT ![h] = <<>>] /\ digest' = digest
    BY <1>3, <2>2 DEF ResetHash
  <2>5. QED
    BY <1>2, <2>2, <2>3, <2>4
<1>4. CASE UpdateHash(h)
  <2>1. HasherInv(h) /\ hasher[h] # <<>>
    BY <1>4 DEF DigestInv, UpdateHash
  <2>2. PICK data \in Pieces :
          /\ hasher' = IF hasher[h].ctx.final THEN hasher
                       ELSE [hasher EXCEPT ![h].ctx.data = @ \o data]
          /\ fed' = [fed EXCEPT ![h] = @ \o data]
    BY <1>4 DEF UpdateHash
  <2>3. /\ IsContext(o.ctx)
        /\ o.ctx.md = CleanContext(o).md /\ o.ctx.key = CleanContext(o).key
        /\ o.ctx.data = fed[h] /\ ~o.ctx.final
    BY <2>1 DEF HasherInv
  <2> DEFINE c == [hasher[h].ctx EXCEPT !.data = @ \o data]
             all == fed[h] \o data
  <2>4. /\ hasher' = [hasher EXCEPT ![h] = [hasher[h] EXCEPT !.ctx = c]]
        /\ fed' = [fed EXCEPT ![h] = all]
    BY <2>2, <2>3
  <2>5. /\ IsContext(c)
        /\ c.md = CleanContext(o).md /\ c.key = CleanContext(o).key
        /\ c.data = all /\ ~c.final
    BY <2>3 DEF IsContext
  <2>6. digest' = digest
    BY <1>4 DEF UpdateHash
  <2> HIDE DEF c, all
  <2>7. QED
    BY <1>2, <2>1, <2>4, <2>5, <2>6
<1>5. CASE Cumulative(h)
  <2>1. HasherInv(h)
    BY <1>5 DEF DigestInv, Cumulative
  <2>2. o = [f \in {"kind", "algo", "key", "len", "ctx"} |-> o[f]]
    BY <2>1 DEF HasherInv
  <2>3. [o EXCEPT !.ctx = o.ctx] = o
    BY <2>2
  <2>4. hasher' = [hasher EXCEPT ![h] = [o EXCEPT !.ctx = o.ctx]] /\ fed' = fed
    BY <1>5 DEF Cumulative, Finalized
  <2>5. hasher' = hasher
    BY <1>0, <2>3, <2>4
  <2>6. DigestTrue'
    <3>1. digest' = [by |-> o, fed |-> fed[h], value |-> <<DigestFinal(o.ctx), o.len>>]
      BY <1>5 DEF Cumulative
    <3>2. QED
      BY <2>1, <3>1, HasherFacts DEF DigestTrue
  <2>7. QED
    BY <2>4, <2>5, <2>6 DEF DigestInv, HasherInv
<1>6. CASE DestroyHash(h)
  <2>1. hasher' = [hasher EXCEPT ![h] = <<>>] /\ fed' = [fed EXCEPT ![h] = fed[h]]
    BY <1>0, <1>6 DEF DestroyHash
  <2>2. QED
    BY <1>6, <2>1, HasherStep, ZenonT(60) DEF DestroyHash
<1>7. QED
  BY <1>1, <1>3, <1>4, <1>5, <1>6

-----------------------------------------------------------------------------
(* The generators.                                                         *)

\* The larger of two numbers.
LEMMA MaxOf ==
  ASSUME NEW a \in Int, NEW b \in Int
  PROVE  Max({a, b}) = IF a <= b THEN b ELSE a
  BY DEF Max

\* The smaller of two numbers.
LEMMA MinOf ==
  ASSUME NEW a \in Int, NEW b \in Int
  PROVE  Min({a, b}) = IF a <= b THEN a ELSE b
  BY DEF Min

\* RngUpdate counts one step and leaves the number of uses alone.
LEMMA UpdateFacts ==
  ASSUME NEW g, IsSm4(g)
  PROVE  /\ IsSm4(RngUpdate(g)) /\ RngUpdate(g).kind = g.kind /\ RngUpdate(g).uses = g.uses
         /\ RngUpdate(g).reseed_counter = g.reseed_counter + 1
  BY DEF IsSm4, RngUpdate

\* A seeded generator starts anew.
LEMMA SeededFacts ==
  ASSUME NEW g, IsSm4(g), g.kind = "sm4"
  PROVE  Sm4Inv(Seeded(g)) /\ Seeded(g).reseed_counter = 1
<1> DEFINE u == RngUpdate(g)
<1>1. IsSm4(u) /\ u.kind = "sm4"
  BY UpdateFacts
<1>2. Seeded(g) = [u EXCEPT !.reseed_counter = 1, !.uses = 0]
  BY DEF Seeded
<1> HIDE DEF u
<1> DEFINE s == [u EXCEPT !.reseed_counter = 1, !.uses = 0]
<1>3. IsSm4(s) /\ s.kind = "sm4" /\ s.reseed_counter = 1 /\ s.uses = 0
  BY <1>1 DEF IsSm4
<1> HIDE DEF s
<1>4. Sm4Inv(s)
  BY <1>3, DrbgAssumption DEF Sm4Inv
<1>5. Seeded(g) = s
  BY <1>2 DEF s
<1>6. QED
  BY <1>3, <1>4, <1>5

\* A new Sm4Drbg.
LEMMA Sm4New ==
  ASSUME NEW source, NEW personal, Sm4Instantiate(source, personal).ok
  PROVE  Sm4Inv(Sm4Instantiate(source, personal).g)
<1> DEFINE e == GetEntropy(source, min_length_)
           g == [kind |-> "sm4", ctx |-> ZeroBlock, v |-> NewV(ZeroBlock),
                 seed_material |-> RngDf(e.out \o personal),
                 reseed_counter |-> 0, uses |-> 0]
<1>1. IsSm4(g) /\ g.kind = "sm4"
  BY DEF IsSm4
<1>2. Sm4Instantiate(source, personal) = [ok |-> e.ok, src |-> e.src, g |-> IF e.ok THEN Seeded(g) ELSE g]
  BY DEF Sm4Instantiate
<1> HIDE DEF e, g
<1>3. Sm4Instantiate(source, personal).g = Seeded(g)
  BY <1>2
<1>4. QED
  BY <1>1, <1>3, SeededFacts

\* A generator that reseeds itself, or finds that it need not.
LEMMA ReseededFacts ==
  ASSUME NEW g, Sm4Inv(g), NEW source, NEW input
  PROVE  LET r == Reseeded(g, source, input)
         IN  Sm4Inv(r.g) /\ (r.ok => r.g.reseed_counter <= reseed_interval_)
<1>0. IsSm4(g) /\ g.kind = "sm4" /\ g.reseed_counter \in Nat /\ reseed_interval_ \in Nat \ {0}
  BY DrbgAssumption DEF Sm4Inv
<1>1. ASSUME NEW from
      PROVE  LET r == ReSeed(g, from, input) IN
             Sm4Inv(r.g) /\ (r.ok => r.g.reseed_counter <= reseed_interval_)
  <2> DEFINE e == GetEntropy(from, min_length_)
             h == [g EXCEPT !.seed_material = RngDf(e.out \o input)]
  <2>1. IsSm4(h) /\ h.kind = "sm4"
    BY <1>0 DEF IsSm4
  <2>2. ReSeed(g, from, input) = [ok |-> e.ok, src |-> e.src, g |-> IF e.ok THEN Seeded(h) ELSE g]
    BY DEF ReSeed
  <2> HIDE DEF e, h
  <2>3. Sm4Inv(Seeded(h)) /\ Seeded(h).reseed_counter = 1
    BY <2>1, SeededFacts
  <2>4. QED
    BY <1>0, <2>2, <2>3
<1>2. CASE ~ReseedDue(g)
  BY <1>0, <1>2 DEF Reseeded, ReseedDue
<1>3. CASE ReseedDue(g)
  <2> DEFINE e == GetEntropy(source, min_length_)
  <2>1. Reseeded(g, source, input) = IF e.ok THEN ReSeed(g, e.src, input)
                                     ELSE [ok |-> FALSE, src |-> e.src, g |-> g]
    BY <1>3 DEF Reseeded
  <2> HIDE DEF e
  <2>2. CASE e.ok
    BY <1>1, <2>1, <2>2
  <2>3. CASE ~e.ok
    BY <2>1, <2>3
  <2>4. QED
    BY <2>2, <2>3
<1>4. QED
  BY <1>2, <1>3

IsResult(r) == r = [f \in {"ok", "src", "g", "out"} |-> r[f]]

\* Generate of Sm4Drbg.
LEMMA Sm4Answers ==
  ASSUME NEW g, Sm4Inv(g), NEW source, NEW len, NEW input
  PROVE  LET r == Sm4Generate(g, source, len, input) IN IsResult(r) /\ Sm4Inv(r.g)
<1> DEFINE r == Reseeded(g, source, input)
           h == [r.g EXCEPT !.reseed_counter = @ + 1, !.uses = @ + 1, !.v = Inc128(@)]
           in == IF input = <<>> THEN ZeroBlock ELSE RngDf(input)[1]
           out == [i \in 1 .. len |-> <<"sm4", Enc(h.ctx, in), i>>]
           s == Sm4Generate(g, source, len, input)
<1>1. Sm4Inv(r.g) /\ (r.ok => r.g.reseed_counter <= reseed_interval_)
  BY ReseededFacts
<1>2. s = IF ~r.ok THEN [ok |-> FALSE, src |-> r.src, g |-> r.g, out |-> <<>>]
          ELSE [ok |-> TRUE, src |-> r.src, g |-> RngUpdate(h), out |-> out]
  BY DEF Sm4Generate
<1> HIDE DEF r, s
<1>3. /\ IsSm4(r.g) /\ r.g.kind = "sm4" /\ r.g.uses \in 0 .. reseed_interval_
      /\ r.g.reseed_counter = 2 * r.g.uses + 1 /\ reseed_interval_ \in Nat \ {0}
  BY <1>1, DrbgAssumption DEF Sm4Inv
<1>4. /\ IsSm4(h) /\ h.kind = "sm4" /\ h.reseed_counter = r.g.reseed_counter + 1
      /\ h.uses = r.g.uses + 1
  BY <1>3 DEF IsSm4
<1> HIDE DEF h, out
<1>5. CASE ~r.ok
  <2>1. s.g = r.g /\ IsResult(s)
    BY <1>2, <1>5 DEF IsResult
  <2>2. QED
    BY <1>1, <2>1 DEF s
<1>6. CASE r.ok
  <2>1. s.g = RngUpdate(h) /\ IsResult(s)
    BY <1>2, <1>6 DEF IsResult
  <2> DEFINE u == RngUpdate(h)
  <2>2. /\ IsSm4(u) /\ u.kind = "sm4" /\ u.uses = r.g.uses + 1
        /\ u.reseed_counter = r.g.reseed_counter + 1 + 1
    BY <1>4, UpdateFacts
  <2> HIDE DEF u
  <2>3. u.uses \in 0 .. reseed_interval_ /\ u.reseed_counter = 2 * u.uses + 1
    BY <1>1, <1>3, <1>6, <2>2
  <2>4. Sm4Inv(u)
    BY <2>2, <2>3 DEF Sm4Inv
  <2>5. QED
    BY <2>1, <2>4 DEF s, u
<1>7. QED
  BY <1>5, <1>6

\* What the callbacks copy, for the three strengths.
LEMMA CopiedBytes ==
  ASSUME NEW strength \in {128, 192, 256}
  PROVE  /\ EntropyBytes(strength) = strength \div 8 + 16
         /\ NonceBytes(strength) = strength \div 16
         /\ strength \div 8 + 16 \in 0 .. 48 /\ strength \div 16 \in 0 .. 16
         /\ 8 * (strength \div 8 + 16) >= strength /\ 16 * (strength \div 16) >= strength
<1>1. /\ strength \div 8 \in Int /\ strength \div 8 + 16 \in Int
      /\ strength \div 16 \in Int /\ (strength \div 2) \div 8 \in Int
      /\ strength \div 8 <= strength \div 8 + 16
      /\ (strength \div 2) \div 8 = strength \div 16
  OBVIOUS
<1>2. EntropyBytes(strength) = strength \div 8 + 16
  BY <1>1, MaxOf DEF EntropyBytes
<1>3. NonceBytes(strength) = strength \div 16
  BY <1>1, MaxOf DEF NonceBytes
<1>4. QED
  BY <1>2, <1>3

\* Seeding: the counters start anew, and the callbacks copy what they always do.
LEMMA RandSeedFacts ==
  ASSUME NEW g, IsNist(g), g.kind = "nist", g.strength \in {128, 192, 256},
         NEW source, NEW withNonce \in BOOLEAN, NEW data,
         g.entropyCopied \in {0, EntropyBytes(g.strength)},
         g.nonceCopied \in {0, NonceBytes(g.strength)},
         withNonce \/ g.nonceCopied = NonceBytes(g.strength)
  PROVE  LET r == RandSeed(g, source, withNonce, data)
         IN  /\ r.ok => NistInv(r.g) /\ r.g.gen_counter = 1
             /\ ~r.ok => r.g = [g EXCEPT !.ready = FALSE]
             /\ r.ok \in BOOLEAN
<1> DEFINE E == EntropyBytes(g.strength)
           N == NonceBytes(g.strength)
           e == GetEntropy(source, E)
           nonce == IF withNonce /\ e.ok THEN GetEntropy(e.src, N) ELSE e
           a == [g EXCEPT !["entropyCopied"] = Max({@, E})]
           h == [a EXCEPT !["nonceCopied"] = Max({@, IF withNonce THEN N ELSE 0})]
           k == [h EXCEPT !.ready = TRUE, !.gen_counter = 1, !.uses = 0,
                          !.seed = <<data, e.out, nonce.out>>]
           r == RandSeed(g, source, withNonce, data)
<1>1. E \in Nat /\ N \in Nat
  BY CopiedBytes
<1>2. r = IF e.ok /\ nonce.ok THEN [ok |-> TRUE, src |-> nonce.src, g |-> k]
          ELSE [ok |-> FALSE, src |-> nonce.src, g |-> [g EXCEPT !.ready = FALSE]]
  BY DEF RandSeed, Copied
<1>3. /\ IsNist(a) /\ a.kind = "nist" /\ a.strength = g.strength
      /\ a.entropyCopied = Max({g.entropyCopied, E}) /\ a.nonceCopied = g.nonceCopied
  BY DEF IsNist
<1> HIDE DEF a
<1>4. /\ IsNist(h) /\ h.kind = "nist" /\ h.strength = g.strength
      /\ h.entropyCopied = a.entropyCopied
      /\ h.nonceCopied = Max({a.nonceCopied, IF withNonce THEN N ELSE 0})
  BY <1>3 DEF IsNist
<1> HIDE DEF h, e, nonce
<1>5. /\ IsNist(k) /\ k.kind = "nist" /\ k.strength = g.strength
      /\ k.entropyCopied = h.entropyCopied /\ k.nonceCopied = h.nonceCopied
      /\ k.uses = 0 /\ k.gen_counter = 1
  BY <1>4 DEF IsNist
<1> HIDE DEF k
<1>6. h.entropyCopied = E /\ h.nonceCopied = N
  <2> HIDE DEF E, N
  <2>1. g.entropyCopied \in {0, E} /\ g.nonceCopied \in {0, N} /\ (withNonce \/ g.nonceCopied = N)
    BY DEF E, N
  <2>2. Max({g.entropyCopied, E}) = E
    BY <1>1, <2>1, MaxOf
  <2>3. Max({g.nonceCopied, IF withNonce THEN N ELSE 0}) = N
    <3>1. CASE withNonce
      BY <1>1, <2>1, <3>1, MaxOf
    <3>2. CASE ~withNonce
      BY <1>1, <2>1, <3>2, MaxOf
    <3>3. QED
      BY <3>1, <3>2
  <2>4. QED
    BY <1>3, <1>4, <2>2, <2>3
<1>7. NistInv(k)
  BY <1>5, <1>6, DrbgAssumption DEF NistInv
<1> HIDE DEF r
<1>8. CASE e.ok /\ nonce.ok
  <2>1. r.ok = TRUE /\ r.g = k
    BY <1>2, <1>8
  <2>2. QED
    BY <1>5, <1>7, <2>1 DEF r
<1>9. CASE ~(e.ok /\ nonce.ok)
  <2>1. r.ok = FALSE /\ r.g = [g EXCEPT !.ready = FALSE]
    BY <1>2, <1>9
  <2>2. QED
    BY <2>1 DEF r
<1>10. QED
  BY <1>8, <1>9

\* A NistAesDrbg seeds itself again.
LEMMA SeedAgain ==
  ASSUME NEW g, NistInv(g), NEW source, NEW withNonce \in BOOLEAN, NEW data
  PROVE  LET r == RandSeed(g, source, withNonce, data)
         IN  NistInv(r.g) /\ (r.ok => r.g.gen_counter = 1) /\ r.ok \in BOOLEAN
<1> DEFINE r == RandSeed(g, source, withNonce, data)
           h == [g EXCEPT !.ready = FALSE]
<1>1. /\ r.ok => NistInv(r.g) /\ r.g.gen_counter = 1
      /\ ~r.ok => r.g = h
      /\ r.ok \in BOOLEAN
  BY RandSeedFacts DEF NistInv
<1>2. /\ IsNist(h) /\ h.kind = g.kind /\ h.strength = g.strength /\ h.uses = g.uses
      /\ h.gen_counter = g.gen_counter
      /\ h.entropyCopied = g.entropyCopied /\ h.nonceCopied = g.nonceCopied
  BY DEF NistInv, IsNist
<1> HIDE DEF r, h
<1>3. NistInv(h)
  BY <1>2 DEF NistInv
<1>4. QED
  BY <1>1, <1>3 DEF r

\* A new NistAesDrbg.
LEMMA NistNew ==
  ASSUME NEW source, NEW strength \in {128, 192, 256}, NEW personal,
         NistInstantiate(source, strength, personal).ok
  PROVE  NistInv(NistInstantiate(source, strength, personal).g)
<1> DEFINE g == [kind |-> "nist", strength |-> strength, ready |-> FALSE, seed |-> <<>>,
                 gen_counter |-> 0, uses |-> 0, entropyCopied |-> 0, nonceCopied |-> 0]
<1>1. /\ IsNist(g) /\ g.kind = "nist" /\ g.strength \in {128, 192, 256}
      /\ g.entropyCopied = 0 /\ g.nonceCopied = 0
  BY DEF IsNist
<1>2. NistInstantiate(source, strength, personal) = RandSeed(g, source, TRUE, <<"pers", personal>>)
  BY DEF NistInstantiate, RAND_DRBG_instantiate
<1> HIDE DEF g
<1> DEFINE data == <<"pers", personal>>
<1>3. PICK r : r = NistInstantiate(source, strength, personal)
  OBVIOUS
<1>4. PICK withNonce \in BOOLEAN : withNonce
  OBVIOUS
<1>5. r = RandSeed(g, source, withNonce, data) /\ r.ok
  BY <1>2, <1>3, <1>4
<1> HIDE DEF data
<1>6. NistInv(r.g)
  <2>1. /\ g.entropyCopied \in {0, EntropyBytes(g.strength)}
        /\ g.nonceCopied \in {0, NonceBytes(g.strength)}
        /\ withNonce \/ g.nonceCopied = NonceBytes(g.strength)
    BY <1>1, <1>4
  <2> DEFINE q == RandSeed(g, source, withNonce, data)
  <2>2. /\ q.ok => NistInv(q.g) /\ q.g.gen_counter = 1
        /\ ~q.ok => q.g = [g EXCEPT !.ready = FALSE]
        /\ q.ok \in BOOLEAN
    BY <1>1, <2>1, RandSeedFacts
  <2> HIDE DEF q
  <2>3. r = q
    BY <1>5 DEF q
  <2>4. QED
    BY <1>5, <2>2, <2>3
<1>7. QED
  BY <1>3, <1>6

\* A request to a NistAesDrbg.
LEMMA NistAnswers ==
  ASSUME NEW g, NistInv(g), NEW source, NEW len, NEW again \in BOOLEAN
  PROVE  LET r == RAND_DRBG_generate(g, source, len, again) IN IsResult(r) /\ NistInv(r.g)
<1> DEFINE p == IF g.ready THEN [ok |-> TRUE, src |-> source, g |-> g]
                ELSE RAND_DRBG_instantiate(g, source, <<>>)
           q == RandFresh(p, again)
           h == [q.g EXCEPT !.gen_counter = @ + 1, !.uses = @ + 1]
           out == [i \in 1 .. len |-> <<"nist", q.g.seed, q.g.uses, i>>]
           s == RAND_DRBG_generate(g, source, len, again)
<1>0. kReseedInterval \in Nat \ {0}
  BY DrbgAssumption
<1>1. s = IF ~q.ok THEN [ok |-> FALSE, src |-> q.src, g |-> q.g, out |-> <<>>]
          ELSE [ok |-> TRUE, src |-> q.src, g |-> h, out |-> out]
  BY DEF RAND_DRBG_generate, RandOutput
<1>2. NistInv(p.g) /\ p.ok \in BOOLEAN
  <2>1. CASE g.ready
    BY <2>1
  <2>2. CASE ~g.ready
    <3>1. p = RandSeed(g, source, TRUE, <<"pers", <<>>>>)
      BY <2>2 DEF RAND_DRBG_instantiate
    <3> HIDE DEF p
    <3>2. QED
      BY <3>1, SeedAgain
  <2>3. QED
    BY <2>1, <2>2
<1>3. NistInv(q.g) /\ (q.ok => q.g.gen_counter < kReseedInterval \/ q.g.gen_counter = 1)
  <2> DEFINE due == p.ok /\ (p.g.gen_counter >= kReseedInterval \/ again)
  <2>0. q = IF due THEN RandSeed(p.g, p.src, FALSE, <<"again", p.g.seed, p.g.uses>>) ELSE p
    BY DEF RandFresh, RAND_DRBG_reseed
  <2>0a. p.g.gen_counter \in Nat
    BY <1>2 DEF NistInv
  <2> HIDE DEF p, q
  <2>1. CASE due
    <3>1. q = RandSeed(p.g, p.src, FALSE, <<"again", p.g.seed, p.g.uses>>)
      BY <2>0, <2>1
    <3>2. PICK data : data = <<"again", p.g.seed, p.g.uses>>
      OBVIOUS
    <3>3. PICK withNonce \in BOOLEAN : ~withNonce
      OBVIOUS
    <3> DEFINE t == RandSeed(p.g, p.src, withNonce, data)
    <3>4. NistInv(t.g) /\ (t.ok => t.g.gen_counter = 1) /\ t.ok \in BOOLEAN
      BY <1>2, SeedAgain
    <3>5. q = t
      BY <3>1, <3>2, <3>3
    <3> HIDE DEF t
    <3>6. QED
      BY <3>4, <3>5
  <2>2. CASE ~due
    <3>1. q = p
      BY <2>0, <2>2
    <3>2. p.ok => ~(p.g.gen_counter >= kReseedInterval)
      BY <2>2
    <3>3. p.ok => p.g.gen_counter < kReseedInterval
      BY <1>0, <2>0a, <3>2
    <3>4. QED
      BY <1>2, <3>1, <3>3
  <2>3. QED
    BY <2>1, <2>2
<1> HIDE DEF p, q, s
<1>4. /\ IsNist(q.g) /\ q.g.kind = "nist" /\ q.g.strength \in {128, 192, 256}
      /\ q.g.uses \in 0 .. kReseedInterval /\ q.g.gen_counter = q.g.uses + 1
      /\ q.g.entropyCopied = EntropyBytes(q.g.strength)
      /\ q.g.nonceCopied = NonceBytes(q.g.strength)
  BY <1>3 DEF NistInv
<1>5. /\ IsNist(h) /\ h.kind = q.g.kind /\ h.strength = q.g.strength
      /\ h.uses = q.g.uses + 1 /\ h.gen_counter = q.g.gen_counter + 1
      /\ h.entropyCopied = q.g.entropyCopied /\ h.nonceCopied = q.g.nonceCopied
  BY <1>4 DEF IsNist
<1> HIDE DEF h, out
<1>6. CASE ~q.ok
  <2>1. IsResult(s) /\ s.g = q.g
    BY <1>1, <1>6 DEF IsResult
  <2>2. QED
    BY <1>3, <2>1 DEF s
<1>7. CASE q.ok
  <2>1. IsResult(s) /\ s.g = h
    BY <1>1, <1>7 DEF IsResult
  <2>2. h.uses \in 0 .. kReseedInterval /\ h.gen_counter = h.uses + 1
    BY <1>0, <1>3, <1>4, <1>5, <1>7
  <2>3. NistInv(h)
    BY <1>4, <1>5, <2>2 DEF NistInv
  <2>4. QED
    BY <2>1, <2>3 DEF s
<1>8. QED
  BY <1>6, <1>7

\* One request of a buffer.
LEMMA RequestFacts ==
  ASSUME NEW kind, NEW acc, IsResult(acc), DrbgInv(acc.g, kind), NEW len, NEW again \in BOOLEAN
  PROVE  LET r == Request(acc, len, again) IN IsResult(r) /\ DrbgInv(r.g, kind)
<1> DEFINE r == IF acc.g.kind = "nist" THEN RAND_DRBG_generate(acc.g, acc.src, len, again)
                ELSE Sm4Generate(acc.g, acc.src, len, <<>>)
           s == [r EXCEPT !.out = acc.out \o @]
<1>1. IsResult(r) /\ DrbgInv(r.g, kind)
  <2>1. CASE acc.g.kind = "nist"
    <3>1. NistInv(acc.g)
      BY <2>1 DEF DrbgInv, Sm4Inv
    <3>2. kind = "nist"
      BY <2>1 DEF DrbgInv, Sm4Inv
    <3> DEFINE t == RAND_DRBG_generate(acc.g, acc.src, len, again)
    <3>3. IsResult(t) /\ NistInv(t.g)
      BY <3>1, NistAnswers
    <3>4. r = t
      BY <2>1
    <3> HIDE DEF r, t
    <3>5. QED
      BY <3>2, <3>3, <3>4 DEF DrbgInv
  <2>2. CASE acc.g.kind # "nist"
    <3>1. Sm4Inv(acc.g)
      BY <2>2 DEF DrbgInv, NistInv
    <3>2. kind # "nist"
      BY <2>2 DEF DrbgInv, NistInv
    <3> DEFINE t == Sm4Generate(acc.g, acc.src, len, <<>>)
    <3>3. IsResult(t) /\ Sm4Inv(t.g)
      BY <3>1, Sm4Answers
    <3>4. r = t
      BY <2>2
    <3> HIDE DEF r, t
    <3>5. QED
      BY <3>2, <3>3, <3>4 DEF DrbgInv
  <2>3. QED
    BY <2>1, <2>2
<1>2. Request(acc, len, again) = IF acc.ok THEN s ELSE acc
  BY DEF Request
<1> HIDE DEF r
<1>3. IsResult(s) /\ s.g = r.g
  BY <1>1 DEF IsResult
<1> HIDE DEF s
<1>4. DrbgInv(s.g, kind)
  BY <1>1, <1>3
<1>5. CASE acc.ok
  BY <1>2, <1>3, <1>4, <1>5
<1>6. CASE ~acc.ok
  BY <1>2, <1>6
<1>7. QED
  BY <1>5, <1>6

\* The loop over the requests of a buffer.
LEMMA RequestsFacts ==
  ASSUME NEW kind, NEW g, DrbgInv(g, kind), NEW source, NEW requests, Len(requests) \in Nat,
         NEW again \in BOOLEAN
  PROVE  LET r == FillRequests(g, source, requests, again) IN IsResult(r) /\ DrbgInv(r.g, kind)
<1> DEFINE n == Len(requests)
           base == [ok |-> TRUE, src |-> source, g |-> g, out |-> <<>>]
           Is(f, m) == f = [i \in 0 .. m |-> IF i = 0 THEN base
                                              ELSE Request(f[i - 1], requests[i], again)]
           after == CHOOSE f : Is(f, n)
           S == {m \in Nat : \E f : Is(f, m)}
           T == {m \in Nat : m <= n => IsResult(after[m]) /\ DrbgInv(after[m].g, kind)}
<1>1. FillRequests(g, source, requests, again) = after[n]
  BY DEF FillRequests, InOrder
<1>2. IsResult(base) /\ base.g = g
  BY DEF IsResult
<1> HIDE DEF base
<1>3. 0 \in S
  <2> DEFINE f == [i \in 0 .. 0 |-> base]
  <2>1. Is(f, 0)
    OBVIOUS
  <2> HIDE DEF f, Is
  <2>2. QED
    BY <2>1
<1>4. ASSUME NEW m \in Nat, m \in S
      PROVE  m + 1 \in S
  <2>1. PICK f : Is(f, m)
    BY <1>4
  <2> DEFINE h == [i \in 0 .. m + 1 |-> IF i <= m THEN f[i]
                                        ELSE Request(f[m], requests[m + 1], again)]
  <2>2. \A i \in 0 .. m : f[i] = IF i = 0 THEN base ELSE Request(f[i - 1], requests[i], again)
    BY <2>1
  <2>3. ASSUME NEW i \in 0 .. m + 1
        PROVE  h[i] = IF i = 0 THEN base ELSE Request(h[i - 1], requests[i], again)
    <3>1. CASE i <= m
      <4>1. i \in 0 .. m /\ (i # 0 => i - 1 \in 0 .. m + 1 /\ i - 1 <= m)
        BY <3>1
      <4>2. h[i] = f[i] /\ (i # 0 => h[i - 1] = f[i - 1])
        BY <3>1, <4>1
      <4> HIDE DEF h
      <4>3. QED
        BY <2>2, <4>1, <4>2
    <3>2. CASE ~(i <= m)
      <4>1. i = m + 1 /\ i # 0 /\ i - 1 = m /\ m \in 0 .. m + 1
        BY <3>2
      <4>2. h[i] = Request(f[m], requests[m + 1], again) /\ h[m] = f[m]
        BY <3>2, <4>1
      <4> HIDE DEF h
      <4>3. QED
        BY <4>1, <4>2
    <3>3. QED
      BY <3>1, <3>2
  <2>4. h = [i \in 0 .. m + 1 |-> h[i]]
    OBVIOUS
  <2> HIDE DEF h
  <2>5. Is(h, m + 1)
    BY <2>3, <2>4, Zenon
  <2> HIDE DEF Is
  <2>6. QED
    BY <2>5
<1>5. Nat \subseteq S
  <2> HIDE DEF S
  <2>1. QED
    BY <1>3, <1>4, Induction
<1>6. Is(after, n)
  <2>1. \E f : Is(f, n)
    BY <1>5
  <2> HIDE DEF Is
  <2>2. QED
    BY <2>1
<1> HIDE DEF after
<1>7. \A i \in 0 .. n : after[i] = IF i = 0 THEN base
                                   ELSE Request(after[i - 1], requests[i], again)
  BY <1>6
<1>8. 0 \in T
  <2>1. 0 \in 0 .. n
    OBVIOUS
  <2>2. after[0] = base
    BY <1>7, <2>1
  <2>3. QED
    BY <1>2, <2>2
<1>9. ASSUME NEW m \in Nat, m \in T
      PROVE  m + 1 \in T
  <2> SUFFICES ASSUME m + 1 <= n
               PROVE  IsResult(after[m + 1]) /\ DrbgInv(after[m + 1].g, kind)
    OBVIOUS
  <2>1. IsResult(after[m]) /\ DrbgInv(after[m].g, kind)
    BY <1>9
  <2>2. m + 1 \in 0 .. n /\ m + 1 # 0 /\ (m + 1) - 1 = m
    OBVIOUS
  <2>3. after[m + 1] = Request(after[m], requests[m + 1], again)
    BY <1>7, <2>2
  <2> DEFINE r == Request(after[m], requests[m + 1], again)
  <2>4. IsResult(r) /\ DrbgInv(r.g, kind)
    BY <2>1, RequestFacts
  <2> HIDE DEF r
  <2>5. after[m + 1] = r
    BY <2>3 DEF r
  <2>6. QED
    BY <2>4, <2>5
<1>10. Nat \subseteq T
  <2> HIDE DEF T
  <2>1. QED
    BY <1>8, <1>9, Induction
<1>11. IsResult(after[n]) /\ DrbgInv(after[n].g, kind)
  BY <1>10
<1>12. QED
  BY <1>1, <1>11

\* A buffer is split into finitely many requests.
LEMMA RequestsLen ==
  ASSUME NEW units \in Nat, NEW size \in Nat \ {0}
  PROVE  Len(Requests(units, size)) \in Nat
<1>1. CeilDiv(units, size) \in Nat
  BY DEF CeilDiv
<1>2. QED
  BY <1>1 DEF Requests

\* Generate of NistAesDrbg.
LEMMA GenerateFacts ==
  ASSUME NEW kind, NEW g, DrbgInv(g, kind), NEW source, NEW units \in Nat, NEW again \in BOOLEAN
  PROVE  LET r == NistGenerate(g, source, units, again) IN IsResult(r) /\ DrbgInv(r.g, kind)
<1> DEFINE requests == Requests(units, max_rand_request_)
           r == FillRequests(g, source, requests, again)
<1>1. Len(requests) \in Nat
  BY RequestsLen, DrbgAssumption
<1> HIDE DEF requests
<1>2. IsResult(r) /\ DrbgInv(r.g, kind)
  BY <1>1, RequestsFacts
<1>3. NistGenerate(g, source, units, again) = r
  BY DEF NistGenerate, requests
<1> HIDE DEF r
<1>4. QED
  BY <1>2, <1>3

\* FillRandomBytes.
LEMMA FillFacts ==
  ASSUME NEW kind, NEW g, DrbgInv(g, kind), NEW source, NEW units \in Nat
  PROVE  LET r == FillRandomBytes(g, source, units) IN IsResult(r) /\ DrbgInv(r.g, kind)
<1>1. PICK no \in BOOLEAN : ~no
  OBVIOUS
<1> DEFINE requests == Requests(units, BlockUnits)
           p == NistGenerate(g, source, units, no)
           q == FillRequests(g, source, requests, no)
<1>2. Len(requests) \in Nat
  BY RequestsLen, SymmetricAssumption
<1> HIDE DEF requests
<1>3. IsResult(q) /\ DrbgInv(q.g, kind)
  BY <1>2, RequestsFacts
<1>4. IsResult(p) /\ DrbgInv(p.g, kind)
  BY GenerateFacts
<1>5. FillRandomBytes(g, source, units) = IF g.kind = "nist" THEN p ELSE q
  BY <1>1 DEF FillRandomBytes, requests
<1> HIDE DEF p, q
<1>6. QED
  BY <1>3, <1>4, <1>5

\* HealthCheck.
LEMMA HealthFacts ==
  ASSUME NEW kind, NEW g, DrbgInv(g, kind), NEW source, NEW size \in Nat
  PROVE  LET r == [HealthCheck(g, source, size) EXCEPT !.out = <<>>] IN DrbgInv(r.g, kind)
<1> DEFINE random == FillRandomBytes(g, source, size)
           entropy == GetEntropy(random.src, 8 * size)
           healthy == IsInjective(random.out) /\ IsInjective(entropy.out)
           checked == [ok |-> entropy.ok, src |-> entropy.src, g |-> random.g,
                       out |-> random.out, healthy |-> healthy]
<1>1. IsResult(random) /\ DrbgInv(random.g, kind)
  BY FillFacts
<1>2. HealthCheck(g, source, size) = IF ~random.ok THEN random ELSE checked
  BY DEF HealthCheck
<1>3. [random EXCEPT !.out = <<>>].g = random.g
  <2> HIDE DEF random
  <2>1. QED
    BY <1>1 DEF IsResult
<1>4. [checked EXCEPT !.out = <<>>].g = random.g
  <2> HIDE DEF random, entropy, healthy
  <2>1. QED
    OBVIOUS
<1> HIDE DEF random, checked
<1>5. QED
  BY <1>1, <1>2, <1>3, <1>4

\* The fields that do not matter to the generator.
LEMMA ObjKept ==
  ASSUME NEW o, ObjInv(o), NEW x, NEW y
  PROVE  /\ ObjInv([o EXCEPT !.counter = x]) /\ ObjInv([o EXCEPT !.cache = x])
         /\ ObjInv([o EXCEPT !.num_consumed = x])
         /\ ObjInv([o EXCEPT !.seed = x, !.counter = y])
<1>1. ASSUME NEW p, IsObj(p), p.mode = o.mode, p.drbg = o.drbg PROVE ObjInv(p)
  BY <1>1 DEF ObjInv
<1>2. IsObj(o)
  BY DEF ObjInv
<1>3. ObjInv([o EXCEPT !.counter = x])
  <2> DEFINE p == [o EXCEPT !.counter = x]
  <2>1. IsObj(p) /\ p.mode = o.mode /\ p.drbg = o.drbg
    BY <1>2 DEF IsObj
  <2> HIDE DEF p
  <2>2. ObjInv(p)
    BY <1>1, <2>1
  <2>3. QED
    BY <2>2 DEF p
<1>4. ObjInv([o EXCEPT !.cache = x])
  <2> DEFINE p == [o EXCEPT !.cache = x]
  <2>1. IsObj(p) /\ p.mode = o.mode /\ p.drbg = o.drbg
    BY <1>2 DEF IsObj
  <2> HIDE DEF p
  <2>2. ObjInv(p)
    BY <1>1, <2>1
  <2>3. QED
    BY <2>2 DEF p
<1>5. ObjInv([o EXCEPT !.num_consumed = x])
  <2> DEFINE p == [o EXCEPT !.num_consumed = x]
  <2>1. IsObj(p) /\ p.mode = o.mode /\ p.drbg = o.drbg
    BY <1>2 DEF IsObj
  <2> HIDE DEF p
  <2>2. ObjInv(p)
    BY <1>1, <2>1
  <2>3. QED
    BY <2>2 DEF p
<1>6. ObjInv([o EXCEPT !.seed = x, !.counter = y])
  <2> DEFINE p == [o EXCEPT !.seed = x, !.counter = y]
  <2>1. IsObj(p) /\ p.mode = o.mode /\ p.drbg = o.drbg
    BY <1>2 DEF IsObj
  <2> HIDE DEF p
  <2>2. ObjInv(p)
    BY <1>1, <2>1
  <2>3. QED
    BY <2>2 DEF p
<1>7. QED
  BY <1>3, <1>4, <1>5, <1>6

\* A generator that went on stays in its object.
LEMMA ObjDrbg ==
  ASSUME NEW o, ObjInv(o), NEW d,
         o.mode \notin CounterModes => DrbgInv(d, KindOf(o.mode))
  PROVE  ObjInv([o EXCEPT !.drbg = d])
<1> DEFINE p == [o EXCEPT !.drbg = d]
<1>1. IsObj(p) /\ p.mode = o.mode /\ p.drbg = d
  BY DEF ObjInv, IsObj
<1> HIDE DEF p
<1>2. ObjInv(p)
  BY <1>1 DEF ObjInv
<1>3. QED
  BY <1>2 DEF p

IsProduct(r) == r = [f \in {"ok", "src", "o", "out"} |-> r[f]]

\* What Fill and GenerateBudgets do to an object.
LEMMA ProduceFacts ==
  ASSUME NEW o, ObjInv(o), NEW units \in Nat
  PROVE  LET r == Produce(o, units) IN IsProduct(r) /\ ObjInv(r.o)
<1> DEFINE r == Produce(o, units)
<1>1. CASE o.mode \in CounterModes
  <2> DEFINE count == o.counter % 2^CounterBits
             p == [o EXCEPT !.counter = NextCount(count, units) % 2^CounterBits]
             out == FillPseudoRandom("ECB", <<o.mode, o.seed>>, {}, count, units)
  <2>1. r = [ok |-> TRUE, src |-> src, o |-> p, out |-> out]
    BY <1>1 DEF Produce
  <2>2. ObjInv(p)
    <3> DEFINE x == NextCount(count, units) % 2^CounterBits
    <3> HIDE DEF x
    <3>1. ObjInv([o EXCEPT !.counter = x])
      BY ObjKept
    <3>2. QED
      BY <3>1 DEF x
  <2> HIDE DEF p, out, r
  <2>3. IsProduct(r) /\ r.o = p
    BY <2>1 DEF IsProduct
  <2>4. QED
    BY <2>2, <2>3 DEF r
<1>2. CASE o.mode \notin CounterModes
  <2> DEFINE d == FillRandomBytes(o.drbg, src, units)
             p == [o EXCEPT !.drbg = d.g]
  <2>1. r = [ok |-> d.ok, src |-> d.src, o |-> p, out |-> d.out]
    BY <1>2 DEF Produce, DrbgResult
  <2>2. DrbgInv(o.drbg, KindOf(o.mode))
    BY <1>2 DEF ObjInv
  <2>3. DrbgInv(d.g, KindOf(o.mode))
    BY <2>2, FillFacts
  <2> HIDE DEF d
  <2>4. ObjInv(p)
    BY <2>3, ObjDrbg
  <2> HIDE DEF p, r
  <2>5. IsProduct(r) /\ r.o = p
    BY <2>1 DEF IsProduct
  <2>6. QED
    BY <2>4, <2>5 DEF r
<1>3. QED
  BY <1>1, <1>2

\* A cache that is filled again.
LEMMA RefillFacts ==
  ASSUME NEW o, ObjInv(o)
  PROVE  LET r == Refill(o) IN IsProduct(r) /\ ObjInv(r.o)
<1> DEFINE p == Produce(o, BATCH_SIZE)
           cache == p.out \o SubSeq(p.o.cache, Len(p.out) + 1, BATCH_SIZE)
           oc == [p.o EXCEPT !.cache = cache]
           c == [p EXCEPT !.o = oc]
           on == [c.o EXCEPT !.num_consumed = 0]
           n == [c EXCEPT !.o = on]
<1>1. IsProduct(p) /\ ObjInv(p.o)
  BY PrgAssumption, ProduceFacts
<1>2. Refill(o) = IF c.ok THEN n ELSE c
  BY DEF Refill, GenerateBudgets, Cached, Unread
<1> HIDE DEF p, cache
<1>3. ObjInv(oc)
  BY <1>1, ObjKept
<1> HIDE DEF oc
<1>4. IsProduct(c) /\ c.o = oc
  BY <1>1 DEF IsProduct
<1> HIDE DEF c
<1>5. ObjInv(on)
  BY <1>3, <1>4, ObjKept
<1> HIDE DEF on
<1>6. IsProduct(n) /\ n.o = on
  BY <1>4 DEF IsProduct
<1> HIDE DEF n
<1>7. QED
  BY <1>2, <1>3, <1>4, <1>5, <1>6

\* An object changes.
LEMMA ObjStep ==
  ASSUME GeneratorInv, NEW g \in Gens, NEW o, obj' = [obj EXCEPT ![g] = o],
         o # <<>> => ObjInv(o)
  PROVE  GeneratorInv'
<1>1. obj' = [x \in Gens |-> obj'[x]] /\ obj'[g] = o /\ \A x \in Gens \ {g} : obj'[x] = obj[x]
  BY DEF GeneratorInv
<1>2. QED
  BY <1>1 DEF GeneratorInv

\* A call ends.
LEMMA FinishStep ==
  ASSUME GeneratorInv, NEW g \in Gens, NEW r, NEW out, Finish(g, r, out), ObjInv(r.o)
  PROVE  GeneratorInv'
<1>1. PICK o : o = r.o
  OBVIOUS
<1>2. QED
  BY <1>1, ObjStep DEF Finish

\* A generator used on its own went on.
LEMMA WithDrbgStep ==
  ASSUME GeneratorInv, NEW g \in Gens, obj[g] # <<>>, NEW r, WithDrbg(g, r),
         DrbgInv(r.g, KindOf(Mode(g)))
  PROVE  GeneratorInv'
<1> DEFINE p == [obj[g] EXCEPT !.drbg = r.g]
           s == [ok |-> r.ok, src |-> r.src, o |-> p]
<1>1. PICK o : o = obj[g]
  OBVIOUS
<1>2. ObjInv(o)
  BY <1>1 DEF GeneratorInv
<1>3. PICK q : q = [o EXCEPT !.drbg = r.g]
  OBVIOUS
<1>4. ObjInv(q)
  <2>1. DrbgInv(r.g, KindOf(o.mode))
    BY <1>1 DEF Mode
  <2>2. QED
    BY <1>2, <1>3, <2>1, ObjDrbg
<1>5. obj' = [obj EXCEPT ![g] = q]
  BY <1>1, <1>3 DEF WithDrbg, Finish
<1>6. QED
  BY <1>4, <1>5, ObjStep

\* The constructors.
LEMMA ConstructStep ==
  ASSUME GeneratorInv, NEW g \in Gens, Construct(g)
  PROVE  GeneratorInv'
<1>1. PICK mode \in CounterModes \cup DrbgModes \cup Alone, seed \in Seeds, strength \in Strengths :
       LET r == CASE mode \in CounterModes -> [ok |-> TRUE, src |-> src, g |-> <<>>]
                  [] mode \in {"kNistAesCtrDrbg", "NistAesDrbg"} ->
                       NistInstantiate(src, strength, Personal(seed))
                  [] OTHER -> Sm4Instantiate(src, Personal(seed))
       IN  obj' = [obj EXCEPT ![g] =
                IF r.ok THEN [mode |-> mode, seed |-> seed, counter |-> 0, drbg |-> r.g,
                              num_consumed |-> BATCH_SIZE,
                              cache |-> [i \in 1 .. BATCH_SIZE |-> <<"initial", 0>>]]
                ELSE <<>>]
  BY DEF Construct
<1>2. strength \in {128, 192, 256}
  BY PrgAssumption
<1>3. PICK r : r = CASE mode \in CounterModes -> [ok |-> TRUE, src |-> src, g |-> <<>>]
                     [] mode \in {"kNistAesCtrDrbg", "NistAesDrbg"} ->
                          NistInstantiate(src, strength, Personal(seed))
                     [] OTHER -> Sm4Instantiate(src, Personal(seed))
  OBVIOUS
<1> DEFINE o == [mode |-> mode, seed |-> seed, counter |-> 0, drbg |-> r.g,
                 num_consumed |-> BATCH_SIZE,
                 cache |-> [i \in 1 .. BATCH_SIZE |-> <<"initial", 0>>]]
<1>4. obj' = [obj EXCEPT ![g] = IF r.ok THEN o ELSE <<>>]
  BY <1>1, <1>3, Zenon
<1>5. IsObj(o) /\ o.mode = mode /\ o.drbg = r.g
  BY DEF IsObj
<1> HIDE DEF o
<1>6. ASSUME mode \notin CounterModes, r.ok PROVE DrbgInv(r.g, KindOf(mode))
  <2>1. CASE mode \in {"kNistAesCtrDrbg", "NistAesDrbg"}
    <3>1. r = NistInstantiate(src, strength, Personal(seed))
      BY <1>3, <1>6, <2>1
    <3>2. NistInstantiate(src, strength, Personal(seed)).ok =>
            NistInv(NistInstantiate(src, strength, Personal(seed)).g)
      BY <1>2, NistNew
    <3>3. QED
      BY <1>6, <2>1, <3>1, <3>2 DEF DrbgInv, KindOf
  <2>2. CASE mode \notin {"kNistAesCtrDrbg", "NistAesDrbg"}
    <3>1. r = Sm4Instantiate(src, Personal(seed))
      BY <1>3, <1>6, <2>2
    <3>2. Sm4Instantiate(src, Personal(seed)).ok => Sm4Inv(Sm4Instantiate(src, Personal(seed)).g)
      BY Sm4New
    <3>3. QED
      BY <1>6, <2>2, <3>1, <3>2 DEF DrbgInv, KindOf
  <2>3. QED
    BY <2>1, <2>2
<1>7. CASE r.ok
  <2>1. ObjInv(o)
    BY <1>5, <1>6, <1>7 DEF ObjInv
  <2>2. obj' = [obj EXCEPT ![g] = o]
    BY <1>4, <1>7
  <2>3. QED
    BY <2>1, <2>2, ObjStep
<1>8. CASE ~r.ok
  <2>1. obj' = [obj EXCEPT ![g] = <<>>]
    BY <1>4, <1>8
  <2>2. QED
    BY <2>1, ObjStep
<1>9. QED
  BY <1>7, <1>8

\* The steps of the generators.
LEMMA GeneratorStep == GeneratorInv /\ Next => GeneratorInv'
<1> SUFFICES ASSUME GeneratorInv, NEW g \in Gens,
                    \/ Construct(g) \/ Call(g) \/ Fill(g) \/ SetSeed(g) \/ SetStatus(g)
                    \/ Generate(g) \/ CheckHealth(g) \/ Destroy(g)
             PROVE  GeneratorInv'
  BY DEF Next
<1>1. CASE Construct(g)
  BY <1>1, ConstructStep
<1>2. PICK o : o = obj[g]
  OBVIOUS
<1>3. o # <<>> => ObjInv(o)
  BY <1>2 DEF GeneratorInv
<1>4. CASE Call(g)
  <2>1. ObjInv(o) /\ o # <<>>
    BY <1>2, <1>3, <1>4 DEF Call, IsPrg
  <2>2. PICK r : r = IF o.num_consumed = BATCH_SIZE THEN Refill(o)
                     ELSE [ok |-> TRUE, src |-> src, o |-> o, out |-> <<>>]
    OBVIOUS
  <2>3. IsProduct(r) /\ ObjInv(r.o)
    <3>1. CASE o.num_consumed = BATCH_SIZE
      <4> DEFINE f == Refill(o)
      <4>1. IsProduct(f) /\ ObjInv(f.o)
        BY <2>1, RefillFacts
      <4> HIDE DEF f
      <4>2. r = f
        BY <2>2, <3>1 DEF f
      <4>3. QED
        BY <4>1, <4>2
    <3>2. CASE o.num_consumed # BATCH_SIZE
      <4>1. r = [ok |-> TRUE, src |-> src, o |-> o, out |-> <<>>]
        BY <2>2, <3>2
      <4>2. IsProduct(r) /\ r.o = o
        BY <4>1 DEF IsProduct
      <4>3. QED
        BY <2>1, <4>2
    <3>3. QED
      BY <3>1, <3>2
  <2>4. Consume(g, r)
    BY <1>2, <1>4, <2>2 DEF Call
  <2> DEFINE x == IF r.ok THEN r.o.num_consumed + 1 ELSE r.o.num_consumed
             p == [r.o EXCEPT !.num_consumed = x]
             s == [r EXCEPT !.o = p]
  <2>5. Finish(g, s, <<r.o.cache[r.o.num_consumed + 1]>>)
    BY <2>4 DEF Consume
  <2> HIDE DEF x
  <2>6. ObjInv(p)
    BY <2>3, ObjKept
  <2> HIDE DEF p
  <2>7. s.o = p
    BY <2>3 DEF IsProduct
  <2> HIDE DEF s
  <2>8. QED
    BY <2>5, <2>6, <2>7, FinishStep
<1>5. CASE Fill(g)
  <2>1. ObjInv(o)
    BY <1>2, <1>3, <1>5 DEF Fill, IsPrg
  <2>2. PICK units \in FillUnits : \E r \in {Produce(obj[g], units)} : Finish(g, r, r.out)
    BY <1>5 DEF Fill
  <2>3. PICK r : r = Produce(o, units) /\ Finish(g, r, r.out)
    BY <1>2, <2>2
  <2>4. units \in Nat
    BY PrgAssumption
  <2> DEFINE p == Produce(o, units)
  <2>5. IsProduct(p) /\ ObjInv(p.o)
    BY <2>1, <2>4, ProduceFacts
  <2> HIDE DEF p
  <2>6. r = p
    BY <2>3 DEF p
  <2>7. QED
    BY <2>3, <2>5, <2>6, FinishStep
<1>6. ASSUME NEW seed, NEW counter, SetState(g, seed, counter) PROVE GeneratorInv'
  <2>1. ObjInv(o)
    BY <1>2, <1>3, <1>6 DEF SetState, IsPrg
  <2>2. PICK p : p = [o EXCEPT !.seed = seed, !.counter = counter]
    OBVIOUS
  <2>3. ObjInv(p)
    BY <2>1, <2>2, ObjKept
  <2>4. obj' = [obj EXCEPT ![g] = p]
    BY <1>2, <1>6, <2>2 DEF SetState, GeneratorInv
  <2>5. QED
    BY <2>3, <2>4, ObjStep
<1>7. CASE SetSeed(g)
  BY <1>6, <1>7 DEF SetSeed
<1>8. CASE SetStatus(g)
  BY <1>6, <1>8 DEF SetStatus
<1>9. ASSUME obj[g] # <<>>, Mode(g) \in Alone PROVE DrbgInv(o.drbg, KindOf(Mode(g)))
  <2>1. ObjInv(o) /\ o.mode = Mode(g) /\ o.mode \notin CounterModes
    BY <1>2, <1>3, <1>9 DEF Alone, Mode, CounterModes
  <2>2. QED
    BY <2>1 DEF ObjInv
<1>10. CASE Generate(g)
  <2>1. obj[g] # <<>> /\ DrbgInv(o.drbg, KindOf(Mode(g)))
    BY <1>9, <1>10 DEF Generate
  <2>2. ASSUME NEW input, Mode(g) = "Sm4Drbg",
               WithDrbg(g, Sm4Generate(obj[g].drbg, src, BlockUnits, input))
        PROVE  GeneratorInv'
    <3> DEFINE s == Sm4Generate(o.drbg, src, BlockUnits, input)
    <3>1. KindOf(Mode(g)) = "sm4"
      BY <2>2 DEF KindOf
    <3>2. Sm4Inv(o.drbg)
      BY <2>1, <3>1 DEF DrbgInv
    <3>3. Sm4Inv(s.g)
      BY <3>2, Sm4Answers
    <3>4. PICK r : r = s
      OBVIOUS
    <3>5. WithDrbg(g, r)
      BY <1>2, <2>2, <3>4
    <3> HIDE DEF s
    <3>6. DrbgInv(r.g, KindOf(Mode(g)))
      BY <3>1, <3>3, <3>4 DEF DrbgInv
    <3>7. QED
      BY <2>1, <3>5, <3>6, WithDrbgStep
  <2>3. ASSUME NEW units \in FillUnits, NEW again \in BOOLEAN,
               WithDrbg(g, NistGenerate(obj[g].drbg, src, units, again))
        PROVE  GeneratorInv'
    <3> DEFINE s == NistGenerate(o.drbg, src, units, again)
    <3>1. units \in Nat
      BY PrgAssumption
    <3>2. IsResult(s) /\ DrbgInv(s.g, KindOf(Mode(g)))
      BY <2>1, <3>1, GenerateFacts
    <3>3. PICK r : r = s
      OBVIOUS
    <3>4. WithDrbg(g, r)
      BY <1>2, <2>3, <3>3
    <3> HIDE DEF s
    <3>5. DrbgInv(r.g, KindOf(Mode(g)))
      BY <3>2, <3>3
    <3>6. QED
      BY <2>1, <3>4, <3>5, WithDrbgStep
  <2>4. QED
    BY <1>10, <2>2, <2>3 DEF Generate
<1>11. CASE CheckHealth(g)
  <2>1. obj[g] # <<>> /\ DrbgInv(o.drbg, KindOf(Mode(g)))
    BY <1>9, <1>11 DEF CheckHealth, Alone
  <2> DEFINE s == [HealthCheck(o.drbg, src, HealthSize) EXCEPT !.out = <<>>]
  <2>2. DrbgInv(s.g, KindOf(Mode(g)))
    BY <2>1, PrgAssumption, HealthFacts
  <2>3. WithDrbg(g, s)
    BY <1>2, <1>11 DEF CheckHealth
  <2>4. PICK r : r = s
    OBVIOUS
  <2> HIDE DEF s
  <2>5. QED
    BY <2>1, <2>2, <2>3, <2>4, WithDrbgStep
<1>12. CASE Destroy(g)
  BY <1>12, ObjStep DEF Destroy
<1>13. QED
  BY <1>1, <1>4, <1>5, <1>7, <1>8, <1>10, <1>11, <1>12

\* What the invariant says of the seeds.
LEMMA SeedsFromInv == GeneratorInv => SeedsSound
<1> SUFFICES ASSUME GeneratorInv, NEW g \in Gens, HasDrbg(g)
             PROVE  LET d == obj[g].drbg
                    IN  /\ d.uses <= IF d.kind = "sm4" THEN reseed_interval_ ELSE kReseedInterval
                        /\ d.kind = "nist" =>
                             /\ d.entropyCopied <= 48 /\ d.nonceCopied <= 16
                             /\ 8 * d.entropyCopied >= d.strength
                             /\ 16 * d.nonceCopied >= d.strength
  BY DEF SeedsSound, SeedsAreFresh, SeedFits
<1>1. PICK d : d = obj[g].drbg
  OBVIOUS
<1>2. Sm4Inv(d) \/ NistInv(d)
  BY <1>1 DEF GeneratorInv, HasDrbg, Mode, ObjInv, DrbgInv
<1>3. CASE Sm4Inv(d)
  BY <1>1, <1>3, DrbgAssumption DEF Sm4Inv
<1>4. CASE NistInv(d)
  <2>1. /\ d.kind = "nist" /\ d.strength \in {128, 192, 256} /\ d.uses \in 0 .. kReseedInterval
        /\ d.entropyCopied = d.strength \div 8 + 16 /\ d.nonceCopied = d.strength \div 16
    BY <1>4, CopiedBytes DEF NistInv
  <2>2. QED
    BY <1>1, <2>1, DrbgAssumption, CopiedBytes
<1>5. QED
  BY <1>2, <1>3, <1>4

-----------------------------------------------------------------------------
(* Counter mode.                                                           *)

CtrContext(key, iv, ctr) == [type |-> "CTR", key |-> key, iv |-> iv, ctr |-> ctr]
KeyStream(key, iv, i) == EncBlock(key, {<<"ctr", iv, i - 1>>})

\* One block in counter mode.
LEMMA CtrBlock ==
  ASSUME NEW key, NEW iv, NEW i \in Nat, NEW block, NEW enc
  PROVE  UpdateBlock(CtrContext(key, iv, i), block, enc) =
           [ctx |-> CtrContext(key, iv, i + 1),
            out |-> XorBlock(block, KeyStream(key, iv, i + 1))]
<1>1. (i + 1) - 1 = i
  OBVIOUS
<1>2. KeyStream(key, iv, i + 1) = EncBlock(key, {<<"ctr", iv, i>>})
  BY <1>1 DEF KeyStream
<1>3. [CtrContext(key, iv, i) EXCEPT !.ctr = @ + 1] = CtrContext(key, iv, i + 1)
  BY DEF CtrContext
<1> DEFINE c == CtrContext(key, iv, i)
<1>4. c.type = "CTR" /\ c.key = key /\ c.iv = iv /\ c.ctr = i
  BY DEF CtrContext
<1> HIDE DEF c
<1>5. UpdateBlock(c, block, enc) =
        [ctx |-> [c EXCEPT !.ctr = @ + 1],
         out |-> XorBlock(block, EncBlock(c.key, {<<"ctr", c.iv, c.ctr>>}))]
  BY <1>4 DEF UpdateBlock
<1>6. UpdateBlock(c, block, enc) =
        [ctx |-> [c EXCEPT !.ctr = @ + 1],
         out |-> XorBlock(block, KeyStream(key, iv, i + 1))]
  BY <1>2, <1>4, <1>5
<1>7. [c EXCEPT !.ctr = @ + 1] = CtrContext(key, iv, i + 1)
  BY <1>3 DEF c
<1>8. UpdateBlock(c, block, enc) = [ctx |-> CtrContext(key, iv, i + 1),
                                    out |-> XorBlock(block, KeyStream(key, iv, i + 1))]
  BY <1>6, <1>7
<1>9. QED
  BY <1>8 DEF c

\* The blocks are what the places after from up to to of the output are made of.
CtrPart(key, iv, out, blocks, from, to) ==
  /\ Len(blocks) = to - from
  /\ \A j \in 1 .. to - from : out[from + j] = XorBlock(blocks[j], KeyStream(key, iv, from + j))

\* What encrypting or decrypting them after the first ones returns.
CtrMakes(key, iv, enc, out, blocks, from, to) ==
  EVP_CipherUpdate(CtrContext(key, iv, from), blocks, enc) =
    [ctx |-> CtrContext(key, iv, to), out |-> SubSeq(out, from + 1, to)]

\* A batch makes the next part of the output.
LEMMA CtrBatch ==
  ASSUME NEW key, NEW iv, NEW enc, NEW S, NEW out, NEW from, NEW to, NEW blocks,
         out \in Seq(S), from \in 0 .. Len(out), to \in from .. Len(out),
         CtrPart(key, iv, out, blocks, from, to)
  PROVE  CtrMakes(key, iv, enc, out, blocks, from, to)
<1> DEFINE n == to - from
           base == [ctx |-> CtrContext(key, iv, from), out |-> <<>>]
           Then(acc, i) == [ctx |-> UpdateBlock(acc.ctx, blocks[i], enc).ctx,
                            out |-> Append(acc.out, UpdateBlock(acc.ctx, blocks[i], enc).out)]
           Is(f) == f = [i \in 0 .. n |-> IF i = 0 THEN base ELSE Then(f[i - 1], i)]
           after == CHOOSE f : Is(f)
           F == [i \in 0 .. n |-> [ctx |-> CtrContext(key, iv, from + i),
                                   out |-> SubSeq(out, from + 1, from + i)]]
           T == {i \in Nat : i <= n => after[i] = F[i]}
<1>0. n \in Nat /\ from \in Nat /\ Len(out) \in Nat /\ Len(blocks) = n
  BY DEF CtrPart
<1>1. EVP_CipherUpdate(CtrContext(key, iv, from), blocks, enc) = after[n]
  <2>1. Len(blocks) = n
    BY <1>0
  <2> HIDE DEF n
  <2>2. QED
    BY <2>1 DEF EVP_CipherUpdate
<1>2. F[0] = base
  <2>1. SubSeq(out, from + 1, from) = <<>>
    BY <1>0, SubSeqEmpty
  <2>2. 0 \in 0 .. n /\ from + 0 = from
    BY <1>0
  <2>3. QED
    BY <2>1, <2>2
<1>3. ASSUME NEW i \in 1 .. n PROVE F[i] = Then(F[i - 1], i)
  <2>1. /\ i - 1 \in 0 .. n /\ i \in 0 .. n /\ from + (i - 1) \in Nat
        /\ (from + (i - 1)) + 1 = from + i
        /\ from + 1 \in 1 .. Len(out) /\ from + i \in from + 1 .. Len(out)
        /\ (from + i) - 1 = from + (i - 1)
    BY <1>0
  <2> DEFINE a == [ctx |-> CtrContext(key, iv, from + (i - 1)),
                   out |-> SubSeq(out, from + 1, from + (i - 1))]
  <2>2. F[i - 1] = a
    BY <2>1
  <2>3. UpdateBlock(a.ctx, blocks[i], enc) =
          [ctx |-> CtrContext(key, iv, from + i),
           out |-> XorBlock(blocks[i], KeyStream(key, iv, from + i))]
    <3>1. UpdateBlock(CtrContext(key, iv, from + (i - 1)), blocks[i], enc) =
            [ctx |-> CtrContext(key, iv, (from + (i - 1)) + 1),
             out |-> XorBlock(blocks[i], KeyStream(key, iv, (from + (i - 1)) + 1))]
      BY <2>1, CtrBlock
    <3>2. QED
      BY <2>1, <3>1
  <2>4. out[from + i] = XorBlock(blocks[i], KeyStream(key, iv, from + i))
    BY DEF CtrPart
  <2>5. SubSeq(out, from + 1, from + i) =
          SubSeq(out, from + 1, from + (i - 1)) \o <<out[from + i]>>
    BY <2>1, SubSeqRecursiveSecond
  <2>6. SubSeq(out, from + 1, from + (i - 1)) \in Seq(S) /\ out[from + i] \in S
    <3>1. \A j \in from + 1 .. from + (i - 1) : out[j] \in S
      BY <1>0, <2>1, ElementOfSeq
    <3>2. from + i \in 1 .. Len(out)
      BY <1>0, <2>1
    <3>3. QED
      BY <1>0, <2>1, <3>1, <3>2, SubSeqProperties, ElementOfSeq
  <2>7. SubSeq(out, from + 1, from + i) = Append(a.out, out[from + i])
    BY <2>5, <2>6, AppendIsConcat
  <2>8. F[i] = [ctx |-> CtrContext(key, iv, from + i), out |-> SubSeq(out, from + 1, from + i)]
    BY <2>1
  <2> HIDE DEF a, F
  <2>9. Then(a, i) = [ctx |-> CtrContext(key, iv, from + i), out |-> Append(a.out, out[from + i])]
    BY <2>3, <2>4
  <2> HIDE DEF Then
  <2>10. QED
    BY <2>2, <2>7, <2>8, <2>9
<1> HIDE DEF base, Then
<1>4. \E f : Is(f)
  <2>1. \A i \in 0 .. n : F[i] = IF i = 0 THEN base ELSE Then(F[i - 1], i)
    <3> HIDE DEF F
    <3>1. \A i \in 0 .. n : i # 0 => i \in 1 .. n
      BY <1>0
    <3>2. QED
      BY <1>2, <1>3, <3>1
  <2>2. F = [i \in 0 .. n |-> F[i]]
    OBVIOUS
  <2> HIDE DEF F
  <2>3. Is(F)
    BY <2>1, <2>2, Zenon
  <2> HIDE DEF Is
  <2>4. QED
    BY <2>3
<1>5. Is(after)
  <2> HIDE DEF Is
  <2>1. QED
    BY <1>4
<1>6. F[n] = [ctx |-> CtrContext(key, iv, to), out |-> SubSeq(out, from + 1, to)]
  <2>1. n \in 0 .. n /\ from + n = to
    BY <1>0
  <2>2. QED
    BY <2>1
<1> HIDE DEF after, F
<1>7. \A i \in 0 .. n : after[i] = IF i = 0 THEN base ELSE Then(after[i - 1], i)
  BY <1>5
<1> HIDE DEF Is, n
<1>8. 0 \in T
  <2>1. 0 \in 0 .. n
    BY <1>0
  <2>2. after[0] = F[0]
    BY <1>2, <1>7, <2>1
  <2>3. QED
    BY <2>2
<1>9. ASSUME NEW i \in Nat, i \in T PROVE i + 1 \in T
  <2> SUFFICES ASSUME i + 1 <= n PROVE after[i + 1] = F[i + 1]
    OBVIOUS
  <2>1. after[i] = F[i]
    BY <1>0, <1>9
  <2>2. PICK k \in 1 .. n : k = i + 1 /\ k - 1 = i /\ k # 0 /\ k \in 0 .. n
    BY <1>0
  <2>3. after[k] = Then(after[k - 1], k) /\ F[k] = Then(F[k - 1], k)
    BY <1>3, <1>7, <2>2
  <2>4. QED
    BY <2>1, <2>2, <2>3
<1>10. Nat \subseteq T
  <2> HIDE DEF T
  <2>1. QED
    BY <1>8, <1>9, Induction
<1>11. after[n] = F[n]
  BY <1>0, <1>10
<1>12. QED
  BY <1>1, <1>6, <1>11 DEF CtrMakes

\* The number of batches.
LEMMA BatchFacts ==
  ASSUME NEW len \in Nat
  PROVE  LET n == (len + BatchBlocks - 1) \div BatchBlocks
         IN  /\ n \in Nat /\ len <= n * BatchBlocks
             /\ \A i \in 1 .. n : (i - 1) * BatchBlocks < len
<1>1. BatchBlocks \in Nat \ {0}
  BY SymmetricAssumption
<1>2. QED
  BY <1>1, SMTT(30)

\* Counter mode, whatever the size of a batch: every block with its key stream.
LEMMA CtrIs ==
  ASSUME NEW key, NEW iv, NEW enc, NEW blocks, Len(blocks) \in Nat
  PROVE  CryptLoop("CTR", key, iv, blocks, enc) =
           [i \in 1 .. Len(blocks) |-> XorBlock(blocks[i], KeyStream(key, iv, i))]
<1> DEFINE len == Len(blocks)
           O == [i \in 1 .. len |-> XorBlock(blocks[i], KeyStream(key, iv, i))]
           S == {O[i] : i \in 1 .. len}
           B == BatchBlocks
           n == (len + B - 1) \div B
           Lim(i) == IF i * B <= len THEN i * B ELSE len
           base == [ctx |-> CreateEVPCipherCtx("CTR", key, iv), out |-> <<>>]
           Then(acc, i) == [ctx |-> EVP_CipherUpdate(acc.ctx, Batch(blocks, i - 1), enc).ctx,
                            out |-> acc.out \o EVP_CipherUpdate(acc.ctx, Batch(blocks, i - 1), enc).out]
           Is(f) == f = [i \in 0 .. n |-> IF i = 0 THEN base ELSE Then(f[i - 1], i)]
           after == CHOOSE f : Is(f)
           F == [i \in 0 .. n |-> [ctx |-> CtrContext(key, iv, Lim(i)),
                                   out |-> SubSeq(O, 1, Lim(i))]]
           T == {i \in Nat : i <= n => after[i] = F[i]}
<1>0. /\ B \in Nat \ {0} /\ n \in Nat /\ len <= n * B
      /\ \A i \in 1 .. n : (i - 1) * B < len
  BY BatchFacts, SymmetricAssumption
<1>1. CryptLoop("CTR", key, iv, blocks, enc) = after[n].out
  BY DEF CryptLoop
<1>2. /\ O \in Seq(S) /\ Len(O) = len
      /\ \A i \in 1 .. len : O[i] = XorBlock(blocks[i], KeyStream(key, iv, i))
  <2>1. \A i \in 1 .. len : O[i] = XorBlock(blocks[i], KeyStream(key, iv, i))
    OBVIOUS
  <2>2. O \in [1 .. len -> S]
    OBVIOUS
  <2> HIDE DEF O, S, len
  <2>3. len \in Nat
    BY DEF len
  <2>4. QED
    BY <2>1, <2>2, <2>3
<1> HIDE DEF O, S
<1>3. /\ Lim(0) = 0 /\ Lim(n) = len
      /\ \A i \in 1 .. n : /\ i - 1 \in 0 .. n /\ i \in 0 .. n /\ Lim(i - 1) = (i - 1) * B
                           /\ Lim(i - 1) \in 0 .. len /\ Lim(i) \in Lim(i - 1) .. len
                           /\ Lim(i) \in 1 .. len
                           /\ Min({i * B, len}) = Lim(i)
  <2>1. 0 * B = 0
    BY <1>0
  <2>2. Lim(0) = 0 /\ Lim(n) = len
    BY <1>0, <2>1
  <2>3. ASSUME NEW i \in 1 .. n
        PROVE  /\ i - 1 \in 0 .. n /\ i \in 0 .. n /\ Lim(i - 1) = (i - 1) * B
               /\ Lim(i - 1) \in 0 .. len /\ Lim(i) \in Lim(i - 1) .. len
               /\ Lim(i) \in 1 .. len
               /\ Min({i * B, len}) = Lim(i)
    <3>1. PICK p \in Nat : p = (i - 1) * B
      BY <1>0
    <3>2. i * B = p + B /\ p < len
      BY <1>0, <3>1
    <3>3. PICK q \in Nat : q = i * B
      BY <1>0, <3>2
    <3>4. Min({q, len}) = IF q <= len THEN q ELSE len
      BY MinOf
    <3>5. QED
      BY <1>0, <3>1, <3>2, <3>3, <3>4
  <2>4. QED
    BY <2>2, <2>3
<1>4. F[0] = base
  <2>1. SubSeq(O, 1, 0) = <<>>
    BY SubSeqEmpty
  <2>2. 0 \in 0 .. n
    BY <1>0
  <2>3. CreateEVPCipherCtx("CTR", key, iv) = CtrContext(key, iv, 0)
    BY DEF CreateEVPCipherCtx, CtrContext
  <2> HIDE DEF Lim
  <2>4. QED
    BY <1>3, <2>1, <2>2, <2>3
<1>5. ASSUME NEW i \in 1 .. n PROVE F[i] = Then(F[i - 1], i)
  <2> DEFINE from == Lim(i - 1)
             to == Lim(i)
             batch == Batch(blocks, i - 1)
             a == [ctx |-> CtrContext(key, iv, from), out |-> SubSeq(O, 1, from)]
             u == EVP_CipherUpdate(a.ctx, batch, enc)
  <2>1. /\ i - 1 \in 0 .. n /\ i \in 0 .. n /\ from = (i - 1) * B
        /\ from \in 0 .. len /\ to \in from .. len /\ to \in 1 .. len
    BY <1>3
  <2>2. batch = SubSeq(blocks, from + 1, to)
    <3>1. (i - 1) + 1 = i
      OBVIOUS
    <3>2. Min({((i - 1) + 1) * B, len}) = to
      BY <1>3, <3>1
    <3> HIDE DEF from, to
    <3>3. QED
      BY <2>1, <3>2 DEF Batch
  <2>3. F[i - 1] = a /\ F[i] = [ctx |-> CtrContext(key, iv, to), out |-> SubSeq(O, 1, to)]
    <3> HIDE DEF Lim
    <3>1. QED
      BY <2>1
  <2> HIDE DEF from, to
  <2>4. Len(batch) = to - from /\ \A j \in 1 .. to - from : batch[j] = blocks[from + j]
    <3> DEFINE R == {blocks[j] : j \in from + 1 .. to}
    <3>1. \A j \in from + 1 .. to : blocks[j] \in R
      OBVIOUS
    <3> HIDE DEF R
    <3>2. from + 1 \in Int /\ to \in Int /\ to - (from + 1) + 1 = to - from
      BY <2>1
    <3>3. /\ Len(SubSeq(blocks, from + 1, to)) = IF from + 1 <= to THEN to - (from + 1) + 1 ELSE 0
          /\ \A j \in 1 .. to - (from + 1) + 1 :
               SubSeq(blocks, from + 1, to)[j] = blocks[(from + 1) + j - 1]
      BY <3>1, <3>2, SubSeqProperties
    <3>4. \A j \in 1 .. to - from : (from + 1) + j - 1 = from + j
      BY <2>1
    <3> HIDE DEF batch
    <3>5. QED
      BY <2>1, <2>2, <3>2, <3>3, <3>4
  <2>5. \A j \in 1 .. to - from : O[from + j] = XorBlock(batch[j], KeyStream(key, iv, from + j))
    <3>1. \A j \in 1 .. to - from : from + j \in 1 .. len
      BY <2>1
    <3> HIDE DEF batch
    <3>2. QED
      BY <1>2, <2>4, <3>1
  <2>6. EVP_CipherUpdate(CtrContext(key, iv, from), batch, enc) =
          [ctx |-> CtrContext(key, iv, to), out |-> SubSeq(O, from + 1, to)]
    <3> HIDE DEF batch
    <3>1. from \in 0 .. Len(O) /\ to \in from .. Len(O)
      BY <1>2, <2>1
    <3>2. PICK N, f, t, bs : N = Len(O) /\ f = from /\ t = to /\ bs = batch
      OBVIOUS
    <3>3. f \in 0 .. Len(O) /\ t \in f .. Len(O)
      BY <3>1, <3>2
    <3>4. CtrPart(key, iv, O, bs, f, t)
      BY <2>4, <2>5, <3>2 DEF CtrPart
    <3>5. O \in Seq(S)
      BY <1>2
    <3> HIDE DEF from, to, len, Lim
    <3>6. CtrMakes(key, iv, enc, O, bs, f, t)
      BY <3>3, <3>4, <3>5, CtrBatch
    <3>7. QED
      BY <3>2, <3>6 DEF CtrMakes
  <2>7. SubSeq(O, 1, from) \o SubSeq(O, from + 1, to) = SubSeq(O, 1, to)
    <3>1. 1 \in 1 .. Len(O) + 1 /\ from \in 1 - 1 .. Len(O) /\ to \in from .. Len(O)
      BY <1>2, <2>1
    <3>2. QED
      BY <1>2, <3>1, ConcatAdjacentSubSeq
  <2>8. u = [ctx |-> CtrContext(key, iv, to), out |-> SubSeq(O, from + 1, to)]
    BY <2>6
  <2>9. Then(a, i) = [ctx |-> u.ctx, out |-> a.out \o u.out]
    OBVIOUS
  <2> HIDE DEF u, F, Then
  <2>10. Then(a, i) = [ctx |-> CtrContext(key, iv, to), out |-> SubSeq(O, 1, to)]
    BY <2>7, <2>8, <2>9
  <2> HIDE DEF a
  <2>11. QED
    BY <2>3, <2>10
<1>6. F[n].out = O
  <2>1. n \in 0 .. n
    BY <1>0
  <2>2. SubSeq(O, 1, len) = O
    BY <1>2, SubSeqFull
  <2> HIDE DEF Lim
  <2>3. QED
    BY <1>3, <2>1, <2>2
<1> HIDE DEF base, Then, Lim
<1>7. \E f : Is(f)
  <2>1. \A i \in 0 .. n : F[i] = IF i = 0 THEN base ELSE Then(F[i - 1], i)
    <3> HIDE DEF F
    <3>1. \A i \in 0 .. n : i # 0 => i \in 1 .. n
      BY <1>0
    <3> HIDE DEF n
    <3>2. QED
      BY <1>4, <1>5, <3>1
  <2>2. F = [i \in 0 .. n |-> F[i]]
    OBVIOUS
  <2> HIDE DEF F, n
  <2>3. Is(F)
    BY <2>1, <2>2, Zenon
  <2> HIDE DEF Is
  <2>4. QED
    BY <2>3
<1>8. Is(after)
  <2> HIDE DEF Is
  <2>1. QED
    BY <1>7
<1> HIDE DEF after, F, n, B
<1>9. \A i \in 0 .. n : after[i] = IF i = 0 THEN base ELSE Then(after[i - 1], i)
  BY <1>8
<1> HIDE DEF Is
<1>10. 0 \in T
  <2>1. 0 \in 0 .. n
    BY <1>0
  <2>2. after[0] = F[0]
    BY <1>4, <1>9, <2>1
  <2>3. QED
    BY <2>2
<1>11. ASSUME NEW i \in Nat, i \in T PROVE i + 1 \in T
  <2> SUFFICES ASSUME i + 1 <= n PROVE after[i + 1] = F[i + 1]
    OBVIOUS
  <2>1. after[i] = F[i]
    BY <1>0, <1>11
  <2>2. PICK k \in 1 .. n : k = i + 1 /\ k - 1 = i /\ k # 0 /\ k \in 0 .. n
    BY <1>0
  <2>3. after[k] = Then(after[k - 1], k) /\ F[k] = Then(F[k - 1], k)
    BY <1>5, <1>9, <2>2
  <2>4. QED
    BY <2>1, <2>2, <2>3
<1>12. Nat \subseteq T
  <2> HIDE DEF T
  <2>1. QED
    BY <1>10, <1>11, Induction
<1>13. after[n] = F[n]
  BY <1>0, <1>12
<1>14. QED
  BY <1>1, <1>6, <1>13 DEF O

\* What is added twice is gone.
LEMMA XorTwice == ASSUME NEW a, NEW b PROVE XorBlock(XorBlock(a, b), b) = a
BY DEF XorBlock, SymDiff

\* Sets of one element.
LEMMA SameElement == ASSUME NEW a, NEW b, {a} = {b} PROVE a = b
OBVIOUS

\* The key streams of two keys or vectors differ.
LEMMA StreamsDiffer ==
  ASSUME NEW k, NEW l, NEW A, NEW B, NEW i \in Nat, KeyStream(k, A, i) = KeyStream(l, B, i)
  PROVE  k = l /\ A = B
<1> DEFINE Ctr(x) == <<"ctr", x, i - 1>>
           Term(x, y) == <<"enc", x, {Ctr(y)}>>
<1>1. {Term(k, A)} = {Term(l, B)}
  BY DEF KeyStream, EncBlock
<1>2. Term(k, A) = Term(l, B)
  <2> HIDE DEF Term
  <2>1. QED
    BY <1>1, SameElement
<1>3. k = l /\ {Ctr(A)} = {Ctr(B)}
  <2> HIDE DEF Ctr
  <2>1. QED
    BY <1>2
<1>4. Ctr(A) = Ctr(B)
  <2> HIDE DEF Ctr, Term
  <2>1. QED
    BY <1>3, SameElement
<1>5. QED
  <2> HIDE DEF Term
  <2>1. QED
    BY <1>3, <1>4

\* Decrypt undoes Encrypt in counter mode.
LEMMA CtrRoundTrip ==
  ASSUME NEW key, NEW iv, NEW S, NEW text \in Seq(S)
  PROVE  Decrypt("CTR", key, iv, Encrypt("CTR", key, iv, text)) = text
<1> DEFINE c == [i \in 1 .. Len(text) |-> XorBlock(text[i], KeyStream(key, iv, i))]
<1>1. Encrypt("CTR", key, iv, text) = c
  <2>1. Len(text) \in Nat
    OBVIOUS
  <2>2. PICK e \in BOOLEAN : e
    OBVIOUS
  <2>3. CryptLoop("CTR", key, iv, text, e) = c
    BY <2>1, CtrIs
  <2>4. QED
    BY <2>2, <2>3 DEF Encrypt
<1>2. Len(c) = Len(text)
  OBVIOUS
<1>3. \A i \in 1 .. Len(text) : c[i] = XorBlock(text[i], KeyStream(key, iv, i))
  OBVIOUS
<1> HIDE DEF c
<1>4. Decrypt("CTR", key, iv, c) = [i \in 1 .. Len(text) |-> XorBlock(c[i], KeyStream(key, iv, i))]
  <2>1. Len(c) \in Nat
    BY <1>2
  <2>2. PICK e \in BOOLEAN : ~e
    OBVIOUS
  <2>3. CryptLoop("CTR", key, iv, c, e) = [i \in 1 .. Len(c) |-> XorBlock(c[i], KeyStream(key, iv, i))]
    BY <2>1, CtrIs
  <2>4. QED
    BY <1>2, <2>2, <2>3 DEF Decrypt
<1>5. \A i \in 1 .. Len(text) : XorBlock(c[i], KeyStream(key, iv, i)) = text[i]
  BY <1>3, XorTwice
<1>6. text = [i \in 1 .. Len(text) |-> text[i]]
  OBVIOUS
<1>7. QED
  BY <1>1, <1>4, <1>5, <1>6

\* A block of one term, that of a mac.
IsMac(block) == \E m : block = {<<"mac", m, 1>>}

\* The mac of a text: two blocks, each of them one term.
LEMMA MacFacts ==
  ASSUME NEW key, NEW iv, NEW text
  PROVE  /\ DOMAIN MteMac(key, iv, text) = 1 .. 2
         /\ MteMac(key, iv, text) = [i \in 1 .. 2 |-> MteMac(key, iv, text)[i]]
         /\ IsMac(MteMac(key, iv, text)[1])
<1> DEFINE iv_key_hash == DigestFinal([DigestInitEx("SM3") EXCEPT !.data = <<iv, key>>])
           mac == DigestFinal([Init_HMAC("SM3", <<iv_key_hash, 1>>) EXCEPT !.data = text])
<1>1. MteMac(key, iv, text) = [i \in 1 .. 2 |-> {<<"mac", mac, i>>}]
  BY DEF MteMac, HMAC_BLOCKS
<1> HIDE DEF mac
<1>2. MteMac(key, iv, text)[1] = {<<"mac", mac, 1>>}
  BY <1>1
<1>3. IsMac(MteMac(key, iv, text)[1])
  BY <1>2 DEF IsMac
<1>4. QED
  BY <1>1, <1>3

\* Under another vector the mac of a text is another one.
LEMMA MacsDiffer ==
  ASSUME NEW key, NEW iv, NEW k, NEW v, NEW text, MteMac(key, iv, text) = MteMac(k, v, text)
  PROVE  iv = v
<1> DEFINE h(x, y) == DigestFinal([DigestInitEx("SM3") EXCEPT !.data = <<x, y>>])
           m(x, y) == DigestFinal([Init_HMAC("SM3", <<h(x, y), 1>>) EXCEPT !.data = text])
<1>1. MteMac(key, iv, text) = [i \in 1 .. 2 |-> {<<"mac", m(iv, key), i>>}]
      /\ MteMac(k, v, text) = [i \in 1 .. 2 |-> {<<"mac", m(v, k), i>>}]
  BY DEF MteMac, HMAC_BLOCKS
<1>2. h(iv, key)[3] = <<iv, key>> /\ h(v, k)[3] = <<v, k>>
  BY DEF DigestFinal, DigestInitEx
<1> HIDE DEF h
<1>3. m(iv, key)[2] = <<h(iv, key), 1>> /\ m(v, k)[2] = <<h(v, k), 1>>
  BY DEF DigestFinal, Init_HMAC
<1> HIDE DEF m
<1>4. PICK a, b : a = m(iv, key) /\ b = m(v, k)
  OBVIOUS
<1>5. PICK p, q : p = <<"mac", a, 1>> /\ q = <<"mac", b, 1>>
  OBVIOUS
<1>6. PICK y, z : y = MteMac(key, iv, text) /\ z = MteMac(k, v, text)
  OBVIOUS
<1>7. {p} = {q}
  <2>1. y = z
    BY <1>6, Zenon
  <2>2. y = [i \in 1 .. 2 |-> {<<"mac", a, i>>}] /\ z = [i \in 1 .. 2 |-> {<<"mac", b, i>>}]
    BY <1>1, <1>4, <1>6, Zenon
  <2>3. y[1] = {<<"mac", a, 1>>}
    BY <2>2
  <2>4. z[1] = {<<"mac", b, 1>>}
    BY <2>2
  <2>5. QED
    BY <1>5, <2>1, <2>3, <2>4, Zenon
<1>8. p = q
  BY <1>7, SameElement
<1>9. a = b
  BY <1>5, <1>8
<1>10. h(iv, key) = h(v, k)
  BY <1>3, <1>4, <1>9
<1>11. <<iv, key>> = <<v, k>>
  BY <1>2, <1>10
<1>12. QED
  BY <1>11

\* What is encrypted: the mac and the text.
LEMMA MteInput ==
  ASSUME NEW key, NEW iv, NEW S, NEW text \in Seq(S)
  PROVE  LET in == MteMac(key, iv, text) \o text
         IN  /\ \E R : in \in Seq(R)
             /\ Len(in) = 2 + Len(text) /\ in[1] = MteMac(key, iv, text)[1]
             /\ SubSeq(in, 1, 2) = MteMac(key, iv, text)
             /\ SubSeq(in, 3, Len(in)) = text
<1> DEFINE mac == MteMac(key, iv, text)
           M == {mac[i] : i \in 1 .. 2}
           R == M \cup S
           in == mac \o text
<1>1. mac \in [1 .. 2 -> M]
  BY MacFacts
<1> HIDE DEF mac, M
<1>2. mac \in Seq(R) /\ text \in Seq(R) /\ Len(mac) = 2 /\ Len(text) \in Nat
  BY <1>1
<1> HIDE DEF R
<1>3. PICK m : m = mac
  OBVIOUS
<1>4. /\ m \o text \in Seq(R) /\ Len(m \o text) = Len(m) + Len(text)
      /\ \A i \in 1 .. Len(m) + Len(text) :
           (m \o text)[i] = IF i <= Len(m) THEN m[i] ELSE text[i - Len(m)]
  BY <1>2, <1>3, ConcatProperties
<1>5. m \o text = in
  BY <1>3
<1> HIDE DEF in
<1>6. in \in Seq(R) /\ Len(in) = 2 + Len(text)
  BY <1>2, <1>3, <1>4, <1>5
<1>7. \A i \in 1 .. 2 + Len(text) : in[i] = IF i <= 2 THEN mac[i] ELSE text[i - 2]
  BY <1>2, <1>3, <1>4, <1>5
<1>8. SubSeq(in, 1, 2) = mac
  <2>1. \A i \in 1 .. 2 : in[i] = mac[i]
    BY <1>2, <1>7
  <2>2. QED
    BY <1>2, <1>6, <2>1
<1>9. SubSeq(in, 3, Len(in)) = text
  <2>1. \A i \in 1 .. Len(text) : in[i + 2] = text[i]
    BY <1>2, <1>7
  <2>2. QED
    BY <1>2, <1>6, <2>1
<1>10. QED
  BY <1>2, <1>6, <1>7, <1>8, <1>9 DEF mac, in


\* What Sm4MteDecrypt makes of the decrypted blocks.
LEMMA MteDecrypted ==
  ASSUME NEW key, NEW iv, NEW now, NEW c, NEW hp,
         hp = Decrypt("CTR", key, CopyDataAsUint128(iv, now), c)
  PROVE  LET r == Sm4MteDecrypt(key, iv, now, c)
             rest == SubSeq(hp, 3, Len(hp))
         IN  /\ r.ok <=> Len(hp) > 2 /\ MteMac(key, iv, rest) = SubSeq(hp, 1, 2)
             /\ r.ok => r.plaintext = rest
<1> DEFINE rest == SubSeq(hp, 3, Len(hp))
           P == Len(hp) > 2 /\ MteMac(key, iv, rest) = SubSeq(hp, 1, 2)
<1>1. Sm4MteDecrypt(key, iv, now, c) = IF P THEN [ok |-> TRUE, plaintext |-> rest] ELSE Failed
  <2>1. 2 + 1 = 3
    OBVIOUS
  <2>2. QED
    BY <2>1 DEF Sm4MteDecrypt, MacEqual, HMAC_BLOCKS
<1> HIDE DEF rest
<1>2. CASE P
  BY <1>1, <1>2 DEF rest
<1>3. CASE ~P
  BY <1>1, <1>3 DEF Failed, rest
<1>4. QED
  BY <1>2, <1>3

\* With its key and vector it opens to the text, unless that is empty.
LEMMA SmOpens ==
  ASSUME NEW key, NEW iv, NEW behind, NEW now, NEW S, NEW text \in Seq(S),
         CopyDataAsUint128(iv, behind) = CopyDataAsUint128(iv, now)
  PROVE  LET r == Sm4MteDecrypt(key, iv, now, Sm4MteEncrypt(key, iv, behind, text))
         IN  (r.ok <=> text # <<>>) /\ (r.ok => r.plaintext = text)
<1> DEFINE in == MteMac(key, iv, text) \o text
           c == Sm4MteEncrypt(key, iv, behind, text)
<1>1. PICK R : in \in Seq(R)
  BY MteInput
<1>2. /\ Len(in) = 2 + Len(text) /\ SubSeq(in, 1, 2) = MteMac(key, iv, text)
      /\ SubSeq(in, 3, Len(in)) = text
  BY MteInput
<1>3. c = Encrypt("CTR", key, CopyDataAsUint128(iv, now), in)
  BY DEF Sm4MteEncrypt
<1> HIDE DEF in, c
<1>4. in = Decrypt("CTR", key, CopyDataAsUint128(iv, now), c)
  <2>1. PICK A : A = CopyDataAsUint128(iv, now)
    OBVIOUS
  <2>2. Decrypt("CTR", key, A, Encrypt("CTR", key, A, in)) = in
    BY <1>1, CtrRoundTrip
  <2>3. QED
    BY <1>3, <2>1, <2>2, Zenon
<1> DEFINE r == Sm4MteDecrypt(key, iv, now, c)
           rest == SubSeq(in, 3, Len(in))
<1>5. /\ r.ok <=> Len(in) > 2 /\ MteMac(key, iv, rest) = SubSeq(in, 1, 2)
      /\ r.ok => r.plaintext = rest
  BY <1>4, MteDecrypted
<1>6. Len(in) > 2 <=> text # <<>>
  BY <1>2, EmptySeq
<1> HIDE DEF r
<1>7. (r.ok <=> text # <<>>) /\ (r.ok => r.plaintext = text)
  BY <1>2, <1>5, <1>6
<1>8. QED
  BY <1>7 DEF r, c

\* With another key or another counter it is refused: the first block is then three terms.
LEMMA SmGarbles ==
  ASSUME NEW key, NEW iv, NEW behind, NEW S, NEW text \in Seq(S), NEW k, NEW v, NEW now,
         ~(k = key /\ CopyDataAsUint128(v, now) = CopyDataAsUint128(iv, behind))
  PROVE  ~Sm4MteDecrypt(k, v, now, Sm4MteEncrypt(key, iv, behind, text)).ok
<1> DEFINE in == MteMac(key, iv, text) \o text
           A == CopyDataAsUint128(iv, behind)
           B == CopyDataAsUint128(v, now)
           c == Sm4MteEncrypt(key, iv, behind, text)
           s == KeyStream(key, A, 1)
           t == KeyStream(k, B, 1)
           hp == Decrypt("CTR", k, B, c)
<1>1. Len(in) = 2 + Len(text) /\ in[1] = MteMac(key, iv, text)[1] /\ Len(text) \in Nat
  BY MteInput
<1>2. c = Encrypt("CTR", key, A, in)
  BY DEF Sm4MteEncrypt
<1>3. PICK m : in[1] = {<<"mac", m, 1>>}
  <2>1. IsMac(MteMac(key, iv, text)[1])
    BY MacFacts
  <2>2. IsMac(in[1])
    BY <1>1, <2>1
  <2>3. QED
    BY <2>2 DEF IsMac
<1>0. ~(k = key /\ B = A)
  OBVIOUS
<1> HIDE DEF in, c, A, B
<1>4. Len(c) = Len(in) /\ c[1] = XorBlock(in[1], s)
  <2>1. PICK e \in BOOLEAN : e
    OBVIOUS
  <2>2. Len(in) \in Nat /\ 1 \in 1 .. Len(in)
    BY <1>1
  <2>3. CryptLoop("CTR", key, A, in, e) =
          [i \in 1 .. Len(in) |-> XorBlock(in[i], KeyStream(key, A, i))]
    BY <2>2, CtrIs
  <2>4. c = [i \in 1 .. Len(in) |-> XorBlock(in[i], KeyStream(key, A, i))]
    BY <1>2, <2>1, <2>3 DEF Encrypt
  <2>5. QED
    BY <2>2, <2>4
<1>5. Len(hp) = Len(in) /\ hp[1] = XorBlock(c[1], t)
  <2>1. PICK e \in BOOLEAN : ~e
    OBVIOUS
  <2>2. Len(c) \in Nat /\ 1 \in 1 .. Len(c)
    BY <1>1, <1>4
  <2>3. CryptLoop("CTR", k, B, c, e) =
          [i \in 1 .. Len(c) |-> XorBlock(c[i], KeyStream(k, B, i))]
    BY <2>2, CtrIs
  <2>4. hp = [i \in 1 .. Len(c) |-> XorBlock(c[i], KeyStream(k, B, i))]
    BY <2>1, <2>3 DEF Decrypt
  <2> HIDE DEF hp
  <2>5. QED
    BY <1>4, <2>2, <2>4
<1>6. PICK x, y : s = {<<"enc", key, x>>} /\ t = {<<"enc", k, y>>}
  BY DEF KeyStream, EncBlock
<1>7. s # t
  <2>1. KeyStream(key, A, 1) = KeyStream(k, B, 1) => key = k /\ A = B
    BY StreamsDiffer
  <2>2. QED
    BY <1>0, <2>1
<1> HIDE DEF s, t, hp
<1>8. <<"mac", m, 1>> \in hp[1] /\ <<"enc", key, x>> \in hp[1]
      /\ <<"mac", m, 1>> # <<"enc", key, x>>
  <2>1. PICK p, q, r : p = <<"mac", m, 1>> /\ q = <<"enc", key, x>> /\ r = <<"enc", k, y>>
    OBVIOUS
  <2>2. p # q /\ p # r
    BY <2>1
  <2>3. hp[1] = XorBlock(XorBlock({p}, {q}), {r}) /\ {q} # {r}
    BY <1>3, <1>4, <1>5, <1>6, <1>7, <2>1
  <2>4. p \in hp[1] /\ q \in hp[1]
    BY <2>2, <2>3 DEF XorBlock, SymDiff
  <2>5. QED
    BY <2>1, <2>2, <2>4
<1> DEFINE rest == SubSeq(hp, 3, Len(hp))
<1>9. MteMac(k, v, rest) # SubSeq(hp, 1, 2)
  <2>0. PICK w : w = rest
    OBVIOUS
  <2>1. IsMac(MteMac(k, v, w)[1])
    BY MacFacts
  <2>2. SubSeq(hp, 1, 2)[1] = hp[1]
    OBVIOUS
  <2>3. ~IsMac(hp[1])
    <3>1. PICK p, q : p \in hp[1] /\ q \in hp[1] /\ p # q
      BY <1>8
    <3>2. QED
      BY <3>1 DEF IsMac
  <2> HIDE DEF rest
  <2>4. QED
    BY <2>0, <2>1, <2>2, <2>3
<1>10. QED
  <2>1. hp = Decrypt("CTR", k, CopyDataAsUint128(v, now), c)
    BY DEF hp, B
  <2>2. ~Sm4MteDecrypt(k, v, now, c).ok
    BY <1>9, <2>1, MteDecrypted
  <2>3. QED
    BY <2>2 DEF c

\* With another vector that gives the same counter, the mac has another key.
LEMMA SmRefuses ==
  ASSUME NEW key, NEW iv, NEW behind, NEW S, NEW text \in Seq(S), NEW k, NEW v, NEW now,
         Sm4MteDecrypt(k, v, now, Sm4MteEncrypt(key, iv, behind, text)).ok
  PROVE  k = key /\ v = iv /\ CopyDataAsUint128(v, now) = CopyDataAsUint128(iv, behind)
<1> DEFINE in == MteMac(key, iv, text) \o text
           A == CopyDataAsUint128(v, now)
           c == Sm4MteEncrypt(key, iv, behind, text)
           r == Sm4MteDecrypt(k, v, now, c)
           rest == SubSeq(in, 3, Len(in))
<1>1. k = key /\ A = CopyDataAsUint128(iv, behind)
  BY SmGarbles
<1>2. PICK R : in \in Seq(R)
  BY MteInput
<1>3. SubSeq(in, 1, 2) = MteMac(key, iv, text) /\ rest = text
  BY MteInput
<1>4. c = Encrypt("CTR", k, A, in)
  BY <1>1, Zenon DEF Sm4MteEncrypt
<1> HIDE DEF in, A, c
<1>5. in = Decrypt("CTR", k, A, c)
  <2>1. Decrypt("CTR", k, A, Encrypt("CTR", k, A, in)) = in
    BY <1>2, CtrRoundTrip
  <2>2. QED
    BY <1>4, <2>1, Zenon
<1>6. in = Decrypt("CTR", k, CopyDataAsUint128(v, now), c)
  BY <1>5 DEF A
<1>7. r.ok <=> Len(in) > 2 /\ MteMac(k, v, rest) = SubSeq(in, 1, 2)
  BY <1>6, MteDecrypted
<1>8. r.ok
  BY DEF c
<1> HIDE DEF r, rest
<1>9. MteMac(key, iv, text) = MteMac(k, v, text)
  BY <1>3, <1>7, <1>8, Zenon
<1>10. iv = v
  BY <1>9, MacsDiffer, Zenon
<1>11. QED
  BY <1>1, <1>10 DEF A

-----------------------------------------------------------------------------
(* Envelopes.                                                              *)

\* An attempt to decrypt what GcmEncrypt has made, with another key, vector or ciphertext.
GcmAnswers(key, iv, text, k, v, c, nd) ==
  LET g == GcmEncrypt(key, iv, text)
      r == GcmDecrypt(k, v, c, nd, g.mac)
  IN  /\ r.ok => k = key /\ v = iv /\ c = g.ciphertext /\ r.plaintext = text
      /\ k = key /\ v = iv /\ c = g.ciphertext => r.ok \/ text = <<>>

\* GcmDecrypt accepts the ciphertext, key and vector that the tag was made of, unless
\* the text was empty, and nothing else.
LEMMA GcmOpens ==
  ASSUME NEW key, NEW iv, NEW S, NEW text, NEW k, NEW v, NEW c, NEW nd,
         text \in Seq(S), iv.bytes = GCM_IV_BYTES
  PROVE  GcmAnswers(key, iv, text, k, v, c, nd)
<1> DEFINE g == GcmEncrypt(key, iv, text)
           r == GcmDecrypt(k, v, c, nd, g.mac)
           A == {<<"gcm", iv>>}
           d == Encrypt("CTR", key, A, text)
           p == Decrypt("CTR", k, {<<"gcm", v>>}, c)
           P == v.bytes = GCM_IV_BYTES /\ ~(c = <<>> /\ nd)
<1>1. g.ciphertext = d /\ g.mac = <<"tag", key, iv, d>>
  BY DEF GcmEncrypt, GcmTag
<1>2. Decrypt("CTR", key, A, d) = text
  <2> HIDE DEF A
  <2>1. QED
    BY CtrRoundTrip
<1>3. k = key /\ v = iv /\ c = d => p = text
  BY <1>2
<1>8. d = <<>> => text = <<>>
  <2> HIDE DEF A
  <2>1. PICK e \in BOOLEAN : e
    OBVIOUS
  <2>2. CryptLoop("CTR", key, A, text, e) =
          [i \in 1 .. Len(text) |-> XorBlock(text[i], KeyStream(key, A, i))]
    BY CtrIs
  <2>3. d = [i \in 1 .. Len(text) |-> XorBlock(text[i], KeyStream(key, A, i))]
    BY <2>1, <2>2 DEF Encrypt
  <2>4. Len(d) = Len(text)
    BY <2>3
  <2> HIDE DEF d
  <2>5. d = <<>> => Len(text) = 0
    BY <2>4
  <2>6. QED
    BY <2>5, EmptySeq
<1> HIDE DEF g, d, p
<1>4. <<"tag", k, v, c>> = g.mac <=> k = key /\ v = iv /\ c = d
  BY <1>1
<1>5. CASE P
  <2>1. r = [ok |-> <<"tag", k, v, c>> = g.mac, plaintext |-> p]
    BY <1>5 DEF GcmDecrypt, MacEqual, GcmTag, p
  <2> HIDE DEF r
  <2>2. /\ r.ok <=> k = key /\ v = iv /\ c = d
        /\ r.ok => r.plaintext = text
    BY <1>3, <1>4, <2>1
  <2>3. QED
    BY <1>1, <2>2 DEF r, g, GcmAnswers
<1>6. CASE ~P
  <2>1. r = Failed
    BY <1>6 DEF GcmDecrypt
  <2>2. ~r.ok
    BY <2>1 DEF Failed
  <2>4. k = key /\ v = iv /\ c = d => text = <<>>
    BY <1>6, <1>8
  <2> HIDE DEF r
  <2>3. QED
    BY <1>1, <2>2, <2>4 DEF r, g, GcmAnswers
<1>7. QED
  BY <1>5, <1>6

\* The text of a sealed envelope, its key and where it is.
LEMMA SealedFacts ==
  ASSUME EnvelopeInv
  PROVE  /\ Len(sealed) \in Nat /\ DOMAIN sealed = 1 .. Len(sealed)
         /\ \A i \in DOMAIN sealed :
              /\ sealed[i] \in Range(sealed) /\ SealedInv(i)
              /\ sealed[i].text \in Seq(Range(sealed[i].text))
              /\ sealed[i].encrypted_key.pair = sealed[i].pair
              /\ sealed[i].encrypted_key.key = i
         /\ \A e \in Range(sealed) : \E i \in DOMAIN sealed : e = sealed[i]
<1>1. Len(sealed) \in Nat /\ DOMAIN sealed = 1 .. Len(sealed)
  BY DEF EnvelopeInv
<1>2. \A i \in DOMAIN sealed : SealedInv(i)
  BY DEF EnvelopeInv
<1>3. \A i \in DOMAIN sealed : sealed[i] \in Range(sealed)
  BY DEF Range
<1>4. ASSUME NEW i \in DOMAIN sealed
      PROVE  /\ sealed[i].text \in Seq(Range(sealed[i].text))
             /\ sealed[i].encrypted_key.pair = sealed[i].pair
             /\ sealed[i].encrypted_key.key = i
  <2>1. SealedInv(i)
    BY <1>2
  <2>2. sealed[i].encrypted_key = EncryptKey(sealed[i].pair, i) /\ sealed[i].text \in Texts
    BY <2>1 DEF SealedInv
  <2>3. QED
    BY <2>2, EnvelopeAssumption DEF EncryptKey
<1>5. QED
  BY <1>1, <1>2, <1>3, <1>4 DEF Range

\* The key of an attempt tells which envelope its arguments can be from.
LEMMA ArgsAre ==
  ASSUME EnvelopeInv, NEW a \in DOMAIN sealed, NEW kind, NEW pri, NEW iv, NEW c, NEW mac,
         NEW e \in Range(sealed), ArgsOf(e) = <<kind, pri, iv, sealed[a].encrypted_key, c, mac>>
  PROVE  e = sealed[a] /\ e.kind = kind /\ e.pair = pri /\ e.iv = iv
         /\ e.ciphertext = c /\ e.mac = mac
<1>1. PICK j \in DOMAIN sealed : e = sealed[j]
  BY SealedFacts
<1>2. e.kind = kind /\ e.pair = pri /\ e.iv = iv /\ e.ciphertext = c /\ e.mac = mac
      /\ e.encrypted_key = sealed[a].encrypted_key
  BY DEF ArgsOf
<1>3. j = a
  BY <1>1, <1>2, SealedFacts
<1>4. QED
  BY <1>1, <1>2, <1>3

\* What EnvelopeTrue says of an attempt.
OpenedTrue(args, result) ==
  IF result.ok
  THEN \E e \in Range(sealed) : ArgsOf(e) = args /\ e.text = result.plaintext
  ELSE \A e \in Range(sealed) : ArgsOf(e) = args => MayNotOpen(e)

\* Only the private key of the pair gives the key, that of the envelope.
LEMMA KeyFacts ==
  ASSUME EnvelopeInv, NEW a \in DOMAIN sealed, NEW pri
  PROVE  LET k == DecryptKey(pri, sealed[a].encrypted_key)
         IN  (k.ok <=> sealed[a].pair = pri) /\ (k.ok => k.key = a)
<1> DEFINE ek == sealed[a].encrypted_key
<1>1. ek.pair = sealed[a].pair /\ ek.key = a
  BY SealedFacts
<1> HIDE DEF ek
<1>2. CASE ek.pair = pri
  <2>1. DecryptKey(pri, ek) = [ok |-> TRUE, key |-> a]
    BY <1>1, <1>2 DEF DecryptKey
  <2>2. QED
    BY <1>1, <1>2, <2>1 DEF ek
<1>3. CASE ek.pair # pri
  <2>1. DecryptKey(pri, ek) = [ok |-> FALSE, key |-> 0]
    BY <1>3 DEF DecryptKey
  <2>2. QED
    BY <1>1, <1>3, <2>1 DEF ek
<1>4. QED
  BY <1>2, <1>3

\* An attempt to open an envelope of SmEnvSeal.
LEMMA SmTrue ==
  ASSUME EnvelopeInv, NEW pri, NEW iv, NEW now, NEW a \in DOMAIN sealed, NEW b \in DOMAIN sealed,
         sealed[a].kind = "sm", sealed[b].kind = "sm"
  PROVE  OpenedTrue(<<"sm", pri, iv, sealed[a].encrypted_key, sealed[b].ciphertext, <<>>>>,
                    SmEnvOpen(pri, iv, now, sealed[a].encrypted_key, sealed[b].ciphertext))
<1> DEFINE ek == sealed[a].encrypted_key
           cb == sealed[b].ciphertext
           k == DecryptKey(pri, ek)
           r == SmEnvOpen(pri, iv, now, ek, cb)
           args == <<"sm", pri, iv, ek, cb, <<>>>>
<1>1. /\ sealed[a].text \in Seq(Range(sealed[a].text))
      /\ sealed[b].text \in Seq(Range(sealed[b].text)) /\ sealed[a] \in Range(sealed)
  BY SealedFacts
<1>2. /\ sealed[a].mac = <<>>
      /\ \E m : sealed[a].ciphertext = Sm4MteEncrypt(a, sealed[a].iv, m, sealed[a].text)
      /\ \E m : cb = Sm4MteEncrypt(b, sealed[b].iv, m, sealed[b].text)
  <2>1. SealedInv(a) /\ SealedInv(b)
    BY SealedFacts
  <2>2. QED
    BY <2>1 DEF SealedInv
<1>3. (k.ok <=> sealed[a].pair = pri) /\ (k.ok => k.key = a)
  BY KeyFacts
<1>4. \A e \in Range(sealed) : ArgsOf(e) = args =>
        e = sealed[a] /\ e.pair = pri /\ e.iv = iv /\ e.ciphertext = cb
  BY ArgsAre
<1>5. r = IF k.ok THEN Sm4MteDecrypt(k.key, iv, now, cb) ELSE Failed
  BY DEF SmEnvOpen
<1>6. sealed[a].pair = pri /\ sealed[a].iv = iv /\ sealed[a].ciphertext = cb
      => ArgsOf(sealed[a]) = args
  BY <1>2 DEF ArgsOf
<1> HIDE DEF args, k, r
<1>7. CASE sealed[a].pair # pri
  <2>1. ~r.ok
    BY <1>3, <1>5, <1>7 DEF Failed
  <2>2. QED
    BY <1>4, <1>7, <2>1 DEF OpenedTrue, args, r
<1>8. CASE sealed[a].pair = pri
  <2>1. r = Sm4MteDecrypt(a, iv, now, cb)
    BY <1>3, <1>5, <1>8
  <2>2. ASSUME sealed[a].ciphertext = cb, sealed[a].iv = iv
        PROVE  /\ r.ok => r.plaintext = sealed[a].text
               /\ ~r.ok => MayNotOpen(sealed[a])
    <3>1. PICK t, R : t = sealed[a].text /\ R = Range(sealed[a].text)
      OBVIOUS
    <3>2. PICK m : cb = Sm4MteEncrypt(a, iv, m, t)
      BY <1>2, <2>2, <3>1
    <3> DEFINE q == Sm4MteDecrypt(a, iv, now, Sm4MteEncrypt(a, iv, m, t))
               same == CopyDataAsUint128(iv, m) = CopyDataAsUint128(iv, now)
    <3>3. t \in Seq(R) /\ r = q
      BY <1>1, <2>1, <3>1, <3>2
    <3>4. same => (q.ok <=> t # <<>>) /\ (q.ok => q.plaintext = t)
      BY <3>3, SmOpens
    <3>5. q.ok => same
      BY <3>3, SmRefuses
    <3>6. ~same => iv.bytes < SM4_IV_BYTES
      BY DEF CopyDataAsUint128
    <3> HIDE DEF q, same
    <3>7. CASE r.ok
      BY <3>1, <3>3, <3>4, <3>5, <3>7
    <3>8. CASE ~r.ok
      <4>1. t = <<>> \/ iv.bytes < SM4_IV_BYTES
        BY <3>3, <3>4, <3>6, <3>8
      <4>2. QED
        BY <2>2, <3>1, <3>8, <4>1 DEF MayNotOpen
    <3>9. QED
      BY <3>7, <3>8
  <2>3. r.ok => sealed[a].ciphertext = cb /\ sealed[a].iv = iv
    <3>1. PICK t, R, v : t = sealed[b].text /\ R = Range(sealed[b].text) /\ v = sealed[b].iv
      OBVIOUS
    <3>2. PICK m : cb = Sm4MteEncrypt(b, v, m, t)
      BY <1>2, <3>1
    <3>3. t \in Seq(R) /\ r = Sm4MteDecrypt(a, iv, now, Sm4MteEncrypt(b, v, m, t))
      BY <1>1, <2>1, <3>1, <3>2
    <3>4. Sm4MteDecrypt(a, iv, now, Sm4MteEncrypt(b, v, m, t)).ok => a = b /\ iv = v
      BY <3>3, SmRefuses
    <3>5. r.ok => a = b /\ iv = v
      BY <3>3, <3>4
    <3>6. QED
      BY <3>1, <3>5
  <2>4. CASE r.ok
    <3>1. ArgsOf(sealed[a]) = args /\ sealed[a].text = r.plaintext
      BY <1>6, <1>8, <2>2, <2>3, <2>4
    <3>2. QED
      BY <1>1, <2>4, <3>1 DEF OpenedTrue, args, r
  <2>5. CASE ~r.ok
    <3>1. \A e \in Range(sealed) : ArgsOf(e) = args => MayNotOpen(e)
      BY <1>4, <2>2, <2>5
    <3>2. QED
      BY <2>5, <3>1 DEF OpenedTrue, args, r
  <2>6. QED
    BY <2>4, <2>5
<1>9. QED
  BY <1>7, <1>8

\* An attempt to open an envelope of RsaEnvSeal.
LEMMA RsaTrue ==
  ASSUME EnvelopeInv, NEW pri, NEW iv, NEW nd, NEW a \in DOMAIN sealed, NEW b \in DOMAIN sealed,
         NEW c \in DOMAIN sealed, sealed[a].kind = "rsa", sealed[c].kind = "rsa"
  PROVE  OpenedTrue(<<"rsa", pri, iv, sealed[a].encrypted_key, sealed[b].ciphertext, sealed[c].mac>>,
                    RsaEnvOpen(pri, iv, sealed[a].encrypted_key, sealed[b].ciphertext, nd,
                               sealed[c].mac))
<1> DEFINE ek == sealed[a].encrypted_key
           cb == sealed[b].ciphertext
           mc == sealed[c].mac
           k == DecryptKey(pri, ek)
           r == RsaEnvOpen(pri, iv, ek, cb, nd, mc)
           args == <<"rsa", pri, iv, ek, cb, mc>>
<1>1. sealed[a] \in Range(sealed)
  BY SealedFacts
<1>2. ASSUME NEW i \in DOMAIN sealed, sealed[i].kind = "rsa", sealed[i].mac = mc, NEW x
      PROVE  LET q == GcmDecrypt(x, iv, cb, nd, mc)
             IN  /\ q.ok => /\ x = i /\ iv = sealed[i].iv /\ cb = sealed[i].ciphertext
                            /\ q.plaintext = sealed[i].text
                 /\ x = i /\ iv = sealed[i].iv /\ cb = sealed[i].ciphertext =>
                      q.ok \/ sealed[i].text = <<>>
  <2>1. PICK t, R, v, u : t = sealed[i].text /\ R = Range(sealed[i].text) /\ v = sealed[i].iv /\ u = cb
    OBVIOUS
  <2>2. t \in Seq(R) /\ SealedInv(i)
    BY <2>1, SealedFacts
  <2>3. /\ v.bytes = GCM_IV_BYTES /\ sealed[i].ciphertext = GcmEncrypt(i, v, t).ciphertext
        /\ mc = GcmEncrypt(i, v, t).mac
    BY <1>2, <2>1, <2>2 DEF SealedInv
  <2> DEFINE g == GcmEncrypt(i, v, t)
             q == GcmDecrypt(x, iv, u, nd, g.mac)
  <2>4. /\ q.ok => x = i /\ iv = v /\ u = g.ciphertext /\ q.plaintext = t
        /\ x = i /\ iv = v /\ u = g.ciphertext => q.ok \/ t = <<>>
    <3>1. t \in Seq(R) /\ v.bytes = GCM_IV_BYTES
      BY <2>2, <2>3
    <3>2. GcmAnswers(i, v, t, x, iv, u, nd)
      BY <3>1, GcmOpens
    <3>3. QED
      BY <3>2 DEF GcmAnswers
  <2> HIDE DEF g
  <2>5. mc = g.mac /\ sealed[i].ciphertext = g.ciphertext
    BY <2>3 DEF g
  <2>6. QED
    BY <2>1, <2>4, <2>5
<1>3. (k.ok <=> sealed[a].pair = pri) /\ (k.ok => k.key = a)
  BY KeyFacts
<1>4. \A e \in Range(sealed) : ArgsOf(e) = args =>
        e = sealed[a] /\ e.pair = pri /\ e.iv = iv /\ e.ciphertext = cb /\ e.mac = mc
  BY ArgsAre
<1>5. r = IF k.ok THEN GcmDecrypt(k.key, iv, cb, nd, mc) ELSE Failed
  BY DEF RsaEnvOpen
<1>6. sealed[a].pair = pri /\ sealed[a].iv = iv /\ sealed[a].ciphertext = cb /\ sealed[a].mac = mc
      => ArgsOf(sealed[a]) = args
  BY DEF ArgsOf
<1> HIDE DEF args, k, r
<1>7. CASE sealed[a].pair # pri
  <2>1. ~r.ok
    BY <1>3, <1>5, <1>7 DEF Failed
  <2>2. QED
    BY <1>4, <1>7, <2>1 DEF OpenedTrue, args, r
<1>8. CASE sealed[a].pair = pri
  <2> DEFINE q == GcmDecrypt(a, iv, cb, nd, mc)
  <2>1. r = q
    BY <1>3, <1>5, <1>8
  <2>2. q.ok => /\ a = c /\ iv = sealed[c].iv /\ cb = sealed[c].ciphertext
                /\ q.plaintext = sealed[c].text
    BY <1>2
  <2>3. sealed[a].mac = mc /\ iv = sealed[a].iv /\ cb = sealed[a].ciphertext =>
          q.ok \/ sealed[a].text = <<>>
    BY <1>2
  <2> HIDE DEF q
  <2>4. CASE r.ok
    <3>1. ArgsOf(sealed[a]) = args /\ sealed[a].text = r.plaintext
      BY <1>6, <1>8, <2>1, <2>2, <2>4
    <3>2. QED
      BY <1>1, <2>4, <3>1 DEF OpenedTrue, args, r
  <2>5. CASE ~r.ok
    <3>1. \A e \in Range(sealed) : ArgsOf(e) = args => MayNotOpen(e)
      BY <1>4, <2>1, <2>3, <2>5 DEF MayNotOpen
    <3>2. QED
      BY <2>5, <3>1 DEF OpenedTrue, args, r
  <2>6. QED
    BY <2>4, <2>5
<1>9. QED
  BY <1>7, <1>8

\* Sealing one more: its key is not that of an earlier attempt.
LEMMA SealStep == EnvelopeInv /\ Seal => EnvelopeInv'
<1> SUFFICES ASSUME EnvelopeInv, Seal PROVE EnvelopeInv'
  OBVIOUS
<1> DEFINE n == Len(sealed) + 1
<1>1. Len(sealed) \in Nat /\ DOMAIN sealed = 1 .. Len(sealed) /\ n \in Nat
  BY SealedFacts
<1>2. PICK e : /\ sealed' = Append(sealed, e)
               /\ e.encrypted_key = EncryptKey(e.pair, n) /\ e.text \in Texts
               /\ \/ /\ e.kind = "sm" /\ e.mac = <<>>
                     /\ \E m \in Memory : e.ciphertext = Sm4MteEncrypt(n, e.iv, m, e.text)
                  \/ /\ e.kind = "rsa" /\ e.iv.bytes = GCM_IV_BYTES
                     /\ e.ciphertext = GcmEncrypt(n, e.iv, e.text).ciphertext
                     /\ e.mac = GcmEncrypt(n, e.iv, e.text).mac
  <2>1. PICK pair \in Pairs, iv \in Ivs, text \in Texts :
          (\E m \in Memory : SmEnvSeal(pair, iv, m, text)) \/ RsaEnvSeal(pair, iv, text)
    BY DEF Seal
  <2> HIDE DEF n
  <2>2. n = GenRandKey
    BY DEF GenRandKey, n
  <2>3. CASE \E m \in Memory : SmEnvSeal(pair, iv, m, text)
    <3>0. PICK m \in Memory : SmEnvSeal(pair, iv, m, text)
      BY <2>3
    <3> DEFINE e == Envelope("sm", pair, iv, text, EncryptKey(pair, n),
                             Sm4MteEncrypt(n, iv, m, text), <<>>)
    <3>1. sealed' = Append(sealed, e)
      BY <2>2, <3>0 DEF SmEnvSeal
    <3>2. /\ e.kind = "sm" /\ e.pair = pair /\ e.iv = iv /\ e.text = text /\ e.mac = <<>>
          /\ e.encrypted_key = EncryptKey(pair, n) /\ e.ciphertext = Sm4MteEncrypt(n, iv, m, text)
      BY DEF Envelope
    <3> HIDE DEF e
    <3>3. QED
      BY <3>1, <3>2
  <2>4. CASE RsaEnvSeal(pair, iv, text)
    <3> DEFINE r == GcmEncrypt(n, iv, text)
               e == Envelope("rsa", pair, iv, text, EncryptKey(pair, n), r.ciphertext, r.mac)
    <3>1. sealed' = Append(sealed, e) /\ iv.bytes = GCM_IV_BYTES
      BY <2>2, <2>4 DEF RsaEnvSeal
    <3>2. /\ e.kind = "rsa" /\ e.pair = pair /\ e.iv = iv /\ e.text = text /\ e.mac = r.mac
          /\ e.encrypted_key = EncryptKey(pair, n) /\ e.ciphertext = r.ciphertext
      BY DEF Envelope
    <3> HIDE DEF e
    <3>3. QED
      BY <3>1, <3>2
  <2>5. QED
    BY <2>1, <2>3, <2>4
<1>3. /\ Len(sealed') = n /\ DOMAIN sealed' = 1 .. n
      /\ sealed'[n] = e /\ \A i \in DOMAIN sealed : sealed'[i] = sealed[i]
      /\ sealed' = [i \in 1 .. n |-> sealed'[i]]
  <2> DEFINE Q == Range(sealed) \cup {e}
  <2>1. sealed \in Seq(Q) /\ e \in Q
    <3>1. sealed \in Seq(Range(sealed))
      BY DEF EnvelopeInv
    <3>2. QED
      BY <3>1
  <2> HIDE DEF Q
  <2>2. PICK s, q : s = sealed /\ q = Append(s, e)
    OBVIOUS
  <2>3. s \in Seq(Q) /\ q = sealed'
    BY <1>2, <2>1, <2>2
  <2>4. /\ Len(q) = Len(s) + 1 /\ q \in Seq(Q)
        /\ \A i \in 1 .. Len(s) : q[i] = s[i]
        /\ q[Len(s) + 1] = e
    <3>1. /\ Append(s, e) \in Seq(Q) /\ Len(Append(s, e)) = Len(s) + 1
          /\ \A i \in 1 .. Len(s) : Append(s, e)[i] = s[i]
          /\ Append(s, e)[Len(s) + 1] = e
      BY <2>1, <2>3, AppendProperties
    <3>2. QED
      BY <2>2, <3>1, Zenon
  <2>5. DOMAIN q = 1 .. Len(q) /\ q = [i \in 1 .. Len(q) |-> q[i]]
    BY <2>4
  <2>6. QED
    BY <1>1, <2>2, <2>3, <2>4, <2>5
<1> HIDE DEF n
<1>4. n \in 1 .. n /\ \A i \in 1 .. n : i = n \/ i \in DOMAIN sealed
  BY <1>1 DEF n
<1>5. /\ \A f \in Range(sealed) : f \in Range(sealed')
      /\ \A f \in Range(sealed') : f = e \/ f \in Range(sealed)
      /\ \A i \in 1 .. n : sealed'[i] \in Range(sealed')
  <2>1. \A i \in DOMAIN sealed : i \in DOMAIN sealed'
    BY <1>1, <1>3 DEF n
  <2>2. QED
    BY <1>3, <1>4, <2>1 DEF Range
<1>6. sealed' \in Seq(Range(sealed'))
  BY <1>1, <1>3, <1>5
<1>7. ASSUME NEW i \in DOMAIN sealed' PROVE SealedInv(i)'
  <2>1. CASE i = n
    BY <1>2, <1>3, <2>1 DEF SealedInv
  <2>2. CASE i # n
    <3>1. i \in DOMAIN sealed /\ sealed'[i] = sealed[i]
      BY <1>3, <1>4, <2>2
    <3>2. SealedInv(i)
      BY <3>1, SealedFacts
    <3>3. QED
      BY <3>1, <3>2 DEF SealedInv
  <2>3. QED
    BY <2>1, <2>2
<1>8. opened' = opened
  BY DEF Seal
<1>9. opened # <<>> => opened.args[4].key \in DOMAIN sealed
  BY DEF EnvelopeInv
<1>10. opened' # <<>> => opened'.args[4].key \in DOMAIN sealed'
  BY <1>1, <1>3, <1>8, <1>9 DEF n
<1>11. EnvelopeTrue'
  <2> SUFFICES ASSUME opened # <<>>
               PROVE  IF opened.result.ok
                      THEN \E f \in Range(sealed') :
                             ArgsOf(f) = opened.args /\ f.text = opened.result.plaintext
                      ELSE \A f \in Range(sealed') :
                             ArgsOf(f) = opened.args => MayNotOpen(f)
    BY <1>8 DEF EnvelopeTrue
  <2>1. OpenedTrue(opened.args, opened.result)
    BY DEF EnvelopeInv, EnvelopeTrue, OpenedTrue
  <2>2. ArgsOf(e) # opened.args
    <3>1. ArgsOf(e)[4] = e.encrypted_key
      BY DEF ArgsOf
    <3>2. e.encrypted_key.key = n
      BY <1>2 DEF EncryptKey
    <3>3. n \notin DOMAIN sealed
      BY <1>1 DEF n
    <3>4. QED
      BY <1>9, <3>1, <3>2, <3>3
  <2>3. QED
    BY <1>5, <2>1, <2>2 DEF OpenedTrue
<1>12. QED
  BY <1>6, <1>7, <1>10, <1>11 DEF EnvelopeInv

\* An attempt to open an envelope.
LEMMA OpenStep == EnvelopeInv /\ Open => EnvelopeInv'
<1> SUFFICES ASSUME EnvelopeInv, Open PROVE EnvelopeInv'
  OBVIOUS
<1>1. sealed' = sealed
  BY DEF Open
<1>2. PICK args, result : /\ opened' = [args |-> args, result |-> result]
                          /\ args[4].key \in DOMAIN sealed /\ OpenedTrue(args, result)
  <2>1. PICK pri \in Pairs, iv \in Ivs, a, b, c \in DOMAIN sealed,
             now \in Memory, nd \in BOOLEAN :
          LET kind == sealed[a].kind
              encrypted_key == sealed[a].encrypted_key
              ciphertext == sealed[b].ciphertext
              mac == IF kind = "sm" THEN <<>> ELSE sealed[c].mac
          IN  /\ kind = "sm" => c = b
              /\ sealed[b].kind = kind /\ sealed[c].kind = kind
              /\ opened' =
                   [args |-> <<kind, pri, iv, encrypted_key, ciphertext, mac>>,
                    result |-> IF kind = "sm"
                               THEN SmEnvOpen(pri, iv, now, encrypted_key, ciphertext)
                               ELSE RsaEnvOpen(pri, iv, encrypted_key, ciphertext, nd, mac)]
    BY Zenon DEF Open
  <2>2. SealedInv(a) /\ sealed[a].encrypted_key.key = a
    BY SealedFacts
  <2> DEFINE ek == sealed[a].encrypted_key
             cb == sealed[b].ciphertext
             mc == sealed[c].mac
  <2>3. CASE sealed[a].kind = "sm"
    <3> DEFINE args == <<"sm", pri, iv, ek, cb, <<>>>>
               result == SmEnvOpen(pri, iv, now, ek, cb)
    <3>1. opened' = [args |-> args, result |-> result]
      BY <2>1, <2>3
    <3>2. OpenedTrue(args, result)
      BY <2>1, <2>3, SmTrue
    <3>3. args[4].key \in DOMAIN sealed
      BY <2>2
    <3> HIDE DEF args, result
    <3>4. QED
      BY <3>1, <3>2, <3>3
  <2>4. CASE sealed[a].kind = "rsa"
    <3> DEFINE args == <<"rsa", pri, iv, ek, cb, mc>>
               result == RsaEnvOpen(pri, iv, ek, cb, nd, mc)
    <3>1. opened' = [args |-> args, result |-> result]
      BY <2>1, <2>4
    <3>2. OpenedTrue(args, result)
      BY <2>1, <2>4, RsaTrue
    <3>3. args[4].key \in DOMAIN sealed
      BY <2>2
    <3> HIDE DEF args, result
    <3>4. QED
      BY <3>1, <3>2, <3>3
  <2>5. QED
    BY <2>2, <2>3, <2>4 DEF SealedInv
<1>3. \A i \in DOMAIN sealed : SealedInv(i)'
  <2>1. ASSUME NEW i \in DOMAIN sealed PROVE SealedInv(i)'
    <3>1. SealedInv(i)
      BY SealedFacts
    <3>2. QED
      BY <1>1, <3>1 DEF SealedInv
  <2>2. QED
    BY <2>1
<1>4. opened'.args = args /\ opened'.result = result
  BY <1>2
<1>5. EnvelopeTrue'
  BY <1>1, <1>2, <1>4 DEF EnvelopeTrue, OpenedTrue
<1>6. QED
  BY <1>1, <1>2, <1>3, <1>4, <1>5 DEF EnvelopeInv

-----------------------------------------------------------------------------
(* The three families together.                                            *)

\* What holds of variables that a step leaves alone.
LEMMA DigestKept == DigestInv /\ UNCHANGED digestVars => DigestInv'
<1> SUFFICES ASSUME DigestInv, UNCHANGED digestVars PROVE DigestInv'
  OBVIOUS
<1>1. hasher' = hasher /\ fed' = fed /\ digest' = digest
  BY DEF digestVars
<1>2. \A h \in Hashers : HasherInv(h) => HasherInv(h)'
  BY <1>1 DEF HasherInv
<1>3. DigestTrue'
  BY <1>1 DEF DigestInv, DigestTrue
<1>4. hasher' = [h \in Hashers |-> hasher'[h]] /\ fed' = [h \in Hashers |-> fed'[h]]
  BY <1>1 DEF DigestInv
<1>5. \A h \in Hashers : hasher'[h] # <<>> => HasherInv(h)'
  BY <1>1, <1>2 DEF DigestInv
<1>6. QED
  BY <1>3, <1>4, <1>5 DEF DigestInv

\* The same of the generators.
LEMMA GeneratorKept == GeneratorInv /\ UNCHANGED vars => GeneratorInv'
BY DEF GeneratorInv, vars

\* The same of the envelopes.
LEMMA EnvelopeKept == EnvelopeInv /\ UNCHANGED envVars => EnvelopeInv'
<1> SUFFICES ASSUME EnvelopeInv, UNCHANGED envVars PROVE EnvelopeInv'
  OBVIOUS
<1>1. sealed' = sealed /\ opened' = opened
  BY DEF envVars
<1>2. \A i \in DOMAIN sealed : SealedInv(i)'
  BY <1>1 DEF EnvelopeInv, SealedInv
<1>3. EnvelopeTrue'
  BY <1>1 DEF EnvelopeInv, EnvelopeTrue
<1>4. QED
  BY <1>1, <1>2, <1>3 DEF EnvelopeInv

\* Initially there is no object and no envelope.
LEMMA CryptoInitial == CryptoInit => CryptoInv
<1> SUFFICES ASSUME CryptoInit PROVE CryptoInv
  OBVIOUS
<1>1. DigestInit /\ EnvelopeInit /\ obj = [g \in Gens |-> <<>>]
  BY DEF CryptoInit, GeneratorsIdle, Init
<1>2. DigestInv
  <2>1. /\ hasher = [h \in Hashers |-> hasher[h]] /\ fed = [h \in Hashers |-> fed[h]]
        /\ \A h \in Hashers : hasher[h] = <<>>
    BY <1>1 DEF DigestInit
  <2>2. DigestTrue
    BY <1>1 DEF DigestInit, DigestTrue
  <2>3. QED
    BY <2>1, <2>2 DEF DigestInv
<1>3. GeneratorInv
  BY <1>1 DEF GeneratorInv
<1>4. EnvelopeInv
  <2>1. sealed = <<>> /\ opened = <<>>
    BY <1>1 DEF EnvelopeInit
  <2>2. sealed \in Seq(Range(sealed)) /\ DOMAIN sealed = {}
    BY <2>1
  <2>3. EnvelopeTrue
    BY <2>1 DEF EnvelopeTrue
  <2>4. QED
    BY <2>1, <2>2, <2>3 DEF EnvelopeInv
<1>5. QED
  BY <1>2, <1>3, <1>4 DEF CryptoInv

\* A step of any family.
LEMMA CryptoStep == CryptoInv /\ [CryptoNext]_cryptoVars => CryptoInv'
<1> SUFFICES ASSUME CryptoInv, [CryptoNext]_cryptoVars PROVE CryptoInv'
  OBVIOUS
<1>1. DigestInv /\ GeneratorInv /\ EnvelopeInv
  BY DEF CryptoInv
<1>2. DigestNext \/ UNCHANGED digestVars
  BY DEF CryptoNext, cryptoVars
<1>3. Next \/ UNCHANGED vars
  BY DEF CryptoNext, cryptoVars
<1>4. Seal \/ Open \/ UNCHANGED envVars
  BY DEF CryptoNext, EnvelopeNext, cryptoVars
<1>5. DigestInv'
  BY <1>1, <1>2, DigestStep, DigestKept
<1>6. GeneratorInv'
  BY <1>1, <1>3, GeneratorStep, GeneratorKept
<1>7. EnvelopeInv'
  BY <1>1, <1>4, SealStep, OpenStep, EnvelopeKept
<1>8. QED
  BY <1>5, <1>6, <1>7 DEF CryptoInv

-----------------------------------------------------------------------------
\* The inductive invariant of hash objects, generators and envelopes holds always.
THEOREM Invariance == CryptoSpec => []CryptoInv
BY CryptoInitial, CryptoStep, PTL DEF CryptoSpec

\* However Update, Reset and CumulativeHash or CumulativeMac follow each other, a digest is
\* the object's function of all the data since its construction or the last Reset (SslHash
\* of SHA224 excepted).
THEOREM DigestsTrue == CryptoSpec => []DigestTrue
<1>1. CryptoInv => DigestTrue
  BY DEF CryptoInv, DigestInv
<1>2. QED
  BY <1>1, Invariance, PTL

\* No generator answers more requests with one seed than its interval allows, even if
\* reseeding throws in the middle; what the callbacks of NistAesDrbg copy fits their arrays
\* and has the entropy of the security strength.
THEOREM SeedsStaySound == CryptoSpec => []SeedsSound
<1>1. CryptoInv => SeedsSound
  BY SeedsFromInv DEF CryptoInv
<1>2. QED
  BY <1>1, Invariance, PTL

\* SmEnvOpen and RsaEnvOpen give back what SmEnvSeal and RsaEnvSeal have closed, and accept
\* neither another key or vector nor parts of two envelopes, whatever the batch size of the
\* counter mode.  Empty texts, and those that SmEnvSeal closed under a vector of less than 16
\* bytes, may be refused.
THEOREM EnvelopesTrue == CryptoSpec => []EnvelopeTrue
<1>1. CryptoInv => EnvelopeTrue
  BY DEF CryptoInv, EnvelopeInv
<1>2. QED
  BY <1>1, Invariance, PTL

=============================================================================
