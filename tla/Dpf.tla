-------------------------------- MODULE Dpf --------------------------------
(***************************************************************************)
(* The distributed point function (yasl/mpctools/dpf): Gen makes two keys  *)
(* for the function that is beta at alpha and 0 elsewhere; each of two     *)
(* parties evaluates its key, at one point (Eval) or at all (EvalAll), and *)
(* the two results add up to the function modulo 2^ss_bitnum.              *)
(*                                                                         *)
(* One level of Gen, of Eval and of the recursion of EvalAll is one step.  *)
(* Seeds are sets of bit positions, exclusive or is SymDiff; the random    *)
(* generators are any functions on them (prg), as the result must not      *)
(* depend on what they return.                                             *)
(***************************************************************************)
EXTENDS Powers, Integers, Sequences, FiniteSetsExt, SequencesExt

CONSTANTS
  SeedBits,   \* bit positions of a seed: 0 .. 127 in the code
  Prgs,       \* the generators: [split : seed -> [seed, t], next : seed -> seed]
  MasterKeys, \* pairs of master seeds, as functions of the rank
  InBits,     \* values of in_bitnum
  SsBits,     \* values of ss_bitnum
  Points,     \* values of alpha and of the argument of Eval
  Reach,      \* Reach[n]: the largest number whose natural logarithm is below n
  EvalAllBits,\* the largest in_bitnum that EvalAll takes: 25 in the code
  Betas,      \* values of beta
  HalfBits    \* bits of half a number of 128 bits: 64 in the code

Ranks == {0, 1}
kSecParam == 128

ASSUME DpfAssumption ==
  /\ SeedBits \subseteq 0 .. kSecParam - 1 /\ HalfBits \in Nat
  /\ InBits \subseteq 1 .. 63 /\ SsBits \subseteq 1 .. 64 /\ Betas \subseteq Nat
  /\ Points \subseteq Nat /\ EvalAllBits \in Nat
  /\ \A p \in Prgs :
       /\ p.split \in [SUBSET SeedBits -> [seed : [{0, 1} -> SUBSET SeedBits],
                                           t : [{0, 1} -> BOOLEAN]]]
       /\ p.next \in [SUBSET SeedBits -> SUBSET SeedBits]
  /\ \A m \in MasterKeys : \A r \in Ranks : m[r] \subseteq SeedBits

VARIABLES
  in_bitnum, ss_bitnum, alpha, beta, enable_evalall, prg, mk,
  wrapped,       \* what each machine makes of a negative double as a size_t
  glevel,        \* the levels Gen has done
  seeds_working, t_working,   \* of Gen, per rank
  cws_vec, last_cw_vec,       \* the words both keys share
  trail,         \* the working seeds and bits of Gen at every level
  keys,          \* per rank, the key as its party has deserialized it
  x,             \* the point of Eval
  walk,          \* per rank, the nodes still to be visited
  shares         \* per rank, the results: position -> value

dpfVars == <<in_bitnum, ss_bitnum, alpha, beta, enable_evalall, prg, mk, wrapped, glevel,
             seeds_working, t_working, cws_vec, last_cw_vec, trail, keys, x, walk, shares>>
-----------------------------------------------------------------------------
GetBit(v, i) == (v \div Pow2[i]) % 2

(* A seed as the number it is added as.                                    *)
SeedNum(s) ==
  LET low[k \in 0 .. kSecParam] ==
        IF k = 0 THEN 0 ELSE low[k - 1] + (IF k - 1 \in s THEN Pow2[k - 1] ELSE 0)
  IN  low[kSecParam]

(* Mutant: one's complement.                                               *)
ReverseSs_NoCarry(v) == Pow2[ss_bitnum] - 1 - (v % Pow2[ss_bitnum])

TruncateSs(v) == v % Pow2[ss_bitnum]
ReverseSs(v) == TruncateSs(Pow2[ss_bitnum] - TruncateSs(v))

(* GetTerminateLevel: ceil(n - log(sec_param / ss_bitnum)), the quotient   *)
(* being an integer and the logarithm natural.  Below zero the conversion  *)
(* to size_t is undefined: a machine has a huge value, or 0.  Gen runs on  *)
(* one machine and each party on its own.                                  *)
Dealer == 2
Machines == Ranks \cup {Dealer}
FloorLog(r) == Max({k \in 0 .. 4 : r >= (<<1, 3, 8, 21, 55>>)[k + 1]})
LevelOf(machine) ==
  LET y == in_bitnum - FloorLog(kSecParam \div ss_bitnum)
  IN  IF ~enable_evalall THEN in_bitnum
      ELSE IF y >= 0 THEN Min({in_bitnum, y})
      ELSE IF wrapped[machine] THEN in_bitnum ELSE 0

GetTerminateLevel == LevelOf(Dealer)

(* Rank r can evaluate its key.  EvalAll takes domains of at most          *)
(* EvalAllBits bits, and must come to the level at which Gen ended.  At    *)
(* another level Traverse reads past the end of cws_vec or of last_cw_vec, *)
(* which is undefined, and nothing is said of what it returns, if it does. *)
CanEval(r) ==
  enable_evalall => in_bitnum <= EvalAllBits /\ LevelOf(r) = GetTerminateLevel

expand_num == Pow2[in_bitnum - GetTerminateLevel]

(* in_bitnum > log(v): the natural logarithm lets v reach e^in_bitnum, and *)
(* so beyond the 2^in_bitnum points.                                       *)
Admitted(v) == v <= Reach[in_bitnum]

(* A correction word keeps its two bits in t_store, the left one lowest.   *)
MakeCw(seed, t_left, t_right) ==
  [seed |-> seed, t_store |-> (IF t_right THEN 2 ELSE 0) + (IF t_left THEN 1 ELSE 0)]
GetT(cw, side) == (cw.t_store \div Pow2[side]) % 2 = 1
(* DpfKey::Serialize and Deserialize: seeds and last words go as two       *)
(* halves, the pair of control bits as one number.                         *)
DecomposeSeed(s) == [hi |-> {b - HalfBits : b \in {b \in s : b >= HalfBits}},
                     lo |-> {b \in s : b < HalfBits}]
MakeSeed(p) == {b + HalfBits : b \in p.hi} \cup p.lo
DecomposeNumber(v) == [hi |-> v \div Pow2[HalfBits], lo |-> v % Pow2[HalfBits]]
MakeNumber(p) == p.hi * Pow2[HalfBits] + p.lo

Serialize(key) ==
  [rank |-> key.rank, mseed |-> DecomposeSeed(key.mseed), enable_evalall |-> key.enable_evalall,
   cws_vec |-> [i \in DOMAIN key.cws_vec |->
                  [seed |-> DecomposeSeed(key.cws_vec[i].seed), t_store |-> key.cws_vec[i].t_store]],
   last_cw_vec |-> [i \in DOMAIN key.last_cw_vec |-> DecomposeNumber(key.last_cw_vec[i])]]
Deserialize(proto) ==
  [rank |-> proto.rank, mseed |-> MakeSeed(proto.mseed), enable_evalall |-> proto.enable_evalall,
   cws_vec |-> [i \in DOMAIN proto.cws_vec |->
                  [seed |-> MakeSeed(proto.cws_vec[i].seed), t_store |-> proto.cws_vec[i].t_store]],
   last_cw_vec |-> [i \in DOMAIN proto.last_cw_vec |-> MakeNumber(proto.last_cw_vec[i])]]
-----------------------------------------------------------------------------
DpfInit ==
  /\ in_bitnum \in InBits /\ ss_bitnum \in SsBits
  /\ alpha \in {a \in Points : Admitted(a)} /\ beta \in Betas
  /\ enable_evalall \in BOOLEAN /\ wrapped \in [Machines -> BOOLEAN]
  /\ prg \in Prgs /\ mk \in MasterKeys
  /\ glevel = 0
  /\ seeds_working = mk /\ t_working = [r \in Ranks |-> r = 1]
  /\ cws_vec = <<>> /\ last_cw_vec = <<>>
  /\ trail = <<[seed |-> seeds_working, t |-> t_working]>>
  /\ keys = <<>> /\ x = 0
  /\ walk = [r \in Ranks |-> <<>>] /\ shares = [r \in Ranks |-> <<>>]

params == <<in_bitnum, ss_bitnum, alpha, beta, enable_evalall, prg, mk, wrapped>>

(* What a round of the loop of Gen makes of the working seeds and bits:    *)
(* both seeds are split; the correction word makes the children off the    *)
(* path to alpha equal, and keeps exactly one control bit set on it.       *)
Corrected(gen, alpha_bit, seeds, ts) ==
  LET split == [r \in Ranks |-> gen.split[seeds[r]]]
      lose == 1 - alpha_bit
      cw_seed == SymDiff(split[0].seed[lose], split[1].seed[lose])
      cw_t == [s \in {0, 1} |-> (split[0].t[s] # split[1].t[s]) # (alpha_bit = s)]
  IN  [cw |-> MakeCw(cw_seed, cw_t[0], cw_t[1]),
       seed |-> [r \in Ranks |-> IF ts[r] THEN SymDiff(split[r].seed[alpha_bit], cw_seed)
                                 ELSE split[r].seed[alpha_bit]],
       t |-> [r \in Ranks |-> split[r].t[alpha_bit] # (ts[r] /\ cw_t[alpha_bit])]]

GenLevel ==
  /\ glevel < GetTerminateLevel /\ last_cw_vec = <<>>
  /\ LET next == Corrected(prg, GetBit(alpha, glevel), seeds_working, t_working)
     IN  /\ seeds_working' = next.seed
         /\ t_working' = next.t
         /\ cws_vec' = Append(cws_vec, next.cw)
         /\ trail' = Append(trail, [seed |-> next.seed, t |-> next.t])
  /\ glevel' = glevel + 1
  /\ UNCHANGED <<params, last_cw_vec, keys, x, walk, shares>>

(* DpfPRG applied i + 1 times.                                             *)
PrgChain(gen, seed, i) ==
  LET c[k \in 0 .. i] == gen.next[IF k = 0 THEN seed ELSE c[k - 1]] IN SeedNum(c[i])

(* Where an evaluation of a key starts.                                    *)
Root(key) == [level |-> 0, pos |-> 0, seed |-> key.mseed, t |-> key.rank = 1]

(* The end of Gen: the words that turn the two last values into shares of  *)
(* beta at alpha's position and of 0 at the other ones.  The parties get   *)
(* the keys and start at the root; Eval is asked for a point it admits,    *)
(* and EvalAll gives up at once where it cannot have a result.             *)
LastWord(i) ==
  LET plain == TruncateSs((IF ~enable_evalall \/ i = alpha \div Pow2[GetTerminateLevel]
                           THEN beta ELSE 0)
                          + ReverseSs(PrgChain(prg, seeds_working[0], i))
                          + TruncateSs(PrgChain(prg, seeds_working[1], i)))
  IN  IF t_working[1] THEN ReverseSs(plain) ELSE plain

GenLast ==
  /\ glevel = GetTerminateLevel /\ last_cw_vec = <<>>
  /\ last_cw_vec' = [i \in 1 .. (IF enable_evalall THEN expand_num ELSE 1) |-> LastWord(i - 1)]
  /\ LET key(r) == [rank |-> r, mseed |-> mk[r], enable_evalall |-> enable_evalall,
                    cws_vec |-> cws_vec, last_cw_vec |-> last_cw_vec']
     IN  keys' = [r \in Ranks |-> Deserialize(Serialize(key(r)))]
  /\ walk' = [r \in Ranks |-> IF CanEval(r) THEN <<Root(keys'[r])>> ELSE <<>>]
  /\ x' \in IF enable_evalall THEN {0} ELSE {v \in Points : Admitted(v)}
  /\ UNCHANGED <<params, glevel, seeds_working, t_working, cws_vec, trail, shares>>

(* The child of a node on one side, corrected if the control bit is set.   *)
Child(gen, key, node, side) ==
  LET cw == key.cws_vec[node.level + 1]
      split == gen.split[node.seed]
  IN  [level |-> node.level + 1,
       pos |-> node.pos + side * Pow2[node.level],
       seed |-> IF node.t THEN SymDiff(split.seed[side], cw.seed) ELSE split.seed[side],
       t |-> split.t[side] # (node.t /\ GetT(cw, side))]

ShareOf(key, node, i) ==
  LET v == TruncateSs(PrgChain(prg, node.seed, i))
           + (IF node.t THEN key.last_cw_vec[i + 1] ELSE 0)
  IN  IF key.rank = 1 THEN ReverseSs(v) ELSE TruncateSs(v)

(* A round of Eval for rank r, and its result.                             *)
DpfEval(r) ==
  /\ walk[r] # <<>> /\ ~keys[r].enable_evalall
  /\ LET node == Head(walk[r])
     IN  IF node.level < in_bitnum
         THEN /\ walk' = [walk EXCEPT ![r] = <<Child(prg, keys[r], node, GetBit(x, node.level))>>]
              /\ UNCHANGED shares
         ELSE /\ walk' = [walk EXCEPT ![r] = <<>>]
              /\ shares' = [shares EXCEPT ![r] = @ \o <<<<x, ShareOf(keys[r], node, 0)>>>>]
  /\ UNCHANGED <<params, glevel, seeds_working, t_working, cws_vec, last_cw_vec, trail, keys, x>>

(* A call of Traverse for rank r: the left child, then the right one, or   *)
(* the results of a node of the last level, which CanEval(r) says is the   *)
(* same for rank r and for Gen.                                            *)
Traverse(r) ==
  /\ walk[r] # <<>> /\ keys[r].enable_evalall
  /\ LET node == Head(walk[r])
     IN  IF node.level < GetTerminateLevel
         THEN /\ walk' = [walk EXCEPT ![r] =
                   <<Child(prg, keys[r], node, 0), Child(prg, keys[r], node, 1)>> \o Tail(@)]
              /\ UNCHANGED shares
         ELSE /\ walk' = [walk EXCEPT ![r] = Tail(@)]
              /\ shares' = [shares EXCEPT ![r] = @ \o [i \in 1 .. expand_num |->
                   <<node.pos + (i - 1) * Pow2[GetTerminateLevel], ShareOf(keys[r], node, i - 1)>>]]
  /\ UNCHANGED <<params, glevel, seeds_working, t_working, cws_vec, last_cw_vec, trail, keys, x>>

DpfNext == GenLevel \/ GenLast \/ \E r \in Ranks : DpfEval(r) \/ Traverse(r)
-----------------------------------------------------------------------------
(* What the evaluation rests on: wherever the two parties look at the same *)
(* node, on the path to alpha they are where Gen was, with control bits    *)
(* that differ, and off the path they hold the same seed and the same bit. *)
NodesAgree ==
  \A i \in DOMAIN walk[0], j \in DOMAIN walk[1] :
    LET a == walk[0][i]
        b == walk[1][j]
    IN  (a.level = b.level /\ a.pos = b.pos) =>
          IF a.pos = alpha % Pow2[a.level]
          THEN /\ a.seed = trail[a.level + 1].seed[0] /\ b.seed = trail[a.level + 1].seed[1]
               /\ a.t # b.t
          ELSE a.seed = b.seed /\ a.t = b.t

(* The points of the domain.  Gen and Eval take larger ones, too, and look *)
(* at their lowest in_bitnum bits only (dpf.cc:73, 190).                   *)
InDomain(p) == p < Pow2[in_bitnum]

(* Eval and EvalAll: for alpha and positions of the domain, the two shares *)
(* of a position add up to beta at alpha and to 0 elsewhere, modulo        *)
(* 2^ss_bitnum, whatever the generators return (dpf.h:35); and EvalAll,    *)
(* where it is defined, fills every position once.  Points past the domain *)
(* that Gen and Eval take are excepted: there the sum is beta at every x   *)
(* that is alpha modulo 2^in_bitnum, and not at alpha only.                *)
PointFunction ==
  /\ InDomain(alpha) =>
       \A i \in DOMAIN shares[0], j \in DOMAIN shares[1] :
         (shares[0][i][1] = shares[1][j][1] /\ InDomain(shares[0][i][1])) =>
           TruncateSs(shares[0][i][2] + shares[1][j][2]) =
             TruncateSs(IF shares[0][i][1] = alpha THEN beta ELSE 0)
  /\ \A r \in Ranks :
       (enable_evalall /\ CanEval(r) /\ last_cw_vec # <<>> /\ walk[r] = <<>>) =>
         /\ Len(shares[r]) = Pow2[in_bitnum]
         /\ {shares[r][i][1] : i \in DOMAIN shares[r]} = 0 .. Pow2[in_bitnum] - 1

(* The two keys of Gen agree node by node and share the point function on  *)
(* the domain.                                                             *)
SharesAgree == NodesAgree /\ PointFunction
-----------------------------------------------------------------------------
(* The inductive invariant behind SharesAgree.  Gen: every correction word *)
(* and every entry of the trail is the one of the level before, and the    *)
(* two control bits of a level differ.                                     *)
TrailInv(k) ==
  /\ \A r \in Ranks : trail[k].seed[r] \subseteq SeedBits /\ trail[k].t[r] \in BOOLEAN
  /\ trail[k].t[0] # trail[k].t[1]

GenInv ==
  /\ in_bitnum \in Nat \ {0} /\ ss_bitnum \in 1 .. 64 /\ alpha \in Nat /\ beta \in Nat
  /\ enable_evalall \in BOOLEAN /\ prg \in Prgs /\ mk \in MasterKeys
  /\ glevel \in 0 .. GetTerminateLevel
  /\ cws_vec = [k \in 1 .. glevel |-> cws_vec[k]]
  /\ trail = [k \in 1 .. glevel + 1 |-> trail[k]]
  /\ trail[1] = [seed |-> mk, t |-> [r \in Ranks |-> r = 1]]
  /\ trail[glevel + 1] = [seed |-> seeds_working, t |-> t_working]
  /\ \A k \in 1 .. glevel + 1 : TrailInv(k)
  /\ \A k \in 1 .. glevel :
       LET next == Corrected(prg, GetBit(alpha, k - 1), trail[k].seed, trail[k].t)
       IN  cws_vec[k] = next.cw /\ trail[k + 1] = [seed |-> next.seed, t |-> next.t]

(* The nodes on the way to position p, by level.                           *)
PathTo(gen, key, depth, p) ==
  LET node[l \in 0 .. depth] == IF l = 0 THEN Root(key)
                                ELSE Child(gen, key, node[l - 1], GetBit(p, l - 1))
  IN  node
NodeAt(r, p, l) == PathTo(prg, keys[r], GetTerminateLevel, p)[l]

(* What a party still has to visit, and has put out, is of the tree of its *)
(* key.                                                                    *)
WalkInv(r) ==
  \A i \in DOMAIN walk[r] :
    LET a == walk[r][i]
    IN  /\ a.level \in 0 .. GetTerminateLevel /\ a.pos \in Nat /\ a = NodeAt(r, a.pos, a.level)
        /\ IF enable_evalall THEN a.pos < Pow2[a.level] ELSE a.pos = x % Pow2[a.level]

PieceOf(p) == IF enable_evalall THEN p \div Pow2[GetTerminateLevel] ELSE 0
ShareInv(r) ==
  \A i \in DOMAIN shares[r] :
    LET p == shares[r][i][1]
    IN  /\ p \in Nat /\ (enable_evalall => p < Pow2[in_bitnum])
        /\ shares[r][i] =
             <<p, ShareOf(keys[r], NodeAt(r, p, GetTerminateLevel), PieceOf(p))>>

(* EvalAll: every position is put out or below a node still to be visited, *)
(* and from[i] positions come before those below the i-th node.            *)
Covered(r) ==
  \A p \in 0 .. Pow2[in_bitnum] - 1 :
    \/ \E i \in DOMAIN shares[r] : shares[r][i][1] = p
    \/ \E i \in DOMAIN walk[r] : p % Pow2[walk[r][i].level] = walk[r][i].pos
Counted(r) ==
  \E from \in [1 .. Len(walk[r]) + 1 -> 0 .. Pow2[in_bitnum]] :
    /\ from[1] = Len(shares[r]) /\ from[Len(walk[r]) + 1] = Pow2[in_bitnum]
    /\ \A i \in DOMAIN walk[r] : from[i + 1] = from[i] + Pow2[in_bitnum - walk[r][i].level]

EvalInv(r) ==
  /\ walk[r] \in Seq(Range(walk[r])) /\ shares[r] \in Seq(Range(shares[r]))
  /\ WalkInv(r) /\ ShareInv(r)
  /\ IF enable_evalall THEN Covered(r) /\ Counted(r) ELSE Len(walk[r]) <= 1

KeysInv ==
  /\ glevel = GetTerminateLevel /\ x \in Nat
  /\ last_cw_vec = [i \in 1 .. (IF enable_evalall THEN expand_num ELSE 1) |-> LastWord(i - 1)]
  /\ keys = [r \in Ranks |->
       [rank |-> r, mseed |-> mk[r], enable_evalall |-> enable_evalall,
        cws_vec |-> cws_vec, last_cw_vec |-> last_cw_vec]]

DpfInv ==
  /\ GenInv
  /\ walk = [r \in Ranks |-> walk[r]] /\ shares = [r \in Ranks |-> shares[r]]
  /\ IF last_cw_vec = <<>> THEN \A r \in Ranks : walk[r] = <<>> /\ shares[r] = <<>>
     ELSE /\ KeysInv
          /\ \A r \in Ranks : IF CanEval(r) THEN EvalInv(r) ELSE walk[r] = <<>> /\ shares[r] = <<>>
=============================================================================
