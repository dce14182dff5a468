---------------------------- MODULE PuncturedOt ----------------------------
(***************************************************************************)
(* (n-1)-out-of-n random oblivious transfer                                *)
(* (yasl/mpctools/ot/punctured_rand_ot.cc): the sender expands a master    *)
(* seed into a binary tree of seeds; the receiver learns every leaf except *)
(* the one at its index, one level of the tree after the other, from       *)
(* log2(n) random transfers (those of BaseOt, the punctured sender being   *)
(* the base sender).                                                       *)
(*                                                                         *)
(* Seeds are symbolic: a set of atoms, read as their exclusive or; the two *)
(* seeds SplitSeed makes of a seed are atoms that name it.                 *)
(***************************************************************************)
EXTENDS BaseOt, Transpose, Powers, FiniteSets, SequencesExt

VARIABLES
  index,    \* the receiver's index
  level,    \* the levels of the tree the receiver has worked through
  hole,     \* empty_pos, the position of the missing seed in its level
  known,    \* temp_seed_vec of the receiver
  leaves,   \* entire_seeds, once the sender has them
  request,  \* the masked choice bits under way: at most one message
  dirty,    \* the bits that the uninitialised buffer has turned to 1
  answers,  \* the sender's messages, one per level, under way
  pPc       \* where the receiver is

puncVars == <<index, level, hole, known, leaves, request, dirty, answers, pPc>>

XorSeed(a, b) == SymDiff(a, b)
SplitSeed(seed) == [b \in 0 .. 1 |-> {<<"split", seed, b>>}]
master_seed == {<<"master">>}
BlockSeed(block) == {<<"rot", block>>}

ot_num == num

(* Mutant: least significant bit first.                                    *)
IndexBit_LowFirst(i) == (index \div Pow2[i - 1]) % 2

(* The bits of index, most significant bit first.                          *)
IndexBit(i) == (index \div Pow2[ot_num - i]) % 2

PuncInit(idx) ==
  /\ index = idx /\ level = 0 /\ hole = 0
  /\ known = <<>> /\ leaves = <<>>
  /\ request = <<>> /\ dirty = {} /\ answers = <<>>
  /\ pPc = "start"

(* BufferFromVectorBool: a length and bytes, lowest bit first.  Only       *)
(* vectors of at least two bits are accepted, and the bits are or-ed into  *)
(* a buffer that Buffer(size) has allocated and not cleared, whose old     *)
(* bits are junk.                                                          *)
BufferBytes(size) == 0 .. (size - 1) \div ByteBits

BufferFromVectorBool(bits, junk) ==
  [size |-> Len(bits),
   bytes |-> [k \in BufferBytes(Len(bits)) |-> [j \in 0 .. ByteBits - 1 |->
                LET i == k * ByteBits + j + 1
                IN  IF i \in junk \/ (i <= Len(bits) /\ bits[i] = 1) THEN 1 ELSE 0]]]

(* As many bits as the length says; those behind are never looked at.      *)
VectorBoolFromBuffer(buf) ==
  [i \in 1 .. buf.size |-> buf.bytes[(i - 1) \div ByteBits][(i - 1) % ByteBits]]

(* PuncturedROTRecv up to the first answer: each transfer is asked for the *)
(* side of the sibling of the path to the index.                           *)
PuncturedRecvStart ==
  /\ BaseRecvDone /\ pPc = "start"
  /\ LET masked_choices == [i \in 1 .. ot_num |->
           ((1 - IndexBit(i)) + (IF i - 1 \in choices THEN 1 ELSE 0)) % 2]
     IN  IF ot_num <= 1
         THEN pPc' = "failed" /\ UNCHANGED <<request, dirty>>
         ELSE \E junk \in SUBSET (1 .. Cardinality(BufferBytes(ot_num)) * ByteBits) :
                /\ request' = <<BufferFromVectorBool(masked_choices, junk)>>
                /\ dirty' = {i \in junk \cap 1 .. ot_num : masked_choices[i] = 0}
                /\ pPc' = "levels"
  /\ UNCHANGED <<index, level, hole, known, leaves, answers>>

(* The children of a level of seeds, left to right, and the exclusive or   *)
(* of those on one side: the atoms that are in an odd number of them.      *)
Children(seeds) ==
  [k \in 1 .. 2 * Len(seeds) |-> SplitSeed(seeds[(k + 1) \div 2])[(k + 1) % 2]]
SumSide(seeds, b) ==
  LET in(atom) == {j \in DOMAIN seeds : atom \in SplitSeed(seeds[j])[b]}
  IN  {atom \in UNION {SplitSeed(seeds[j])[b] : j \in DOMAIN seeds} :
         Cardinality(in(atom)) % 2 = 1}

(* The levels of the sender's tree.                                        *)
Tree[i \in Nat] == IF i = 0 THEN <<master_seed>> ELSE Children(Tree[i - 1])

(* PuncturedROTSend: the tree, the sums of the left and of the right seeds *)
(* of every level, and one message per level in which the sum of side b is *)
(* masked with the block the masked choice names, or with the other one.   *)
PuncturedROTSend ==
  /\ BaseSendDone /\ request # <<>> /\ leaves = <<>>
  /\ LET masked == VectorBoolFromBuffer(Head(request))
     IN  /\ answers' = [i \in 1 .. ot_num |-> [b \in 0 .. 1 |->
                          XorSeed(SumSide(Tree[i - 1], b),
                                  BlockSeed(sBlocks[i][(b + masked[i]) % 2]))]]
         /\ leaves' = Tree[ot_num]
  /\ request' = Tail(request)
  /\ UNCHANGED <<index, level, hole, known, dirty, pPc>>

(* One round of the receiver's loop: the sum of the sibling's side is      *)
(* unmasked, the known seeds of that side are taken out of it, and what is *)
(* left goes in where the hole's children would start.                     *)
PuncturedRecvLevel ==
  /\ pPc = "levels" /\ answers # <<>>
  /\ LET i == level + 1
         ot_choice == 1 - IndexBit(i)
         insert_pos == 2 * hole
         current_seed == XorSeed(XorSeed(Head(answers)[ot_choice], BlockSeed(rBlocks[i])),
                                 SumSide(known, ot_choice))
     IN  /\ known' = InsertAt(Children(known), insert_pos + 1, current_seed)
         /\ hole' = 2 * hole + IndexBit(i)
         /\ level' = i
         /\ pPc' = IF i = ot_num THEN "done" ELSE "levels"
  /\ answers' = Tail(answers)
  /\ UNCHANGED <<index, leaves, request, dirty>>

PuncNext == PuncturedRecvStart \/ PuncturedROTSend \/ PuncturedRecvLevel
-----------------------------------------------------------------------------
(* When the receiver is done it holds the sender's leaves in their order   *)
(* without the one at its index, which no seed it holds gives away.        *)
SeedsMatch ==
  pPc = "done" => /\ known = RemoveAt(leaves, index + 1)
                  /\ leaves[index + 1] \notin Range(known)

(* The same as long as the buffer of the masked choices, which the code    *)
(* fills with or-assignments only, held no stray bit.                      *)
SeedsMatchIfClean == dirty = {} => SeedsMatch
-----------------------------------------------------------------------------
(* The inductive invariant behind SeedsMatchIfClean.                       *)

(* A level of the tree without the seed at position h.                     *)
Punctured(seeds, h) ==
  [k \in 1 .. Len(seeds) - 1 |-> seeds[IF k <= h THEN k ELSE k + 1]]

MaskedChoice(i) == ((1 - IndexBit(i)) + (IF i - 1 \in choices THEN 1 ELSE 0)) % 2

PuncTypeInv ==
  /\ index \in 0 .. Pow2[num] - 1
  /\ level \in 0 .. num
  /\ hole \in 0 .. Pow2[level] - 1
  /\ pPc \in {"start", "levels", "done", "failed"}
  /\ answers \in Seq(Range(answers))

(* What has happened when: the request goes out before the first level,    *)
(* and an answer for each level that is left comes with the leaves.        *)
PuncOrderInv ==
  /\ pPc \in {"start", "failed"} => request = <<>> /\ leaves = <<>> /\ dirty = {}
  /\ pPc \in {"levels", "done"} => BaseRecvDone
  /\ pPc = "levels" => level < num
  /\ pPc = "done" => level = num /\ leaves # <<>>
  /\ request # <<>> =>
       /\ leaves = <<>>
       /\ request = <<Head(request)>>
       /\ dirty = {} => \A i \in 1 .. num :
            VectorBoolFromBuffer(Head(request))[i] = MaskedChoice(i)
  /\ leaves = <<>> => level = 0 /\ answers = <<>>
  /\ leaves # <<>> => leaves = Tree[num] /\ Len(answers) = num - level

(* The hole is on the path to the index, and as long as the buffer was     *)
(* clean the receiver has the rest of the level, and can open what the     *)
(* next answers hold for it.                                               *)
PuncLevelInv ==
  /\ hole = index \div Pow2[num - level]
  /\ dirty = {} => known = Punctured(Tree[level], hole)
  /\ dirty = {} =>
       \A k \in 1 .. Len(answers) :
         LET i == level + k
             b == 1 - IndexBit(i)
         IN  answers[k][b] = XorSeed(SumSide(Tree[i - 1], b), BlockSeed(rBlocks[i]))

PuncInv == PuncTypeInv /\ PuncOrderInv /\ PuncLevelInv
=============================================================================
