------------------------------ MODULE Transpose ------------------------------
(***************************************************************************)
(* Words of bits (yasl/mpctools/ot/block.h) and the bit-matrix transposes  *)
(* of yasl/mpctools/ot/utils.{h,cc}.                                       *)
(*                                                                         *)
(* A bit is symbolic: a set of atoms, read as their exclusive or, so that  *)
(* {} is the bit 0 and two bits are equal only if they are equal for every *)
(* value of the random bits the atoms stand for.  A word is a function     *)
(* from bit positions to bits, position 0 being the lowest.                *)
(*                                                                         *)
(* The code works with bytes of 8 bits and words of 16 bytes, 128 bits:    *)
(* the sub-squares of the SSE transpose have two bytes of bits on a side   *)
(* and a word is as many bytes long as a sub-square has rows.  That        *)
(* geometry fixes everything in terms of the number of bits in a byte.     *)
(***************************************************************************)
EXTENDS Integers, FiniteSetsExt, Powers

CONSTANT ByteBits     \* bits in a byte: 8 in the code

SubSide == 2 * ByteBits               \* side of a sub-square: 16 in the code
kKappa == SubSide * ByteBits          \* bits in a word: 128 in the code
Bits == 0 .. kKappa - 1

(* Eklundh's method needs words whose length is a power of two, as 128 is. *)
ASSUME ByteBitsAssumption ==
  ByteBits \in Nat \ {0} /\ \E l \in 0 .. kKappa : Pow2[l] = kKappa

(* The atom of the bit 1.                                                  *)
One == <<"one">>
BitOf(b) == IF b THEN {One} ELSE {}

(* operator^, operator& (with a word of known bits, given by the set of    *)
(* positions that are 1), operator<< and operator>> of words.              *)
XorWord(a, b) == [c \in DOMAIN a |-> SymDiff(a[c], b[c])]
AndMask(a, mask) == [c \in DOMAIN a |-> IF c \in mask THEN a[c] ELSE {}]
ShiftLeft(a, n) == [c \in Bits |-> IF c >= n THEN a[c - n] ELSE {}]
ShiftRight(a, n) == [c \in Bits |-> IF c + n \in Bits THEN a[c + n] ELSE {}]

(* NaiveTranspose: bit j of row i is bit i of row j.                       *)
NaiveTranspose(m) == [i \in Bits |-> [j \in Bits |-> m[j][i]]]
-----------------------------------------------------------------------------
(* EklundhTranspose128 exchanges the off-diagonal quadrants of every       *)
(* square of side 2 * width, for width = 64, 32, ..., 1.  trans_mask keeps *)
(* the positions whose digit of weight width is 0, trans_mask_inv the      *)
(* others.                                                                 *)
logn == CHOOSE l \in 0 .. kKappa : Pow2[l] = kKappa
trans_mask(width) == {c \in Bits : (c \div width) % 2 = 0}
trans_mask_inv(width) == Bits \ trans_mask(width)

EklundhStep(m, width) ==
  LET mask == trans_mask(width)
      inv_mask == trans_mask_inv(width)
  IN  [r \in Bits |->
         IF r \in mask
         THEN XorWord(AndMask(m[r], mask),
                      ShiftLeft(AndMask(m[r + width], mask), width))
         ELSE XorWord(AndMask(m[r], inv_mask),
                      ShiftRight(AndMask(m[r - width], inv_mask), width))]

EklundhTranspose128(m) ==
  LET round[i \in 0 .. logn] == IF i = 0 THEN m
                                ELSE EklundhStep(round[i - 1], Pow2[logn - i])
  IN  round[logn]
-----------------------------------------------------------------------------
(* SseTranspose128 moves sub-squares of SubSide rows by two bytes.         *)
(* sse_loadSubSquare gathers byte 2y of SubSide rows in one word and byte  *)
(* 2y + 1 in another; a word of bytes is a function from byte positions.   *)
sse_loadSubSquare(m, x, y) ==
  [b \in 0 .. 1 |-> [l \in 0 .. SubSide - 1 |->
     [t \in 0 .. ByteBits - 1 |-> m[SubSide * x + l][(2 * y + b) * ByteBits + t]]]]

(* movemask_epi8 after j shifts to the left: the bit j below the top of    *)
(* every byte, the bit of byte l at position l.                            *)
movemask_epi8(bytes, j) == [l \in 0 .. SubSide - 1 |-> bytes[l][ByteBits - 1 - j]]

(* sse_transposeSubSquare stores the masks of the j-th shift in the rows   *)
(* ByteBits - 1 - j and 2 * ByteBits - 1 - j of the sub-square at (x, y).  *)
sse_transposeSubSquare(m, in, x, y) ==
  [r \in Bits |->
     IF r \div SubSide # x THEN m[r]
     ELSE LET half == (r % SubSide) \div ByteBits
              j == ByteBits - 1 - (r % ByteBits)
              mask == movemask_epi8(in[half], j)
          IN  [c \in Bits |-> IF c \div SubSide = y THEN mask[c % SubSide]
                              ELSE m[r][c]]]

(* One round of the inner loop: the diagonal sub-square in place, or the   *)
(* sub-squares (k, j) and (j, k), both loaded before either is stored.     *)
SseStep(m, j, k) ==
  LET a == sse_loadSubSquare(m, k, j)
      b == sse_loadSubSquare(m, j, k)
  IN  IF j = k THEN sse_transposeSubSquare(m, a, j, j)
      ELSE sse_transposeSubSquare(sse_transposeSubSquare(m, a, j, k), b, k, j)

(* The two nested loops: j takes (j, j) first, and then (j, k) for k < j.  *)
SseRow(m, j) ==
  LET done[k \in 0 .. j] == IF k = 0 THEN SseStep(m, j, j) ELSE SseStep(done[k - 1], j, k - 1)
  IN  done[j]

SseTranspose128(m) ==
  LET done[j \in 0 .. kKappa \div SubSide] == IF j = 0 THEN m ELSE SseRow(done[j - 1], j - 1)
  IN  done[kKappa \div SubSide]

(* MatrixTranspose128: the SSE transpose on a processor that has it.       *)
MatrixTranspose128(m, sse2) ==
  IF sse2 THEN SseTranspose128(m) ELSE EklundhTranspose128(m)
-----------------------------------------------------------------------------
(* The 128 x 1024 forms transpose each column of blocks by itself: entry   *)
(* m[j][i] is block i of row j, and afterwards block i of row j holds bit  *)
(* j of the blocks i.                                                      *)
BlockColumn(m, i) == [j \in Bits |-> m[j][i]]
SetColumn(m, i, sub) == [j \in Bits |-> [m[j] EXCEPT ![i] = sub[j]]]

(* The unrolled load and store at block i of the long rows.                *)
SseLoadSubSquarex(m, x, y, i) == sse_loadSubSquare(BlockColumn(m, i), x, y)
SseTransposeSubSquarex(m, in, x, y, i) ==
  SetColumn(m, i, sse_transposeSubSquare(BlockColumn(m, i), in, x, y))

SseStepx(m, i, j, k) ==
  LET a == SseLoadSubSquarex(m, k, j, i)
      b == SseLoadSubSquarex(m, j, k, i)
  IN  IF j = k THEN SseTransposeSubSquarex(m, a, j, j, i)
      ELSE SseTransposeSubSquarex(SseTransposeSubSquarex(m, a, j, k, i), b, k, j, i)

SseRowx(m, i, j) ==
  LET done[k \in 0 .. j] == IF k = 0 THEN SseStepx(m, i, j, j)
                            ELSE SseStepx(done[k - 1], i, j, k - 1)
  IN  done[j]

SseBlock(m, i) ==
  LET done[j \in 0 .. kKappa \div SubSide] == IF j = 0 THEN m ELSE SseRowx(done[j - 1], i, j - 1)
  IN  done[kKappa \div SubSide]

NumBlocks(m) == Cardinality(DOMAIN m[0])

SseTranspose128x1024(m) ==
  LET done[i \in 0 .. NumBlocks(m)] == IF i = 0 THEN m ELSE SseBlock(done[i - 1], i - 1)
  IN  done[NumBlocks(m)]

EklundhTranspose128x1024(m) ==
  LET done[i \in 0 .. NumBlocks(m)] ==
        IF i = 0 THEN m
        ELSE SetColumn(done[i - 1], i - 1, EklundhTranspose128(BlockColumn(done[i - 1], i - 1)))
  IN  done[NumBlocks(m)]

MatrixTranspose128x1024(m, sse2) ==
  IF sse2 THEN SseTranspose128x1024(m) ELSE EklundhTranspose128x1024(m)
=============================================================================
