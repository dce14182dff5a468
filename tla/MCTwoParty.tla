----------------------------- MODULE MCTwoParty -----------------------------
(***************************************************************************)
(* An instance of TwoParty for TLC: bytes of one bit and words of two, so  *)
(* that a few transfers fill several batches.                              *)
(***************************************************************************)
EXTENDS TwoParty, TLC

(* The protocol bits are independent column by column: no column, one and  *)
(* two in three.                                                           *)
MCChoiceSets(m) == {{}, {1}, {k \in 0 .. m - 1 : k % 3 # 1}}

MCInputVectors == {[i \in 0 .. 7 |-> (i + s) % 2] : s \in {0, 1}}

(* Two generators without structure on seeds of three bits.                *)
MCSeedBits == {0, 1, 9}
SeedList == <<{}, {0}, {1}, {9}, {0, 1}, {0, 9}, {1, 9}, {0, 1, 9}>>
SeedIndex(s) == CHOOSE i \in 1 .. 8 : SeedList[i] = s
Mix(s, a, b) == SeedList[((SeedIndex(s) * a + b) % 8) + 1]

Generator(a, b) ==
  [split |-> [s \in SUBSET MCSeedBits |->
                [seed |-> [d \in {0, 1} |-> Mix(s, a + 2 * d, b + 3 * d)],
                 t |-> [d \in {0, 1} |-> ((SeedIndex(s) * (b + d) + a) \div 2) % 2 = 1]]],
   next |-> [s \in SUBSET MCSeedBits |-> Mix(s, b + 2, a)]]

MCPrgs == {Generator(3, 1), Generator(5, 2)}
MCMasterKeys == {[r \in {0, 1} |-> IF r = 0 THEN {0} ELSE {1, 9}],
                 [r \in {0, 1} |-> IF r = 0 THEN {0, 1, 9} ELSE {}]}

(* The greatest integers below e, e^2, e^3 and e^4.                        *)
MCReach == <<2, 7, 20, 54>>

(* Every form of the transpose is the naive one, on a matrix of distinct   *)
(* bits: the algorithms only move bits, so this is all matrices.  Bytes of *)
(* two bits give words of eight, three rounds of Eklundh's method and two  *)
(* by two sub-squares; bytes of four bits words of 32.                     *)
Bytes2 == INSTANCE Transpose WITH ByteBits <- 2
Bytes4 == INSTANCE Transpose WITH ByteBits <- 4

ASSUME TransposesAgree ==
  LET wide == [r \in Bytes2!Bits |-> [i \in 0 .. 1 |-> [c \in Bytes2!Bits |-> {<<r, i, c>>}]]]
      large == [r \in Bytes4!Bits |-> [c \in Bytes4!Bits |-> {<<r, c>>}]]
  IN  \A b \in BOOLEAN :
        /\ Bytes4!MatrixTranspose128(large, b) = Bytes4!NaiveTranspose(large)
        /\ \A i \in 0 .. 1 :
             Bytes2!BlockColumn(Bytes2!MatrixTranspose128x1024(wide, b), i)
               = Bytes2!NaiveTranspose(Bytes2!BlockColumn(wide, i))
=============================================================================
