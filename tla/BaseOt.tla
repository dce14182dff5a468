------------------------------- MODULE BaseOt -------------------------------
(***************************************************************************)
(* Base oblivious transfer (yasl/mpctools/ot/base_ot.cc and its two        *)
(* implementations): the base sender obtains a pair of blocks for every    *)
(* instance, the base receiver the block of the pair its choice bit names. *)
(*                                                                         *)
(* The two run in two processes.  Each picks its implementation by what    *)
(* its own processor has (GetOtInterface), and the two implementations     *)
(* pack a different number of instances in a message.  The group           *)
(* arithmetic of the simplest-OT library is external: what one message's   *)
(* instance j yields for the choice b is an atom of its own.               *)
(***************************************************************************)
EXTENDS Integers, Sequences, FiniteSetsExt

VARIABLES
  impl,      \* the implementation each side has picked
  num,       \* kNumOt, the number of instances
  choices,   \* the instances whose choice bit is 1
  sPc, rPc,  \* where the base sender and the base receiver are
  sIdx, rIdx,\* their loop variable i
  spack,     \* S_pack has been sent
  packs,     \* rs_pack messages sent and not yet received
  sBlocks,   \* the sender's pairs of blocks
  rBlocks    \* the receiver's blocks

baseVars == <<impl, num, choices, sPc, rPc, sIdx, rIdx, spack, packs, sBlocks, rBlocks>>

Impls == {"x86", "portable"}

(* What the library derives on both sides from message pack, instance j    *)
(* and choice b.                                                           *)
Key(pack, j, b) == <<pack.at, j, b>>

(* RandomOracle::Gen(block ^ index): the block is hashed with its index.   *)
OtBlock(key, index) == <<key, index>>

BaseInit(im, m, c) ==
  /\ impl = im
  /\ num = m /\ choices = c
  /\ sPc = "start" /\ rPc = "start"
  /\ sIdx = 0 /\ rIdx = 0
  /\ spack = FALSE /\ packs = <<>>
  /\ sBlocks = <<>> /\ rBlocks = <<>>

(* The sender sends S_pack, and the receiver waits for it.  The library's  *)
(* checks that a message holds points of the group (receiver_procS_check   *)
(* here, sender_keygen_check in a sender's round) throw when they fail;    *)
(* what sender_genS and receiver_rsgen of the other side make passes them, *)
(* and no other message is in the model.                                   *)
SendS ==
  /\ sPc = "start"
  /\ sPc' = "loop" /\ spack' = TRUE
  /\ UNCHANGED <<impl, num, choices, rPc, sIdx, rIdx, packs, sBlocks, rBlocks>>

RecvS ==
  /\ rPc = "start" /\ spack
  /\ rPc' = "loop"
  /\ UNCHANGED <<impl, num, choices, sPc, sIdx, rIdx, spack, packs, sBlocks, rBlocks>>

(* A round of the receiver: the choice bits of the instances i, i + 1, ... *)
(* (0 beyond the last one) go into one message, and the keys of the chosen *)
(* side become blocks.                                                     *)
ReceiverRound(batch) ==
  /\ rPc = "loop"
  /\ LET i == rIdx
         batch_size == Min({batch, num - i})
         pack == [at |-> i, size |-> batch,
                  bits |-> [j \in 0 .. batch - 1 |-> IF j < batch_size /\ i + j \in choices
                                                     THEN 1 ELSE 0]]
     IN  /\ packs' = Append(packs, pack)
         /\ rBlocks' = rBlocks \o [j \in 1 .. batch_size |->
                          OtBlock(Key(pack, j - 1, pack.bits[j - 1]), i + j - 1)]
         /\ rIdx' = i + batch
         /\ rPc' = IF i + batch < num THEN "loop" ELSE "done"
  /\ UNCHANGED <<impl, num, choices, sPc, sIdx, spack, sBlocks>>

(* Mutant: the size of the message is not compared.                        *)
SenderRound_AnySize(batch) ==
  /\ sPc = "loop" /\ packs # <<>>
  /\ LET i == sIdx
         batch_size == Min({batch, num - i})
     IN  /\ sBlocks' = sBlocks \o [j \in 1 .. batch_size |->
                [b \in 0 .. 1 |-> OtBlock(Key(Head(packs), j - 1, b), i + j - 1)]]
         /\ sIdx' = i + batch
         /\ sPc' = IF i + batch < num THEN "loop" ELSE "done"
  /\ packs' = Tail(packs)
  /\ UNCHANGED <<impl, num, choices, rPc, rIdx, spack, rBlocks>>

(* A round of the sender: it waits for the message, whose size must be the *)
(* one its own implementation uses, and takes both keys of each instance.  *)
SenderRound(batch) ==
  /\ sPc = "loop" /\ packs # <<>>
  /\ LET i == sIdx
         batch_size == Min({batch, num - i})
         pack == Head(packs)
     IN  IF pack.size # batch
         THEN sPc' = "failed" /\ UNCHANGED <<sIdx, sBlocks>>
         ELSE /\ sBlocks' = sBlocks \o [j \in 1 .. batch_size |->
                   [b \in 0 .. 1 |-> OtBlock(Key(pack, j - 1, b), i + j - 1)]]
              /\ sIdx' = i + batch
              /\ sPc' = IF i + batch < num THEN "loop" ELSE "done"
  /\ packs' = Tail(packs)
  /\ UNCHANGED <<impl, num, choices, rPc, rIdx, spack, rBlocks>>

X86AsmRecv == impl["rcv"] = "x86" /\ ReceiverRound(4)
X86AsmSend == impl["snd"] = "x86" /\ SenderRound(4)
PortableRecv == impl["rcv"] = "portable" /\ ReceiverRound(1)
PortableSend == impl["snd"] = "portable" /\ SenderRound(1)

BaseNext == SendS \/ RecvS \/ X86AsmRecv \/ X86AsmSend \/ PortableRecv \/ PortableSend

BaseSendDone == sPc = "done"
BaseRecvDone == rPc = "done"

(* BaseOtRecv and BaseOtSend: for every instance both sides have finished, *)
(* the receiver holds exactly the block its choice bit names, and all      *)
(* blocks of all instances differ, also where the last message was not     *)
(* full and also when the two sides picked different implementations.      *)
BaseOtAgrees ==
  /\ \A i \in DOMAIN sBlocks \cap DOMAIN rBlocks :
       LET c == IF i - 1 \in choices THEN 1 ELSE 0
       IN  rBlocks[i] = sBlocks[i][c] /\ rBlocks[i] # sBlocks[i][1 - c]
  /\ \A i, j \in DOMAIN sBlocks : \A b, c \in 0 .. 1 :
       sBlocks[i][b] = sBlocks[j][c] => i = j /\ b = c
  /\ BaseRecvDone => Len(rBlocks) = num
  /\ BaseSendDone => Len(sBlocks) = num
-----------------------------------------------------------------------------
(* The inductive invariant behind BaseOtAgrees.                            *)

(* The number of instances in a message of a side.                         *)
BatchOf(side) == IF impl[side] = "x86" THEN 4 ELSE 1

(* What instance i has for the choice b: the message it is in begins at a  *)
(* multiple of the number of instances in it.                              *)
Agreed(i, b) ==
  LET at == BatchOf("rcv") * ((i - 1) \div BatchOf("rcv"))
  IN  <<<<at, i - 1 - at, b>>, i - 1>>

PackBits == [0 .. 0 -> 0 .. 1] \cup [0 .. 3 -> 0 .. 1]

BaseTypeInv ==
  /\ impl \in [{"snd", "rcv"} -> Impls]
  /\ num \in Nat /\ rIdx \in Nat /\ sIdx \in Nat
  /\ sPc \in {"start", "loop", "done", "failed"} /\ rPc \in {"start", "loop", "done"}
  /\ packs \in Seq([at : Nat, size : {1, 4}, bits : PackBits])

(* A side is at a multiple of the instances in a message, and has a block  *)
(* for every instance before it.                                           *)
ReceiverInv ==
  /\ rIdx % BatchOf("rcv") = 0
  /\ IF rPc = "done" THEN rIdx >= num ELSE rIdx <= num
  /\ rBlocks = [i \in 1 .. Min({rIdx, num}) |->
                  Agreed(i, IF i - 1 \in choices THEN 1 ELSE 0)]

(* The sender has not come past the first message if the sizes differ.     *)
SenderInv ==
  /\ sIdx % BatchOf("snd") = 0
  /\ BatchOf("snd") # BatchOf("rcv") => sIdx = 0 /\ sPc # "done"
  /\ IF sPc = "done" THEN sIdx >= num ELSE sIdx <= num
  /\ sBlocks = [i \in 1 .. Min({sIdx, num}) |-> [b \in 0 .. 1 |-> Agreed(i, b)]]

(* The messages under way are those the sender still has to take.          *)
PacksInv ==
  sPc \in {"start", "loop"} =>
    /\ rIdx = sIdx + BatchOf("rcv") * Len(packs)
    /\ \A k \in 1 .. Len(packs) :
         packs[k].at = sIdx + BatchOf("rcv") * (k - 1) /\ packs[k].size = BatchOf("rcv")

BaseInv == BaseTypeInv /\ ReceiverInv /\ SenderInv /\ PacksInv
=============================================================================
