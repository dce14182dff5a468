------------------------------ MODULE TwoParty ------------------------------
(***************************************************************************)
(* The two-party protocols of yasl/mpctools, one per behaviour: base       *)
(* transfers followed by IKNP, by KKRT in one call, by KKRT in streaming   *)
(* form or by the punctured transfer; or the distributed point function.   *)
(***************************************************************************)
EXTENDS OtExtension, PuncturedOt, Dpf

CONSTANTS
  ChoiceSets(_),  \* secrets of the base receiver of so many instances
  NumOts,         \* numbers of transfers of one-shot extensions
  StreamOts,      \* numbers of transfers of the streaming form
  InputVectors,   \* the receiver's inputs, functions on an initial segment
  TreeDepths      \* log2(n) of the punctured transfer

(* BaseOtRecv enforces that there are choices, and the streaming form that *)
(* there are transfers; a secret has a bit for every column.               *)
ASSUME TwoPartyAssumption ==
  /\ TreeDepths \subseteq Nat \ {0}
  /\ NumOts \subseteq Nat /\ StreamOts \subseteq Nat \ {0}
  /\ ChoiceSets(kKappa) \subseteq SUBSET Bits
  /\ ChoiceSets(kKkrtWidth * kKappa) \subseteq SUBSET Cols

VARIABLE proto

vars == <<proto, baseVars, extVars, puncVars, dpfVars>>

(* What the variables of a protocol that does not run look like.           *)
DpfIdle ==
  /\ in_bitnum = 1 /\ ss_bitnum = 1 /\ alpha = 0 /\ beta = 0
  /\ enable_evalall = FALSE /\ wrapped = <<>> /\ prg = <<>> /\ mk = <<>>
  /\ glevel = 0 /\ seeds_working = <<>> /\ t_working = <<>>
  /\ cws_vec = <<>> /\ last_cw_vec = <<>> /\ trail = <<>> /\ keys = <<>> /\ x = 0
  /\ walk = [r \in Ranks |-> <<>>] /\ shares = [r \in Ranks |-> <<>>]

ImplPairs == [{"snd", "rcv"} -> Impls]
BothX86 == [side \in {"snd", "rcv"} |-> "x86"]

ExtIdle == ExtInit(TRUE, 0, <<>>)

(* The extensions do not depend on how the base transfers were packed, and *)
(* only KKRT in one call on the processor: the other choices are fixed.    *)
InitExtension(p, width, sizes, ins, cpus) ==
  /\ proto = p
  /\ \E c \in ChoiceSets(width) : BaseInit(BothX86, width, c)
  /\ \E m \in sizes, in \in ins, cpu \in cpus : ExtInit(cpu, m, in)
  /\ PuncInit(0) /\ DpfIdle

InitPunctured ==
  /\ proto = "punctured"
  /\ \E d \in TreeDepths, im \in ImplPairs :
       \E c \in SUBSET (0 .. d - 1), i \in 0 .. Pow2[d] - 1 :
         BaseInit(im, d, c) /\ PuncInit(i)
  /\ ExtIdle /\ DpfIdle

InitDpf ==
  proto = "dpf" /\ DpfInit /\ BaseInit(BothX86, 0, {}) /\ ExtIdle /\ PuncInit(0)

Init ==
  \/ InitExtension("iknp", kKappa, NumOts, InputVectors, {TRUE})
  \/ InitExtension("kkrt", kKkrtWidth * kKappa, NumOts, InputVectors, BOOLEAN)
  \/ InitExtension("stream", kKkrtWidth * kKappa, StreamOts, {<<>>}, {TRUE})
  \/ InitPunctured
  \/ InitDpf

Step ==
  /\ UNCHANGED proto
  /\ \/ proto # "dpf" /\ BaseNext /\ UNCHANGED <<extVars, puncVars, dpfVars>>
     \/ /\ \/ proto = "iknp" /\ (IknpOtExtRecv \/ IknpOtExtSend)
           \/ proto = "kkrt" /\ (KkrtOtExtRecv \/ KkrtOtExtSend)
           \/ proto = "stream" /\ StreamNext
        /\ UNCHANGED <<baseVars, puncVars, dpfVars>>
     \/ proto = "punctured" /\ PuncNext /\ UNCHANGED <<baseVars, extVars, dpfVars>>
     \/ proto = "dpf" /\ DpfNext /\ UNCHANGED <<baseVars, extVars, puncVars>>

(* Where a protocol ends: both sides have all their results, or one of     *)
(* them has thrown (implementations that do not match, a tree of a single  *)
(* level), in which case the other one waits until its link gives up.      *)
Finished ==
  CASE proto = "iknp" -> Len(rOut) = n /\ Len(sOut) = n
    [] proto = "kkrt" -> Len(rOut) = n /\ Len(q) = n
    [] proto = "stream" -> rCorr = n /\ sCorr + lost = n
    [] proto = "punctured" -> pPc \in {"done", "failed"} \/ sPc = "failed"
    [] proto = "dpf" -> last_cw_vec # <<>> /\ \A r \in Ranks : walk[r] = <<>>

Next ==
  \/ Finished /\ UNCHANGED vars
  \/ Step

Spec == Init /\ [][Next]_vars

(* The inductive invariant behind SharesAgree.                             *)
PointInv == IF proto = "dpf" THEN DpfInv ELSE DpfIdle

(* The inductive invariant behind ExtensionCorrect.                        *)
ExtInv ==
  CASE proto = "iknp" -> IknpInv
    [] proto = "kkrt" -> KkrtInv
    [] proto = "stream" -> StreamInv
    [] OTHER -> ExtIdle
=============================================================================
