--------------------------- MODULE TwoPartyProofs ---------------------------
(***************************************************************************)
(* For any implementations, numbers of instances, choices, depths of the   *)
(* trees, and whatever the generators of the point function return:        *)
(* BaseInv, PuncInv and PointInv are inductive, and give BaseOtAgrees,     *)
(* SeedsMatchIfClean and SharesAgree.  The extensions are in               *)
(* ExtensionProofs.                                                        *)
(***************************************************************************)
EXTENDS TwoParty, SequenceTheorems, FiniteSetTheorems, WellFoundedInduction, TLAPS

-----------------------------------------------------------------------------
(* Numbers and lists.                                                      *)

LEMMA MinPair ==
  ASSUME NEW a \in Int, NEW b \in Int
  PROVE  Min({a, b}) = IF a <= b THEN a ELSE b
<1> DEFINE P(m) == m \in {a, b} /\ \A y \in {a, b} : m <= y
<1>1. Min({a, b}) = CHOOSE m \in {a, b} : \A y \in {a, b} : m <= y
  BY DEF Min
<1>2. \E m \in {a, b} : \A y \in {a, b} : m <= y
  OBVIOUS
<1>3. P(Min({a, b}))
  BY <1>1, <1>2
<1>4. QED
  BY <1>3

\* The sequences of length m, whatever their elements.
IsList(s, m) == s = [i \in 1 .. m |-> s[i]]

LEMMA ListSeq ==
  ASSUME NEW s, NEW m \in Nat, IsList(s, m)
  PROVE  DOMAIN s = 1 .. m /\ s \in Seq(Range(s)) /\ Len(s) = m
<1>1. DOMAIN s = 1 .. m
  BY Zenon DEF IsList
<1>2. \A i \in 1 .. m : s[i] \in Range(s)
  BY <1>1 DEF Range
<1> DEFINE R == Range(s)
<1> HIDE DEF R
<1>3. [i \in 1 .. m |-> s[i]] \in [1 .. m -> R]
  BY <1>2 DEF R
<1>4. s \in [1 .. m -> R]
  BY <1>3, Zenon DEF IsList
<1>5. s \in Seq(R)
  BY <1>4, SeqDef
<1>6. Len(s) = m
  BY <1>1, <1>5, LenProperties
<1>7. QED
  BY <1>1, <1>5, <1>6 DEF R

LEMMA SeqList ==
  ASSUME NEW S, NEW s \in Seq(S)
  PROVE  Len(s) \in Nat /\ IsList(s, Len(s))
<1>1. Len(s) \in Nat /\ s \in [1 .. Len(s) -> S]
  BY LenProperties
<1>2. QED
  BY <1>1 DEF IsList

LEMMA ListEqual ==
  ASSUME NEW s, NEW t, NEW m \in Nat, IsList(s, m), IsList(t, m),
         \A i \in 1 .. m : s[i] = t[i]
  PROVE  s = t
<1>1. [i \in 1 .. m |-> s[i]] = [i \in 1 .. m |-> t[i]]
  OBVIOUS
<1>2. QED
  BY <1>1, Zenon DEF IsList

\* r is s, of length a, followed by t, of length c.
Joined(r, s, a, t, c) ==
  /\ IsList(r, a + c)
  /\ \A i \in 1 .. a : r[i] = s[i]
  /\ \A i \in 1 .. c : r[a + i] = t[i]

LEMMA ListConcat ==
  ASSUME NEW s, NEW t, NEW a \in Nat, NEW c \in Nat, IsList(s, a), IsList(t, c)
  PROVE  Joined(s \o t, s, a, t, c)
<1> DEFINE R == Range(s) \cup Range(t)
<1>1. s \in Seq(Range(s)) /\ t \in Seq(Range(t)) /\ Len(s) = a /\ Len(t) = c
  BY ListSeq
<1>2. Range(s) \subseteq R /\ Range(t) \subseteq R
  OBVIOUS
<1> HIDE DEF R
<1>3. s \in Seq(R) /\ t \in Seq(R)
  BY <1>1, <1>2, SeqMonotonic
<1>4. /\ s \o t \in Seq(R) /\ Len(s \o t) = a + c
      /\ \A i \in 1 .. a + c : (s \o t)[i] = IF i <= a THEN s[i] ELSE t[i - a]
  BY <1>1, <1>3, ConcatProperties
<1>5. IsList(s \o t, a + c)
  BY <1>4, SeqList
<1>6. \A i \in 1 .. a : (s \o t)[i] = s[i]
  BY <1>4
<1>7. ASSUME NEW i \in 1 .. c PROVE (s \o t)[a + i] = t[i]
  <2>1. a + i \in 1 .. a + c /\ ~(a + i <= a) /\ (a + i) - a = i
    OBVIOUS
  <2>2. QED
    BY <1>4, <2>1
<1>8. QED
  BY <1>5, <1>6, <1>7 DEF Joined

\* A list that begins with s and goes on with t.
LEMMA ListJoin ==
  ASSUME NEW s, NEW t, NEW u, NEW a \in Nat, NEW c \in Nat, NEW m \in Nat, m = a + c,
         IsList(s, a), IsList(t, c), IsList(u, m),
         \A i \in 1 .. a : u[i] = s[i], \A i \in 1 .. c : u[a + i] = t[i]
  PROVE  s \o t = u
<1>0. Joined(s \o t, s, a, t, c)
  BY ListConcat
<1> DEFINE r == s \o t
<1>1. /\ IsList(r, m)
      /\ \A i \in 1 .. a : r[i] = s[i]
      /\ \A i \in 1 .. c : r[a + i] = t[i]
  BY <1>0, Zenon DEF Joined
<1> HIDE DEF r
<1>2. ASSUME NEW i \in 1 .. m PROVE r[i] = u[i]
  <2>1. CASE i <= a
    <3>1. i \in 1 .. a
      BY <2>1
    <3>2. QED
      BY <1>1, <3>1
  <2>2. CASE ~(i <= a)
    <3>1. i - a \in 1 .. c /\ a + (i - a) = i
      BY <2>2
    <3>2. r[a + (i - a)] = t[i - a] /\ u[a + (i - a)] = t[i - a]
      BY <1>1, <3>1
    <3>3. QED
      BY <3>1, <3>2
  <2>3. QED
    BY <2>1, <2>2
<1>3. r = u
  BY <1>1, <1>2, ListEqual
<1>4. QED
  BY <1>3 DEF r

-----------------------------------------------------------------------------
(* The base transfers.                                                     *)

\* Instance i is the j-th of a message that begins at a.
IsAt(i, b, a, j) == Agreed(i, b) = <<<<a, j - 1, b>>, i - 1>>

LEMMA AgreedAt ==
  ASSUME NEW m \in {1, 4}, NEW a \in Nat, NEW j \in 1 .. m, NEW i, NEW b \in 0 .. 1,
         BatchOf("rcv") = m, a % m = 0, i = a + j
  PROVE  IsAt(i, b, a, j)
<1> DEFINE B == BatchOf("rcv")
<1>1. B = m
  OBVIOUS
<1> HIDE DEF B
<1>2. Agreed(i, b) = <<<<B * ((i - 1) \div B), i - 1 - B * ((i - 1) \div B), b>>, i - 1>>
  BY DEF Agreed, B
<1>3. m * ((i - 1) \div m) = a
  <2>1. CASE m = 1
    BY <2>1
  <2>2. CASE m = 4
    BY <2>2
  <2>3. QED
    BY <2>1, <2>2
<1>4. i - 1 - a = j - 1
  OBVIOUS
<1>5. QED
  BY <1>1, <1>2, <1>3, <1>4 DEF IsAt

LEMMA BaseUnchanged ==
  ASSUME BaseInv, UNCHANGED baseVars
  PROVE  BaseInv'
<1>1. /\ impl' = impl /\ num' = num /\ choices' = choices /\ sPc' = sPc /\ rPc' = rPc
      /\ sIdx' = sIdx /\ rIdx' = rIdx /\ packs' = packs /\ sBlocks' = sBlocks
      /\ rBlocks' = rBlocks
  BY DEF baseVars
<1>2. QED
  BY <1>1, Zenon DEF BaseInv, BaseTypeInv, ReceiverInv, SenderInv, PacksInv, BatchOf, Agreed

LEMMA BaseInitInv ==
  ASSUME NEW im \in ImplPairs, NEW m \in Nat, NEW c, BaseInit(im, m, c)
  PROVE  BaseInv
<1>1. Min({0, num}) = 0 /\ num \in Nat
  BY MinPair DEF BaseInit
<1>2. BatchOf("rcv") \in {1, 4} /\ BatchOf("snd") \in {1, 4}
  BY DEF BatchOf
<1>3. BaseTypeInv
  BY DEF BaseInit, BaseTypeInv, ImplPairs
<1>4. 0 % BatchOf("rcv") = 0 /\ 0 % BatchOf("snd") = 0
  <2>1. 0 % 1 = 0 /\ 0 % 4 = 0
    OBVIOUS
  <2>2. QED
    BY <1>2, <2>1
<1>5. /\ <<>> = [i \in 1 .. 0 |-> Agreed(i, IF i - 1 \in choices THEN 1 ELSE 0)]
      /\ <<>> = [i \in 1 .. 0 |-> [b \in 0 .. 1 |-> Agreed(i, b)]]
  OBVIOUS
<1>6. /\ sIdx = 0 /\ rIdx = 0 /\ sPc = "start" /\ rPc = "start" /\ sBlocks = <<>>
      /\ rBlocks = <<>>
  BY DEF BaseInit
<1>7. rIdx <= num /\ sIdx <= num /\ rPc # "done" /\ sPc # "done"
  BY <1>1, <1>6
<1>8. ReceiverInv
  <2>1. rBlocks = [i \in 1 .. Min({rIdx, num}) |-> Agreed(i, IF i - 1 \in choices THEN 1 ELSE 0)]
    BY <1>1, <1>5, <1>6, Zenon
  <2>2. QED
    BY <1>4, <1>6, <1>7, <2>1, Zenon DEF ReceiverInv
<1>9. SenderInv
  <2>1. sBlocks = [i \in 1 .. Min({sIdx, num}) |-> [b \in 0 .. 1 |-> Agreed(i, b)]]
    BY <1>1, <1>5, <1>6, Zenon
  <2>2. QED
    BY <1>4, <1>6, <1>7, <2>1, Zenon DEF SenderInv
<1>10. PacksInv
  BY <1>2 DEF BaseInit, PacksInv
<1>11. QED
  BY <1>3, <1>10, <1>8, <1>9 DEF BaseInv

\* What does not change when the implementations do not.
LEMMA SameBatch ==
  ASSUME impl' = impl
  PROVE  /\ BatchOf("rcv")' = BatchOf("rcv") /\ BatchOf("snd")' = BatchOf("snd")
         /\ \A i, b : Agreed(i, b)' = Agreed(i, b)
  BY Zenon DEF BatchOf, Agreed

LEMMA BatchKind == BatchOf("rcv") \in {1, 4} /\ BatchOf("snd") \in {1, 4}
  BY DEF BatchOf

LEMMA SendSKeeps ==
  ASSUME BaseInv, SendS \/ RecvS
  PROVE  BaseInv'
<1>1. /\ impl' = impl /\ num' = num /\ choices' = choices
      /\ sIdx' = sIdx /\ rIdx' = rIdx /\ packs' = packs /\ sBlocks' = sBlocks
      /\ rBlocks' = rBlocks
      /\ sPc' = sPc \/ (sPc = "start" /\ sPc' = "loop")
      /\ rPc' = rPc \/ (rPc = "start" /\ rPc' = "loop")
  BY DEF SendS, RecvS
<1>2. BaseTypeInv'
  BY <1>1 DEF BaseInv, BaseTypeInv
<1>3. ReceiverInv'
  BY <1>1, SameBatch DEF BaseInv, ReceiverInv
<1>4. SenderInv'
  BY <1>1, SameBatch DEF BaseInv, SenderInv
<1>5. PacksInv'
  BY <1>1, SameBatch DEF BaseInv, PacksInv
<1>6. QED
  BY <1>2, <1>3, <1>4, <1>5 DEF BaseInv

\* A round of the receiver.
LEMMA ReceiverKeeps ==
  ASSUME BaseInv, NEW m \in {1, 4}, BatchOf("rcv") = m, ReceiverRound(m)
  PROVE  BaseInv'
<1> DEFINE w == Min({m, num - rIdx})
           bit(j) == IF j < w /\ rIdx + j \in choices THEN 1 ELSE 0
           pack == [at |-> rIdx, size |-> m, bits |-> [j \in 0 .. m - 1 |-> bit(j)]]
           new == [j \in 1 .. w |-> OtBlock(Key(pack, j - 1, pack.bits[j - 1]), rIdx + j - 1)]
           C(i) == IF i - 1 \in choices THEN 1 ELSE 0
<1>1. /\ num \in Nat /\ rIdx \in Nat /\ rIdx <= num /\ rPc = "loop" /\ rIdx % m = 0
      /\ packs \in Seq([at : Nat, size : {1, 4}, bits : PackBits])
  BY DEF BaseInv, BaseTypeInv, ReceiverInv, ReceiverRound
<1>2. /\ packs' = Append(packs, pack) /\ rBlocks' = rBlocks \o new
      /\ rIdx' = rIdx + m /\ rPc' = IF rIdx + m < num THEN "loop" ELSE "done"
      /\ impl' = impl /\ num' = num /\ choices' = choices /\ sPc' = sPc /\ sIdx' = sIdx
      /\ sBlocks' = sBlocks
  BY DEF ReceiverRound
<1>3. /\ w \in 0 .. m /\ Min({rIdx, num}) = rIdx /\ Min({rIdx', num}) = rIdx + w
  <2>1. w = IF m <= num - rIdx THEN m ELSE num - rIdx
    BY <1>1, MinPair
  <2>2. Min({rIdx, num}) = IF rIdx <= num THEN rIdx ELSE num
    BY <1>1, MinPair
  <2>3. Min({rIdx', num}) = IF rIdx + m <= num THEN rIdx + m ELSE num
    <3>1. rIdx' \in Int /\ num \in Int
      BY <1>1, <1>2
    <3>2. Min({rIdx', num}) = IF rIdx' <= num THEN rIdx' ELSE num
      BY <3>1, MinPair
    <3>3. QED
      BY <1>2, <3>2
  <2>4. QED
    BY <1>1, <2>1, <2>2, <2>3
<1>4. /\ pack.at = rIdx /\ pack.size = m /\ \A j \in 0 .. m - 1 : pack.bits[j] = bit(j)
      /\ pack \in [at : Nat, size : {1, 4}, bits : PackBits]
  <2>1. [j \in 0 .. m - 1 |-> bit(j)] \in PackBits
    <3>1. [j \in 0 .. m - 1 |-> bit(j)] \in [0 .. m - 1 -> 0 .. 1]
      OBVIOUS
    <3>2. 0 .. m - 1 = 0 .. 0 \/ 0 .. m - 1 = 0 .. 3
      OBVIOUS
    <3>3. QED
      BY <3>1, <3>2 DEF PackBits
  <2>2. QED
    BY <1>1, <2>1
<1>5. ASSUME NEW j \in 1 .. w PROVE new[j] = Agreed(rIdx + j, C(rIdx + j))
  <2>1. j \in 1 .. m /\ j - 1 \in 0 .. m - 1 /\ j - 1 < w /\ rIdx + (j - 1) = (rIdx + j) - 1
    BY <1>1, <1>3
  <2>2. pack.bits[j - 1] = C(rIdx + j)
    BY <1>4, <2>1
  <2>3. new[j] = <<<<rIdx, j - 1, pack.bits[j - 1]>>, rIdx + j - 1>>
    <3>1. new[j] = OtBlock(Key(pack, j - 1, pack.bits[j - 1]), rIdx + j - 1)
      BY Zenon
    <3> HIDE DEF pack, new
    <3>2. QED
      BY <1>4, <3>1 DEF OtBlock, Key
  <2> HIDE DEF pack, new, C
  <2>4. Agreed(rIdx + j, C(rIdx + j)) = <<<<rIdx, j - 1, C(rIdx + j)>>, rIdx + j - 1>>
    <3>1. PICK a \in Nat : a = rIdx
      BY <1>1
    <3>2. PICK c \in 0 .. 1 : c = C(rIdx + j)
      BY DEF C
    <3>3. a % m = 0 /\ j \in 1 .. m
      BY <1>1, <2>1, <3>1, Zenon
    <3>4. PICK i \in Nat : i = a + j
      OBVIOUS
    <3>5. IsAt(i, c, a, j)
      BY <3>3, <3>4, AgreedAt
    <3>6. i - 1 = a + j - 1
      BY <3>4
    <3>7. QED
      BY <3>1, <3>2, <3>4, <3>5, <3>6, Zenon DEF IsAt
  <2>5. QED
    BY <2>2, <2>3, <2>4
<1> DEFINE all == [i \in 1 .. rIdx + w |-> Agreed(i, C(i))]
<1>6. rBlocks' = all
  <2>1. rBlocks = [i \in 1 .. rIdx |-> Agreed(i, C(i))]
    BY <1>3 DEF BaseInv, ReceiverInv
  <2>2. rIdx + w \in Nat /\ w \in Nat
    BY <1>1, <1>3
  <2>3. IsList(rBlocks, rIdx) /\ IsList(new, w) /\ IsList(all, rIdx + w)
    BY <2>1 DEF IsList
  <2>4. \A i \in 1 .. rIdx : all[i] = rBlocks[i]
    BY <1>1, <2>1, <2>2
  <2>5. \A j \in 1 .. w : rIdx + j \in 1 .. rIdx + w
    BY <1>1, <2>2
  <2>6. \A j \in 1 .. w : all[rIdx + j] = new[j]
    BY <1>5, <2>5, Zenon
  <2> HIDE DEF all, new, w
  <2>7. rBlocks \o new = all
    BY <1>1, <2>2, <2>3, <2>4, <2>6, ListJoin
  <2>8. QED
    BY <1>2, <2>7
<1> HIDE DEF new, w, pack
<1>7. BaseTypeInv'
  BY <1>1, <1>2, <1>4 DEF BaseInv, BaseTypeInv
<1>8. ReceiverInv'
  <2>1. (rIdx + m) % m = 0
    <3>1. CASE m = 1
      BY <1>1, <3>1
    <3>2. CASE m = 4
      BY <1>1, <3>2
    <3>3. QED
      BY <3>1, <3>2
  <2>2. IF rPc' = "done" THEN rIdx' >= num ELSE rIdx' <= num
    BY <1>1, <1>2
  <2>3. BatchOf("rcv")' = m /\ \A i, b : Agreed(i, b)' = Agreed(i, b)
    BY <1>2, SameBatch
  <2>4. rBlocks' = [i \in 1 .. Min({rIdx', num}) |-> Agreed(i, C(i))]
    BY <1>3, <1>6, Zenon
  <2>5. QED
    BY <1>2, <2>1, <2>2, <2>3, <2>4, Zenon DEF ReceiverInv
<1>9. SenderInv'
  BY <1>2, SameBatch DEF BaseInv, SenderInv
<1>10. PacksInv'
  <2> SUFFICES ASSUME sPc \in {"start", "loop"}
               PROVE  /\ rIdx + m = sIdx + m * Len(packs')
                      /\ \A k \in 1 .. Len(packs') :
                           packs'[k].at = sIdx + m * (k - 1) /\ packs'[k].size = m
    BY <1>2, SameBatch DEF PacksInv
  <2>1. /\ rIdx = sIdx + m * Len(packs)
        /\ \A k \in 1 .. Len(packs) : packs[k].at = sIdx + m * (k - 1) /\ packs[k].size = m
    BY DEF BaseInv, PacksInv
  <2>2. Len(packs) \in Nat /\ sIdx \in Nat
    BY <1>1, LenProperties DEF BaseInv, BaseTypeInv
  <2>3. /\ Len(packs') = Len(packs) + 1 /\ packs'[Len(packs) + 1] = pack
        /\ \A k \in 1 .. Len(packs) : packs'[k] = packs[k]
    BY <1>1, <1>2, <1>4, AppendProperties
  <2>4. rIdx + m = sIdx + m * Len(packs')
    <3>1. CASE m = 1
      BY <1>1, <2>1, <2>2, <2>3, <3>1
    <3>2. CASE m = 4
      BY <1>1, <2>1, <2>2, <2>3, <3>2
    <3>3. QED
      BY <3>1, <3>2
  <2>5. ASSUME NEW k \in 1 .. Len(packs')
        PROVE  packs'[k].at = sIdx + m * (k - 1) /\ packs'[k].size = m
    <3>1. CASE k \in 1 .. Len(packs)
      BY <2>1, <2>3, <3>1
    <3>2. CASE k = Len(packs) + 1
      <4>1. k - 1 = Len(packs)
        BY <2>2, <3>2
      <4>2. QED
        BY <1>4, <2>1, <2>3, <3>2, <4>1
    <3>3. QED
      BY <2>2, <2>3, <3>1, <3>2
  <2>6. QED
    BY <2>4, <2>5
<1>11. QED
  BY <1>7, <1>8, <1>9, <1>10 DEF BaseInv

\* The message that the sender takes has the size of its own.
SizeFits(m) == Head(packs).size = m

LEMMA SenderTakes ==
  ASSUME NEW m \in {1, 4}, BaseInv, BatchOf("snd") = m, SenderRound(m),
         SizeFits(m)
  PROVE  BaseInv'
<1> DEFINE w == Min({m, num - sIdx})
           pack == Head(packs)
           pair(j) == [b \in 0 .. 1 |-> OtBlock(Key(pack, j - 1, b), sIdx + j - 1)]
           new == [j \in 1 .. w |-> pair(j)]
           Pair(i) == [b \in 0 .. 1 |-> Agreed(i, b)]
<1>1. /\ num \in Nat /\ rIdx \in Nat /\ sIdx \in Nat /\ sIdx <= num /\ sPc = "loop"
      /\ sIdx % m = 0 /\ packs # <<>>
      /\ packs \in Seq([at : Nat, size : {1, 4}, bits : PackBits])
  BY DEF BaseInv, BaseTypeInv, SenderInv, SenderRound
<1>2. /\ packs' = Tail(packs) /\ sBlocks' = sBlocks \o new
      /\ sIdx' = sIdx + m /\ sPc' = IF sIdx + m < num THEN "loop" ELSE "done"
      /\ impl' = impl /\ num' = num /\ choices' = choices /\ rPc' = rPc /\ rIdx' = rIdx
      /\ rBlocks' = rBlocks
  BY DEF SenderRound, SizeFits
<1>3. /\ Len(packs) \in Nat /\ Len(packs) >= 1 /\ Head(packs) = packs[1]
      /\ Tail(packs) \in Seq([at : Nat, size : {1, 4}, bits : PackBits])
      /\ Len(Tail(packs)) = Len(packs) - 1
      /\ \A k \in 1 .. Len(packs) - 1 : Tail(packs)[k] = packs[k + 1]
  <2>1. /\ Len(packs) \in Nat /\ Len(packs) >= 1
    BY <1>1, LenProperties, EmptySeq
  <2>2. /\ Tail(packs) \in Seq([at : Nat, size : {1, 4}, bits : PackBits])
        /\ Len(Tail(packs)) = Len(packs) - 1
        /\ \A k \in 1 .. Len(Tail(packs)) : Tail(packs)[k] = packs[k + 1]
    BY <1>1, HeadTailProperties
  <2>3. Head(packs) = packs[1]
    BY <1>1
  <2>4. QED
    BY <2>1, <2>2, <2>3
<1>4. /\ BatchOf("rcv") = m /\ rIdx = sIdx + m * Len(packs) /\ pack.at = sIdx
      /\ \A k \in 1 .. Len(packs) : packs[k].at = sIdx + m * (k - 1) /\ packs[k].size = m
  <2>1. /\ rIdx = sIdx + BatchOf("rcv") * Len(packs)
        /\ \A k \in 1 .. Len(packs) :
             packs[k].at = sIdx + BatchOf("rcv") * (k - 1) /\ packs[k].size = BatchOf("rcv")
    BY <1>1 DEF BaseInv, PacksInv
  <2>2. 1 \in 1 .. Len(packs)
    BY <1>3
  <2>3. BatchOf("rcv") = m
    BY <1>3, <2>1, <2>2 DEF SizeFits
  <2>4. packs[1].at = sIdx + m * (1 - 1)
    BY <2>1, <2>2, <2>3
  <2>5. packs[1].at = sIdx
    BY <1>1, <2>4
  <2>6. QED
    BY <1>3, <2>1, <2>3, <2>5
<1>5. w \in 0 .. m /\ Min({sIdx, num}) = sIdx /\ Min({sIdx', num}) = sIdx + w
  <2>1. w = IF m <= num - sIdx THEN m ELSE num - sIdx
    BY <1>1, MinPair
  <2>2. Min({sIdx, num}) = IF sIdx <= num THEN sIdx ELSE num
    BY <1>1, MinPair
  <2>3. Min({sIdx', num}) = IF sIdx + m <= num THEN sIdx + m ELSE num
    <3>1. sIdx' \in Int /\ num \in Int
      BY <1>1, <1>2
    <3>2. Min({sIdx', num}) = IF sIdx' <= num THEN sIdx' ELSE num
      BY <3>1, MinPair
    <3>3. QED
      BY <1>2, <3>2
  <2>4. QED
    BY <1>1, <2>1, <2>2, <2>3
<1>6. ASSUME NEW j \in 1 .. w PROVE new[j] = Pair(sIdx + j)
  <2>1. j \in 1 .. m
    BY <1>5
  <2>2. ASSUME NEW b \in 0 .. 1
        PROVE  OtBlock(Key(pack, j - 1, b), sIdx + j - 1) = Agreed(sIdx + j, b)
    <3>1. PICK a \in Nat : a = sIdx
      BY <1>1
    <3>2. a % m = 0
      BY <1>1, <3>1, Zenon
    <3>3. PICK i \in Nat : i = a + j
      OBVIOUS
    <3>4. BatchOf("rcv") = m
      BY <1>4
    <3>5. IsAt(i, b, a, j)
      BY <2>1, <3>2, <3>3, <3>4, AgreedAt
    <3>6. i - 1 = a + j - 1
      BY <3>3
    <3> HIDE DEF pack
    <3>7. OtBlock(Key(pack, j - 1, b), sIdx + j - 1) = <<<<sIdx, j - 1, b>>, sIdx + j - 1>>
      BY <1>4 DEF OtBlock, Key
    <3>8. QED
      BY <3>1, <3>3, <3>5, <3>6, <3>7, Zenon DEF IsAt
  <2>3. new[j] = pair(j)
    BY Zenon
  <2> HIDE DEF new, pack
  <2>4. pair(j) = Pair(sIdx + j)
    BY <2>2, Zenon
  <2>5. QED
    BY <2>3, <2>4
<1> DEFINE all == [i \in 1 .. sIdx + w |-> Pair(i)]
<1>7. sBlocks' = all
  <2>1. sBlocks = [i \in 1 .. sIdx |-> Pair(i)]
    BY <1>5 DEF BaseInv, SenderInv
  <2>2. sIdx + w \in Nat /\ w \in Nat
    BY <1>1, <1>5
  <2> HIDE DEF w, pack
  <2>3. IsList(sBlocks, sIdx) /\ IsList(new, w) /\ IsList(all, sIdx + w)
    BY <2>1 DEF IsList
  <2>4. \A i \in 1 .. sIdx : all[i] = sBlocks[i]
    BY <1>1, <2>1, <2>2
  <2>5. \A j \in 1 .. w : sIdx + j \in 1 .. sIdx + w
    BY <1>1, <2>2
  <2>6. \A j \in 1 .. w : all[sIdx + j] = new[j]
    BY <1>6, <2>5, Zenon
  <2> HIDE DEF all, new
  <2>7. sBlocks \o new = all
    BY <1>1, <2>2, <2>3, <2>4, <2>6, ListJoin
  <2>8. QED
    BY <1>2, <2>7
<1> HIDE DEF new, w, pack
<1>8. BaseTypeInv'
  BY <1>1, <1>2, <1>3 DEF BaseInv, BaseTypeInv
<1>9. SenderInv'
  <2>1. (sIdx + m) % m = 0
    <3>1. CASE m = 1
      BY <1>1, <3>1
    <3>2. CASE m = 4
      BY <1>1, <3>2
    <3>3. QED
      BY <3>1, <3>2
  <2>2. IF sPc' = "done" THEN sIdx' >= num ELSE sIdx' <= num
    BY <1>1, <1>2
  <2>3. /\ BatchOf("snd")' = m /\ BatchOf("rcv")' = m
        /\ \A i, b : Agreed(i, b)' = Agreed(i, b)
    BY <1>2, <1>4, SameBatch
  <2>4. sBlocks' = [i \in 1 .. Min({sIdx', num}) |-> Pair(i)]
    BY <1>5, <1>7, Zenon
  <2>5. QED
    BY <1>2, <2>1, <2>2, <2>3, <2>4, Zenon DEF SenderInv
<1>10. ReceiverInv'
  BY <1>2, SameBatch DEF BaseInv, ReceiverInv
<1>11. PacksInv'
  <2> SUFFICES /\ rIdx = sIdx + m + m * Len(packs')
               /\ \A k \in 1 .. Len(packs') :
                    packs'[k].at = sIdx + m + m * (k - 1) /\ packs'[k].size = m
    BY <1>2, <1>4, SameBatch DEF PacksInv
  <2>1. Len(packs') = Len(packs) - 1 /\ \A k \in 1 .. Len(packs) - 1 : packs'[k] = packs[k + 1]
    BY <1>2, <1>3
  <2>2. rIdx = sIdx + m + m * Len(packs')
    <3>1. CASE m = 1
      BY <1>1, <1>3, <1>4, <2>1, <3>1
    <3>2. CASE m = 4
      BY <1>1, <1>3, <1>4, <2>1, <3>2
    <3>3. QED
      BY <3>1, <3>2
  <2>3. ASSUME NEW k \in 1 .. Len(packs')
        PROVE  packs'[k].at = sIdx + m + m * (k - 1) /\ packs'[k].size = m
    <3>1. k \in Nat /\ k + 1 \in 1 .. Len(packs) /\ packs'[k] = packs[k + 1] /\ (k + 1) - 1 = k
      BY <1>3, <2>1
    <3>2. packs'[k].at = sIdx + m * ((k + 1) - 1) /\ packs'[k].size = m
      BY <1>4, <3>1
    <3>3. m * k = m + m * (k - 1)
      <4>1. CASE m = 1
        BY <3>1, <4>1
      <4>2. CASE m = 4
        BY <3>1, <4>2
      <4>3. QED
        BY <4>1, <4>2
    <3>4. m * k \in Int /\ m * (k - 1) \in Int
      BY <3>1
    <3>5. sIdx + m * k = sIdx + m + m * (k - 1)
      BY <1>1, <3>3, <3>4
    <3>6. QED
      BY <3>1, <3>2, <3>5
  <2>4. QED
    BY <2>2, <2>3
<1>12. QED
  BY <1>8, <1>9, <1>10, <1>11 DEF BaseInv

\* One whose message has not.
LEMMA SenderFails ==
  ASSUME NEW m \in {1, 4}, BaseInv, BatchOf("snd") = m, SenderRound(m),
         ~SizeFits(m)
  PROVE  BaseInv'
<1>1. /\ sPc = "loop" /\ sPc' = "failed" /\ packs # <<>> /\ packs' = Tail(packs)
      /\ sIdx' = sIdx /\ sBlocks' = sBlocks
      /\ impl' = impl /\ num' = num /\ choices' = choices /\ rPc' = rPc /\ rIdx' = rIdx
      /\ rBlocks' = rBlocks
  BY DEF SenderRound, SizeFits
<1>2. BaseTypeInv'
  <2>1. Tail(packs) \in Seq([at : Nat, size : {1, 4}, bits : PackBits])
    BY <1>1, HeadTailProperties DEF BaseInv, BaseTypeInv
  <2>2. QED
    BY <1>1, <2>1 DEF BaseInv, BaseTypeInv
<1>3. SenderInv'
  BY <1>1, SameBatch DEF BaseInv, SenderInv
<1>4. ReceiverInv'
  BY <1>1, SameBatch DEF BaseInv, ReceiverInv
<1>5. PacksInv'
  BY <1>1 DEF PacksInv
<1>6. QED
  BY <1>2, <1>3, <1>4, <1>5 DEF BaseInv

LEMMA BaseNextInv ==
  ASSUME BaseInv, BaseNext
  PROVE  BaseInv'
<1>1. CASE SendS \/ RecvS
  BY <1>1, SendSKeeps
<1>2. CASE X86AsmRecv \/ PortableRecv
  <2>1. PICK m \in {1, 4} : BatchOf("rcv") = m /\ ReceiverRound(m)
    BY <1>2 DEF X86AsmRecv, PortableRecv, BatchOf
  <2>2. QED
    BY <2>1, ReceiverKeeps
<1>3. CASE X86AsmSend \/ PortableSend
  <2>1. PICK m \in {1, 4} : BatchOf("snd") = m /\ SenderRound(m)
    BY <1>3 DEF X86AsmSend, PortableSend, BatchOf
  <2>2. QED
    BY <2>1, SenderTakes, SenderFails
<1>4. QED
  BY <1>1, <1>2, <1>3 DEF BaseNext

LEMMA BaseInvAgrees ==
  ASSUME BaseInv
  PROVE  BaseOtAgrees
<1>1. num \in Nat /\ sIdx \in Nat /\ rIdx \in Nat
  BY DEF BaseInv, BaseTypeInv
<1>2. /\ Min({sIdx, num}) = IF sIdx <= num THEN sIdx ELSE num
      /\ Min({rIdx, num}) = IF rIdx <= num THEN rIdx ELSE num
  BY <1>1, MinPair
<1> DEFINE a == Min({sIdx, num})
           c == Min({rIdx, num})
           C(i) == IF i - 1 \in choices THEN 1 ELSE 0
<1>3. a \in Nat /\ c \in Nat
  BY <1>1, <1>2
<1>4. /\ sBlocks = [i \in 1 .. a |-> [b \in 0 .. 1 |-> Agreed(i, b)]]
      /\ rBlocks = [i \in 1 .. c |-> Agreed(i, C(i))]
  BY DEF BaseInv, SenderInv, ReceiverInv
<1>5. /\ BaseRecvDone => c = num
      /\ BaseSendDone => a = num
  BY <1>1, <1>2 DEF BaseInv, SenderInv, ReceiverInv, BaseRecvDone, BaseSendDone
<1> HIDE DEF a, c
<1>6. IsList(sBlocks, a) /\ IsList(rBlocks, c)
  BY <1>4 DEF IsList
<1>7. Len(sBlocks) = a /\ Len(rBlocks) = c /\ DOMAIN sBlocks = 1 .. a /\ DOMAIN rBlocks = 1 .. c
  BY <1>3, <1>6, ListSeq
<1>8. \A i, j, b, d : Agreed(i, b) = Agreed(j, d) => i - 1 = j - 1 /\ b = d
  BY DEF Agreed
<1>9. /\ \A i \in 1 .. a : \A b \in 0 .. 1 : sBlocks[i][b] = Agreed(i, b)
      /\ \A i \in 1 .. c : rBlocks[i] = Agreed(i, C(i))
  BY <1>4
<1>10. ASSUME NEW i \in DOMAIN sBlocks \cap DOMAIN rBlocks
       PROVE  rBlocks[i] = sBlocks[i][C(i)] /\ rBlocks[i] # sBlocks[i][1 - C(i)]
  <2>1. C(i) \in 0 .. 1 /\ 1 - C(i) \in 0 .. 1 /\ C(i) # 1 - C(i)
    OBVIOUS
  <2>2. rBlocks[i] = Agreed(i, C(i)) /\ i \in 1 .. a
    BY <1>7, <1>9
  <2> HIDE DEF C
  <2>3. sBlocks[i][C(i)] = Agreed(i, C(i)) /\ sBlocks[i][1 - C(i)] = Agreed(i, 1 - C(i))
    BY <1>9, <2>1, <2>2
  <2>4. QED
    BY <1>8, <2>1, <2>2, <2>3
<1>11. ASSUME NEW i \in DOMAIN sBlocks, NEW j \in DOMAIN sBlocks, NEW b \in 0 .. 1, NEW d \in 0 .. 1,
              sBlocks[i][b] = sBlocks[j][d]
       PROVE  i = j /\ b = d
  <2>1. i \in 1 .. a /\ j \in 1 .. a
    BY <1>7
  <2>2. i - 1 = j - 1 /\ b = d
    BY <1>8, <1>9, <1>11, <2>1
  <2>3. QED
    BY <1>3, <2>1, <2>2
<1>12. QED
  BY <1>5, <1>7, <1>10, <1>11 DEF BaseOtAgrees

-----------------------------------------------------------------------------
(* Induction, and the recursive functions Pow2 and Tree.                   *)

\* A set of numbers that is not empty has a least element.
LEMMA Least ==
  ASSUME NEW M \in SUBSET Nat, M # {}
  PROVE  \E u \in M : \A y \in M : u <= y
<1> DEFINE R == OpToRel(<, Nat)
<1>1. IsWellFoundedOn(R, Nat)
  BY NatLessThanWellFounded
<1>2. \A u, y \in Nat : u < y => <<u, y>> \in R
  BY DEF OpToRel
<1> HIDE DEF R
<1>3. PICK u \in M : \A y \in M : ~(<<y, u>> \in R)
  BY <1>1, WFMin
<1>4. \A y \in M : u <= y
  <2> SUFFICES ASSUME NEW y \in M PROVE ~(y < u)
    OBVIOUS
  <2>1. u \in Nat /\ y \in Nat
    OBVIOUS
  <2>2. QED
    BY <1>2, <1>3, <2>1
<1>5. QED
  BY <1>4

\* A set that holds 0, and the successors of its numbers, holds all of them.
LEMMA Induction ==
  ASSUME NEW S, 0 \in S, \A p \in Nat : p \in S => p + 1 \in S
  PROVE  Nat \subseteq S
<1> DEFINE M == Nat \ S
<1> SUFFICES ASSUME M # {} PROVE FALSE
  OBVIOUS
<1>1. M \in SUBSET Nat
  OBVIOUS
<1> HIDE DEF M
<1>2. PICK u \in M : \A y \in M : u <= y
  BY <1>1, Least
<1>3. u \in Nat /\ u \notin S /\ u # 0
  BY DEF M
<1>4. u - 1 \in Nat /\ u - 1 \notin M
  BY <1>2, <1>3
<1>5. QED
  BY <1>3, <1>4 DEF M

\* The values up to m of a function that doubles.
Doubling(f, m) == f = [k \in 0 .. m |-> IF k = 0 THEN 1 ELSE 2 * f[k - 1]]

LEMMA DoublingExists ==
  ASSUME NEW p \in Nat
  PROVE  \E f : Doubling(f, p)
<1> DEFINE S == {m \in Nat : \E f : Doubling(f, m)}
<1>1. 0 \in S
  <2> DEFINE f == [i \in 0 .. 0 |-> 1]
  <2>1. Doubling(f, 0)
    BY DEF Doubling
  <2> HIDE DEF f
  <2>2. QED
    BY <2>1
<1>2. ASSUME NEW m \in Nat, m \in S
      PROVE  m + 1 \in S
  <2>1. PICK f : Doubling(f, m)
    BY <1>2
  <2> DEFINE h == [i \in 0 .. m + 1 |-> IF i <= m THEN f[i] ELSE 2 * f[m]]
  <2>2. \A i \in 0 .. m : f[i] = IF i = 0 THEN 1 ELSE 2 * f[i - 1]
    BY <2>1 DEF Doubling
  <2>3. ASSUME NEW i \in 0 .. m + 1
        PROVE  h[i] = IF i = 0 THEN 1 ELSE 2 * h[i - 1]
    <3>1. CASE i <= m
      <4>1. i \in 0 .. m /\ (i # 0 => i - 1 \in 0 .. m + 1 /\ i - 1 <= m)
        BY <3>1
      <4>2. h[i] = f[i] /\ (i # 0 => h[i - 1] = f[i - 1])
        BY <3>1, <4>1
      <4> HIDE DEF h
      <4>3. QED
        BY <2>2, <4>1, <4>2
    <3>2. CASE ~(i <= m)
      <4>1. i = m + 1 /\ i # 0 /\ i - 1 = m /\ m \in 0 .. m + 1
        BY <3>2
      <4>2. h[i] = 2 * f[m] /\ h[m] = f[m]
        BY <3>2, <4>1
      <4> HIDE DEF h
      <4>3. QED
        BY <4>1, <4>2
    <3>3. QED
      BY <3>1, <3>2
  <2>4. h = [i \in 0 .. m + 1 |-> h[i]]
    OBVIOUS
  <2> HIDE DEF h
  <2>5. Doubling(h, m + 1)
    BY <2>3, <2>4, Zenon DEF Doubling
  <2>6. QED
    BY <2>5
<1>3. Nat \subseteq S
  <2> HIDE DEF S
  <2>1. QED
    BY <1>1, <1>2, Induction
<1>4. QED
  BY <1>3

\* Two of them agree.
LEMMA DoublingUnique ==
  ASSUME NEW k \in Nat, NEW m \in Nat, NEW p \in Nat, NEW f, NEW g, k <= m, k <= p,
         Doubling(f, m), Doubling(g, p)
  PROVE  f[k] = g[k]
<1> DEFINE S == {j \in Nat : j <= m /\ j <= p => f[j] = g[j]}
<1>1. /\ \A j \in 0 .. m : f[j] = IF j = 0 THEN 1 ELSE 2 * f[j - 1]
      /\ \A j \in 0 .. p : g[j] = IF j = 0 THEN 1 ELSE 2 * g[j - 1]
  BY DEF Doubling
<1>2. 0 \in S
  BY <1>1
<1>3. ASSUME NEW j \in Nat, j \in S
      PROVE  j + 1 \in S
  <2> SUFFICES ASSUME j + 1 <= m, j + 1 <= p PROVE f[j + 1] = g[j + 1]
    OBVIOUS
  <2>1. f[j] = g[j] /\ j + 1 \in 0 .. m /\ j + 1 \in 0 .. p /\ j + 1 # 0 /\ (j + 1) - 1 = j
    BY <1>3
  <2>2. f[j + 1] = 2 * f[j] /\ g[j + 1] = 2 * g[j]
    BY <1>1, <2>1
  <2>3. QED
    BY <2>1, <2>2
<1>4. Nat \subseteq S
  <2> HIDE DEF S
  <2>1. QED
    BY <1>2, <1>3, Induction
<1>5. QED
  BY <1>4

\* Pow2 is the function that its definition describes.
LEMMA Pow2Def ==
  Pow2[0] = 1 /\ \A k \in Nat : Pow2[k + 1] = 2 * Pow2[k]
<1> DEFINE Is(f) == f = [k \in Nat |-> IF k = 0 THEN 1 ELSE 2 * f[k - 1]]
           part(k) == CHOOSE f : Doubling(f, k)
           h == [k \in Nat |-> part(k)[k]]
<1>1. \A k \in Nat : Doubling(part(k), k)
  BY DoublingExists
<1> HIDE DEF part
<1>2. ASSUME NEW k \in Nat
      PROVE  h[k] = IF k = 0 THEN 1 ELSE 2 * h[k - 1]
  <2>1. part(k)[k] = IF k = 0 THEN 1 ELSE 2 * part(k)[k - 1]
    BY <1>1 DEF Doubling
  <2>2. k # 0 => k - 1 \in Nat /\ k - 1 <= k
    OBVIOUS
  <2>3. k # 0 => part(k)[k - 1] = part(k - 1)[k - 1]
    BY <1>1, <2>2, DoublingUnique
  <2>4. h[k] = part(k)[k] /\ (k # 0 => h[k - 1] = part(k - 1)[k - 1])
    BY <2>2
  <2> HIDE DEF h
  <2>5. QED
    BY <2>1, <2>3, <2>4
<1>3. h = [k \in Nat |-> h[k]]
  OBVIOUS
<1> HIDE DEF h
<1>4. Is(h)
  BY <1>2, <1>3, Zenon
<1>5. Pow2 = CHOOSE f : Is(f)
  BY DEF Pow2
<1>6. Is(Pow2)
  <2> HIDE DEF Is
  <2>1. QED
    BY <1>4, <1>5
<1>7. \A k \in Nat : Pow2[k] = IF k = 0 THEN 1 ELSE 2 * Pow2[k - 1]
  BY <1>6
<1>8. ASSUME NEW k \in Nat PROVE Pow2[k + 1] = 2 * Pow2[k]
  <2>1. k + 1 \in Nat /\ k + 1 # 0 /\ (k + 1) - 1 = k
    OBVIOUS
  <2>2. QED
    BY <1>7, <2>1
<1>9. QED
  BY <1>7, <1>8

\* The values up to m of a function that splits all seeds of the value before.
Growing(f, m) == f = [k \in 0 .. m |-> IF k = 0 THEN <<master_seed>> ELSE Children(f[k - 1])]

LEMMA GrowingExists ==
  ASSUME NEW p \in Nat
  PROVE  \E f : Growing(f, p)
<1> DEFINE S == {m \in Nat : \E f : Growing(f, m)}
<1>1. 0 \in S
  <2> DEFINE f == [i \in 0 .. 0 |-> <<master_seed>>]
  <2>1. Growing(f, 0)
    BY DEF Growing
  <2> HIDE DEF f
  <2>2. QED
    BY <2>1
<1>2. ASSUME NEW m \in Nat, m \in S
      PROVE  m + 1 \in S
  <2>1. PICK f : Growing(f, m)
    BY <1>2
  <2> DEFINE h == [i \in 0 .. m + 1 |-> IF i <= m THEN f[i] ELSE Children(f[m])]
  <2>2. \A i \in 0 .. m : f[i] = IF i = 0 THEN <<master_seed>> ELSE Children(f[i - 1])
    BY <2>1 DEF Growing
  <2>3. ASSUME NEW i \in 0 .. m + 1
        PROVE  h[i] = IF i = 0 THEN <<master_seed>> ELSE Children(h[i - 1])
    <3>1. CASE i <= m
      <4>1. i \in 0 .. m /\ (i # 0 => i - 1 \in 0 .. m + 1 /\ i - 1 <= m)
        BY <3>1
      <4>2. h[i] = f[i] /\ (i # 0 => h[i - 1] = f[i - 1])
        BY <3>1, <4>1
      <4> HIDE DEF h
      <4>3. QED
        BY <2>2, <4>1, <4>2
    <3>2. CASE ~(i <= m)
      <4>1. i = m + 1 /\ i # 0 /\ i - 1 = m /\ m \in 0 .. m + 1
        BY <3>2
      <4>2. h[i] = Children(f[m]) /\ h[m] = f[m]
        BY <3>2, <4>1
      <4> HIDE DEF h
      <4>3. QED
        BY <4>1, <4>2
    <3>3. QED
      BY <3>1, <3>2
  <2>4. h = [i \in 0 .. m + 1 |-> h[i]]
    OBVIOUS
  <2> HIDE DEF h
  <2>5. Growing(h, m + 1)
    BY <2>3, <2>4, Zenon DEF Growing
  <2>6. QED
    BY <2>5
<1>3. Nat \subseteq S
  <2> HIDE DEF S
  <2>1. QED
    BY <1>1, <1>2, Induction
<1>4. QED
  BY <1>3

\* Two of them agree.
LEMMA GrowingUnique ==
  ASSUME NEW k \in Nat, NEW m \in Nat, NEW p \in Nat, NEW f, NEW g, k <= m, k <= p,
         Growing(f, m), Growing(g, p)
  PROVE  f[k] = g[k]
<1> DEFINE S == {j \in Nat : j <= m /\ j <= p => f[j] = g[j]}
<1>1. /\ \A j \in 0 .. m : f[j] = IF j = 0 THEN <<master_seed>> ELSE Children(f[j - 1])
      /\ \A j \in 0 .. p : g[j] = IF j = 0 THEN <<master_seed>> ELSE Children(g[j - 1])
  BY DEF Growing
<1>2. 0 \in S
  BY <1>1
<1>3. ASSUME NEW j \in Nat, j \in S
      PROVE  j + 1 \in S
  <2> SUFFICES ASSUME j + 1 <= m, j + 1 <= p PROVE f[j + 1] = g[j + 1]
    OBVIOUS
  <2>1. f[j] = g[j] /\ j + 1 \in 0 .. m /\ j + 1 \in 0 .. p /\ j + 1 # 0 /\ (j + 1) - 1 = j
    BY <1>3
  <2>2. f[j + 1] = Children(f[j]) /\ g[j + 1] = Children(g[j])
    BY <1>1, <2>1
  <2>3. QED
    BY <2>1, <2>2
<1>4. Nat \subseteq S
  <2> HIDE DEF S
  <2>1. QED
    BY <1>2, <1>3, Induction
<1>5. QED
  BY <1>4

\* Tree is the function that its definition describes.
LEMMA TreeDef ==
  Tree[0] = <<master_seed>> /\ \A k \in Nat : Tree[k + 1] = Children(Tree[k])
<1> DEFINE Is(f) == f = [k \in Nat |-> IF k = 0 THEN <<master_seed>> ELSE Children(f[k - 1])]
           part(k) == CHOOSE f : Growing(f, k)
           h == [k \in Nat |-> part(k)[k]]
<1>1. \A k \in Nat : Growing(part(k), k)
  BY GrowingExists
<1> HIDE DEF part
<1>2. ASSUME NEW k \in Nat
      PROVE  h[k] = IF k = 0 THEN <<master_seed>> ELSE Children(h[k - 1])
  <2>1. part(k)[k] = IF k = 0 THEN <<master_seed>> ELSE Children(part(k)[k - 1])
    BY <1>1 DEF Growing
  <2>2. k # 0 => k - 1 \in Nat /\ k - 1 <= k
    OBVIOUS
  <2>3. k # 0 => part(k)[k - 1] = part(k - 1)[k - 1]
    BY <1>1, <2>2, GrowingUnique
  <2>4. h[k] = part(k)[k] /\ (k # 0 => h[k - 1] = part(k - 1)[k - 1])
    BY <2>2
  <2> HIDE DEF h
  <2>5. QED
    BY <2>1, <2>3, <2>4
<1>3. h = [k \in Nat |-> h[k]]
  OBVIOUS
<1> HIDE DEF h
<1>4. Is(h)
  BY <1>2, <1>3, Zenon
<1>5. Tree = CHOOSE f : Is(f)
  BY DEF Tree
<1>6. Is(Tree)
  <2> HIDE DEF Is
  <2>1. QED
    BY <1>4, <1>5
<1>7. \A k \in Nat : Tree[k] = IF k = 0 THEN <<master_seed>> ELSE Children(Tree[k - 1])
  BY <1>6
<1>8. ASSUME NEW k \in Nat PROVE Tree[k + 1] = Children(Tree[k])
  <2>1. k + 1 \in Nat /\ k + 1 # 0 /\ (k + 1) - 1 = k
    OBVIOUS
  <2>2. QED
    BY <1>7, <2>1
<1>9. QED
  BY <1>7, <1>8

LEMMA Pow2Nat == \A k \in Nat : Pow2[k] \in Nat /\ Pow2[k] >= 1
<1> DEFINE S == {k \in Nat : Pow2[k] \in Nat /\ Pow2[k] >= 1}
<1>1. 0 \in S
  BY Pow2Def
<1>2. ASSUME NEW k \in Nat, k \in S PROVE k + 1 \in S
  BY <1>2, Pow2Def
<1>3. Nat \subseteq S
  <2> HIDE DEF S
  <2>1. QED
    BY <1>1, <1>2, Induction
<1>4. QED
  BY <1>3

-----------------------------------------------------------------------------
(* The tree of seeds.                                                      *)

\* The seeds of a list are all different.
Distinct(s, m) == \A i, j \in 1 .. m : s[i] = s[j] => i = j

Split(s, b) == {<<"split", s, b>>}

LEMMA SplitIs ==
  ASSUME NEW s, NEW b \in 0 .. 1
  PROVE  SplitSeed(s)[b] = Split(s, b)
  BY DEF SplitSeed, Split

LEMMA SplitInjective ==
  ASSUME NEW s, NEW t, NEW b, NEW c, Split(s, b) = Split(t, c)
  PROVE  s = t /\ b = c
<1>1. <<"split", s, b>> = <<"split", t, c>>
  BY Zenon DEF Split
<1>2. QED
  BY <1>1

\* Where the children of a list come from.
ChildAt(s, r, m) ==
  /\ IsList(r, 2 * m)
  /\ \A k \in 1 .. 2 * m : r[k] = Split(s[(k + 1) \div 2], (k + 1) % 2)

LEMMA ChildrenList ==
  ASSUME NEW s, NEW m \in Nat, IsList(s, m)
  PROVE  ChildAt(s, Children(s), m)
<1>1. Len(s) = m
  BY ListSeq
<1> DEFINE c(k) == SplitSeed(s[(k + 1) \div 2])[(k + 1) % 2]
<1>2. Children(s) = [k \in 1 .. 2 * m |-> c(k)]
  BY <1>1, Zenon DEF Children
<1>3. ASSUME NEW k \in 1 .. 2 * m
      PROVE  c(k) = Split(s[(k + 1) \div 2], (k + 1) % 2)
  <2>1. (k + 1) % 2 \in 0 .. 1
    OBVIOUS
  <2>2. QED
    BY <2>1, SplitIs
<1>4. \A k \in 1 .. 2 * m : Children(s)[k] = c(k)
  BY <1>2, Zenon
<1> HIDE DEF c
<1>5. IsList(Children(s), 2 * m)
  BY <1>2, <1>4, Zenon DEF IsList
<1>6. QED
  BY <1>3, <1>4, <1>5 DEF ChildAt

LEMMA ChildrenDistinct ==
  ASSUME NEW s, NEW r, NEW m \in Nat, ChildAt(s, r, m), Distinct(s, m)
  PROVE  Distinct(r, 2 * m)
<1> SUFFICES ASSUME NEW i \in 1 .. 2 * m, NEW j \in 1 .. 2 * m, r[i] = r[j]
             PROVE  i = j
  BY Zenon DEF Distinct
<1>1. Split(s[(i + 1) \div 2], (i + 1) % 2) = Split(s[(j + 1) \div 2], (j + 1) % 2)
  BY Zenon DEF ChildAt
<1>2. s[(i + 1) \div 2] = s[(j + 1) \div 2] /\ (i + 1) % 2 = (j + 1) % 2
  <2>1. PICK a : a = s[(i + 1) \div 2]
    OBVIOUS
  <2>2. PICK e : e = s[(j + 1) \div 2]
    OBVIOUS
  <2>3. PICK f : f = (i + 1) % 2
    OBVIOUS
  <2>4. PICK g : g = (j + 1) % 2
    OBVIOUS
  <2>5. Split(a, f) = Split(e, g)
    BY <1>1, <2>1, <2>2, <2>3, <2>4, Zenon
  <2>6. a = e /\ f = g
    BY <2>5, SplitInjective
  <2>7. QED
    BY <2>1, <2>2, <2>3, <2>4, <2>6, Zenon
<1>3. (i + 1) \div 2 \in 1 .. m /\ (j + 1) \div 2 \in 1 .. m
  OBVIOUS
<1>4. (i + 1) \div 2 = (j + 1) \div 2
  BY <1>2, <1>3 DEF Distinct
<1>5. QED
  BY <1>2, <1>4

LEMMA TreeFacts ==
  \A l \in Nat : IsList(Tree[l], Pow2[l]) /\ Distinct(Tree[l], Pow2[l])
<1> DEFINE S == {l \in Nat : IsList(Tree[l], Pow2[l]) /\ Distinct(Tree[l], Pow2[l])}
<1>1. 0 \in S
  <2>1. Tree[0] = <<master_seed>> /\ Pow2[0] = 1
    BY TreeDef, Pow2Def
  <2>2. IsList(<<master_seed>>, 1) /\ Distinct(<<master_seed>>, 1)
    BY DEF IsList, Distinct
  <2>3. QED
    BY <2>1, <2>2
<1>2. ASSUME NEW l \in Nat, l \in S PROVE l + 1 \in S
  <2>1. PICK m \in Nat : m = Pow2[l]
    BY Pow2Nat
  <2>a. PICK s : s = Tree[l]
    OBVIOUS
  <2>b. PICK t : t = Tree[l + 1]
    OBVIOUS
  <2>2. t = Children(s) /\ Pow2[l + 1] = 2 * m
    BY <2>1, <2>a, <2>b, TreeDef, Pow2Def, Zenon
  <2>3. IsList(s, m) /\ Distinct(s, m)
    BY <1>2, <2>1, <2>a, Zenon
  <2>4. ChildAt(s, t, m)
    BY <2>2, <2>3, ChildrenList
  <2>5. IsList(t, 2 * m) /\ Distinct(t, 2 * m)
    BY <2>3, <2>4, ChildrenDistinct DEF ChildAt
  <2>6. l + 1 \in Nat
    OBVIOUS
  <2>7. QED
    BY <2>b, <2>2, <2>5, <2>6, Zenon
<1>3. Nat \subseteq S
  <2> HIDE DEF S
  <2>1. QED
    BY <1>1, <1>2, Induction
<1>4. QED
  BY <1>3

\* The sum of one side of different seeds is the set of their atoms.
LEMMA SumIs ==
  ASSUME NEW s, NEW m \in Nat, NEW b \in 0 .. 1, IsList(s, m), Distinct(s, m)
  PROVE  SumSide(s, b) = {<<"split", s[j], b>> : j \in 1 .. m}
<1> DEFINE in(atom) == {j \in DOMAIN s : atom \in SplitSeed(s[j])[b]}
           all == UNION {SplitSeed(s[j])[b] : j \in DOMAIN s}
<1>1. DOMAIN s = 1 .. m
  BY ListSeq
<1>2. \A j : SplitSeed(s[j])[b] = {<<"split", s[j], b>>}
  BY DEF SplitSeed
<1>3. all = {<<"split", s[j], b>> : j \in 1 .. m}
  <2>1. ASSUME NEW a PROVE a \in all <=> \E j \in 1 .. m : a \in SplitSeed(s[j])[b]
    BY <1>1
  <2>2. ASSUME NEW a
        PROVE  a \in all <=> \E j \in 1 .. m : a = <<"split", s[j], b>>
    <3>1. ASSUME NEW j PROVE a \in SplitSeed(s[j])[b] <=> a = <<"split", s[j], b>>
      BY <1>2, Zenon
    <3>2. a \in all <=> \E j \in 1 .. m : a \in SplitSeed(s[j])[b]
      BY <2>1
    <3> HIDE DEF all
    <3>3. QED
      BY <3>1, <3>2, Zenon
  <2> HIDE DEF all
  <2>3. QED
    BY <2>2
<1>4. ASSUME NEW i \in 1 .. m PROVE Cardinality(in(<<"split", s[i], b>>)) % 2 = 1
  <2>1. \A j : <<"split", s[i], b>> = <<"split", s[j], b>> => s[i] = s[j]
    OBVIOUS
  <2>2. in(<<"split", s[i], b>>) = {i}
    <3>1. \A j \in in(<<"split", s[i], b>>) : j = i
      BY <1>1, <1>2, <2>1, Zenon DEF Distinct
    <3>2. i \in in(<<"split", s[i], b>>)
      BY <1>1, <1>2, Zenon
    <3> HIDE DEF in
    <3>3. QED
      BY <3>1, <3>2
  <2>3. Cardinality({i}) = 1
    BY FS_Singleton
  <2>4. 1 % 2 = 1
    OBVIOUS
  <2> HIDE DEF in
  <2>5. QED
    BY <2>2, <2>3, <2>4, Zenon
<1>5. SumSide(s, b) = {atom \in all : Cardinality(in(atom)) % 2 = 1}
  BY Zenon DEF SumSide
<1> HIDE DEF in, all
<1>6. QED
  BY <1>3, <1>4, <1>5, Zenon

\* A part of a list.
PartOf(r, s, a, c) ==
  /\ IsList(r, c)
  /\ \A i \in 1 .. c : r[i] = s[a + i]

LEMMA ListPart ==
  ASSUME NEW s, NEW m \in Nat, NEW a \in Nat, NEW c \in Nat, IsList(s, m), a + c <= m
  PROVE  PartOf(SubSeq(s, a + 1, a + c), s, a, c)
<1>1. s \in Seq(Range(s)) /\ Len(s) = m
  BY ListSeq
<1> DEFINE R == Range(s)
<1> HIDE DEF R
<1>2. s \in Seq(R)
  BY <1>1 DEF R
<1>3. /\ a + 1 \in 1 .. Len(s) + 1
      /\ a + c \in a .. Len(s)
  BY <1>1
<1>4. /\ SubSeq(s, a + 1, a + c) \in Seq(R)
      /\ Len(SubSeq(s, a + 1, a + c)) = c
      /\ \A i \in 1 .. c : SubSeq(s, a + 1, a + c)[i] = s[a + i]
  <2> DEFINE lo == a + 1
             hi == a + c
             t == SubSeq(s, lo, hi)
  <2>1. lo \in Int /\ hi \in Int /\ hi - lo + 1 = c /\ (c = 0 <=> ~(lo <= hi))
    OBVIOUS
  <2>2. \A i \in lo .. hi : i \in 1 .. Len(s)
    BY <1>1
  <2>3. \A i \in lo .. hi : s[i] \in R
    BY <2>2, <1>2, ElementOfSeq
  <2>4. \A i \in 1 .. c : lo + i - 1 = a + i
    OBVIOUS
  <2> HIDE DEF lo, hi
  <2>5. /\ t \in Seq(R)
        /\ Len(t) = IF lo <= hi THEN hi - lo + 1 ELSE 0
        /\ \A i \in 1 .. hi - lo + 1 : t[i] = s[lo + i - 1]
    BY <2>1, <2>3, SubSeqProperties
  <2> HIDE DEF t
  <2>6. Len(t) = c
    BY <2>1, <2>5
  <2>7. \A i \in 1 .. c : t[i] = s[a + i]
    BY <2>1, <2>4, <2>5, Zenon
  <2>8. QED
    BY <2>5, <2>6, <2>7, Zenon DEF t, lo, hi
<1> DEFINE r == SubSeq(s, a + 1, a + c)
<1> HIDE DEF r
<1>5. r \in Seq(R) /\ Len(r) = c /\ \A i \in 1 .. c : r[i] = s[a + i]
  BY <1>4 DEF r
<1>6. IsList(r, c)
  BY <1>5, SeqList
<1>7. QED
  BY <1>5, <1>6, Zenon DEF PartOf, r

\* InsertAt puts e after the first a elements.
LEMMA InsertIs ==
  ASSUME NEW s, NEW m \in Nat, NEW a \in Nat, NEW e, NEW u, IsList(s, m), a <= m,
         IsList(u, m + 1),
         \A i \in 1 .. a : u[i] = s[i],
         u[a + 1] = e,
         \A i \in 1 .. m - a : u[a + 1 + i] = s[a + i]
  PROVE  InsertAt(s, a + 1, e) = u
<1> DEFINE c == m - a
<1>1. c \in Nat /\ a + c = m
  OBVIOUS
<1> HIDE DEF c
<1>2. PICK p : p = SubSeq(s, 1, a)
  OBVIOUS
<1>3. PICK r : r = SubSeq(s, a + 1, a + c)
  OBVIOUS
<1>4. PartOf(p, s, 0, a) /\ PartOf(r, s, a, c)
  BY <1>1, <1>2, <1>3, ListPart
<1>5. Len(s) = m
  BY ListSeq
<1>6. InsertAt(s, a + 1, e) = (p \o <<e>>) \o r
  BY <1>1, <1>2, <1>3, <1>5 DEF InsertAt
<1>7. PICK v : v = [i \in 1 .. a + 1 |-> u[i]]
  OBVIOUS
<1>w. PICK w : w = <<e>>
  OBVIOUS
<1>a. PICK d \in Nat : d = a + 1
  OBVIOUS
<1>b. PICK g \in Nat : g = m + 1
  OBVIOUS
<1>8. IsList(v, a + 1) /\ IsList(<<e>>, 1) /\ IsList(p, a) /\ IsList(r, c)
  BY <1>4, <1>7 DEF IsList, PartOf
<1>9. p \o w = v
  <2>1. \A i \in 1 .. a : v[i] = p[i]
    BY <1>4, <1>7 DEF PartOf
  <2>2. \A i \in 1 .. 1 : v[a + i] = w[i]
    BY <1>7, <1>w
  <2>3. IsList(v, d) /\ IsList(w, 1) /\ IsList(p, a)
    BY <1>8, <1>w, <1>a, Zenon
  <2>4. PICK o \in Nat : o = 1
    OBVIOUS
  <2>5. IsList(w, o) /\ d = a + o /\ \A i \in 1 .. o : v[a + i] = w[i]
    BY <1>a, <2>2, <2>3, <2>4, Zenon
  <2>6. QED
    BY <2>1, <2>3, <2>5, ListJoin
<1>10. v \o r = u
  <2>1. \A i \in 1 .. a + 1 : u[i] = v[i]
    BY <1>7
  <2>2. \A i \in 1 .. c : u[a + 1 + i] = r[i]
    BY <1>4 DEF PartOf, c
  <2>3. g = d + c
    BY <1>1, <1>a, <1>b
  <2>4. IsList(v, d) /\ IsList(r, c) /\ IsList(u, g)
    BY <1>8, <1>a, <1>b, Zenon
  <2>5. (\A i \in 1 .. d : u[i] = v[i]) /\ (\A i \in 1 .. c : u[d + i] = r[i])
    BY <1>a, <2>1, <2>2, Zenon
  <2>6. QED
    BY <1>1, <2>3, <2>4, <2>5, ListJoin
<1>11. QED
  BY <1>6, <1>9, <1>10, <1>w, Zenon

\* RemoveAt leaves out the element after the first a.
LEMMA RemoveIs ==
  ASSUME NEW s, NEW m \in Nat, NEW a \in Nat, NEW u, IsList(s, m + 1), a <= m,
         IsList(u, m),
         \A i \in 1 .. a : u[i] = s[i],
         \A i \in 1 .. m - a : u[a + i] = s[a + 1 + i]
  PROVE  RemoveAt(s, a + 1) = u
<1> DEFINE c == m - a
<1>1. c \in Nat /\ a + c = m
  OBVIOUS
<1> HIDE DEF c
<1>2. PICK p : p = SubSeq(s, 1, a)
  OBVIOUS
<1>3. PICK r : r = SubSeq(s, (a + 1) + 1, (a + 1) + c)
  OBVIOUS
<1>4. PartOf(p, s, 0, a) /\ PartOf(r, s, a + 1, c)
  BY <1>1, <1>2, <1>3, ListPart
<1>5. Len(s) = m + 1
  BY ListSeq
<1>6. RemoveAt(s, a + 1) = p \o r
  BY <1>1, <1>2, <1>3, <1>5 DEF RemoveAt
<1>7. \A i \in 1 .. a : u[i] = p[i]
  BY <1>4 DEF PartOf
<1>8. \A i \in 1 .. c : u[a + i] = r[i]
  BY <1>4 DEF PartOf, c
<1>9. IsList(p, a) /\ IsList(r, c)
  BY <1>4, Zenon DEF PartOf
<1>10. p \o r = u
  BY <1>1, <1>7, <1>8, <1>9, ListJoin
<1>11. QED
  BY <1>6, <1>10, Zenon

\* Punctured, position by position.
HoleAt(s, r, m, h) ==
  /\ IsList(r, m - 1)
  /\ \A k \in 1 .. m - 1 : r[k] = s[IF k <= h THEN k ELSE k + 1]

LEMMA PuncturedList ==
  ASSUME NEW s, NEW m \in Nat, NEW h \in 0 .. m - 1, IsList(s, m)
  PROVE  HoleAt(s, Punctured(s, h), m, h)
<1>1. Len(s) = m
  BY ListSeq
<1> DEFINE r == Punctured(s, h)
<1>2. r = [k \in 1 .. m - 1 |-> s[IF k <= h THEN k ELSE k + 1]]
  BY <1>1, Zenon DEF Punctured
<1> HIDE DEF r
<1>3. \A k \in 1 .. m - 1 : r[k] = s[IF k <= h THEN k ELSE k + 1]
  BY <1>2, Zenon
<1>4. IsList(r, m - 1)
  BY <1>2, <1>3, Zenon DEF IsList
<1>5. QED
  BY <1>3, <1>4, Zenon DEF HoleAt, r

LEMMA HoleDistinct ==
  ASSUME NEW s, NEW r, NEW m \in Nat, NEW h \in 0 .. m - 1, HoleAt(s, r, m, h),
         Distinct(s, m)
  PROVE  Distinct(r, m - 1) /\ \A k \in 1 .. m - 1 : r[k] # s[h + 1]
<1> DEFINE at(k) == IF k <= h THEN k ELSE k + 1
<1>1. \A k \in 1 .. m - 1 : at(k) \in 1 .. m /\ at(k) # h + 1
  OBVIOUS
<1>2. \A i, j \in 1 .. m - 1 : at(i) = at(j) => i = j
  OBVIOUS
<1>3. \A k \in 1 .. m - 1 : r[k] = s[at(k)]
  BY Zenon DEF HoleAt
<1>4. h + 1 \in 1 .. m
  OBVIOUS
<1> HIDE DEF at
<1>5. QED
  BY <1>1, <1>2, <1>3, <1>4, Zenon DEF Distinct

\* What the receiver inserts makes the next level, with its hole below the
\* one of this level.
LEMMA LevelInserted ==
  ASSUME NEW s, NEW p, NEW t, NEW c, NEW u, NEW m \in Nat, NEW h \in 0 .. m - 1,
         NEW bit \in 0 .. 1,
         IsList(s, m), ChildAt(s, t, m), HoleAt(s, p, m, h), ChildAt(p, c, m - 1),
         HoleAt(t, u, 2 * m, 2 * h + bit)
  PROVE  InsertAt(c, 2 * h + 1, Split(s[h + 1], 1 - bit)) = u
<1>1. 2 * (m - 1) \in Nat /\ 2 * h \in Nat /\ 2 * h <= 2 * (m - 1)
      /\ 2 * (m - 1) + 1 = 2 * m - 1
  OBVIOUS
<1>2. IsList(c, 2 * (m - 1)) /\ IsList(u, 2 * m - 1)
  BY Zenon DEF ChildAt, HoleAt
<1>3. \A k \in 1 .. 2 * m : t[k] = Split(s[(k + 1) \div 2], (k + 1) % 2)
  BY Zenon DEF ChildAt
<1>4. \A k \in 1 .. 2 * (m - 1) : c[k] = Split(p[(k + 1) \div 2], (k + 1) % 2)
  BY Zenon DEF ChildAt
<1>5. \A k \in 1 .. m - 1 : p[k] = s[IF k <= h THEN k ELSE k + 1]
  BY Zenon DEF HoleAt
<1>6. \A k \in 1 .. 2 * m - 1 : u[k] = t[IF k <= 2 * h + bit THEN k ELSE k + 1]
  BY Zenon DEF HoleAt
<1>7. ASSUME NEW i \in 1 .. 2 * h PROVE u[i] = c[i]
  <2>1. i \in 1 .. 2 * m - 1 /\ i \in 1 .. 2 * m /\ i \in 1 .. 2 * (m - 1) /\ i <= 2 * h + bit
    OBVIOUS
  <2>2. (i + 1) \div 2 \in 1 .. m - 1 /\ (i + 1) \div 2 <= h
    OBVIOUS
  <2>3. u[i] = t[i]
    BY <1>6, <2>1
  <2>4. p[(i + 1) \div 2] = s[(i + 1) \div 2]
    BY <1>5, <2>2
  <2>5. QED
    BY <1>3, <1>4, <2>1, <2>3, <2>4, Zenon
<1>8. u[2 * h + 1] = Split(s[h + 1], 1 - bit)
  <2>1. 2 * h + 1 \in 1 .. 2 * m - 1
    OBVIOUS
  <2>2. CASE bit = 0
    <3>1. u[2 * h + 1] = t[2 * h + 2]
      BY <1>6, <2>1, <2>2
    <3>2. 2 * h + 2 \in 1 .. 2 * m /\ (2 * h + 2 + 1) \div 2 = h + 1 /\ (2 * h + 2 + 1) % 2 = 1
      OBVIOUS
    <3>3. t[2 * h + 2] = Split(s[h + 1], 1)
      BY <1>3, <3>2, Zenon
    <3>4. 1 - bit = 1
      BY <2>2
    <3>5. QED
      BY <3>1, <3>3, <3>4, Zenon
  <2>3. CASE bit = 1
    <3>1. u[2 * h + 1] = t[2 * h + 1]
      BY <1>6, <2>1, <2>3
    <3>2. 2 * h + 1 \in 1 .. 2 * m /\ (2 * h + 1 + 1) \div 2 = h + 1 /\ (2 * h + 1 + 1) % 2 = 0
      OBVIOUS
    <3>3. t[2 * h + 1] = Split(s[h + 1], 0)
      BY <1>3, <3>2, Zenon
    <3>4. 1 - bit = 0
      BY <2>3
    <3>5. QED
      BY <3>1, <3>3, <3>4, Zenon
  <2>4. QED
    BY <2>2, <2>3
<1>9. ASSUME NEW i \in 1 .. 2 * (m - 1) - 2 * h PROVE u[2 * h + 1 + i] = c[2 * h + i]
  <2> DEFINE k == 2 * h + i
  <2>1. k \in 1 .. 2 * (m - 1) /\ k + 1 \in 1 .. 2 * m - 1 /\ k + 2 \in 1 .. 2 * m
        /\ k >= 2 * h + 1 /\ 2 * h + 1 + i = k + 1
    OBVIOUS
  <2> HIDE DEF k
  <2>2. /\ (k + 1) \div 2 \in 1 .. m - 1 /\ (k + 1) \div 2 > h
        /\ (k + 2 + 1) \div 2 = (k + 1) \div 2 + 1
        /\ (k + 2 + 1) % 2 = (k + 1) % 2
    BY <2>1
  <2>3. u[k + 1] = t[k + 2]
    <3>1. ~(k + 1 <= 2 * h + bit) /\ (k + 1) + 1 = k + 2
      BY <2>1
    <3>2. QED
      BY <1>6, <2>1, <3>1
  <2>4. p[(k + 1) \div 2] = s[(k + 1) \div 2 + 1]
    BY <1>5, <2>2
  <2>5. t[k + 2] = Split(s[(k + 2 + 1) \div 2], (k + 2 + 1) % 2)
    BY <1>3, <2>1, Zenon
  <2>6. c[k] = Split(p[(k + 1) \div 2], (k + 1) % 2)
    BY <1>4, <2>1, Zenon
  <2>7. u[k + 1] = c[k]
    BY <2>2, <2>3, <2>4, <2>5, <2>6, Zenon
  <2>8. QED
    BY <2>1, <2>7 DEF k
<1>10. QED
  BY <1>1, <1>2, <1>7, <1>8, <1>9, InsertIs

\* Unmasking a sum, and taking out of it what is known of it.
LEMMA Unmask ==
  ASSUME NEW A, NEW B, NEW R, NEW e, B \subseteq A, A \ B = {e}
  PROVE  XorSeed(XorSeed(XorSeed(A, R), R), B) = {e}
<1>1. SymDiff(SymDiff(A, R), R) = A
  BY DEF SymDiff
<1>2. SymDiff(A, B) = {e}
  BY DEF SymDiff
<1>3. QED
  BY <1>1, <1>2, Zenon DEF XorSeed

\* What the receiver gets out of a sum masked with R.
Opened(s, p, h, b, R) ==
  XorSeed(XorSeed(XorSeed(SumSide(s, b), R), R), SumSide(p, b)) = Split(s[h + 1], b)

LEMMA Opens ==
  ASSUME NEW s, NEW p, NEW m \in Nat, NEW h \in 0 .. m - 1, NEW b \in 0 .. 1, NEW R,
         IsList(s, m), Distinct(s, m), HoleAt(s, p, m, h)
  PROVE  Opened(s, p, h, b, R)
<1> DEFINE f(j) == <<"split", s[j], b>>
           A == SumSide(s, b)
           B == SumSide(p, b)
<1>1. A = {f(j) : j \in 1 .. m}
  BY SumIs, Zenon
<1>2. m - 1 \in Nat /\ IsList(p, m - 1)
  BY DEF HoleAt
<1>3. Distinct(p, m - 1) /\ \A k \in 1 .. m - 1 : p[k] # s[h + 1]
  BY HoleDistinct
<1>4. B = {<<"split", p[k], b>> : k \in 1 .. m - 1}
  BY <1>2, <1>3, SumIs
<1>5. \A k \in 1 .. m - 1 : p[k] = s[IF k <= h THEN k ELSE k + 1]
  BY Zenon DEF HoleAt
<1>6. \A i, j \in 1 .. m : f(i) = f(j) => i = j
  <2> SUFFICES ASSUME NEW i \in 1 .. m, NEW j \in 1 .. m, f(i) = f(j) PROVE i = j
    OBVIOUS
  <2>1. s[i] = s[j]
    OBVIOUS
  <2>2. QED
    BY <2>1, Zenon DEF Distinct
<1>7. B = {f(j) : j \in (1 .. m) \ {h + 1}}
  <2>1. ASSUME NEW k \in 1 .. m - 1
        PROVE  \E j \in (1 .. m) \ {h + 1} : <<"split", p[k], b>> = f(j)
    <3>1. PICK j : j = IF k <= h THEN k ELSE k + 1
      OBVIOUS
    <3>2. j \in (1 .. m) \ {h + 1}
      BY <3>1
    <3>3. p[k] = s[j]
      BY <1>5, <3>1, Zenon
    <3>4. QED
      BY <3>2, <3>3, Zenon
  <2>2. ASSUME NEW j \in (1 .. m) \ {h + 1}
        PROVE  \E k \in 1 .. m - 1 : f(j) = <<"split", p[k], b>>
    <3>1. PICK k : k = IF j <= h THEN j ELSE j - 1
      OBVIOUS
    <3>2. k \in 1 .. m - 1 /\ j = IF k <= h THEN k ELSE k + 1
      BY <3>1
    <3>3. p[k] = s[j]
      BY <1>5, <3>2, Zenon
    <3>4. QED
      BY <3>2, <3>3, Zenon
  <2> HIDE DEF f, B
  <2>3. QED
    BY <1>4, <2>1, <2>2
<1>8. h + 1 \in 1 .. m
  OBVIOUS
<1>9. Split(s[h + 1], b) = {f(h + 1)}
  BY Zenon DEF Split
<1> HIDE DEF f, A, B
<1>10. B \subseteq A /\ A \ B = {f(h + 1)}
  BY <1>1, <1>6, <1>7, <1>8
<1>11. XorSeed(XorSeed(XorSeed(A, R), R), B) = {f(h + 1)}
  BY <1>10, Unmask
<1>12. QED
  BY <1>9, <1>11, Zenon DEF Opened, A, B

LEMMA Halves ==
  ASSUME NEW a \in Nat
  PROVE  \E c \in Nat, b \in 0 .. 1 : a = 2 * c + b /\ a % 2 = b
<1>1. a \div 2 \in Nat /\ a % 2 \in 0 .. 1 /\ a = 2 * (a \div 2) + (a % 2)
  BY Z3
<1>2. QED
  BY <1>1, Zenon

LEMMA DivUnique ==
  ASSUME NEW v \in Nat, NEW d \in Nat \ {0}
  PROVE  /\ v \div d \in Nat
         /\ (v \div d) * d <= v /\ v < (v \div d) * d + d
         /\ \A o \in Nat : o * d <= v /\ v < o * d + d => o = v \div d
<1>1. v \div d \in Nat /\ (v \div d) * d <= v /\ v < (v \div d) * d + d
  BY SMT
<1>2. ASSUME NEW o \in Nat, o * d <= v, v < o * d + d
      PROVE  o = v \div d
  BY <1>1, <1>2, SMTT(30)
<1>3. QED
  BY <1>1, <1>2

\* A position is the one above it and the bit that leads down to it.
LEMMA DivStep ==
  ASSUME NEW v \in Nat, NEW d \in Nat \ {0}
  PROVE  v \div d = 2 * (v \div (2 * d)) + ((v \div d) % 2)
<1>1. PICK a : a = v \div d
  OBVIOUS
<1>2. a \in Nat /\ a * d <= v /\ v < a * d + d
  <2>1. /\ v \div d \in Nat
        /\ (v \div d) * d <= v /\ v < (v \div d) * d + d
    BY SMT
  <2>2. QED
    BY <1>1, <2>1, Zenon
<1>a. a \in Nat
  BY <1>2
<1>3. PICK c \in Nat, b \in 0 .. 1 : a = 2 * c + b /\ a % 2 = b
  BY <1>a, Halves
<1>4. a = 2 * c \/ a = 2 * c + 1
  <2>1. b = 0 \/ b = 1
    OBVIOUS
  <2>2. 2 * c + 0 = 2 * c
    OBVIOUS
  <2>3. QED
    BY <1>3, <2>1, <2>2, Zenon
<1>5. 2 * d \in Nat \ {0} /\ c * (2 * d) \in Nat
  OBVIOUS
<1>6. c * (2 * d) <= v /\ v < c * (2 * d) + 2 * d
  <2>1. PICK z \in Nat : z = c * d
    OBVIOUS
  <2>2. c * (2 * d) = 2 * z /\ (2 * c) * d = 2 * z /\ (2 * c + 1) * d = 2 * z + d
    <3>1. c * (2 * d) = 2 * (c * d) /\ (2 * c) * d = 2 * (c * d)
          /\ (2 * c + 1) * d = 2 * (c * d) + d
      BY Z3
    <3>2. QED
      BY <2>1, <3>1, Zenon
  <2>3. a * d = 2 * z \/ a * d = 2 * z + d
    BY <1>4, <2>2, Zenon
  <2>4. PICK y \in Nat : y = a * d
    BY <1>2
  <2>5. QED
    BY <1>2, <2>2, <2>3, <2>4
<1>7. c = v \div (2 * d)
  <2>1. PICK w \in Nat \ {0} : w = 2 * d
    BY <1>5
  <2>2. c * w <= v /\ v < c * w + w
    BY <1>6, <2>1
  <2>3. c = v \div w
    BY <2>2, DivUnique
  <2>4. QED
    BY <2>1, <2>3
<1>8. QED
  BY <1>1, <1>3, <1>7, Zenon

\* One round of the receiver, on a level whose sum it can open.
LEMMA LevelStep ==
  ASSUME NEW l \in Nat, NEW h \in 0 .. Pow2[l] - 1, NEW bit \in 0 .. 1, NEW R, NEW a, NEW e,
         a = XorSeed(SumSide(Tree[l], 1 - bit), R),
         e = XorSeed(XorSeed(a, R), SumSide(Punctured(Tree[l], h), 1 - bit))
  PROVE  InsertAt(Children(Punctured(Tree[l], h)), 2 * h + 1, e) = Punctured(Tree[l + 1], 2 * h + bit)
<1>1. PICK m \in Nat : m = Pow2[l]
  BY Pow2Nat
<1>2. PICK s : s = Tree[l]
  OBVIOUS
<1>3. PICK t : t = Tree[l + 1]
  OBVIOUS
<1>4. PICK p : p = Punctured(s, h)
  OBVIOUS
<1>5. PICK c : c = Children(p)
  OBVIOUS
<1>6. PICK u : u = Punctured(t, 2 * h + bit)
  OBVIOUS
<1>7. h \in 0 .. m - 1 /\ m - 1 \in Nat /\ 1 - bit \in 0 .. 1 /\ 2 * h + bit \in 0 .. 2 * m - 1
      /\ 2 * m \in Nat
  BY <1>1
<1>8. IsList(s, m) /\ Distinct(s, m)
  BY <1>1, <1>2, TreeFacts, Zenon
<1>9. IsList(t, 2 * m)
  <2>1. l + 1 \in Nat
    OBVIOUS
  <2>2. Pow2[l + 1] = 2 * m
    BY <1>1, Pow2Def, Zenon
  <2>3. QED
    BY <1>3, <2>1, <2>2, TreeFacts, Zenon
<1>10. HoleAt(s, p, m, h)
  BY <1>4, <1>7, <1>8, PuncturedList
<1>11. HoleAt(t, u, 2 * m, 2 * h + bit)
  <2>1. PICK w \in Nat : w = 2 * m
    BY <1>7
  <2>2. PICK g \in 0 .. w - 1 : g = 2 * h + bit
    BY <1>7, <2>1
  <2>3. IsList(t, w) /\ u = Punctured(t, g)
    BY <1>6, <1>9, <2>1, <2>2, Zenon
  <2>4. HoleAt(t, u, w, g)
    BY <2>3, PuncturedList
  <2>5. QED
    BY <2>1, <2>2, <2>4, Zenon
<1>12. ChildAt(s, t, m)
  <2>1. t = Children(s)
    BY <1>2, <1>3, TreeDef, Zenon
  <2>2. QED
    BY <1>8, <2>1, ChildrenList
<1>13. ChildAt(p, c, m - 1)
  <2>1. PICK w \in Nat : w = m - 1
    BY <1>7
  <2>2. IsList(p, w)
    BY <1>10, <2>1, Zenon DEF HoleAt
  <2>3. ChildAt(p, c, w)
    BY <1>5, <2>2, ChildrenList
  <2>4. QED
    BY <2>1, <2>3, Zenon
<1>14. e = Split(s[h + 1], 1 - bit)
  <2>1. PICK b \in 0 .. 1 : b = 1 - bit
    BY <1>7
  <2>2. XorSeed(XorSeed(XorSeed(SumSide(s, b), R), R), SumSide(p, b)) = Split(s[h + 1], b)
    <3>1. Opened(s, p, h, b, R)
      BY <1>7, <1>8, <1>10, Opens
    <3>2. QED
      BY <3>1, Zenon DEF Opened
  <2>3. e = XorSeed(XorSeed(XorSeed(SumSide(s, b), R), R), SumSide(p, b))
    BY <1>2, <1>4, <2>1, Zenon
  <2>4. QED
    BY <2>1, <2>2, <2>3, Zenon
<1>15. InsertAt(c, 2 * h + 1, Split(s[h + 1], 1 - bit)) = u
  BY <1>7, <1>8, <1>10, <1>11, <1>12, <1>13, LevelInserted
<1>16. QED
  BY <1>2, <1>3, <1>4, <1>5, <1>6, <1>14, <1>15, Zenon

\* The last level is all leaves but the one at the index.
LEMMA LeavesMatch ==
  ASSUME NEW l \in Nat, NEW h \in 0 .. Pow2[l] - 1
  PROVE  /\ Punctured(Tree[l], h) = RemoveAt(Tree[l], h + 1)
         /\ Tree[l][h + 1] \notin Range(Punctured(Tree[l], h))
<1>1. PICK m \in Nat : m = Pow2[l]
  BY Pow2Nat
<1>2. PICK s : s = Tree[l]
  OBVIOUS
<1>3. PICK p : p = Punctured(s, h)
  OBVIOUS
<1>4. h \in 0 .. m - 1 /\ h \in Nat
  BY <1>1
<1>5. IsList(s, m) /\ Distinct(s, m)
  BY <1>1, <1>2, TreeFacts, Zenon
<1>6. HoleAt(s, p, m, h)
  BY <1>3, <1>4, <1>5, PuncturedList
<1>7. \A k \in 1 .. m - 1 : p[k] # s[h + 1]
  BY <1>4, <1>5, <1>6, HoleDistinct
<1>8. IsList(p, m - 1) /\ \A k \in 1 .. m - 1 : p[k] = s[IF k <= h THEN k ELSE k + 1]
  BY <1>6, Zenon DEF HoleAt
<1>9. PICK w \in Nat : w = m - 1 /\ w + 1 = m /\ h <= w
  BY <1>4
<1>10. IsList(s, w + 1) /\ IsList(p, w)
  BY <1>5, <1>8, <1>9, Zenon
<1>11. \A i \in 1 .. h : p[i] = s[i]
  BY <1>4, <1>8
<1>12. \A i \in 1 .. w - h : p[h + i] = s[h + 1 + i]
  <2> SUFFICES ASSUME NEW i \in 1 .. w - h PROVE p[h + i] = s[h + 1 + i]
    OBVIOUS
  <2>1. h + i \in 1 .. m - 1 /\ ~(h + i <= h) /\ (h + i) + 1 = h + 1 + i
    BY <1>4, <1>9
  <2>2. QED
    BY <1>8, <2>1
<1>13. RemoveAt(s, h + 1) = p
  BY <1>4, <1>9, <1>10, <1>11, <1>12, RemoveIs
<1>14. DOMAIN p = 1 .. m - 1
  BY <1>9, <1>10, ListSeq
<1>15. s[h + 1] \notin Range(p)
  BY <1>7, <1>14, Zenon DEF Range
<1>16. QED
  BY <1>2, <1>3, <1>13, <1>15, Zenon

LEMMA PuncInitInv ==
  ASSUME NEW d \in Nat, NEW v \in 0 .. Pow2[d] - 1, num = d, PuncInit(v)
  PROVE  PuncInv
<1>1. /\ index = v /\ level = 0 /\ hole = 0 /\ known = <<>> /\ leaves = <<>> /\ request = <<>>
      /\ dirty = {} /\ answers = <<>> /\ pPc = "start"
  BY DEF PuncInit
<1>2. Pow2[0] = 1 /\ Tree[0] = <<master_seed>> /\ Pow2[d] \in Nat
  BY Pow2Def, TreeDef, Pow2Nat
<1>3. answers \in Seq(Range(answers))
  <2>1. <<>> \in Seq(Range(<<>>))
    OBVIOUS
  <2>2. QED
    BY <1>1, <2>1, Zenon
<1>4. PuncTypeInv
  <2>1. index \in 0 .. Pow2[num] - 1 /\ level \in 0 .. num /\ hole \in 0 .. Pow2[level] - 1
    BY <1>1, <1>2
  <2>2. QED
    BY <1>1, <1>3, <2>1, Zenon DEF PuncTypeInv
<1>5. PuncOrderInv
  BY <1>1 DEF PuncOrderInv
<1>6. hole = index \div Pow2[num - level]
  <2>1. PICK w \in Nat \ {0} : w = Pow2[d]
    BY <1>2
  <2>2. v \in Nat /\ 0 * w <= v /\ v < 0 * w + w
    BY <2>1
  <2>3. 0 = v \div w
    BY <2>2, DivUnique
  <2>4. num - level = d
    BY <1>1
  <2>5. QED
    BY <1>1, <2>1, <2>3, <2>4, Zenon
<1>7. known = Punctured(Tree[level], hole)
  <2>1. Len(<<master_seed>>) - 1 = 0
    OBVIOUS
  <2>2. Punctured(<<master_seed>>, 0) = [k \in 1 .. 0 |-> <<master_seed>>[IF k <= 0 THEN k ELSE k + 1]]
    BY <2>1, Zenon DEF Punctured
  <2>3. Punctured(<<master_seed>>, 0) = <<>>
    BY <2>2
  <2>4. QED
    BY <1>1, <1>2, <2>3, Zenon
<1>8. Len(answers) = 0 /\ 1 .. 0 = {}
  BY <1>1
<1>9. PuncLevelInv
  BY <1>6, <1>7, <1>8, Zenon DEF PuncLevelInv
<1>10. QED
  BY <1>4, <1>5, <1>9 DEF PuncInv

LEMMA BaseKeepsDone ==
  ASSUME BaseNext
  PROVE  num' = num /\ choices' = choices /\ (BaseRecvDone => BaseRecvDone' /\ rBlocks' = rBlocks)
<1>1. CASE SendS \/ RecvS
  BY <1>1 DEF SendS, RecvS, BaseRecvDone
<1>2. CASE X86AsmRecv \/ PortableRecv
  BY <1>2 DEF X86AsmRecv, PortableRecv, ReceiverRound, BaseRecvDone
<1>3. CASE X86AsmSend \/ PortableSend
  BY <1>3 DEF X86AsmSend, PortableSend, SenderRound, BaseRecvDone
<1>4. QED
  BY <1>1, <1>2, <1>3 DEF BaseNext

LEMMA PuncKept ==
  ASSUME PuncInv, UNCHANGED puncVars, num' = num, choices' = choices,
         BaseRecvDone => BaseRecvDone' /\ rBlocks' = rBlocks
  PROVE  PuncInv'
<1>1. /\ index' = index /\ level' = level /\ hole' = hole /\ known' = known /\ leaves' = leaves
      /\ request' = request /\ dirty' = dirty /\ answers' = answers /\ pPc' = pPc
  BY DEF puncVars
<1>2. PuncTypeInv'
  BY <1>1, Zenon DEF PuncInv, PuncTypeInv
<1>3. PuncOrderInv'
  BY <1>1, Zenon DEF PuncInv, PuncOrderInv, MaskedChoice, IndexBit, ot_num
<1>4. CASE BaseRecvDone
  <2>1. PuncLevelInv'
    BY <1>1, <1>4, Zenon DEF PuncInv, PuncLevelInv, IndexBit, ot_num
  <2>2. QED
    BY <1>2, <1>3, <2>1 DEF PuncInv
<1>5. CASE ~BaseRecvDone
  <2>1. leaves = <<>>
    BY <1>5, Zenon DEF PuncInv, PuncTypeInv, PuncOrderInv
  <2>2. answers = <<>>
    BY <2>1, Zenon DEF PuncInv, PuncOrderInv
  <2>3. Len(answers) = 0 /\ 1 .. 0 = {}
    BY <2>2
  <2>4. PuncLevelInv'
    BY <1>1, <2>3, Zenon DEF PuncInv, PuncLevelInv
  <2>5. QED
    BY <1>2, <1>3, <2>4 DEF PuncInv
<1>6. QED
  BY <1>4, <1>5

\* A bit of the index.
LEMMA BitFacts ==
  ASSUME BaseInv, PuncInv, NEW i \in 1 .. num
  PROVE  /\ num - i \in Nat /\ Pow2[num - i] \in Nat \ {0}
         /\ IndexBit(i) = (index \div Pow2[num - i]) % 2
         /\ IndexBit(i) \in 0 .. 1
         /\ 1 - IndexBit(i) \in 0 .. 1
<1>1. num \in Nat
  BY DEF BaseInv, BaseTypeInv
<1>2. num - i \in Nat
  BY <1>1
<1>3. PICK w \in Nat \ {0} : w = Pow2[num - i]
  BY <1>2, Pow2Nat
<1>4. PICK v \in Nat : v = index
  BY DEF PuncInv, PuncTypeInv
<1>5. v \div w \in Nat
  BY DivUnique
<1>6. PICK b : b = (v \div w) % 2
  OBVIOUS
<1>7. b \in 0 .. 1 /\ 1 - b \in 0 .. 1
  BY <1>5, <1>6
<1>8. IndexBit(i) = b /\ IndexBit(i) = (index \div Pow2[num - i]) % 2
  BY <1>3, <1>4, <1>6, Zenon DEF IndexBit, ot_num
<1>9. QED
  BY <1>2, <1>3, <1>7, <1>8, Zenon

\* A bit of the vector is found again where it was put into the buffer.
LEMMA BitPlace ==
  ASSUME NEW m \in Nat, NEW i \in 1 .. m
  PROVE  \E k \in BufferBytes(m), j \in 0 .. ByteBits - 1 :
           /\ k = (i - 1) \div ByteBits /\ j = (i - 1) % ByteBits
           /\ k * ByteBits + j + 1 = i
<1>1. PICK g \in Nat \ {0} : g = ByteBits
  BY ByteBitsAssumption
<1>2. PICK v \in Nat, w \in Nat, c \in Nat : v = i - 1 /\ w = m - 1 /\ w = v + c
  <2>1. i - 1 \in Nat /\ m - 1 \in Nat /\ m - i \in Nat /\ m - 1 = (i - 1) + (m - i)
    OBVIOUS
  <2>2. QED
    BY <2>1
<1>3. PICK k \in Nat, j \in Nat, u \in Nat, s \in Nat :
        k = v \div g /\ j = v % g /\ u = w \div g /\ s = w % g
  <2>1. v \div g \in Nat /\ v % g \in Nat /\ w \div g \in Nat /\ w % g \in Nat
    BY Z3
  <2>2. QED
    BY <2>1
<1>4. v = k * g + j /\ j < g /\ w = u * g + s /\ s < g
  BY <1>3, Z3
<1>5. k <= u
  <2>1. SUFFICES ASSUME NEW d \in Nat, k = u + 1 + d PROVE FALSE
    <3>1. CASE ~(k <= u)
      <4>1. k - u - 1 \in Nat /\ k = u + 1 + (k - u - 1)
        BY <3>1
      <4>2. QED
        BY <4>1
    <3>2. QED
      BY <3>1
  <2>2. k * g = u * g + g + d * g /\ d * g >= 0
    BY <2>1, Z3
  <2>3. PICK e \in Int, f \in Int, h \in Int : e = k * g /\ f = u * g /\ h = d * g
    OBVIOUS
  <2>4. e = f + g + h /\ h >= 0 /\ v = e + j /\ w = f + s
    BY <1>4, <2>2, <2>3, Zenon
  <2>5. QED
    BY <1>2, <1>4, <2>4
<1>6. k * g + j + 1 = i
  <2>1. PICK e \in Int : e = k * g
    OBVIOUS
  <2>2. v = e + j
    BY <1>4, <2>1, Zenon
  <2>3. e + j + 1 = i
    BY <1>2, <2>2
  <2>4. QED
    BY <2>1, <2>3, Zenon
<1>7. k \in 0 .. u /\ j \in 0 .. g - 1
  BY <1>4, <1>5
<1>8. QED
  BY <1>1, <1>2, <1>3, <1>6, <1>7, Zenon DEF BufferBytes

LEMMA BitsCarried ==
  ASSUME NEW m \in Nat, NEW bits, DOMAIN bits = 1 .. m, Len(bits) = m, NEW junk, NEW i \in 1 .. m
  PROVE  VectorBoolFromBuffer(BufferFromVectorBool(bits, junk))[i]
           = IF i \in junk \/ bits[i] = 1 THEN 1 ELSE 0
<1> DEFINE bit(p) == IF p \in junk \/ (p <= Len(bits) /\ bits[p] = 1) THEN 1 ELSE 0
           store == [k \in BufferBytes(Len(bits)) |-> [j \in 0 .. ByteBits - 1 |->
                       bit(k * ByteBits + j + 1)]]
           buf == BufferFromVectorBool(bits, junk)
<1>1. buf = [size |-> Len(bits), bytes |-> store]
  BY Zenon DEF BufferFromVectorBool
<1> HIDE DEF buf
<1>2. PICK k \in BufferBytes(m), j \in 0 .. ByteBits - 1 :
        k = (i - 1) \div ByteBits /\ j = (i - 1) % ByteBits /\ k * ByteBits + j + 1 = i
  BY BitPlace
<1>3. store[k][j] = bit(i)
  <2> HIDE DEF bit
  <2>1. store[k] = [f \in 0 .. ByteBits - 1 |-> bit(k * ByteBits + f + 1)]
    BY <1>2, Zenon
  <2> HIDE DEF store
  <2>2. store[k][j] = bit(k * ByteBits + j + 1)
    BY <1>2, <2>1, Zenon
  <2>3. QED
    BY <1>2, <2>2, Zenon
<1>4. i <= m
  OBVIOUS
<1>5. bit(i) = IF i \in junk \/ bits[i] = 1 THEN 1 ELSE 0
  BY <1>4, Zenon
<1> HIDE DEF bit, store
<1>6. buf.size = m /\ buf.bytes = store
  <2>1. PICK a, b : a = Len(bits) /\ b = store /\ buf = [size |-> a, bytes |-> b]
    BY <1>1, Zenon
  <2>2. buf.size = a /\ buf.bytes = b
    BY <2>1
  <2>3. QED
    BY <2>1, <2>2, Zenon
<1>7. VectorBoolFromBuffer(buf)[i] = store[k][j]
  BY <1>2, <1>6, Zenon DEF VectorBoolFromBuffer
<1>8. VectorBoolFromBuffer(buf)[i] = IF i \in junk \/ bits[i] = 1 THEN 1 ELSE 0
  BY <1>3, <1>5, <1>7, Zenon
<1>9. QED
  BY <1>8, Zenon DEF buf

LEMMA StartKeeps ==
  ASSUME BaseInv, PuncInv, PuncturedRecvStart, UNCHANGED baseVars
  PROVE  PuncInv'
<1>1. num' = num /\ choices' = choices /\ rPc' = rPc /\ rBlocks' = rBlocks
  BY DEF baseVars
<1>2. /\ index' = index /\ level' = level /\ hole' = hole /\ known' = known /\ leaves' = leaves
      /\ answers' = answers /\ rPc = "done" /\ pPc = "start"
  BY DEF PuncturedRecvStart, BaseRecvDone
<1>3. request = <<>> /\ leaves = <<>> /\ dirty = {} /\ level = 0 /\ answers = <<>>
  BY <1>2 DEF PuncInv, PuncOrderInv
<1>4. num \in Nat
  BY DEF BaseInv, BaseTypeInv
<1>5. /\ pPc' \in {"levels", "failed"}
      /\ pPc' = "failed" => request' = request /\ dirty' = dirty
      /\ pPc' = "levels" =>
           /\ 1 < num
           /\ \E buf : /\ request' = <<buf>>
                       /\ dirty' = {} => \A i \in 1 .. num :
                            VectorBoolFromBuffer(buf)[i] = MaskedChoice(i)
  <2> DEFINE masked == [i \in 1 .. ot_num |->
           ((1 - IndexBit(i)) + (IF i - 1 \in choices THEN 1 ELSE 0)) % 2]
  <2>1. ot_num = num
    BY DEF ot_num
  <2>2. masked = [i \in 1 .. num |-> MaskedChoice(i)]
    BY <2>1, Zenon DEF MaskedChoice
  <2>3. IF num <= 1
        THEN pPc' = "failed" /\ UNCHANGED <<request, dirty>>
        ELSE \E junk :
                /\ request' = <<BufferFromVectorBool(masked, junk)>>
                /\ dirty' = {i \in junk \cap 1 .. num : masked[i] = 0}
                /\ pPc' = "levels"
    BY <2>1, Zenon DEF PuncturedRecvStart
  <2> HIDE DEF masked
  <2>4. CASE num <= 1
    BY <2>3, <2>4
  <2>5. CASE ~(num <= 1)
    <3>1. PICK junk :
                /\ request' = <<BufferFromVectorBool(masked, junk)>>
                /\ dirty' = {i \in junk \cap 1 .. num : masked[i] = 0}
                /\ pPc' = "levels"
      BY <2>3, <2>5
    <3>2. PICK buf : buf = BufferFromVectorBool(masked, junk)
      OBVIOUS
    <3>3. DOMAIN masked = 1 .. num /\ \A i \in 1 .. num : masked[i] = MaskedChoice(i)
      BY <2>2
    <3>0. Len(masked) = num
      BY <1>4, <2>2
    <3>4. ASSUME NEW i \in 1 .. num
          PROVE  VectorBoolFromBuffer(buf)[i] = IF i \in junk \/ masked[i] = 1 THEN 1 ELSE 0
      BY <1>4, <3>0, <3>2, <3>3, BitsCarried
    <3>5. ASSUME NEW i \in 1 .. num PROVE MaskedChoice(i) \in 0 .. 1
      <4>1. PICK b \in 0 .. 1 : b = 1 - IndexBit(i)
        BY BitFacts
      <4>2. PICK c \in 0 .. 1 : c = IF i - 1 \in choices THEN 1 ELSE 0
        OBVIOUS
      <4>3. MaskedChoice(i) = (b + c) % 2
        BY <4>1, <4>2, Zenon DEF MaskedChoice
      <4>4. QED
        BY <4>3
    <3>6. ASSUME dirty' = {}, NEW i \in 1 .. num 
          PROVE  VectorBoolFromBuffer(buf)[i] = MaskedChoice(i)
      <4>1. CASE i \in junk
        <5>1. MaskedChoice(i) # 0
          BY <3>1, <3>3, <3>6, <4>1
        <5>2. MaskedChoice(i) = 1
          BY <3>5, <5>1
        <5>3. QED
          BY <3>4, <4>1, <5>2, Zenon
      <4>2. CASE i \notin junk
        <5>1. MaskedChoice(i) = IF MaskedChoice(i) = 1 THEN 1 ELSE 0
          BY <3>5
        <5>2. QED
          BY <3>3, <3>4, <4>2, <5>1, Zenon
      <4>3. QED
        BY <4>1, <4>2
    <3>7. 1 < num
      BY <1>4, <2>5
    <3>8. request' = <<buf>> /\ pPc' = "levels"
      BY <3>1, <3>2, Zenon
    <3>9. \E y : request' = <<y>> /\ 
                  (dirty' = {} => \A i \in 1 .. num :
                     VectorBoolFromBuffer(y)[i] = MaskedChoice(i))
      BY <3>6, <3>8, Zenon
    <3>10. QED
      BY <3>7, <3>8, <3>9
  <2>6. QED
    BY <2>4, <2>5
<1>6. \A i : MaskedChoice(i)' = MaskedChoice(i)
  BY <1>1, <1>2, Zenon DEF MaskedChoice, IndexBit, ot_num
<1>7. PuncTypeInv'
  <2>1. pPc' \in {"start", "levels", "done", "failed"}
    BY <1>5
  <2>2. QED
    BY <1>1, <1>2, <2>1, Zenon DEF PuncInv, PuncTypeInv
<1>8. PuncOrderInv'
  <2>1. CASE pPc' = "failed"
    <3>1. request' = <<>> /\ dirty' = {} /\ leaves' = <<>> /\ level' = 0 /\ answers' = <<>>
      BY <1>2, <1>3, <1>5, <2>1, Zenon
    <3>2. pPc' \notin {"levels", "done"} /\ pPc' # "levels" /\ pPc' # "done"
      BY <2>1
    <3>3. QED
      BY <3>1, <3>2, Zenon DEF PuncOrderInv
  <2>2. CASE pPc' = "levels"
    <3>1. PICK buf : /\ request' = <<buf>>
                     /\ dirty' = {} => \A i \in 1 .. num :
                          VectorBoolFromBuffer(buf)[i] = MaskedChoice(i)
      BY <1>5, <2>2
    <3>2. leaves' = <<>> /\ level' = 0 /\ answers' = <<>> /\ level' < num'
      <4>1. 0 < num
        BY <1>4, <1>5, <2>2
      <4>2. QED
        BY <1>1, <1>2, <1>3, <4>1, Zenon
    <3>3. BaseRecvDone'
      BY <1>1, <1>2 DEF BaseRecvDone
    <3>4. /\ request' = <<Head(request')>>
          /\ dirty' = {} => \A i \in 1 .. num' :
               VectorBoolFromBuffer(Head(request'))[i] = MaskedChoice(i)'
      <4>1. Head(<<buf>>) = buf
        OBVIOUS
      <4>2. QED
        BY <1>1, <1>6, <3>1, <4>1, Zenon
    <3>5. pPc' \notin {"start", "failed"} /\ pPc' # "done"
      BY <2>2
    <3>6. QED
      BY <3>2, <3>3, <3>4, <3>5, Zenon DEF PuncOrderInv
  <2>3. QED
    BY <1>5, <2>1, <2>2
<1>9. PuncLevelInv'
  <2>1. Len(answers) = 0 /\ 1 .. 0 = {}
    BY <1>3
  <2>2. hole = index \div Pow2[num - level] /\ known = Punctured(Tree[level], hole)
    BY <1>3 DEF PuncInv, PuncLevelInv
  <2>3. QED
    BY <1>1, <1>2, <2>1, <2>2, Zenon DEF PuncLevelInv
<1>10. QED
  BY <1>7, <1>8, <1>9 DEF PuncInv

\* The blocks of both sides, once both have them.
LEMMA BlocksAgree ==
  ASSUME BaseInv, BaseSendDone, BaseRecvDone, NEW i \in 1 .. num
  PROVE  sBlocks[i][IF i - 1 \in choices THEN 1 ELSE 0] = rBlocks[i]
<1>1. num \in Nat /\ rIdx \in Nat /\ sIdx \in Nat
  BY DEF BaseInv, BaseTypeInv
<1>2. sIdx >= num /\ rIdx >= num
  BY DEF BaseInv, SenderInv, ReceiverInv, BaseSendDone, BaseRecvDone
<1>3. Min({sIdx, num}) = num /\ Min({rIdx, num}) = num
  BY <1>1, <1>2, MinPair
<1>4. DOMAIN sBlocks = 1 .. num /\ DOMAIN rBlocks = 1 .. num
  BY <1>3, Zenon DEF BaseInv, SenderInv, ReceiverInv
<1>5. BaseOtAgrees
  BY BaseInvAgrees
<1>6. i \in DOMAIN sBlocks \cap DOMAIN rBlocks
  BY <1>4
<1>7. QED
  BY <1>5, <1>6, Zenon DEF BaseOtAgrees

LEMMA SendKeeps ==
  ASSUME BaseInv, PuncInv, PuncturedROTSend, UNCHANGED baseVars
  PROVE  PuncInv'
<1>1. num' = num /\ choices' = choices /\ rPc' = rPc /\ rBlocks' = rBlocks
  BY DEF baseVars
<1>2. /\ index' = index /\ level' = level /\ hole' = hole /\ known' = known /\ dirty' = dirty
      /\ pPc' = pPc /\ BaseSendDone /\ request # <<>> /\ leaves = <<>>
      /\ request' = Tail(request)
  BY DEF PuncturedROTSend
<1>3. level = 0 /\ answers = <<>> /\ pPc = "levels" /\ rPc = "done" /\ level < num
  <2>1. pPc \notin {"start", "failed"} /\ pPc # "done"
    BY <1>2, Zenon DEF PuncInv, PuncOrderInv
  <2>2. pPc = "levels"
    BY <2>1 DEF PuncInv, PuncTypeInv
  <2>3. QED
    BY <1>2, <2>2, Zenon DEF PuncInv, PuncOrderInv, BaseRecvDone
<1>0. PICK msg : /\ request = <<msg>>
                 /\ dirty = {} => \A i \in 1 .. num : VectorBoolFromBuffer(msg)[i] = MaskedChoice(i)
  BY <1>2, Zenon DEF PuncInv, PuncOrderInv
<1>5. Head(request) = msg /\ request' = <<>>
  BY <1>0, <1>2
<1>4. PICK buf : /\ buf = VectorBoolFromBuffer(Head(request))
                 /\ dirty = {} => \A i \in 1 .. num : buf[i] = MaskedChoice(i)
  BY <1>0, <1>5, Zenon
<1>6. num \in Nat
  BY DEF BaseInv, BaseTypeInv
<1> DEFINE A(i) == [b \in 0 .. 1 |-> XorSeed(SumSide(Tree[i - 1], b),
                                     BlockSeed(sBlocks[i][(b + buf[i]) % 2]))]
<1>7. answers' = [i \in 1 .. num |-> A(i)] /\ leaves' = Tree[num]
  BY <1>4, Zenon DEF PuncturedROTSend, ot_num
<1>8. IsList(answers', num) /\ \A i \in 1 .. num : answers'[i] = A(i)
  <2> HIDE DEF A
  <2>1. PICK a : a = answers'
    OBVIOUS
  <2>2. a = [i \in 1 .. num |-> A(i)]
    BY <1>7, <2>1, Zenon
  <2>3. \A i \in 1 .. num : a[i] = A(i)
    BY <2>2, Zenon
  <2>4. IsList(a, num)
    BY <2>2, <2>3, Zenon DEF IsList
  <2>5. QED
    BY <2>1, <2>3, <2>4, Zenon
<1> HIDE DEF A
<1>9. answers' \in Seq(Range(answers')) /\ Len(answers') = num
  BY <1>6, <1>8, ListSeq
<1>10. leaves' # <<>>
  <2>1. PICK m \in Nat : m = Pow2[num] /\ m >= 1
    BY <1>6, Pow2Nat
  <2>2. IsList(Tree[num], m)
    BY <1>6, <2>1, TreeFacts, Zenon
  <2>3. Len(Tree[num]) = m
    BY <2>2, ListSeq
  <2>4. Len(<<>>) = 0
    OBVIOUS
  <2>5. m # 0
    BY <2>1
  <2>6. QED
    BY <1>7, <2>3, <2>4, <2>5, Zenon
<1>11. PuncTypeInv'
  BY <1>1, <1>2, <1>9, Zenon DEF PuncInv, PuncTypeInv
<1>12. PuncOrderInv'
  <2>1. Len(answers') = num' - level'
    BY <1>1, <1>2, <1>3, <1>6, <1>9
  <2>2. leaves' = Tree[num'] /\ pPc' = "levels" /\ level' < num' /\ BaseRecvDone'
    BY <1>1, <1>2, <1>3, <1>7, Zenon DEF BaseRecvDone
  <2>3. pPc' \notin {"start", "failed"} /\ pPc' # "done"
    BY <2>2
  <2>4. QED
    BY <1>5, <1>10, <2>1, <2>2, <2>3, Zenon DEF PuncOrderInv
<1>13. ASSUME dirty = {}, NEW k \in 1 .. num
       PROVE  answers'[k][1 - IndexBit(k)] =
                XorSeed(SumSide(Tree[k - 1], 1 - IndexBit(k)), BlockSeed(rBlocks[k]))
  <2>1. PICK b \in 0 .. 1 : b = 1 - IndexBit(k)
    BY BitFacts
  <2>2. PICK c \in 0 .. 1 : c = IF k - 1 \in choices THEN 1 ELSE 0
    OBVIOUS
  <2>3. buf[k] = (b + c) % 2
    BY <1>4, <1>13, <2>1, <2>2, Zenon DEF MaskedChoice
  <2>4. (b + ((b + c) % 2)) % 2 = c
    OBVIOUS
  <2>5. sBlocks[k][c] = rBlocks[k]
    <3>1. BaseRecvDone
      BY <1>3 DEF BaseRecvDone
    <3>2. sBlocks[k][IF k - 1 \in choices THEN 1 ELSE 0] = rBlocks[k]
      BY <1>2, <3>1, BlocksAgree
    <3>3. QED
      BY <2>2, <3>2, Zenon
  <2>6. A(k)[b] = XorSeed(SumSide(Tree[k - 1], b), BlockSeed(sBlocks[k][(b + buf[k]) % 2]))
    BY Zenon DEF A
  <2>7. A(k)[b] = XorSeed(SumSide(Tree[k - 1], b), BlockSeed(rBlocks[k]))
    BY <2>3, <2>4, <2>5, <2>6, Zenon
  <2>8. QED
    BY <1>8, <2>1, <2>7, Zenon
<1>14. PuncLevelInv'
  <2>1. ASSUME NEW k \in 1 .. num
        PROVE  level' + k = k /\ IndexBit(level + k)' = IndexBit(k)
    <3>1. 0 + k = k
      OBVIOUS
    <3>2. level' + k = k
      BY <1>2, <1>3, <3>1, Zenon
    <3>3. QED
      BY <1>1, <1>2, <3>2, Zenon DEF IndexBit, ot_num
  <2>2. 1 .. Len(answers') = 1 .. num
    BY <1>9, Zenon
  <2>3. ASSUME dirty' = {}, NEW k \in 1 .. Len(answers')
        PROVE  answers'[k][1 - IndexBit(level + k)'] =
                 XorSeed(SumSide(Tree[(level' + k) - 1], 1 - IndexBit(level + k)'),
                         BlockSeed(rBlocks'[level' + k]))
    <3>1. k \in 1 .. num /\ dirty = {}
      BY <1>2, <2>2, <2>3, Zenon
    <3>2. level' + k = k /\ IndexBit(level + k)' = IndexBit(k)
      BY <2>1, <3>1
    <3>3. QED
      BY <1>1, <1>13, <3>1, <3>2, Zenon
  <2>4. /\ hole' = index' \div Pow2[num' - level']
        /\ dirty' = {} => known' = Punctured(Tree[level'], hole')
    BY <1>1, <1>2, Zenon DEF PuncInv, PuncLevelInv
  <2>5. QED
    BY <2>3, <2>4, Zenon DEF PuncLevelInv
<1>15. QED
  BY <1>11, <1>12, <1>14 DEF PuncInv

LEMMA LevelKeeps ==
  ASSUME BaseInv, PuncInv, PuncturedRecvLevel, UNCHANGED baseVars
  PROVE  PuncInv'
<1>1. num' = num /\ choices' = choices /\ rPc' = rPc /\ rBlocks' = rBlocks
  BY DEF baseVars
<1> DEFINE i == level + 1
           bit == IndexBit(i)
<1>2. /\ index' = index /\ leaves' = leaves /\ request' = request /\ dirty' = dirty
      /\ pPc = "levels" /\ answers # <<>> /\ answers' = Tail(answers)
      /\ hole' = 2 * hole + bit /\ level' = i
      /\ pPc' = IF i = num THEN "done" ELSE "levels"
  BY DEF PuncturedRecvLevel, ot_num
<1>3. known' = InsertAt(Children(known), 2 * hole + 1,
                  XorSeed(XorSeed(Head(answers)[1 - bit], BlockSeed(rBlocks[i])),
                          SumSide(known, 1 - bit)))
  BY Zenon DEF PuncturedRecvLevel
<1>4. num \in Nat /\ level \in 0 .. num /\ level < num
  BY <1>2 DEF BaseInv, BaseTypeInv, PuncInv, PuncTypeInv, PuncOrderInv
<1>5. i \in 1 .. num /\ i - 1 = level /\ level \in Nat /\ i \in Nat
  BY <1>4
<1>6. leaves # <<>> /\ rPc = "done"
  BY <1>2, Zenon DEF PuncInv, PuncOrderInv, BaseRecvDone
<1>7. leaves = Tree[num] /\ Len(answers) = num - level /\ request = <<>>
  BY <1>6, Zenon DEF PuncInv, PuncOrderInv
<1>8. /\ num - i \in Nat /\ Pow2[num - i] \in Nat \ {0} /\ bit \in 0 .. 1
      /\ bit = (index \div Pow2[num - i]) % 2
  BY <1>5, BitFacts
<1>9. answers \in Seq(Range(answers))
  BY DEF PuncInv, PuncTypeInv
<1>10. PICK S : answers \in Seq(S)
  BY <1>9, Zenon
<1>11. /\ answers' \in Seq(S) /\ Len(answers') = Len(answers) - 1
       /\ \A k \in 1 .. Len(answers') : answers'[k] = answers[k + 1]
       /\ Head(answers) = answers[1]
  BY <1>2, <1>10, HeadTailProperties
<1> HIDE DEF i, bit
<1>12. PICK h \in Nat : h = hole /\ h \in 0 .. Pow2[level] - 1
  BY DEF PuncInv, PuncTypeInv
<1>13. Pow2[i] = 2 * Pow2[level] /\ Pow2[level] \in Nat
  BY <1>5, Pow2Def, Pow2Nat DEF i
<1>14. hole' \in 0 .. Pow2[i] - 1
  <2>1. PICK m \in Nat : m = Pow2[level]
    BY <1>13
  <2>2. 2 * h + bit \in 0 .. 2 * m - 1
    BY <1>8, <1>12, <2>1
  <2>3. QED
    BY <1>2, <1>12, <1>13, <2>1, <2>2, Zenon
<1>15. hole' = index \div Pow2[num - i]
  <2>1. PICK d \in Nat \ {0} : d = Pow2[num - i]
    BY <1>8
  <2>2. PICK v \in Nat : v = index
    BY DEF PuncInv, PuncTypeInv
  <2>3. num - level = (num - i) + 1
    BY <1>4, <1>5
  <2>4. Pow2[num - level] = 2 * d
    BY <1>8, <2>1, <2>3, Pow2Def, Zenon
  <2>5. h = v \div (2 * d)
    BY <1>12, <2>2, <2>4, Zenon DEF PuncInv, PuncLevelInv
  <2>6. v \div d = 2 * (v \div (2 * d)) + ((v \div d) % 2)
    BY DivStep
  <2>7. QED
    BY <1>2, <1>8, <1>12, <2>1, <2>2, <2>5, <2>6, Zenon
<1>16. dirty = {} => known' = Punctured(Tree[i], 2 * h + bit)
  <2> SUFFICES ASSUME dirty = {} PROVE known' = Punctured(Tree[i], 2 * h + bit)
    OBVIOUS
  <2>1. known = Punctured(Tree[level], h)
    BY <1>12 DEF PuncInv, PuncLevelInv
  <2>2. PICK R : R = BlockSeed(rBlocks[i])
    OBVIOUS
  <2>3. PICK a : a = Head(answers)[1 - bit]
    OBVIOUS
  <2>4. PICK e : e = XorSeed(XorSeed(a, R), SumSide(Punctured(Tree[level], h), 1 - bit))
    OBVIOUS
  <2>5. a = XorSeed(SumSide(Tree[level], 1 - bit), R)
    <3>1. 1 \in 1 .. Len(answers)
      BY <1>4, <1>7
    <3>2. answers[1][1 - IndexBit(level + 1)] =
            XorSeed(SumSide(Tree[(level + 1) - 1], 1 - IndexBit(level + 1)),
                    BlockSeed(rBlocks[level + 1]))
      BY <3>1, Zenon DEF PuncInv, PuncLevelInv
    <3>3. (level + 1) - 1 = level
      BY <1>5
    <3>4. QED
      BY <1>11, <2>2, <2>3, <3>2, <3>3, Zenon DEF i, bit
  <2>6. PICK l \in Nat : l = level /\ l + 1 = i
    BY <1>5 DEF i
  <2>7. InsertAt(Children(Punctured(Tree[l], h)), 2 * h + 1, e) = Punctured(Tree[l + 1], 2 * h + bit)
    <3>1. h \in 0 .. Pow2[l] - 1
      BY <1>12, <2>6, Zenon
    <3>2. PICK b \in 0 .. 1 : b = bit
      BY <1>8
    <3>3. /\ a = XorSeed(SumSide(Tree[l], 1 - b), R)
          /\ e = XorSeed(XorSeed(a, R), SumSide(Punctured(Tree[l], h), 1 - b))
      BY <2>4, <2>5, <2>6, <3>2, Zenon
    <3>4. InsertAt(Children(Punctured(Tree[l], h)), 2 * h + 1, e) = Punctured(Tree[l + 1], 2 * h + b)
      BY <3>1, <3>3, LevelStep
    <3>5. QED
      BY <3>2, <3>4, Zenon
  <2>8. known' = InsertAt(Children(Punctured(Tree[l], h)), 2 * h + 1, e)
    BY <1>3, <1>12, <2>1, <2>2, <2>3, <2>4, <2>6, Zenon
  <2>9. QED
    BY <2>6, <2>7, <2>8, Zenon
<1>17. PuncTypeInv'
  <2>1. index' \in 0 .. Pow2[num'] - 1
    BY <1>1, <1>2, Zenon DEF PuncInv, PuncTypeInv
  <2>2. level' \in 0 .. num' /\ pPc' \in {"start", "levels", "done", "failed"}
    BY <1>1, <1>2, <1>4, <1>5
  <2>3. hole' \in 0 .. Pow2[level'] - 1
    BY <1>2, <1>14, Zenon
  <2>4. answers' \in Seq(Range(answers'))
    <3>1. PICK a \in Seq(S) : a = answers'
      BY <1>11
    <3>2. Len(a) \in Nat /\ IsList(a, Len(a))
      BY SeqList
    <3>3. a \in Seq(Range(a))
      BY <3>2, ListSeq
    <3>4. QED
      BY <3>1, <3>3, Zenon
  <2>5. QED
    BY <2>1, <2>2, <2>3, <2>4, Zenon DEF PuncTypeInv
<1>18. PuncOrderInv'
  <2>1. Len(answers') = num' - level'
    BY <1>1, <1>2, <1>4, <1>7, <1>11 DEF i
  <2>2. leaves' = Tree[num'] /\ leaves' # <<>> /\ request' = <<>> /\ BaseRecvDone'
    BY <1>1, <1>2, <1>6, <1>7, Zenon DEF BaseRecvDone
  <2>3. /\ pPc' \notin {"start", "failed"}
        /\ pPc' = "levels" => level' < num'
        /\ pPc' = "done" => level' = num'
    <3>1. i # num => i < num
      BY <1>4, <1>5
    <3>2. pPc' = (IF i = num THEN "done" ELSE "levels")
      BY <1>2, Zenon
    <3>3. /\ pPc' \notin {"start", "failed"}
          /\ pPc' = "levels" => i # num
          /\ pPc' = "done" => i = num
      BY <3>2
    <3>4. QED
      BY <1>1, <1>2, <3>1, <3>3, Zenon
  <2>4. QED
    BY <2>1, <2>2, <2>3, Zenon DEF PuncOrderInv
<1>19. PuncLevelInv'
  <2>1. /\ hole' = index' \div Pow2[num' - level']
        /\ dirty' = {} => known' = Punctured(Tree[level'], hole')
    BY <1>1, <1>2, <1>12, <1>15, <1>16, Zenon
  <2>2. ASSUME dirty' = {}, NEW k \in 1 .. Len(answers')
        PROVE  answers'[k][1 - IndexBit(level + k)'] =
                 XorSeed(SumSide(Tree[(level' + k) - 1], 1 - IndexBit(level + k)'),
                         BlockSeed(rBlocks'[level' + k]))
    <3>1. k + 1 \in 1 .. Len(answers) /\ answers'[k] = answers[k + 1]
      BY <1>4, <1>7, <1>11
    <3>2. level' + k = level + (k + 1)
      BY <1>2, <1>5 DEF i
    <3>3. IndexBit(level + k)' = IndexBit(level + (k + 1))
      BY <1>1, <1>2, <3>2, Zenon DEF IndexBit, ot_num
    <3>4. answers[k + 1][1 - IndexBit(level + (k + 1))] =
            XorSeed(SumSide(Tree[(level + (k + 1)) - 1], 1 - IndexBit(level + (k + 1))),
                    BlockSeed(rBlocks[level + (k + 1)]))
      BY <1>2, <2>2, <3>1, Zenon DEF PuncInv, PuncLevelInv
    <3>5. QED
      BY <1>1, <3>1, <3>2, <3>3, <3>4, Zenon
  <2>3. QED
    BY <2>1, <2>2, Zenon DEF PuncLevelInv
<1>20. QED
  BY <1>17, <1>18, <1>19 DEF PuncInv

LEMMA PuncInvMatches ==
  ASSUME BaseInv, PuncInv
  PROVE  SeedsMatchIfClean
<1> SUFFICES ASSUME dirty = {}, pPc = "done"
             PROVE  /\ known = RemoveAt(leaves, index + 1)
                    /\ leaves[index + 1] \notin Range(known)
  BY Zenon DEF SeedsMatchIfClean, SeedsMatch
<1>1. level = num /\ leaves # <<>>
  BY DEF PuncInv, PuncOrderInv
<1>2. leaves = Tree[num]
  BY <1>1 DEF PuncInv, PuncOrderInv
<1>3. PICK v \in Nat : v = index /\ v \in 0 .. Pow2[num] - 1
  BY DEF PuncInv, PuncTypeInv
<1>4. PICK d \in Nat : d = num
  BY DEF BaseInv, BaseTypeInv
<1>5. hole = v
  <2>1. num - level = 0
    BY <1>1, <1>4
  <2>2. Pow2[0] = 1 /\ v \div 1 = v
    BY Pow2Def
  <2>3. QED
    BY <1>3, <2>1, <2>2, Zenon DEF PuncInv, PuncLevelInv
<1>6. known = Punctured(Tree[d], v)
  BY <1>1, <1>4, <1>5, Zenon DEF PuncInv, PuncLevelInv
<1>7. v \in 0 .. Pow2[d] - 1
  BY <1>3, <1>4, Zenon
<1>8. /\ Punctured(Tree[d], v) = RemoveAt(Tree[d], v + 1)
      /\ Tree[d][v + 1] \notin Range(Punctured(Tree[d], v))
  BY <1>7, LeavesMatch
<1>9. QED
  BY <1>2, <1>3, <1>4, <1>6, <1>8, Zenon

-----------------------------------------------------------------------------
(* The specification of the protocols.                                     *)

LEMMA InitInv ==
  ASSUME Init
  PROVE  BaseInv /\ PuncInv
<1>0. BothX86 \in ImplPairs
  BY DEF BothX86, ImplPairs, Impls
<1>1. kKappa \in Nat /\ kKkrtWidth * kKappa \in Nat
  <2>1. PICK k \in Nat : k = kKappa
    BY ByteBitsAssumption DEF kKappa, SubSide
  <2>2. PICK w \in Nat : w = kKkrtWidth
    BY OtAssumption
  <2>3. w * k \in Nat
    OBVIOUS
  <2>4. QED
    BY <2>1, <2>2, <2>3, Zenon
<1>2. ASSUME NEW im \in ImplPairs, NEW d \in Nat, NEW c, NEW v \in 0 .. Pow2[d] - 1,
             BaseInit(im, d, c), PuncInit(v)
      PROVE  BaseInv /\ PuncInv
  <2>1. num = d
    BY <1>2 DEF BaseInit
  <2>2. BaseInv
    BY <1>2, BaseInitInv
  <2>3. PuncInv
    BY <1>2, <2>1, PuncInitInv
  <2>4. QED
    BY <2>2, <2>3
<1>3. \A d \in Nat : 0 \in 0 .. Pow2[d] - 1
  <2> SUFFICES ASSUME NEW d \in Nat PROVE 0 \in 0 .. Pow2[d] - 1
    OBVIOUS
  <2>1. Pow2[d] \in Nat /\ Pow2[d] >= 1
    BY Pow2Nat
  <2>2. QED
    BY <2>1
<1>4. ASSUME NEW p, NEW width \in Nat, NEW sizes, NEW ins, NEW cpus,
             InitExtension(p, width, sizes, ins, cpus)
      PROVE  BaseInv /\ PuncInv
  <2>1. PICK c : BaseInit(BothX86, width, c)
    BY <1>4, Zenon DEF InitExtension
  <2>2. PuncInit(0)
    BY <1>4, Zenon DEF InitExtension
  <2>3. QED
    BY <1>0, <1>2, <1>3, <2>1, <2>2
<1>5. ASSUME InitPunctured PROVE BaseInv /\ PuncInv
  <2>1. PICK d \in TreeDepths, im \in ImplPairs :
          \E c \in SUBSET (0 .. d - 1), v \in 0 .. Pow2[d] - 1 : BaseInit(im, d, c) /\ PuncInit(v)
    BY <1>5, Zenon DEF InitPunctured
  <2>2. PICK c \in SUBSET (0 .. d - 1), v \in 0 .. Pow2[d] - 1 : BaseInit(im, d, c) /\ PuncInit(v)
    BY <2>1
  <2>3. d \in Nat
    BY TwoPartyAssumption
  <2>4. QED
    BY <1>2, <2>2, <2>3
<1>6. ASSUME InitDpf PROVE BaseInv /\ PuncInv
  <2>1. BaseInit(BothX86, 0, {}) /\ PuncInit(0) /\ 0 \in Nat
    BY <1>6 DEF InitDpf
  <2>2. QED
    BY <1>0, <1>2, <1>3, <2>1
<1>7. QED
  BY <1>1, <1>4, <1>5, <1>6, Zenon DEF Init

LEMMA NextInv ==
  ASSUME BaseInv, PuncInv, [Next]_vars
  PROVE  BaseInv' /\ PuncInv'
<1>1. ASSUME UNCHANGED baseVars, UNCHANGED puncVars PROVE BaseInv' /\ PuncInv'
  <2>1. num' = num /\ choices' = choices /\ rBlocks' = rBlocks /\ rPc' = rPc
    BY <1>1 DEF baseVars
  <2>2. BaseRecvDone => BaseRecvDone' /\ rBlocks' = rBlocks
    BY <2>1 DEF BaseRecvDone
  <2>3. QED
    BY <1>1, <2>1, <2>2, BaseUnchanged, PuncKept
<1>2. ASSUME BaseNext, UNCHANGED puncVars PROVE BaseInv' /\ PuncInv'
  BY <1>2, BaseNextInv, BaseKeepsDone, PuncKept
<1>3. ASSUME PuncNext, UNCHANGED baseVars PROVE BaseInv' /\ PuncInv'
  <2>1. BaseInv'
    BY <1>3, BaseUnchanged
  <2>2. PuncInv'
    BY <1>3, StartKeeps, SendKeeps, LevelKeeps DEF PuncNext
  <2>3. QED
    BY <2>1, <2>2
<1>4. \/ UNCHANGED baseVars /\ UNCHANGED puncVars
      \/ BaseNext /\ UNCHANGED puncVars
      \/ PuncNext /\ UNCHANGED baseVars
  <2>1. CASE UNCHANGED vars
    <3>1. baseVars' = baseVars /\ puncVars' = puncVars
      BY <2>1 DEF vars
    <3>2. QED
      BY <3>1
  <2>2. CASE Step
    <3>1. \/ BaseNext /\ UNCHANGED <<extVars, puncVars, dpfVars>>
          \/ UNCHANGED <<baseVars, puncVars, dpfVars>>
          \/ PuncNext /\ UNCHANGED <<baseVars, extVars, dpfVars>>
          \/ UNCHANGED <<baseVars, extVars, puncVars>>
      BY <2>2, Zenon DEF Step
    <3>2. QED
      BY <3>1
  <2>3. QED
    BY <2>1, <2>2, Zenon DEF Next
<1>5. QED
  BY <1>1, <1>2, <1>3, <1>4

(* Every state of the two-party protocols satisfies the invariant of the   *)
(* base transfers and that of the punctured transfer, whichever protocol   *)
(* runs, for every width, every number of instances and every depth of     *)
(* the tree.                                                               *)
THEOREM Invariance == Spec => [](BaseInv /\ PuncInv)
<1>1. Init => BaseInv /\ PuncInv
  BY InitInv
<1>2. (BaseInv /\ PuncInv) /\ [Next]_vars => (BaseInv /\ PuncInv)'
  BY NextInv
<1>3. QED
  BY <1>1, <1>2, PTL DEF Spec

(* BaseOtRecv and BaseOtSend of all pairs of implementations: the receiver *)
(* of an instance has exactly the block its choice bit names, and no two   *)
(* blocks are the same, also when the last message is not full and when    *)
(* the implementations do not match.                                       *)
THEOREM BaseTransfersAgree == Spec => []BaseOtAgrees
<1>1. BaseInv /\ PuncInv => BaseOtAgrees
  BY BaseInvAgrees
<1>2. QED
  BY <1>1, Invariance, PTL

(* PuncturedROTRecv and PuncturedROTSend for trees of every depth and for  *)
(* every index: the receiver ends up with the sender's leaves but the one  *)
(* at its index, which is none of the seeds it holds, as long as the       *)
(* buffer of the masked choices had no stray bit.                          *)
THEOREM PuncturedSeeds == Spec => []SeedsMatchIfClean
<1>1. BaseInv /\ PuncInv => SeedsMatchIfClean
  BY PuncInvMatches
<1>2. QED
  BY <1>1, Invariance, PTL

-----------------------------------------------------------------------------
(* Remainders.                                                             *)

LEMMA Euclid ==
  ASSUME NEW v \in Int, NEW d \in Nat \ {0}
  PROVE  v \div d \in Int /\ v % d \in Nat /\ v % d < d /\ v = (v \div d) * d + (v % d)
  BY Z3

LEMMA EuclidNat ==
  ASSUME NEW v \in Nat, NEW d \in Nat \ {0}
  PROVE  v \div d \in Nat
  BY Z3

\* A multiple of d between -d and d is 0.
LEMMA NoMultiple ==
  ASSUME NEW z \in Int, NEW d \in Nat \ {0}, z * d < d, -d < z * d
  PROVE  z = 0
<1>1. z >= 1 => z * d >= d
  BY SMTT(30)
<1>2. z <= -1 => z * d <= -d
  BY SMTT(30)
<1>3. QED
  BY <1>1, <1>2

\* There is only one quotient and one remainder.
LEMMA Remainder ==
  ASSUME NEW v \in Int, NEW d \in Nat \ {0}, NEW c \in Int, NEW r \in Nat, r < d,
         v = c * d + r
  PROVE  v \div d = c /\ v % d = r
<1>1. PICK e \in Int : e = v \div d
  BY Euclid
<1>2. PICK s \in Nat : s = v % d
  BY Euclid
<1>3. s < d /\ v = e * d + s
  BY <1>1, <1>2, Euclid
<1>4. PICK z \in Int : z = e - c
  OBVIOUS
<1>5. z * d = e * d - c * d
  BY <1>4, Z3
<1>6. PICK m \in Int, k \in Int : m = e * d /\ k = c * d
  OBVIOUS
<1>7. z * d = r - s
  BY <1>3, <1>5, <1>6
<1>8. r - s < d /\ -d < r - s
  BY <1>3
<1>9. z = 0
  BY <1>7, <1>8, NoMultiple
<1>10. e = c
  BY <1>4, <1>9
<1>11. r = s
  BY <1>3, <1>6, <1>10
<1>12. QED
  BY <1>1, <1>2, <1>10, <1>11, Zenon

\* Numbers that differ by a multiple have the same remainder.
LEMMA SameRemainder ==
  ASSUME NEW a \in Int, NEW b \in Int, NEW d \in Nat \ {0}, NEW k \in Int, a = b + k * d
  PROVE  a % d = b % d
<1>1. PICK e \in Int : e = b \div d
  BY Euclid
<1>2. PICK r \in Nat : r = b % d
  BY Euclid
<1>3. r < d /\ b = e * d + r
  BY <1>1, <1>2, Euclid
<1>4. (e + k) * d = e * d + k * d
  BY Z3
<1>5. PICK m \in Int, o \in Int : m = e * d /\ o = k * d
  OBVIOUS
<1>6. PICK c \in Int : c = e + k
  OBVIOUS
<1>7. a = c * d + r
  BY <1>3, <1>4, <1>5, <1>6
<1>8. a % d = r
  BY <1>3, <1>7, Remainder
<1>9. QED
  BY <1>2, <1>8

\* The next bit of a number, and what is below it.
LEMMA BitSplit ==
  ASSUME NEW v \in Nat, NEW d \in Nat \ {0}
  PROVE  /\ (v \div d) % 2 \in {0, 1} /\ v % d \in Nat /\ v % d < d
         /\ v % (2 * d) = (v % d) + ((v \div d) % 2) * d
<1>1. PICK e \in Nat : e = v \div d
  BY EuclidNat
<1>2. PICK r \in Nat : r = v % d
  BY Euclid
<1>3. r < d /\ v = e * d + r
  BY <1>1, <1>2, Euclid
<1>4. PICK c \in Nat, b \in 0 .. 1 : e = 2 * c + b /\ e % 2 = b
  BY Halves
<1>5. b \in {0, 1}
  OBVIOUS
<1>6. (2 * c + b) * d = c * (2 * d) + b * d
  BY Z3
<1>7. b * d = 0 \/ b * d = d
  BY <1>5
<1>8. PICK w \in Nat \ {0} : w = 2 * d
  OBVIOUS
<1>9. PICK s \in Nat : s = r + b * d
  BY <1>7
<1>10. s < w
  BY <1>3, <1>7, <1>8, <1>9
<1>11. e * d = c * w + b * d
  BY <1>4, <1>6, <1>8, Zenon
<1>12. v = c * w + s
  <2>1. PICK m \in Int, o \in Int : m = e * d /\ o = c * w
    OBVIOUS
  <2>2. QED
    BY <1>3, <1>7, <1>9, <1>11, <2>1
<1>13. v % w = s
  BY <1>10, <1>12, Remainder
<1>14. QED
  BY <1>1, <1>2, <1>3, <1>4, <1>5, <1>8, <1>9, <1>13, Zenon

-----------------------------------------------------------------------------
(* Functions defined by recursion up to a bound.                           *)

Within(F, S) == \A k \in Nat, v \in S : F[k][v] \in S
Follows(f, a, F, m, S) ==
  f \in [0 .. m -> S] /\ f[0] = a /\ \A k \in 1 .. m : f[k] = F[k][f[k - 1]]

LEMMA Recursion ==
  ASSUME NEW S, NEW a \in S, NEW F, NEW m \in Nat, Within(F, S)
  PROVE  \E f : Follows(f, a, F, m, S)
<1> DEFINE Is(f, o) == /\ f \in [0 .. o -> S]
                       /\ f[0] = a /\ \A k \in 1 .. o : f[k] = F[k][f[k - 1]]
           C == {o \in Nat : \E f : Is(f, o)}
<1>1. 0 \in C
  <2> DEFINE f == [k \in 0 .. 0 |-> a]
  <2>1. f \in [0 .. 0 -> S] /\ f[0] = a /\ 1 .. 0 = {}
    OBVIOUS
  <2> HIDE DEF f
  <2>2. Is(f, 0)
    BY <2>1
  <2> HIDE DEF Is
  <2>3. QED
    BY <2>2
<1>2. ASSUME NEW o \in Nat, o \in C
      PROVE  o + 1 \in C
  <2>1. PICK f : Is(f, o)
    BY <1>2
  <2> DEFINE b == F[o + 1][f[o]]
             h == [k \in 0 .. o + 1 |-> IF k <= o THEN f[k] ELSE b]
  <2>2. f[o] \in S /\ o + 1 \in Nat
    BY <2>1
  <2>4. b \in S
    BY <2>2, Zenon DEF Within
  <2>5. h \in [0 .. o + 1 -> S]
    <3> HIDE DEF b
    <3>1. QED
      BY <2>1, <2>4
  <2>6. h[0] = a
    BY <2>1
  <2>7. ASSUME NEW k \in 1 .. o + 1 PROVE h[k] = F[k][h[k - 1]]
    <3>1. CASE k <= o
      <4>1. k \in 1 .. o /\ k - 1 \in 0 .. o + 1 /\ k - 1 <= o /\ k \in 0 .. o + 1
        BY <3>1
      <4>2. h[k] = f[k] /\ h[k - 1] = f[k - 1]
        BY <3>1, <4>1
      <4> HIDE DEF h
      <4>3. f[k] = F[k][f[k - 1]]
        BY <2>1, <4>1
      <4>4. QED
        BY <4>2, <4>3, Zenon
    <3>2. CASE ~(k <= o)
      <4>1. k = o + 1 /\ k - 1 = o /\ o \in 0 .. o + 1 /\ k \in 0 .. o + 1
        BY <3>2
      <4>2. h[k] = b /\ h[o] = f[o]
        BY <3>2, <4>1
      <4> HIDE DEF h
      <4>3. QED
        BY <4>1, <4>2, Zenon
    <3>3. QED
      BY <3>1, <3>2
  <2> HIDE DEF h
  <2>8. Is(h, o + 1)
    BY <2>5, <2>6, <2>7
  <2> HIDE DEF Is
  <2>9. QED
    BY <2>8
<1>3. Nat \subseteq C
  <2> HIDE DEF C
  <2>1. QED
    BY <1>1, <1>2, Induction
<1>4. PICK f : Is(f, m)
  BY <1>3
<1>5. QED
  BY <1>4 DEF Follows

\* A seed is a number.
LEMMA SeedNumNat ==
  ASSUME NEW s
  PROVE  SeedNum(s) \in Nat
<1> DEFINE w(k) == IF k - 1 \in s THEN Pow2[k - 1] ELSE 0
           Is(f) == f = [k \in 0 .. kSecParam |-> IF k = 0 THEN 0 ELSE f[k - 1] + w(k)]
           G(k) == [v \in Nat |-> v + (IF k = 0 THEN 0 ELSE w(k))]
           F == [k \in Nat |-> G(k)]
<1>1. \A k \in Nat \ {0} : w(k) \in Nat
  <2> SUFFICES ASSUME NEW k \in Nat \ {0} PROVE w(k) \in Nat
    OBVIOUS
  <2>1. k - 1 \in Nat
    OBVIOUS
  <2>2. Pow2[k - 1] \in Nat
    BY <2>1, Pow2Nat
  <2>3. QED
    BY <2>2
<1> HIDE DEF w
<1>2. ASSUME NEW k \in Nat, NEW v \in Nat PROVE F[k][v] \in Nat
  <2>1. PICK u \in Nat : u = IF k = 0 THEN 0 ELSE w(k)
    BY <1>1
  <2>2. F[k][v] = v + u
    BY <2>1
  <2> HIDE DEF F
  <2>3. v + u \in Nat
    OBVIOUS
  <2>4. QED
    BY <2>2, <2>3, Zenon
<1>a. \A k \in Nat \ {0}, v \in Nat : F[k][v] = v + w(k)
  OBVIOUS
<1> HIDE DEF F
<1>b. kSecParam \in Nat
  BY DEF kSecParam
<1>c. \E f : Follows(f, 0, F, kSecParam, Nat)
  <2>1. Within(F, Nat)
    BY <1>2, Zenon DEF Within
  <2>2. 0 \in Nat
    OBVIOUS
  <2>3. QED
    BY <1>b, <2>1, <2>2, Recursion
<1>3. PICK f \in [0 .. kSecParam -> Nat] : f[0] = 0 /\ \A k \in 1 .. kSecParam : f[k] = F[k][f[k - 1]]
  BY <1>c DEF Follows
<1>4. ASSUME NEW k \in 0 .. kSecParam PROVE f[k] = IF k = 0 THEN 0 ELSE f[k - 1] + w(k)
  <2>1. CASE k = 0
    BY <1>3, <2>1
  <2>2. CASE k # 0
    <3>1. k \in 1 .. kSecParam /\ k - 1 \in 0 .. kSecParam /\ k \in Nat \ {0}
      BY <1>b, <2>2
    <3>2. f[k - 1] \in Nat /\ f[k] = F[k][f[k - 1]]
      BY <1>3, <3>1
    <3>3. F[k][f[k - 1]] = f[k - 1] + w(k)
      BY <1>a, <3>1, <3>2, Zenon
    <3>4. QED
      BY <2>2, <3>2, <3>3, Zenon
  <2>3. QED
    BY <2>1, <2>2
<1>5. f = [k \in 0 .. kSecParam |-> f[k]]
  OBVIOUS
<1>6. Is(f)
  BY <1>4, <1>5, Zenon
<1>7. PICK c : c = CHOOSE h : Is(h)
  OBVIOUS
<1>8. Is(c)
  <2> HIDE DEF Is
  <2>1. QED
    BY <1>6, <1>7
<1>9. \A k \in 0 .. kSecParam : c[k] = IF k = 0 THEN 0 ELSE c[k - 1] + w(k)
  BY <1>8
<1> DEFINE D == {k \in Nat : k <= kSecParam => c[k] \in Nat}
<1>10. 0 \in D
  BY <1>9, <1>b
<1>11. ASSUME NEW k \in Nat, k \in D PROVE k + 1 \in D
  <2> SUFFICES ASSUME k + 1 <= kSecParam PROVE c[k + 1] \in Nat
    OBVIOUS
  <2>1. k + 1 \in 0 .. kSecParam /\ k + 1 # 0 /\ (k + 1) - 1 = k /\ c[k] \in Nat /\ k + 1 \in Nat \ {0}
    BY <1>11, <1>b
  <2>2. c[k + 1] = c[k] + w(k + 1)
    BY <1>9, <2>1
  <2>3. w(k + 1) \in Nat
    BY <1>1, <2>1
  <2>4. QED
    BY <2>1, <2>2, <2>3
<1>12. Nat \subseteq D
  <2> HIDE DEF D
  <2>1. QED
    BY <1>10, <1>11, Induction
<1>13. c[kSecParam] \in Nat
  BY <1>12, <1>b
<1>14. SeedNum(s) = c[kSecParam]
  BY <1>7, Zenon DEF SeedNum, w
<1>15. QED
  BY <1>13, <1>14

-----------------------------------------------------------------------------
(* The point function: what one level does to the two parties' nodes.      *)

Seed == SUBSET SeedBits
IsGen(g) == \A s \in Seed : \A b \in {0, 1} :
  g.split[s].seed[b] \in Seed /\ g.split[s].t[b] \in BOOLEAN

LEMMA GenTyped ==
  ASSUME NEW g \in Prgs
  PROVE  IsGen(g)
<1>1. g.split \in [SUBSET SeedBits -> [seed : [{0, 1} -> SUBSET SeedBits],
                                       t : [{0, 1} -> BOOLEAN]]]
  BY DpfAssumption
<1>2. PICK f \in [SUBSET SeedBits -> [seed : [{0, 1} -> SUBSET SeedBits],
                                       t : [{0, 1} -> BOOLEAN]]] : f = g.split
  BY <1>1
<1>3. ASSUME NEW s \in SUBSET SeedBits, NEW b \in {0, 1}
      PROVE  f[s].seed[b] \in SUBSET SeedBits /\ f[s].t[b] \in BOOLEAN
  <2>1. f[s] \in [seed : [{0, 1} -> SUBSET SeedBits], t : [{0, 1} -> BOOLEAN]]
    BY <1>2, Zenon
  <2>2. f[s].seed \in [{0, 1} -> SUBSET SeedBits] /\ f[s].t \in [{0, 1} -> BOOLEAN]
    BY <2>1, Zenon
  <2>3. QED
    BY <2>2, Zenon
<1>4. QED
  BY <1>2, <1>3, Zenon DEF IsGen, Seed

LEMMA XorSeeds ==
  ASSUME NEW a \in Seed, NEW b \in Seed
  PROVE  /\ SymDiff(a, b) \in Seed
         /\ SymDiff(a, SymDiff(a, b)) = b /\ SymDiff(b, SymDiff(a, b)) = a
  BY DEF SymDiff, Seed

LEMMA GetTMade ==
  ASSUME NEW s, NEW t0 \in BOOLEAN, NEW t1 \in BOOLEAN
  PROVE  /\ MakeCw(s, t0, t1).seed = s
         /\ GetT(MakeCw(s, t0, t1), 0) <=> t0
         /\ GetT(MakeCw(s, t0, t1), 1) <=> t1
<1>1. Pow2[0] = 1 /\ Pow2[1] = 2
  <2>1. Pow2[0] = 1 /\ Pow2[0 + 1] = 2 * Pow2[0]
    BY Pow2Def
  <2>2. 0 + 1 = 1 /\ 2 * 1 = 2
    OBVIOUS
  <2>3. QED
    BY <2>1, <2>2, Zenon
<1>2. PICK c : c = MakeCw(s, t0, t1)
  OBVIOUS
<1>3. c.seed = s /\ c.t_store = (IF t1 THEN 2 ELSE 0) + (IF t0 THEN 1 ELSE 0)
  BY <1>2 DEF MakeCw
<1>4. GetT(c, 0) <=> (c.t_store \div 1) % 2 = 1
  BY <1>1 DEF GetT
<1>5. GetT(c, 1) <=> (c.t_store \div 2) % 2 = 1
  BY <1>1 DEF GetT
<1>6. /\ (0 \div 1) % 2 = 0 /\ (1 \div 1) % 2 = 1 /\ (2 \div 1) % 2 = 0 /\ (3 \div 1) % 2 = 1
      /\ (0 \div 2) % 2 = 0 /\ (1 \div 2) % 2 = 0 /\ (2 \div 2) % 2 = 1 /\ (3 \div 2) % 2 = 1
  OBVIOUS
<1>7. c.t_store = IF t1 THEN IF t0 THEN 3 ELSE 2 ELSE IF t0 THEN 1 ELSE 0
  BY <1>3
<1>8. (GetT(c, 0) <=> t0) /\ (GetT(c, 1) <=> t1)
  <2>1. CASE t0 /\ t1
    BY <1>4, <1>5, <1>6, <1>7, <2>1
  <2>2. CASE t0 /\ ~t1
    BY <1>4, <1>5, <1>6, <1>7, <2>2
  <2>3. CASE ~t0 /\ t1
    BY <1>4, <1>5, <1>6, <1>7, <2>3
  <2>4. CASE ~t0 /\ ~t1
    BY <1>4, <1>5, <1>6, <1>7, <2>4
  <2>5. QED
    BY <2>1, <2>2, <2>3, <2>4
<1>9. QED
  BY <1>2, <1>3, <1>8, Zenon

\* A seed and a bit corrected by the word cw, on the side b.
CorrSeed(g, cw, s, t, b) ==
  IF t THEN SymDiff(g.split[s].seed[b], cw.seed) ELSE g.split[s].seed[b]
CorrT(g, cw, s, t, b) == g.split[s].t[b] # (t /\ GetT(cw, b))

\* What the word of a level is for the seeds s0 and s1.
IsWord(g, cw, bit, s0, s1) ==
  /\ cw.seed = SymDiff(g.split[s0].seed[1 - bit], g.split[s1].seed[1 - bit])
  /\ \A b \in {0, 1} :
       GetT(cw, b) <=> ((g.split[s0].t[b] # g.split[s1].t[b]) # (bit = b))

LEMMA CorrectedIs ==
  ASSUME NEW g, NEW bit \in {0, 1}, NEW s, NEW t, IsGen(g),
         \A r \in Ranks : s[r] \in Seed /\ t[r] \in BOOLEAN
  PROVE  /\ IsWord(g, Corrected(g, bit, s, t).cw, bit, s[0], s[1])
         /\ \A r \in Ranks :
              /\ Corrected(g, bit, s, t).seed[r] = CorrSeed(g, Corrected(g, bit, s, t).cw, s[r], t[r], bit)
              /\ Corrected(g, bit, s, t).t[r] = CorrT(g, Corrected(g, bit, s, t).cw, s[r], t[r], bit)
<1> DEFINE split == [r \in Ranks |-> g.split[s[r]]]
           lose == 1 - bit
           cw_seed == SymDiff(split[0].seed[lose], split[1].seed[lose])
           cw_t == [b \in {0, 1} |-> (split[0].t[b] # split[1].t[b]) # (bit = b)]
           seeds == [r \in Ranks |-> IF t[r] THEN SymDiff(split[r].seed[bit], cw_seed)
                                     ELSE split[r].seed[bit]]
           ts == [r \in Ranks |-> split[r].t[bit] # (t[r] /\ cw_t[bit])]
<1>1. PICK c : c = Corrected(g, bit, s, t)
  OBVIOUS
<1>2. c = [cw |-> MakeCw(cw_seed, cw_t[0], cw_t[1]), seed |-> seeds, t |-> ts]
  BY <1>1, Zenon DEF Corrected
<1>3. c.cw = MakeCw(cw_seed, cw_t[0], cw_t[1]) /\ c.seed = seeds /\ c.t = ts
  <2> HIDE DEF cw_seed, cw_t, seeds, ts
  <2>1. QED
    BY <1>2
<1>4. 0 \in Ranks /\ 1 \in Ranks /\ 0 \in {0, 1} /\ 1 \in {0, 1} /\ Ranks = {0, 1}
  BY DEF Ranks
<1>5. \A r \in Ranks : split[r] = g.split[s[r]]
  OBVIOUS
<1> HIDE DEF split
<1>6. cw_t[0] \in BOOLEAN /\ cw_t[1] \in BOOLEAN
  BY <1>4, Zenon
<1>7. /\ c.cw.seed = cw_seed
      /\ GetT(c.cw, 0) <=> cw_t[0]
      /\ GetT(c.cw, 1) <=> cw_t[1]
  <2> HIDE DEF cw_seed, cw_t, seeds, ts
  <2>0. PICK e : e = cw_seed
    OBVIOUS
  <2>1. PICK e0 \in BOOLEAN, e1 \in BOOLEAN : e0 = cw_t[0] /\ e1 = cw_t[1] /\ e = cw_seed
    BY <1>6, <2>0
  <2>2. c.cw = MakeCw(e, e0, e1)
    BY <1>3, <2>1, Zenon
  <2>3. c.cw.seed = e /\ (GetT(c.cw, 0) <=> e0) /\ (GetT(c.cw, 1) <=> e1)
    BY <2>2, GetTMade
  <2>4. QED
    BY <2>1, <2>3, Zenon
<1>8. \A b \in {0, 1} : GetT(c.cw, b) <=> cw_t[b]
  <2> HIDE DEF cw_t
  <2>1. QED
    BY <1>7, Zenon
<1>9. \A b \in {0, 1} : cw_t[b] = ((split[0].t[b] # split[1].t[b]) # (bit = b))
  BY Zenon
<1>10. \A r \in Ranks : seeds[r] = IF t[r] THEN SymDiff(split[r].seed[bit], cw_seed)
                                   ELSE split[r].seed[bit]
  <2> HIDE DEF cw_seed
  <2>1. QED
    BY Zenon
<1>11. \A r \in Ranks : ts[r] = (split[r].t[bit] # (t[r] /\ cw_t[bit]))
  <2> HIDE DEF cw_t
  <2>1. QED
    BY Zenon
<1>12. cw_seed = SymDiff(g.split[s[0]].seed[1 - bit], g.split[s[1]].seed[1 - bit])
  BY <1>4, <1>5, Zenon
<1> HIDE DEF cw_seed, cw_t, seeds, ts
<1>13. IsWord(g, c.cw, bit, s[0], s[1])
  <2>1. c.cw.seed = SymDiff(g.split[s[0]].seed[1 - bit], g.split[s[1]].seed[1 - bit])
    BY <1>7, <1>12, Zenon
  <2>2. ASSUME NEW b \in {0, 1}
        PROVE  GetT(c.cw, b) <=> ((g.split[s[0]].t[b] # g.split[s[1]].t[b]) # (bit = b))
    <3>1. cw_t[b] = ((g.split[s[0]].t[b] # g.split[s[1]].t[b]) # (bit = b))
      BY <1>4, <1>5, <1>9, Zenon
    <3>2. QED
      BY <1>8, <3>1, Zenon
  <2>3. QED
    BY <2>1, <2>2, Zenon DEF IsWord
<1>14. ASSUME NEW r \in Ranks
       PROVE  c.seed[r] = CorrSeed(g, c.cw, s[r], t[r], bit) /\ c.t[r] = CorrT(g, c.cw, s[r], t[r], bit)
  <2>1. c.seed[r] = IF t[r] THEN SymDiff(g.split[s[r]].seed[bit], c.cw.seed)
                    ELSE g.split[s[r]].seed[bit]
    BY <1>3, <1>5, <1>7, <1>10, Zenon
  <2>2. (cw_t[bit] <=> GetT(c.cw, bit)) /\ cw_t[bit] \in BOOLEAN
    BY <1>6, <1>8, Zenon
  <2>3. c.t[r] = (g.split[s[r]].t[bit] # (t[r] /\ cw_t[bit]))
    BY <1>3, <1>5, <1>11, Zenon
  <2>4. c.t[r] = (g.split[s[r]].t[bit] # (t[r] /\ GetT(c.cw, bit)))
    BY <2>2, <2>3, Zenon
  <2>5. QED
    BY <2>1, <2>4, Zenon DEF CorrSeed, CorrT
<1>15. QED
  BY <1>1, <1>13, <1>14, Zenon

LEMMA XorKept ==
  ASSUME NEW a \in BOOLEAN, NEW b \in BOOLEAN, NEW c \in BOOLEAN,
         NEW t0 \in BOOLEAN, NEW t1 \in BOOLEAN, t0 # t1
  PROVE  /\ (c <=> ((a # b) # TRUE)) => (a # (t0 /\ c)) # (b # (t1 /\ c))
         /\ (c <=> ((a # b) # FALSE)) => (a # (t0 /\ c)) = (b # (t1 /\ c))
<1>1. (t0 /\ ~t1) \/ (~t0 /\ t1)
  OBVIOUS
<1>2. CASE t0 /\ ~t1 /\ a /\ b /\ c
  BY <1>2, Zenon
<1>3. CASE t0 /\ ~t1 /\ a /\ b /\ ~c
  BY <1>3, Zenon
<1>4. CASE t0 /\ ~t1 /\ a /\ ~b /\ c
  BY <1>4, Zenon
<1>5. CASE t0 /\ ~t1 /\ a /\ ~b /\ ~c
  BY <1>5, Zenon
<1>6. CASE t0 /\ ~t1 /\ ~a /\ b /\ c
  BY <1>6, Zenon
<1>7. CASE t0 /\ ~t1 /\ ~a /\ b /\ ~c
  BY <1>7, Zenon
<1>8. CASE t0 /\ ~t1 /\ ~a /\ ~b /\ c
  BY <1>8, Zenon
<1>9. CASE t0 /\ ~t1 /\ ~a /\ ~b /\ ~c
  BY <1>9, Zenon
<1>10. CASE ~t0 /\ t1 /\ a /\ b /\ c
  BY <1>10, Zenon
<1>11. CASE ~t0 /\ t1 /\ a /\ b /\ ~c
  BY <1>11, Zenon
<1>12. CASE ~t0 /\ t1 /\ a /\ ~b /\ c
  BY <1>12, Zenon
<1>13. CASE ~t0 /\ t1 /\ a /\ ~b /\ ~c
  BY <1>13, Zenon
<1>14. CASE ~t0 /\ t1 /\ ~a /\ b /\ c
  BY <1>14, Zenon
<1>15. CASE ~t0 /\ t1 /\ ~a /\ b /\ ~c
  BY <1>15, Zenon
<1>16. CASE ~t0 /\ t1 /\ ~a /\ ~b /\ c
  BY <1>16, Zenon
<1>17. CASE ~t0 /\ t1 /\ ~a /\ ~b /\ ~c
  BY <1>17, Zenon
<1>18. QED
  BY <1>1, <1>2, <1>3, <1>4, <1>5, <1>6, <1>7, <1>8, <1>9, <1>10, <1>11, <1>12,
     <1>13, <1>14, <1>15, <1>16, <1>17

LEMMA CorrTyped ==
  ASSUME NEW g, NEW cw, NEW s \in Seed, NEW t \in BOOLEAN, NEW b \in {0, 1}, IsGen(g),
         cw.seed \in Seed
  PROVE  CorrSeed(g, cw, s, t, b) \in Seed /\ CorrT(g, cw, s, t, b) \in BOOLEAN
<1>1. g.split[s].seed[b] \in Seed
  BY Zenon DEF IsGen
<1>2. SymDiff(g.split[s].seed[b], cw.seed) \in Seed
  BY <1>1, XorSeeds
<1>3. CorrSeed(g, cw, s, t, b) \in Seed
  BY <1>1, <1>2, Zenon DEF CorrSeed
<1>4. CorrT(g, cw, s, t, b) \in BOOLEAN
  BY Zenon DEF CorrT
<1>5. QED
  BY <1>3, <1>4

LEMMA WordTyped ==
  ASSUME NEW g, NEW cw, NEW bit \in {0, 1}, NEW s0 \in Seed, NEW s1 \in Seed, IsGen(g),
         IsWord(g, cw, bit, s0, s1)
  PROVE  cw.seed \in Seed
<1>1. 1 - bit \in {0, 1}
  OBVIOUS
<1>2. PICK a \in Seed, b \in Seed : a = g.split[s0].seed[1 - bit] /\ b = g.split[s1].seed[1 - bit]
  BY <1>1, Zenon DEF IsGen
<1>3. cw.seed = SymDiff(a, b)
  BY <1>2, Zenon DEF IsWord
<1>4. QED
  BY <1>3, XorSeeds

\* On the path the bits go on to differ.
LEMMA KeepsDiffering ==
  ASSUME NEW g, NEW cw, NEW bit \in {0, 1}, NEW s0 \in Seed, NEW s1 \in Seed,
         NEW t0 \in BOOLEAN, NEW t1 \in BOOLEAN, IsGen(g), t0 # t1, IsWord(g, cw, bit, s0, s1)
  PROVE  CorrT(g, cw, s0, t0, bit) # CorrT(g, cw, s1, t1, bit)
<1>1. PICK a \in BOOLEAN, b \in BOOLEAN : a = g.split[s0].t[bit] /\ b = g.split[s1].t[bit]
  BY Zenon DEF IsGen
<1>2. GetT(cw, bit) <=> ((a # b) # TRUE)
  BY <1>1, Zenon DEF IsWord
<1>3. PICK c \in BOOLEAN : c <=> GetT(cw, bit)
  <2>1. GetT(cw, bit) \in BOOLEAN
    BY Zenon DEF GetT
  <2>2. QED
    BY <2>1, Zenon
<1>4. (a # (t0 /\ c)) # (b # (t1 /\ c))
  BY <1>2, <1>3, XorKept
<1>5. CorrT(g, cw, s0, t0, bit) = (a # (t0 /\ c)) /\ CorrT(g, cw, s1, t1, bit) = (b # (t1 /\ c))
  BY <1>1, <1>3, Zenon DEF CorrT
<1>6. QED
  BY <1>4, <1>5, Zenon

SameChild(g, cw, s0, t0, s1, t1, b) ==
  /\ CorrSeed(g, cw, s0, t0, b) = CorrSeed(g, cw, s1, t1, b)
  /\ CorrT(g, cw, s0, t0, b) = CorrT(g, cw, s1, t1, b)

\* Off the path the two parties become the same.
LEMMA BecomesEqual ==
  ASSUME NEW g, NEW cw, NEW bit \in {0, 1}, NEW s0 \in Seed, NEW s1 \in Seed,
         NEW t0 \in BOOLEAN, NEW t1 \in BOOLEAN, NEW lo \in {0, 1},
         IsGen(g), t0 # t1, IsWord(g, cw, bit, s0, s1), lo # bit
  PROVE  SameChild(g, cw, s0, t0, s1, t1, lo)
<1>1. lo = 1 - bit
  OBVIOUS
<1>2. PICK a \in BOOLEAN, b \in BOOLEAN : a = g.split[s0].t[lo] /\ b = g.split[s1].t[lo]
  BY Zenon DEF IsGen
<1>3. PICK u \in Seed, v \in Seed : u = g.split[s0].seed[lo] /\ v = g.split[s1].seed[lo]
  BY Zenon DEF IsGen
<1>4. GetT(cw, lo) <=> ((a # b) # FALSE)
  BY <1>1, <1>2, Zenon DEF IsWord
<1>5. cw.seed = SymDiff(u, v)
  BY <1>1, <1>3, Zenon DEF IsWord
<1>6. PICK c \in BOOLEAN : c <=> GetT(cw, lo)
  <2>1. GetT(cw, lo) \in BOOLEAN
    BY Zenon DEF GetT
  <2>2. QED
    BY <2>1, Zenon
<1>7. (a # (t0 /\ c)) = (b # (t1 /\ c))
  BY <1>4, <1>6, XorKept
<1>8. CorrT(g, cw, s0, t0, lo) = (a # (t0 /\ c)) /\ CorrT(g, cw, s1, t1, lo) = (b # (t1 /\ c))
  BY <1>2, <1>6, Zenon DEF CorrT
<1>9. SymDiff(u, SymDiff(u, v)) = v /\ SymDiff(v, SymDiff(u, v)) = u
  BY XorSeeds
<1>10. /\ CorrSeed(g, cw, s0, t0, lo) = IF t0 THEN SymDiff(u, SymDiff(u, v)) ELSE u
       /\ CorrSeed(g, cw, s1, t1, lo) = IF t1 THEN SymDiff(v, SymDiff(u, v)) ELSE v
  BY <1>3, <1>5, Zenon DEF CorrSeed
<1>11. CorrSeed(g, cw, s0, t0, lo) = CorrSeed(g, cw, s1, t1, lo)
  <2>1. CASE t0 /\ ~t1
    BY <1>9, <1>10, <2>1, Zenon
  <2>2. CASE ~t0 /\ t1
    BY <1>9, <1>10, <2>2, Zenon
  <2>3. QED
    BY <2>1, <2>2
<1>12. QED
  BY <1>7, <1>8, <1>11, Zenon DEF SameChild

-----------------------------------------------------------------------------
(* The nodes on the way to a position.                                     *)

IsPath(f, g, ky, m, p) ==
  f = [l \in 0 .. m |-> IF l = 0 THEN Root(ky) ELSE Child(g, ky, f[l - 1], GetBit(p, l - 1))]

LEMMA PathExists ==
  ASSUME NEW g, NEW ky, NEW p, NEW d \in Nat
  PROVE  \E f : IsPath(f, g, ky, d, p)
<1> DEFINE C(v, k) == Child(g, ky, v, GetBit(p, k))
           S == {m \in Nat : \E f : IsPath(f, g, ky, m, p)}
<1>1. 0 \in S
  <2> DEFINE f == [i \in 0 .. 0 |-> Root(ky)]
  <2>1. ASSUME NEW i \in 0 .. 0
        PROVE  f[i] = IF i = 0 THEN Root(ky) ELSE C(f[i - 1], i - 1)
    <3>1. i = 0
      OBVIOUS
    <3> HIDE DEF C
    <3>2. QED
      BY <3>1
  <2>2. f = [i \in 0 .. 0 |-> f[i]]
    OBVIOUS
  <2> HIDE DEF f
  <2>3. IsPath(f, g, ky, 0, p)
    BY <2>1, <2>2, Zenon DEF IsPath
  <2>4. QED
    BY <2>3
<1>2. ASSUME NEW m \in Nat, m \in S
      PROVE  m + 1 \in S
  <2>1. PICK f : IsPath(f, g, ky, m, p)
    BY <1>2
  <2> DEFINE h == [i \in 0 .. m + 1 |-> IF i <= m THEN f[i] ELSE C(f[m], m)]
  <2>2. ASSUME NEW i \in 0 .. m PROVE f[i] = IF i = 0 THEN Root(ky) ELSE C(f[i - 1], i - 1)
    BY <2>1, Zenon DEF IsPath
  <2>3. ASSUME NEW i \in 0 .. m + 1
        PROVE  h[i] = IF i = 0 THEN Root(ky) ELSE C(h[i - 1], i - 1)
    <3> HIDE DEF C
    <3>1. CASE i <= m
      <4>1. i \in 0 .. m /\ (i # 0 => i - 1 \in 0 .. m + 1 /\ i - 1 <= m)
        BY <3>1
      <4>2. h[i] = f[i] /\ (i # 0 => h[i - 1] = f[i - 1])
        BY <3>1, <4>1
      <4> HIDE DEF h
      <4>3. QED
        BY <2>2, <4>1, <4>2, Zenon
    <3>2. CASE ~(i <= m)
      <4>1. i = m + 1 /\ i # 0 /\ i - 1 = m /\ m \in 0 .. m + 1
        BY <3>2
      <4>2. h[i] = C(f[m], m) /\ h[m] = f[m]
        BY <3>2, <4>1
      <4> HIDE DEF h
      <4>3. QED
        BY <4>1, <4>2, Zenon
    <3>3. QED
      BY <3>1, <3>2
  <2>4. h = [i \in 0 .. m + 1 |-> h[i]]
    <3> HIDE DEF C
    <3>1. QED
      OBVIOUS
  <2> HIDE DEF h
  <2>5. IsPath(h, g, ky, m + 1, p)
    BY <2>3, <2>4, Zenon DEF IsPath
  <2>6. QED
    BY <2>5
<1>3. Nat \subseteq S
  <2> HIDE DEF S
  <2>1. QED
    BY <1>1, <1>2, Induction
<1>4. QED
  BY <1>3

Descends(f, g, ky, d, p) ==
  f[0] = Root(ky) /\ \A l \in 0 .. d - 1 : f[l + 1] = Child(g, ky, f[l], GetBit(p, l))

\* PathTo is the function that its definition describes.
LEMMA PathDef ==
  ASSUME NEW g, NEW ky, NEW p, NEW d \in Nat
  PROVE  Descends(PathTo(g, ky, d, p), g, ky, d, p)
<1>1. PICK f : f = PathTo(g, ky, d, p)
  OBVIOUS
<1>2. f = CHOOSE h : IsPath(h, g, ky, d, p)
  BY <1>1, Zenon DEF PathTo, IsPath
<1>3. IsPath(f, g, ky, d, p)
  BY <1>2, PathExists, Zenon
<1>4. ASSUME NEW l \in 0 .. d
      PROVE  f[l] = IF l = 0 THEN Root(ky) ELSE Child(g, ky, f[l - 1], GetBit(p, l - 1))
  BY <1>3, Zenon DEF IsPath
<1>5. f[0] = Root(ky)
  <2>1. 0 \in 0 .. d
    OBVIOUS
  <2>2. QED
    BY <1>4, <2>1, Zenon
<1>6. ASSUME NEW l \in 0 .. d - 1 PROVE f[l + 1] = Child(g, ky, f[l], GetBit(p, l))
  <2>1. l + 1 \in 0 .. d /\ l + 1 # 0 /\ (l + 1) - 1 = l
    OBVIOUS
  <2>2. f[l + 1] = Child(g, ky, f[(l + 1) - 1], GetBit(p, (l + 1) - 1))
    BY <1>4, <2>1, Zenon
  <2>3. QED
    BY <2>1, <2>2, Zenon
<1>7. QED
  BY <1>1, <1>5, <1>6, Zenon DEF Descends

LEMMA PowerAt ==
  ASSUME NEW l \in Nat
  PROVE  Pow2[l] \in Nat \ {0} /\ Pow2[l + 1] = 2 * Pow2[l]
<1>1. Pow2[l] \in Nat /\ Pow2[l] >= 1
  BY Pow2Nat
<1>2. Pow2[l + 1] = 2 * Pow2[l]
  BY Pow2Def
<1>3. QED
  BY <1>1, <1>2

LEMMA BitOfPos ==
  ASSUME NEW p \in Nat, NEW l \in Nat
  PROVE  /\ GetBit(p, l) \in {0, 1} /\ p % Pow2[l] \in Nat /\ p % Pow2[l] < Pow2[l]
         /\ p % Pow2[l + 1] = (p % Pow2[l]) + GetBit(p, l) * Pow2[l]
<1>1. PICK m \in Nat \ {0} : m = Pow2[l] /\ Pow2[l + 1] = 2 * m
  BY PowerAt, Zenon
<1>2. GetBit(p, l) = (p \div m) % 2
  BY <1>1, Zenon DEF GetBit
<1>3. /\ (p \div m) % 2 \in {0, 1} /\ p % m \in Nat /\ p % m < m
      /\ p % (2 * m) = (p % m) + ((p \div m) % 2) * m
  BY BitSplit
<1>4. QED
  BY <1>1, <1>2, <1>3, Zenon

\* Positions with the same low bits.
LEMMA SamePrefix ==
  ASSUME NEW p \in Nat, NEW o \in Nat, NEW l \in Nat
  PROVE  p % Pow2[l + 1] = o % Pow2[l + 1]
           <=> p % Pow2[l] = o % Pow2[l] /\ GetBit(p, l) = GetBit(o, l)
<1>1. PICK m \in Nat \ {0} : m = Pow2[l]
  BY PowerAt, Zenon
<1>2. PICK a \in Nat, b \in Nat : a = p % m /\ b = o % m /\ a < m /\ b < m
  BY <1>1, BitOfPos, Zenon
<1>3. PICK u \in {0, 1}, v \in {0, 1} : u = GetBit(p, l) /\ v = GetBit(o, l)
  BY BitOfPos, Zenon
<1>4. p % Pow2[l + 1] = a + u * m /\ o % Pow2[l + 1] = b + v * m
  BY <1>1, <1>2, <1>3, BitOfPos, Zenon
<1>5. (u = 0 => u * m = 0) /\ (u = 1 => u * m = m) /\ (v = 0 => v * m = 0) /\ (v = 1 => v * m = m)
  OBVIOUS
<1>6. a + u * m = b + v * m <=> a = b /\ u = v
  <2>1. u = 0 \/ u = 1
    OBVIOUS
  <2>2. v = 0 \/ v = 1
    OBVIOUS
  <2>3. PICK y \in Nat, z \in Nat : y = u * m /\ z = v * m
    BY <1>5
  <2>4. (u = 0 /\ y = 0) \/ (u = 1 /\ y = m)
    BY <1>5, <2>1, <2>3
  <2>5. (v = 0 /\ z = 0) \/ (v = 1 /\ z = m)
    BY <1>5, <2>2, <2>3
  <2>6. a + y = b + z <=> a = b /\ u = v
    BY <1>2, <2>4, <2>5
  <2>7. QED
    BY <2>3, <2>6, Zenon
<1>7. QED
  BY <1>1, <1>2, <1>3, <1>4, <1>6, Zenon

\* The positions of the two children of a node.
LEMMA ChildPos ==
  ASSUME NEW l \in Nat, NEW p \in Nat, NEW b \in {0, 1}, p < Pow2[l]
  PROVE  /\ p + b * Pow2[l] \in Nat /\ p + b * Pow2[l] < Pow2[l + 1]
         /\ GetBit(p + b * Pow2[l], l) = b /\ (p + b * Pow2[l]) % Pow2[l] = p
<1>1. PICK m \in Nat \ {0} : m = Pow2[l] /\ Pow2[l + 1] = 2 * m
  BY PowerAt, Zenon
<1>2. p < m
  BY <1>1
<1>3. PICK v \in Nat : v = p + b * m
  OBVIOUS
<1>4. b * m = 0 \/ b * m = m
  OBVIOUS
<1>5. v < 2 * m
  BY <1>2, <1>3, <1>4
<1>6. v = b * m + p
  BY <1>3, <1>4
<1>7. v \div m = b /\ v % m = p
  <2>1. b \in Int
    OBVIOUS
  <2>2. QED
    BY <1>2, <1>6, <2>1, Remainder
<1>8. b % 2 = b
  OBVIOUS
<1>9. GetBit(v, l) = b
  BY <1>1, <1>7, <1>8, Zenon DEF GetBit
<1>10. QED
  BY <1>1, <1>3, <1>5, <1>7, <1>9, Zenon

LEMMA PathSame ==
  ASSUME NEW g, NEW ky, NEW d \in Nat, NEW p \in Nat, NEW o \in Nat, NEW l \in 0 .. d,
         p % Pow2[l] = o % Pow2[l]
  PROVE  PathTo(g, ky, d, p)[l] = PathTo(g, ky, d, o)[l]
<1> DEFINE P == PathTo(g, ky, d, p)
           O == PathTo(g, ky, d, o)
           S == {k \in Nat : k <= d /\ p % Pow2[k] = o % Pow2[k] => P[k] = O[k]}
<1>1. /\ P[0] = Root(ky) /\ O[0] = Root(ky)
      /\ \A k \in 0 .. d - 1 : /\ P[k + 1] = Child(g, ky, P[k], GetBit(p, k))
                               /\ O[k + 1] = Child(g, ky, O[k], GetBit(o, k))
  <2>1. Descends(P, g, ky, d, p) /\ Descends(O, g, ky, d, o)
    BY PathDef
  <2> HIDE DEF P, O
  <2>2. QED
    BY <2>1, Zenon DEF Descends
<1> HIDE DEF P, O
<1>2. 0 \in S
  BY <1>1
<1>3. ASSUME NEW k \in Nat, k \in S PROVE k + 1 \in S
  <2> SUFFICES ASSUME k + 1 <= d, p % Pow2[k + 1] = o % Pow2[k + 1] PROVE P[k + 1] = O[k + 1]
    OBVIOUS
  <2>1. p % Pow2[k] = o % Pow2[k] /\ GetBit(p, k) = GetBit(o, k)
    BY SamePrefix, Zenon
  <2>2. k \in 0 .. d - 1 /\ k <= d
    OBVIOUS
  <2>3. P[k] = O[k]
    BY <1>3, <2>1, <2>2
  <2>4. QED
    BY <1>1, <2>1, <2>2, <2>3, Zenon
<1>4. Nat \subseteq S
  <2> HIDE DEF S
  <2>1. QED
    BY <1>2, <1>3, Induction
<1>5. l \in S /\ l <= d
  BY <1>4
<1>6. P[l] = O[l]
  BY <1>5
<1>7. QED
  BY <1>6 DEF P, O

LEMMA ChildIs ==
  ASSUME NEW g, NEW ky, NEW nd, NEW b
  PROVE  /\ Child(g, ky, nd, b).level = nd.level + 1
         /\ Child(g, ky, nd, b).pos = nd.pos + b * Pow2[nd.level]
         /\ Child(g, ky, nd, b).seed = CorrSeed(g, ky.cws_vec[nd.level + 1], nd.seed, nd.t, b)
         /\ Child(g, ky, nd, b).t = CorrT(g, ky.cws_vec[nd.level + 1], nd.seed, nd.t, b)
         /\ Child(g, ky, nd, b) = [level |-> nd.level + 1, pos |-> nd.pos + b * Pow2[nd.level],
                                   seed |-> Child(g, ky, nd, b).seed, t |-> Child(g, ky, nd, b).t]
<1> DEFINE lv == nd.level + 1
           ps == nd.pos + b * Pow2[nd.level]
           sd == CorrSeed(g, ky.cws_vec[nd.level + 1], nd.seed, nd.t, b)
           tt == CorrT(g, ky.cws_vec[nd.level + 1], nd.seed, nd.t, b)
<1>1. Child(g, ky, nd, b) = [level |-> lv, pos |-> ps, seed |-> sd, t |-> tt]
  BY Zenon DEF Child, CorrSeed, CorrT
<1>2. PICK c : c = Child(g, ky, nd, b)
  OBVIOUS
<1> HIDE DEF lv, ps, sd, tt
<1>3. c = [level |-> lv, pos |-> ps, seed |-> sd, t |-> tt]
  BY <1>1, <1>2, Zenon
<1>4. c.level = lv /\ c.pos = ps /\ c.seed = sd /\ c.t = tt
  BY <1>3
<1>5. c = [level |-> lv, pos |-> ps, seed |-> c.seed, t |-> c.t]
  BY <1>3, <1>4, Zenon
<1>6. QED
  BY <1>2, <1>4, <1>5, Zenon DEF lv, ps, sd, tt

LEMMA PathPlace ==
  ASSUME NEW g, NEW ky, NEW d \in Nat, NEW p \in Nat, NEW l \in 0 .. d
  PROVE  /\ PathTo(g, ky, d, p)[l].level = l
         /\ PathTo(g, ky, d, p)[l].pos = p % Pow2[l]
<1> DEFINE P == PathTo(g, ky, d, p)
           S == {k \in Nat : k <= d => P[k].level = k /\ P[k].pos = p % Pow2[k]}
<1>1. /\ P[0] = Root(ky)
      /\ \A k \in 0 .. d - 1 : P[k + 1] = Child(g, ky, P[k], GetBit(p, k))
  <2>1. Descends(P, g, ky, d, p)
    BY PathDef
  <2> HIDE DEF P
  <2>2. QED
    BY <2>1, Zenon DEF Descends
<1> HIDE DEF P
<1>2. 0 \in S
  <2>1. Root(ky).level = 0 /\ Root(ky).pos = 0
    BY DEF Root
  <2>2. p % Pow2[0] = 0
    <3>1. Pow2[0] = 1
      BY Pow2Def
    <3>2. p % 1 = 0
      OBVIOUS
    <3>3. QED
      BY <3>1, <3>2, Zenon
  <2>3. P[0].level = 0 /\ P[0].pos = p % Pow2[0]
    BY <1>1, <2>1, <2>2, Zenon
  <2>4. QED
    BY <2>3
<1>3. ASSUME NEW k \in Nat, k \in S PROVE k + 1 \in S
  <2> SUFFICES ASSUME k + 1 <= d
               PROVE  P[k + 1].level = k + 1 /\ P[k + 1].pos = p % Pow2[k + 1]
    OBVIOUS
  <2>1. k \in 0 .. d - 1 /\ k <= d
    OBVIOUS
  <2>2. P[k].level = k /\ P[k].pos = p % Pow2[k]
    BY <1>3, <2>1
  <2>3. P[k + 1].level = k + 1 /\ P[k + 1].pos = (p % Pow2[k]) + GetBit(p, k) * Pow2[k]
    <3>1. PICK nd, b : nd = P[k] /\ b = GetBit(p, k)
      OBVIOUS
    <3>2. P[k + 1] = Child(g, ky, nd, b)
      BY <1>1, <2>1, <3>1, Zenon
    <3>3. Child(g, ky, nd, b).level = nd.level + 1
          /\ Child(g, ky, nd, b).pos = nd.pos + b * Pow2[nd.level]
      BY ChildIs
    <3>4. QED
      BY <2>2, <3>1, <3>2, <3>3, Zenon
  <2>4. QED
    BY <2>3, BitOfPos, Zenon
<1>4. Nat \subseteq S
  <2> HIDE DEF S
  <2>1. QED
    BY <1>2, <1>3, Induction
<1>5. l \in S /\ l <= d
  BY <1>4
<1>6. P[l].level = l /\ P[l].pos = p % Pow2[l]
  BY <1>5
<1>7. QED
  BY <1>6 DEF P

\* What Gen has made: the trail and the words of d levels, and the two keys.
TrailTyped(e) ==
  /\ \A r \in Ranks : e.seed[r] \in Seed /\ e.t[r] \in BOOLEAN
  /\ e.t[0] # e.t[1]
LevelMade(g, al, k, e, cw, f) ==
  LET next == Corrected(g, GetBit(al, k - 1), e.seed, e.t)
  IN  cw = next.cw /\ f = [seed |-> next.seed, t |-> next.t]
Prepared(g, al, d, tr, cws) ==
  /\ \A k \in 1 .. d + 1 : TrailTyped(tr[k])
  /\ \A k \in 1 .. d : LevelMade(g, al, k, tr[k], cws[k], tr[k + 1])
HasKey(ky, r, tr, cws) ==
  ky.mseed = tr[1].seed[r] /\ (ky.rank = 1) = tr[1].t[r] /\ ky.cws_vec = cws

\* The two parties at a node: on the path to al, or off it.
OnTrail(a, b, e) ==
  a.seed = e.seed[0] /\ b.seed = e.seed[1] /\ a.t = e.t[0] /\ b.t = e.t[1]
Alike(a, b) == a.seed = b.seed /\ a.t = b.t
Agree(a, b, e, on) == IF on THEN OnTrail(a, b, e) ELSE Alike(a, b)

\* Nodes of both parties above level k, which both correct by the same word.
UnderTrail(k0, k1, a, b, k, cw) ==
  k0.cws_vec[k] = cw /\ k1.cws_vec[k] = cw /\ a.level + 1 = k /\ b.level + 1 = k

\* The children of a node on the path.
LEMMA LevelAgrees ==
  ASSUME NEW g, IsGen(g), NEW al \in Nat, NEW k \in Nat \ {0}, NEW e, NEW cw, NEW f,
         TrailTyped(e), LevelMade(g, al, k, e, cw, f),
         NEW k0, NEW k1, NEW a, NEW b, UnderTrail(k0, k1, a, b, k, cw), OnTrail(a, b, e),
         NEW side \in {0, 1}
  PROVE  Agree(Child(g, k0, a, side), Child(g, k1, b, side), f, side = GetBit(al, k - 1))
<1>1. PICK bit \in {0, 1} : bit = GetBit(al, k - 1)
  <2>1. k - 1 \in Nat
    OBVIOUS
  <2>2. QED
    BY <2>1, BitOfPos, Zenon
<1>2. PICK c : c = Corrected(g, bit, e.seed, e.t)
  OBVIOUS
<1>3. cw = c.cw /\ f = [seed |-> c.seed, t |-> c.t]
  BY <1>1, <1>2, Zenon DEF LevelMade
<1>4. f.seed = c.seed /\ f.t = c.t
  BY <1>3
<1>5. PICK s, t : s = e.seed /\ t = e.t
  OBVIOUS
<1>6. 0 \in Ranks /\ 1 \in Ranks
  BY DEF Ranks
<1>7. \A r \in Ranks : s[r] \in Seed /\ t[r] \in BOOLEAN
  BY <1>5, Zenon DEF TrailTyped
<1>8. /\ IsWord(g, cw, bit, s[0], s[1])
      /\ \A r \in Ranks : /\ f.seed[r] = CorrSeed(g, cw, s[r], t[r], bit)
                          /\ f.t[r] = CorrT(g, cw, s[r], t[r], bit)
  <2>1. /\ IsWord(g, Corrected(g, bit, s, t).cw, bit, s[0], s[1])
        /\ \A r \in Ranks :
             /\ Corrected(g, bit, s, t).seed[r] = CorrSeed(g, Corrected(g, bit, s, t).cw, s[r], t[r], bit)
             /\ Corrected(g, bit, s, t).t[r] = CorrT(g, Corrected(g, bit, s, t).cw, s[r], t[r], bit)
    BY <1>7, CorrectedIs
  <2>2. c = Corrected(g, bit, s, t)
    BY <1>2, <1>5, Zenon
  <2>3. QED
    BY <1>3, <1>4, <2>1, <2>2, Zenon
<1>9. PICK s0 \in Seed, s1 \in Seed : s0 = s[0] /\ s1 = s[1]
  BY <1>6, <1>7, Zenon
<1>10. PICK t0 \in BOOLEAN, t1 \in BOOLEAN : t0 = t[0] /\ t1 = t[1]
  BY <1>6, <1>7, Zenon
<1>11. t0 # t1
  BY <1>5, <1>10, Zenon DEF TrailTyped
<1>12. IsWord(g, cw, bit, s0, s1)
  BY <1>8, <1>9, Zenon
<1>13. a.seed = s0 /\ a.t = t0 /\ b.seed = s1 /\ b.t = t1
  BY <1>5, <1>9, <1>10, Zenon DEF OnTrail
<1>14. PICK ca, cb : ca = Child(g, k0, a, side) /\ cb = Child(g, k1, b, side)
  OBVIOUS
<1>20. k0.cws_vec[a.level + 1] = cw /\ k1.cws_vec[b.level + 1] = cw
  BY Zenon DEF UnderTrail
<1>15. ca.seed = CorrSeed(g, cw, s0, t0, side) /\ ca.t = CorrT(g, cw, s0, t0, side)
  <2>1. /\ Child(g, k0, a, side).seed = CorrSeed(g, k0.cws_vec[a.level + 1], a.seed, a.t, side)
        /\ Child(g, k0, a, side).t = CorrT(g, k0.cws_vec[a.level + 1], a.seed, a.t, side)
    BY ChildIs
  <2>2. QED
    BY <1>13, <1>14, <1>20, <2>1, Zenon
<1>16. cb.seed = CorrSeed(g, cw, s1, t1, side) /\ cb.t = CorrT(g, cw, s1, t1, side)
  <2>1. /\ Child(g, k1, b, side).seed = CorrSeed(g, k1.cws_vec[b.level + 1], b.seed, b.t, side)
        /\ Child(g, k1, b, side).t = CorrT(g, k1.cws_vec[b.level + 1], b.seed, b.t, side)
    BY ChildIs
  <2>2. QED
    BY <1>13, <1>14, <1>20, <2>1, Zenon
<1>17. CASE side = bit
  <2>1. OnTrail(ca, cb, f)
    BY <1>6, <1>8, <1>9, <1>10, <1>15, <1>16, <1>17, Zenon DEF OnTrail
  <2>2. QED
    BY <1>1, <1>14, <1>17, <2>1, Zenon DEF Agree
<1>18. CASE side # bit
  <2>1. SameChild(g, cw, s0, t0, s1, t1, side)
    BY <1>11, <1>12, <1>18, BecomesEqual, ZenonT(60)
  <2>3. Alike(ca, cb)
    BY <1>15, <1>16, <2>1, Zenon DEF Alike, SameChild
  <2>4. QED
    BY <1>1, <1>14, <1>18, <2>3, Zenon DEF Agree
<1>19. QED
  BY <1>17, <1>18

\* The children of a node off the path.
LEMMA AlikeStays ==
  ASSUME NEW g, NEW k0, NEW k1, NEW a, NEW b, NEW side, NEW k, k0.cws_vec[k] = k1.cws_vec[k],
         Alike(a, b), a.level + 1 = k, b.level + 1 = k
  PROVE  Alike(Child(g, k0, a, side), Child(g, k1, b, side))
<1>1. PICK ca, cb : ca = Child(g, k0, a, side) /\ cb = Child(g, k1, b, side)
  OBVIOUS
<1>2. /\ Child(g, k0, a, side).seed = CorrSeed(g, k0.cws_vec[a.level + 1], a.seed, a.t, side)
      /\ Child(g, k0, a, side).t = CorrT(g, k0.cws_vec[a.level + 1], a.seed, a.t, side)
  BY ChildIs
<1>3. /\ Child(g, k1, b, side).seed = CorrSeed(g, k1.cws_vec[b.level + 1], b.seed, b.t, side)
      /\ Child(g, k1, b, side).t = CorrT(g, k1.cws_vec[b.level + 1], b.seed, b.t, side)
  BY ChildIs
<1>4. ca.seed = cb.seed /\ ca.t = cb.t
  BY <1>1, <1>2, <1>3, Zenon DEF Alike
<1>5. QED
  BY <1>1, <1>4, Zenon DEF Alike

\* Wherever both look at one node, they agree on it.
LEMMA PathsAgree ==
  ASSUME NEW g, IsGen(g), NEW al \in Nat, NEW d \in Nat, NEW tr, NEW cws,
         Prepared(g, al, d, tr, cws), NEW k0, NEW k1,
         HasKey(k0, 0, tr, cws), HasKey(k1, 1, tr, cws), NEW p \in Nat, NEW l \in 0 .. d
  PROVE  Agree(PathTo(g, k0, d, p)[l], PathTo(g, k1, d, p)[l], tr[l + 1],
               p % Pow2[l] = al % Pow2[l])
<1> DEFINE A == PathTo(g, k0, d, p)
           B == PathTo(g, k1, d, p)
           On(k) == p % Pow2[k] = al % Pow2[k]
           S == {k \in Nat : k <= d => Agree(A[k], B[k], tr[k + 1], On(k))}
<1>1. Descends(A, g, k0, d, p) /\ Descends(B, g, k1, d, p)
  BY PathDef
<1>2. \A k \in 0 .. d : A[k].level = k /\ B[k].level = k
  BY PathPlace
<1> HIDE DEF A, B
<1>3. Agree(A[0], B[0], tr[0 + 1], On(0))
  <2>1. A[0] = Root(k0) /\ B[0] = Root(k1)
    BY <1>1, Zenon DEF Descends
  <2>2. /\ Root(k0).seed = k0.mseed /\ Root(k0).t = (k0.rank = 1)
        /\ Root(k1).seed = k1.mseed /\ Root(k1).t = (k1.rank = 1)
    BY DEF Root
  <2>3. OnTrail(A[0], B[0], tr[1])
    BY <2>1, <2>2, Zenon DEF OnTrail, HasKey
  <2>4. On(0)
    <3>1. Pow2[0] = 1
      BY Pow2Def
    <3>2. p % 1 = 0 /\ al % 1 = 0
      OBVIOUS
    <3>3. QED
      BY <3>1, <3>2, Zenon
  <2>5. 0 + 1 = 1
    OBVIOUS
  <2>6. QED
    BY <2>3, <2>4, <2>5, Zenon DEF Agree
<1>4. 0 \in S
  BY <1>3
<1>5. ASSUME NEW k \in Nat, k \in S PROVE k + 1 \in S
  <2> SUFFICES ASSUME k + 1 <= d PROVE Agree(A[k + 1], B[k + 1], tr[(k + 1) + 1], On(k + 1))
    OBVIOUS
  <2>1. k \in 0 .. d - 1 /\ k <= d /\ k \in 0 .. d /\ k + 1 \in 1 .. d /\ k + 1 \in 1 .. d + 1
        /\ (k + 1) - 1 = k /\ k + 1 \in Nat \ {0}
    OBVIOUS
  <2>2. Agree(A[k], B[k], tr[k + 1], On(k))
    BY <1>5, <2>1
  <2>3. PICK side \in {0, 1} : side = GetBit(p, k)
    BY BitOfPos, Zenon
  <2>4. PICK a, b : a = A[k] /\ b = B[k]
    OBVIOUS
  <2>5. a.level + 1 = k + 1 /\ b.level + 1 = k + 1
    BY <1>2, <2>1, <2>4, Zenon
  <2>6. A[k + 1] = Child(g, k0, a, side) /\ B[k + 1] = Child(g, k1, b, side)
    BY <1>1, <2>1, <2>3, <2>4, Zenon DEF Descends
  <2>7. On(k + 1) <=> On(k) /\ side = GetBit(al, k)
    BY <2>3, SamePrefix, Zenon
  <2>8. k0.cws_vec[k + 1] = cws[k + 1] /\ k1.cws_vec[k + 1] = cws[k + 1]
    BY Zenon DEF HasKey
  <2>9. CASE On(k)
    <3>1. OnTrail(a, b, tr[k + 1])
      BY <2>2, <2>4, <2>9, Zenon DEF Agree
    <3>2. TrailTyped(tr[k + 1]) /\ LevelMade(g, al, k + 1, tr[k + 1], cws[k + 1], tr[(k + 1) + 1])
      BY <2>1, Zenon DEF Prepared
    <3>3. PICK e, cw, f : e = tr[k + 1] /\ cw = cws[k + 1] /\ f = tr[(k + 1) + 1]
      OBVIOUS
    <3>4. PICK j \in Nat \ {0} : j = k + 1
      BY <2>1
    <3>5. TrailTyped(e) /\ LevelMade(g, al, j, e, cw, f) /\ OnTrail(a, b, e)
      BY <3>1, <3>2, <3>3, <3>4, Zenon
    <3>6. UnderTrail(k0, k1, a, b, j, cw)
      BY <2>5, <2>8, <3>3, <3>4, Zenon DEF UnderTrail
    <3>7. Agree(Child(g, k0, a, side), Child(g, k1, b, side), f, side = GetBit(al, j - 1))
      BY <3>5, <3>6, LevelAgrees
    <3>8. side = GetBit(al, j - 1) <=> On(k + 1)
      BY <2>1, <2>7, <2>9, <3>4, Zenon
    <3>9. QED
      BY <2>6, <3>3, <3>7, <3>8, Zenon DEF Agree
  <2>10. CASE ~On(k)
    <3>1. Alike(a, b)
      BY <2>2, <2>4, <2>10, Zenon DEF Agree
    <3>2. k0.cws_vec[k + 1] = k1.cws_vec[k + 1]
      BY <2>8, Zenon
    <3>3. Alike(Child(g, k0, a, side), Child(g, k1, b, side))
      BY <2>5, <3>1, <3>2, AlikeStays
    <3>4. QED
      BY <2>6, <2>7, <2>10, <3>3, Zenon DEF Agree
  <2>11. QED
    BY <2>9, <2>10, Zenon
<1>6. Nat \subseteq S
  <2> HIDE DEF S
  <2>1. QED
    BY <1>4, <1>5, Induction
<1>7. l \in S /\ l <= d
  BY <1>6
<1>8. Agree(A[l], B[l], tr[l + 1], On(l))
  BY <1>7
<1>9. QED
  BY <1>8 DEF A, B

-----------------------------------------------------------------------------
(* The arithmetic of shares, modulo d.                                     *)

Cong(a, b, d) == a \in Int /\ b \in Int /\ \E k \in Int : a = b + k * d
Rev(v, d) == (d - (v % d)) % d

LEMMA CongRefl ==
  ASSUME NEW a \in Int, NEW d \in Nat \ {0}
  PROVE  Cong(a, a, d)
<1>1. a = a + 0 * d /\ 0 \in Int
  OBVIOUS
<1>2. QED
  BY <1>1 DEF Cong

LEMMA CongAdd ==
  ASSUME NEW a, NEW b, NEW e, NEW f, NEW d \in Nat \ {0}, Cong(a, b, d), Cong(e, f, d)
  PROVE  Cong(a + e, b + f, d)
<1>1. a \in Int /\ b \in Int /\ e \in Int /\ f \in Int
  BY DEF Cong
<1>2. PICK k \in Int : a = b + k * d
  BY DEF Cong
<1>3. PICK j \in Int : e = f + j * d
  BY DEF Cong
<1>4. PICK i \in Int : i = k + j
  OBVIOUS
<1>5. i * d = k * d + j * d
  BY <1>4, Z3
<1>6. PICK u \in Int, v \in Int : u = k * d /\ v = j * d
  OBVIOUS
<1>7. a + e = (b + f) + i * d
  BY <1>1, <1>2, <1>3, <1>5, <1>6
<1>8. a + e \in Int /\ b + f \in Int
  BY <1>1
<1>9. QED
  BY <1>7, <1>8 DEF Cong

LEMMA CongNeg ==
  ASSUME NEW a, NEW b, NEW d \in Nat \ {0}, Cong(a, b, d)
  PROVE  Cong(0 - a, 0 - b, d)
<1>1. a \in Int /\ b \in Int
  BY DEF Cong
<1>2. PICK k \in Int : a = b + k * d
  BY DEF Cong
<1>3. PICK j \in Int : j = 0 - k
  OBVIOUS
<1>4. j * d = 0 - (k * d)
  BY <1>3, Z3
<1>5. PICK u \in Int : u = k * d
  OBVIOUS
<1>6. 0 - a = (0 - b) + j * d
  BY <1>1, <1>2, <1>4, <1>5
<1>7. 0 - a \in Int /\ 0 - b \in Int
  BY <1>1
<1>8. QED
  BY <1>6, <1>7 DEF Cong

LEMMA CongTrans ==
  ASSUME NEW a, NEW b, NEW e, NEW d \in Nat \ {0}, Cong(a, b, d), Cong(b, e, d)
  PROVE  Cong(a, e, d)
<1>1. a \in Int /\ b \in Int /\ e \in Int
  BY DEF Cong
<1>2. PICK k \in Int : a = b + k * d
  BY DEF Cong
<1>3. PICK j \in Int : b = e + j * d
  BY DEF Cong
<1>4. PICK i \in Int : i = k + j
  OBVIOUS
<1>5. i * d = k * d + j * d
  BY <1>4, Z3
<1>6. PICK u \in Int, v \in Int : u = k * d /\ v = j * d
  OBVIOUS
<1>7. a = e + i * d
  BY <1>1, <1>2, <1>3, <1>5, <1>6
<1>8. QED
  BY <1>1, <1>7 DEF Cong

LEMMA CongMod ==
  ASSUME NEW v \in Int, NEW d \in Nat \ {0}
  PROVE  v % d \in Nat /\ v % d < d /\ Cong(v % d, v, d)
<1>1. PICK e \in Int : e = v \div d
  BY Euclid
<1>2. PICK r \in Nat : r = v % d
  BY Euclid
<1>3. r < d /\ v = e * d + r
  BY <1>1, <1>2, Euclid
<1>4. PICK j \in Int : j = 0 - e
  OBVIOUS
<1>5. j * d = 0 - (e * d)
  BY <1>4, Z3
<1>6. PICK u \in Int : u = e * d
  OBVIOUS
<1>7. r = v + j * d
  BY <1>3, <1>5, <1>6
<1>8. Cong(r, v, d)
  BY <1>7 DEF Cong
<1>9. QED
  BY <1>2, <1>3, <1>8, Zenon

LEMMA CongRev ==
  ASSUME NEW v \in Int, NEW d \in Nat \ {0}
  PROVE  Rev(v, d) \in Nat /\ Rev(v, d) < d /\ Cong(Rev(v, d), 0 - v, d)
<1>1. PICK r \in Nat : r = v % d
  BY Euclid
<1>2. r < d /\ Cong(r, v, d)
  BY <1>1, CongMod, Zenon
<1>3. PICK w \in Int : w = d - r
  OBVIOUS
<1>4. w % d \in Nat /\ w % d < d /\ Cong(w % d, w, d)
  BY CongMod
<1>5. Cong(w, 0 - r, d)
  <2>1. w = (0 - r) + 1 * d /\ 0 - r \in Int /\ 1 \in Int
    BY <1>3
  <2>2. QED
    BY <2>1 DEF Cong
<1>6. Cong(0 - r, 0 - v, d)
  BY <1>2, CongNeg
<1>7. Cong(w % d, 0 - v, d)
  BY <1>4, <1>5, <1>6, CongTrans
<1>8. Rev(v, d) = w % d
  BY <1>1, <1>3, Zenon DEF Rev
<1>9. QED
  BY <1>4, <1>7, <1>8, Zenon

LEMMA CongSame ==
  ASSUME NEW a, NEW b, NEW d \in Nat \ {0}, Cong(a, b, d)
  PROVE  a % d = b % d
<1>1. a \in Int /\ b \in Int
  BY DEF Cong
<1>2. PICK k \in Int : a = b + k * d
  BY DEF Cong
<1>3. QED
  BY <1>1, <1>2, SameRemainder, ZenonT(60)

\* The last word of Gen, and the share of a party, for the last values c0 and c1.
WordFor(u, c0, c1, t1, d) ==
  LET plain == (u + Rev(c0, d) + (c1 % d)) % d IN IF t1 THEN Rev(plain, d) ELSE plain
ShareFor(rank, c, t, w, d) ==
  LET v == (c % d) + (IF t THEN w ELSE 0) IN IF rank = 1 THEN Rev(v, d) ELSE v % d

LEMMA WordTyped2 ==
  ASSUME NEW d \in Nat \ {0}, NEW u \in Nat, NEW c0 \in Nat, NEW c1 \in Nat, NEW t1 \in BOOLEAN
  PROVE  /\ WordFor(u, c0, c1, t1, d) \in Nat
         /\ Cong(WordFor(u, c0, c1, t1, d), IF t1 THEN 0 - (u - c0 + c1) ELSE u - c0 + c1, d)
<1>1. PICK a \in Nat : a = Rev(c0, d) /\ Cong(a, 0 - c0, d)
  BY CongRev
<1>2. PICK b \in Nat : b = c1 % d /\ Cong(b, c1, d)
  BY CongMod
<1>3. PICK s \in Int : s = u + a + b
  OBVIOUS
<1>4. PICK p \in Nat : p = s % d /\ Cong(p, s, d)
  BY CongMod
<1>5. Cong(u + a, u + (0 - c0), d)
  <2>1. u \in Int
    OBVIOUS
  <2>2. Cong(u, u, d)
    BY <2>1, CongRefl
  <2>3. PICK z : z = 0 - c0
    OBVIOUS
  <2>4. Cong(a, z, d)
    BY <1>1, <2>3, Zenon
  <2>5. Cong(u + a, u + z, d)
    BY <2>2, <2>4, CongAdd
  <2>6. QED
    BY <2>3, <2>5, Zenon
<1>6. Cong((u + a) + b, (u + (0 - c0)) + c1, d)
  BY <1>2, <1>5, CongAdd
<1>7. (u + a) + b = s /\ (u + (0 - c0)) + c1 = u - c0 + c1
  BY <1>3
<1>8. Cong(s, u - c0 + c1, d)
  BY <1>6, <1>7, Zenon
<1>9. Cong(p, u - c0 + c1, d)
  BY <1>4, <1>8, CongTrans
<1>10. PICK o \in Nat : o = Rev(p, d) /\ Cong(o, 0 - p, d)
  BY CongRev
<1>11. Cong(o, 0 - (u - c0 + c1), d)
  <2>1. Cong(0 - p, 0 - (u - c0 + c1), d)
    BY <1>9, CongNeg
  <2>2. QED
    BY <1>10, <2>1, CongTrans
<1>12. WordFor(u, c0, c1, t1, d) = IF t1 THEN o ELSE p
  BY <1>1, <1>2, <1>3, <1>4, <1>10, Zenon DEF WordFor
<1>13. QED
  BY <1>9, <1>11, <1>12, Zenon

LEMMA ShareTyped ==
  ASSUME NEW d \in Nat \ {0}, NEW c \in Nat, NEW w \in Nat, NEW t \in BOOLEAN, NEW rank
  PROVE  /\ ShareFor(rank, c, t, w, d) \in Nat
         /\ rank = 0 => Cong(ShareFor(rank, c, t, w, d), c + (IF t THEN w ELSE 0), d)
         /\ rank = 1 => Cong(ShareFor(rank, c, t, w, d), 0 - (c + (IF t THEN w ELSE 0)), d)
<1>1. PICK e \in Nat : e = IF t THEN w ELSE 0
  OBVIOUS
<1>2. PICK b \in Nat : b = c % d /\ Cong(b, c, d)
  BY CongMod
<1>3. Cong(e, e, d)
  BY CongRefl
<1>4. PICK v \in Int : v = b + e
  OBVIOUS
<1>5. Cong(v, c + e, d)
  <2>1. Cong(b + e, c + e, d)
    BY <1>2, <1>3, CongAdd
  <2>2. QED
    BY <1>4, <2>1, Zenon
<1>6. PICK p \in Nat : p = v % d /\ Cong(p, v, d)
  BY CongMod
<1>7. Cong(p, c + e, d)
  BY <1>5, <1>6, CongTrans
<1>8. PICK o \in Nat : o = Rev(v, d) /\ Cong(o, 0 - v, d)
  BY CongRev
<1>9. Cong(o, 0 - (c + e), d)
  <2>1. Cong(0 - v, 0 - (c + e), d)
    BY <1>5, CongNeg
  <2>2. QED
    BY <1>8, <2>1, CongTrans
<1>10. ShareFor(rank, c, t, w, d) = IF rank = 1 THEN o ELSE p
  BY <1>1, <1>2, <1>4, <1>6, <1>8, Zenon DEF ShareFor
<1>11. 0 # 1
  OBVIOUS
<1>12. QED
  BY <1>1, <1>7, <1>9, <1>10, <1>11, Zenon

\* On the path the two shares add up to u.
LEMMA SharesOnPath ==
  ASSUME NEW d \in Nat \ {0}, NEW u \in Nat, NEW c0 \in Nat, NEW c1 \in Nat,
         NEW t0 \in BOOLEAN, NEW t1 \in BOOLEAN, NEW w, t0 # t1, w = WordFor(u, c0, c1, t1, d)
  PROVE  (ShareFor(0, c0, t0, w, d) + ShareFor(1, c1, t1, w, d)) % d = u % d
<1>1. PICK z \in Nat : z = w /\ Cong(z, IF t1 THEN 0 - (u - c0 + c1) ELSE u - c0 + c1, d)
  BY WordTyped2
<1>2. PICK a \in Nat : /\ a = ShareFor(0, c0, t0, w, d)
                       /\ Cong(a, c0 + (IF t0 THEN z ELSE 0), d)
  BY <1>1, ShareTyped
<1>3. PICK b \in Nat : /\ b = ShareFor(1, c1, t1, w, d)
                       /\ Cong(b, 0 - (c1 + (IF t1 THEN z ELSE 0)), d)
  BY <1>1, ShareTyped
<1>4. CASE t0 /\ ~t1
  <2>1. Cong(z, u - c0 + c1, d) /\ Cong(a, c0 + z, d) /\ Cong(b, 0 - (c1 + 0), d)
    BY <1>1, <1>2, <1>3, <1>4, Zenon
  <2>2. Cong(c0, c0, d)
    BY CongRefl
  <2>3. Cong(c0 + z, c0 + (u - c0 + c1), d)
    BY <2>1, <2>2, CongAdd
  <2>4. Cong(a, c0 + (u - c0 + c1), d)
    BY <2>1, <2>3, CongTrans
  <2>5. Cong(a + b, (c0 + (u - c0 + c1)) + (0 - (c1 + 0)), d)
    BY <2>1, <2>4, CongAdd
  <2>6. (c0 + (u - c0 + c1)) + (0 - (c1 + 0)) = u
    OBVIOUS
  <2>7. Cong(a + b, u, d)
    BY <2>5, <2>6, Zenon
  <2>8. (a + b) % d = u % d
    BY <2>7, CongSame
  <2>9. QED
    BY <1>2, <1>3, <2>8, Zenon
<1>5. CASE ~t0 /\ t1
  <2>1. Cong(z, 0 - (u - c0 + c1), d) /\ Cong(a, c0 + 0, d) /\ Cong(b, 0 - (c1 + z), d)
    BY <1>1, <1>2, <1>3, <1>5, Zenon
  <2>2. Cong(c1, c1, d)
    BY CongRefl
  <2>3. Cong(c1 + z, c1 + (0 - (u - c0 + c1)), d)
    BY <2>1, <2>2, CongAdd
  <2>4. Cong(0 - (c1 + z), 0 - (c1 + (0 - (u - c0 + c1))), d)
    BY <2>3, CongNeg
  <2>5. Cong(b, 0 - (c1 + (0 - (u - c0 + c1))), d)
    BY <2>1, <2>4, CongTrans
  <2>6. Cong(a + b, (c0 + 0) + (0 - (c1 + (0 - (u - c0 + c1)))), d)
    BY <2>1, <2>5, CongAdd
  <2>7. (c0 + 0) + (0 - (c1 + (0 - (u - c0 + c1)))) = u
    OBVIOUS
  <2>8. Cong(a + b, u, d)
    BY <2>6, <2>7, Zenon
  <2>9. (a + b) % d = u % d
    BY <2>8, CongSame
  <2>10. QED
    BY <1>2, <1>3, <2>9, Zenon
<1>6. QED
  BY <1>4, <1>5

\* Off the path they add up to 0.
LEMMA SharesOffPath ==
  ASSUME NEW d \in Nat \ {0}, NEW c \in Nat, NEW w \in Nat, NEW t \in BOOLEAN
  PROVE  (ShareFor(0, c, t, w, d) + ShareFor(1, c, t, w, d)) % d = 0 % d
<1>1. PICK e \in Nat : e = c + (IF t THEN w ELSE 0)
  OBVIOUS
<1>2. PICK a \in Nat : a = ShareFor(0, c, t, w, d) /\ Cong(a, e, d)
  BY <1>1, ShareTyped
<1>3. PICK b \in Nat : b = ShareFor(1, c, t, w, d) /\ Cong(b, 0 - e, d)
  BY <1>1, ShareTyped
<1>4. Cong(a + b, e + (0 - e), d)
  BY <1>2, <1>3, CongAdd
<1>5. e + (0 - e) = 0
  OBVIOUS
<1>6. Cong(a + b, 0, d)
  BY <1>4, <1>5, Zenon
<1>7. (a + b) % d = 0 % d
  BY <1>6, CongSame
<1>8. QED
  BY <1>2, <1>3, <1>7, Zenon

-----------------------------------------------------------------------------
(* The state of the point function.                                        *)

LEMMA FloorLogNat ==
  ASSUME NEW r \in Nat, r >= 1
  PROVE  FloorLog(r) \in 0 .. 4
<1> DEFINE M == {k \in 0 .. 4 : r >= (<<1, 3, 8, 21, 55>>)[k + 1]}
<1>1. 0 \in M
  <2>1. (<<1, 3, 8, 21, 55>>)[0 + 1] = 1
    OBVIOUS
  <2>2. QED
    BY <2>1
<1>2. M \subseteq 0 .. 4
  OBVIOUS
<1>3. FloorLog(r) = Max(M)
  BY DEF FloorLog
<1> HIDE DEF M
<1>4. \E m \in M : \A y \in M : m >= y
  <2>1. CASE 4 \in M
    BY <1>2, <2>1
  <2>2. CASE 4 \notin M /\ 3 \in M
    BY <1>2, <2>2
  <2>3. CASE 4 \notin M /\ 3 \notin M /\ 2 \in M
    BY <1>2, <2>3
  <2>4. CASE 4 \notin M /\ 3 \notin M /\ 2 \notin M /\ 1 \in M
    BY <1>2, <2>4
  <2>5. CASE 4 \notin M /\ 3 \notin M /\ 2 \notin M /\ 1 \notin M
    BY <1>1, <1>2, <2>5
  <2>6. QED
    BY <2>1, <2>2, <2>3, <2>4, <2>5
<1>5. Max(M) \in M
  BY <1>4 DEF Max
<1>6. QED
  BY <1>2, <1>3, <1>5

LEMMA LevelRange ==
  ASSUME in_bitnum \in Nat, ss_bitnum \in 1 .. 64, enable_evalall \in BOOLEAN
  PROVE  /\ GetTerminateLevel \in Nat /\ GetTerminateLevel <= in_bitnum
         /\ ~enable_evalall => GetTerminateLevel = in_bitnum
<1>1. PICK d \in Nat, s \in 1 .. 64 : d = in_bitnum /\ s = ss_bitnum
  OBVIOUS
<1>2. kSecParam \div s \in Nat /\ kSecParam \div s >= 1
  BY Z3 DEF kSecParam
<1>3. PICK f \in 0 .. 4 : f = FloorLog(kSecParam \div s)
  BY <1>2, FloorLogNat
<1>4. PICK y \in Int : y = d - f
  OBVIOUS
<1>5. y <= d
  BY <1>4
<1>6. Min({d, y}) = IF d <= y THEN d ELSE y
  BY MinPair
<1>7. GetTerminateLevel = IF ~enable_evalall THEN d
                          ELSE IF y >= 0 THEN Min({d, y})
                          ELSE IF wrapped[Dealer] THEN d ELSE 0
  BY <1>1, <1>3, <1>4, Zenon DEF GetTerminateLevel, LevelOf
<1>8. y >= 0 => Min({d, y}) \in Nat /\ Min({d, y}) <= d
  BY <1>5, <1>6
<1>9. PICK g : g = GetTerminateLevel
  OBVIOUS
<1>10. \/ g = d
       \/ y >= 0 /\ g = Min({d, y})
       \/ g = 0
  BY <1>7, <1>9, Zenon
<1>11. g \in Nat /\ g <= d
  BY <1>8, <1>10
<1>12. ~enable_evalall => g = d
  BY <1>7, <1>9, Zenon
<1>13. QED
  BY <1>1, <1>9, <1>11, <1>12, Zenon

\* A key goes over the wire unchanged.
LEMMA SeedTravels ==
  ASSUME NEW s \in Seed
  PROVE  MakeSeed(DecomposeSeed(s)) = s
<1>1. HalfBits \in Nat /\ \A b \in s : b \in Nat
  BY DpfAssumption DEF Seed, kSecParam
<1>2. PICK hi, lo : /\ hi = {b - HalfBits : b \in {b \in s : b >= HalfBits}}
                    /\ lo = {b \in s : b < HalfBits}
  OBVIOUS
<1>3. DecomposeSeed(s) = [hi |-> hi, lo |-> lo]
  BY <1>2, Zenon DEF DecomposeSeed
<1>4. DecomposeSeed(s).hi = hi /\ DecomposeSeed(s).lo = lo
  BY <1>3
<1>5. MakeSeed(DecomposeSeed(s)) = {b + HalfBits : b \in hi} \cup lo
  BY <1>4, Zenon DEF MakeSeed
<1>6. ASSUME NEW e \in {b + HalfBits : b \in hi} PROVE e \in s
  <2>1. PICK b \in hi : e = b + HalfBits
    OBVIOUS
  <2>2. PICK c \in s : c >= HalfBits /\ b = c - HalfBits
    BY <1>2
  <2>3. e = c
    BY <1>1, <2>1, <2>2
  <2>4. QED
    BY <2>3
<1>7. ASSUME NEW e \in s, e >= HalfBits PROVE e \in {b + HalfBits : b \in hi}
  <2>1. e - HalfBits \in hi
    BY <1>2, <1>7
  <2>2. (e - HalfBits) + HalfBits = e
    BY <1>1
  <2>3. QED
    BY <2>1, <2>2
<1>8. ASSUME NEW e \in s PROVE e \in {b + HalfBits : b \in hi} \cup lo
  <2>1. CASE e >= HalfBits
    BY <1>7, <2>1
  <2>2. CASE ~(e >= HalfBits)
    <3>1. e < HalfBits
      BY <1>1, <2>2
    <3>2. QED
      BY <1>2, <3>1
  <2>3. QED
    BY <2>1, <2>2
<1>9. lo \subseteq s
  BY <1>2
<1>10. {b + HalfBits : b \in hi} \cup lo = s
  BY <1>6, <1>8, <1>9
<1>11. QED
  BY <1>5, <1>10, Zenon

LEMMA NumberTravels ==
  ASSUME NEW v \in Nat
  PROVE  MakeNumber(DecomposeNumber(v)) = v
<1>1. PICK m \in Nat \ {0} : m = Pow2[HalfBits]
  BY PowerAt, DpfAssumption
<1>2. PICK c \in Int : c = v \div m
  BY Euclid
<1>3. PICK r \in Nat : r = v % m
  BY Euclid
<1>4. v = c * m + r
  BY <1>2, <1>3, Euclid
<1>5. DecomposeNumber(v) = [hi |-> c, lo |-> r]
  BY <1>1, <1>2, <1>3, Zenon DEF DecomposeNumber
<1>6. DecomposeNumber(v).hi = c /\ DecomposeNumber(v).lo = r
  BY <1>5
<1>7. QED
  BY <1>1, <1>4, <1>6, Zenon DEF MakeNumber

KeyRec(r, m, e, c, w) ==
  [rank |-> r, mseed |-> m, enable_evalall |-> e, cws_vec |-> c, last_cw_vec |-> w]
SentWords(c) == [i \in DOMAIN c |-> [seed |-> DecomposeSeed(c[i].seed), t_store |-> c[i].t_store]]
TakenWords(c) == [i \in DOMAIN c |-> [seed |-> MakeSeed(c[i].seed), t_store |-> c[i].t_store]]
SentNumbers(w) == [i \in DOMAIN w |-> DecomposeNumber(w[i])]
TakenNumbers(w) == [i \in DOMAIN w |-> MakeNumber(w[i])]

LEMMA SerializeIs ==
  ASSUME NEW r, NEW m, NEW e, NEW c, NEW w, NEW k, k = KeyRec(r, m, e, c, w)
  PROVE  Serialize(k) = KeyRec(r, DecomposeSeed(m), e, SentWords(c), SentNumbers(w))
<1>1. k.rank = r /\ k.mseed = m /\ k.enable_evalall = e /\ k.cws_vec = c /\ k.last_cw_vec = w
  BY DEF KeyRec
<1>2. Serialize(k) = KeyRec(k.rank, DecomposeSeed(k.mseed), k.enable_evalall, SentWords(k.cws_vec),
                         SentNumbers(k.last_cw_vec))
  BY Zenon DEF Serialize, KeyRec, SentWords, SentNumbers
<1>3. QED
  BY <1>1, <1>2, Zenon

LEMMA DeserializeIs ==
  ASSUME NEW r, NEW m, NEW e, NEW c, NEW w, NEW k, k = KeyRec(r, m, e, c, w)
  PROVE  Deserialize(k) = KeyRec(r, MakeSeed(m), e, TakenWords(c), TakenNumbers(w))
<1>1. k.rank = r /\ k.mseed = m /\ k.enable_evalall = e /\ k.cws_vec = c /\ k.last_cw_vec = w
  BY DEF KeyRec
<1>2. Deserialize(k) = KeyRec(k.rank, MakeSeed(k.mseed), k.enable_evalall, TakenWords(k.cws_vec),
                         TakenNumbers(k.last_cw_vec))
  BY Zenon DEF Deserialize, KeyRec, TakenWords, TakenNumbers
<1>3. QED
  BY <1>1, <1>2, Zenon

IsCw(cw) == cw.seed \in Seed /\ cw = [seed |-> cw.seed, t_store |-> cw.t_store]

LEMMA WordsTravel ==
  ASSUME NEW c, NEW d \in Nat, IsList(c, d), \A i \in 1 .. d : IsCw(c[i])
  PROVE  TakenWords(SentWords(c)) = c
<1>1. DOMAIN c = 1 .. d
  BY Zenon DEF IsList
<1>2. PICK b : b = SentWords(c)
  OBVIOUS
<1>3. DOMAIN b = 1 .. d /\ \A i \in 1 .. d : b[i] = [seed |-> DecomposeSeed(c[i].seed), t_store |-> c[i].t_store]
  BY <1>1, <1>2 DEF SentWords
<1>4. PICK f : f = TakenWords(b)
  OBVIOUS
<1>5. IsList(f, d) /\ \A i \in 1 .. d : f[i] = [seed |-> MakeSeed(b[i].seed), t_store |-> b[i].t_store]
  BY <1>3, <1>4 DEF TakenWords, IsList
<1>6. ASSUME NEW i \in 1 .. d PROVE f[i] = c[i]
  <2>0. PICK s \in Seed : c[i] = [seed |-> s, t_store |-> c[i].t_store]
    BY DEF IsCw
  <2>1. PICK t : c[i] = [seed |-> s, t_store |-> t]
    BY <2>0, Zenon
  <2>2. PICK z : z = DecomposeSeed(s)
    OBVIOUS
  <2>3. c[i].seed = s /\ c[i].t_store = t
    BY <2>1
  <2>4. b[i] = [seed |-> z, t_store |-> t]
    BY <1>3, <2>2, <2>3, Zenon
  <2>a. b[i].seed = z /\ b[i].t_store = t
    BY <2>4
  <2>5. f[i] = [seed |-> MakeSeed(z), t_store |-> t]
    BY <1>5, <2>a, Zenon
  <2>6. MakeSeed(z) = s
    BY <2>2, SeedTravels
  <2>7. QED
    BY <2>1, <2>5, <2>6, Zenon
<1>7. f = c
  BY <1>5, <1>6, ListEqual
<1>8. QED
  BY <1>2, <1>4, <1>7, Zenon

LEMMA NumbersTravel ==
  ASSUME NEW w, NEW d \in Nat, IsList(w, d), \A i \in 1 .. d : w[i] \in Nat
  PROVE  TakenNumbers(SentNumbers(w)) = w
<1>1. DOMAIN w = 1 .. d
  BY Zenon DEF IsList
<1>2. PICK b : b = SentNumbers(w)
  OBVIOUS
<1>3. DOMAIN b = 1 .. d /\ \A i \in 1 .. d : b[i] = DecomposeNumber(w[i])
  BY <1>1, <1>2 DEF SentNumbers
<1>4. PICK f : f = TakenNumbers(b)
  OBVIOUS
<1>5. IsList(f, d) /\ \A i \in 1 .. d : f[i] = MakeNumber(b[i])
  BY <1>3, <1>4 DEF TakenNumbers, IsList
<1>6. ASSUME NEW i \in 1 .. d PROVE f[i] = w[i]
  <2>1. PICK v \in Nat : v = w[i]
    OBVIOUS
  <2>2. f[i] = MakeNumber(DecomposeNumber(v))
    BY <1>3, <1>5, <2>1, Zenon
  <2>3. QED
    BY <2>1, <2>2, NumberTravels, Zenon
<1>7. f = w
  BY <1>5, <1>6, ListEqual
<1>8. QED
  BY <1>2, <1>4, <1>7, Zenon

\* DpfKey: Deserialize undoes Serialize.
LEMMA KeyTravels ==
  ASSUME NEW r, NEW m \in Seed, NEW e, NEW c, NEW w, NEW d \in Nat, NEW k \in Nat,
         IsList(c, d), \A i \in 1 .. d : IsCw(c[i]), IsList(w, k), \A i \in 1 .. k : w[i] \in Nat
  PROVE  Deserialize(Serialize(KeyRec(r, m, e, c, w))) = KeyRec(r, m, e, c, w)
<1>1. PICK a, b, f : a = DecomposeSeed(m) /\ b = SentWords(c) /\ f = SentNumbers(w)
  OBVIOUS
<1>0. PICK k0, k1 : k0 = KeyRec(r, m, e, c, w) /\ k1 = KeyRec(r, a, e, b, f)
  OBVIOUS
<1>2. Serialize(k0) = k1
  <2>1. Serialize(k0) = KeyRec(r, DecomposeSeed(m), e, SentWords(c), SentNumbers(w))
    BY <1>0, SerializeIs
  <2>2. QED
    BY <1>0, <1>1, <2>1, Zenon
<1>3. Deserialize(k1) = KeyRec(r, MakeSeed(a), e, TakenWords(b), TakenNumbers(f))
  BY <1>0, DeserializeIs
<1>4. MakeSeed(a) = m
  BY <1>1, SeedTravels
<1>5. TakenWords(b) = c
  BY <1>1, WordsTravel
<1>6. TakenNumbers(f) = w
  BY <1>1, NumbersTravel
<1>7. QED
  BY <1>0, <1>2, <1>3, <1>4, <1>5, <1>6, Zenon

-----------------------------------------------------------------------------
(* What Gen makes, level by level.                                         *)

\* Appending to a list, whatever its elements.
Appended(a, s, m, e) ==
  IsList(a, m + 1) /\ a[m + 1] = e /\ \A i \in 1 .. m : a[i] = s[i]

LEMMA ListAppend ==
  ASSUME NEW s, NEW m \in Nat, NEW e, IsList(s, m)
  PROVE  Appended(Append(s, e), s, m, e)
<1>1. DOMAIN s = 1 .. m /\ s \in Seq(Range(s)) /\ Len(s) = m
  BY ListSeq
<1> DEFINE R == Range(s) \cup {e}
<1>2. \A i \in 1 .. m : s[i] \in R
  BY <1>1 DEF Range
<1> HIDE DEF R
<1>3. [i \in 1 .. m |-> s[i]] \in [1 .. m -> R]
  BY <1>2
<1>4. s \in [1 .. m -> R]
  BY <1>3, Zenon DEF IsList
<1>5. s \in Seq(R) /\ e \in R
  BY <1>4, SeqDef DEF R
<1>6. /\ Append(s, e) \in Seq(R) /\ Len(Append(s, e)) = Len(s) + 1
      /\ \A i \in 1 .. Len(s) : Append(s, e)[i] = s[i]
      /\ Append(s, e)[Len(s) + 1] = e
  BY <1>5, AppendProperties
<1>7. IsList(Append(s, e), m + 1)
  BY <1>1, <1>6, SeqList
<1>8. QED
  BY <1>1, <1>6, <1>7 DEF Appended

GenMade(g, al, m, tr, cws, s, t) ==
  /\ IsList(cws, m) /\ IsList(tr, m + 1)
  /\ tr[m + 1] = [seed |-> s, t |-> t]
  /\ Prepared(g, al, m, tr, cws)

\* The entry that a round of Gen adds to the trail is typed, and its bits differ.
LEMMA LevelTyped ==
  ASSUME NEW g, NEW al \in Nat, NEW k \in Nat \ {0}, NEW e, NEW cw, NEW f, IsGen(g),
         TrailTyped(e), LevelMade(g, al, k, e, cw, f)
  PROVE  TrailTyped(f) /\ cw.seed \in Seed
<1>1. PICK bit \in {0, 1} : bit = GetBit(al, k - 1)
  <2>1. k - 1 \in Nat
    OBVIOUS
  <2>2. QED
    BY <2>1, BitOfPos
<1>2. PICK s, t : s = e.seed /\ t = e.t
  OBVIOUS
<1>3. \A r \in Ranks : s[r] \in Seed /\ t[r] \in BOOLEAN
  BY <1>2, Zenon DEF TrailTyped
<1>4. PICK s0 \in Seed, s1 \in Seed, t0 \in BOOLEAN, t1 \in BOOLEAN :
        s0 = s[0] /\ s1 = s[1] /\ t0 = t[0] /\ t1 = t[1]
  BY <1>3, Zenon DEF Ranks
<1>5. t0 # t1
  BY <1>2, <1>4, Zenon DEF TrailTyped
<1>6. PICK nx : nx = Corrected(g, bit, s, t)
  OBVIOUS
<1>7. cw = nx.cw /\ f = [seed |-> nx.seed, t |-> nx.t]
  BY <1>1, <1>2, <1>6, Zenon DEF LevelMade
<1>a. /\ IsWord(g, nx.cw, bit, s[0], s[1])
      /\ \A r \in Ranks : /\ nx.seed[r] = CorrSeed(g, nx.cw, s[r], t[r], bit)
                          /\ nx.t[r] = CorrT(g, nx.cw, s[r], t[r], bit)
  <2>1. /\ IsWord(g, Corrected(g, bit, s, t).cw, bit, s[0], s[1])
        /\ \A r \in Ranks :
             /\ Corrected(g, bit, s, t).seed[r] = CorrSeed(g, Corrected(g, bit, s, t).cw, s[r], t[r], bit)
             /\ Corrected(g, bit, s, t).t[r] = CorrT(g, Corrected(g, bit, s, t).cw, s[r], t[r], bit)
    BY <1>3, CorrectedIs
  <2>2. QED
    BY <2>1, <1>6, Zenon
<1>b. IsWord(g, cw, bit, s0, s1)
  BY <1>a, <1>4, <1>7, Zenon
<1>c. cw.seed \in Seed
  BY <1>b, WordTyped
<1>d. /\ nx.seed[0] = CorrSeed(g, cw, s0, t0, bit) /\ nx.seed[1] = CorrSeed(g, cw, s1, t1, bit)
      /\ nx.t[0] = CorrT(g, cw, s0, t0, bit) /\ nx.t[1] = CorrT(g, cw, s1, t1, bit)
  BY <1>a, <1>4, <1>7, Zenon DEF Ranks
<1>e. /\ CorrSeed(g, cw, s0, t0, bit) \in Seed /\ CorrT(g, cw, s0, t0, bit) \in BOOLEAN
      /\ CorrSeed(g, cw, s1, t1, bit) \in Seed /\ CorrT(g, cw, s1, t1, bit) \in BOOLEAN
  BY <1>c, CorrTyped, ZenonT(60)
<1>f. CorrT(g, cw, s0, t0, bit) # CorrT(g, cw, s1, t1, bit)
  BY <1>b, <1>5, KeepsDiffering, ZenonT(60)
<1>g. f.seed = nx.seed /\ f.t = nx.t
  BY <1>7
<1>h. TrailTyped(f)
  BY <1>d, <1>e, <1>f, <1>g, Zenon DEF TrailTyped, Ranks
<1>i. QED
  BY <1>c, <1>h

\* A round of Gen.
LEMMA GenStep ==
  ASSUME NEW g, NEW al \in Nat, NEW m \in Nat, NEW tr, NEW cws, NEW s, NEW t, NEW nx, NEW e,
         IsGen(g), GenMade(g, al, m, tr, cws, s, t), nx = Corrected(g, GetBit(al, m), s, t),
         e = [seed |-> nx.seed, t |-> nx.t]
  PROVE  /\ GenMade(g, al, m + 1, Append(tr, e), Append(cws, nx.cw), nx.seed, nx.t)
         /\ Append(tr, e)[1] = tr[1]
<1>1. PICK tr1, cw1 : tr1 = Append(tr, e) /\ cw1 = Append(cws, nx.cw)
  OBVIOUS
<1>2. IsList(cws, m) /\ IsList(tr, m + 1) /\ tr[m + 1] = [seed |-> s, t |-> t]
  BY Zenon DEF GenMade
<1>3. /\ IsList(tr1, m + 1 + 1) /\ tr1[m + 1 + 1] = e
      /\ \A i \in 1 .. m + 1 : tr1[i] = tr[i]
  <2>1. PICK k \in Nat : k = m + 1
    OBVIOUS
  <2>2. IsList(tr, k)
    BY <2>1, <1>2, Zenon
  <2>3. Appended(Append(tr, e), tr, k, e)
    BY <2>2, ListAppend, Zenon
  <2>4. QED
    BY <1>1, <2>1, <2>3, Zenon DEF Appended
<1>4. /\ IsList(cw1, m + 1) /\ cw1[m + 1] = nx.cw /\ \A i \in 1 .. m : cw1[i] = cws[i]
  <2>1. PICK w : w = nx.cw
    OBVIOUS
  <2>2. Appended(Append(cws, w), cws, m, w)
    BY <1>2, ListAppend, Zenon
  <2>3. QED
    BY <1>1, <2>1, <2>2, Zenon DEF Appended
<1>5. /\ \A k \in 1 .. m + 1 : TrailTyped(tr[k])
      /\ \A k \in 1 .. m : LevelMade(g, al, k, tr[k], cws[k], tr[k + 1])
  BY DEF GenMade, Prepared
<1>6. LevelMade(g, al, m + 1, tr1[m + 1], cw1[m + 1], tr1[m + 1 + 1])
  <2>1. tr1[m + 1] = tr[m + 1]
    BY <1>3
  <2>2. PICK ee : ee = tr1[m + 1] /\ ee.seed = s /\ ee.t = t
    BY <2>1, <1>2
  <2>3. (m + 1) - 1 = m
    OBVIOUS
  <2>4. Corrected(g, GetBit(al, (m + 1) - 1), ee.seed, ee.t) = nx
    BY <2>2, <2>3, Zenon
  <2>5. QED
    BY <1>3, <1>4, <2>2, <2>4, Zenon DEF LevelMade
<1>7. \A k \in 1 .. m + 1 : LevelMade(g, al, k, tr1[k], cw1[k], tr1[k + 1])
  <2> SUFFICES ASSUME NEW k \in 1 .. m + 1 PROVE LevelMade(g, al, k, tr1[k], cw1[k], tr1[k + 1])
    OBVIOUS
  <2>1. CASE k = m + 1
    BY <2>1, <1>6, Zenon
  <2>2. CASE k \in 1 .. m
    <3>1. tr1[k] = tr[k] /\ cw1[k] = cws[k] /\ tr1[k + 1] = tr[k + 1]
      BY <2>2, <1>3, <1>4
    <3>2. LevelMade(g, al, k, tr[k], cws[k], tr[k + 1])
      BY <2>2, <1>5
    <3>3. QED
      BY <3>1, <3>2, Zenon
  <2>3. QED
    BY <2>1, <2>2
<1>8. TrailTyped(tr1[m + 1 + 1])
  <2>1. TrailTyped(tr1[m + 1])
    <3>1. tr1[m + 1] = tr[m + 1] /\ TrailTyped(tr[m + 1])
      BY <1>3, <1>5
    <3>2. QED
      BY <3>1, Zenon
  <2>2. PICK a, b, c : a = tr1[m + 1] /\ b = cw1[m + 1] /\ c = tr1[m + 1 + 1]
    OBVIOUS
  <2>3. PICK k \in Nat \ {0} : k = m + 1
    OBVIOUS
  <2>4. TrailTyped(a) /\ LevelMade(g, al, k, a, b, c)
    BY <2>1, <2>2, <2>3, <1>6, Zenon
  <2>5. TrailTyped(c)
    BY <2>4, LevelTyped
  <2>6. QED
    BY <2>2, <2>5, Zenon
<1>9. \A k \in 1 .. m + 1 + 1 : TrailTyped(tr1[k])
  <2> SUFFICES ASSUME NEW k \in 1 .. m + 1 + 1 PROVE TrailTyped(tr1[k])
    OBVIOUS
  <2>1. CASE k = m + 1 + 1
    BY <2>1, <1>8, Zenon
  <2>2. CASE k \in 1 .. m + 1
    <3>1. tr1[k] = tr[k] /\ TrailTyped(tr[k])
      BY <2>2, <1>3, <1>5
    <3>2. QED
      BY <3>1, Zenon
  <2>3. QED
    BY <2>1, <2>2
<1>a. GenMade(g, al, m + 1, tr1, cw1, nx.seed, nx.t)
  BY <1>3, <1>4, <1>7, <1>9, Zenon DEF GenMade, Prepared
<1>b. tr1[1] = tr[1]
  BY <1>3
<1>c. QED
  BY <1>1, <1>a, <1>b, Zenon

-----------------------------------------------------------------------------
(* The nodes to be visited, and the positions below them.                  *)

LEMMA SmallMod ==
  ASSUME NEW v \in Nat, NEW d \in Nat \ {0}, v < d
  PROVE  v % d = v
<1>1. v = 0 * d + v
  OBVIOUS
<1>2. QED
  BY <1>1, Remainder

LEMMA ModTwice ==
  ASSUME NEW v \in Nat, NEW d \in Nat \ {0}
  PROVE  (v % d) % d = v % d
<1>1. PICK r \in Nat : r = v % d /\ r < d
  BY Euclid
<1>2. r % d = r
  BY <1>1, SmallMod
<1>3. QED
  BY <1>1, <1>2, Zenon

\* A node of the tree of a key: of the whole tree, or on the way to a point.
NodeOf(g, ky, d, all, pt, a) ==
  /\ a.level \in 0 .. d /\ a.pos \in Nat /\ a = PathTo(g, ky, d, a.pos)[a.level]
  /\ IF all THEN a.pos < Pow2[a.level] ELSE a.pos = pt % Pow2[a.level]

\* The child on the way to a position is the next node of the path.
LEMMA NextNode ==
  ASSUME NEW g, NEW ky, NEW d \in Nat, NEW p \in Nat, NEW o \in Nat, NEW l \in 0 .. d, l < d,
         p % Pow2[l] = o % Pow2[l]
  PROVE  Child(g, ky, PathTo(g, ky, d, p)[l], GetBit(o, l)) = PathTo(g, ky, d, o)[l + 1]
<1>1. PathTo(g, ky, d, p)[l] = PathTo(g, ky, d, o)[l]
  BY PathSame
<1>2. Descends(PathTo(g, ky, d, o), g, ky, d, o)
  BY PathDef
<1>3. l \in 0 .. d - 1
  OBVIOUS
<1>4. QED
  BY <1>1, <1>2, <1>3, Zenon DEF Descends

Below(c, g, ky, d, pt, a, b) ==
  /\ NodeOf(g, ky, d, TRUE, pt, c) /\ c.level = a.level + 1
  /\ c.pos = a.pos + b * Pow2[a.level]

LEMMA ChildOfNode ==
  ASSUME NEW g, NEW ky, NEW d \in Nat, NEW pt, NEW a, NEW b \in {0, 1},
         NodeOf(g, ky, d, TRUE, pt, a), a.level < d
  PROVE  Below(Child(g, ky, a, b), g, ky, d, pt, a, b)
<1>1. PICK l \in 0 .. d, p \in Nat : l = a.level /\ p = a.pos
  BY DEF NodeOf
<1>2. a = PathTo(g, ky, d, p)[l] /\ p < Pow2[l]
  BY <1>1, Zenon DEF NodeOf
<1>3. l \in Nat /\ l < d /\ l + 1 \in 0 .. d
  BY <1>1
<1>4. PICK o \in Nat : /\ o = p + b * Pow2[l] /\ o < Pow2[l + 1]
                       /\ GetBit(o, l) = b /\ o % Pow2[l] = p
  BY <1>2, <1>3, ChildPos
<1>5. p % Pow2[l] = o % Pow2[l]
  <2>1. Pow2[l] \in Nat \ {0}
    BY <1>3, PowerAt
  <2>2. p % Pow2[l] = p
    BY <2>1, <1>2, SmallMod
  <2>3. QED
    BY <2>2, <1>4, Zenon
<1>6. PICK c : c = Child(g, ky, a, b)
  OBVIOUS
<1>7. c = PathTo(g, ky, d, o)[l + 1]
  <2>1. Child(g, ky, PathTo(g, ky, d, p)[l], GetBit(o, l)) = PathTo(g, ky, d, o)[l + 1]
    BY <1>3, <1>5, NextNode
  <2>2. QED
    BY <2>1, <1>2, <1>4, <1>6, Zenon
<1>8. c.level = l + 1 /\ c.pos = o
  <2>1. c.level = a.level + 1 /\ c.pos = a.pos + b * Pow2[a.level]
    BY <1>6, ChildIs
  <2>2. QED
    BY <1>1, <1>4, <2>1, Zenon
<1>9. NodeOf(g, ky, d, TRUE, pt, c)
  BY <1>3, <1>4, <1>7, <1>8, Zenon DEF NodeOf
<1>a. QED
  BY <1>1, <1>4, <1>6, <1>8, <1>9, Zenon DEF Below

LEMMA ChildOnWay ==
  ASSUME NEW g, NEW ky, NEW d \in Nat, NEW pt \in Nat, NEW a,
         NodeOf(g, ky, d, FALSE, pt, a), a.level < d
  PROVE  NodeOf(g, ky, d, FALSE, pt, Child(g, ky, a, GetBit(pt, a.level)))
<1>1. PICK l \in 0 .. d, p \in Nat : l = a.level /\ p = a.pos
  BY DEF NodeOf
<1>2. a = PathTo(g, ky, d, p)[l] /\ p = pt % Pow2[l]
  BY <1>1, Zenon DEF NodeOf
<1>3. l \in Nat /\ l < d /\ l + 1 \in 0 .. d /\ l + 1 \in Nat
  BY <1>1
<1>4. Pow2[l] \in Nat \ {0} /\ Pow2[l + 1] \in Nat \ {0}
  BY <1>3, PowerAt
<1>5. p % Pow2[l] = pt % Pow2[l]
  BY <1>2, <1>4, ModTwice
<1>6. PICK c : c = Child(g, ky, a, GetBit(pt, l))
  OBVIOUS
<1>7. c = PathTo(g, ky, d, pt)[l + 1]
  <2>1. Child(g, ky, PathTo(g, ky, d, p)[l], GetBit(pt, l)) = PathTo(g, ky, d, pt)[l + 1]
    BY <1>3, <1>5, NextNode
  <2>2. QED
    BY <2>1, <1>2, <1>6, Zenon
<1>8. PICK o \in Nat : o = pt % Pow2[l + 1] /\ o = p + GetBit(pt, l) * Pow2[l]
  BY <1>2, <1>3, BitOfPos
<1>9. o % Pow2[l + 1] = pt % Pow2[l + 1]
  BY <1>4, <1>8, ModTwice
<1>a. PathTo(g, ky, d, o)[l + 1] = PathTo(g, ky, d, pt)[l + 1]
  BY <1>3, <1>9, PathSame
<1>b. c.level = l + 1 /\ c.pos = o
  <2>0. PICK b : b = GetBit(pt, l)
    OBVIOUS
  <2>1. c.level = a.level + 1 /\ c.pos = a.pos + b * Pow2[a.level]
    BY <1>6, <2>0, ChildIs
  <2>2. QED
    BY <1>1, <1>8, <2>0, <2>1, Zenon
<1>c. NodeOf(g, ky, d, FALSE, pt, c)
  BY <1>3, <1>7, <1>8, <1>a, <1>b, Zenon DEF NodeOf
<1>d. QED
  BY <1>1, <1>6, <1>c, Zenon

\* The first entry of a list replaced by two, or removed.
Unfolded(w1, w, k, c0, c1) ==
  IsList(w1, k + 2) /\ w1[1] = c0 /\ w1[2] = c1 /\ \A i \in 1 .. k : w1[i + 2] = w[i + 1]
Shortened(w1, w, k) == IsList(w1, k) /\ \A i \in 1 .. k : w1[i] = w[i + 1]

LEMMA TailShortens ==
  ASSUME NEW w, NEW k \in Nat, IsList(w, k + 1)
  PROVE  Shortened(Tail(w), w, k) /\ Head(w) = w[1] /\ w # <<>>
<1>1. PICK m \in Nat : m = k + 1 /\ IsList(w, m)
  <2>1. k + 1 \in Nat
    OBVIOUS
  <2>2. QED
    BY <2>1, Zenon
<1>2. w \in Seq(Range(w)) /\ Len(w) = m
  BY <1>1, ListSeq
<1>3. PICK R : R = Range(w)
  OBVIOUS
<1>4. w \in Seq(R) /\ Len(w) = k + 1
  BY <1>1, <1>2, <1>3
<1>5. w # <<>>
  BY <1>4
<1>6. /\ Tail(w) \in Seq(R) /\ Len(Tail(w)) = k /\ \A i \in 1 .. k : Tail(w)[i] = w[i + 1]
  BY <1>4, <1>5
<1>7. IsList(Tail(w), k)
  BY <1>6, SeqList
<1>8. Head(w) = w[1]
  BY <1>4
<1>9. QED
  BY <1>5, <1>6, <1>7, <1>8, Zenon DEF Shortened

LEMMA PairUnfolds ==
  ASSUME NEW w, NEW k \in Nat, NEW c0, NEW c1, IsList(w, k + 1)
  PROVE  Unfolded(<<c0, c1>> \o Tail(w), w, k, c0, c1)
<1>1. PICK t : t = Tail(w) /\ IsList(t, k) /\ \A i \in 1 .. k : t[i] = w[i + 1]
  BY TailShortens, Zenon DEF Shortened
<1>2. PICK s : s = <<c0, c1>>
  OBVIOUS
<1>3. IsList(s, 2) /\ s[1] = c0 /\ s[2] = c1
  BY <1>2 DEF IsList
<1>4. PICK w1 : w1 = s \o t
  OBVIOUS
<1>5. Joined(w1, s, 2, t, k)
  BY <1>1, <1>3, <1>4, ListConcat
<1>6. IsList(w1, 2 + k) /\ (\A i \in 1 .. 2 : w1[i] = s[i]) /\ \A i \in 1 .. k : w1[2 + i] = t[i]
  BY <1>5, Zenon DEF Joined
<1>7. Unfolded(w1, w, k, c0, c1)
  <2>1. k + 2 = 2 + k
    OBVIOUS
  <2>2. w1[1] = c0 /\ w1[2] = c1
    BY <1>3, <1>6
  <2>3. \A i \in 1 .. k : w1[i + 2] = w[i + 1]
    <3>1. \A i \in 1 .. k : i + 2 = 2 + i
      OBVIOUS
    <3>2. QED
      BY <3>1, <1>1, <1>6, Zenon
  <2>4. QED
    BY <2>1, <2>2, <2>3, <1>6, Zenon DEF Unfolded
<1>8. QED
  BY <1>1, <1>2, <1>4, <1>7, Zenon

LEMMA PowerSum ==
  ASSUME NEW a \in Nat, NEW b \in Nat
  PROVE  Pow2[a] * Pow2[b] = Pow2[a + b]
<1> DEFINE S == {k \in Nat : Pow2[a] * Pow2[k] = Pow2[a + k]}
<1>1. 0 \in S
  <2>1. PICK m \in Nat : m = Pow2[a]
    BY PowerAt
  <2>2. Pow2[0] = 1 /\ a + 0 = a /\ m * 1 = m
    BY Pow2Def
  <2>3. QED
    BY <2>1, <2>2
<1>2. ASSUME NEW k \in Nat, k \in S PROVE k + 1 \in S
  <2>1. PICK m \in Nat, c \in Nat : m = Pow2[a] /\ c = Pow2[k] /\ Pow2[k + 1] = 2 * c
    BY PowerAt
  <2>2. a + k \in Nat /\ (a + k) + 1 = a + (k + 1)
    OBVIOUS
  <2>3. PICK e \in Nat : e = Pow2[a + k] /\ Pow2[(a + k) + 1] = 2 * e
    BY <2>2, PowerAt
  <2>4. m * c = e
    BY <1>2, <2>1, <2>3
  <2>5. m * (2 * c) = 2 * e
    BY <2>4, Z3
  <2>6. Pow2[a] * Pow2[k + 1] = Pow2[a + (k + 1)]
    BY <2>1, <2>2, <2>3, <2>5, Zenon
  <2>7. QED
    BY <2>6
<1>3. Nat \subseteq S
  <2> HIDE DEF S
  <2>1. QED
    BY <1>1, <1>2, Induction
<1>4. QED
  BY <1>3

\* The positions below a node that is unfolded are those below its children.
CoveredBy(s, w, top) ==
  \A p \in 0 .. Pow2[top] - 1 :
    \/ \E i \in DOMAIN s : s[i][1] = p
    \/ \E i \in DOMAIN w : p % Pow2[w[i].level] = w[i].pos
CountedBy(ls, w, m, top) ==
  \E from \in [1 .. m + 1 -> 0 .. Pow2[top]] :
    /\ from[1] = ls /\ from[m + 1] = Pow2[top]
    /\ \A i \in 1 .. m : from[i + 1] = from[i] + Pow2[top - w[i].level]

Halved(nd, c0, c1, l, pos) ==
  /\ nd.level = l /\ nd.pos = pos /\ c0.level = l + 1 /\ c1.level = l + 1
  /\ c0.pos = pos + 0 * Pow2[l] /\ c1.pos = pos + 1 * Pow2[l]

LEMMA UnfoldCovers ==
  ASSUME NEW s, NEW w, NEW k \in Nat, NEW top \in Nat, NEW c0, NEW c1, NEW w1, NEW l \in Nat,
         NEW pos \in Nat, IsList(w, k + 1), Unfolded(w1, w, k, c0, c1), CoveredBy(s, w, top),
         Halved(w[1], c0, c1, l, pos)
  PROVE  CoveredBy(s, w1, top)
<1>0. /\ w[1].level = l /\ w[1].pos = pos /\ c0.level = l + 1 /\ c1.level = l + 1
      /\ c0.pos = pos + 0 * Pow2[l] /\ c1.pos = pos + 1 * Pow2[l]
  BY Zenon DEF Halved
<1>1. DOMAIN w = 1 .. k + 1 /\ DOMAIN w1 = 1 .. k + 2
  BY Zenon DEF IsList, Unfolded
<1>2. w1[1] = c0 /\ w1[2] = c1 /\ \A i \in 1 .. k : w1[i + 2] = w[i + 1]
  BY Zenon DEF Unfolded
<1> SUFFICES ASSUME NEW p \in 0 .. Pow2[top] - 1, ~ \E i \in DOMAIN s : s[i][1] = p
             PROVE  \E i \in DOMAIN w1 : p % Pow2[w1[i].level] = w1[i].pos
  BY Zenon DEF CoveredBy
<1>3. PICK i \in 1 .. k + 1 : p % Pow2[w[i].level] = w[i].pos
  BY <1>1, Zenon DEF CoveredBy
<1>4. p \in Nat
  <2>1. Pow2[top] \in Nat
    BY PowerAt
  <2>2. QED
    BY <2>1
<1>5. CASE i = 1
  <2>1. p % Pow2[l] = pos
    BY <1>0, <1>3, <1>5, Zenon
  <2>2. PICK b \in {0, 1} : b = GetBit(p, l) /\ p % Pow2[l + 1] = (p % Pow2[l]) + GetBit(p, l) * Pow2[l]
    BY <1>4, BitOfPos
  <2>3. p % Pow2[l + 1] = pos + b * Pow2[l]
    BY <2>1, <2>2, Zenon
  <2>4. CASE b = 0
    <3>1. p % Pow2[w1[1].level] = w1[1].pos
      BY <1>0, <1>2, <2>3, <2>4, Zenon
    <3>2. 1 \in DOMAIN w1
      BY <1>1
    <3>3. QED
      BY <3>1, <3>2, Zenon
  <2>5. CASE b = 1
    <3>1. p % Pow2[w1[2].level] = w1[2].pos
      BY <1>0, <1>2, <2>3, <2>5, Zenon
    <3>2. 2 \in DOMAIN w1
      BY <1>1
    <3>3. QED
      BY <3>1, <3>2, Zenon
  <2>6. QED
    BY <2>4, <2>5
<1>6. CASE i # 1
  <2>1. PICK j \in 1 .. k : i = j + 1
    <3>1. i - 1 \in 1 .. k /\ i = (i - 1) + 1
      BY <1>6
    <3>2. QED
      BY <3>1
  <2>2. w1[j + 2] = w[i] /\ j + 2 \in DOMAIN w1
    BY <1>1, <1>2, <2>1
  <2>3. QED
    BY <2>2, <1>3, Zenon
<1>7. QED
  BY <1>5, <1>6

LEMMA UnfoldCounts ==
  ASSUME NEW ls, NEW w, NEW k \in Nat, NEW top \in Nat, NEW c0, NEW c1, NEW w1, NEW l \in Nat,
         Unfolded(w1, w, k, c0, c1), CountedBy(ls, w, k + 1, top), w[1].level = l, l < top,
         c0.level = l + 1, c1.level = l + 1
  PROVE  CountedBy(ls, w1, k + 2, top)
<1>1. PICK N \in Nat : N = Pow2[top]
  BY PowerAt
<1>2. PICK from \in [1 .. (k + 1) + 1 -> 0 .. N] :
        /\ from[1] = ls /\ from[(k + 1) + 1] = N
        /\ \A i \in 1 .. k + 1 : from[i + 1] = from[i] + Pow2[top - w[i].level]
  BY <1>1, Zenon DEF CountedBy
<1>3. PICK h \in Nat : h = Pow2[top - (l + 1)] /\ Pow2[top - l] = h + h
  <2>1. top - (l + 1) \in Nat /\ (top - (l + 1)) + 1 = top - l
    OBVIOUS
  <2>2. Pow2[top - (l + 1)] \in Nat /\ Pow2[(top - (l + 1)) + 1] = 2 * Pow2[top - (l + 1)]
    BY <2>1, PowerAt
  <2>3. QED
    BY <2>1, <2>2
<1>4. from[1] \in Nat /\ from[2] = from[1] + h + h /\ from[2] <= N
  <2>1. from[1 + 1] = from[1] + Pow2[top - w[1].level]
    <3>1. 1 \in 1 .. k + 1
      OBVIOUS
    <3>2. QED
      BY <3>1, <1>2, Zenon
  <2>2. from[1] \in 0 .. N /\ from[2] \in 0 .. N
    BY <1>2
  <2>3. QED
    BY <2>1, <2>2, <1>3
<1> DEFINE f == [i \in 1 .. (k + 2) + 1 |-> IF i = 1 THEN from[1]
                                           ELSE IF i = 2 THEN from[1] + h ELSE from[i - 1]]
<1>5. f \in [1 .. (k + 2) + 1 -> 0 .. N]
  <2> SUFFICES ASSUME NEW i \in 1 .. (k + 2) + 1
               PROVE  (IF i = 1 THEN from[1] ELSE IF i = 2 THEN from[1] + h ELSE from[i - 1]) \in 0 .. N
    OBVIOUS
  <2>1. i # 1 => i - 1 \in 1 .. (k + 1) + 1
    OBVIOUS
  <2>2. 1 \in 1 .. (k + 1) + 1
    OBVIOUS
  <2>3. QED
    BY <2>1, <2>2, <1>2, <1>4, SMTT(30)
<1>6. f[1] = ls /\ f[(k + 2) + 1] = N
  BY <1>2
<1>7. ASSUME NEW i \in 1 .. k + 2 PROVE f[i + 1] = f[i] + Pow2[top - w1[i].level]
  <2>0. w1[1] = c0 /\ w1[2] = c1 /\ \A j \in 1 .. k : w1[j + 2] = w[j + 1]
    BY Zenon DEF Unfolded
  <2>1. CASE i = 1
    <3>1. Pow2[top - w1[1].level] = h
      BY <2>0, <1>3, Zenon
    <3>2. f[1 + 1] = from[1] + h /\ f[1] = from[1]
      OBVIOUS
    <3>3. QED
      BY <3>1, <3>2, <2>1
  <2>2. CASE i = 2
    <3>1. Pow2[top - w1[2].level] = h
      BY <2>0, <1>3, Zenon
    <3>2. f[2 + 1] = from[2] /\ f[2] = from[1] + h
      OBVIOUS
    <3>3. PICK a \in Nat : a = from[1] /\ from[2] = a + h + h
      BY <1>4
    <3>4. f[2 + 1] = f[2] + h
      BY <3>2, <3>3
    <3>5. QED
      BY <3>1, <3>4, <2>2, Zenon
  <2>3. CASE i # 1 /\ i # 2
    <3>1. PICK j \in 1 .. k : i = j + 2
      <4>1. i - 2 \in 1 .. k /\ i = (i - 2) + 2
        BY <2>3
      <4>2. QED
        BY <4>1
    <3>0. j + 1 \in 1 .. k + 1
      OBVIOUS
    <3>2. w1[i] = w[j + 1] /\ j + 1 \in 1 .. k + 1
      BY <3>0, <3>1, <2>0, Zenon
    <3>3. from[(j + 1) + 1] = from[j + 1] + Pow2[top - w1[i].level]
      BY <3>2, <1>2, Zenon
    <3>4. f[i + 1] = from[(j + 1) + 1] /\ f[i] = from[j + 1]
      BY <3>1
    <3>5. QED
      BY <3>3, <3>4, Zenon
  <2>4. QED
    BY <2>1, <2>2, <2>3
<1> HIDE DEF f
<1>8. QED
  BY <1>1, <1>5, <1>6, <1>7, Zenon DEF CountedBy

LEMMA ShortenCounts ==
  ASSUME NEW ls, NEW w, NEW k \in Nat, NEW top \in Nat, NEW w1, NEW more,
         Shortened(w1, w, k), CountedBy(ls, w, k + 1, top), more = Pow2[top - w[1].level]
  PROVE  CountedBy(ls + more, w1, k, top)
<1>1. PICK N \in Nat : N = Pow2[top]
  BY PowerAt
<1>2. PICK from \in [1 .. (k + 1) + 1 -> 0 .. N] :
        /\ from[1] = ls /\ from[(k + 1) + 1] = N
        /\ \A i \in 1 .. k + 1 : from[i + 1] = from[i] + Pow2[top - w[i].level]
  BY <1>1, Zenon DEF CountedBy
<1> DEFINE f == [i \in 1 .. k + 1 |-> from[i + 1]]
<1>3. f \in [1 .. k + 1 -> 0 .. N]
  BY <1>2
<1>4. f[1] = ls + more
  <2>1. 1 \in 1 .. k + 1
    OBVIOUS
  <2>2. from[1 + 1] = ls + more
    BY <2>1, <1>2, Zenon
  <2>3. QED
    BY <2>1, <2>2
<1>5. f[k + 1] = N
  BY <1>2
<1>6. ASSUME NEW i \in 1 .. k PROVE f[i + 1] = f[i] + Pow2[top - w1[i].level]
  <2>1. w1[i] = w[i + 1] /\ i + 1 \in 1 .. k + 1
    BY DEF Shortened
  <2>2. from[(i + 1) + 1] = from[i + 1] + Pow2[top - w1[i].level]
    BY <2>1, <1>2, Zenon
  <2>3. f[i + 1] = from[(i + 1) + 1] /\ f[i] = from[i + 1]
    OBVIOUS
  <2>4. QED
    BY <2>2, <2>3, Zenon
<1> HIDE DEF f
<1>7. QED
  BY <1>1, <1>3, <1>4, <1>5, <1>6, Zenon DEF CountedBy

\* The positions below a node of the last level.
LeafAt(p, d, top, pos, i) ==
  p \in Nat /\ p < Pow2[top] /\ p \div Pow2[d] = i - 1 /\ p % Pow2[d] = pos

LEMMA LeafPosition ==
  ASSUME NEW d \in Nat, NEW top \in Nat, NEW pos \in Nat, NEW i \in 1 .. Pow2[top - d], d <= top,
         pos < Pow2[d]
  PROVE  LeafAt(pos + (i - 1) * Pow2[d], d, top, pos, i)
<1>1. PICK e \in Nat : e = top - d /\ d + e = top
  OBVIOUS
<1>2. PICK D \in Nat \ {0}, E \in Nat \ {0} : D = Pow2[d] /\ E = Pow2[e]
  BY PowerAt
<1>3. Pow2[top] = D * E
  <2>1. Pow2[d] * Pow2[e] = Pow2[d + e]
    BY PowerSum
  <2>2. QED
    BY <1>1, <1>2, <2>1, Zenon
<1>4. PICK j \in Nat : j = i - 1 /\ j <= E - 1
  BY <1>1, <1>2
<1>5. PICK z \in Nat : z = j * D
  OBVIOUS
<1>6. z <= (E - 1) * D
  BY <1>4, <1>5, Z3
<1>7. (E - 1) * D = D * E - D
  BY Z3
<1>8. pos + z < D * E
  <2>1. PICK y \in Int : y = D * E
    OBVIOUS
  <2>2. QED
    BY <2>1, <1>2, <1>6, <1>7
<1>9. (pos + z) \div D = j /\ (pos + z) % D = pos
  <2>1. PICK v \in Nat : v = pos + z
    OBVIOUS
  <2>2. v = j * D + pos /\ pos < D /\ v \in Int /\ j \in Int
    BY <2>1, <1>2, <1>5
  <2>3. v \div D = j /\ v % D = pos
    BY <2>2, Remainder
  <2>4. QED
    BY <2>1, <2>3, Zenon
<1>a. pos + z \in Nat
  OBVIOUS
<1>b. QED
  BY <1>2, <1>3, <1>4, <1>5, <1>8, <1>9, <1>a, Zenon DEF LeafAt

LEMMA LeafCovers ==
  ASSUME NEW d \in Nat, NEW top \in Nat, NEW p \in 0 .. Pow2[top] - 1, d <= top
  PROVE  \E i \in 1 .. Pow2[top - d] : p = (p % Pow2[d]) + (i - 1) * Pow2[d]
<1>1. PICK e \in Nat : e = top - d /\ d + e = top
  OBVIOUS
<1>2. PICK D \in Nat \ {0}, E \in Nat \ {0} : D = Pow2[d] /\ E = Pow2[e]
  BY PowerAt
<1>3. Pow2[top] = D * E
  <2>1. Pow2[d] * Pow2[e] = Pow2[d + e]
    BY PowerSum
  <2>2. QED
    BY <1>1, <1>2, <2>1, Zenon
<1>0. PICK y \in Nat : y = D * E
  OBVIOUS
<1>4. p \in Nat /\ p < y
  BY <1>3, <1>0
<1>5. PICK c \in Nat, r \in Nat : c = p \div D /\ r = p % D
  <2>1. p \in Int /\ p \in Nat
    BY <1>4
  <2>2. p \div D \in Nat
    BY <2>1, EuclidNat
  <2>3. p % D \in Nat
    BY <2>1, Euclid
  <2>4. QED
    BY <2>2, <2>3, Zenon
<1>6. p = c * D + r
  <2>1. p \in Int
    BY <1>4
  <2>2. p = (p \div D) * D + (p % D)
    BY <2>1, Euclid
  <2>3. QED
    BY <2>2, <1>5, Zenon
<1>7. PICK z \in Nat : z = c * D
  OBVIOUS
<1>8. c < E
  <2>1. z < y
    BY <1>4, <1>6, <1>7
  <2>2. c >= E => c * D >= D * E
    BY Z3
  <2>3. QED
    BY <2>1, <2>2, <1>0, <1>7
<1>9. PICK i \in 1 .. E : i - 1 = c
  <2>1. c + 1 \in 1 .. E /\ (c + 1) - 1 = c
    BY <1>8
  <2>2. QED
    BY <2>1
<1>a. p = r + c * D
  BY <1>6, <1>7
<1>b. p = (p % Pow2[d]) + (i - 1) * Pow2[d]
  BY <1>2, <1>5, <1>9, <1>a, Zenon
<1>c. QED
  BY <1>1, <1>2, <1>b, Zenon

ShareVal(g, sm, ky, nd, i) ==
  ShareFor(ky.rank, PrgChain(g, nd.seed, i), nd.t, ky.last_cw_vec[i + 1], sm)
ShareAt(g, sm, ky, d, top, all, e) ==
  /\ e[1] \in Nat /\ (all => e[1] < Pow2[top])
  /\ e = <<e[1], ShareVal(g, sm, ky, PathTo(g, ky, d, e[1])[d], IF all THEN e[1] \div Pow2[d] ELSE 0)>>

LEMMA LeafShare ==
  ASSUME NEW g, NEW sm, NEW ky, NEW d \in Nat, NEW top \in Nat, NEW pt, NEW a,
         NodeOf(g, ky, d, TRUE, pt, a), a.level = d, d <= top, NEW i \in 1 .. Pow2[top - d], NEW e,
         e = <<a.pos + (i - 1) * Pow2[d], ShareVal(g, sm, ky, a, i - 1)>>
  PROVE  ShareAt(g, sm, ky, d, top, TRUE, e)
<1>1. PICK pos \in Nat : pos = a.pos /\ pos < Pow2[d] /\ a = PathTo(g, ky, d, pos)[d]
  BY Zenon DEF NodeOf
<1>2. PICK p \in Nat : /\ p = pos + (i - 1) * Pow2[d] /\ p < Pow2[top]
                       /\ p \div Pow2[d] = i - 1 /\ p % Pow2[d] = pos
  <2>1. LeafAt(pos + (i - 1) * Pow2[d], d, top, pos, i)
    BY <1>1, LeafPosition, Zenon
  <2>2. QED
    BY <2>1, Zenon DEF LeafAt
<1>3. pos % Pow2[d] = p % Pow2[d]
  <2>1. Pow2[d] \in Nat \ {0}
    BY PowerAt
  <2>2. pos % Pow2[d] = pos
    BY <2>1, <1>1, SmallMod
  <2>3. QED
    BY <2>2, <1>2, Zenon
<1>4. PathTo(g, ky, d, pos)[d] = PathTo(g, ky, d, p)[d]
  BY <1>3, PathSame
<1>5. e = <<p, ShareVal(g, sm, ky, PathTo(g, ky, d, p)[d], p \div Pow2[d])>>
  BY <1>1, <1>2, <1>4, Zenon
<1>6. e[1] = p
  BY <1>5
<1>7. QED
  BY <1>2, <1>5, <1>6, Zenon DEF ShareAt

LEMMA PointShare ==
  ASSUME NEW g, NEW sm, NEW ky, NEW d \in Nat, NEW top \in Nat, NEW pt \in Nat, NEW a,
         NodeOf(g, ky, d, FALSE, pt, a), a.level = d, NEW e, e = <<pt, ShareVal(g, sm, ky, a, 0)>>
  PROVE  ShareAt(g, sm, ky, d, top, FALSE, e)
<1>1. PICK pos \in Nat : pos = pt % Pow2[d] /\ a = PathTo(g, ky, d, pos)[d]
  BY Zenon DEF NodeOf
<1>2. pos % Pow2[d] = pt % Pow2[d]
  <2>1. Pow2[d] \in Nat \ {0}
    BY PowerAt
  <2>2. QED
    BY <2>1, <1>1, ModTwice
<1>3. PathTo(g, ky, d, pos)[d] = PathTo(g, ky, d, pt)[d]
  BY <1>2, PathSame
<1>4. e = <<pt, ShareVal(g, sm, ky, PathTo(g, ky, d, pt)[d], 0)>>
  BY <1>1, <1>3, Zenon
<1>5. e[1] = pt
  BY <1>4
<1>6. QED
  BY <1>4, <1>5, Zenon DEF ShareAt

\* One party's evaluation, with the lengths of its walk and of its results.
EvalAt(g, sm, ky, d, top, all, pt, w, m, s, ls) ==
  /\ IsList(w, m) /\ IsList(s, ls)
  /\ \A i \in 1 .. m : NodeOf(g, ky, d, all, pt, w[i])
  /\ \A i \in 1 .. ls : ShareAt(g, sm, ky, d, top, all, s[i])
  /\ IF all THEN CoveredBy(s, w, top) /\ CountedBy(ls, w, m, top) ELSE m <= 1
EvalOf(g, sm, ky, d, top, all, pt, w, s) ==
  \E m \in Nat, ls \in Nat : EvalAt(g, sm, ky, d, top, all, pt, w, m, s, ls)

LEMMA EmptyList ==
  ASSUME NEW m \in Nat, NEW w, IsList(w, m)
  PROVE  (w = <<>>) <=> (m = 0)
<1>1. Len(w) = m /\ DOMAIN w = 1 .. m
  BY ListSeq
<1>2. w = <<>> => m = 0
  BY <1>1
<1>3. ASSUME m = 0 PROVE w = <<>>
  <2>1. IsList(<<>>, 0)
    BY DEF IsList
  <2>2. IsList(w, 0) /\ \A i \in 1 .. 0 : w[i] = (<<>>)[i]
    BY <1>3
  <2>3. QED
    BY <2>1, <2>2, ListEqual
<1>4. QED
  BY <1>2, <1>3

-----------------------------------------------------------------------------
(* One call of Traverse and of Eval.                                       *)

\* A call of Traverse above the last level.
LEMMA TraverseInner ==
  ASSUME NEW g, NEW sm, NEW ky, NEW d \in Nat, NEW top \in Nat, NEW pt, NEW w, NEW s, NEW a,
         d <= top, EvalOf(g, sm, ky, d, top, TRUE, pt, w, s), w # <<>>, a = Head(w), a.level < d
  PROVE  EvalOf(g, sm, ky, d, top, TRUE, pt, <<Child(g, ky, a, 0), Child(g, ky, a, 1)>> \o Tail(w), s)
<1>1. PICK m \in Nat, ls \in Nat : EvalAt(g, sm, ky, d, top, TRUE, pt, w, m, s, ls)
  BY Zenon DEF EvalOf
<1>2. /\ IsList(w, m) /\ IsList(s, ls)
      /\ \A i \in 1 .. m : NodeOf(g, ky, d, TRUE, pt, w[i])
      /\ \A i \in 1 .. ls : ShareAt(g, sm, ky, d, top, TRUE, s[i])
      /\ CoveredBy(s, w, top) /\ CountedBy(ls, w, m, top)
  BY <1>1, Zenon DEF EvalAt
<1>3. PICK k \in Nat : m = k + 1
  <2>1. m # 0
    BY <1>2, EmptyList
  <2>2. m - 1 \in Nat /\ m = (m - 1) + 1
    BY <2>1
  <2>3. QED
    BY <2>2
<1>4. IsList(w, k + 1)
  BY <1>2, <1>3, Zenon
<1>5. a = w[1]
  BY <1>4, TailShortens, Zenon
<1>6. NodeOf(g, ky, d, TRUE, pt, a)
  <2>1. 1 \in 1 .. m
    BY <1>3
  <2>2. QED
    BY <2>1, <1>2, <1>5, Zenon
<1>7. PICK c0, c1 : c0 = Child(g, ky, a, 0) /\ c1 = Child(g, ky, a, 1)
  OBVIOUS
<1>8. PICK w1 : w1 = <<c0, c1>> \o Tail(w)
  OBVIOUS
<1>9. Unfolded(w1, w, k, c0, c1)
  BY <1>4, <1>8, PairUnfolds, Zenon
<1>a. PICK l \in Nat, pos \in Nat : l = a.level /\ pos = a.pos /\ l < d
  BY <1>6 DEF NodeOf
<1>b. /\ NodeOf(g, ky, d, TRUE, pt, c0) /\ c0.level = l + 1 /\ c0.pos = pos + 0 * Pow2[l]
  <2>1. PICK b \in {0, 1} : b = 0
    OBVIOUS
  <2>2. Below(Child(g, ky, a, b), g, ky, d, pt, a, b)
    BY <1>6, ChildOfNode, Zenon
  <2>3. QED
    BY <2>1, <2>2, <1>7, <1>a, Zenon DEF Below
<1>c. /\ NodeOf(g, ky, d, TRUE, pt, c1) /\ c1.level = l + 1 /\ c1.pos = pos + 1 * Pow2[l]
  <2>1. PICK b \in {0, 1} : b = 1
    OBVIOUS
  <2>2. Below(Child(g, ky, a, b), g, ky, d, pt, a, b)
    BY <1>6, ChildOfNode, Zenon
  <2>3. QED
    BY <2>1, <2>2, <1>7, <1>a, Zenon DEF Below
<1>d. w[1].level = l /\ w[1].pos = pos
  BY <1>5, <1>a, Zenon
<1>e. CoveredBy(s, w1, top)
  <2>1. Halved(w[1], c0, c1, l, pos)
    BY <1>b, <1>c, <1>d, Zenon DEF Halved
  <2>2. QED
    BY <1>2, <1>4, <1>9, <2>1, UnfoldCovers, Zenon
<1>f. CountedBy(ls, w1, k + 2, top)
  <2>1. CountedBy(ls, w, k + 1, top)
    BY <1>2, <1>3, Zenon
  <2>2. l < top
    BY <1>a
  <2>3. QED
    BY <2>1, <2>2, <1>9, <1>b, <1>c, <1>d, UnfoldCounts, Zenon
<1>g. /\ IsList(w1, k + 2) /\ w1[1] = c0 /\ w1[2] = c1
      /\ \A i \in 1 .. k : w1[i + 2] = w[i + 1]
  BY <1>9, Zenon DEF Unfolded
<1>h. ASSUME NEW i \in 1 .. k + 2 PROVE NodeOf(g, ky, d, TRUE, pt, w1[i])
  <2>1. CASE i = 1
    BY <2>1, <1>b, <1>g, Zenon
  <2>2. CASE i = 2
    BY <2>2, <1>c, <1>g, Zenon
  <2>3. CASE i # 1 /\ i # 2
    <3>1. i - 2 \in 1 .. k /\ i = (i - 2) + 2 /\ (i - 2) + 1 \in 1 .. m
      BY <2>3, <1>3
    <3>2. PICK j \in 1 .. k : i = j + 2 /\ j + 1 \in 1 .. m
      BY <3>1
    <3>3. QED
      BY <3>2, <1>2, <1>g, Zenon
  <2>4. QED
    BY <2>1, <2>2, <2>3
<1>i. EvalAt(g, sm, ky, d, top, TRUE, pt, w1, k + 2, s, ls)
  BY <1>2, <1>e, <1>f, <1>g, <1>h, Zenon DEF EvalAt
<1>j. k + 2 \in Nat
  OBVIOUS
<1>k. EvalOf(g, sm, ky, d, top, TRUE, pt, w1, s)
  BY <1>i, <1>j, Zenon DEF EvalOf
<1>l. QED
  BY <1>7, <1>8, <1>k, Zenon

\* A call of Traverse at the last level.
LEMMA TraverseLeaf ==
  ASSUME NEW g, NEW sm, NEW ky, NEW d \in Nat, NEW top \in Nat, NEW pt, NEW w, NEW s, NEW a, NEW t,
         d <= top, EvalOf(g, sm, ky, d, top, TRUE, pt, w, s), w # <<>>, a = Head(w), ~ (a.level < d),
         t = [i \in 1 .. Pow2[top - d] |->
               <<a.pos + (i - 1) * Pow2[d], ShareVal(g, sm, ky, a, i - 1)>>]
  PROVE  EvalOf(g, sm, ky, d, top, TRUE, pt, Tail(w), s \o t)
<1>1. PICK m \in Nat, ls \in Nat : EvalAt(g, sm, ky, d, top, TRUE, pt, w, m, s, ls)
  BY Zenon DEF EvalOf
<1>2. /\ IsList(w, m) /\ IsList(s, ls)
      /\ \A i \in 1 .. m : NodeOf(g, ky, d, TRUE, pt, w[i])
      /\ \A i \in 1 .. ls : ShareAt(g, sm, ky, d, top, TRUE, s[i])
      /\ CoveredBy(s, w, top) /\ CountedBy(ls, w, m, top)
  BY <1>1, Zenon DEF EvalAt
<1>3. PICK k \in Nat : m = k + 1
  <2>1. m # 0
    BY <1>2, EmptyList
  <2>2. m - 1 \in Nat /\ m = (m - 1) + 1
    BY <2>1
  <2>3. QED
    BY <2>2
<1>4. IsList(w, k + 1)
  BY <1>2, <1>3, Zenon
<1>5. PICK w1 : w1 = Tail(w) /\ Shortened(w1, w, k) /\ a = w[1]
  BY <1>4, TailShortens, Zenon
<1>6. NodeOf(g, ky, d, TRUE, pt, a)
  <2>1. 1 \in 1 .. m
    BY <1>3
  <2>2. QED
    BY <2>1, <1>2, <1>5, Zenon
<1>7. a.level = d
  BY <1>6 DEF NodeOf
<1>8. PICK E \in Nat : E = Pow2[top - d]
  <2>1. top - d \in Nat
    OBVIOUS
  <2>2. QED
    BY <2>1, PowerAt
<1>9. IsList(t, E) /\ \A i \in 1 .. E : t[i] = <<a.pos + (i - 1) * Pow2[d], ShareVal(g, sm, ky, a, i - 1)>>
  BY <1>8, Zenon DEF IsList
<1>a. ASSUME NEW i \in 1 .. E PROVE ShareAt(g, sm, ky, d, top, TRUE, t[i])
  <2>1. PICK e : e = t[i] /\ e = <<a.pos + (i - 1) * Pow2[d], ShareVal(g, sm, ky, a, i - 1)>>
    BY <1>9, Zenon
  <2>2. i \in 1 .. Pow2[top - d]
    BY <1>8
  <2>3. ShareAt(g, sm, ky, d, top, TRUE, e)
    BY <2>1, <2>2, <1>6, <1>7, LeafShare, Zenon
  <2>4. QED
    BY <2>1, <2>3, Zenon
<1>b. PICK s1 : s1 = s \o t
  OBVIOUS
<1>c. Joined(s1, s, ls, t, E)
  BY <1>2, <1>9, <1>b, ListConcat, Zenon
<1>d. /\ IsList(s1, ls + E) /\ (\A i \in 1 .. ls : s1[i] = s[i])
      /\ \A i \in 1 .. E : s1[ls + i] = t[i]
  BY <1>c, Zenon DEF Joined
<1>e. CountedBy(ls + E, w1, k, top)
  <2>1. CountedBy(ls, w, k + 1, top) /\ E = Pow2[top - w[1].level]
    BY <1>2, <1>3, <1>5, <1>7, <1>8, Zenon
  <2>2. QED
    BY <2>1, <1>5, ShortenCounts, Zenon
<1>f. ASSUME NEW i \in 1 .. ls + E PROVE ShareAt(g, sm, ky, d, top, TRUE, s1[i])
  <2>1. CASE i \in 1 .. ls
    BY <2>1, <1>2, <1>d, Zenon
  <2>2. CASE ~ (i \in 1 .. ls)
    <3>1. i - ls \in 1 .. E /\ i = ls + (i - ls)
      BY <2>2
    <3>2. PICK j \in 1 .. E : i = ls + j
      BY <3>1
    <3>3. QED
      BY <3>2, <1>a, <1>d, Zenon
  <2>3. QED
    BY <2>1, <2>2
<1>g. \A i \in 1 .. k : w1[i] = w[i + 1]
  BY <1>5, Zenon DEF Shortened
<1>h. IsList(w1, k)
  BY <1>5, Zenon DEF Shortened
<1>i. ASSUME NEW i \in 1 .. k PROVE NodeOf(g, ky, d, TRUE, pt, w1[i])
  <2>1. i + 1 \in 1 .. m
    BY <1>3
  <2>2. QED
    BY <2>1, <1>2, <1>g, Zenon
<1>j. CoveredBy(s1, w1, top)
  <2>0. DOMAIN w = 1 .. m /\ DOMAIN w1 = 1 .. k /\ DOMAIN s = 1 .. ls /\ DOMAIN s1 = 1 .. ls + E
    BY <1>2, <1>d, <1>h, Zenon DEF IsList
  <2> SUFFICES ASSUME NEW p \in 0 .. Pow2[top] - 1
               PROVE  \/ \E i \in DOMAIN s1 : s1[i][1] = p
                      \/ \E i \in DOMAIN w1 : p % Pow2[w1[i].level] = w1[i].pos
    BY Zenon DEF CoveredBy
  <2>1. CASE \E i \in 1 .. ls : s[i][1] = p
    <3>1. PICK i \in 1 .. ls : s[i][1] = p
      BY <2>1
    <3>2. i \in 1 .. ls + E
      OBVIOUS
    <3>3. QED
      BY <2>0, <3>1, <3>2, <1>d, Zenon
  <2>2. CASE ~ \E i \in 1 .. ls : s[i][1] = p
    <3>1. PICK i \in 1 .. m : p % Pow2[w[i].level] = w[i].pos
      BY <2>0, <2>2, <1>2, Zenon DEF CoveredBy
    <3>2. CASE i = 1
      <4>1. p % Pow2[d] = a.pos
        BY <3>1, <3>2, <1>5, <1>7, Zenon
      <4>2. PICK j \in 1 .. Pow2[top - d] : p = (p % Pow2[d]) + (j - 1) * Pow2[d]
        BY LeafCovers
      <4>3. j \in 1 .. E /\ ls + j \in 1 .. ls + E
        BY <4>2, <1>8
      <4>4. t[j] = <<p, ShareVal(g, sm, ky, a, j - 1)>>
        BY <4>1, <4>2, <4>3, <1>9, Zenon
      <4>5. t[j][1] = p
        BY <4>4
      <4>6. s1[ls + j][1] = p
        BY <4>3, <4>5, <1>d, Zenon
      <4>7. QED
        BY <4>3, <4>6, <2>0, Zenon
    <3>3. CASE i # 1
      <4>1. i - 1 \in 1 .. k /\ i = (i - 1) + 1
        BY <3>3, <1>3
      <4>2. PICK j \in 1 .. k : i = j + 1
        BY <4>1
      <4>3. w1[j] = w[i]
        BY <4>2, <1>g, Zenon
      <4>4. QED
        BY <4>2, <4>3, <3>1, <2>0, Zenon
    <3>4. QED
      BY <3>2, <3>3
  <2>3. QED
    BY <2>1, <2>2
<1>k. EvalAt(g, sm, ky, d, top, TRUE, pt, w1, k, s1, ls + E)
  BY <1>d, <1>e, <1>f, <1>h, <1>i, <1>j, Zenon DEF EvalAt
<1>l. ls + E \in Nat
  OBVIOUS
<1>m. EvalOf(g, sm, ky, d, top, TRUE, pt, w1, s1)
  BY <1>k, <1>l, Zenon DEF EvalOf
<1>n. QED
  BY <1>5, <1>b, <1>m, Zenon

LEMMA OneList ==
  ASSUME NEW c
  PROVE  IsList(<<c>>, 1) /\ (<<c>>)[1] = c
  BY DEF IsList

\* A round of Eval, and its result.
LEMMA EvalInner ==
  ASSUME NEW g, NEW sm, NEW ky, NEW d \in Nat, NEW top \in Nat, NEW pt \in Nat, NEW w, NEW s, NEW a,
         EvalOf(g, sm, ky, d, top, FALSE, pt, w, s), w # <<>>, a = Head(w), a.level < d
  PROVE  EvalOf(g, sm, ky, d, top, FALSE, pt, <<Child(g, ky, a, GetBit(pt, a.level))>>, s)
<1>1. PICK m \in Nat, ls \in Nat : EvalAt(g, sm, ky, d, top, FALSE, pt, w, m, s, ls)
  BY Zenon DEF EvalOf
<1>2. /\ IsList(w, m) /\ IsList(s, ls)
      /\ \A i \in 1 .. m : NodeOf(g, ky, d, FALSE, pt, w[i])
      /\ \A i \in 1 .. ls : ShareAt(g, sm, ky, d, top, FALSE, s[i])
      /\ m <= 1
  BY <1>1, Zenon DEF EvalAt
<1>3. m = 0 + 1
  <2>1. m # 0
    BY <1>2, EmptyList
  <2>2. QED
    BY <2>1, <1>2
<1>4. a = w[1]
  <2>1. IsList(w, 0 + 1) /\ 0 \in Nat
    BY <1>2, <1>3, Zenon
  <2>2. QED
    BY <2>1, TailShortens, Zenon
<1>5. NodeOf(g, ky, d, FALSE, pt, a)
  <2>1. 1 \in 1 .. m
    BY <1>3
  <2>2. QED
    BY <2>1, <1>2, <1>4, Zenon
<1>6. PICK c : c = Child(g, ky, a, GetBit(pt, a.level)) /\ NodeOf(g, ky, d, FALSE, pt, c)
  BY <1>5, ChildOnWay, Zenon
<1>7. PICK w1 : w1 = <<c>> /\ IsList(w1, 1) /\ w1[1] = c
  BY OneList, Zenon
<1>8. \A i \in 1 .. 1 : NodeOf(g, ky, d, FALSE, pt, w1[i])
  <2>1. \A i \in 1 .. 1 : i = 1
    OBVIOUS
  <2>2. QED
    BY <2>1, <1>6, <1>7, Zenon
<1>9. 1 <= 1 /\ 1 \in Nat
  OBVIOUS
<1>a. EvalAt(g, sm, ky, d, top, FALSE, pt, w1, 1, s, ls)
  BY <1>2, <1>7, <1>8, <1>9, Zenon DEF EvalAt
<1>b. QED
  BY <1>6, <1>7, <1>9, <1>a, Zenon DEF EvalOf

LEMMA EvalLeaf ==
  ASSUME NEW g, NEW sm, NEW ky, NEW d \in Nat, NEW top \in Nat, NEW pt \in Nat, NEW w, NEW s, NEW a, NEW e,
         EvalOf(g, sm, ky, d, top, FALSE, pt, w, s), w # <<>>, a = Head(w), ~ (a.level < d),
         e = <<pt, ShareVal(g, sm, ky, a, 0)>>
  PROVE  EvalOf(g, sm, ky, d, top, FALSE, pt, <<>>, s \o <<e>>)
<1>1. PICK m \in Nat, ls \in Nat : EvalAt(g, sm, ky, d, top, FALSE, pt, w, m, s, ls)
  BY Zenon DEF EvalOf
<1>2. /\ IsList(w, m) /\ IsList(s, ls)
      /\ \A i \in 1 .. m : NodeOf(g, ky, d, FALSE, pt, w[i])
      /\ \A i \in 1 .. ls : ShareAt(g, sm, ky, d, top, FALSE, s[i])
      /\ m <= 1
  BY <1>1, Zenon DEF EvalAt
<1>3. m = 0 + 1
  <2>1. m # 0
    BY <1>2, EmptyList
  <2>2. QED
    BY <2>1, <1>2
<1>4. a = w[1]
  <2>1. IsList(w, 0 + 1) /\ 0 \in Nat
    BY <1>2, <1>3, Zenon
  <2>2. QED
    BY <2>1, TailShortens, Zenon
<1>5. NodeOf(g, ky, d, FALSE, pt, a)
  <2>1. 1 \in 1 .. m
    BY <1>3
  <2>2. QED
    BY <2>1, <1>2, <1>4, Zenon
<1>6. a.level = d
  BY <1>5 DEF NodeOf
<1>7. ShareAt(g, sm, ky, d, top, FALSE, e)
  BY <1>5, <1>6, PointShare, Zenon
<1>8. PICK t : t = <<e>> /\ IsList(t, 1) /\ t[1] = e
  BY OneList, Zenon
<1>9. PICK s1 : s1 = s \o t
  OBVIOUS
<1>a. Joined(s1, s, ls, t, 1)
  BY <1>2, <1>8, <1>9, ListConcat, Zenon, 1 \in Nat
<1>b. /\ IsList(s1, ls + 1) /\ (\A i \in 1 .. ls : s1[i] = s[i])
      /\ \A i \in 1 .. 1 : s1[ls + i] = t[i]
  BY <1>a, Zenon DEF Joined
<1>c. ASSUME NEW i \in 1 .. ls + 1 PROVE ShareAt(g, sm, ky, d, top, FALSE, s1[i])
  <2>1. CASE i \in 1 .. ls
    BY <2>1, <1>2, <1>b, Zenon
  <2>2. CASE ~ (i \in 1 .. ls)
    <3>1. i = ls + 1 /\ 1 \in 1 .. 1
      BY <2>2
    <3>2. QED
      BY <3>1, <1>7, <1>8, <1>b, Zenon
  <2>3. QED
    BY <2>1, <2>2
<1>d. PICK w1 : w1 = <<>>
  OBVIOUS
<1>e. IsList(w1, 0) /\ 0 <= 1 /\ 0 \in Nat /\ ls + 1 \in Nat
  BY <1>d DEF IsList
<1>f. \A i \in 1 .. 0 : NodeOf(g, ky, d, FALSE, pt, w1[i])
  OBVIOUS
<1>g. EvalAt(g, sm, ky, d, top, FALSE, pt, w1, 0, s1, ls + 1)
  BY <1>b, <1>c, <1>e, <1>f, Zenon DEF EvalAt
<1>h. EvalOf(g, sm, ky, d, top, FALSE, pt, w1, s1)
  BY <1>e, <1>g, Zenon DEF EvalOf
<1>i. QED
  BY <1>8, <1>9, <1>d, <1>h, Zenon

\* Where an evaluation starts.
LEMMA EvalStart ==
  ASSUME NEW g, NEW sm, NEW ky, NEW d \in Nat, NEW top \in Nat, NEW all \in BOOLEAN, NEW pt \in Nat,
         d <= top
  PROVE  EvalOf(g, sm, ky, d, top, all, pt, <<Root(ky)>>, <<>>)
<1>1. PICK a : a = Root(ky)
  OBVIOUS
<1>2. a.level = 0 /\ a.pos = 0
  BY <1>1 DEF Root
<1>3. Pow2[0] = 1
  BY Pow2Def
<1>4. a = PathTo(g, ky, d, 0)[0]
  <2>1. PICK p : p = 0
    OBVIOUS
  <2>2. Descends(PathTo(g, ky, d, p), g, ky, d, p)
    BY PathDef
  <2>3. QED
    BY <1>1, <2>1, <2>2, Zenon DEF Descends
<1>5. NodeOf(g, ky, d, all, pt, a)
  <2>1. 0 \in 0 .. d /\ 0 \in Nat /\ 0 < 1
    OBVIOUS
  <2>2. pt % 1 = 0
    BY Z3
  <2>3. QED
    BY <1>2, <1>3, <1>4, <2>1, <2>2, Zenon DEF NodeOf
<1>6. PICK w : w = <<a>> /\ IsList(w, 1) /\ w[1] = a
  BY OneList, Zenon
<1>7. PICK s : s = <<>>
  OBVIOUS
<1>8. IsList(s, 0) /\ 0 \in Nat /\ 1 \in Nat /\ 1 <= 1
  BY <1>7 DEF IsList
<1>9. \A i \in 1 .. 1 : i = 1
  OBVIOUS
<1>a. \A i \in 1 .. 1 : NodeOf(g, ky, d, all, pt, w[i])
  BY <1>5, <1>6, <1>9, Zenon
<1>b. \A i \in 1 .. 0 : ShareAt(g, sm, ky, d, top, all, s[i])
  OBVIOUS
<1>c. CoveredBy(s, w, top)
  <2> SUFFICES ASSUME NEW p \in 0 .. Pow2[top] - 1
               PROVE  \E i \in DOMAIN w : p % Pow2[w[i].level] = w[i].pos
    BY Zenon DEF CoveredBy
  <2>1. p \in Nat
    <3>1. Pow2[top] \in Nat
      BY PowerAt
    <3>2. QED
      BY <3>1
  <2>2. p % 1 = 0
    BY <2>1, Z3
  <2>3. p % Pow2[w[1].level] = w[1].pos
    BY <1>2, <1>3, <1>6, <2>2, Zenon
  <2>4. 1 \in DOMAIN w
    BY <1>6 DEF IsList
  <2>5. QED
    BY <2>3, <2>4, Zenon
<1>d. CountedBy(0, w, 1, top)
  <2>1. PICK N \in Nat : N = Pow2[top]
    BY PowerAt
  <2> DEFINE f == [i \in 1 .. 1 + 1 |-> IF i = 1 THEN 0 ELSE N]
  <2>2. f \in [1 .. 1 + 1 -> 0 .. N] /\ f[1] = 0 /\ f[1 + 1] = N /\ N = 0 + N
    OBVIOUS
  <2> HIDE DEF f
  <2>3. Pow2[top - w[1].level] = N
    <3>1. top - 0 = top
      OBVIOUS
    <3>2. QED
      BY <3>1, <2>1, <1>2, <1>6, Zenon
  <2>4. \A i \in 1 .. 1 : f[i + 1] = f[i] + Pow2[top - w[i].level]
    BY <2>2, <2>3, <1>9, Zenon
  <2>5. QED
    BY <2>1, <2>2, <2>4, Zenon DEF CountedBy
<1>e. EvalAt(g, sm, ky, d, top, all, pt, w, 1, s, 0)
  BY <1>6, <1>8, <1>a, <1>b, <1>c, <1>d, Zenon DEF EvalAt
<1>f. EvalOf(g, sm, ky, d, top, all, pt, w, s)
  BY <1>8, <1>e, Zenon DEF EvalOf
<1>g. QED
  BY <1>1, <1>6, <1>7, <1>f, Zenon

\* EvalAll: when nothing is left to visit, every position is put out once.
Complete(s, top) == Len(s) = Pow2[top] /\ {s[i][1] : i \in DOMAIN s} = 0 .. Pow2[top] - 1

LEMMA AllPositions ==
  ASSUME NEW g, NEW sm, NEW ky, NEW d \in Nat, NEW top \in Nat, NEW pt, NEW w, NEW s,
         EvalOf(g, sm, ky, d, top, TRUE, pt, w, s), w = <<>>
  PROVE  Complete(s, top)
<1>1. PICK m \in Nat, ls \in Nat : EvalAt(g, sm, ky, d, top, TRUE, pt, w, m, s, ls)
  BY Zenon DEF EvalOf
<1>2. /\ IsList(w, m) /\ IsList(s, ls)
      /\ \A i \in 1 .. ls : ShareAt(g, sm, ky, d, top, TRUE, s[i])
      /\ CoveredBy(s, w, top) /\ CountedBy(ls, w, m, top)
  BY <1>1, Zenon DEF EvalAt
<1>3. m = 0
  BY <1>2, EmptyList
<1>4. DOMAIN w = {} /\ DOMAIN s = 1 .. ls /\ Len(s) = ls
  <2>1. DOMAIN w = 1 .. 0
    BY <1>2, <1>3, Zenon DEF IsList
  <2>2. DOMAIN s = 1 .. ls /\ Len(s) = ls
    BY <1>2, ListSeq
  <2>3. QED
    BY <2>1, <2>2
<1>5. ls = Pow2[top]
  <2>1. PICK from : from[1] = ls /\ from[0 + 1] = Pow2[top]
    BY <1>2, <1>3, Zenon DEF CountedBy
  <2>2. QED
    BY <2>1
<1>6. PICK N \in Nat : N = Pow2[top]
  BY PowerAt
<1>7. ASSUME NEW i \in DOMAIN s PROVE s[i][1] \in 0 .. Pow2[top] - 1
  <2>1. ShareAt(g, sm, ky, d, top, TRUE, s[i])
    BY <1>2, <1>4, Zenon
  <2>2. s[i][1] \in Nat /\ s[i][1] < Pow2[top]
    BY <2>1, Zenon DEF ShareAt
  <2>3. QED
    BY <2>2, <1>6
<1>8. ASSUME NEW p \in 0 .. Pow2[top] - 1 PROVE \E i \in DOMAIN s : s[i][1] = p
  BY <1>2, <1>4, Zenon DEF CoveredBy
<1>9. {s[i][1] : i \in DOMAIN s} = 0 .. Pow2[top] - 1
  BY <1>7, <1>8, Zenon
<1>a. QED
  BY <1>4, <1>5, <1>9, Zenon DEF Complete

-----------------------------------------------------------------------------
(* The two parties: their nodes on a way, and the sum of their shares.     *)

LEMMA SamePos ==
  ASSUME NEW p \in Nat, NEW o \in Nat, NEW m \in Nat \ {0}, p \div m = o \div m, p % m = o % m
  PROVE  p = o
<1>1. p \in Int /\ o \in Int
  OBVIOUS
<1>2. p = (p \div m) * m + (p % m) /\ o = (o \div m) * m + (o % m)
  BY <1>1, Euclid
<1>3. QED
  BY <1>2, Zenon

\* The results at alpha are those on the path to alpha, of alpha's piece.
LEMMA AtAlpha ==
  ASSUME NEW p \in Nat, NEW al \in Nat, NEW d \in Nat, NEW top \in Nat, NEW all \in BOOLEAN,
         ~all => d = top, all => p < Pow2[top], al < Pow2[top]
  PROVE  p % Pow2[top] = al <=>
           /\ p % Pow2[d] = al % Pow2[d]
           /\ ~all \/ p \div Pow2[d] = al \div Pow2[d]
<1>1. PICK D \in Nat \ {0}, N \in Nat \ {0} : D = Pow2[d] /\ N = Pow2[top]
  BY PowerAt
<1>2. al % N = al
  BY <1>1, SmallMod
<1>3. CASE ~all
  BY <1>1, <1>2, <1>3, Zenon
<1>4. CASE all
  <2>1. p % N = p
    BY <1>1, <1>4, SmallMod
  <2>2. p \div D = al \div D /\ p % D = al % D => p = al
    BY SamePos
  <2>3. QED
    BY <1>1, <1>4, <2>1, <2>2, Zenon
<1>5. QED
  BY <1>3, <1>4

LEMMA PieceRange ==
  ASSUME NEW d \in Nat, NEW top \in Nat, NEW p \in Nat, d <= top, p < Pow2[top]
  PROVE  p \div Pow2[d] \in 0 .. Pow2[top - d] - 1
<1>1. PICK e \in Nat : e = top - d /\ d + e = top
  OBVIOUS
<1>2. PICK D \in Nat \ {0}, E \in Nat \ {0} : D = Pow2[d] /\ E = Pow2[e]
  BY PowerAt
<1>3. Pow2[top] = D * E
  <2>1. Pow2[d] * Pow2[e] = Pow2[d + e]
    BY PowerSum
  <2>2. QED
    BY <1>1, <1>2, <2>1, Zenon
<1>4. PICK y \in Nat : y = D * E
  OBVIOUS
<1>5. PICK c \in Nat : c = p \div D
  BY EuclidNat
<1>6. p \in Int
  OBVIOUS
<1>7. PICK r \in Nat : r = p % D
  BY <1>6, Euclid
<1>8. p = c * D + r
  BY <1>5, <1>6, <1>7, Euclid
<1>9. PICK z \in Nat : z = c * D
  OBVIOUS
<1>a. c < E
  <2>1. z < y
    BY <1>3, <1>4, <1>8, <1>9
  <2>2. c >= E => c * D >= D * E
    BY Z3
  <2>3. QED
    BY <2>1, <2>2, <1>4, <1>9
<1>b. c \in 0 .. E - 1
  BY <1>a
<1>c. QED
  BY <1>1, <1>2, <1>5, <1>b, Zenon

LEMMA PathBool ==
  ASSUME NEW g, NEW ky, NEW d \in Nat, NEW p, NEW l \in 0 .. d
  PROVE  PathTo(g, ky, d, p)[l].t \in BOOLEAN
<1>1. Descends(PathTo(g, ky, d, p), g, ky, d, p)
  BY PathDef
<1>2. PICK f : f = PathTo(g, ky, d, p) /\ Descends(f, g, ky, d, p)
  BY <1>1, Zenon
<1>3. f[0] = Root(ky) /\ \A i \in 0 .. d - 1 : f[i + 1] = Child(g, ky, f[i], GetBit(p, i))
  BY <1>2, Zenon DEF Descends
<1>4. CASE l = 0
  <2>1. Root(ky).t = (ky.rank = 1)
    BY DEF Root
  <2>2. (ky.rank = 1) \in BOOLEAN
    OBVIOUS
  <2>3. QED
    BY <1>2, <1>3, <1>4, <2>1, <2>2, Zenon
<1>5. CASE l # 0
  <2>1. l - 1 \in 0 .. d - 1 /\ l = (l - 1) + 1
    BY <1>5
  <2>2. PICK nd, b : f[l] = Child(g, ky, nd, b)
    BY <1>3, <2>1, Zenon
  <2>3. Child(g, ky, nd, b).t = CorrT(g, ky.cws_vec[nd.level + 1], nd.seed, nd.t, b)
    BY ChildIs
  <2>4. CorrT(g, ky.cws_vec[nd.level + 1], nd.seed, nd.t, b) \in BOOLEAN
    BY Zenon DEF CorrT
  <2>5. QED
    BY <1>2, <2>2, <2>3, <2>4, Zenon
<1>6. QED
  BY <1>4, <1>5

\* The words at the end of a key.
Words(wd, g, sm, al, be, d, top, all, e) ==
  \A i \in 0 .. (IF all THEN Pow2[top - d] ELSE 1) - 1 :
    wd[i + 1] = WordFor(IF ~all \/ i = al \div Pow2[d] THEN be ELSE 0,
                        PrgChain(g, e.seed[0], i), PrgChain(g, e.seed[1], i), e.t[1], sm)

LEMMA ChainNat ==
  ASSUME NEW g, NEW s, NEW i
  PROVE  PrgChain(g, s, i) \in Nat
  BY SeedNumNat DEF PrgChain

\* What Gen has prepared, and the two keys it hands out.
Keyed(g, sm, al, be, d, top, all, tr, cws, k0, k1) ==
  /\ Prepared(g, al, d, tr, cws) /\ HasKey(k0, 0, tr, cws) /\ HasKey(k1, 1, tr, cws)
  /\ k0.rank = 0 /\ k1.rank = 1 /\ k1.last_cw_vec = k0.last_cw_vec
  /\ Words(k0.last_cw_vec, g, sm, al, be, d, top, all, tr[d + 1])

\* The two results at a position add up to the point function.
AddUp(e0, e1, sm, top, al, be) ==
  (e0[2] + e1[2]) % sm = (IF e0[1] % Pow2[top] = al THEN be ELSE 0) % sm

LEMMA SharesSum ==
  ASSUME NEW g, NEW sm \in Nat \ {0}, NEW al \in Nat, NEW be \in Nat, NEW d \in Nat, NEW top \in Nat,
         NEW all \in BOOLEAN, NEW tr, NEW cws, NEW k0, NEW k1, NEW e0, NEW e1,
         IsGen(g), Keyed(g, sm, al, be, d, top, all, tr, cws, k0, k1), d <= top, ~all => d = top,
         al < Pow2[top], ShareAt(g, sm, k0, d, top, all, e0), ShareAt(g, sm, k1, d, top, all, e1),
         e0[1] = e1[1]
  PROVE  AddUp(e0, e1, sm, top, al, be)
<1>1. PICK p \in Nat : p = e0[1] /\ p = e1[1] /\ (all => p < Pow2[top])
  BY Zenon DEF ShareAt
<1>2. PICK i : i = IF all THEN p \div Pow2[d] ELSE 0
  OBVIOUS
<1>3. i \in 0 .. (IF all THEN Pow2[top - d] ELSE 1) - 1
  <2>1. CASE all
    <3>1. p \div Pow2[d] \in 0 .. Pow2[top - d] - 1
      BY <1>1, <2>1, PieceRange
    <3>2. QED
      BY <1>2, <2>1, <3>1, Zenon
  <2>2. CASE ~all
    <3>1. 0 \in 0 .. 1 - 1
      OBVIOUS
    <3>2. QED
      BY <1>2, <2>2, <3>1, Zenon
  <2>3. QED
    BY <2>1, <2>2
<1>4. PICK a, b : a = PathTo(g, k0, d, p)[d] /\ b = PathTo(g, k1, d, p)[d]
  OBVIOUS
<1>5. PICK e : e = tr[d + 1]
  OBVIOUS
<1>6. PICK wd, w : wd = k0.last_cw_vec /\ w = wd[i + 1]
  OBVIOUS
<1>7. PICK u : u = IF ~all \/ i = al \div Pow2[d] THEN be ELSE 0
  OBVIOUS
<1>8. u \in Nat
  BY <1>7
<1>9. w = WordFor(u, PrgChain(g, e.seed[0], i), PrgChain(g, e.seed[1], i), e.t[1], sm)
  BY <1>3, <1>5, <1>6, <1>7, Zenon DEF Keyed, Words
<1>a. /\ e0 = <<p, ShareVal(g, sm, k0, a, i)>> /\ e1 = <<p, ShareVal(g, sm, k1, b, i)>>
  BY <1>1, <1>2, <1>4, Zenon DEF ShareAt
<1>b. e0[2] = ShareVal(g, sm, k0, a, i) /\ e1[2] = ShareVal(g, sm, k1, b, i)
  BY <1>a
<1>c. /\ e0[2] = ShareFor(0, PrgChain(g, a.seed, i), a.t, w, sm)
      /\ e1[2] = ShareFor(1, PrgChain(g, b.seed, i), b.t, w, sm)
  BY <1>6, <1>b, Zenon DEF ShareVal, Keyed
<1>d. PICK on \in BOOLEAN : on <=> p % Pow2[d] = al % Pow2[d]
  OBVIOUS
<1>e. Agree(a, b, e, p % Pow2[d] = al % Pow2[d])
  <2>0. PICK k \in 0 .. d : k = d
    OBVIOUS
  <2>1. Prepared(g, al, d, tr, cws) /\ HasKey(k0, 0, tr, cws) /\ HasKey(k1, 1, tr, cws)
    BY Zenon DEF Keyed
  <2>2. Agree(PathTo(g, k0, d, p)[k], PathTo(g, k1, d, p)[k], tr[k + 1], p % Pow2[k] = al % Pow2[k])
    BY <2>1, PathsAgree, Zenon
  <2>3. QED
    BY <2>0, <2>2, <1>4, <1>5, Zenon
<1>f. p % Pow2[top] = al <=> /\ p % Pow2[d] = al % Pow2[d]
                             /\ ~all \/ p \div Pow2[d] = al \div Pow2[d]
  BY <1>1, AtAlpha
<1>g. TrailTyped(e)
  <2>1. d + 1 \in 1 .. d + 1
    OBVIOUS
  <2>2. QED
    BY <2>1, <1>5, Zenon DEF Keyed, Prepared
<1>h. CASE p % Pow2[d] = al % Pow2[d]
  <2>1. OnTrail(a, b, e)
    BY <1>e, <1>h, Zenon DEF Agree
  <2>2. PICK t0 \in BOOLEAN, t1 \in BOOLEAN : t0 = e.t[0] /\ t1 = e.t[1] /\ t0 # t1
    BY <1>g, Zenon DEF TrailTyped, Ranks
  <2>3. PICK c0 \in Nat, c1 \in Nat : c0 = PrgChain(g, e.seed[0], i) /\ c1 = PrgChain(g, e.seed[1], i)
    BY ChainNat, Zenon
  <2>4. e0[2] = ShareFor(0, c0, t0, w, sm) /\ e1[2] = ShareFor(1, c1, t1, w, sm)
    BY <1>c, <2>1, <2>2, <2>3, Zenon DEF OnTrail
  <2>5. w = WordFor(u, c0, c1, t1, sm)
    BY <1>9, <2>2, <2>3, Zenon
  <2>6. (ShareFor(0, c0, t0, w, sm) + ShareFor(1, c1, t1, w, sm)) % sm = u % sm
    BY <1>8, <2>2, <2>5, SharesOnPath
  <2>7. u = IF p % Pow2[top] = al THEN be ELSE 0
    <3>1. CASE all
      BY <1>2, <1>7, <1>f, <1>h, <3>1, Zenon
    <3>2. CASE ~all
      BY <1>7, <1>f, <1>h, <3>2, Zenon
    <3>3. QED
      BY <3>1, <3>2
  <2>8. QED
    BY <1>1, <2>4, <2>6, <2>7, Zenon DEF AddUp
<1>i. CASE ~ (p % Pow2[d] = al % Pow2[d])
  <2>1. Alike(a, b)
    BY <1>e, <1>i, Zenon DEF Agree
  <2>2. PICK t \in BOOLEAN : t = a.t /\ t = b.t
    <3>0. PICK k \in 0 .. d : k = d
      OBVIOUS
    <3>1. PathTo(g, k0, d, p)[k].t \in BOOLEAN
      BY PathBool, Zenon
    <3>2. QED
      BY <3>0, <3>1, <1>4, <2>1, Zenon DEF Alike
  <2>3. PICK c \in Nat : c = PrgChain(g, a.seed, i) /\ c = PrgChain(g, b.seed, i)
    BY ChainNat, <2>1, Zenon DEF Alike
  <2>4. e0[2] = ShareFor(0, c, t, w, sm) /\ e1[2] = ShareFor(1, c, t, w, sm)
    BY <1>c, <2>2, <2>3, Zenon
  <2>5. w \in Nat
    <3>1. PICK t1 \in BOOLEAN : t1 = e.t[1]
      BY <1>g, Zenon DEF TrailTyped, Ranks
    <3>2. PICK c0 \in Nat, c1 \in Nat : c0 = PrgChain(g, e.seed[0], i) /\ c1 = PrgChain(g, e.seed[1], i)
      BY ChainNat, Zenon
    <3>3. WordFor(u, c0, c1, t1, sm) \in Nat
      BY <1>8, WordTyped2
    <3>4. QED
      BY <1>9, <3>1, <3>2, <3>3, Zenon
  <2>6. (ShareFor(0, c, t, w, sm) + ShareFor(1, c, t, w, sm)) % sm = 0 % sm
    BY <2>5, SharesOffPath, ZenonT(60)
  <2>7. p % Pow2[top] # al
    BY <1>f, <1>i
  <2>8. QED
    BY <1>1, <2>4, <2>6, <2>7, Zenon DEF AddUp
<1>j. QED
  BY <1>h, <1>i

\* Where the two parties look at the same node.
Meet(a, b, al, tr) ==
  IF a.pos = al % Pow2[a.level]
  THEN /\ a.seed = tr[a.level + 1].seed[0] /\ b.seed = tr[a.level + 1].seed[1]
       /\ a.t # b.t
  ELSE a.seed = b.seed /\ a.t = b.t

LEMMA NodesMeet ==
  ASSUME NEW g, NEW al \in Nat, NEW d \in Nat, NEW all \in BOOLEAN, NEW pt \in Nat, NEW tr, NEW cws,
         NEW k0, NEW k1, NEW a, NEW b, IsGen(g),
         Prepared(g, al, d, tr, cws), HasKey(k0, 0, tr, cws), HasKey(k1, 1, tr, cws),
         NodeOf(g, k0, d, all, pt, a), NodeOf(g, k1, d, all, pt, b), a.level = b.level, a.pos = b.pos
  PROVE  Meet(a, b, al, tr)
<1>1. PICK l \in 0 .. d, p \in Nat : l = a.level /\ p = a.pos
  BY Zenon DEF NodeOf
<1>2. a = PathTo(g, k0, d, p)[l] /\ b = PathTo(g, k1, d, p)[l]
  BY <1>1, Zenon DEF NodeOf
<1>3. Agree(a, b, tr[l + 1], p % Pow2[l] = al % Pow2[l])
  <2>1. Agree(PathTo(g, k0, d, p)[l], PathTo(g, k1, d, p)[l], tr[l + 1], p % Pow2[l] = al % Pow2[l])
    BY PathsAgree, Zenon
  <2>2. QED
    BY <1>2, <2>1, Zenon
<1>4. l \in Nat
  OBVIOUS
<1>5. PICK m \in Nat \ {0} : m = Pow2[l]
  BY <1>4, PowerAt
<1>6. p % m = p
  <2>1. CASE all
    <3>1. p < m
      BY <1>1, <1>5, <2>1, Zenon DEF NodeOf
    <3>2. QED
      BY <3>1, SmallMod
  <2>2. CASE ~all
    <3>1. p = pt % m
      BY <1>1, <1>5, <2>2, Zenon DEF NodeOf
    <3>2. (pt % m) % m = pt % m
      BY ModTwice
    <3>3. QED
      BY <3>1, <3>2, Zenon
  <2>3. QED
    BY <2>1, <2>2
<1>7. PICK e : e = tr[l + 1]
  OBVIOUS
<1>8. TrailTyped(e)
  <2>1. l + 1 \in 1 .. d + 1
    OBVIOUS
  <2>2. QED
    BY <2>1, <1>7, Zenon DEF Prepared
<1>9. CASE p = al % Pow2[l]
  <2>1. OnTrail(a, b, e)
    BY <1>3, <1>5, <1>6, <1>7, <1>9, Zenon DEF Agree
  <2>2. e.t[0] # e.t[1]
    BY <1>8, Zenon DEF TrailTyped
  <2>3. QED
    BY <1>1, <1>7, <1>9, <2>1, <2>2, Zenon DEF OnTrail, Meet
<1>a. CASE p # al % Pow2[l]
  <2>1. Alike(a, b)
    BY <1>3, <1>5, <1>6, <1>a, Zenon DEF Agree
  <2>2. QED
    BY <1>1, <1>a, <2>1, Zenon DEF Alike, Meet
<1>b. QED
  BY <1>9, <1>a

\* The invariant of Gen, of constants.
GenPure(top, b, al, be, all, g, m, k, d, cws, tr, s, t) ==
  /\ top \in Nat \ {0} /\ b \in 1 .. 64 /\ al \in Nat /\ be \in Nat /\ all \in BOOLEAN
  /\ g \in Prgs /\ m \in MasterKeys /\ k \in 0 .. d
  /\ tr[1] = [seed |-> m, t |-> [r \in Ranks |-> r = 1]]
  /\ GenMade(g, al, k, tr, cws, s, t)

LEMMA GenInvPure ==
  ASSUME GenInv
  PROVE  GenPure(in_bitnum, ss_bitnum, alpha, beta, enable_evalall, prg, mk, glevel,
                 GetTerminateLevel, cws_vec, trail, seeds_working, t_working)
<1>1. /\ in_bitnum \in Nat \ {0} /\ ss_bitnum \in 1 .. 64 /\ alpha \in Nat /\ beta \in Nat
      /\ enable_evalall \in BOOLEAN /\ prg \in Prgs /\ mk \in MasterKeys
      /\ glevel \in 0 .. GetTerminateLevel
      /\ trail[1] = [seed |-> mk, t |-> [r \in Ranks |-> r = 1]]
      /\ trail[glevel + 1] = [seed |-> seeds_working, t |-> t_working]
  BY Zenon DEF GenInv
<1>2. IsList(cws_vec, glevel) /\ IsList(trail, glevel + 1)
  BY Zenon DEF GenInv, IsList
<1>3. \A k \in 1 .. glevel + 1 : TrailTyped(trail[k])
  BY Zenon DEF GenInv, TrailInv, TrailTyped, Seed
<1>4. \A k \in 1 .. glevel : LevelMade(prg, alpha, k, trail[k], cws_vec[k], trail[k + 1])
  BY Zenon DEF GenInv, LevelMade
<1>5. QED
  BY <1>1, <1>2, <1>3, <1>4, Zenon DEF GenPure, GenMade, Prepared

LEMMA GenPureInv ==
  ASSUME GenPure(in_bitnum, ss_bitnum, alpha, beta, enable_evalall, prg, mk, glevel,
                 GetTerminateLevel, cws_vec, trail, seeds_working, t_working)'
  PROVE  GenInv'
<1>1. /\ in_bitnum' \in Nat \ {0} /\ ss_bitnum' \in 1 .. 64 /\ alpha' \in Nat /\ beta' \in Nat
      /\ enable_evalall' \in BOOLEAN /\ prg' \in Prgs /\ mk' \in MasterKeys
      /\ glevel' \in 0 .. GetTerminateLevel'
      /\ trail'[1] = [seed |-> mk', t |-> [r \in Ranks |-> r = 1]]
      /\ trail'[glevel' + 1] = [seed |-> seeds_working', t |-> t_working']
  BY Zenon DEF GenPure, GenMade
<1>2. cws_vec' = [k \in 1 .. glevel' |-> cws_vec'[k]] /\ trail' = [k \in 1 .. glevel' + 1 |-> trail'[k]]
  BY Zenon DEF GenPure, GenMade, IsList
<1>3. \A k \in 1 .. glevel' + 1 : TrailInv(k)'
  BY Zenon DEF GenPure, GenMade, Prepared, TrailInv, TrailTyped, Seed
<1>4. \A k \in 1 .. glevel' :
       LET next == Corrected(prg', GetBit(alpha', k - 1), trail'[k].seed, trail'[k].t)
       IN  cws_vec'[k] = next.cw /\ trail'[k + 1] = [seed |-> next.seed, t |-> next.t]
  BY Zenon DEF GenPure, GenMade, Prepared, LevelMade
<1>5. QED
  BY <1>1, <1>2, <1>3, <1>4, Zenon DEF GenInv

LEMMA ShareOfIs ==
  ASSUME NEW ky, NEW nd, NEW i
  PROVE  ShareOf(ky, nd, i) = ShareVal(prg, Pow2[ss_bitnum], ky, nd, i)
  BY Zenon DEF ShareOf, ShareVal, ShareFor, Rev, TruncateSs, ReverseSs

LEMMA EvalInvOf ==
  ASSUME NEW r \in Ranks, EvalInv(r), enable_evalall \in BOOLEAN
  PROVE  EvalOf(prg, Pow2[ss_bitnum], keys[r], GetTerminateLevel, in_bitnum, enable_evalall, x,
                walk[r], shares[r])
<1>1. PICK w, s, ky, g, d, all, pt, top, sm :
        /\ w = walk[r] /\ s = shares[r] /\ ky = keys[r] /\ g = prg /\ d = GetTerminateLevel
        /\ all = enable_evalall /\ pt = x /\ top = in_bitnum /\ sm = Pow2[ss_bitnum]
  OBVIOUS
<1>2. PICK m \in Nat : m = Len(w) /\ IsList(w, m) /\ DOMAIN w = 1 .. m
  <2>1. w \in Seq(Range(w))
    BY <1>1, Zenon DEF EvalInv
  <2>2. Len(w) \in Nat /\ IsList(w, Len(w))
    BY <2>1, SeqList
  <2>3. QED
    BY <2>2, Zenon DEF IsList
<1>3. PICK ls \in Nat : ls = Len(s) /\ IsList(s, ls) /\ DOMAIN s = 1 .. ls
  <2>1. s \in Seq(Range(s))
    BY <1>1, Zenon DEF EvalInv
  <2>2. Len(s) \in Nat /\ IsList(s, Len(s))
    BY <2>1, SeqList
  <2>3. QED
    BY <2>2, Zenon DEF IsList
<1>4. ASSUME NEW i \in 1 .. m PROVE NodeOf(g, ky, d, all, pt, w[i])
  BY <1>1, <1>2, <1>4, Zenon DEF EvalInv, WalkInv, NodeOf, NodeAt
<1>5. ASSUME NEW i \in 1 .. ls PROVE ShareAt(g, sm, ky, d, top, all, s[i])
  <2>1. PICK p \in Nat : p = s[i][1] /\ (all => p < Pow2[top]) /\
           s[i] = <<p, ShareOf(ky, PathTo(g, ky, d, p)[d], IF all THEN p \div Pow2[d] ELSE 0)>>
    BY <1>1, <1>3, <1>5, Zenon DEF EvalInv, ShareInv, NodeAt, PieceOf
  <2>2. s[i] = <<p, ShareVal(g, sm, ky, PathTo(g, ky, d, p)[d], IF all THEN p \div Pow2[d] ELSE 0)>>
    BY <1>1, <2>1, ShareOfIs, Zenon
  <2>3. QED
    BY <2>1, <2>2, Zenon DEF ShareAt
<1>6. all => CoveredBy(s, w, top) /\ CountedBy(ls, w, m, top)
  BY <1>1, <1>2, <1>3, Zenon DEF EvalInv, Covered, Counted, CoveredBy, CountedBy
<1>7. ~all => m <= 1
  BY <1>1, <1>2, Zenon DEF EvalInv
<1>8. EvalAt(g, sm, ky, d, top, all, pt, w, m, s, ls)
  BY <1>2, <1>3, <1>4, <1>5, <1>6, <1>7, Zenon DEF EvalAt
<1>9. QED
  BY <1>1, <1>8, Zenon DEF EvalOf

LEMMA EvalOfInv ==
  ASSUME NEW r \in Ranks, enable_evalall' \in BOOLEAN,
         EvalOf(prg', Pow2[ss_bitnum'], keys'[r], GetTerminateLevel', in_bitnum', enable_evalall', x',
                walk'[r], shares'[r])
  PROVE  EvalInv(r)'
<1>1. PICK w, s, ky, g, d, all, pt, top, sm :
        /\ w = walk'[r] /\ s = shares'[r] /\ ky = keys'[r] /\ g = prg' /\ d = GetTerminateLevel'
        /\ all = enable_evalall' /\ pt = x' /\ top = in_bitnum' /\ sm = Pow2[ss_bitnum']
  OBVIOUS
<1>2. PICK m \in Nat, ls \in Nat : EvalAt(g, sm, ky, d, top, all, pt, w, m, s, ls)
  BY <1>1, Zenon DEF EvalOf
<1>3. /\ IsList(w, m) /\ IsList(s, ls)
      /\ \A i \in 1 .. m : NodeOf(g, ky, d, all, pt, w[i])
      /\ \A i \in 1 .. ls : ShareAt(g, sm, ky, d, top, all, s[i])
      /\ IF all THEN CoveredBy(s, w, top) /\ CountedBy(ls, w, m, top) ELSE m <= 1
  BY <1>2, Zenon DEF EvalAt
<1>4. /\ DOMAIN w = 1 .. m /\ w \in Seq(Range(w)) /\ Len(w) = m
  BY <1>3, ListSeq
<1>5. /\ DOMAIN s = 1 .. ls /\ s \in Seq(Range(s)) /\ Len(s) = ls
  BY <1>3, ListSeq
<1>6. WalkInv(r)'
  BY <1>1, <1>3, <1>4, Zenon DEF WalkInv, NodeOf, NodeAt
<1>7. ShareInv(r)'
  <2>1. ASSUME NEW i \in 1 .. ls
        PROVE  /\ s[i][1] \in Nat /\ (all => s[i][1] < Pow2[top])
               /\ s[i] = <<s[i][1], ShareOf(ky, PathTo(g, ky, d, s[i][1])[d],
                                        IF all THEN s[i][1] \div Pow2[d] ELSE 0)'>>
    <3>1. ShareAt(g, sm, ky, d, top, all, s[i])
      BY <1>3, Zenon
    <3>2. PICK j, nd : /\ nd = PathTo(g, ky, d, s[i][1])[d]
                       /\ j = IF all THEN s[i][1] \div Pow2[d] ELSE 0
      OBVIOUS
    <3>3. ShareVal(g, sm, ky, nd, j) = ShareOf(ky, nd, j)'
      BY <1>1, Zenon DEF ShareOf, ShareVal, ShareFor, Rev, TruncateSs, ReverseSs
    <3>4. QED
      BY <3>1, <3>2, <3>3, Zenon DEF ShareAt
  <2>2. QED
    BY <1>1, <1>5, <2>1, Zenon DEF ShareInv, NodeAt, PieceOf
<1>8. ASSUME all PROVE Covered(r)' /\ Counted(r)'
  <2>1. CoveredBy(s, w, top) /\ CountedBy(Len(s), w, Len(w), top)
    BY <1>3, <1>4, <1>5, <1>8, Zenon
  <2>2. Covered(r)'
    BY <1>1, <2>1, Zenon DEF Covered, CoveredBy
  <2>3. DOMAIN w = 1 .. Len(w)
    BY <1>4, Zenon
  <2>4. PICK from \in [1 .. Len(w) + 1 -> 0 .. Pow2[top]] :
          /\ from[1] = Len(s) /\ from[Len(w) + 1] = Pow2[top]
          /\ \A i \in DOMAIN w : from[i + 1] = from[i] + Pow2[top - w[i].level]
    BY <2>1, <2>3, Zenon DEF CountedBy
  <2>5. Counted(r)'
    BY <1>1, <2>4, Zenon DEF Counted
  <2>6. QED
    BY <2>2, <2>5
<1>9. ~all => Len(w) <= 1
  BY <1>3, <1>4, Zenon
<1>a. QED
  BY <1>1, <1>4, <1>5, <1>6, <1>7, <1>8, <1>9, Zenon DEF EvalInv

-----------------------------------------------------------------------------
(* The steps of the point function.                                        *)

LEMMA DpfInitInv ==
  ASSUME DpfInit
  PROVE  DpfInv
<1>1. /\ in_bitnum \in InBits /\ ss_bitnum \in SsBits /\ alpha \in Points
      /\ beta \in Betas /\ enable_evalall \in BOOLEAN /\ prg \in Prgs /\ mk \in MasterKeys
      /\ glevel = 0 /\ seeds_working = mk /\ t_working = [r \in Ranks |-> r = 1]
      /\ cws_vec = <<>> /\ last_cw_vec = <<>>
      /\ trail = <<[seed |-> seeds_working, t |-> t_working]>>
      /\ walk = [r \in Ranks |-> <<>>] /\ shares = [r \in Ranks |-> <<>>]
  BY Zenon DEF DpfInit
<1>2. /\ in_bitnum \in Nat \ {0} /\ ss_bitnum \in 1 .. 64 /\ beta \in Nat
  BY <1>1, DpfAssumption
<1>3. alpha \in Nat
  BY <1>1, DpfAssumption
<1>4. 0 \in 0 .. GetTerminateLevel
  <2>1. in_bitnum \in Nat
    BY <1>2
  <2>2. GetTerminateLevel \in Nat
    BY <1>1, <1>2, <2>1, LevelRange
  <2>3. QED
    BY <2>2
<1>5. PICK e : e = [seed |-> mk, t |-> [r \in Ranks |-> r = 1]]
  OBVIOUS
<1>6. trail = <<e>> /\ e = [seed |-> seeds_working, t |-> t_working]
  BY <1>1, <1>5, Zenon
<1>7. IsList(trail, 1) /\ trail[1] = e
  BY <1>6, OneList, Zenon
<1>8. IsList(cws_vec, 0)
  BY <1>1 DEF IsList
<1>9. 0 + 1 = 1 /\ (\A k \in 1 .. 1 : k = 1) /\ 1 .. 0 = {}
  OBVIOUS
<1>a. TrailInv(1)
  <2>1. e.seed = mk /\ e.t = [r \in Ranks |-> r = 1]
    BY <1>5
  <2>2. \A r \in Ranks : mk[r] \subseteq SeedBits
    BY <1>1, DpfAssumption
  <2>3. PICK t : t = e.t
    OBVIOUS
  <2>4. t[0] # t[1] /\ \A r \in Ranks : t[r] \in BOOLEAN
    <3>1. \A r \in Ranks : t[r] = (r = 1)
      BY <2>1, <2>3, Zenon
    <3>2. t[0] = (0 = 1) /\ t[1] = (1 = 1)
      BY <3>1, Zenon DEF Ranks
    <3>3. 0 # 1
      OBVIOUS
    <3>4. QED
      BY <3>1, <3>2, <3>3, Zenon
  <2>5. QED
    BY <2>1, <2>2, <2>3, <2>4, <1>7, Zenon DEF TrailInv
<1>b. /\ cws_vec = [k \in 1 .. glevel |-> cws_vec[k]]
      /\ trail = [k \in 1 .. glevel + 1 |-> trail[k]]
  BY <1>1, <1>7, <1>8, <1>9, Zenon DEF IsList
<1>c. /\ trail[1] = [seed |-> mk, t |-> [r \in Ranks |-> r = 1]]
      /\ trail[glevel + 1] = [seed |-> seeds_working, t |-> t_working]
  BY <1>1, <1>5, <1>6, <1>7, <1>9, Zenon
<1>d. \A k \in 1 .. glevel + 1 : TrailInv(k)
  BY <1>1, <1>9, <1>a, Zenon
<1>e. \A k \in 1 .. glevel : FALSE
  BY <1>1, <1>9, Zenon
<1>f. GenInv
  BY <1>1, <1>2, <1>3, <1>4, <1>b, <1>c, <1>d, <1>e, Zenon DEF GenInv
<1>g. walk = [r \in Ranks |-> walk[r]] /\ shares = [r \in Ranks |-> shares[r]]
  BY <1>1
<1>h. \A r \in Ranks : walk[r] = <<>> /\ shares[r] = <<>>
  BY <1>1
<1>i. QED
  BY <1>1, <1>f, <1>g, <1>h, Zenon DEF DpfInv

\* The parameters stay, and with them the last level.
LEMMA SameLevel ==
  ASSUME UNCHANGED params
  PROVE  /\ in_bitnum' = in_bitnum /\ ss_bitnum' = ss_bitnum /\ alpha' = alpha /\ beta' = beta
         /\ enable_evalall' = enable_evalall /\ prg' = prg /\ mk' = mk /\ wrapped' = wrapped
         /\ GetTerminateLevel' = GetTerminateLevel
         /\ \A i \in Ranks : CanEval(i)' <=> CanEval(i)
<1>1. /\ in_bitnum' = in_bitnum /\ ss_bitnum' = ss_bitnum /\ alpha' = alpha /\ beta' = beta
      /\ enable_evalall' = enable_evalall /\ prg' = prg /\ mk' = mk /\ wrapped' = wrapped
  BY DEF params
<1>2. \A i : LevelOf(i)' = LevelOf(i)
  BY <1>1, Zenon DEF LevelOf, FloorLog
<1>3. GetTerminateLevel' = GetTerminateLevel
  BY <1>2, Zenon DEF GetTerminateLevel
<1>4. \A i \in Ranks : CanEval(i)' <=> CanEval(i)
  BY <1>1, <1>2, <1>3, Zenon DEF CanEval
<1>5. QED
  BY <1>1, <1>3, <1>4

LEMMA GenLevelKeeps ==
  ASSUME DpfInv, GenLevel
  PROVE  DpfInv'
<1>1. GenInv
  BY Zenon DEF DpfInv
<1>2. /\ glevel < GetTerminateLevel /\ last_cw_vec = <<>> /\ glevel' = glevel + 1
      /\ UNCHANGED params /\ last_cw_vec' = last_cw_vec /\ walk' = walk /\ shares' = shares
  BY Zenon DEF GenLevel
<1>3. PICK nx : nx = Corrected(prg, GetBit(alpha, glevel), seeds_working, t_working)
  OBVIOUS
<1>4. PICK e : e = [seed |-> nx.seed, t |-> nx.t]
  OBVIOUS
<1>5. /\ seeds_working' = nx.seed /\ t_working' = nx.t
      /\ cws_vec' = Append(cws_vec, nx.cw) /\ trail' = Append(trail, e)
  BY <1>3, <1>4, Zenon DEF GenLevel
<1>6. /\ in_bitnum' = in_bitnum /\ ss_bitnum' = ss_bitnum /\ alpha' = alpha /\ beta' = beta
      /\ enable_evalall' = enable_evalall /\ prg' = prg /\ mk' = mk
      /\ GetTerminateLevel' = GetTerminateLevel
  BY <1>2, SameLevel, Zenon
<1>7. PICK top, b, al, be, all, g, m, k, d, cws, tr, s, t :
        /\ top = in_bitnum /\ b = ss_bitnum /\ al = alpha /\ be = beta /\ all = enable_evalall
        /\ g = prg /\ m = mk /\ k = glevel /\ d = GetTerminateLevel /\ cws = cws_vec /\ tr = trail
        /\ s = seeds_working /\ t = t_working
  OBVIOUS
<1>8. GenPure(top, b, al, be, all, g, m, k, d, cws, tr, s, t)
  BY <1>1, <1>7, GenInvPure, Zenon
<1>9. /\ top \in Nat \ {0} /\ b \in 1 .. 64 /\ al \in Nat /\ be \in Nat /\ all \in BOOLEAN
      /\ g \in Prgs /\ m \in MasterKeys /\ k \in 0 .. d
      /\ tr[1] = [seed |-> m, t |-> [r \in Ranks |-> r = 1]]
      /\ GenMade(g, al, k, tr, cws, s, t)
  BY <1>8, Zenon DEF GenPure
<1>a. IsGen(g)
  BY <1>9, GenTyped
<1>b. k \in Nat /\ d \in Nat /\ k + 1 \in 0 .. d
  <2>1. d \in Nat
    <3>1. in_bitnum \in Nat /\ ss_bitnum \in 1 .. 64 /\ enable_evalall \in BOOLEAN
      BY <1>7, <1>9
    <3>2. GetTerminateLevel \in Nat
      BY <3>1, LevelRange
    <3>3. QED
      BY <1>7, <3>2, Zenon
  <2>2. k < d
    BY <1>2, <1>7, Zenon
  <2>3. QED
    BY <1>9, <2>1, <2>2
<1>c. /\ GenMade(g, al, k + 1, Append(tr, e), Append(cws, nx.cw), nx.seed, nx.t)
      /\ Append(tr, e)[1] = tr[1]
  <2>1. nx = Corrected(g, GetBit(al, k), s, t)
    BY <1>3, <1>7, Zenon
  <2>2. QED
    BY <1>4, <1>9, <1>a, <1>b, <2>1, GenStep
<1>d. GenPure(top, b, al, be, all, g, m, k + 1, d, Append(cws, nx.cw), Append(tr, e), nx.seed, nx.t)
  BY <1>9, <1>b, <1>c, Zenon DEF GenPure
<1>e. GenPure(in_bitnum, ss_bitnum, alpha, beta, enable_evalall, prg, mk, glevel,
              GetTerminateLevel, cws_vec, trail, seeds_working, t_working)'
  BY <1>2, <1>5, <1>6, <1>7, <1>d, Zenon
<1>f. GenInv'
  BY <1>e, GenPureInv
<1>g. QED
  BY <1>2, <1>f, Zenon DEF DpfInv

LEMMA LastWordIs ==
  ASSUME NEW i
  PROVE  LastWord(i) =
           WordFor(IF ~enable_evalall \/ i = alpha \div Pow2[GetTerminateLevel] THEN beta ELSE 0,
                   PrgChain(prg, seeds_working[0], i), PrgChain(prg, seeds_working[1], i),
                   t_working[1], Pow2[ss_bitnum])
  BY Zenon DEF LastWord, WordFor, Rev, TruncateSs, ReverseSs

\* A key as its party has it: nothing of it is lost on the way.
LEMMA WordRecord ==
  ASSUME NEW g, NEW al \in Nat, NEW k \in Nat \ {0}, NEW e, NEW cw, NEW f, IsGen(g),
         TrailTyped(e), LevelMade(g, al, k, e, cw, f)
  PROVE  IsCw(cw)
<1>1. cw.seed \in Seed
  BY LevelTyped
<1>2. PICK nx : nx = Corrected(g, GetBit(al, k - 1), e.seed, e.t) /\ cw = nx.cw
  BY Zenon DEF LevelMade
<1>3. PICK s, t0, t1 : cw = MakeCw(s, t0, t1)
  <2>1. \A a, b, c : [cw |-> a, seed |-> b, t |-> c].cw = a
    OBVIOUS
  <2>2. \E s, t0, t1 : nx.cw = MakeCw(s, t0, t1)
    BY <1>2, <2>1, Zenon DEF Corrected
  <2>3. QED
    BY <2>2, <1>2, Zenon
<1>4. PICK t : cw = [seed |-> s, t_store |-> t]
  BY <1>3, Zenon DEF MakeCw
<1>5. cw = [seed |-> cw.seed, t_store |-> cw.t_store]
  BY <1>4
<1>6. QED
  BY <1>1, <1>5, Zenon DEF IsCw

LEMMA GenLastKeeps ==
  ASSUME DpfInv, GenLast
  PROVE  DpfInv'
<1>1. GenInv
  BY Zenon DEF DpfInv
<1>2. /\ glevel = GetTerminateLevel /\ last_cw_vec = <<>> /\ UNCHANGED params
      /\ glevel' = glevel /\ seeds_working' = seeds_working /\ t_working' = t_working
      /\ cws_vec' = cws_vec /\ trail' = trail /\ shares' = shares
      /\ walk' = [r \in Ranks |-> IF CanEval(r) THEN <<Root(keys'[r])>> ELSE <<>>]
  BY Zenon DEF GenLast
<1>3. /\ in_bitnum' = in_bitnum /\ ss_bitnum' = ss_bitnum /\ alpha' = alpha /\ beta' = beta
      /\ enable_evalall' = enable_evalall /\ prg' = prg /\ mk' = mk
      /\ GetTerminateLevel' = GetTerminateLevel /\ \A i \in Ranks : CanEval(i)' <=> CanEval(i)
  BY <1>2, SameLevel, Zenon
<1>4. PICK top, b, al, be, all, g, m, d, cws, tr, s, t :
        /\ top = in_bitnum /\ b = ss_bitnum /\ al = alpha /\ be = beta /\ all = enable_evalall
        /\ g = prg /\ m = mk /\ d = GetTerminateLevel /\ cws = cws_vec /\ tr = trail
        /\ s = seeds_working /\ t = t_working
  OBVIOUS
<1>5. GenPure(top, b, al, be, all, g, m, d, d, cws, tr, s, t)
  BY <1>1, <1>2, <1>4, GenInvPure, Zenon
<1>6. /\ top \in Nat \ {0} /\ b \in 1 .. 64 /\ al \in Nat /\ be \in Nat /\ all \in BOOLEAN
      /\ g \in Prgs /\ m \in MasterKeys
      /\ GenMade(g, al, d, tr, cws, s, t)
  BY <1>5, Zenon DEF GenPure
<1>7. IsGen(g)
  BY <1>6, GenTyped
<1>8. d \in Nat /\ d <= top /\ top \in Nat
  <2>1. in_bitnum \in Nat /\ ss_bitnum \in 1 .. 64 /\ enable_evalall \in BOOLEAN
    BY <1>4, <1>6
  <2>2. GetTerminateLevel \in Nat /\ GetTerminateLevel <= in_bitnum
    BY <2>1, LevelRange
  <2>3. QED
    BY <1>4, <2>1, <2>2, Zenon
<1>9. GenInv'
  <2>1. GenPure(in_bitnum, ss_bitnum, alpha, beta, enable_evalall, prg, mk, glevel,
                GetTerminateLevel, cws_vec, trail, seeds_working, t_working)'
    BY <1>2, <1>3, <1>4, <1>5, Zenon
  <2>2. QED
    BY <2>1, GenPureInv
<1>a. PICK sm \in Nat \ {0}, E \in Nat \ {0} : sm = Pow2[b] /\ E = Pow2[top - d]
  <2>1. b \in Nat /\ top - d \in Nat
    BY <1>6, <1>8
  <2>2. QED
    BY <2>1, PowerAt
<1>b. PICK L \in Nat \ {0} : L = IF all THEN E ELSE 1
  BY <1>6
<1>c. L = IF enable_evalall THEN expand_num ELSE 1
  BY <1>4, <1>a, <1>b, Zenon DEF expand_num
<1>d. PICK wd : wd = last_cw_vec' /\ wd = [i \in 1 .. L |-> LastWord(i - 1)]
  BY <1>c, Zenon DEF GenLast
<1>e. IsList(wd, L) /\ DOMAIN wd = 1 .. L
  BY <1>d, Zenon DEF IsList
<1>f. ASSUME NEW i \in 1 .. L PROVE wd[i] \in Nat
  <2>1. PICK u \in Nat : u = IF ~enable_evalall \/ i - 1 = alpha \div Pow2[GetTerminateLevel] THEN beta ELSE 0
    BY <1>4, <1>6
  <2>2. PICK t1 \in BOOLEAN : t1 = t_working[1]
    <3>0. PICK k \in 1 .. d + 1 : k = d + 1
      BY <1>8
    <3>1. TrailTyped(tr[k]) /\ tr[k] = [seed |-> s, t |-> t]
      BY <1>6, <3>0, Zenon DEF GenMade, Prepared
    <3>2. tr[k].t = t
      BY <3>1
    <3>3. QED
      BY <1>4, <3>1, <3>2, Zenon DEF TrailTyped, Ranks
  <2>3. PICK c0 \in Nat, c1 \in Nat : /\ c0 = PrgChain(prg, seeds_working[0], i - 1)
                                      /\ c1 = PrgChain(prg, seeds_working[1], i - 1)
    BY ChainNat, Zenon
  <2>4. LastWord(i - 1) = WordFor(u, c0, c1, t1, sm)
    <3>1. PICK j : j = i - 1
      OBVIOUS
    <3>2. LastWord(j) =
           WordFor(IF ~enable_evalall \/ j = alpha \div Pow2[GetTerminateLevel] THEN beta ELSE 0,
                   PrgChain(prg, seeds_working[0], j), PrgChain(prg, seeds_working[1], j),
                   t_working[1], Pow2[ss_bitnum])
      BY LastWordIs
    <3>3. QED
      BY <3>1, <3>2, <2>1, <2>2, <2>3, <1>4, <1>a, Zenon
  <2>5. WordFor(u, c0, c1, t1, sm) \in Nat
    BY WordTyped2
  <2>6. QED
    BY <1>d, <2>4, <2>5, Zenon
<1>g. wd # <<>>
  <2>1. L # 0 /\ L \in Nat
    OBVIOUS
  <2>2. QED
    BY <2>1, <1>e, EmptyList
<1>h. ASSUME NEW i \in 1 .. d PROVE IsCw(cws[i])
  <2>1. PICK k \in Nat \ {0} : k = i /\ k \in 1 .. d + 1 /\ k \in 1 .. d
    BY <1>8
  <2>2. TrailTyped(tr[k]) /\ LevelMade(g, al, k, tr[k], cws[k], tr[k + 1])
    BY <2>1, <1>6, Zenon DEF GenMade, Prepared
  <2>3. PICK e, cw, f : e = tr[k] /\ cw = cws[k] /\ f = tr[k + 1]
    OBVIOUS
  <2>4. IsCw(cw)
    BY <2>2, <2>3, <1>6, <1>7, WordRecord
  <2>5. QED
    BY <2>1, <2>3, <2>4, Zenon
<1>i. ASSUME NEW r \in Ranks PROVE Deserialize(Serialize(KeyRec(r, m[r], all, cws, wd))) = KeyRec(r, m[r], all, cws, wd)
  <2>1. PICK ms \in Seed : ms = m[r]
    BY <1>6, DpfAssumption DEF Seed
  <2>2. IsList(cws, d)
    BY <1>6, Zenon DEF GenMade
  <2>3. Deserialize(Serialize(KeyRec(r, ms, all, cws, wd))) = KeyRec(r, ms, all, cws, wd)
    BY <2>2, <1>8, <1>b, <1>e, <1>f, <1>h, KeyTravels
  <2>4. QED
    BY <2>1, <2>3, Zenon
<1>j. keys' = [r \in Ranks |-> Deserialize(Serialize(KeyRec(r, m[r], all, cws, wd)))]
  BY <1>4, <1>d, Zenon DEF GenLast, KeyRec
<1>k. keys' = [r \in Ranks |-> KeyRec(r, m[r], all, cws, wd)]
  BY <1>i, <1>j
<1>l. x' \in Nat
  <2>1. x' \in IF enable_evalall THEN {0} ELSE {v \in Points : Admitted(v)}
    BY Zenon DEF GenLast
  <2>3. x' \in {0} \/ x' \in Points
    BY <2>1, Zenon
  <2>4. Points \subseteq Nat /\ 0 \in Nat
    <3>1. Points \subseteq Nat
      BY DpfAssumption, Zenon
    <3>2. QED
      BY <3>1
  <2>2. QED
    BY <2>3, <2>4, Zenon
<1>m. KeysInv'
  <2>1. glevel' = GetTerminateLevel'
    BY <1>2, <1>3
  <2>2. ASSUME NEW i PROVE LastWord(i)' = LastWord(i)
    BY <1>2, <1>3, Zenon DEF LastWord, TruncateSs, ReverseSs
  <2>3. L = IF enable_evalall' THEN expand_num' ELSE 1
    BY <1>3, <1>c, Zenon DEF expand_num
  <2>4. wd = [i \in 1 .. L |-> LastWord(i - 1)']
    BY <1>d, <2>2, Zenon
  <2>5. keys' = [r \in Ranks |->
          [rank |-> r, mseed |-> mk'[r], enable_evalall |-> enable_evalall',
           cws_vec |-> cws_vec', last_cw_vec |-> last_cw_vec']]
    BY <1>2, <1>3, <1>4, <1>d, <1>k, Zenon DEF KeyRec
  <2>6. QED
    BY <1>d, <1>l, <2>1, <2>3, <2>4, <2>5, Zenon DEF KeysInv
<1>n. ASSUME NEW r \in Ranks, CanEval(r) PROVE EvalInv(r)'
  <2>1. shares[r] = <<>>
    BY <1>2, Zenon DEF DpfInv
  <2>0. PICK pt \in Nat : pt = x'
    BY <1>l, Zenon
  <2>2. PICK ky : ky = keys'[r] /\ pt = x'
    BY <2>0, Zenon
  <2>3. EvalOf(g, sm, ky, d, top, all, pt, <<Root(ky)>>, <<>>)
    BY <1>6, <1>8, EvalStart
  <2>4. walk'[r] = <<Root(ky)>> /\ shares'[r] = <<>>
    BY <1>2, <1>n, <2>1, <2>2, Zenon
  <2>5. EvalOf(prg', Pow2[ss_bitnum'], keys'[r], GetTerminateLevel', in_bitnum', enable_evalall', x',
                walk'[r], shares'[r])
    BY <1>3, <1>4, <1>a, <2>2, <2>3, <2>4, Zenon
  <2>6. enable_evalall' \in BOOLEAN
    BY <1>3, <1>4, <1>6, Zenon
  <2>7. QED
    BY <2>5, <2>6, EvalOfInv
<1>o. walk' = [r \in Ranks |-> walk'[r]] /\ shares' = [r \in Ranks |-> shares'[r]]
  <2>1. shares = [r \in Ranks |-> shares[r]]
    BY Zenon DEF DpfInv
  <2>2. QED
    BY <2>1, <1>2, Zenon
<1>p. ASSUME NEW r \in Ranks, ~CanEval(r) PROVE walk'[r] = <<>> /\ shares'[r] = <<>>
  <2>1. shares[r] = <<>>
    BY <1>2, Zenon DEF DpfInv
  <2>2. QED
    BY <1>2, <1>p, <2>1, Zenon
<1>q. QED
  BY <1>3, <1>9, <1>d, <1>g, <1>m, <1>n, <1>o, <1>p, Zenon DEF DpfInv

\* The state of a rank's evaluation, if it can evaluate its key, and a step that
\* changes nothing else.
EvalState(r, w, s) ==
  EvalOf(prg, Pow2[ss_bitnum], keys[r], GetTerminateLevel, in_bitnum, enable_evalall, x, w, s)

RankState(r, w, s) == IF CanEval(r) THEN EvalState(r, w, s) ELSE w = <<>> /\ s = <<>>

LEMMA RankStateOf ==
  ASSUME NEW r \in Ranks, DpfInv, last_cw_vec # <<>>
  PROVE  RankState(r, walk[r], shares[r])
<1>1. enable_evalall \in BOOLEAN /\ (CanEval(r) => EvalInv(r))
  BY Zenon DEF DpfInv, GenInv
<1>2. CanEval(r) => EvalState(r, walk[r], shares[r])
  BY <1>1, EvalInvOf DEF EvalState
<1>3. ~CanEval(r) => walk[r] = <<>> /\ shares[r] = <<>>
  BY Zenon DEF DpfInv
<1>4. QED
  BY <1>2, <1>3, Zenon DEF RankState

LEMMA WalkStep ==
  ASSUME NEW r \in Ranks, NEW w1, NEW s1, DpfInv, last_cw_vec # <<>>, RankState(r, w1, s1),
         UNCHANGED <<params, glevel, seeds_working, t_working, cws_vec, last_cw_vec, trail, keys, x>>,
         walk' = [walk EXCEPT ![r] = w1], shares' = [shares EXCEPT ![r] = s1]
  PROVE  DpfInv'
<1>1. /\ UNCHANGED params
      /\ glevel' = glevel /\ seeds_working' = seeds_working /\ t_working' = t_working
      /\ cws_vec' = cws_vec /\ last_cw_vec' = last_cw_vec /\ trail' = trail /\ keys' = keys /\ x' = x
  OBVIOUS
<1>2. /\ in_bitnum' = in_bitnum /\ ss_bitnum' = ss_bitnum /\ alpha' = alpha /\ beta' = beta
      /\ enable_evalall' = enable_evalall /\ prg' = prg /\ mk' = mk
      /\ GetTerminateLevel' = GetTerminateLevel /\ \A i \in Ranks : CanEval(i)' <=> CanEval(i)
  BY <1>1, SameLevel, Zenon
<1>3. GenInv /\ KeysInv
  BY Zenon DEF DpfInv
<1>4. enable_evalall \in BOOLEAN
  BY <1>3, Zenon DEF GenInv
<1>5. GenInv'
  <2>1. GenPure(in_bitnum, ss_bitnum, alpha, beta, enable_evalall, prg, mk, glevel,
                GetTerminateLevel, cws_vec, trail, seeds_working, t_working)
    BY <1>3, GenInvPure
  <2>2. GenPure(in_bitnum, ss_bitnum, alpha, beta, enable_evalall, prg, mk, glevel,
                GetTerminateLevel, cws_vec, trail, seeds_working, t_working)'
    BY <1>1, <1>2, <2>1, Zenon
  <2>3. QED
    BY <2>2, GenPureInv
<1>6. KeysInv'
  <2>1. ASSUME NEW i PROVE LastWord(i)' = LastWord(i)
    BY <1>1, <1>2, Zenon DEF LastWord, TruncateSs, ReverseSs
  <2>2. expand_num' = expand_num
    BY <1>2, Zenon DEF expand_num
  <2>3. QED
    BY <1>1, <1>2, <1>3, <2>1, <2>2, Zenon DEF KeysInv
<1>7. walk = [i \in Ranks |-> walk[i]] /\ shares = [i \in Ranks |-> shares[i]]
  BY Zenon DEF DpfInv
<1>8. /\ walk'[r] = w1 /\ shares'[r] = s1
      /\ \A i \in Ranks : i # r => walk'[i] = walk[i] /\ shares'[i] = shares[i]
  BY <1>7
<1>9. walk' = [i \in Ranks |-> walk'[i]] /\ shares' = [i \in Ranks |-> shares'[i]]
  BY <1>7
<1>a. ASSUME NEW i \in Ranks
      PROVE  IF CanEval(i)' THEN EvalInv(i)' ELSE walk'[i] = <<>> /\ shares'[i] = <<>>
  <2>1. RankState(i, walk'[i], shares'[i])
    <3>1. CASE i = r
      BY <3>1, <1>8, Zenon
    <3>2. CASE i # r
      <4>1. RankState(i, walk[i], shares[i])
        BY RankStateOf
      <4>2. QED
        BY <3>2, <4>1, <1>8, Zenon
    <3>3. QED
      BY <3>1, <3>2
  <2>2. CASE CanEval(i)
    <3>1. EvalOf(prg', Pow2[ss_bitnum'], keys'[i], GetTerminateLevel', in_bitnum', enable_evalall', x',
                  walk'[i], shares'[i])
      BY <1>1, <1>2, <2>1, <2>2, Zenon DEF RankState, EvalState
    <3>2. enable_evalall' \in BOOLEAN
      BY <1>2, <1>4, Zenon
    <3>3. EvalInv(i)'
      BY <3>1, <3>2, EvalOfInv
    <3>4. QED
      BY <1>2, <2>2, <3>3, Zenon
  <2>3. CASE ~CanEval(i)
    BY <1>2, <2>1, <2>3, Zenon DEF RankState
  <2>4. QED
    BY <2>2, <2>3
<1>b. QED
  BY <1>1, <1>5, <1>6, <1>9, <1>a, Zenon DEF DpfInv

\* What a step of an evaluation starts from.
LEMMA StepStart ==
  ASSUME NEW r \in Ranks, DpfInv, walk[r] # <<>>
  PROVE  /\ last_cw_vec # <<>> /\ CanEval(r) /\ EvalState(r, walk[r], shares[r])
         /\ keys[r].enable_evalall = enable_evalall /\ enable_evalall \in BOOLEAN /\ x \in Nat
         /\ GetTerminateLevel \in Nat /\ GetTerminateLevel <= in_bitnum /\ in_bitnum \in Nat
         /\ (~enable_evalall => GetTerminateLevel = in_bitnum)
         /\ walk = [i \in Ranks |-> walk[i]] /\ shares = [i \in Ranks |-> shares[i]]
<1>1. last_cw_vec # <<>> /\ KeysInv /\ GenInv /\ CanEval(r)
  BY Zenon DEF DpfInv
<1>2. enable_evalall \in BOOLEAN /\ in_bitnum \in Nat \ {0} /\ ss_bitnum \in 1 .. 64
  BY <1>1, Zenon DEF GenInv
<1>3. EvalState(r, walk[r], shares[r])
  BY <1>1, RankStateOf, Zenon DEF RankState
<1>4. keys[r].enable_evalall = enable_evalall
  <2>1. keys[r] = [rank |-> r, mseed |-> mk[r], enable_evalall |-> enable_evalall,
                   cws_vec |-> cws_vec, last_cw_vec |-> last_cw_vec]
    BY <1>1, Zenon DEF KeysInv
  <2>2. QED
    BY <2>1
<1>5. x \in Nat
  BY <1>1, Zenon DEF KeysInv
<1>6. in_bitnum \in Nat
  BY <1>2
<1>7. /\ GetTerminateLevel \in Nat /\ GetTerminateLevel <= in_bitnum
      /\ (~enable_evalall => GetTerminateLevel = in_bitnum)
  BY <1>2, <1>6, LevelRange
<1>8. walk = [i \in Ranks |-> walk[i]] /\ shares = [i \in Ranks |-> shares[i]]
  BY Zenon DEF DpfInv
<1>9. QED
  BY <1>1, <1>2, <1>3, <1>4, <1>5, <1>6, <1>7, <1>8, Zenon

LEMMA EvalKeeps ==
  ASSUME NEW r \in Ranks, DpfInv, DpfEval(r)
  PROVE  DpfInv'
<1>1. /\ walk[r] # <<>> /\ ~keys[r].enable_evalall
      /\ UNCHANGED <<params, glevel, seeds_working, t_working, cws_vec, last_cw_vec, trail, keys, x>>
  BY Zenon DEF DpfEval
<1>2. /\ last_cw_vec # <<>> /\ CanEval(r) /\ EvalState(r, walk[r], shares[r])
      /\ keys[r].enable_evalall = enable_evalall /\ enable_evalall \in BOOLEAN /\ x \in Nat
      /\ GetTerminateLevel \in Nat /\ GetTerminateLevel <= in_bitnum /\ in_bitnum \in Nat
      /\ (~enable_evalall => GetTerminateLevel = in_bitnum)
      /\ walk = [i \in Ranks |-> walk[i]] /\ shares = [i \in Ranks |-> shares[i]]
  BY <1>1, StepStart, Zenon
<1>3. PICK g, ky, w, s, a, sm :
        /\ g = prg /\ ky = keys[r] /\ w = walk[r] /\ s = shares[r] /\ a = Head(w) /\ sm = Pow2[ss_bitnum]
  OBVIOUS
<1>4. PICK d \in Nat, pt \in Nat : d = in_bitnum /\ pt = x /\ d = GetTerminateLevel
  BY <1>1, <1>2, Zenon
<1>5. enable_evalall = FALSE
  BY <1>1, <1>2, Zenon
<1>6. EvalOf(g, sm, ky, d, d, FALSE, pt, w, s) /\ w # <<>>
  BY <1>1, <1>2, <1>3, <1>4, <1>5, Zenon DEF EvalState
<1>7. CASE a.level < d
  <2>1. PICK w1 : w1 = <<Child(g, ky, a, GetBit(pt, a.level))>>
    OBVIOUS
  <2>2. EvalOf(g, sm, ky, d, d, FALSE, pt, w1, s)
    BY <1>3, <1>6, <1>7, <2>1, EvalInner, Zenon
  <2>3. RankState(r, w1, s)
    BY <1>2, <1>3, <1>4, <1>5, <2>2, Zenon DEF RankState, EvalState
  <2>4. walk' = [walk EXCEPT ![r] = w1] /\ shares' = shares
    BY <1>3, <1>4, <1>7, <2>1, Zenon DEF DpfEval
  <2>5. shares' = [shares EXCEPT ![r] = s]
    BY <1>2, <1>3, <2>4
  <2>6. QED
    BY <1>1, <1>2, <2>3, <2>4, <2>5, WalkStep
<1>8. CASE ~ (a.level < d)
  <2>1. PICK e : e = <<pt, ShareVal(g, sm, ky, a, 0)>>
    OBVIOUS
  <2>2. EvalOf(g, sm, ky, d, d, FALSE, pt, <<>>, s \o <<e>>)
    BY <1>3, <1>6, <1>8, <2>1, EvalLeaf, Zenon
  <2>3. PICK w1, s1 : w1 = <<>> /\ s1 = s \o <<e>>
    OBVIOUS
  <2>4. RankState(r, w1, s1)
    BY <1>2, <1>3, <1>4, <1>5, <2>2, <2>3, Zenon DEF RankState, EvalState
  <2>5. ShareOf(ky, a, 0) = ShareVal(g, sm, ky, a, 0)
    <3>1. PICK i : i = 0
      OBVIOUS
    <3>2. ShareOf(ky, a, i) = ShareVal(prg, Pow2[ss_bitnum], ky, a, i)
      BY ShareOfIs
    <3>3. QED
      BY <1>3, <3>1, <3>2, Zenon
  <2>6. walk' = [walk EXCEPT ![r] = w1] /\ shares' = [shares EXCEPT ![r] = shares[r] \o <<<<x, ShareOf(keys[r], Head(walk[r]), 0)>>>>]
    BY <1>3, <1>4, <1>8, <2>3, Zenon DEF DpfEval
  <2>7. shares[r] \o <<<<x, ShareOf(keys[r], Head(walk[r]), 0)>>>> = s1
    BY <1>3, <1>4, <2>1, <2>3, <2>5, Zenon
  <2>8. shares' = [shares EXCEPT ![r] = s1]
    BY <2>6, <2>7, Zenon
  <2>9. QED
    BY <1>1, <1>2, <2>4, <2>6, <2>8, WalkStep
<1>9. QED
  BY <1>7, <1>8

LEMMA TraverseKeeps ==
  ASSUME NEW r \in Ranks, DpfInv, Traverse(r)
  PROVE  DpfInv'
<1>1. /\ walk[r] # <<>> /\ keys[r].enable_evalall
      /\ UNCHANGED <<params, glevel, seeds_working, t_working, cws_vec, last_cw_vec, trail, keys, x>>
  BY Zenon DEF Traverse
<1>2. /\ last_cw_vec # <<>> /\ CanEval(r) /\ EvalState(r, walk[r], shares[r])
      /\ keys[r].enable_evalall = enable_evalall /\ enable_evalall \in BOOLEAN /\ x \in Nat
      /\ GetTerminateLevel \in Nat /\ GetTerminateLevel <= in_bitnum /\ in_bitnum \in Nat
      /\ (~enable_evalall => GetTerminateLevel = in_bitnum)
      /\ walk = [i \in Ranks |-> walk[i]] /\ shares = [i \in Ranks |-> shares[i]]
  BY <1>1, StepStart, Zenon
<1>3. PICK g, ky, w, s, a, sm :
        /\ g = prg /\ ky = keys[r] /\ w = walk[r] /\ s = shares[r] /\ a = Head(w) /\ sm = Pow2[ss_bitnum]
  OBVIOUS
<1>4. PICK d \in Nat, top \in Nat, pt \in Nat : top = in_bitnum /\ pt = x /\ d = GetTerminateLevel /\ d <= top
  BY <1>1, <1>2, Zenon
<1>5. enable_evalall = TRUE
  BY <1>1, <1>2, Zenon
<1>6. EvalOf(g, sm, ky, d, top, TRUE, pt, w, s) /\ w # <<>>
  BY <1>1, <1>2, <1>3, <1>4, <1>5, Zenon DEF EvalState
<1>7. CASE a.level < d
  <2>1. PICK w1 : w1 = <<Child(g, ky, a, 0), Child(g, ky, a, 1)>> \o Tail(w)
    OBVIOUS
  <2>2. EvalOf(g, sm, ky, d, top, TRUE, pt, w1, s)
    BY <1>3, <1>4, <1>6, <1>7, <2>1, TraverseInner, Zenon
  <2>3. RankState(r, w1, s)
    BY <1>2, <1>3, <1>4, <1>5, <2>2, Zenon DEF RankState, EvalState
  <2>4. walk' = [walk EXCEPT ![r] = w1] /\ shares' = shares
    BY <1>3, <1>4, <1>7, <2>1, Zenon DEF Traverse
  <2>5. shares' = [shares EXCEPT ![r] = s]
    BY <1>2, <1>3, <2>4
  <2>6. QED
    BY <1>1, <1>2, <2>3, <2>4, <2>5, WalkStep
<1>8. CASE ~ (a.level < d)
  <2>1. PICK t : t = [i \in 1 .. Pow2[top - d] |->
                       <<a.pos + (i - 1) * Pow2[d], ShareVal(g, sm, ky, a, i - 1)>>]
    OBVIOUS
  <2>2. EvalOf(g, sm, ky, d, top, TRUE, pt, Tail(w), s \o t)
    BY <1>3, <1>4, <1>6, <1>8, <2>1, TraverseLeaf, Zenon
  <2>3. PICK w1, s1 : w1 = Tail(w) /\ s1 = s \o t
    OBVIOUS
  <2>4. RankState(r, w1, s1)
    BY <1>2, <1>3, <1>4, <1>5, <2>2, <2>3, Zenon DEF RankState, EvalState
  <2>5. \A i : ShareOf(ky, a, i - 1) = ShareVal(g, sm, ky, a, i - 1)
    <3>1. \A j : ShareOf(ky, a, j) = ShareVal(prg, Pow2[ss_bitnum], ky, a, j)
      BY ShareOfIs
    <3>2. QED
      BY <1>3, <3>1, Zenon
  <2>6. PICK t1 : t1 = [i \in 1 .. Pow2[top - d] |->
                         <<a.pos + (i - 1) * Pow2[d], ShareOf(ky, a, i - 1)>>]
    OBVIOUS
  <2>7. t1 = t
    BY <2>1, <2>5, <2>6, Zenon
  <2>8. walk' = [walk EXCEPT ![r] = Tail(walk[r])] /\ shares' = [shares EXCEPT ![r] = shares[r] \o t1]
    BY <1>3, <1>4, <1>8, <2>6, Zenon DEF Traverse, expand_num
  <2>9. walk' = [walk EXCEPT ![r] = w1] /\ shares' = [shares EXCEPT ![r] = s1]
    BY <1>3, <2>3, <2>7, <2>8, Zenon
  <2>a. QED
    BY <1>1, <1>2, <2>4, <2>9, WalkStep
<1>9. QED
  BY <1>7, <1>8

LEMMA NothingShared ==
  ASSUME last_cw_vec = <<>>, \A r \in Ranks : walk[r] = <<>> /\ shares[r] = <<>>
  PROVE  SharesAgree
<1>1. DOMAIN walk[0] = {} /\ DOMAIN shares[0] = {}
  <2>1. walk[0] = <<>> /\ shares[0] = <<>>
    BY Zenon DEF Ranks
  <2>2. QED
    BY <2>1
<1>2. NodesAgree
  BY <1>1, Zenon DEF NodesAgree
<1>3. PointFunction
  BY <1>1, Zenon DEF PointFunction
<1>4. QED
  BY <1>2, <1>3 DEF SharesAgree

\* The keys of the two parties, from the invariant.
LEMMA KeysKeyed ==
  ASSUME GenInv, KeysInv
  PROVE  Keyed(prg, Pow2[ss_bitnum], alpha, beta, GetTerminateLevel, in_bitnum, enable_evalall, trail,
               cws_vec, keys[0], keys[1])
<1>1. PICK top, b, al, be, all, g, m, d, cws, tr, s, t, wd :
        /\ top = in_bitnum /\ b = ss_bitnum /\ al = alpha /\ be = beta /\ all = enable_evalall
        /\ g = prg /\ m = mk /\ d = GetTerminateLevel /\ cws = cws_vec /\ tr = trail
        /\ s = seeds_working /\ t = t_working /\ wd = last_cw_vec
  OBVIOUS
<1>2. PICK k0, k1 : k0 = keys[0] /\ k1 = keys[1]
  OBVIOUS
<1>3. GenPure(top, b, al, be, all, g, m, d, d, cws, tr, s, t)
  BY <1>1, GenInvPure, Zenon DEF KeysInv
<1>4. /\ Prepared(g, al, d, tr, cws) /\ tr[1] = [seed |-> m, t |-> [r \in Ranks |-> r = 1]]
      /\ tr[d + 1] = [seed |-> s, t |-> t]
  BY <1>3, Zenon DEF GenPure, GenMade
<1>5. /\ k0 = [rank |-> 0, mseed |-> m[0], enable_evalall |-> all, cws_vec |-> cws, last_cw_vec |-> wd]
      /\ k1 = [rank |-> 1, mseed |-> m[1], enable_evalall |-> all, cws_vec |-> cws, last_cw_vec |-> wd]
  BY <1>1, <1>2, Zenon DEF KeysInv, Ranks
<1>6. /\ k0.rank = 0 /\ k0.mseed = m[0] /\ k0.cws_vec = cws /\ k0.last_cw_vec = wd
      /\ k1.rank = 1 /\ k1.mseed = m[1] /\ k1.cws_vec = cws /\ k1.last_cw_vec = wd
  BY <1>5
<1>7. PICK e : e = tr[1] /\ e.seed = m /\ e.t = [r \in Ranks |-> r = 1]
  BY <1>4
<1>8. \A r \in Ranks : e.t[r] = (r = 1)
  BY <1>7, Zenon
<1>9. HasKey(k0, 0, tr, cws) /\ HasKey(k1, 1, tr, cws)
  BY <1>6, <1>7, <1>8, Zenon DEF HasKey, Ranks
<1>a. PICK f : f = tr[d + 1] /\ f.seed = s /\ f.t = t
  BY <1>4
<1>b. Words(wd, g, Pow2[b], al, be, d, top, all, f)
  <2> SUFFICES ASSUME NEW i \in 0 .. (IF all THEN Pow2[top - d] ELSE 1) - 1
               PROVE  wd[i + 1] = WordFor(IF ~all \/ i = al \div Pow2[d] THEN be ELSE 0,
                        PrgChain(g, f.seed[0], i), PrgChain(g, f.seed[1], i), f.t[1], Pow2[b])
    BY Zenon DEF Words
  <2>1. PICK L : L = IF all THEN Pow2[top - d] ELSE 1
    OBVIOUS
  <2>2. wd = [j \in 1 .. L |-> LastWord(j - 1)]
    BY <1>1, <2>1, Zenon DEF KeysInv, expand_num
  <2>3. L \in Nat
    <3>1. in_bitnum \in Nat /\ ss_bitnum \in 1 .. 64 /\ enable_evalall \in BOOLEAN
      BY DEF GenInv
    <3>2. GetTerminateLevel \in Nat /\ GetTerminateLevel <= in_bitnum
      BY <3>1, LevelRange
    <3>3. top - d \in Nat
      BY <1>1, <3>1, <3>2
    <3>4. Pow2[top - d] \in Nat
      BY <3>3, PowerAt
    <3>5. QED
      BY <2>1, <3>4
  <2>4. i + 1 \in 1 .. L /\ (i + 1) - 1 = i
    <3>1. i \in 0 .. L - 1
      BY <2>1, Zenon
    <3>2. QED
      BY <3>1, <2>3
  <2>5. wd[i + 1] = LastWord(i)
    BY <2>2, <2>4, Zenon
  <2>6. LastWord(i) =
           WordFor(IF ~enable_evalall \/ i = alpha \div Pow2[GetTerminateLevel] THEN beta ELSE 0,
                   PrgChain(prg, seeds_working[0], i), PrgChain(prg, seeds_working[1], i),
                   t_working[1], Pow2[ss_bitnum])
    BY LastWordIs
  <2>7. QED
    BY <1>1, <1>a, <2>5, <2>6, Zenon
<1>c. Keyed(g, Pow2[b], al, be, d, top, all, tr, cws, k0, k1)
  BY <1>4, <1>6, <1>9, <1>a, <1>b, Zenon DEF Keyed
<1>d. QED
  BY <1>1, <1>2, <1>c, Zenon

LEMMA DpfInvAgrees ==
  ASSUME DpfInv
  PROVE  SharesAgree
<1>1. CASE last_cw_vec = <<>>
  BY <1>1, NothingShared, Zenon DEF DpfInv
<1>2. CASE last_cw_vec # <<>>
  <2>1. GenInv /\ KeysInv /\ RankState(0, walk[0], shares[0]) /\ RankState(1, walk[1], shares[1])
    BY <1>2, RankStateOf, Zenon DEF DpfInv, Ranks
  <2>2. PICK top, b, al, be, all, g, d, cws, tr, k0, k1, pt, sm :
        /\ top = in_bitnum /\ b = ss_bitnum /\ al = alpha /\ be = beta /\ all = enable_evalall
        /\ g = prg /\ d = GetTerminateLevel /\ cws = cws_vec /\ tr = trail
        /\ k0 = keys[0] /\ k1 = keys[1] /\ pt = x /\ sm = Pow2[b]
    OBVIOUS
  <2>3. Keyed(g, sm, al, be, d, top, all, tr, cws, k0, k1)
    BY <2>1, <2>2, KeysKeyed, Zenon
  <2>4. /\ top \in Nat /\ b \in 1 .. 64 /\ al \in Nat /\ be \in Nat /\ all \in BOOLEAN /\ g \in Prgs
        /\ pt \in Nat
    <3>1. /\ top \in Nat \ {0} /\ b \in 1 .. 64 /\ al \in Nat /\ be \in Nat /\ all \in BOOLEAN
          /\ g \in Prgs /\ pt \in Nat
      BY <2>1, <2>2, Zenon DEF GenInv, KeysInv
    <3>2. QED
      BY <3>1
  <2>5. IsGen(g)
    BY <2>4, GenTyped
  <2>6. d \in Nat /\ d <= top /\ (~all => d = top)
    BY <2>2, <2>4, LevelRange
  <2>7. sm \in Nat \ {0}
    <3>1. b \in Nat
      BY <2>4
    <3>2. Pow2[b] \in Nat \ {0}
      BY <3>1, PowerAt
    <3>3. QED
      BY <2>2, <3>2, Zenon
  <2>8. 0 \in Ranks /\ 1 \in Ranks /\ enable_evalall \in BOOLEAN
    BY <2>2, <2>4, Zenon DEF Ranks
  <2>9. PICK w0, w1, s0, s1 : w0 = walk[0] /\ w1 = walk[1] /\ s0 = shares[0] /\ s1 = shares[1]
    OBVIOUS
  <2>a. /\ EvalOf(g, sm, k0, d, top, all, pt, w0, s0) \/ (w0 = <<>> /\ s0 = <<>>)
        /\ EvalOf(g, sm, k1, d, top, all, pt, w1, s1) \/ (w1 = <<>> /\ s1 = <<>>)
    <3>1. /\ EvalState(0, w0, s0) \/ (w0 = <<>> /\ s0 = <<>>)
          /\ EvalState(1, w1, s1) \/ (w1 = <<>> /\ s1 = <<>>)
      BY <2>1, <2>9, Zenon DEF RankState
    <3>2. EvalState(0, w0, s0) => EvalOf(g, sm, k0, d, top, all, pt, w0, s0)
      BY <2>2, Zenon DEF EvalState
    <3>3. EvalState(1, w1, s1) => EvalOf(g, sm, k1, d, top, all, pt, w1, s1)
      BY <2>2, Zenon DEF EvalState
    <3>4. QED
      BY <3>1, <3>2, <3>3, Zenon
  <2>b. ASSUME NEW ky, NEW w, NEW s,
               EvalOf(g, sm, ky, d, top, all, pt, w, s) \/ (w = <<>> /\ s = <<>>)
        PROVE  /\ \A i \in DOMAIN w : NodeOf(g, ky, d, all, pt, w[i])
               /\ \A i \in DOMAIN s : ShareAt(g, sm, ky, d, top, all, s[i])
    <3>1. CASE EvalOf(g, sm, ky, d, top, all, pt, w, s)
      <4>1. PICK m \in Nat, l \in Nat : EvalAt(g, sm, ky, d, top, all, pt, w, m, s, l)
        BY <3>1, Zenon DEF EvalOf
      <4>2. QED
        BY <4>1, Zenon DEF EvalAt, IsList
    <3>2. CASE w = <<>> /\ s = <<>>
      <4>1. DOMAIN w = {} /\ DOMAIN s = {}
        BY <3>2
      <4>2. QED
        BY <4>1, Zenon
    <3>3. QED
      BY <2>b, <3>1, <3>2
  <2>d. /\ \A i \in DOMAIN w0 : NodeOf(g, k0, d, all, pt, w0[i])
        /\ \A i \in DOMAIN w1 : NodeOf(g, k1, d, all, pt, w1[i])
        /\ \A i \in DOMAIN s0 : ShareAt(g, sm, k0, d, top, all, s0[i])
        /\ \A i \in DOMAIN s1 : ShareAt(g, sm, k1, d, top, all, s1[i])
    BY <2>a, <2>b, Zenon
  <2>e. NodesAgree
    <3> SUFFICES ASSUME NEW i \in DOMAIN w0, NEW j \in DOMAIN w1,
                        w0[i].level = w1[j].level, w0[i].pos = w1[j].pos
                 PROVE  IF w0[i].pos = al % Pow2[w0[i].level]
                        THEN /\ w0[i].seed = tr[w0[i].level + 1].seed[0]
                             /\ w1[j].seed = tr[w0[i].level + 1].seed[1]
                             /\ w0[i].t # w1[j].t
                        ELSE w0[i].seed = w1[j].seed /\ w0[i].t = w1[j].t
      BY <2>2, <2>9, Zenon DEF NodesAgree
    <3>1. PICK na, nb : na = w0[i] /\ nb = w1[j]
      OBVIOUS
    <3>2. /\ NodeOf(g, k0, d, all, pt, na) /\ NodeOf(g, k1, d, all, pt, nb)
          /\ na.level = nb.level /\ na.pos = nb.pos
      BY <2>d, <3>1, Zenon
    <3>3. Prepared(g, al, d, tr, cws) /\ HasKey(k0, 0, tr, cws) /\ HasKey(k1, 1, tr, cws)
      BY <2>3, Zenon DEF Keyed
    <3>4. Meet(na, nb, al, tr)
      BY <2>4, <2>5, <2>6, <3>2, <3>3, NodesMeet, Zenon
    <3>5. QED
      BY <3>1, <3>4, Zenon DEF Meet
  <2>f. ASSUME alpha < Pow2[in_bitnum], NEW i \in DOMAIN s0, NEW j \in DOMAIN s1,
               s0[i][1] = s1[j][1], s0[i][1] < Pow2[in_bitnum]
        PROVE  TruncateSs(s0[i][2] + s1[j][2]) =
                 TruncateSs(IF s0[i][1] = alpha THEN beta ELSE 0)
    <3>1. PICK e0, e1 : e0 = s0[i] /\ e1 = s1[j]
      OBVIOUS
    <3>2. /\ ShareAt(g, sm, k0, d, top, all, e0) /\ ShareAt(g, sm, k1, d, top, all, e1)
          /\ e0[1] = e1[1] /\ al < Pow2[top] /\ e0[1] < Pow2[top]
      BY <2>2, <2>d, <2>f, <3>1, Zenon
    <3>3. AddUp(e0, e1, sm, top, al, be)
      BY <2>3, <2>4, <2>5, <2>6, <2>7, <3>2, SharesSum, Zenon
    <3>4. e0[1] % Pow2[top] = e0[1]
      <4>1. PICK p \in Nat : p = e0[1]
        BY <3>2, Zenon DEF ShareAt
      <4>2. PICK v \in Nat \ {0} : v = Pow2[top]
        BY <2>4, PowerAt
      <4>3. p < v
        BY <3>2, <4>1, <4>2, Zenon
      <4>4. p % v = p
        BY <4>3, Z3
      <4>5. QED
        BY <4>1, <4>2, <4>4, Zenon
    <3>5. QED
      BY <2>2, <3>1, <3>3, <3>4, Zenon DEF TruncateSs, AddUp
  <2>g. ASSUME NEW r \in Ranks, enable_evalall, CanEval(r), walk[r] = <<>>
        PROVE  /\ Len(shares[r]) = Pow2[in_bitnum]
               /\ {shares[r][i][1] : i \in DOMAIN shares[r]} = 0 .. Pow2[in_bitnum] - 1
    <3>1. PICK ky, w, s : ky = keys[r] /\ w = walk[r] /\ s = shares[r]
      OBVIOUS
    <3>2. EvalOf(g, sm, ky, d, top, TRUE, pt, w, s)
      <4>2. EvalOf(prg, Pow2[ss_bitnum], keys[r], GetTerminateLevel, in_bitnum, enable_evalall, x,
                   walk[r], shares[r])
        BY <1>2, <2>g, RankStateOf, Zenon DEF RankState, EvalState
      <4>3. enable_evalall = TRUE
        BY <2>8, <2>g, Zenon
      <4>4. QED
        BY <4>2, <4>3, <2>2, <3>1, Zenon
    <3>3. Complete(s, top)
      BY <2>4, <2>6, <2>g, <3>1, <3>2, AllPositions, Zenon
    <3>4. QED
      BY <2>2, <3>1, <3>3, Zenon DEF Complete
  <2>h. PointFunction
    BY <2>9, <2>f, <2>g, Zenon DEF PointFunction, InDomain
  <2>i. QED
    BY <2>e, <2>h DEF SharesAgree
<1>3. QED
  BY <1>1, <1>2

LEMMA DpfUnchanged ==
  ASSUME DpfInv, UNCHANGED dpfVars
  PROVE  DpfInv'
<1>1. /\ UNCHANGED params
      /\ UNCHANGED <<params, glevel, seeds_working, t_working, cws_vec, last_cw_vec, trail, keys, x>>
      /\ glevel' = glevel /\ seeds_working' = seeds_working /\ t_working' = t_working
      /\ cws_vec' = cws_vec /\ last_cw_vec' = last_cw_vec /\ trail' = trail
      /\ walk' = walk /\ shares' = shares
  BY DEF dpfVars, params
<1>2. GenInv /\ walk = [i \in Ranks |-> walk[i]] /\ shares = [i \in Ranks |-> shares[i]]
  BY Zenon DEF DpfInv
<1>3. CASE last_cw_vec = <<>>
  <2>1. /\ in_bitnum' = in_bitnum /\ ss_bitnum' = ss_bitnum /\ alpha' = alpha /\ beta' = beta
        /\ enable_evalall' = enable_evalall /\ prg' = prg /\ mk' = mk
        /\ GetTerminateLevel' = GetTerminateLevel
    BY <1>1, SameLevel, Zenon
  <2>2. GenPure(in_bitnum, ss_bitnum, alpha, beta, enable_evalall, prg, mk, glevel,
                GetTerminateLevel, cws_vec, trail, seeds_working, t_working)
    BY <1>2, GenInvPure
  <2>3. GenPure(in_bitnum, ss_bitnum, alpha, beta, enable_evalall, prg, mk, glevel,
                GetTerminateLevel, cws_vec, trail, seeds_working, t_working)'
    BY <1>1, <2>1, <2>2, Zenon
  <2>4. GenInv'
    BY <2>3, GenPureInv
  <2>5. QED
    BY <1>1, <1>3, <2>4, Zenon DEF DpfInv
<1>4. CASE last_cw_vec # <<>>
  <2>1. PICK r \in Ranks : r = 0
    BY DEF Ranks
  <2>2. PICK w1, s1 : w1 = walk[r] /\ s1 = shares[r]
    OBVIOUS
  <2>4. RankState(r, walk[r], shares[r])
    BY <1>4, RankStateOf
  <2>5. RankState(r, w1, s1)
    BY <2>2, <2>4, Zenon
  <2>6. walk' = [walk EXCEPT ![r] = w1] /\ shares' = [shares EXCEPT ![r] = s1]
    BY <1>1, <1>2, <2>2
  <2>7. QED
    BY <1>1, <1>4, <2>5, <2>6, WalkStep
<1>5. QED
  BY <1>3, <1>4

LEMMA PointInitInv ==
  ASSUME Init
  PROVE  PointInv
<1>1. ASSUME NEW p, NEW width, NEW sizes, NEW ins, NEW cpus, p # "dpf",
             InitExtension(p, width, sizes, ins, cpus)
      PROVE  PointInv
  BY <1>1, Zenon DEF InitExtension, PointInv
<1>2. "iknp" # "dpf" /\ "kkrt" # "dpf" /\ "stream" # "dpf" /\ "punctured" # "dpf"
  OBVIOUS
<1>3. ASSUME InitPunctured PROVE PointInv
  BY <1>2, <1>3, Zenon DEF InitPunctured, PointInv
<1>4. ASSUME InitDpf PROVE PointInv
  <2>1. DpfInv
    BY <1>4, DpfInitInv DEF InitDpf
  <2>2. QED
    BY <1>4, <2>1, Zenon DEF InitDpf, PointInv
<1>5. QED
  BY <1>1, <1>2, <1>3, <1>4, Zenon DEF Init

LEMMA PointNextInv ==
  ASSUME PointInv, [Next]_vars
  PROVE  PointInv'
<1>1. ASSUME proto' = proto, UNCHANGED dpfVars PROVE PointInv'
  <2>1. CASE proto = "dpf"
    <3>1. DpfInv'
      BY <1>1, <2>1, DpfUnchanged, Zenon DEF PointInv
    <3>2. QED
      BY <1>1, <2>1, <3>1, Zenon DEF PointInv
  <2>2. CASE proto # "dpf"
    <3>1. DpfIdle
      BY <2>2, Zenon DEF PointInv
    <3>2. DpfIdle'
      <4>1. /\ in_bitnum' = in_bitnum /\ ss_bitnum' = ss_bitnum /\ alpha' = alpha /\ beta' = beta
            /\ enable_evalall' = enable_evalall /\ wrapped' = wrapped /\ prg' = prg /\ mk' = mk
            /\ glevel' = glevel /\ seeds_working' = seeds_working /\ t_working' = t_working
            /\ cws_vec' = cws_vec /\ last_cw_vec' = last_cw_vec /\ trail' = trail /\ keys' = keys
            /\ x' = x /\ walk' = walk /\ shares' = shares
        BY <1>1 DEF dpfVars
      <4>2. QED
        BY <3>1, <4>1, Zenon DEF DpfIdle
    <3>3. QED
      BY <1>1, <2>2, <3>2, Zenon DEF PointInv
  <2>3. QED
    BY <2>1, <2>2
<1>2. ASSUME proto' = proto, proto = "dpf", DpfNext PROVE PointInv'
  <2>1. DpfInv
    BY <1>2, Zenon DEF PointInv
  <2>2. DpfInv'
    BY <1>2, <2>1, GenLevelKeeps, GenLastKeeps, EvalKeeps, TraverseKeeps, Zenon DEF DpfNext
  <2>3. QED
    BY <1>2, <2>2, Zenon DEF PointInv
<1>3. \/ proto' = proto /\ UNCHANGED dpfVars
      \/ proto' = proto /\ proto = "dpf" /\ DpfNext
  <2>1. CASE UNCHANGED vars
    BY <2>1 DEF vars
  <2>2. CASE Step
    <3>1. /\ UNCHANGED proto
          /\ \/ UNCHANGED <<extVars, puncVars, dpfVars>>
             \/ UNCHANGED <<baseVars, puncVars, dpfVars>>
             \/ UNCHANGED <<baseVars, extVars, dpfVars>>
             \/ proto = "dpf" /\ DpfNext
      BY <2>2, Zenon DEF Step
    <3>2. QED
      BY <3>1
  <2>3. QED
    BY <2>1, <2>2, Zenon DEF Next
<1>4. QED
  BY <1>1, <1>2, <1>3

(* The invariant of the distributed point function, for every depth of the *)
(* domain that Gen takes, every width of the shares, every point, value    *)
(* and pair of master seeds, and whatever the generators return.           *)
THEOREM PointInvariance == Spec => []PointInv
<1>1. Init => PointInv
  BY PointInitInv
<1>2. PointInv /\ [Next]_vars => PointInv'
  BY PointNextInv
<1>3. QED
  BY <1>1, <1>2, PTL DEF Spec

(* DpfContext::Gen, Eval and EvalAll: the two keys agree node by node; for *)
(* an alpha below 2^in_bitnum the two results of a position below          *)
(* 2^in_bitnum add up to beta at alpha and to 0 elsewhere, modulo          *)
(* 2^ss_bitnum; and EvalAll, if the domain is not too large for it and the *)
(* party's machine comes to the level of Gen's, puts out every position    *)
(* exactly once.  Nothing is said of the larger points that Gen and Eval   *)
(* let pass.                                                               *)
THEOREM PointFunctionShared == Spec => []SharesAgree
<1>1. PointInv => SharesAgree
  <2>1. CASE proto = "dpf"
    BY <2>1, DpfInvAgrees DEF PointInv
  <2>2. ASSUME proto # "dpf", PointInv PROVE SharesAgree
    <3>1. last_cw_vec = <<>> /\ walk = [r \in Ranks |-> <<>>] /\ shares = [r \in Ranks |-> <<>>]
      BY <2>2, Zenon DEF PointInv, DpfIdle
    <3>2. \A r \in Ranks : walk[r] = <<>> /\ shares[r] = <<>>
      BY <3>1
    <3>3. QED
      BY <3>1, <3>2, NothingShared, Zenon
  <2>3. QED
    BY <2>1, <2>2
<1>2. QED
  BY <1>1, PointInvariance, PTL
=============================================================================
