-------------------------- MODULE ExtensionProofs --------------------------
(***************************************************************************)
(* The transfer extensions, for any numbers of transfers, choices, inputs  *)
(* and sizes of words, rows and batches.  The transposes of ot/utils are   *)
(* the naive one for every matrix.  ExtInv, on top of BaseInv, is          *)
(* inductive and gives ExtensionCorrect.                                   *)
(***************************************************************************)
EXTENDS TwoPartyProofs

-----------------------------------------------------------------------------
(* Words, batches and the bits of the random matrix.                       *)

LEMMA KappaNat ==
  /\ ByteBits \in Nat \ {0} /\ SubSide \in Nat \ {0} /\ kKappa \in Nat \ {0}
  /\ SubSide = 2 * ByteBits /\ kKappa = SubSide * ByteBits
  /\ kBatchSize = kKappa /\ Bits = 0 .. kKappa - 1
<1>1. PICK b \in Nat \ {0} : b = ByteBits
  BY ByteBitsAssumption
<1>2. PICK s \in Nat \ {0} : s = 2 * b
  BY <1>1
<1>3. s * b \in Nat /\ s * b # 0
  BY Z3
<1>4. QED
  BY <1>1, <1>2, <1>3, Zenon DEF SubSide, kKappa, kBatchSize, Bits

\* The batch of a transfer, and its place there.
LEMMA PlaceOf ==
  ASSUME NEW i \in Nat, NEW r \in Bits
  PROVE  /\ i * kKappa + r \in Nat
         /\ (i * kKappa + r) \div kKappa = i /\ (i * kKappa + r) % kKappa = r
<1>1. PICK k \in Nat \ {0} : k = kKappa
  BY KappaNat
<1>2. r \in Nat /\ r < k
  BY <1>1, KappaNat
<1>3. PICK m \in Nat : m = i * k
  OBVIOUS
<1>4. PICK v \in Nat : v = m + r
  BY <1>2
<1>5. v \div k = i /\ v % k = r
  BY <1>2, <1>3, <1>4, Remainder
<1>6. QED
  BY <1>1, <1>3, <1>4, <1>5, Zenon

\* The place of a transfer, from the transfer.
LEMMA PlaceIn ==
  ASSUME NEW j \in Nat
  PROVE  j \div kKappa \in Nat /\ j % kKappa \in Bits /\ j = (j \div kKappa) * kKappa + (j % kKappa)
<1>1. PICK k \in Nat \ {0} : k = kKappa
  BY KappaNat
<1>2. PICK e \in Nat : e = j \div k
  BY EuclidNat
<1>3. PICK r \in Nat : r = j % k
  BY Euclid
<1>4. r < k /\ j = e * k + r
  BY <1>2, <1>3, Euclid
<1>5. r \in 0 .. k - 1
  BY <1>4
<1>6. QED
  BY <1>1, <1>2, <1>3, <1>4, <1>5, KappaNat, Zenon

LEMMA PadBitAt ==
  ASSUME NEW i \in Nat, NEW r \in Bits, NEW c, NEW b
  PROVE  PadBit(c, b, i * kKappa + r) = {<<"prg", Agreed(c + 1, b), i, r>>}
  BY PlaceOf, Zenon DEF PadBit

LEMMA PadBitSame ==
  ASSUME impl' = impl
  PROVE  \A c, b, j : PadBit(c, b, j)' = PadBit(c, b, j)
  BY SameBatch, Zenon DEF PadBit

\* Transfers with the same bit in a column are the same one.
LEMMA PadBitInjective ==
  ASSUME NEW i \in Nat, NEW j \in Nat, NEW c, NEW b, NEW d,
         PadBit(c, b, i) = PadBit(c, d, j)
  PROVE  i = j
<1>1. <<"prg", Agreed(c + 1, b), i \div kKappa, i % kKappa>>
        = <<"prg", Agreed(c + 1, d), j \div kKappa, j % kKappa>>
  BY Zenon DEF PadBit
<1>2. i \div kKappa = j \div kKappa /\ i % kKappa = j % kKappa
  BY <1>1
<1>3. QED
  BY <1>2, PlaceIn, Zenon

\* The transfers in one batch more.
LEMMA NextBatch ==
  ASSUME NEW i \in Nat, n \in Nat, i * kBatchSize < n
  PROVE  /\ Reached(i) \in Nat /\ Reached(i) = i * kKappa
         /\ Limit(i) \in Nat /\ Limit(i) <= kKappa /\ Limit(i) <= n - i * kKappa
         /\ Reached(i + 1) = Reached(i) + Limit(i)
<1>1. PICK k \in Nat \ {0} : k = kKappa /\ k = kBatchSize
  BY KappaNat
<1>2. PICK m \in Nat : m = i * k
  OBVIOUS
<1>3. PICK o \in Nat : o = (i + 1) * k
  OBVIOUS
<1>4. o = m + k
  BY <1>2, <1>3
<1>5. m < n
  BY <1>1, <1>2, Zenon
<1>6. Min({n, m}) = m
  BY <1>5, MinPair
<1>7. Min({n, o}) = IF n <= o THEN n ELSE o
  BY MinPair
<1>8. Min({k, n - m}) = IF k <= n - m THEN k ELSE n - m
  BY MinPair
<1>9. Reached(i) = m /\ Reached(i + 1) = Min({n, o}) /\ Limit(i) = Min({k, n - m})
  BY <1>1, <1>2, <1>3, <1>6, Zenon DEF Reached, Limit
<1>a. Limit(i) \in Nat /\ Limit(i) <= k /\ Limit(i) <= n - m
  BY <1>5, <1>8, <1>9
<1>b. Reached(i + 1) = m + Limit(i)
  BY <1>4, <1>5, <1>7, <1>8, <1>9
<1>c. QED
  BY <1>1, <1>2, <1>9, <1>a, <1>b, Zenon

LEMMA ReachedNat ==
  ASSUME NEW i \in Nat, n \in Nat
  PROVE  Reached(i) \in Nat /\ Reached(i) <= n
<1>1. PICK m \in Nat : m = i * kBatchSize
  BY KappaNat
<1>2. Min({n, m}) = IF n <= m THEN n ELSE m
  BY MinPair
<1>3. QED
  BY <1>1, <1>2 DEF Reached

\* The blocks of a side that has finished.
LEMMA SenderHas ==
  ASSUME BaseInv, BaseSendDone, NEW c \in 0 .. num - 1, NEW b \in 0 .. 1
  PROVE  sBlocks[c + 1][b] = Agreed(c + 1, b)
<1>1. num \in Nat /\ sIdx \in Nat /\ sIdx >= num
  BY DEF BaseInv, BaseTypeInv, SenderInv, BaseSendDone
<1>2. Min({sIdx, num}) = num
  BY <1>1, MinPair
<1>3. sBlocks = [i \in 1 .. num |-> [d \in 0 .. 1 |-> Agreed(i, d)]]
  BY <1>2, Zenon DEF BaseInv, SenderInv
<1>4. c + 1 \in 1 .. num
  BY <1>1
<1>5. QED
  BY <1>3, <1>4, Zenon

LEMMA ReceiverHas ==
  ASSUME BaseInv, BaseRecvDone, NEW c \in 0 .. num - 1
  PROVE  rBlocks[c + 1] = Agreed(c + 1, IF c \in choices THEN 1 ELSE 0)
<1>1. num \in Nat /\ rIdx \in Nat /\ rIdx >= num
  BY DEF BaseInv, BaseTypeInv, ReceiverInv, BaseRecvDone
<1>2. Min({rIdx, num}) = num
  BY <1>1, MinPair
<1>3. rBlocks = [i \in 1 .. num |-> Agreed(i, IF i - 1 \in choices THEN 1 ELSE 0)]
  BY <1>2, Zenon DEF BaseInv, ReceiverInv
<1>4. c + 1 \in 1 .. num /\ (c + 1) - 1 = c
  BY <1>1
<1>5. QED
  BY <1>3, <1>4, Zenon

\* Exclusive or.
LEMMA XorFacts ==
  ASSUME NEW a, NEW b, NEW d
  PROVE  /\ SymDiff(SymDiff(SymDiff(a, b), d), b) = SymDiff(a, d)
         /\ SymDiff(SymDiff(a, d), d) = a
         /\ SymDiff(d, SymDiff(a, d)) = a
         /\ SymDiff(a, b) = SymDiff(b, a)
         /\ SymDiff({}, a) = a /\ SymDiff(a, {}) = a
<1>1. \A f, g, e : e \in SymDiff(f, g) <=> ~(e \in f <=> e \in g)
  BY DEF SymDiff
<1>2. SymDiff(SymDiff(SymDiff(a, b), d), b) = SymDiff(a, d)
  <2>1. \A e : e \in SymDiff(SymDiff(SymDiff(a, b), d), b) <=> e \in SymDiff(a, d)
    BY <1>1
  <2>2. QED
    BY <2>1
<1>3. SymDiff(SymDiff(a, d), d) = a
  <2>1. \A e : e \in SymDiff(SymDiff(a, d), d) <=> e \in a
    BY <1>1
  <2>2. QED
    BY <2>1
<1>4. SymDiff(d, SymDiff(a, d)) = a
  <2>1. \A e : e \in SymDiff(d, SymDiff(a, d)) <=> e \in a
    BY <1>1
  <2>2. QED
    BY <2>1
<1>5. SymDiff(a, b) = SymDiff(b, a)
  <2>1. \A e : e \in SymDiff(a, b) <=> e \in SymDiff(b, a)
    BY <1>1
  <2>2. QED
    BY <2>1
<1>6. SymDiff({}, a) = a /\ SymDiff(a, {}) = a
  <2>1. \A e : (e \in SymDiff({}, a) <=> e \in a) /\ (e \in SymDiff(a, {}) <=> e \in a)
    BY <1>1
  <2>2. QED
    BY <2>1
<1>7. QED
  BY <1>2, <1>3, <1>4, <1>5, <1>6

\* What is mixed in shows.
LEMMA XorShows ==
  ASSUME NEW a, NEW b, NEW d, SymDiff(a, b) = SymDiff(a, d)
  PROVE  b = d
<1>1. \A e, f, g : e \in SymDiff(f, g) <=> ~(e \in f <=> e \in g)
  BY DEF SymDiff
<1>2. QED
  BY <1>1

-----------------------------------------------------------------------------
(* The IKNP extension.                                                     *)

\* A queue of the messages of the batches from s to m - 1: it grows at its end
\* and shrinks at its head.
Grown(r, w, s, m, v) ==
  /\ IsList(r, (m + 1) - s)
  /\ \A i \in s .. m - 1 : r[i - s + 1] = w[i - s + 1]
  /\ r[m - s + 1] = v
Shrunk(r, w, s, m) ==
  /\ IsList(r, m - (s + 1))
  /\ \A i \in s + 1 .. m - 1 : r[i - (s + 1) + 1] = w[i - s + 1]

LEMMA QueueGrows ==
  ASSUME NEW w, NEW s \in Nat, NEW m \in Nat, s <= m, IsList(w, m - s), NEW v
  PROVE  Grown(Append(w, v), w, s, m, v)
<1>1. PICK k \in Nat : k = m - s /\ k + 1 = (m + 1) - s /\ k + 1 = m - s + 1
  OBVIOUS
<1>2. Appended(Append(w, v), w, k, v)
  BY <1>1, ListAppend
<1>3. PICK r : r = Append(w, v)
  OBVIOUS
<1>4. IsList(r, k + 1) /\ r[k + 1] = v /\ \A i \in 1 .. k : r[i] = w[i]
  BY <1>2, <1>3, Zenon DEF Appended
<1>5. \A i \in s .. m - 1 : i - s + 1 \in 1 .. k
  BY <1>1
<1>6. Grown(r, w, s, m, v)
  BY <1>1, <1>4, <1>5, Zenon DEF Grown
<1>7. QED
  BY <1>3, <1>6, Zenon

LEMMA QueueShrinks ==
  ASSUME NEW w, NEW s \in Nat, NEW m \in Nat, s <= m, IsList(w, m - s), w # <<>>
  PROVE  s + 1 <= m /\ Head(w) = w[s - s + 1] /\ Shrunk(Tail(w), w, s, m)
<1>2. m - s # 0
  <2>1. m - s = 0 => w = <<>>
    BY DEF IsList
  <2>2. QED
    BY <2>1
<1>3. PICK k \in Nat : k = m - (s + 1) /\ k + 1 = m - s
  BY <1>2
<1>4. Shortened(Tail(w), w, k) /\ Head(w) = w[1]
  BY <1>3, TailShortens
<1>5. PICK r : r = Tail(w)
  OBVIOUS
<1>6. IsList(r, k) /\ \A i \in 1 .. k : r[i] = w[i + 1]
  BY <1>4, <1>5, Zenon DEF Shortened
<1>7. ASSUME NEW i \in s + 1 .. m - 1 PROVE r[i - (s + 1) + 1] = w[i - s + 1]
  <2>1. PICK p \in 1 .. k : p = i - (s + 1) + 1 /\ p + 1 = i - s + 1
    BY <1>3
  <2>2. r[p] = w[p + 1]
    BY <1>6
  <2>3. QED
    BY <2>1, <2>2
<1>8. s + 1 <= m /\ s - s + 1 = 1
  BY <1>2
<1>9. Shrunk(r, w, s, m)
  BY <1>3, <1>6, <1>7, Zenon DEF Shrunk
<1>a. QED
  BY <1>4, <1>5, <1>8, <1>9, Zenon

\* The results F[1], F[2], ... of the transfers so far, and of those of a batch.
Filled(w, F, a) == w = [j \in 1 .. a |-> F[j]]

LEMMA OutGrows ==
  ASSUME NEW w, NEW F, NEW a \in Nat, NEW m \in Nat, NEW t, Filled(w, F, a),
         IsList(t, m), \A i \in 1 .. m : t[i] = F[a + i]
  PROVE  Filled(w \o t, F, a + m)
<1>1. PICK o \in Nat : o = a + m
  OBVIOUS
<1>2. PICK u : u = [j \in 1 .. o |-> F[j]]
  OBVIOUS
<1>3. IsList(w, a) /\ IsList(u, o)
  BY <1>2, Zenon DEF IsList, Filled
<1>4. \A i \in 1 .. a : i \in 1 .. o
  BY <1>1
<1>5. \A i \in 1 .. a : u[i] = w[i]
  BY <1>2, <1>4, Zenon DEF Filled
<1>6. \A i \in 1 .. m : a + i \in 1 .. o
  BY <1>1
<1>7. \A i \in 1 .. m : u[a + i] = t[i]
  BY <1>2, <1>6, Zenon
<1>8. w \o t = u
  BY <1>1, <1>3, <1>5, <1>7, ListJoin
<1>9. QED
  BY <1>1, <1>2, <1>8, Zenon DEF Filled

LEMMA IknpSame ==
  ASSUME impl' = impl, choices' = choices, inputs' = inputs
  PROVE  \A j : IknpMessage(j)' = IknpMessage(j) /\ IknpPair(j)' = IknpPair(j)
                /\ PadRow(Bits, j)' = PadRow(Bits, j)
<1>1. \A c, b, j : PadBit(c, b, j)' = PadBit(c, b, j)
  BY PadBitSame
<1>2. \A c, j : MixedBit(c, j)' = MixedBit(c, j)
  BY <1>1, Zenon DEF MixedBit
<1>3. \A j, code : SentRow(Bits, j, code)' = SentRow(Bits, j, code')
  BY <1>1, Zenon DEF SentRow
<1>4. ChoiceMask' = ChoiceMask
  BY Zenon DEF ChoiceMask
<1>5. QED
  BY <1>1, <1>2, <1>3, <1>4, Zenon DEF IknpMessage, IknpPair, PadRow

\* What IknpInv says, for a step.
LEMMA IknpRecvKeeps ==
  ASSUME BaseInv, IknpInv, IknpOtExtRecv, UNCHANGED baseVars
  PROVE  IknpInv'
<1> DEFINE gen(b) == [k \in Bits |-> Draw(sBlocks[k + 1][b], rBatch)]
           r == [c \in Bits |-> BitOf(inputs[rBatch * kBatchSize + c] = 1)]
           t == NaiveTranspose(gen(0))
           msg == [k \in Bits |-> XorWord(XorWord(gen(0)[k], gen(1)[k]), r)]
           out == [i \in 1 .. Limit(rBatch) |-> Hash(t[i - 1])]
           G == [j \in Nat |-> Hash(PadRow(Bits, j - 1))]
<1>1. /\ n \in Nat /\ num = kKappa /\ choices \subseteq Bits
      /\ rBatch \in Nat /\ sBatch \in 0 .. rBatch
      /\ IsList(net, rBatch - sBatch)
      /\ \A i \in sBatch .. rBatch - 1 : net[i - sBatch + 1] = IknpMessage(i)
      /\ rOut = [j \in 1 .. Reached(rBatch) |-> Hash(PadRow(Bits, j - 1))]
      /\ sOut = [j \in 1 .. Reached(sBatch) |-> IknpPair(j - 1)]
      /\ q = <<>> /\ StreamIdle
  BY Zenon DEF IknpInv, IsList
<1>2. /\ BaseSendDone /\ rBatch * kBatchSize < n
      /\ net' = Append(net, msg) /\ rOut' = rOut \o out /\ rBatch' = rBatch + 1
      /\ n' = n /\ inputs' = inputs /\ sBatch' = sBatch /\ sOut' = sOut /\ q' = q
      /\ streamVars' = streamVars
  BY Zenon DEF IknpOtExtRecv
<1>3. impl' = impl /\ num' = num /\ choices' = choices
  BY DEF baseVars
<1>4. \A j : IknpMessage(j)' = IknpMessage(j) /\ IknpPair(j)' = IknpPair(j)
             /\ PadRow(Bits, j)' = PadRow(Bits, j)
  BY <1>2, <1>3, IknpSame
<1>5. /\ Reached(rBatch) \in Nat /\ Reached(rBatch) = rBatch * kKappa
      /\ Limit(rBatch) \in Nat /\ Limit(rBatch) <= kKappa
      /\ Reached(rBatch + 1) = Reached(rBatch) + Limit(rBatch)
  BY <1>1, <1>2, NextBatch
<1>6. kBatchSize = kKappa /\ Bits = 0 .. num - 1 /\ kKappa \in Nat \ {0}
  BY <1>1, KappaNat, Zenon
<1>7. ASSUME NEW k \in Bits, NEW b \in 0 .. 1
      PROVE  gen(b)[k] = [c \in Bits |-> PadBit(k, b, rBatch * kKappa + c)]
  <2>1. sBlocks[k + 1][b] = Agreed(k + 1, b)
    BY <1>2, <1>6, SenderHas
  <2>2. gen(b)[k] = [c \in Bits |-> {<<"prg", Agreed(k + 1, b), rBatch, c>>}]
    BY <2>1, Zenon DEF Draw
  <2>3. \A c \in Bits : PadBit(k, b, rBatch * kKappa + c) = {<<"prg", Agreed(k + 1, b), rBatch, c>>}
    BY <1>1, PadBitAt
  <2>4. QED
    BY <2>2, <2>3, Zenon
<1>8. 0 \in 0 .. 1 /\ 1 \in 0 .. 1
  OBVIOUS
<1>9. msg = IknpMessage(rBatch)
  <2>1. ASSUME NEW k \in Bits
        PROVE  XorWord(XorWord(gen(0)[k], gen(1)[k]), r)
                 = [c \in Bits |-> SymDiff(MixedBit(k, rBatch * kBatchSize + c),
                                           BitOf(inputs[rBatch * kBatchSize + c] = 1))]
    <3>1. PICK a : a = [c \in Bits |-> PadBit(k, 0, rBatch * kKappa + c)]
      OBVIOUS
    <3>2. PICK e : e = [c \in Bits |-> PadBit(k, 1, rBatch * kKappa + c)]
      OBVIOUS
    <3>3. XorWord(a, e) = [c \in Bits |-> MixedBit(k, rBatch * kKappa + c)]
      BY <3>1, <3>2, Zenon DEF XorWord, MixedBit
    <3>4. gen(0)[k] = a /\ gen(1)[k] = e
      BY <1>7, <1>8, <3>1, <3>2, Zenon
    <3>5. XorWord(XorWord(a, e), r)
            = [c \in Bits |-> SymDiff(MixedBit(k, rBatch * kKappa + c),
                                      BitOf(inputs[rBatch * kBatchSize + c] = 1))]
      BY <3>3, Zenon DEF XorWord
    <3>6. QED
      BY <1>6, <3>4, <3>5, Zenon
  <2> HIDE DEF gen, r
  <2>2. QED
    BY <2>1, Zenon DEF IknpMessage
<1>a. ASSUME NEW i \in 1 .. Limit(rBatch)
      PROVE  out[i] = Hash(PadRow(Bits, rBatch * kKappa + (i - 1)))
  <2>0. PICK d \in Nat \ {0} : d = kKappa /\ Bits = 0 .. d - 1
    BY KappaNat
  <2>1. i - 1 \in Bits
    BY <1>5, <2>0
  <2>2. t[i - 1] = [k \in Bits |-> gen(0)[k][i - 1]]
    BY <2>1, Zenon DEF NaiveTranspose
  <2>3. ASSUME NEW k \in Bits PROVE gen(0)[k][i - 1] = PadBit(k, 0, rBatch * kKappa + (i - 1))
    <3> HIDE DEF gen
    <3>1. gen(0)[k] = [c \in Bits |-> PadBit(k, 0, rBatch * kKappa + c)]
      BY <1>7, <1>8, Zenon
    <3>2. QED
      BY <2>1, <3>1, Zenon
  <2> HIDE DEF gen
  <2>4. t[i - 1] = PadRow(Bits, rBatch * kKappa + (i - 1))
    BY <2>2, <2>3, Zenon DEF PadRow
  <2> HIDE DEF t
  <2>5. QED
    BY <2>4, Zenon
<1>b. IsList(out, Limit(rBatch))
  <2> HIDE DEF t
  <2>1. QED
    BY Zenon DEF IsList
<1> HIDE DEF msg, out
<1>c. /\ IsList(net', (rBatch + 1) - sBatch)
      /\ \A i \in sBatch .. (rBatch + 1) - 1 : net'[i - sBatch + 1] = IknpMessage(i)
  <2>1. sBatch \in Nat /\ sBatch <= rBatch
    BY <1>1
  <2>a. IsList(net, rBatch - sBatch) /\ rBatch \in Nat /\ net' = Append(net, msg)
    BY <1>1, <1>2
  <2>b. Grown(Append(net, msg), net, sBatch, rBatch, msg)
    BY <2>1, <2>a, QueueGrows
  <2>2. /\ IsList(net', (rBatch + 1) - sBatch)
        /\ \A i \in sBatch .. rBatch - 1 : net'[i - sBatch + 1] = net[i - sBatch + 1]
        /\ net'[rBatch - sBatch + 1] = msg
    BY <2>a, <2>b, Zenon DEF Grown
  <2>3. ASSUME NEW i \in sBatch .. (rBatch + 1) - 1 PROVE net'[i - sBatch + 1] = IknpMessage(i)
    <3>1. i \in sBatch .. rBatch - 1 \/ i = rBatch
      BY <1>1, <2>1
    <3>2. QED
      BY <1>1, <1>9, <2>2, <3>1, Zenon
  <2>4. QED
    BY <2>2, <2>3
<1>d. rOut' = [j \in 1 .. Reached(rBatch + 1) |-> Hash(PadRow(Bits, j - 1))]
  <2>1. PICK a \in Nat : a = Reached(rBatch)
    BY <1>5
  <2>2. PICK m \in Nat : m = Limit(rBatch)
    BY <1>5
  <2>3. \A j : j \in 1 .. a + m => j \in Nat
    OBVIOUS
  <2>4. \A j \in 1 .. a + m : G[j] = Hash(PadRow(Bits, j - 1))
    BY <2>3, Zenon
  <2>5. \A j \in 1 .. a : j \in 1 .. a + m
    OBVIOUS
  <2>6. \A i \in 1 .. m : a + i \in 1 .. a + m /\ (a + i) - 1 = a + (i - 1)
    OBVIOUS
  <2> HIDE DEF G
  <2>7. Filled(rOut, G, a)
    BY <1>1, <2>1, <2>4, <2>5, Zenon DEF Filled
  <2>8. \A i \in 1 .. m : out[i] = G[a + i]
    BY <1>5, <1>a, <2>1, <2>2, <2>4, <2>6, Zenon
  <2>9. Filled(rOut \o out, G, a + m)
    BY <1>b, <2>2, <2>7, <2>8, OutGrows
  <2>a. a + m = Reached(rBatch + 1) /\ rOut' = rOut \o out
    BY <1>2, <1>5, <2>1, <2>2, Zenon
  <2>b. [j \in 1 .. a + m |-> G[j]] = [j \in 1 .. a + m |-> Hash(PadRow(Bits, j - 1))]
    BY <2>4, Zenon
  <2>c. QED
    BY <2>9, <2>a, <2>b, Zenon DEF Filled
<1>e. /\ Reached(rBatch)' = Reached(rBatch + 1) /\ Reached(sBatch)' = Reached(sBatch)
  BY <1>2, Zenon DEF Reached
<1>f. rBatch + 1 \in Nat /\ sBatch \in 0 .. rBatch + 1
  BY <1>1
<1>g. StreamIdle'
  <2>1. /\ T' = T /\ U' = U /\ rCorr' = rCorr /\ sCorr' = sCorr /\ lost' = lost
        /\ calls' = calls /\ shipped' = shipped
    BY <1>2 DEF streamVars
  <2>2. QED
    BY <1>1, <2>1, Zenon DEF StreamIdle
<1>h. /\ net' = [i \in 1 .. rBatch - sBatch |-> net[i]]'
      /\ (\A i \in sBatch .. rBatch - 1 : net[i - sBatch + 1] = IknpMessage(i))'
  BY <1>2, <1>4, <1>c, Zenon DEF IsList
<1>i. rOut' = [j \in 1 .. Reached(rBatch) |-> Hash(PadRow(Bits, j - 1))]'
  BY <1>3, <1>d, <1>e, Zenon DEF PadRow, PadBit, Agreed, BatchOf
<1>j. sOut' = [j \in 1 .. Reached(sBatch) |-> IknpPair(j - 1)]'
  BY <1>1, <1>2, <1>4, <1>e, Zenon
<1>k. /\ n' \in Nat /\ num' = kKappa /\ choices' \subseteq Bits
      /\ rBatch' \in Nat /\ sBatch' \in 0 .. rBatch' /\ q' = <<>>
  BY <1>1, <1>2, <1>3, <1>f
<1>l. QED
  BY <1>g, <1>h, <1>i, <1>j, <1>k, Zenon DEF IknpInv

\* The rows of the sender's matrix.
RowOf(msg, i, r) ==
  NaiveTranspose([k \in Bits |->
    XorWord(IF k \in choices THEN msg[k] ELSE [c \in Bits |-> {}], Draw(rBlocks[k + 1], i))])[r]
IknpRow(j) == SentRow(Bits, j, [c \in Bits |-> BitOf(inputs[j] = 1)])

LEMMA IknpRows ==
  ASSUME BaseInv, BaseRecvDone, num = kKappa, NEW i \in Nat, NEW r \in Bits
  PROVE  RowOf(IknpMessage(i), i, r) = IknpRow(i * kKappa + r)
<1>m. PICK msg : msg = IknpMessage(i)
  OBVIOUS
<1>j. PICK j : j = i * kKappa + r
  OBVIOUS
<1> DEFINE word(k) == XorWord(IF k \in choices THEN msg[k] ELSE [c \in Bits |-> {}],
                              Draw(rBlocks[k + 1], i))
           code == [c \in Bits |-> BitOf(inputs[j] = 1)]
           mat == [k \in Bits |-> word(k)]
<1>1. kBatchSize = kKappa /\ Bits = 0 .. num - 1
  BY KappaNat, Zenon
<1>2. ASSUME NEW k \in Bits
      PROVE  word(k)[r] = IF k \in choices THEN SymDiff(PadBit(k, 0, j), code[k]) ELSE PadBit(k, 0, j)
  <2>0. code[k] = BitOf(inputs[j] = 1)
    OBVIOUS
  <2> HIDE DEF code
  <2>1. rBlocks[k + 1] = Agreed(k + 1, IF k \in choices THEN 1 ELSE 0)
    BY <1>1, ReceiverHas
  <2>2. Draw(rBlocks[k + 1], i)[r] = PadBit(k, IF k \in choices THEN 1 ELSE 0, j)
    <3>1. PICK b : b = IF k \in choices THEN 1 ELSE 0
      OBVIOUS
    <3>2. Draw(Agreed(k + 1, b), i)[r] = {<<"prg", Agreed(k + 1, b), i, r>>}
      BY Zenon DEF Draw
    <3>3. PadBit(k, b, j) = {<<"prg", Agreed(k + 1, b), i, r>>}
      BY <1>j, PadBitAt
    <3>4. QED
      BY <2>1, <3>1, <3>2, <3>3, Zenon
  <2>3. CASE k \in choices
    <3>1. msg[k] = [c \in Bits |-> SymDiff(MixedBit(k, i * kBatchSize + c),
                                           BitOf(inputs[i * kBatchSize + c] = 1))]
      BY <1>m, Zenon DEF IknpMessage
    <3>a. DOMAIN msg[k] = Bits
      BY <3>1, Zenon
    <3>b. msg[k][r] = SymDiff(MixedBit(k, i * kBatchSize + r), BitOf(inputs[i * kBatchSize + r] = 1))
      BY <3>1, Zenon
    <3>c. i * kBatchSize + r = j
      BY <1>1, <1>j, Zenon
    <3>2. DOMAIN msg[k] = Bits /\ msg[k][r] = SymDiff(MixedBit(k, j), code[k])
      BY <2>0, <3>a, <3>b, <3>c, Zenon
    <3>3. word(k)[r] = SymDiff(msg[k][r], Draw(rBlocks[k + 1], i)[r])
      BY <2>3, <3>2, Zenon DEF XorWord
    <3>4. word(k)[r] = SymDiff(SymDiff(SymDiff(PadBit(k, 0, j), PadBit(k, 1, j)), code[k]), PadBit(k, 1, j))
      BY <2>2, <2>3, <3>2, <3>3, Zenon DEF MixedBit
    <3>5. SymDiff(SymDiff(SymDiff(PadBit(k, 0, j), PadBit(k, 1, j)), code[k]), PadBit(k, 1, j))
            = SymDiff(PadBit(k, 0, j), code[k])
      BY XorFacts
    <3>6. QED
      BY <2>3, <3>4, <3>5, Zenon
  <2>4. CASE k \notin choices
    <3>1. word(k)[r] = SymDiff({}, Draw(rBlocks[k + 1], i)[r])
      BY <2>4, Zenon DEF XorWord
    <3>2. QED
      BY <2>2, <2>4, <3>1, XorFacts, Zenon
  <2>5. QED
    BY <2>3, <2>4
<1>3. NaiveTranspose(mat)[r] = [k \in Bits |-> mat[k][r]]
  BY Zenon DEF NaiveTranspose
<1>4. [k \in Bits |-> mat[k][r]] = SentRow(Bits, j, code)
  <2> HIDE DEF code, word
  <2>1. QED
    BY <1>2, Zenon DEF SentRow
<1>5. QED
  BY <1>m, <1>j, <1>3, <1>4, Zenon DEF RowOf, IknpRow

LEMMA IknpSendKeeps ==
  ASSUME BaseInv, IknpInv, IknpOtExtSend, UNCHANGED baseVars
  PROVE  IknpInv'
<1> DEFINE zero == [c \in Bits |-> {}]
           gen_ks == [k \in Bits |-> Draw(rBlocks[k + 1], sBatch)]
           batch == NaiveTranspose([k \in Bits |->
                      XorWord(IF k \in choices THEN Head(net)[k] ELSE zero, gen_ks[k])])
           out == [i \in 1 .. Limit(sBatch) |->
                     [b \in 0 .. 1 |-> Hash(IF b = 0 THEN batch[i - 1]
                                            ELSE XorWord(batch[i - 1], ChoiceMask))]]
           G == [j \in Nat |-> IknpPair(j - 1)]
<1>1. /\ n \in Nat /\ num = kKappa /\ choices \subseteq Bits
      /\ rBatch \in Nat /\ sBatch \in 0 .. rBatch
      /\ IsList(net, rBatch - sBatch)
      /\ \A i \in sBatch .. rBatch - 1 : net[i - sBatch + 1] = IknpMessage(i)
      /\ rOut = [j \in 1 .. Reached(rBatch) |-> Hash(PadRow(Bits, j - 1))]
      /\ sOut = [j \in 1 .. Reached(sBatch) |-> IknpPair(j - 1)]
      /\ q = <<>> /\ StreamIdle
  BY Zenon DEF IknpInv, IsList
<1>2. /\ BaseRecvDone /\ sBatch * kBatchSize < n /\ net # <<>>
      /\ sOut' = sOut \o out /\ net' = Tail(net) /\ sBatch' = sBatch + 1
      /\ n' = n /\ inputs' = inputs /\ rBatch' = rBatch /\ rOut' = rOut /\ q' = q
      /\ streamVars' = streamVars
  BY Zenon DEF IknpOtExtSend
<1>3. impl' = impl /\ num' = num /\ choices' = choices
  BY DEF baseVars
<1>4. \A j : IknpMessage(j)' = IknpMessage(j) /\ IknpPair(j)' = IknpPair(j)
             /\ PadRow(Bits, j)' = PadRow(Bits, j)
  BY <1>2, <1>3, IknpSame
<1>s. sBatch \in Nat /\ sBatch <= rBatch
  BY <1>1
<1>5. /\ Reached(sBatch) \in Nat /\ Reached(sBatch) = sBatch * kKappa
      /\ Limit(sBatch) \in Nat /\ Limit(sBatch) <= kKappa
      /\ Reached(sBatch + 1) = Reached(sBatch) + Limit(sBatch)
  BY <1>1, <1>2, <1>s, NextBatch
<1>6. sBatch + 1 <= rBatch /\ Head(net) = net[sBatch - sBatch + 1] /\ Shrunk(Tail(net), net, sBatch, rBatch)
  BY <1>1, <1>2, <1>s, QueueShrinks
<1>7. Head(net) = IknpMessage(sBatch)
  <2>1. sBatch \in sBatch .. rBatch - 1
    BY <1>1, <1>6, <1>s
  <2>2. QED
    BY <1>1, <1>6, <2>1, Zenon
<1>a. ASSUME NEW i \in 1 .. Limit(sBatch)
      PROVE  out[i] = IknpPair(sBatch * kKappa + (i - 1))
  <2>0. PICK k \in Nat \ {0} : k = kKappa /\ Bits = 0 .. k - 1
    BY KappaNat
  <2>1. PICK r \in Bits : r = i - 1
    BY <1>5, <2>0
  <2>2. RowOf(IknpMessage(sBatch), sBatch, r) = IknpRow(sBatch * kKappa + r)
    BY <1>1, <1>2, <1>s, IknpRows
  <2>3. PICK row : row = IknpRow(sBatch * kKappa + r)
    OBVIOUS
  <2>4. PICK msg : msg = Head(net)
    OBVIOUS
  <2>5. [k1 \in Bits |-> XorWord(IF k1 \in choices THEN msg[k1] ELSE [c \in Bits |-> {}],
                                 Draw(rBlocks[k1 + 1], sBatch))]
          = [k1 \in Bits |-> XorWord(IF k1 \in choices THEN msg[k1] ELSE zero, gen_ks[k1])]
    BY Zenon
  <2>6. batch[r] = RowOf(msg, sBatch, r)
    BY <2>4, <2>5, Zenon DEF RowOf
  <2>7. batch[r] = row
    BY <1>7, <2>2, <2>3, <2>4, <2>6, Zenon
  <2> HIDE DEF batch
  <2>8. out[i] = [b \in 0 .. 1 |-> Hash(IF b = 0 THEN row ELSE XorWord(row, ChoiceMask))]
    BY <2>1, <2>7, Zenon
  <2>9. QED
    BY <2>1, <2>3, <2>8, Zenon DEF IknpPair, IknpRow
<1>b. IsList(out, Limit(sBatch))
  <2> HIDE DEF batch
  <2>1. QED
    BY Zenon DEF IsList
<1> HIDE DEF out
<1>d. sOut' = [j \in 1 .. Reached(sBatch + 1) |-> IknpPair(j - 1)]
  <2>1. PICK a \in Nat : a = Reached(sBatch)
    BY <1>5
  <2>2. PICK m \in Nat : m = Limit(sBatch)
    BY <1>5
  <2>3. \A j : j \in 1 .. a + m => j \in Nat
    OBVIOUS
  <2>4. \A j \in 1 .. a + m : G[j] = IknpPair(j - 1)
    BY <2>3, Zenon
  <2>5. \A j \in 1 .. a : j \in 1 .. a + m
    OBVIOUS
  <2>6. \A i \in 1 .. m : a + i \in 1 .. a + m /\ (a + i) - 1 = a + (i - 1)
    OBVIOUS
  <2> HIDE DEF G
  <2>7. Filled(sOut, G, a)
    BY <1>1, <2>1, <2>4, <2>5, Zenon DEF Filled
  <2>8. \A i \in 1 .. m : out[i] = G[a + i]
    BY <1>5, <1>a, <2>1, <2>2, <2>4, <2>6, Zenon
  <2>9. Filled(sOut \o out, G, a + m)
    BY <1>b, <2>2, <2>7, <2>8, OutGrows
  <2>a. a + m = Reached(sBatch + 1) /\ sOut' = sOut \o out
    BY <1>2, <1>5, <2>1, <2>2, Zenon
  <2>b. [j \in 1 .. a + m |-> G[j]] = [j \in 1 .. a + m |-> IknpPair(j - 1)]
    BY <2>4, Zenon
  <2>c. QED
    BY <2>9, <2>a, <2>b, Zenon DEF Filled
<1>e. Reached(rBatch)' = Reached(rBatch) /\ Reached(sBatch)' = Reached(sBatch + 1)
  BY <1>2, Zenon DEF Reached
<1>f. sBatch + 1 \in 0 .. rBatch
  BY <1>1, <1>6, <1>s
<1>g. StreamIdle'
  <2>1. /\ T' = T /\ U' = U /\ rCorr' = rCorr /\ sCorr' = sCorr /\ lost' = lost
        /\ calls' = calls /\ shipped' = shipped
    BY <1>2 DEF streamVars
  <2>2. QED
    BY <1>1, <2>1, Zenon DEF StreamIdle
<1>h. /\ net' = [i \in 1 .. rBatch - sBatch |-> net[i]]'
      /\ (\A i \in sBatch .. rBatch - 1 : net[i - sBatch + 1] = IknpMessage(i))'
  <2>1. /\ IsList(net', rBatch - (sBatch + 1))
        /\ \A i \in sBatch + 1 .. rBatch - 1 : net'[i - (sBatch + 1) + 1] = net[i - sBatch + 1]
    BY <1>2, <1>6, Zenon DEF Shrunk
  <2>2. \A i \in sBatch + 1 .. rBatch - 1 : i \in sBatch .. rBatch - 1
    BY <1>1, <1>s
  <2>3. \A i \in sBatch + 1 .. rBatch - 1 : net'[i - (sBatch + 1) + 1] = IknpMessage(i)
    BY <1>1, <2>1, <2>2, Zenon
  <2>4. QED
    BY <1>2, <1>4, <2>1, <2>3, Zenon DEF IsList
<1>i. rOut' = [j \in 1 .. Reached(rBatch) |-> Hash(PadRow(Bits, j - 1))]'
  BY <1>1, <1>2, <1>4, <1>e, Zenon
<1>j. sOut' = [j \in 1 .. Reached(sBatch) |-> IknpPair(j - 1)]'
  BY <1>4, <1>d, <1>e, Zenon
<1>k. /\ n' \in Nat /\ num' = kKappa /\ choices' \subseteq Bits
      /\ rBatch' \in Nat /\ sBatch' \in 0 .. rBatch' /\ q' = <<>>
  BY <1>1, <1>2, <1>3, <1>f
<1>l. QED
  BY <1>g, <1>h, <1>i, <1>j, <1>k, Zenon DEF IknpInv

\* The two results of the sender: the receiver's, and one that differs from it
\* in the columns of the secret.
OtherRow(j) == SentRow(Bits, j, [c \in Bits |-> {One}])

LEMMA RowsDiffer ==
  ASSUME NEW columns, NEW j, NEW f, NEW g, NEW k \in columns, k \in choices, f[k] # g[k]
  PROVE  SentRow(columns, j, f) # SentRow(columns, j, g)
<1>1. /\ SentRow(columns, j, f)[k] = SymDiff(PadBit(k, 0, j), f[k])
      /\ SentRow(columns, j, g)[k] = SymDiff(PadBit(k, 0, j), g[k])
  BY Zenon DEF SentRow
<1>2. SymDiff(PadBit(k, 0, j), f[k]) # SymDiff(PadBit(k, 0, j), g[k])
  BY XorShows
<1>3. QED
  BY <1>1, <1>2, Zenon

LEMMA PadRowIs ==
  ASSUME NEW columns, NEW j, NEW f, \A k \in columns : f[k] = {}
  PROVE  SentRow(columns, j, f) = PadRow(columns, j)
<1>1. ASSUME NEW k \in columns PROVE SymDiff(PadBit(k, 0, j), f[k]) = PadBit(k, 0, j)
  BY XorFacts
<1>2. QED
  BY <1>1, Zenon DEF SentRow, PadRow

LEMMA IknpPairIs ==
  ASSUME NEW j, NEW c, c = IF inputs[j] = 1 THEN 1 ELSE 0
  PROVE  /\ IknpPair(j)[c] = Hash(PadRow(Bits, j)) /\ IknpPair(j)[1 - c] = Hash(OtherRow(j))
<1>1. PICK row : row = IknpRow(j)
  OBVIOUS
<1>2. IknpPair(j) = [b \in 0 .. 1 |-> Hash(IF b = 0 THEN row ELSE XorWord(row, ChoiceMask))]
  BY <1>1, Zenon DEF IknpPair, IknpRow
<1>3. 0 \in 0 .. 1 /\ 1 \in 0 .. 1 /\ 1 # 0
  OBVIOUS
<1>4. IknpPair(j)[0] = Hash(row) /\ IknpPair(j)[1] = Hash(XorWord(row, ChoiceMask))
  BY <1>2, <1>3, Zenon
<1>5. \A k \in Bits : ChoiceMask[k] = IF k \in choices THEN {One} ELSE {}
  BY Zenon DEF ChoiceMask, BitOf
<1>6. CASE inputs[j] = 1
  <2>1. row = OtherRow(j)
    BY <1>1, <1>6, Zenon DEF IknpRow, OtherRow, BitOf
  <2>2. DOMAIN row = Bits
    BY <2>1, Zenon DEF OtherRow, SentRow
  <2>3. ASSUME NEW k \in Bits PROVE SymDiff(row[k], ChoiceMask[k]) = PadBit(k, 0, j)
    <3>1. CASE k \in choices
      <4>1. row[k] = SymDiff(PadBit(k, 0, j), {One})
        BY <2>1, <3>1, Zenon DEF OtherRow, SentRow
      <4>2. SymDiff(SymDiff(PadBit(k, 0, j), {One}), {One}) = PadBit(k, 0, j)
        BY XorFacts
      <4>3. QED
        BY <1>5, <3>1, <4>1, <4>2, Zenon
    <3>2. CASE k \notin choices
      <4>1. row[k] = PadBit(k, 0, j)
        BY <2>1, <3>2, Zenon DEF OtherRow, SentRow
      <4>2. SymDiff(PadBit(k, 0, j), {}) = PadBit(k, 0, j)
        BY XorFacts
      <4>3. QED
        BY <1>5, <3>2, <4>1, <4>2, Zenon
    <3>3. QED
      BY <3>1, <3>2
  <2>4. XorWord(row, ChoiceMask) = PadRow(Bits, j)
    BY <2>2, <2>3, Zenon DEF XorWord, PadRow
  <2>5. c = 1 /\ 1 - c = 0
    BY <1>6
  <2>6. QED
    BY <1>4, <2>1, <2>4, <2>5, Zenon
<1>7. CASE inputs[j] # 1
  <2>1. row = PadRow(Bits, j)
    <3>1. \A k \in Bits : [d \in Bits |-> BitOf(inputs[j] = 1)][k] = {}
      BY <1>7, Zenon DEF BitOf
    <3>2. QED
      BY <1>1, <3>1, PadRowIs, Zenon DEF IknpRow
  <2>2. DOMAIN row = Bits
    BY <2>1, Zenon DEF PadRow
  <2>3. ASSUME NEW k \in Bits PROVE SymDiff(row[k], ChoiceMask[k]) = OtherRow(j)[k]
    <3>0. row[k] = PadBit(k, 0, j)
      BY <2>1, Zenon DEF PadRow
    <3>1. CASE k \in choices
      <4>1. OtherRow(j)[k] = SymDiff(PadBit(k, 0, j), {One})
        BY <3>1, Zenon DEF OtherRow, SentRow
      <4>2. QED
        BY <1>5, <3>0, <3>1, <4>1, Zenon
    <3>2. CASE k \notin choices
      <4>1. OtherRow(j)[k] = PadBit(k, 0, j)
        BY <3>2, Zenon DEF OtherRow, SentRow
      <4>2. SymDiff(PadBit(k, 0, j), {}) = PadBit(k, 0, j)
        BY XorFacts
      <4>3. QED
        BY <1>5, <3>0, <3>2, <4>1, <4>2, Zenon
    <3>3. QED
      BY <3>1, <3>2
  <2>4. OtherRow(j) = [k \in Bits |-> OtherRow(j)[k]]
    BY Zenon DEF OtherRow, SentRow
  <2>5. XorWord(row, ChoiceMask) = OtherRow(j)
    BY <2>2, <2>3, <2>4, Zenon DEF XorWord
  <2>6. c = 0 /\ 1 - c = 1
    BY <1>7
  <2>7. QED
    BY <1>4, <2>1, <2>5, <2>6, Zenon
<1>8. QED
  BY <1>6, <1>7

LEMMA HashInjective ==
  ASSUME NEW a, NEW b, Hash(a) = Hash(b)
  PROVE  a = b
  BY DEF Hash

\* No row of the random matrix is used twice.
LEMMA RowsFresh ==
  ASSUME NEW columns, 0 \in columns, NEW i \in Nat, NEW j \in Nat,
         PadRow(columns, i) = PadRow(columns, j)
  PROVE  i = j
<1>1. PadRow(columns, i)[0] = PadBit(0, 0, i) /\ PadRow(columns, j)[0] = PadBit(0, 0, j)
  BY Zenon DEF PadRow
<1>2. PadBit(0, 0, i) = PadBit(0, 0, j)
  BY <1>1, Zenon
<1>3. QED
  BY <1>2, PadBitInjective

LEMMA OutFresh ==
  ASSUME NEW columns, 0 \in columns, NEW m \in Nat, NEW out, T = <<>>,
         out = [j \in 1 .. m |-> Hash(PadRow(columns, j - 1))], out = rOut
  PROVE  PadsFresh
<1>1. ASSUME NEW i \in 1 .. m, NEW j \in 1 .. m, out[i] = out[j]
      PROVE  i = j
  <2>1. PICK a \in Nat, b \in Nat : a = i - 1 /\ b = j - 1
    OBVIOUS
  <2>2. Hash(PadRow(columns, a)) = Hash(PadRow(columns, b))
    BY <1>1, <2>1, Zenon
  <2>3. a = b
    BY <2>2, HashInjective, RowsFresh
  <2>4. QED
    BY <2>1, <2>3
<1>2. DOMAIN rOut = 1 .. m
  BY Zenon
<1>3. DOMAIN T = {}
  OBVIOUS
<1>4. \A i, j \in DOMAIN rOut : rOut[i] = rOut[j] => i = j \/ rOut[i] = NoBlock
  BY <1>1, <1>2, Zenon
<1>5. QED
  BY <1>3, <1>4, Zenon DEF PadsFresh

LEMMA IknpInvCorrect ==
  ASSUME IknpInv
  PROVE  ExtensionCorrect
<1>1. /\ n \in Nat /\ choices \subseteq Bits /\ rBatch \in Nat /\ sBatch \in 0 .. rBatch
      /\ rOut = [j \in 1 .. Reached(rBatch) |-> Hash(PadRow(Bits, j - 1))]
      /\ sOut = [j \in 1 .. Reached(sBatch) |-> IknpPair(j - 1)]
      /\ q = <<>> /\ T = <<>> /\ sCorr = 0
  BY Zenon DEF IknpInv, StreamIdle
<1>2. sBatch \in Nat
  BY <1>1
<1>3. Reached(rBatch) \in Nat /\ Reached(sBatch) \in Nat
  BY <1>1, <1>2, ReachedNat
<1>4. ASSUME NEW i \in DOMAIN rOut \cap DOMAIN sOut, NEW c, c = IF inputs[i - 1] = 1 THEN 1 ELSE 0
      PROVE  rOut[i] = sOut[i][c] /\ (choices # {} => rOut[i] # sOut[i][1 - c])
  <2>1. i \in 1 .. Reached(rBatch) /\ i \in 1 .. Reached(sBatch)
    BY <1>1, <1>4, Zenon
  <2>2. rOut[i] = Hash(PadRow(Bits, i - 1)) /\ sOut[i] = IknpPair(i - 1)
    BY <1>1, <2>1, Zenon
  <2>3. /\ IknpPair(i - 1)[c] = Hash(PadRow(Bits, i - 1))
        /\ IknpPair(i - 1)[1 - c] = Hash(OtherRow(i - 1))
    BY <1>4, IknpPairIs
  <2>4. ASSUME choices # {} PROVE PadRow(Bits, i - 1) # OtherRow(i - 1)
    <3>1. PICK k \in choices : k \in Bits
      BY <1>1, <2>4
    <3>2. PICK f, g : f = [d \in Bits |-> {}] /\ g = [d \in Bits |-> {One}]
      OBVIOUS
    <3>3. f[k] = {} /\ g[k] = {One} /\ f[k] # g[k] /\ \A d \in Bits : f[d] = {}
      BY <3>1, <3>2
    <3>4. SentRow(Bits, i - 1, f) # SentRow(Bits, i - 1, g)
      BY <3>1, <3>3, RowsDiffer
    <3>5. SentRow(Bits, i - 1, f) = PadRow(Bits, i - 1)
      BY <3>3, PadRowIs
    <3>6. QED
      BY <3>2, <3>4, <3>5, Zenon DEF OtherRow
  <2>5. QED
    BY <2>2, <2>3, <2>4, HashInjective, Zenon
<1>5. IknpCorrect
  BY <1>4, Zenon DEF IknpCorrect
<1>6. DOMAIN q = {} /\ 1 .. sCorr = {}
  BY <1>1
<1>7. KkrtCorrect
  BY <1>6, Zenon DEF KkrtCorrect
<1>8. StreamCorrect
  BY <1>6, Zenon DEF StreamCorrect
<1>9. PadsFresh
  <2>1. 0 \in Bits
    BY KappaNat
  <2>2. QED
    BY <1>1, <1>3, <2>1, OutFresh, Zenon
<1>a. QED
  BY <1>5, <1>7, <1>8, <1>9, Zenon DEF ExtensionCorrect

-----------------------------------------------------------------------------
(* Eklundh's transpose.                                                    *)

IsMatrix(m) == m = [r \in Bits |-> [c \in Bits |-> m[r][c]]]

\* The digit a of weight w in v, what is above it and what is below it.
Digits(v, w, h, a, s) ==
  v \in Bits /\ h \in Nat /\ a \in {0, 1} /\ s \in 0 .. w - 1 /\ v = (2 * h + a) * w + s

LEMMA BitsNat == Bits \subseteq Nat /\ \A v \in Nat : v \in Bits <=> v < kKappa
<1>1. PICK k \in Nat \ {0} : k = kKappa /\ Bits = 0 .. k - 1
  BY KappaNat
<1>2. QED
  BY <1>1

LEMMA DigitsExist ==
  ASSUME NEW v \in Bits, NEW w \in Nat \ {0}
  PROVE  \E h, a, s : Digits(v, w, h, a, s)
<1>0. v \in Nat
  BY BitsNat
<1>1. PICK e \in Nat : e = v \div w
  BY <1>0, EuclidNat
<1>2. PICK s \in Nat : s = v % w
  BY <1>0, Euclid
<1>3. s < w /\ v = e * w + s
  BY <1>0, <1>1, <1>2, Euclid
<1>4. PICK h \in Nat, a \in 0 .. 1 : e = 2 * h + a
  BY Halves
<1>5. a \in {0, 1} /\ s \in 0 .. w - 1
  BY <1>3
<1>6. v = (2 * h + a) * w + s
  BY <1>3, <1>4, Zenon
<1>7. QED
  BY <1>5, <1>6, Zenon DEF Digits

LEMMA DigitsUse ==
  ASSUME NEW v, NEW w \in Nat \ {0}, NEW h, NEW a, NEW s, Digits(v, w, h, a, s)
  PROVE  /\ v \div w = 2 * h + a /\ v % w = s /\ (v \div w) % 2 = a
         /\ v \div (2 * w) = h /\ v % (2 * w) = a * w + s
<1>1. v \in Nat /\ h \in Nat /\ a \in {0, 1} /\ s \in Nat /\ s < w /\ v = (2 * h + a) * w + s
  BY BitsNat DEF Digits
<1>2. PICK e \in Nat : e = 2 * h + a
  BY <1>1
<1>3. v = e * w + s
  BY <1>1, <1>2, Zenon
<1>t. v \in Int /\ h \in Int /\ s \in Nat /\ s < w
  BY <1>1
<1>4. v \div w = e /\ v % w = s
  BY <1>3, <1>t, Remainder, SMTT(60)
<1>5. e % 2 = a
  BY <1>1, <1>2
<1>6. PICK d \in Nat \ {0} : d = 2 * w
  OBVIOUS
<1>7. PICK b \in Nat : b = a * w + s
  BY <1>1
<1>8. b < d
  BY <1>1, <1>6, <1>7
<1>9. (2 * h + a) * w = h * (2 * w) + a * w
  BY <1>1, Z3
<1>a. v = h * d + b
  <2>1. PICK o \in Int, p \in Int : o = h * d /\ p = a * w
    BY <1>1
  <2>2. QED
    BY <1>1, <1>6, <1>7, <1>9, <2>1
<1>b. v \div d = h /\ v % d = b
  BY <1>8, <1>a, <1>t, Remainder
<1>c. QED
  BY <1>2, <1>4, <1>5, <1>6, <1>7, <1>b, Zenon

\* The digit set or cleared, within a word of whole double widths.
LEMMA DigitSet ==
  ASSUME NEW v, NEW w \in Nat \ {0}, NEW h, NEW s, Digits(v, w, h, 0, s),
         NEW d \in Nat, kKappa = d * (2 * w)
  PROVE  Digits(v + w, w, h, 1, s)
<1>1. v \in Nat /\ h \in Nat /\ s \in Nat /\ s < w /\ v = (2 * h + 0) * w + s /\ v < kKappa
  BY BitsNat DEF Digits
<1>2. PICK u \in Nat \ {0} : u = 2 * w
  OBVIOUS
<1>3. PICK p \in Nat : p = h * u
  BY <1>1
<1>4. (2 * h + 0) * w = h * (2 * w) /\ (2 * h + 1) * w = h * (2 * w) + w
  BY <1>1, Z3
<1>5. v = p + s
  BY <1>1, <1>2, <1>3, <1>4, Zenon
<1>6. h < d
  <2>1. PICK g \in Int : g = d - h
    BY <1>1
  <2>2. g * u = d * u - h * u
    BY <1>1, <2>1, Z3
  <2>3. PICK o \in Nat : o = d * u /\ o = kKappa
    BY <1>2
  <2>4. g * u > 0
    BY <1>1, <1>3, <1>5, <2>2, <2>3
  <2>5. g <= 0 => g * u <= 0
    BY Z3
  <2>6. g * u \in Int
    OBVIOUS
  <2>7. g > 0
    BY <2>4, <2>5, <2>6
  <2>8. QED
    BY <1>1, <2>1, <2>7
<1>7. p + u <= kKappa
  <2>1. PICK g \in Nat : g = d - (h + 1)
    BY <1>1, <1>6
  <2>2. d * u = h * u + u + g * u
    BY <1>1, <2>1, Z3
  <2>3. PICK o \in Nat : o = g * u
    OBVIOUS
  <2>4. d * u = p + u + o
    BY <1>3, <2>2, <2>3, Zenon
  <2>5. kKappa = p + u + o
    BY <1>2, <2>4, Zenon
  <2>6. QED
    BY <2>5
<1>8. v + w \in Nat /\ v + w < kKappa
  BY <1>1, <1>2, <1>5, <1>7, KappaNat
<1>9. v + w = (2 * h + 1) * w + s
  BY <1>1, <1>2, <1>3, <1>4, <1>5
<1>a. v + w \in Bits /\ 1 \in {0, 1}
  BY <1>8, BitsNat
<1>b. QED
  BY <1>1, <1>9, <1>a DEF Digits

LEMMA DigitCleared ==
  ASSUME NEW v, NEW w \in Nat \ {0}, NEW h, NEW s, Digits(v, w, h, 1, s)
  PROVE  Digits(v - w, w, h, 0, s)
<1>1. v \in Nat /\ h \in Nat /\ s \in Nat /\ s < w /\ v = (2 * h + 1) * w + s /\ v < kKappa
  BY BitsNat DEF Digits
<1>2. PICK p \in Nat : p = (2 * h + 0) * w
  BY <1>1
<1>3. (2 * h + 1) * w = (2 * h + 0) * w + w
  BY <1>1, Z3
<1>4. v - w = p + s
  BY <1>1, <1>2, <1>3
<1>5. v - w \in Nat /\ v - w < kKappa
  BY <1>1, <1>4, KappaNat
<1>6. v - w \in Bits
  BY <1>5, BitsNat
<1>7. QED
  BY <1>1, <1>2, <1>4, <1>6 DEF Digits

\* A width to the left or to the right of a place, the digit is the other one.
LEMMA DigitLeft ==
  ASSUME NEW v, NEW w \in Nat \ {0}, NEW h, NEW s, Digits(v, w, h, 0, s), v >= w
  PROVE  Digits(v - w, w, h - 1, 1, s)
<1>1. v \in Nat /\ h \in Nat /\ s \in Nat /\ s < w /\ v = (2 * h + 0) * w + s /\ v < kKappa
  BY BitsNat DEF Digits
<1>2. h # 0
  <2>1. (2 * 0 + 0) * w = 0
    BY Z3
  <2>2. QED
    BY <1>1, <2>1
<1>3. PICK g \in Nat : g = h - 1
  BY <1>1, <1>2
<1>4. (2 * h + 0) * w = (2 * g + 1) * w + w
  BY <1>1, <1>3, Z3
<1>5. PICK p \in Nat : p = (2 * g + 1) * w
  OBVIOUS
<1>6. v - w = p + s
  BY <1>1, <1>4, <1>5
<1>7. v - w \in Bits
  BY <1>1, <1>6, BitsNat, KappaNat
<1>8. QED
  BY <1>1, <1>3, <1>5, <1>6, <1>7 DEF Digits

LEMMA DigitRight ==
  ASSUME NEW v, NEW w \in Nat \ {0}, NEW h, NEW s, Digits(v, w, h, 1, s), v + w \in Bits
  PROVE  Digits(v + w, w, h + 1, 0, s)
<1>1. v \in Nat /\ h \in Nat /\ s \in Nat /\ s < w /\ v = (2 * h + 1) * w + s
  BY BitsNat DEF Digits
<1>2. (2 * (h + 1) + 0) * w = (2 * h + 1) * w + w
  BY <1>1, Z3
<1>3. PICK p \in Nat : p = (2 * h + 1) * w
  BY <1>1
<1>4. v + w = (2 * (h + 1) + 0) * w + s
  BY <1>1, <1>2, <1>3
<1>5. h + 1 \in Nat /\ s \in 0 .. w - 1
  BY <1>1
<1>6. QED
  BY <1>4, <1>5 DEF Digits

\* The matrix with the digits of weight w and above exchanged between the number
\* of the row and that of the column.
Exchanged(m, w) ==
  [r \in Bits |-> [c \in Bits |-> m[(c \div w) * w + (r % w)][(r \div w) * w + (c % w)]]]

LEMMA ExchangedAt ==
  ASSUME NEW m, NEW w \in Nat \ {0}, NEW r, NEW c, NEW h, NEW a, NEW s, NEW k, NEW b, NEW t,
         Digits(r, w, h, a, s), Digits(c, w, k, b, t)
  PROVE  Exchanged(m, w)[r][c] = m[(2 * k + b) * w + s][(2 * h + a) * w + t]
<1>1. r \in Bits /\ c \in Bits
  BY Zenon DEF Digits
<1>2. r \div w = 2 * h + a /\ r % w = s /\ c \div w = 2 * k + b /\ c % w = t
  BY DigitsUse
<1>3. Exchanged(m, w)[r][c] = m[(c \div w) * w + (r % w)][(r \div w) * w + (c % w)]
  BY <1>1, Zenon DEF Exchanged
<1>4. QED
  BY <1>2, <1>3, Zenon

LEMMA ExchangedBefore ==
  ASSUME NEW m, NEW w \in Nat \ {0}, NEW r, NEW c, NEW h, NEW a, NEW s, NEW k, NEW b, NEW t,
         Digits(r, w, h, a, s), Digits(c, w, k, b, t)
  PROVE  Exchanged(m, 2 * w)[r][c] = m[(2 * k + a) * w + s][(2 * h + b) * w + t]
<1>1. r \in Bits /\ c \in Bits
  BY Zenon DEF Digits
<1>2. /\ r \div (2 * w) = h /\ r % (2 * w) = a * w + s
      /\ c \div (2 * w) = k /\ c % (2 * w) = b * w + t
  BY DigitsUse
<1>4. Exchanged(m, 2 * w)[r][c]
        = m[(c \div (2 * w)) * (2 * w) + (r % (2 * w))][(r \div (2 * w)) * (2 * w) + (c % (2 * w))]
  BY <1>1, Zenon DEF Exchanged
<1>5. h \in Nat /\ k \in Nat /\ a \in Nat /\ b \in Nat /\ s \in Nat /\ t \in Nat
  BY DEF Digits
<1>6. ASSUME NEW e \in Nat, NEW f \in Nat, NEW g \in Nat
      PROVE  e * (2 * w) + (f * w + g) = (2 * e + f) * w + g
  BY Z3
<1>7. /\ k * (2 * w) + (a * w + s) = (2 * k + a) * w + s
      /\ h * (2 * w) + (b * w + t) = (2 * h + b) * w + t
  BY <1>5, <1>6
<1>9. /\ (c \div (2 * w)) * (2 * w) + (r % (2 * w)) = (2 * k + a) * w + s
      /\ (r \div (2 * w)) * (2 * w) + (c % (2 * w)) = (2 * h + b) * w + t
  <2>1. /\ (c \div (2 * w)) * (2 * w) + (r % (2 * w)) = k * (2 * w) + (a * w + s)
        /\ (r \div (2 * w)) * (2 * w) + (c % (2 * w)) = h * (2 * w) + (b * w + t)
    BY <1>2, Zenon
  <2>2. QED
    BY <1>7, <2>1, Zenon
<1>a. QED
  BY <1>4, <1>9, Zenon

LEMMA MaskIs ==
  ASSUME NEW v, NEW w \in Nat \ {0}, NEW h, NEW a, NEW s, Digits(v, w, h, a, s)
  PROVE  (v \in trans_mask(w) <=> a = 0) /\ (v \in trans_mask_inv(w) <=> a = 1)
<1>1. v \in Bits /\ a \in {0, 1}
  BY Zenon DEF Digits
<1>2. (v \div w) % 2 = a
  BY DigitsUse
<1>3. v \in trans_mask(w) <=> a = 0
  BY <1>1, <1>2, Zenon DEF trans_mask
<1>4. QED
  BY <1>1, <1>3 DEF trans_mask_inv

\* One round, at a row of the upper and one of the lower half of a square.
LEMMA UpperRow ==
  ASSUME NEW m, IsMatrix(m), NEW w \in Nat \ {0}, NEW d \in Nat, kKappa = d * (2 * w),
         NEW r, NEW c, NEW h, NEW s, NEW k, NEW b, NEW t,
         Digits(r, w, h, 0, s), Digits(c, w, k, b, t)
  PROVE  EklundhStep(m, w)[r][c] = IF b = 0 THEN m[r][c] ELSE m[r + w][c - w]
<1> DEFINE mask == trans_mask(w)
           lower == ShiftLeft(AndMask(m[r + w], mask), w)
<1>1. r \in Bits /\ c \in Bits /\ b \in {0, 1} /\ c \in Nat
  BY BitsNat, Zenon DEF Digits
<1>2. r \in mask /\ (c \in mask <=> b = 0)
  BY MaskIs
<1>3. r + w \in Bits
  BY DigitSet DEF Digits
<1>4. DOMAIN m[r] = Bits /\ DOMAIN m[r + w] = Bits
  BY <1>1, <1>3, Zenon DEF IsMatrix
<1>5. EklundhStep(m, w)[r] = XorWord(AndMask(m[r], mask), lower)
  BY <1>1, <1>2, Zenon DEF EklundhStep
<1>6. AndMask(m[r], mask)[c] = IF b = 0 THEN m[r][c] ELSE {}
  BY <1>1, <1>2, <1>4, Zenon DEF AndMask
<1>7. DOMAIN AndMask(m[r], mask) = Bits
  BY <1>4, Zenon DEF AndMask
<1>8. lower[c] = IF b = 0 THEN {} ELSE m[r + w][c - w]
  <2>1. lower[c] = IF c >= w THEN AndMask(m[r + w], mask)[c - w] ELSE {}
    BY <1>1, Zenon DEF ShiftLeft
  <2>2. CASE b = 0
    <3>1. ASSUME c >= w PROVE c - w \in Bits /\ c - w \notin mask
      <4>1. Digits(c - w, w, k - 1, 1, t)
        BY <2>2, <3>1, DigitLeft
      <4>2. c - w \in Bits
        BY <4>1, Zenon DEF Digits
      <4>3. c - w \in trans_mask(w) <=> 1 = 0
        BY <4>1, MaskIs
      <4>4. QED
        BY <4>2, <4>3
    <3>2. c >= w => AndMask(m[r + w], mask)[c - w] = {}
      BY <1>4, <3>1, Zenon DEF AndMask
    <3>3. QED
      BY <2>1, <2>2, <3>2, Zenon
  <2>3. CASE b = 1
    <3>1. Digits(c - w, w, k, 0, t)
      BY <2>3, DigitCleared
    <3>2. c - w \in Bits /\ c - w \in mask
      BY <3>1, MaskIs DEF Digits
    <3>3. c >= w
      <4>1. c - w \in Nat
        BY <3>2, BitsNat
      <4>2. QED
        BY <1>1, <4>1
    <3>4. AndMask(m[r + w], mask)[c - w] = m[r + w][c - w]
      BY <1>4, <3>2, Zenon DEF AndMask
    <3>5. b # 0
      BY <2>3
    <3>6. QED
      BY <2>1, <3>3, <3>4, <3>5, Zenon
  <2>4. QED
    BY <1>1, <2>2, <2>3
<1>9. EklundhStep(m, w)[r][c] = SymDiff(AndMask(m[r], mask)[c], lower[c])
  <2> HIDE DEF lower, mask
  <2>1. QED
    BY <1>1, <1>5, <1>7, Zenon DEF XorWord
<1>a. QED
  <2> HIDE DEF lower, mask
  <2>1. SymDiff(m[r][c], {}) = m[r][c] /\ SymDiff({}, m[r + w][c - w]) = m[r + w][c - w]
    BY XorFacts
  <2>2. QED
    BY <1>6, <1>8, <1>9, <2>1, Zenon

LEMMA LowerRow ==
  ASSUME NEW m, IsMatrix(m), NEW w \in Nat \ {0}, NEW d \in Nat, kKappa = d * (2 * w),
         NEW r, NEW c, NEW h, NEW s, NEW k, NEW b, NEW t,
         Digits(r, w, h, 1, s), Digits(c, w, k, b, t)
  PROVE  EklundhStep(m, w)[r][c] = IF b = 1 THEN m[r][c] ELSE m[r - w][c + w]
<1> DEFINE inv == trans_mask_inv(w)
           upper == ShiftRight(AndMask(m[r - w], inv), w)
<1>1. r \in Bits /\ c \in Bits /\ b \in {0, 1} /\ c \in Nat
  BY BitsNat, Zenon DEF Digits
<1>2. r \notin trans_mask(w) /\ (c \in inv <=> b = 1)
  BY MaskIs
<1>3. r - w \in Bits
  BY DigitCleared DEF Digits
<1>4. DOMAIN m[r] = Bits /\ DOMAIN m[r - w] = Bits
  BY <1>1, <1>3, Zenon DEF IsMatrix
<1>5. EklundhStep(m, w)[r] = XorWord(AndMask(m[r], inv), upper)
  BY <1>1, <1>2, Zenon DEF EklundhStep
<1>6. AndMask(m[r], inv)[c] = IF b = 1 THEN m[r][c] ELSE {}
  BY <1>1, <1>2, <1>4, Zenon DEF AndMask
<1>7. DOMAIN AndMask(m[r], inv) = Bits
  BY <1>4, Zenon DEF AndMask
<1>8. upper[c] = IF b = 1 THEN {} ELSE m[r - w][c + w]
  <2>1. upper[c] = IF c + w \in Bits THEN AndMask(m[r - w], inv)[c + w] ELSE {}
    BY <1>1, Zenon DEF ShiftRight
  <2>2. CASE b = 1
    <3>1. ASSUME c + w \in Bits PROVE c + w \notin inv
      <4>1. Digits(c + w, w, k + 1, 0, t)
        BY <2>2, <3>1, DigitRight
      <4>2. QED
        BY <4>1, MaskIs
    <3>2. c + w \in Bits => AndMask(m[r - w], inv)[c + w] = {}
      BY <1>4, <3>1, Zenon DEF AndMask
    <3>3. QED
      BY <2>1, <2>2, <3>2, Zenon
  <2>3. CASE b = 0
    <3>1. Digits(c + w, w, k, 1, t)
      BY <2>3, DigitSet
    <3>2. c + w \in Bits /\ c + w \in inv
      BY <3>1, MaskIs DEF Digits
    <3>4. AndMask(m[r - w], inv)[c + w] = m[r - w][c + w]
      BY <1>4, <3>2, Zenon DEF AndMask
    <3>5. b # 1
      BY <2>3
    <3>6. QED
      BY <2>1, <3>2, <3>4, <3>5, Zenon
  <2>4. QED
    BY <1>1, <2>2, <2>3
<1>9. EklundhStep(m, w)[r][c] = SymDiff(AndMask(m[r], inv)[c], upper[c])
  <2> HIDE DEF upper, inv
  <2>1. QED
    BY <1>1, <1>5, <1>7, Zenon DEF XorWord
<1>a. QED
  <2> HIDE DEF upper, inv
  <2>1. SymDiff(m[r][c], {}) = m[r][c] /\ SymDiff({}, m[r - w][c + w]) = m[r - w][c + w]
    BY XorFacts
  <2>2. QED
    BY <1>6, <1>8, <1>9, <2>1, Zenon

LEMMA ExchangedMatrix ==
  ASSUME NEW m, NEW w
  PROVE  IsMatrix(Exchanged(m, w))
<1> DEFINE at(r, c) == m[(c \div w) * w + (r % w)][(r \div w) * w + (c % w)]
<1>1. Exchanged(m, w) = [r \in Bits |-> [c \in Bits |-> at(r, c)]]
  BY Zenon DEF Exchanged
<1>2. \A r \in Bits, c \in Bits : Exchanged(m, w)[r][c] = at(r, c)
  BY Zenon DEF Exchanged
<1> HIDE DEF at
<1>3. Exchanged(m, w) = [r \in Bits |-> [c \in Bits |-> Exchanged(m, w)[r][c]]]
  <2>1. \A r \in Bits : [c \in Bits |-> at(r, c)] = [c \in Bits |-> Exchanged(m, w)[r][c]]
    BY <1>2, Zenon
  <2> DEFINE f == [r \in Bits |-> [c \in Bits |-> Exchanged(m, w)[r][c]]]
  <2>2. \A r \in Bits : f[r] = [c \in Bits |-> at(r, c)]
    BY <2>1, Zenon
  <2>3. f = [r \in Bits |-> f[r]]
    BY Zenon
  <2> HIDE DEF f
  <2>4. f = [r \in Bits |-> [c \in Bits |-> at(r, c)]]
    BY <2>2, <2>3, Zenon
  <2>5. QED
    BY <1>1, <2>4, Zenon DEF f
<1>4. QED
  BY <1>3, Zenon DEF IsMatrix

LEMMA EklundhMatrix ==
  ASSUME NEW m, IsMatrix(m), NEW w
  PROVE  IsMatrix(EklundhStep(m, w))
<1> DEFINE f == EklundhStep(m, w)
<1>1. \A r \in Bits : DOMAIN m[r] = Bits
  BY Zenon DEF IsMatrix
<1>2. ASSUME NEW r \in Bits PROVE f[r] = [c \in Bits |-> f[r][c]]
  <2>1. PICK a, b : f[r] = XorWord(a, b) /\ DOMAIN a = Bits
    <3>1. CASE r \in trans_mask(w)
      <4>1. f[r] = XorWord(AndMask(m[r], trans_mask(w)),
                           ShiftLeft(AndMask(m[r + w], trans_mask(w)), w))
        BY <3>1, Zenon DEF EklundhStep
      <4>2. DOMAIN AndMask(m[r], trans_mask(w)) = Bits
        BY <1>1, Zenon DEF AndMask
      <4>3. QED
        BY <4>1, <4>2, Zenon
    <3>2. CASE r \notin trans_mask(w)
      <4>1. f[r] = XorWord(AndMask(m[r], trans_mask_inv(w)),
                           ShiftRight(AndMask(m[r - w], trans_mask_inv(w)), w))
        BY <3>2, Zenon DEF EklundhStep
      <4>2. DOMAIN AndMask(m[r], trans_mask_inv(w)) = Bits
        BY <1>1, Zenon DEF AndMask
      <4>3. QED
        BY <4>1, <4>2, Zenon
    <3>3. QED
      BY <3>1, <3>2, Zenon
  <2> HIDE DEF f
  <2>2. XorWord(a, b) = [c \in Bits |-> XorWord(a, b)[c]]
    BY <2>1, Zenon DEF XorWord
  <2>3. QED
    BY <2>1, <2>2, Zenon
<1>3. f = [r \in Bits |-> f[r]]
  BY Zenon DEF EklundhStep
<1> HIDE DEF f
<1>4. f = [r \in Bits |-> [c \in Bits |-> f[r][c]]]
  BY <1>2, <1>3, Zenon
<1>5. QED
  BY <1>4, Zenon DEF IsMatrix, f

LEMMA SameMatrix ==
  ASSUME NEW f, NEW g, IsMatrix(f), IsMatrix(g), \A r \in Bits, c \in Bits : f[r][c] = g[r][c]
  PROVE  f = g
  BY Zenon DEF IsMatrix

\* A round exchanges one digit more.
LEMMA EklundhRound ==
  ASSUME NEW m, NEW w \in Nat \ {0}, NEW d \in Nat, kKappa = d * (2 * w)
  PROVE  EklundhStep(Exchanged(m, 2 * w), w) = Exchanged(m, w)
<1> DEFINE old == Exchanged(m, 2 * w)
           new == Exchanged(m, w)
<1>1. IsMatrix(old) /\ IsMatrix(new)
  BY ExchangedMatrix
<1>2. ASSUME NEW r \in Bits, NEW c \in Bits PROVE EklundhStep(old, w)[r][c] = new[r][c]
  <2>1. PICK h, a, s : Digits(r, w, h, a, s)
    BY DigitsExist
  <2>2. PICK k, b, t : Digits(c, w, k, b, t)
    BY DigitsExist
  <2>3. a \in {0, 1} /\ b \in {0, 1}
    BY <2>1, <2>2, Zenon DEF Digits
  <2>4. new[r][c] = m[(2 * k + b) * w + s][(2 * h + a) * w + t]
    BY <2>1, <2>2, ExchangedAt
  <2>5. old[r][c] = m[(2 * k + a) * w + s][(2 * h + b) * w + t]
    BY <2>1, <2>2, ExchangedBefore
  <2>6. CASE a = 0
    <3>1. Digits(r, w, h, 0, s)
      BY <2>1, <2>6
    <3>2. EklundhStep(old, w)[r][c] = IF b = 0 THEN old[r][c] ELSE old[r + w][c - w]
      <4> HIDE DEF old, new
      <4>1. QED
        BY <1>1, <2>2, <3>1, UpperRow
    <3>3. CASE b = 0
      <4> HIDE DEF old, new
      <4>5. new[r][c] = old[r][c]
        BY <2>6, <2>4, <2>5, <3>3, Zenon
      <4>3. EklundhStep(old, w)[r][c] = old[r][c]
        BY <3>2, <3>3, Zenon
      <4>4. QED
        BY <4>3, <4>5, Zenon
    <3>4. CASE b = 1
      <4>1. Digits(c, w, k, 1, t)
        BY <2>2, <3>4
      <4>2. Digits(c - w, w, k, 0, t) /\ Digits(r + w, w, h, 1, s)
        BY <3>1, <4>1, DigitSet, DigitCleared
      <4>3. old[r + w][c - w] = m[(2 * k + 1) * w + s][(2 * h + 0) * w + t]
        <5>1. PICK e, f, o, z : e = r + w /\ f = c - w /\ o = 1 /\ z = 0
          BY Zenon
        <5>2. Digits(f, w, k, z, t) /\ Digits(e, w, h, o, s)
          BY <4>2, <5>1, Zenon
        <5>3. old[e][f] = m[(2 * k + o) * w + s][(2 * h + z) * w + t]
          BY <5>2, ExchangedBefore
        <5> HIDE DEF old
        <5>4. QED
          BY <5>1, <5>3, Zenon
      <4> HIDE DEF old, new
      <4>4. new[r][c] = m[(2 * k + 1) * w + s][(2 * h + 0) * w + t]
        BY <2>6, <2>4, <3>4, Zenon
      <4>5. b # 0
        BY <3>4
      <4>6. EklundhStep(old, w)[r][c] = old[r + w][c - w]
        BY <3>2, <4>5, Zenon
      <4>7. QED
        BY <4>3, <4>4, <4>6, Zenon
    <3>5. QED
      BY <2>3, <3>3, <3>4, Zenon
  <2>7. CASE a = 1
    <3>1. Digits(r, w, h, 1, s)
      BY <2>1, <2>7
    <3>2. EklundhStep(old, w)[r][c] = IF b = 1 THEN old[r][c] ELSE old[r - w][c + w]
      <4> HIDE DEF old, new
      <4>1. QED
        BY <1>1, <2>2, <3>1, LowerRow
    <3>3. CASE b = 1
      <4> HIDE DEF old, new
      <4>5. new[r][c] = old[r][c]
        BY <2>7, <2>4, <2>5, <3>3, Zenon
      <4>3. EklundhStep(old, w)[r][c] = old[r][c]
        BY <3>2, <3>3, Zenon
      <4>4. QED
        BY <4>3, <4>5, Zenon
    <3>4. CASE b = 0
      <4>1. Digits(c, w, k, 0, t)
        BY <2>2, <3>4
      <4>2. Digits(c + w, w, k, 1, t) /\ Digits(r - w, w, h, 0, s)
        BY <3>1, <4>1, DigitSet, DigitCleared
      <4>3. old[r - w][c + w] = m[(2 * k + 0) * w + s][(2 * h + 1) * w + t]
        <5>1. PICK e, f, o, z : e = r - w /\ f = c + w /\ o = 0 /\ z = 1
          BY Zenon
        <5>2. Digits(f, w, k, z, t) /\ Digits(e, w, h, o, s)
          BY <4>2, <5>1, Zenon
        <5>3. old[e][f] = m[(2 * k + o) * w + s][(2 * h + z) * w + t]
          BY <5>2, ExchangedBefore
        <5> HIDE DEF old
        <5>4. QED
          BY <5>1, <5>3, Zenon
      <4> HIDE DEF old, new
      <4>4. new[r][c] = m[(2 * k + 0) * w + s][(2 * h + 1) * w + t]
        BY <2>7, <2>4, <3>4, Zenon
      <4>5. b # 1
        BY <3>4
      <4>6. EklundhStep(old, w)[r][c] = old[r - w][c + w]
        BY <3>2, <4>5, Zenon
      <4>7. QED
        BY <4>3, <4>4, <4>6, Zenon
    <3>5. QED
      BY <2>3, <3>3, <3>4, Zenon
  <2>8. QED
    BY <2>3, <2>6, <2>7, Zenon
<1> HIDE DEF old, new
<1>3. IsMatrix(EklundhStep(old, w))
  BY <1>1, EklundhMatrix
<1>4. EklundhStep(old, w) = new
  BY <1>1, <1>2, <1>3, SameMatrix
<1>5. QED
  BY <1>4, Zenon DEF old, new

LEMMA ExchangedNone ==
  ASSUME NEW m, IsMatrix(m)
  PROVE  Exchanged(m, kKappa) = m
<1>1. ASSUME NEW v \in Bits PROVE v \div kKappa = 0 /\ v % kKappa = v
  <2>1. PICK k \in Nat \ {0} : k = kKappa
    BY KappaNat
  <2>2. v \in Nat /\ v < k
    BY <2>1, BitsNat
  <2>3. 0 * k = 0
    BY Z3
  <2>4. v = 0 * k + v /\ 0 \in Int /\ v \in Int
    BY <2>2, <2>3
  <2>5. QED
    BY <2>1, <2>2, <2>4, Remainder
<1>2. ASSUME NEW v \in Bits PROVE 0 * kKappa + v = v
  <2>1. 0 * kKappa = 0
    BY KappaNat, Z3
  <2>2. v \in Nat
    BY BitsNat
  <2>3. QED
    BY <2>1, <2>2
<1>3. ASSUME NEW r \in Bits, NEW c \in Bits PROVE Exchanged(m, kKappa)[r][c] = m[r][c]
  <2>1. Exchanged(m, kKappa)[r][c]
          = m[(c \div kKappa) * kKappa + (r % kKappa)][(r \div kKappa) * kKappa + (c % kKappa)]
    BY Zenon DEF Exchanged
  <2>2. /\ (c \div kKappa) * kKappa + (r % kKappa) = 0 * kKappa + r
        /\ (r \div kKappa) * kKappa + (c % kKappa) = 0 * kKappa + c
    BY <1>1, Zenon
  <2>3. QED
    BY <1>2, <2>1, <2>2, Zenon
<1>4. IsMatrix(Exchanged(m, kKappa))
  BY ExchangedMatrix
<1>5. QED
  BY <1>3, <1>4, SameMatrix

LEMMA ExchangedAll ==
  ASSUME NEW m
  PROVE  Exchanged(m, 1) = NaiveTranspose(m)
<1>1. ASSUME NEW r \in Bits, NEW c \in Bits
      PROVE  (c \div 1) * 1 + (r % 1) = c
  <2>1. r \in Nat /\ c \in Nat
    BY BitsNat
  <2>2. QED
    BY <2>1
<1>2. \A r \in Bits, c \in Bits :
        m[(c \div 1) * 1 + (r % 1)][(r \div 1) * 1 + (c % 1)] = m[c][r]
  BY <1>1, Zenon
<1>3. QED
  BY <1>2, Zenon DEF Exchanged, NaiveTranspose

LEMMA LognIs == logn \in Nat /\ Pow2[logn] = kKappa
<1> DEFINE P(l) == Pow2[l] = kKappa
<1>1. \E l \in 0 .. kKappa : P(l)
  BY ByteBitsAssumption
<1>2. logn = CHOOSE l \in 0 .. kKappa : P(l)
  BY Zenon DEF logn
<1> HIDE DEF P
<1>3. logn \in 0 .. kKappa /\ P(logn)
  BY <1>1, <1>2, Zenon
<1>4. QED
  BY <1>3, KappaNat DEF P

LEMMA RoundOf ==
  ASSUME NEW m, NEW i \in 1 .. logn
  PROVE  EklundhStep(Exchanged(m, Pow2[logn - (i - 1)]), Pow2[logn - i])
           = Exchanged(m, Pow2[logn - i])
<1>1. PICK p \in Nat : p = logn - i /\ logn - (i - 1) = p + 1
  BY LognIs
<1>2. PICK w \in Nat \ {0} : w = Pow2[p] /\ Pow2[p + 1] = 2 * w
  BY PowerAt
<1>3. PICK d \in Nat : d = Pow2[i - 1]
  <2>1. i - 1 \in Nat
    OBVIOUS
  <2>2. QED
    BY <2>1, PowerAt
<1>4. kKappa = d * (2 * w)
  <2>1. i - 1 \in Nat /\ p + 1 \in Nat /\ (i - 1) + (p + 1) = logn
    BY <1>1, LognIs
  <2>2. Pow2[i - 1] * Pow2[p + 1] = Pow2[(i - 1) + (p + 1)]
    BY <2>1, PowerSum
  <2>3. QED
    BY <1>2, <1>3, <2>1, <2>2, LognIs, Zenon
<1>5. EklundhStep(Exchanged(m, 2 * w), w) = Exchanged(m, w)
  BY <1>4, EklundhRound
<1>6. QED
  BY <1>1, <1>2, <1>5, Zenon

LEMMA EklundhIsNaive ==
  ASSUME NEW m, IsMatrix(m)
  PROVE  EklundhTranspose128(m) = NaiveTranspose(m)
<1> DEFINE Is(f) == f = [i \in 0 .. logn |-> IF i = 0 THEN m
                                             ELSE EklundhStep(f[i - 1], Pow2[logn - i])]
           at(i) == Exchanged(m, Pow2[logn - i])
           h == [i \in 0 .. logn |-> at(i)]
           round == CHOOSE f : Is(f)
<1>1. at(0) = m
  <2>1. logn - 0 = logn
    BY LognIs
  <2>2. QED
    BY <2>1, LognIs, ExchangedNone, Zenon
<1>2. at(logn) = NaiveTranspose(m)
  <2>1. logn - logn = 0
    BY LognIs
  <2>2. Pow2[0] = 1
    BY Pow2Def
  <2>3. QED
    BY <2>1, <2>2, ExchangedAll, Zenon
<1>3. ASSUME NEW i \in 1 .. logn PROVE at(i) = EklundhStep(at(i - 1), Pow2[logn - i])
  BY RoundOf, Zenon
<1> HIDE DEF at
<1>4. Is(h)
  <2>1. ASSUME NEW i \in 0 .. logn
        PROVE  h[i] = IF i = 0 THEN m ELSE EklundhStep(h[i - 1], Pow2[logn - i])
    <3>1. CASE i = 0
      BY <1>1, <3>1, Zenon
    <3>2. CASE i # 0
      <4>1. i \in 1 .. logn /\ i - 1 \in 0 .. logn
        BY <3>2, LognIs
      <4>2. h[i] = at(i) /\ h[i - 1] = at(i - 1)
        BY <4>1, Zenon
      <4> HIDE DEF h
      <4>3. QED
        BY <1>3, <3>2, <4>1, <4>2, Zenon
    <3>3. QED
      BY <3>1, <3>2, Zenon
  <2>2. h = [i \in 0 .. logn |-> h[i]]
    BY Zenon
  <2> HIDE DEF h
  <2>3. QED
    BY <2>1, <2>2, Zenon
<1> HIDE DEF h
<1>5. Is(round)
  <2> HIDE DEF Is
  <2>1. QED
    BY <1>4, Zenon
<1>6. EklundhTranspose128(m) = round[logn]
  BY Zenon DEF EklundhTranspose128
<1> HIDE DEF round
<1>7. \A i \in 0 .. logn : round[i] = IF i = 0 THEN m ELSE EklundhStep(round[i - 1], Pow2[logn - i])
  BY <1>5, Zenon
<1> HIDE DEF Is
<1> DEFINE S == {i \in Nat : i <= logn => round[i] = at(i)}
<1>8. 0 \in S
  <2>1. 0 \in 0 .. logn
    BY LognIs
  <2>2. round[0] = m
    BY <1>7, <2>1, Zenon
  <2>3. QED
    BY <1>1, <2>2
<1>9. ASSUME NEW i \in Nat, i \in S PROVE i + 1 \in S
  <2> SUFFICES ASSUME i + 1 <= logn PROVE round[i + 1] = at(i + 1)
    OBVIOUS
  <2>1. i + 1 \in 1 .. logn /\ i + 1 \in 0 .. logn /\ (i + 1) - 1 = i /\ i + 1 # 0 /\ i <= logn
    BY LognIs
  <2>2. round[i] = at(i)
    BY <1>9, <2>1
  <2>3. round[i + 1] = EklundhStep(round[(i + 1) - 1], Pow2[logn - (i + 1)])
    BY <1>7, <2>1, Zenon
  <2>4. at(i + 1) = EklundhStep(at((i + 1) - 1), Pow2[logn - (i + 1)])
    BY <1>3, <2>1, Zenon
  <2>5. QED
    BY <2>1, <2>2, <2>3, <2>4, Zenon
<1>a. Nat \subseteq S
  <2> HIDE DEF S
  <2>1. QED
    BY <1>8, <1>9, Induction
<1>b. round[logn] = at(logn)
  BY <1>a, LognIs
<1>c. QED
  BY <1>2, <1>6, <1>b, Zenon

-----------------------------------------------------------------------------
(* The SSE transpose.                                                      *)

\* A place by sub-square, byte and bit.
LEMMA ByteOf ==
  ASSUME NEW v \in Bits
  PROVE  /\ v \div SubSide \in Nat /\ v % SubSide \in 0 .. SubSide - 1
         /\ (v % SubSide) \div ByteBits \in 0 .. 1 /\ v % ByteBits \in 0 .. ByteBits - 1
         /\ ByteBits - 1 - (ByteBits - 1 - (v % ByteBits)) = v % ByteBits
         /\ SubSide * (v \div SubSide) + (v % SubSide) = v
         /\ (2 * (v \div SubSide) + ((v % SubSide) \div ByteBits)) * ByteBits + (v % ByteBits) = v
<1>1. PICK w \in Nat \ {0} : w = ByteBits /\ SubSide = 2 * w
  BY KappaNat
<1>2. PICK h, a, s : Digits(v, w, h, a, s)
  BY DigitsExist
<1>3. v % w = s /\ v \div (2 * w) = h /\ v % (2 * w) = a * w + s
  BY <1>2, DigitsUse
<1>4. /\ h \in Nat /\ h \in Int /\ a \in {0, 1} /\ a \in 0 .. 1 /\ a \in Int /\ s \in Nat /\ s < w
      /\ s \in 0 .. w - 1 /\ v = (2 * h + a) * w + s
  BY <1>2 DEF Digits
<1>5. PICK u \in Nat : u = a * w + s
  BY <1>4
<1>6. u \div w = a
  <2>1. u \in Int
    OBVIOUS
  <2>2. QED
    BY <1>4, <1>5, <2>1, Remainder
<1>7. u \in 0 .. (2 * w) - 1
  BY <1>4, <1>5
<1>8. (2 * w) * h + u = v
  <2>1. (2 * h + a) * w = (2 * w) * h + a * w
    BY <1>4, Z3
  <2>2. PICK o \in Int, p \in Int : o = (2 * w) * h /\ p = a * w
    BY <1>4
  <2>3. QED
    BY <1>4, <1>5, <2>1, <2>2
<1>9. w - 1 - (w - 1 - s) = s
  BY <1>4
<1>a. /\ v \div SubSide = h /\ v % SubSide = u /\ (v % SubSide) \div ByteBits = a
      /\ v % ByteBits = s
  BY <1>1, <1>3, <1>5, <1>6, Zenon
<1>b. /\ h \in Nat /\ u \in 0 .. SubSide - 1 /\ a \in 0 .. 1 /\ s \in 0 .. ByteBits - 1
      /\ ByteBits - 1 - (ByteBits - 1 - s) = s
      /\ SubSide * h + u = v /\ (2 * h + a) * ByteBits + s = v
  BY <1>1, <1>4, <1>7, <1>8, <1>9, Zenon
<1>c. QED
  BY <1>a, <1>b, Zenon

\* What is stored at (x, y) after it was loaded at (y, x).
LEMMA SquareAt ==
  ASSUME NEW m, NEW g, NEW x1, NEW y1, NEW r \in Bits, NEW c \in Bits
  PROVE  sse_transposeSubSquare(m, sse_loadSubSquare(g, y1, x1), x1, y1)[r][c]
           = IF r \div SubSide = x1 /\ c \div SubSide = y1 THEN g[c][r] ELSE m[r][c]
<1> DEFINE in == sse_loadSubSquare(g, y1, x1)
           half == (r % SubSide) \div ByteBits
           j == ByteBits - 1 - (r % ByteBits)
           mask == movemask_epi8(in[half], j)
<1>1. CASE r \div SubSide # x1
  <2> HIDE DEF in
  <2>1. QED
    BY <1>1, Zenon DEF sse_transposeSubSquare
<1>2. CASE r \div SubSide = x1
  <2>1. sse_transposeSubSquare(m, in, x1, y1)[r]
          = [v \in Bits |-> IF v \div SubSide = y1 THEN mask[v % SubSide] ELSE m[r][v]]
    <3> HIDE DEF in
    <3>1. QED
      BY <1>2, Zenon DEF sse_transposeSubSquare
  <2>2. sse_transposeSubSquare(m, in, x1, y1)[r][c]
          = IF c \div SubSide = y1 THEN mask[c % SubSide] ELSE m[r][c]
    <3> HIDE DEF in, mask
    <3>1. QED
      BY <2>1, Zenon
  <2>3. ASSUME c \div SubSide = y1 PROVE mask[c % SubSide] = g[c][r]
    <3>1. /\ c % SubSide \in 0 .. SubSide - 1 /\ half \in 0 .. 1
          /\ r % ByteBits \in 0 .. ByteBits - 1 /\ ByteBits - 1 - j = r % ByteBits
      BY ByteOf, Zenon
    <3>2. mask[c % SubSide] = in[half][c % SubSide][ByteBits - 1 - j]
      <4> HIDE DEF in, half, j
      <4>1. QED
        BY <3>1, Zenon DEF movemask_epi8
    <3>3. in[half] = [l \in 0 .. SubSide - 1 |-> [t \in 0 .. ByteBits - 1 |->
                        g[SubSide * y1 + l][(2 * x1 + half) * ByteBits + t]]]
      <4> HIDE DEF half
      <4>1. QED
        BY <3>1, Zenon DEF sse_loadSubSquare
    <3>4. in[half][c % SubSide][r % ByteBits]
            = g[SubSide * y1 + (c % SubSide)][(2 * x1 + half) * ByteBits + (r % ByteBits)]
      <4> HIDE DEF in, half
      <4>1. in[half][c % SubSide] = [t \in 0 .. ByteBits - 1 |->
                g[SubSide * y1 + (c % SubSide)][(2 * x1 + half) * ByteBits + t]]
        BY <3>1, <3>3, Zenon
      <4>2. QED
        BY <3>1, <4>1, Zenon
    <3>5. /\ SubSide * y1 + (c % SubSide) = c
          /\ (2 * x1 + half) * ByteBits + (r % ByteBits) = r
      BY <1>2, <2>3, ByteOf, Zenon
    <3> HIDE DEF in, half, j, mask
    <3>6. QED
      BY <3>1, <3>2, <3>4, <3>5, Zenon
  <2> HIDE DEF in, mask
  <2>4. QED
    BY <1>2, <2>2, <2>3, Zenon DEF in
<1>3. QED
  BY <1>1, <1>2, Zenon

LEMMA SquareMatrix ==
  ASSUME NEW m, IsMatrix(m), NEW in, NEW x1, NEW y1
  PROVE  IsMatrix(sse_transposeSubSquare(m, in, x1, y1))
<1> DEFINE f == sse_transposeSubSquare(m, in, x1, y1)
<1>1. \A r \in Bits : m[r] = [c \in Bits |-> m[r][c]]
  BY Zenon DEF IsMatrix
<1>2. ASSUME NEW r \in Bits PROVE f[r] = [c \in Bits |-> f[r][c]]
  <2>1. CASE r \div SubSide # x1
    <3>1. f[r] = m[r]
      BY <2>1, Zenon DEF sse_transposeSubSquare
    <3> HIDE DEF f
    <3>2. QED
      BY <1>1, <3>1, Zenon
  <2>2. CASE r \div SubSide = x1
    <3> DEFINE mask == movemask_epi8(in[(r % SubSide) \div ByteBits], ByteBits - 1 - (r % ByteBits))
    <3>1. f[r] = [c \in Bits |-> IF c \div SubSide = y1 THEN mask[c % SubSide] ELSE m[r][c]]
      BY <2>2, Zenon DEF sse_transposeSubSquare
    <3> HIDE DEF f, mask
    <3>2. QED
      BY <3>1, Zenon
  <2>3. QED
    BY <2>1, <2>2, Zenon
<1>3. f = [r \in Bits |-> f[r]]
  BY Zenon DEF sse_transposeSubSquare
<1> HIDE DEF f
<1>4. f = [r \in Bits |-> [c \in Bits |-> f[r][c]]]
  BY <1>2, <1>3, Zenon
<1>5. QED
  BY <1>4, Zenon DEF IsMatrix, f

\* The matrix with some of its sub-squares where the transpose puts them.
SquareOf(r, c) == <<r \div SubSide, c \div SubSide>>
Moved(m, P) ==
  [r \in Bits |-> [c \in Bits |-> IF SquareOf(r, c) \in P THEN m[c][r] ELSE m[r][c]]]

LEMMA MovedAt ==
  ASSUME NEW m, NEW P, NEW r \in Bits, NEW c \in Bits
  PROVE  Moved(m, P)[r][c] = IF SquareOf(r, c) \in P THEN m[c][r] ELSE m[r][c]
  BY Zenon DEF Moved

LEMMA MovedMatrix ==
  ASSUME NEW m, NEW P
  PROVE  IsMatrix(Moved(m, P))
<1> DEFINE f == Moved(m, P)
<1>1. ASSUME NEW r \in Bits PROVE f[r] = [c \in Bits |-> f[r][c]]
  <2>1. f[r] = [c \in Bits |-> IF SquareOf(r, c) \in P THEN m[c][r] ELSE m[r][c]]
    BY Zenon DEF Moved
  <2> HIDE DEF f
  <2>2. QED
    BY <2>1, Zenon
<1>2. f = [r \in Bits |-> f[r]]
  BY Zenon DEF Moved
<1> HIDE DEF f
<1>3. f = [r \in Bits |-> [c \in Bits |-> f[r][c]]]
  BY <1>1, <1>2, Zenon
<1>4. QED
  BY <1>3, Zenon DEF IsMatrix, f

\* One round of the inner loop.
LEMMA SseStepAt ==
  ASSUME NEW m, IsMatrix(m), NEW j, NEW k, NEW r \in Bits, NEW c \in Bits
  PROVE  /\ IsMatrix(SseStep(m, j, k))
         /\ SseStep(m, j, k)[r][c]
              = IF SquareOf(r, c) \in {<<j, k>>, <<k, j>>} THEN m[c][r] ELSE m[r][c]
<1> DEFINE a == sse_loadSubSquare(m, k, j)
           b == sse_loadSubSquare(m, j, k)
           first == sse_transposeSubSquare(m, a, j, k)
           second == sse_transposeSubSquare(first, b, k, j)
           R == r \div SubSide
           C == c \div SubSide
<1>1. SseStep(m, j, k) = IF j = k THEN sse_transposeSubSquare(m, a, j, j) ELSE second
  BY Zenon DEF SseStep
<1>2. SquareOf(r, c) \in {<<j, k>>, <<k, j>>} <=> (R = j /\ C = k) \/ (R = k /\ C = j)
  <2>1. SquareOf(r, c) = <<R, C>>
    BY Zenon DEF SquareOf
  <2> HIDE DEF R, C
  <2>2. QED
    BY <2>1
<1>3. CASE j = k
  <2>1. SseStep(m, j, k) = first
    BY <1>1, <1>3, Zenon
  <2>2. IsMatrix(first)
    BY SquareMatrix, Zenon
  <2>3. first[r][c] = IF R = j /\ C = k THEN m[c][r] ELSE m[r][c]
    BY SquareAt
  <2> HIDE DEF first, R, C
  <2>4. QED
    BY <1>2, <1>3, <2>1, <2>2, <2>3, Zenon
<1>4. CASE j # k
  <2>1. SseStep(m, j, k) = second
    BY <1>1, <1>4, Zenon
  <2>2. IsMatrix(first)
    BY SquareMatrix, Zenon
  <2>3. first[r][c] = IF R = j /\ C = k THEN m[c][r] ELSE m[r][c]
    BY SquareAt
  <2>4. second[r][c] = IF R = k /\ C = j THEN m[c][r] ELSE first[r][c]
    <3> HIDE DEF first
    <3>1. QED
      BY SquareAt
  <2>5. IsMatrix(second)
    <3> HIDE DEF first, b
    <3>1. QED
      BY <2>2, SquareMatrix, Zenon
  <2> HIDE DEF first, second, R, C
  <2>6. QED
    BY <1>2, <2>1, <2>3, <2>4, <2>5, Zenon
<1>5. QED
  BY <1>3, <1>4, Zenon

LEMMA SseStepMoves ==
  ASSUME NEW m, NEW P, NEW j, NEW k, <<j, k>> \notin P, <<k, j>> \notin P
  PROVE  SseStep(Moved(m, P), j, k) = Moved(m, P \cup {<<j, k>>, <<k, j>>})
<1> DEFINE old == Moved(m, P)
           D == {<<j, k>>, <<k, j>>}
           new == Moved(m, P \cup D)
<1>1. IsMatrix(old) /\ IsMatrix(new)
  BY MovedMatrix
<1>2. ASSUME NEW r \in Bits, NEW c \in Bits PROVE SseStep(old, j, k)[r][c] = new[r][c]
  <2>1. /\ old[r][c] = IF SquareOf(r, c) \in P THEN m[c][r] ELSE m[r][c]
        /\ old[c][r] = IF SquareOf(c, r) \in P THEN m[r][c] ELSE m[c][r]
        /\ new[r][c] = IF SquareOf(r, c) \in P \cup D THEN m[c][r] ELSE m[r][c]
    BY MovedAt
  <2>2. SquareOf(r, c) \in D => SquareOf(c, r) \in D
    <3>1. PICK R, C : R = r \div SubSide /\ C = c \div SubSide
      BY Zenon
    <3>2. SquareOf(r, c) = <<R, C>> /\ SquareOf(c, r) = <<C, R>>
      BY <3>1, Zenon DEF SquareOf
    <3>3. QED
      BY <3>2
  <2>3. SquareOf(c, r) \in D => SquareOf(c, r) \notin P
    BY Zenon
  <2> HIDE DEF old, new
  <2>4. SseStep(old, j, k)[r][c] = IF SquareOf(r, c) \in D THEN old[c][r] ELSE old[r][c]
    BY <1>1, SseStepAt
  <2> HIDE DEF D
  <2>5. SquareOf(r, c) \in P \cup D <=> SquareOf(r, c) \in P \/ SquareOf(r, c) \in D
    BY Zenon
  <2>6. QED
    BY <2>1, <2>2, <2>3, <2>4, <2>5, Zenon
<1> HIDE DEF old, new
<1>3. 0 \in Bits
  BY BitsNat, KappaNat
<1>4. IsMatrix(SseStep(old, j, k))
  BY <1>1, <1>3, SseStepAt, Zenon
<1>5. SseStep(old, j, k) = new
  BY <1>1, <1>2, <1>4, SameMatrix
<1>6. QED
  BY <1>5, Zenon DEF old, new, D

\* Two loops that start alike and go on alike end alike.
LEMMA LoopsAgree ==
  ASSUME NEW p \in Nat, NEW f, NEW h, f[0] = h[0],
         \A i \in 1 .. p : f[i - 1] = h[i - 1] => f[i] = h[i]
  PROVE  f[p] = h[p]
<1> DEFINE S == {i \in Nat : i <= p => f[i] = h[i]}
<1>1. 0 \in S
  OBVIOUS
<1>2. ASSUME NEW i \in Nat, i \in S PROVE i + 1 \in S
  <2> SUFFICES ASSUME i + 1 <= p PROVE f[i + 1] = h[i + 1]
    OBVIOUS
  <2>1. i + 1 \in 1 .. p /\ (i + 1) - 1 = i /\ f[i] = h[i]
    BY <1>2
  <2>2. QED
    BY <2>1, Zenon
<1>3. Nat \subseteq S
  <2> HIDE DEF S
  <2>1. QED
    BY <1>1, <1>2, Induction
<1>4. QED
  BY <1>3

\* The sub-squares in place after j rounds of the outer loop, and after k rounds of
\* the inner loop in round j.
Full(j) == (0 .. j - 1) \X (0 .. j - 1)
Past(j, k) == Full(j) \cup {<<j, j>>} \cup ({j} \X (0 .. k - 1)) \cup ((0 .. k - 1) \X {j})

LEMMA PastSteps ==
  ASSUME NEW j \in Nat
  PROVE  /\ Past(j, 0) = Full(j) \cup {<<j, j>>, <<j, j>>} /\ <<j, j>> \notin Full(j)
         /\ Past(j, j) = Full(j + 1)
         /\ \A k \in 0 .. j - 1 :
              /\ Past(j, k + 1) = Past(j, k) \cup {<<j, k>>, <<k, j>>}
              /\ <<j, k>> \notin Past(j, k) /\ <<k, j>> \notin Past(j, k)
<1>1. /\ Past(j, 0) = Full(j) \cup {<<j, j>>, <<j, j>>} /\ <<j, j>> \notin Full(j)
  BY DEF Past, Full
<1>2. Past(j, j) = Full(j + 1)
  <2>1. 0 .. (j + 1) - 1 = (0 .. j - 1) \cup {j}
    OBVIOUS
  <2> DEFINE I == 0 .. j - 1
  <2>2. Full(j + 1) = (I \cup {j}) \X (I \cup {j})
    BY <2>1, Zenon DEF Full
  <2>3. Past(j, j) = (I \X I) \cup {<<j, j>>} \cup ({j} \X I) \cup (I \X {j})
    BY Zenon DEF Past, Full
  <2> HIDE DEF I
  <2>4. QED
    BY <2>2, <2>3
<1>3. ASSUME NEW k \in 0 .. j - 1
      PROVE  /\ Past(j, k + 1) = Past(j, k) \cup {<<j, k>>, <<k, j>>}
             /\ <<j, k>> \notin Past(j, k) /\ <<k, j>> \notin Past(j, k)
  <2>1. 0 .. (k + 1) - 1 = (0 .. k - 1) \cup {k} /\ k \notin 0 .. k - 1 /\ k # j /\ j \notin 0 .. j - 1
    OBVIOUS
  <2> DEFINE I == 0 .. k - 1
  <2>2. Past(j, k + 1) = Full(j) \cup {<<j, j>>} \cup ({j} \X (I \cup {k})) \cup ((I \cup {k}) \X {j})
    BY <2>1, Zenon DEF Past
  <2>3. Past(j, k) = Full(j) \cup {<<j, j>>} \cup ({j} \X I) \cup (I \X {j})
    BY Zenon DEF Past
  <2>4. <<j, k>> \notin Full(j) /\ <<k, j>> \notin Full(j)
    BY <2>1 DEF Full
  <2>5. k \notin I /\ k # j
    BY <2>1
  <2> HIDE DEF I
  <2>6. Past(j, k + 1) = Past(j, k) \cup {<<j, k>>, <<k, j>>}
    BY <2>2, <2>3
  <2>7. QED
    BY <2>3, <2>4, <2>5, <2>6
<1>4. QED
  BY <1>1, <1>2, <1>3

LEMMA RowLoop ==
  ASSUME NEW m, NEW j \in Nat
  PROVE  /\ Moved(m, Past(j, 0)) = SseStep(Moved(m, Full(j)), j, j)
         /\ \A k \in 1 .. j :
              Moved(m, Past(j, k)) = SseStep(Moved(m, Past(j, k - 1)), j, k - 1)
<1>1. Moved(m, Past(j, 0)) = SseStep(Moved(m, Full(j)), j, j)
  <2>1. Past(j, 0) = Full(j) \cup {<<j, j>>, <<j, j>>} /\ <<j, j>> \notin Full(j)
    BY PastSteps
  <2>2. SseStep(Moved(m, Full(j)), j, j) = Moved(m, Full(j) \cup {<<j, j>>, <<j, j>>})
    BY <2>1, SseStepMoves
  <2>3. QED
    BY <2>1, <2>2, Zenon
<1>2. ASSUME NEW k \in 1 .. j
      PROVE  Moved(m, Past(j, k)) = SseStep(Moved(m, Past(j, k - 1)), j, k - 1)
  <2>1. PICK i \in 0 .. j - 1 : i = k - 1 /\ k = i + 1
    OBVIOUS
  <2>2. /\ Past(j, i + 1) = Past(j, i) \cup {<<j, i>>, <<i, j>>}
        /\ <<j, i>> \notin Past(j, i) /\ <<i, j>> \notin Past(j, i)
    BY PastSteps
  <2>3. SseStep(Moved(m, Past(j, i)), j, i) = Moved(m, Past(j, i) \cup {<<j, i>>, <<i, j>>})
    BY <2>2, SseStepMoves
  <2>4. QED
    BY <2>1, <2>2, <2>3, Zenon
<1>3. QED
  BY <1>1, <1>2

LEMMA SseRowMoves ==
  ASSUME NEW m, NEW j \in Nat
  PROVE  SseRow(Moved(m, Full(j)), j) = Moved(m, Full(j + 1))
<1> DEFINE g == Moved(m, Full(j))
           Is(f) == f = [k \in 0 .. j |-> IF k = 0 THEN SseStep(g, j, j)
                                          ELSE SseStep(f[k - 1], j, k - 1)]
           at(k) == Moved(m, Past(j, k))
           h == [k \in 0 .. j |-> at(k)]
           done == CHOOSE f : Is(f)
<1>1. at(0) = SseStep(g, j, j) /\ \A k \in 1 .. j : at(k) = SseStep(at(k - 1), j, k - 1)
  BY RowLoop, Zenon
<1>2. at(j) = Moved(m, Full(j + 1))
  BY PastSteps, Zenon
<1>3. SseRow(g, j) = done[j]
  <2> HIDE DEF g
  <2>1. QED
    BY Zenon DEF SseRow
<1> HIDE DEF at, g
<1>4. Is(h)
  <2>1. ASSUME NEW k \in 0 .. j
        PROVE  h[k] = IF k = 0 THEN SseStep(g, j, j) ELSE SseStep(h[k - 1], j, k - 1)
    <3>1. CASE k = 0
      BY <1>1, <3>1, Zenon
    <3>2. CASE k # 0
      <4>1. k \in 1 .. j /\ k - 1 \in 0 .. j
        BY <3>2
      <4>2. h[k] = at(k) /\ h[k - 1] = at(k - 1)
        BY <4>1, Zenon
      <4> HIDE DEF h
      <4>3. QED
        BY <1>1, <3>2, <4>1, <4>2, Zenon
    <3>3. QED
      BY <3>1, <3>2, Zenon
  <2>2. h = [k \in 0 .. j |-> h[k]]
    BY Zenon
  <2> HIDE DEF h
  <2>3. QED
    BY <2>1, <2>2, Zenon
<1>5. 0 \in 0 .. j /\ j \in 0 .. j
  OBVIOUS
<1>6. h[0] = at(0) /\ h[j] = at(j) /\ \A k \in 1 .. j : h[k] = at(k) /\ h[k - 1] = at(k - 1)
  <2>1. \A k \in 1 .. j : k \in 0 .. j /\ k - 1 \in 0 .. j
    OBVIOUS
  <2>2. QED
    BY <1>5, <2>1, Zenon
<1> HIDE DEF h
<1>7. Is(done)
  <2> HIDE DEF Is
  <2>1. QED
    BY <1>4, Zenon
<1> HIDE DEF done
<1>8. \A k \in 0 .. j : done[k] = IF k = 0 THEN SseStep(g, j, j) ELSE SseStep(done[k - 1], j, k - 1)
  BY <1>7, Zenon
<1> HIDE DEF Is
<1>9. done[0] = h[0]
  BY <1>1, <1>5, <1>6, <1>8, Zenon
<1>a. ASSUME NEW k \in 1 .. j, done[k - 1] = h[k - 1] PROVE done[k] = h[k]
  <2>1. k \in 0 .. j /\ k # 0
    OBVIOUS
  <2>2. done[k] = SseStep(done[k - 1], j, k - 1)
    BY <1>8, <2>1, Zenon
  <2>3. at(k) = SseStep(at(k - 1), j, k - 1)
    BY <1>1, Zenon
  <2>4. QED
    BY <1>6, <1>a, <2>2, <2>3, Zenon
<1>b. done[j] = h[j]
  BY <1>9, <1>a, LoopsAgree
<1>c. QED
  BY <1>2, <1>3, <1>6, <1>b, Zenon DEF g

LEMMA SquaresOf == kKappa \div SubSide = ByteBits
<1>1. PICK k \in Nat, s \in Nat \ {0}, b \in Nat : k = kKappa /\ s = SubSide /\ b = ByteBits
  BY KappaNat
<1>2. k = s * b
  BY <1>1, KappaNat, Zenon
<1>3. k = b * s + 0 /\ k \in Int /\ b \in Int /\ 0 \in Nat /\ 0 < s
  BY <1>2, Z3
<1>4. k \div s = b
  BY <1>3, Remainder
<1>5. QED
  BY <1>1, <1>4, Zenon

LEMMA MovedNone ==
  ASSUME NEW m, IsMatrix(m)
  PROVE  Moved(m, Full(0)) = m
<1>1. Full(0) = {}
  <2>1. 0 .. 0 - 1 = {}
    OBVIOUS
  <2>2. QED
    BY <2>1 DEF Full
<1>2. \A r \in Bits, c \in Bits : Moved(m, Full(0))[r][c] = m[r][c]
  BY <1>1, MovedAt
<1>3. IsMatrix(Moved(m, Full(0)))
  BY MovedMatrix
<1>4. QED
  BY <1>2, <1>3, SameMatrix

LEMMA MovedAll ==
  ASSUME NEW m
  PROVE  Moved(m, Full(kKappa \div SubSide)) = NaiveTranspose(m)
<1>1. ASSUME NEW v \in Bits PROVE v \div SubSide \in 0 .. ByteBits - 1
  <2>1. PICK s \in Nat \ {0}, b \in Nat : s = SubSide /\ b = ByteBits /\ kKappa = s * b
    BY KappaNat
  <2>2. v \in Nat /\ v < s * b
    BY <2>1, BitsNat
  <2>3. PICK e \in Nat : e = v \div s
    BY <2>2, EuclidNat
  <2>4. PICK u \in Nat : v = e * s + u
    BY <2>2, <2>3, Euclid
  <2>5. e < b
    <3>1. e >= b => e * s >= s * b
      <4>1. ASSUME NEW d \in Nat, e = b + d PROVE e * s >= s * b
        <5>1. e * s = s * b + d * s /\ d * s >= 0
          BY <4>1, Z3
        <5>2. PICK o \in Int, p \in Int : o = s * b /\ p = d * s
          OBVIOUS
        <5>3. QED
          BY <5>1, <5>2
      <4>2. QED
        <5>1. e >= b => e - b \in Nat /\ e = b + (e - b)
          OBVIOUS
        <5>2. QED
          BY <4>1, <5>1
    <3>2. PICK o \in Int, p \in Int : o = s * b /\ p = e * s
      OBVIOUS
    <3>3. QED
      BY <2>2, <2>4, <3>1, <3>2
  <2>6. e \in 0 .. b - 1
    BY <2>5
  <2>7. QED
    BY <2>1, <2>3, <2>6, Zenon
<1>2. ASSUME NEW r \in Bits, NEW c \in Bits PROVE SquareOf(r, c) \in Full(kKappa \div SubSide)
  <2>1. r \div SubSide \in 0 .. ByteBits - 1 /\ c \div SubSide \in 0 .. ByteBits - 1
    BY <1>1
  <2>2. QED
    BY <2>1, SquaresOf, Zenon DEF Full, SquareOf
<1>3. QED
  BY <1>2, Zenon DEF Moved, NaiveTranspose

LEMMA SseIsNaive ==
  ASSUME NEW m, IsMatrix(m)
  PROVE  SseTranspose128(m) = NaiveTranspose(m)
<1> DEFINE z == kKappa \div SubSide
           Is(f) == f = [j \in 0 .. z |-> IF j = 0 THEN m ELSE SseRow(f[j - 1], j - 1)]
           at(j) == Moved(m, Full(j))
           h == [j \in 0 .. z |-> at(j)]
           done == CHOOSE f : Is(f)
<1>0. z \in Nat
  BY SquaresOf, KappaNat
<1>1. ASSUME NEW j \in 1 .. z PROVE at(j) = SseRow(at(j - 1), j - 1)
  <2>1. PICK i \in Nat : i = j - 1 /\ j = i + 1
    BY <1>0
  <2>2. SseRow(at(i), i) = at(i + 1)
    BY SseRowMoves, Zenon
  <2> HIDE DEF at
  <2>3. QED
    BY <2>1, <2>2, Zenon
<1>2. at(0) = m /\ at(z) = NaiveTranspose(m)
  BY MovedNone, MovedAll
<1>3. SseTranspose128(m) = done[z]
  BY Zenon DEF SseTranspose128
<1> HIDE DEF at, z
<1>4. Is(h)
  <2>1. ASSUME NEW j \in 0 .. z PROVE h[j] = IF j = 0 THEN m ELSE SseRow(h[j - 1], j - 1)
    <3>1. CASE j = 0
      BY <1>2, <3>1, Zenon
    <3>2. CASE j # 0
      <4>1. j \in 1 .. z /\ j - 1 \in 0 .. z
        BY <1>0, <3>2
      <4>2. h[j] = at(j) /\ h[j - 1] = at(j - 1)
        BY <4>1, Zenon
      <4> HIDE DEF h
      <4>3. QED
        BY <1>1, <3>2, <4>1, <4>2, Zenon
    <3>3. QED
      BY <3>1, <3>2, Zenon
  <2>2. h = [j \in 0 .. z |-> h[j]]
    BY Zenon
  <2> HIDE DEF h
  <2>3. QED
    BY <2>1, <2>2, Zenon
<1>5. 0 \in 0 .. z /\ z \in 0 .. z
  BY <1>0
<1>6. h[0] = at(0) /\ h[z] = at(z) /\ \A j \in 1 .. z : h[j] = at(j) /\ h[j - 1] = at(j - 1)
  <2>1. \A j \in 1 .. z : j \in 0 .. z /\ j - 1 \in 0 .. z
    BY <1>0
  <2>2. QED
    BY <1>5, <2>1, Zenon
<1> HIDE DEF h
<1>7. Is(done)
  <2> HIDE DEF Is
  <2>1. QED
    BY <1>4, Zenon
<1> HIDE DEF done
<1>8. \A j \in 0 .. z : done[j] = IF j = 0 THEN m ELSE SseRow(done[j - 1], j - 1)
  BY <1>7, Zenon
<1> HIDE DEF Is
<1>9. done[0] = h[0]
  BY <1>2, <1>5, <1>6, <1>8, Zenon
<1>a. ASSUME NEW j \in 1 .. z, done[j - 1] = h[j - 1] PROVE done[j] = h[j]
  <2>1. j \in 0 .. z /\ j # 0
    BY <1>0
  <2>2. done[j] = SseRow(done[j - 1], j - 1)
    BY <1>8, <2>1, Zenon
  <2>3. QED
    BY <1>1, <1>6, <1>a, <2>2, Zenon
<1>b. done[z] = h[z]
  BY <1>0, <1>9, <1>a, LoopsAgree
<1>c. QED
  BY <1>2, <1>3, <1>6, <1>b, Zenon

LEMMA TransposeIsNaive ==
  ASSUME NEW m, IsMatrix(m), NEW cpu
  PROVE  MatrixTranspose128(m, cpu) = NaiveTranspose(m)
  BY SseIsNaive, EklundhIsNaive, Zenon DEF MatrixTranspose128

\* A matrix of b blocks to the row.
IsWide(m, b) == m = [r \in Bits |-> [i \in 0 .. b - 1 |-> m[r][i]]]

LEMMA WideRow ==
  ASSUME NEW m, NEW b, IsWide(m, b), NEW r \in Bits
  PROVE  m[r] = [i \in 0 .. b - 1 |-> m[r][i]] /\ DOMAIN m[r] = 0 .. b - 1
<1>1. m[r] = [i \in 0 .. b - 1 |-> m[r][i]]
  BY Zenon DEF IsWide
<1>2. DOMAIN m[r] = 0 .. b - 1
  BY Zenon DEF IsWide
<1>3. QED
  BY <1>1, <1>2, Zenon

LEMMA ColumnSet ==
  ASSUME NEW m, NEW b, IsWide(m, b), NEW i \in 0 .. b - 1, NEW sub, NEW r \in Bits
  PROVE  SetColumn(m, i, sub)[r]
           = [j \in 0 .. b - 1 |-> IF j = i THEN sub[r] ELSE m[r][j]]
<1>1. SetColumn(m, i, sub)[r] = [m[r] EXCEPT ![i] = sub[r]]
  BY Zenon DEF SetColumn
<1>2. DOMAIN m[r] = 0 .. b - 1
  BY WideRow, Zenon
<1>3. PICK f, g : f = SetColumn(m, i, sub)[r] /\ g = m[r]
  BY Zenon
<1>4. f = [g EXCEPT ![i] = sub[r]] /\ DOMAIN g = 0 .. b - 1
  BY <1>1, <1>2, <1>3, Zenon
<1>5. f = [j \in 0 .. b - 1 |-> IF j = i THEN sub[r] ELSE g[j]]
  BY <1>4, Zenon
<1>6. QED
  BY <1>3, <1>5, Zenon

LEMMA ColumnAt ==
  ASSUME NEW m, NEW b, IsWide(m, b), NEW i \in 0 .. b - 1, NEW sub, NEW r \in Bits,
         NEW j \in 0 .. b - 1
  PROVE  SetColumn(m, i, sub)[r][j] = IF j = i THEN sub[r] ELSE m[r][j]
<1>1. SetColumn(m, i, sub)[r] = [k \in 0 .. b - 1 |-> IF k = i THEN sub[r] ELSE m[r][k]]
  BY ColumnSet
<1>2. QED
  BY <1>1, Zenon

LEMMA ColumnWide ==
  ASSUME NEW m, NEW b, IsWide(m, b), NEW i \in 0 .. b - 1, NEW sub
  PROVE  IsWide(SetColumn(m, i, sub), b)
<1> DEFINE f == SetColumn(m, i, sub)
<1>1. ASSUME NEW r \in Bits PROVE f[r] = [j \in 0 .. b - 1 |-> f[r][j]]
  <2>1. f[r] = [j \in 0 .. b - 1 |-> IF j = i THEN sub[r] ELSE m[r][j]]
    BY ColumnSet
  <2> HIDE DEF f
  <2>2. QED
    BY <2>1, Zenon
<1>2. f = [r \in Bits |-> f[r]]
  BY Zenon DEF SetColumn
<1> HIDE DEF f
<1>3. f = [r \in Bits |-> [j \in 0 .. b - 1 |-> f[r][j]]]
  BY <1>1, <1>2, Zenon
<1>4. QED
  BY <1>3, Zenon DEF IsWide, f

LEMMA SameWide ==
  ASSUME NEW f, NEW g, NEW b, IsWide(f, b), IsWide(g, b),
         \A r \in Bits, i \in 0 .. b - 1 : f[r][i] = g[r][i]
  PROVE  f = g
  BY Zenon DEF IsWide

\* A column that is set is what it was set to, and may be set again.
LEMMA ColumnTwice ==
  ASSUME NEW m, NEW b, IsWide(m, b), NEW i \in 0 .. b - 1, NEW sub, NEW later,
         sub = [r \in Bits |-> sub[r]]
  PROVE  /\ BlockColumn(SetColumn(m, i, sub), i) = sub
         /\ SetColumn(SetColumn(m, i, sub), i, later) = SetColumn(m, i, later)
<1> DEFINE f == SetColumn(m, i, sub)
           g == SetColumn(m, i, later)
<1>1. IsWide(f, b) /\ IsWide(g, b)
  BY ColumnWide, Zenon
<1>2. /\ \A r \in Bits : f[r][i] = sub[r] /\ g[r][i] = later[r]
      /\ \A r \in Bits, j \in 0 .. b - 1 : j # i => f[r][j] = m[r][j] /\ g[r][j] = m[r][j]
  BY ColumnAt
<1> HIDE DEF f, g
<1>3. BlockColumn(f, i) = sub
  BY <1>2, Zenon DEF BlockColumn
<1>4. IsWide(SetColumn(f, i, later), b)
  BY <1>1, ColumnWide, Zenon
<1>5. ASSUME NEW r \in Bits, NEW j \in 0 .. b - 1 PROVE SetColumn(f, i, later)[r][j] = g[r][j]
  <2>1. /\ SetColumn(f, i, later)[r][i] = later[r]
        /\ j # i => SetColumn(f, i, later)[r][j] = f[r][j]
    BY <1>1, ColumnAt
  <2>2. QED
    BY <1>2, <2>1, Zenon
<1>6. SetColumn(f, i, later) = g
  BY <1>1, <1>4, <1>5, SameWide
<1>7. QED
  BY <1>3, <1>6, Zenon DEF f, g

LEMMA SquareRows ==
  ASSUME NEW m, NEW in, NEW x1, NEW y1
  PROVE  sse_transposeSubSquare(m, in, x1, y1)
           = [r \in Bits |-> sse_transposeSubSquare(m, in, x1, y1)[r]]
  BY Zenon DEF sse_transposeSubSquare

\* The round of the inner loop, on block i.
LEMMA SseStepWide ==
  ASSUME NEW m, NEW b, IsWide(m, b), NEW i \in 0 .. b - 1, NEW j, NEW k
  PROVE  SseStepx(m, i, j, k) = SetColumn(m, i, SseStep(BlockColumn(m, i), j, k))
<1> DEFINE col == BlockColumn(m, i)
           a == sse_loadSubSquare(col, k, j)
           e == sse_loadSubSquare(col, j, k)
           first == sse_transposeSubSquare(col, a, j, k)
<1>1. CASE j = k
  <2>1. SseStep(col, j, k) = sse_transposeSubSquare(col, a, j, j)
    BY <1>1, Zenon DEF SseStep
  <2>2. SseStepx(m, i, j, k) = SetColumn(m, i, sse_transposeSubSquare(col, a, j, j))
    BY <1>1, Zenon DEF SseStepx, SseLoadSubSquarex, SseTransposeSubSquarex
  <2> HIDE DEF col, a
  <2>3. QED
    BY <2>1, <2>2, Zenon DEF col
<1>2. CASE j # k
  <2>1. SseStep(col, j, k) = sse_transposeSubSquare(first, e, k, j)
    BY <1>2, Zenon DEF SseStep
  <2> DEFINE m1 == SetColumn(m, i, first)
  <2>2. SseStepx(m, i, j, k)
          = SetColumn(m1, i, sse_transposeSubSquare(BlockColumn(m1, i), e, k, j))
    BY <1>2, Zenon DEF SseStepx, SseLoadSubSquarex, SseTransposeSubSquarex
  <2>3. first = [r \in Bits |-> first[r]]
    BY SquareRows, Zenon
  <2> HIDE DEF first
  <2>4. /\ BlockColumn(m1, i) = first
        /\ \A later : SetColumn(m1, i, later) = SetColumn(m, i, later)
    BY <2>3, ColumnTwice
  <2> HIDE DEF m1, e, col
  <2>5. QED
    BY <2>1, <2>2, <2>4, Zenon DEF col
<1>3. QED
  BY <1>1, <1>2, Zenon

LEMMA MovedRows ==
  ASSUME NEW m, NEW P
  PROVE  Moved(m, P) = [r \in Bits |-> Moved(m, P)[r]]
  BY Zenon DEF Moved

\* The inner loop, on block i.
LEMMA SseRowWide ==
  ASSUME NEW m, NEW b, IsWide(m, b), NEW i \in 0 .. b - 1, NEW col, NEW j \in Nat
  PROVE  SseRowx(SetColumn(m, i, Moved(col, Full(j))), i, j)
           = SetColumn(m, i, Moved(col, Full(j + 1)))
<1> DEFINE g == SetColumn(m, i, Moved(col, Full(j)))
           Is(f) == f = [k \in 0 .. j |-> IF k = 0 THEN SseStepx(g, i, j, j)
                                          ELSE SseStepx(f[k - 1], i, j, k - 1)]
           at(k) == SetColumn(m, i, Moved(col, Past(j, k)))
           h == [k \in 0 .. j |-> at(k)]
           done == CHOOSE f : Is(f)
<1>0. ASSUME NEW P, NEW e, NEW k
      PROVE  SseStepx(SetColumn(m, i, Moved(col, P)), i, e, k)
               = SetColumn(m, i, SseStep(Moved(col, P), e, k))
  <2>1. PICK s : s = Moved(col, P)
    BY Zenon
  <2>2. s = [r \in Bits |-> s[r]]
    BY <2>1, MovedRows, Zenon
  <2> DEFINE w == SetColumn(m, i, s)
  <2>3. IsWide(w, b)
    BY ColumnWide, Zenon
  <2>4. BlockColumn(w, i) = s /\ \A later : SetColumn(w, i, later) = SetColumn(m, i, later)
    BY <2>2, ColumnTwice
  <2> HIDE DEF w
  <2>5. SseStepx(w, i, e, k) = SetColumn(w, i, SseStep(BlockColumn(w, i), e, k))
    BY <2>3, SseStepWide, Zenon
  <2>6. SseStepx(w, i, e, k) = SetColumn(m, i, SseStep(s, e, k))
    BY <2>4, <2>5, Zenon
  <2>7. QED
    BY <2>1, <2>6, Zenon DEF w
<1>1. at(0) = SseStepx(g, i, j, j) /\ \A k \in 1 .. j : at(k) = SseStepx(at(k - 1), i, j, k - 1)
  <2>1. at(0) = SseStepx(g, i, j, j)
    BY <1>0, RowLoop
  <2>2. ASSUME NEW k \in 1 .. j PROVE at(k) = SseStepx(at(k - 1), i, j, k - 1)
    <3>1. Moved(col, Past(j, k)) = SseStep(Moved(col, Past(j, k - 1)), j, k - 1)
      BY RowLoop, Zenon
    <3>2. SseStepx(at(k - 1), i, j, k - 1)
            = SetColumn(m, i, SseStep(Moved(col, Past(j, k - 1)), j, k - 1))
      BY <1>0, Zenon
    <3>3. QED
      BY <3>1, <3>2, Zenon
  <2>3. QED
    BY <2>1, <2>2, Zenon
<1>2. at(j) = SetColumn(m, i, Moved(col, Full(j + 1)))
  BY PastSteps, Zenon
<1>3. SseRowx(g, i, j) = done[j]
  <2> HIDE DEF g
  <2>1. QED
    BY Zenon DEF SseRowx
<1> HIDE DEF at, g
<1>4. Is(h)
  <2>1. ASSUME NEW k \in 0 .. j
        PROVE  h[k] = IF k = 0 THEN SseStepx(g, i, j, j) ELSE SseStepx(h[k - 1], i, j, k - 1)
    <3>1. CASE k = 0
      BY <1>1, <3>1, Zenon
    <3>2. CASE k # 0
      <4>1. k \in 1 .. j /\ k - 1 \in 0 .. j
        BY <3>2
      <4>2. h[k] = at(k) /\ h[k - 1] = at(k - 1)
        BY <4>1, Zenon
      <4> HIDE DEF h
      <4>3. QED
        BY <1>1, <3>2, <4>1, <4>2, Zenon
    <3>3. QED
      BY <3>1, <3>2, Zenon
  <2>2. h = [k \in 0 .. j |-> h[k]]
    BY Zenon
  <2> HIDE DEF h
  <2>3. QED
    BY <2>1, <2>2, Zenon
<1>5. 0 \in 0 .. j /\ j \in 0 .. j
  OBVIOUS
<1>6. h[0] = at(0) /\ h[j] = at(j) /\ \A k \in 1 .. j : h[k] = at(k) /\ h[k - 1] = at(k - 1)
  <2>1. \A k \in 1 .. j : k \in 0 .. j /\ k - 1 \in 0 .. j
    OBVIOUS
  <2>2. QED
    BY <1>5, <2>1, Zenon
<1> HIDE DEF h
<1>7. Is(done)
  <2> HIDE DEF Is
  <2>1. QED
    BY <1>4, Zenon
<1> HIDE DEF done
<1>8. \A k \in 0 .. j :
        done[k] = IF k = 0 THEN SseStepx(g, i, j, j) ELSE SseStepx(done[k - 1], i, j, k - 1)
  BY <1>7, Zenon
<1> HIDE DEF Is
<1>9. done[0] = h[0]
  BY <1>1, <1>5, <1>6, <1>8, Zenon
<1>a. ASSUME NEW k \in 1 .. j, done[k - 1] = h[k - 1] PROVE done[k] = h[k]
  <2>1. k \in 0 .. j /\ k # 0
    OBVIOUS
  <2>2. done[k] = SseStepx(done[k - 1], i, j, k - 1)
    BY <1>8, <2>1, Zenon
  <2>3. at(k) = SseStepx(at(k - 1), i, j, k - 1)
    BY <1>1, Zenon
  <2>4. QED
    BY <1>6, <1>a, <2>2, <2>3, Zenon
<1>b. done[j] = h[j]
  BY <1>9, <1>a, LoopsAgree
<1>c. QED
  BY <1>2, <1>3, <1>6, <1>b, Zenon DEF g

LEMMA SseBlockIs ==
  ASSUME NEW m, NEW b, IsWide(m, b), NEW i \in 0 .. b - 1, IsMatrix(BlockColumn(m, i))
  PROVE  SseBlock(m, i) = SetColumn(m, i, NaiveTranspose(BlockColumn(m, i)))
<1> DEFINE z == kKappa \div SubSide
           col == BlockColumn(m, i)
           Is(f) == f = [j \in 0 .. z |-> IF j = 0 THEN m ELSE SseRowx(f[j - 1], i, j - 1)]
           at(j) == SetColumn(m, i, Moved(col, Full(j)))
           h == [j \in 0 .. z |-> at(j)]
           done == CHOOSE f : Is(f)
<1>0. z \in Nat
  BY SquaresOf, KappaNat
<1>1. ASSUME NEW j \in 1 .. z PROVE at(j) = SseRowx(at(j - 1), i, j - 1)
  <2>1. PICK k \in Nat : k = j - 1 /\ j = k + 1
    BY <1>0
  <2>2. SseRowx(at(k), i, k) = at(k + 1)
    BY SseRowWide, Zenon
  <2> HIDE DEF at
  <2>3. QED
    BY <2>1, <2>2, Zenon
<1>2. at(z) = SetColumn(m, i, NaiveTranspose(col))
  BY MovedAll, Zenon
<1>s. at(0) = m
  <2>1. Moved(col, Full(0)) = col
    BY MovedNone, Zenon
  <2>2. SetColumn(m, i, col) = m
    <3>1. IsWide(SetColumn(m, i, col), b)
      BY ColumnWide, Zenon
    <3>2. ASSUME NEW r \in Bits, NEW j \in 0 .. b - 1 PROVE SetColumn(m, i, col)[r][j] = m[r][j]
      <4>1. col[r] = m[r][i]
        BY Zenon DEF BlockColumn
      <4> HIDE DEF col
      <4>2. /\ SetColumn(m, i, col)[r][i] = col[r]
            /\ j # i => SetColumn(m, i, col)[r][j] = m[r][j]
        BY ColumnAt
      <4>3. QED
        BY <4>1, <4>2, Zenon
    <3>3. QED
      BY <3>1, <3>2, SameWide
  <2>3. QED
    BY <2>1, <2>2, Zenon
<1>3. SseBlock(m, i) = done[z]
  BY Zenon DEF SseBlock
<1> HIDE DEF at, z, col
<1>4. Is(h)
  <2>1. ASSUME NEW j \in 0 .. z PROVE h[j] = IF j = 0 THEN m ELSE SseRowx(h[j - 1], i, j - 1)
    <3>1. CASE j = 0
      BY <1>s, <3>1, Zenon
    <3>2. CASE j # 0
      <4>1. j \in 1 .. z /\ j - 1 \in 0 .. z
        BY <1>0, <3>2
      <4>2. h[j] = at(j) /\ h[j - 1] = at(j - 1)
        BY <4>1, Zenon
      <4> HIDE DEF h
      <4>3. QED
        BY <1>1, <3>2, <4>1, <4>2, Zenon
    <3>3. QED
      BY <3>1, <3>2, Zenon
  <2>2. h = [j \in 0 .. z |-> h[j]]
    BY Zenon
  <2> HIDE DEF h
  <2>3. QED
    BY <2>1, <2>2, Zenon
<1>5. 0 \in 0 .. z /\ z \in 0 .. z
  BY <1>0
<1>6. h[0] = at(0) /\ h[z] = at(z) /\ \A j \in 1 .. z : h[j] = at(j) /\ h[j - 1] = at(j - 1)
  <2>1. \A j \in 1 .. z : j \in 0 .. z /\ j - 1 \in 0 .. z
    BY <1>0
  <2>2. QED
    BY <1>5, <2>1, Zenon
<1> HIDE DEF h
<1>7. Is(done)
  <2> HIDE DEF Is
  <2>1. QED
    BY <1>4, Zenon
<1> HIDE DEF done
<1>8. \A j \in 0 .. z : done[j] = IF j = 0 THEN m ELSE SseRowx(done[j - 1], i, j - 1)
  BY <1>7, Zenon
<1> HIDE DEF Is
<1>9. done[0] = h[0]
  BY <1>s, <1>5, <1>6, <1>8, Zenon
<1>a. ASSUME NEW j \in 1 .. z, done[j - 1] = h[j - 1] PROVE done[j] = h[j]
  <2>1. j \in 0 .. z /\ j # 0
    BY <1>0
  <2>2. done[j] = SseRowx(done[j - 1], i, j - 1)
    BY <1>8, <2>1, Zenon
  <2>3. QED
    BY <1>1, <1>6, <1>a, <2>2, Zenon
<1>b. done[z] = h[z]
  BY <1>0, <1>9, <1>a, LoopsAgree
<1>c. QED
  BY <1>2, <1>3, <1>6, <1>b, Zenon DEF col

\* The wide matrix with its first i blocks transposed.
BitsAt(m, j, r) == [c \in Bits |-> m[c][j][r]]
Turned(m, b, i) ==
  [r \in Bits |-> [j \in 0 .. b - 1 |-> IF j < i THEN BitsAt(m, j, r) ELSE m[r][j]]]

LEMMA TurnedAt ==
  ASSUME NEW m, NEW b, NEW i, NEW r \in Bits, NEW j \in 0 .. b - 1
  PROVE  Turned(m, b, i)[r][j] = IF j < i THEN BitsAt(m, j, r) ELSE m[r][j]
  BY Zenon DEF Turned

LEMMA TurnedWide ==
  ASSUME NEW m, NEW b, NEW i
  PROVE  IsWide(Turned(m, b, i), b)
<1> DEFINE f == Turned(m, b, i)
<1>1. ASSUME NEW r \in Bits PROVE f[r] = [j \in 0 .. b - 1 |-> f[r][j]]
  <2>1. f[r] = [j \in 0 .. b - 1 |-> IF j < i THEN BitsAt(m, j, r) ELSE m[r][j]]
    BY Zenon DEF Turned
  <2> HIDE DEF f
  <2>2. QED
    BY <2>1, Zenon
<1>2. f = [r \in Bits |-> f[r]]
  BY Zenon DEF Turned
<1> HIDE DEF f
<1>3. f = [r \in Bits |-> [j \in 0 .. b - 1 |-> f[r][j]]]
  BY <1>1, <1>2, Zenon
<1>4. QED
  BY <1>3, Zenon DEF IsWide, f

LEMMA TurnNext ==
  ASSUME NEW m, NEW b \in Nat, NEW i \in 0 .. b - 1, IsMatrix(BlockColumn(m, i))
  PROVE  SseBlock(Turned(m, b, i), i) = Turned(m, b, i + 1)
<1> DEFINE old == Turned(m, b, i)
           new == Turned(m, b, i + 1)
           col == BlockColumn(m, i)
<1>1. IsWide(old, b) /\ IsWide(new, b)
  BY TurnedWide, Zenon
<1>2. ASSUME NEW r \in Bits, NEW j \in 0 .. b - 1
      PROVE  /\ old[r][j] = IF j < i THEN BitsAt(m, j, r) ELSE m[r][j]
             /\ new[r][j] = IF j < i + 1 THEN BitsAt(m, j, r) ELSE m[r][j]
  BY TurnedAt
<1>3. BlockColumn(old, i) = col
  <2>1. ~(i < i)
    OBVIOUS
  <2>2. \A r \in Bits : old[r][i] = m[r][i]
    <3> HIDE DEF old
    <3>1. QED
      BY <1>2, <2>1, Zenon
  <2> HIDE DEF old
  <2>3. QED
    BY <2>2, Zenon DEF BlockColumn
<1>4. ASSUME NEW r \in Bits PROVE NaiveTranspose(col)[r] = BitsAt(m, i, r)
  <2>1. NaiveTranspose(col)[r] = [c \in Bits |-> col[c][r]]
    BY Zenon DEF NaiveTranspose
  <2>2. \A c \in Bits : col[c] = m[c][i]
    BY Zenon DEF BlockColumn
  <2> HIDE DEF col
  <2>3. QED
    BY <2>1, <2>2, Zenon DEF BitsAt
<1> HIDE DEF old, new
<1>5. SseBlock(old, i) = SetColumn(old, i, NaiveTranspose(col))
  BY <1>1, <1>3, SseBlockIs, Zenon
<1> HIDE DEF col
<1>6. ASSUME NEW r \in Bits, NEW j \in 0 .. b - 1
      PROVE  SetColumn(old, i, NaiveTranspose(col))[r][j] = new[r][j]
  <2>1. SetColumn(old, i, NaiveTranspose(col))[r][j]
          = IF j = i THEN NaiveTranspose(col)[r] ELSE old[r][j]
    BY <1>1, ColumnAt
  <2>2. j < i + 1 <=> j < i \/ j = i
    OBVIOUS
  <2>3. QED
    BY <1>2, <1>4, <2>1, <2>2, Zenon
<1>7. IsWide(SetColumn(old, i, NaiveTranspose(col)), b)
  BY <1>1, ColumnWide
<1>8. SetColumn(old, i, NaiveTranspose(col)) = new
  BY <1>1, <1>6, <1>7, SameWide
<1>9. QED
  BY <1>5, <1>8, Zenon DEF old, new

LEMMA WideBlocks ==
  ASSUME NEW m, NEW b \in Nat, IsWide(m, b)
  PROVE  NumBlocks(m) = b
<1>1. 0 \in Bits
  BY BitsNat, KappaNat
<1>2. DOMAIN m[0] = 0 .. b - 1
  BY <1>1, WideRow, Zenon
<1>3. Cardinality(0 .. b - 1) = IF 0 > b - 1 THEN 0 ELSE (b - 1) - 0 + 1
  BY FS_Interval
<1>4. Cardinality(0 .. b - 1) = b
  <2>1. PICK size : size = Cardinality(0 .. b - 1)
    OBVIOUS
  <2>2. size = IF 0 > b - 1 THEN 0 ELSE (b - 1) - 0 + 1
    BY <1>3, <2>1, Zenon
  <2>3. size = b
    BY <2>2
  <2>4. QED
    BY <2>1, <2>3, Zenon
<1>5. QED
  BY <1>2, <1>4, Zenon DEF NumBlocks

LEMMA WideIsNaive ==
  ASSUME NEW m, NEW b \in Nat, IsWide(m, b), \A i \in 0 .. b - 1 : IsMatrix(BlockColumn(m, i))
  PROVE  SseTranspose128x1024(m) = Turned(m, b, b)
<1> DEFINE Is(f) == f = [i \in 0 .. b |-> IF i = 0 THEN m ELSE SseBlock(f[i - 1], i - 1)]
           at(i) == Turned(m, b, i)
           h == [i \in 0 .. b |-> at(i)]
           done == CHOOSE f : Is(f)
<1>1. ASSUME NEW i \in 1 .. b PROVE at(i) = SseBlock(at(i - 1), i - 1)
  <2>1. PICK k \in 0 .. b - 1 : k = i - 1 /\ i = k + 1
    OBVIOUS
  <2>2. SseBlock(at(k), k) = at(k + 1)
    BY TurnNext
  <2> HIDE DEF at
  <2>3. QED
    BY <2>1, <2>2, Zenon
<1>2. at(0) = m
  <2>1. IsWide(at(0), b)
    BY TurnedWide, Zenon
  <2>2. ASSUME NEW r \in Bits, NEW j \in 0 .. b - 1 PROVE at(0)[r][j] = m[r][j]
    <3>1. ~(j < 0)
      OBVIOUS
    <3>2. QED
      BY <3>1, TurnedAt
  <2>3. QED
    BY <2>1, <2>2, SameWide
<1>3. SseTranspose128x1024(m) = done[b]
  BY WideBlocks, Zenon DEF SseTranspose128x1024
<1> HIDE DEF at
<1>4. Is(h)
  <2>1. ASSUME NEW i \in 0 .. b PROVE h[i] = IF i = 0 THEN m ELSE SseBlock(h[i - 1], i - 1)
    <3>1. CASE i = 0
      BY <1>2, <3>1, Zenon
    <3>2. CASE i # 0
      <4>1. i \in 1 .. b /\ i - 1 \in 0 .. b
        BY <3>2
      <4>2. h[i] = at(i) /\ h[i - 1] = at(i - 1)
        BY <4>1, Zenon
      <4> HIDE DEF h
      <4>3. QED
        BY <1>1, <3>2, <4>1, <4>2, Zenon
    <3>3. QED
      BY <3>1, <3>2, Zenon
  <2>2. h = [i \in 0 .. b |-> h[i]]
    BY Zenon
  <2> HIDE DEF h
  <2>3. QED
    BY <2>1, <2>2, Zenon
<1>5. 0 \in 0 .. b /\ b \in 0 .. b
  OBVIOUS
<1>6. h[0] = at(0) /\ h[b] = at(b) /\ \A i \in 1 .. b : h[i] = at(i) /\ h[i - 1] = at(i - 1)
  <2>1. \A i \in 1 .. b : i \in 0 .. b /\ i - 1 \in 0 .. b
    OBVIOUS
  <2>2. QED
    BY <1>5, <2>1, Zenon
<1> HIDE DEF h
<1>7. Is(done)
  <2> HIDE DEF Is
  <2>1. QED
    BY <1>4, Zenon
<1> HIDE DEF done
<1>8. \A i \in 0 .. b : done[i] = IF i = 0 THEN m ELSE SseBlock(done[i - 1], i - 1)
  BY <1>7, Zenon
<1> HIDE DEF Is
<1>9. done[0] = h[0]
  BY <1>2, <1>5, <1>6, <1>8, Zenon
<1>a. ASSUME NEW i \in 1 .. b, done[i - 1] = h[i - 1] PROVE done[i] = h[i]
  <2>1. i \in 0 .. b /\ i # 0
    OBVIOUS
  <2>2. done[i] = SseBlock(done[i - 1], i - 1)
    BY <1>8, <2>1, Zenon
  <2>3. QED
    BY <1>1, <1>6, <1>a, <2>2, Zenon
<1>b. done[b] = h[b]
  BY <1>9, <1>a, LoopsAgree
<1>c. QED
  BY <1>3, <1>6, <1>b, Zenon DEF at

\* The same of Eklundh's method.
EklundhBlock(m, i) == SetColumn(m, i, EklundhTranspose128(BlockColumn(m, i)))

LEMMA EklundhNext ==
  ASSUME NEW m, NEW b \in Nat, NEW i \in 0 .. b - 1, IsMatrix(BlockColumn(m, i))
  PROVE  EklundhBlock(Turned(m, b, i), i) = Turned(m, b, i + 1)
<1> DEFINE old == Turned(m, b, i)
<1>1. SseBlock(old, i) = Turned(m, b, i + 1) /\ IsWide(old, b)
  BY TurnNext, TurnedWide
<1>2. BlockColumn(old, i) = BlockColumn(m, i)
  <2>1. ~(i < i)
    OBVIOUS
  <2>2. \A r \in Bits : old[r][i] = m[r][i]
    BY <2>1, TurnedAt
  <2> HIDE DEF old
  <2>3. QED
    BY <2>2, Zenon DEF BlockColumn
<1> HIDE DEF old
<1>3. IsMatrix(BlockColumn(old, i))
  BY <1>2, Zenon
<1>4. SseBlock(old, i) = SetColumn(old, i, NaiveTranspose(BlockColumn(old, i)))
  BY <1>1, <1>3, SseBlockIs
<1>5. EklundhTranspose128(BlockColumn(old, i)) = NaiveTranspose(BlockColumn(old, i))
  BY <1>3, EklundhIsNaive
<1>6. QED
  BY <1>1, <1>4, <1>5, Zenon DEF EklundhBlock, old

LEMMA WideEklundh ==
  ASSUME NEW m, NEW b \in Nat, IsWide(m, b), \A i \in 0 .. b - 1 : IsMatrix(BlockColumn(m, i))
  PROVE  EklundhTranspose128x1024(m) = Turned(m, b, b)
<1> DEFINE Is(f) == f = [i \in 0 .. b |-> IF i = 0 THEN m ELSE EklundhBlock(f[i - 1], i - 1)]
           at(i) == Turned(m, b, i)
           h == [i \in 0 .. b |-> at(i)]
           done == CHOOSE f : Is(f)
<1>1. ASSUME NEW i \in 1 .. b PROVE at(i) = EklundhBlock(at(i - 1), i - 1)
  <2>1. PICK k \in 0 .. b - 1 : k = i - 1 /\ i = k + 1
    OBVIOUS
  <2>2. EklundhBlock(at(k), k) = at(k + 1)
    BY EklundhNext
  <2> HIDE DEF at
  <2>3. QED
    BY <2>1, <2>2, Zenon
<1>2. at(0) = m
  <2>1. IsWide(at(0), b)
    BY TurnedWide, Zenon
  <2>2. ASSUME NEW r \in Bits, NEW j \in 0 .. b - 1 PROVE at(0)[r][j] = m[r][j]
    <3>1. ~(j < 0)
      OBVIOUS
    <3>2. QED
      BY <3>1, TurnedAt
  <2>3. QED
    BY <2>1, <2>2, SameWide
<1>3. EklundhTranspose128x1024(m) = done[b]
  BY WideBlocks, Zenon DEF EklundhTranspose128x1024, EklundhBlock
<1> HIDE DEF at
<1>4. Is(h)
  <2>1. ASSUME NEW i \in 0 .. b PROVE h[i] = IF i = 0 THEN m ELSE EklundhBlock(h[i - 1], i - 1)
    <3>1. CASE i = 0
      BY <1>2, <3>1, Zenon
    <3>2. CASE i # 0
      <4>1. i \in 1 .. b /\ i - 1 \in 0 .. b
        BY <3>2
      <4>2. h[i] = at(i) /\ h[i - 1] = at(i - 1)
        BY <4>1, Zenon
      <4> HIDE DEF h
      <4>3. QED
        BY <1>1, <3>2, <4>1, <4>2, Zenon
    <3>3. QED
      BY <3>1, <3>2, Zenon
  <2>2. h = [i \in 0 .. b |-> h[i]]
    BY Zenon
  <2> HIDE DEF h
  <2>3. QED
    BY <2>1, <2>2, Zenon
<1>5. 0 \in 0 .. b /\ b \in 0 .. b
  OBVIOUS
<1>6. h[0] = at(0) /\ h[b] = at(b) /\ \A i \in 1 .. b : h[i] = at(i) /\ h[i - 1] = at(i - 1)
  <2>1. \A i \in 1 .. b : i \in 0 .. b /\ i - 1 \in 0 .. b
    OBVIOUS
  <2>2. QED
    BY <1>5, <2>1, Zenon
<1> HIDE DEF h
<1>7. Is(done)
  <2> HIDE DEF Is
  <2>1. QED
    BY <1>4, Zenon
<1> HIDE DEF done
<1>8. \A i \in 0 .. b : done[i] = IF i = 0 THEN m ELSE EklundhBlock(done[i - 1], i - 1)
  BY <1>7, Zenon
<1> HIDE DEF Is
<1>9. done[0] = h[0]
  BY <1>2, <1>5, <1>6, <1>8, Zenon
<1>a. ASSUME NEW i \in 1 .. b, done[i - 1] = h[i - 1] PROVE done[i] = h[i]
  <2>1. i \in 0 .. b /\ i # 0
    OBVIOUS
  <2>2. done[i] = EklundhBlock(done[i - 1], i - 1)
    BY <1>8, <2>1, Zenon
  <2>3. QED
    BY <1>1, <1>6, <1>a, <2>2, Zenon
<1>b. done[b] = h[b]
  BY <1>9, <1>a, LoopsAgree
<1>c. QED
  BY <1>3, <1>6, <1>b, Zenon DEF at

(* SseTranspose128 and EklundhTranspose128, and their 128x1024 forms, for  *)
(* every matrix: the transpose of every block, whichever of them the       *)
(* processor selects.                                                      *)
THEOREM TransposesCorrect ==
  ASSUME NEW cpu
  PROVE  /\ \A m : IsMatrix(m) => MatrixTranspose128(m, cpu) = NaiveTranspose(m)
         /\ \A m : \A b \in Nat :
              IsWide(m, b) /\ (\A i \in 0 .. b - 1 : IsMatrix(BlockColumn(m, i)))
                => \A r, c \in Bits, i \in 0 .. b - 1 :
                     MatrixTranspose128x1024(m, cpu)[r][i][c] = m[c][i][r]
<1>1. ASSUME NEW m, IsMatrix(m) PROVE MatrixTranspose128(m, cpu) = NaiveTranspose(m)
  BY <1>1, TransposeIsNaive
<1>2. ASSUME NEW m, NEW b \in Nat, IsWide(m, b), \A i \in 0 .. b - 1 : IsMatrix(BlockColumn(m, i)),
             NEW r \in Bits, NEW c \in Bits, NEW i \in 0 .. b - 1
      PROVE  MatrixTranspose128x1024(m, cpu)[r][i][c] = m[c][i][r]
  <2>1. SseTranspose128x1024(m) = Turned(m, b, b)
    BY <1>2, WideIsNaive
  <2>2. EklundhTranspose128x1024(m) = Turned(m, b, b)
    BY <1>2, WideEklundh
  <2>3. MatrixTranspose128x1024(m, cpu) = Turned(m, b, b)
    BY <2>1, <2>2, Zenon DEF MatrixTranspose128x1024
  <2>4. i < b
    OBVIOUS
  <2>5. Turned(m, b, b)[r][i] = IF i < b THEN BitsAt(m, i, r) ELSE m[r][i]
    BY TurnedAt
  <2>6. Turned(m, b, b)[r][i] = BitsAt(m, i, r)
    BY <2>4, <2>5, Zenon
  <2>7. BitsAt(m, i, r)[c] = m[c][i][r]
    BY Zenon DEF BitsAt
  <2>8. QED
    BY <2>3, <2>6, <2>7, Zenon
<1>3. ASSUME NEW m, NEW b \in Nat,
             IsWide(m, b) /\ (\A i \in 0 .. b - 1 : IsMatrix(BlockColumn(m, i)))
      PROVE  \A r, c \in Bits, i \in 0 .. b - 1 :
               MatrixTranspose128x1024(m, cpu)[r][i][c] = m[c][i][r]
  BY <1>2, <1>3
<1>4. QED
  BY <1>1, <1>3

-----------------------------------------------------------------------------
(* The KKRT extension in one call.                                         *)

LEMMA ColsAre ==
  /\ kKkrtWidth * kKappa \in Nat \ {0} /\ Cols = 0 .. kKkrtWidth * kKappa - 1 /\ 0 \in Cols
  /\ \A c \in Cols :
       /\ c \in Nat /\ c \div kKappa \in 0 .. kKkrtWidth - 1 /\ c % kKappa \in Bits
       /\ (c \div kKappa) * kKappa + (c % kKappa) = c
<1>1. PICK w \in Nat \ {0}, k \in Nat \ {0} : w = kKkrtWidth /\ k = kKappa
  BY KappaNat, OtAssumption
<1>2. PICK a \in Nat \ {0} : a = w * k
  <2>1. w * k \in Nat /\ w * k # 0
    BY Z3
  <2>2. QED
    BY <2>1
<1>3. Cols = 0 .. a - 1
  BY <1>1, <1>2, Zenon DEF Cols
<1>4. ASSUME NEW c \in Cols
      PROVE  /\ c \in Nat /\ c \div kKappa \in 0 .. kKkrtWidth - 1 /\ c % kKappa \in Bits
             /\ (c \div kKappa) * kKappa + (c % kKappa) = c
  <2>1. c \in Nat /\ c < a
    BY <1>3
  <2>2. /\ c \div kKappa \in Nat /\ c % kKappa \in Bits
        /\ c = (c \div kKappa) * kKappa + (c % kKappa)
    BY <2>1, PlaceIn
  <2>3. PICK e \in Nat : e = c \div kKappa
    BY <2>2
  <2>4. PICK s \in Nat : s = c % kKappa
    BY <2>2, BitsNat
  <2>5. c = e * k + s
    BY <1>1, <2>2, <2>3, <2>4, Zenon
  <2>6. e < w
    <3>1. ASSUME NEW d \in Nat, e = w + d PROVE FALSE
      <4>1. e * k = w * k + d * k /\ d * k >= 0
        BY <3>1, Z3
      <4>2. PICK o \in Int, p \in Int : o = e * k /\ p = d * k
        OBVIOUS
      <4>3. QED
        BY <1>2, <2>1, <2>5, <4>1, <4>2
    <3>2. e >= w => e - w \in Nat /\ e = w + (e - w)
      OBVIOUS
    <3>3. QED
      BY <3>1, <3>2
  <2>7. e \in 0 .. w - 1
    BY <2>6
  <2>8. QED
    BY <1>1, <2>1, <2>2, <2>3, <2>7, Zenon
<1>5. 0 \in Cols
  BY <1>3
<1>6. QED
  BY <1>1, <1>2, <1>3, <1>4, <1>5, Zenon

LEMMA DrawnMatrix ==
  ASSUME NEW seeds, NEW w, NEW i
  PROVE  IsMatrix([k \in Bits |-> Draw(seeds[w * kKappa + k], i)])
<1> DEFINE m == [k \in Bits |-> Draw(seeds[w * kKappa + k], i)]
<1>1. ASSUME NEW k \in Bits PROVE m[k] = [c \in Bits |-> m[k][c]]
  <2>1. m[k] = [c \in Bits |-> {<<"prg", seeds[w * kKappa + k], i, c>>}]
    BY Zenon DEF Draw
  <2> HIDE DEF m
  <2>2. QED
    BY <2>1, Zenon
<1>2. m = [k \in Bits |-> m[k]]
  BY Zenon
<1> HIDE DEF m
<1>3. m = [k \in Bits |-> [c \in Bits |-> m[k][c]]]
  BY <1>1, <1>2, Zenon
<1>4. QED
  BY <1>3, Zenon DEF IsMatrix, m

\* The rows of a batch, whichever transpose is used.
LEMMA BatchRowsAre ==
  ASSUME NEW seeds, NEW i, NEW r \in Bits
  PROVE  BatchRows(seeds, i)[r] = [c \in Cols |-> {<<"prg", seeds[c], i, r>>}]
<1> DEFINE mat(w) == [k \in Bits |-> Draw(seeds[w * kKappa + k], i)]
           m == [w \in 0 .. kKkrtWidth - 1 |-> MatrixTranspose128(mat(w), sse2)]
<1>1. BatchRows(seeds, i)[r] = [c \in Cols |-> m[c \div kKappa][r][c % kKappa]]
  BY Zenon DEF BatchRows
<1>2. ASSUME NEW c \in Cols PROVE m[c \div kKappa][r][c % kKappa] = {<<"prg", seeds[c], i, r>>}
  <2>1. PICK w \in 0 .. kKkrtWidth - 1, e \in Bits :
          w = c \div kKappa /\ e = c % kKappa /\ w * kKappa + e = c
    BY ColsAre, Zenon
  <2>2. IsMatrix(mat(w))
    BY DrawnMatrix, Zenon
  <2>3. MatrixTranspose128(mat(w), sse2) = NaiveTranspose(mat(w))
    <3> HIDE DEF mat
    <3>1. QED
      BY <2>2, TransposeIsNaive, Zenon
  <2>4. mat(w)[e][r] = {<<"prg", seeds[w * kKappa + e], i, r>>}
    BY Zenon DEF Draw
  <2> HIDE DEF mat
  <2>5. m[w] = NaiveTranspose(mat(w))
    BY <2>3, Zenon
  <2>6. m[w][r][e] = mat(w)[e][r]
    <3>1. NaiveTranspose(mat(w))[r][e] = mat(w)[e][r]
      BY Zenon DEF NaiveTranspose
    <3> HIDE DEF m
    <3>2. QED
      BY <2>5, <3>1, Zenon
  <2> HIDE DEF m
  <2>7. QED
    BY <2>1, <2>4, <2>6, Zenon
<1> HIDE DEF m
<1>3. QED
  BY <1>1, <1>2, Zenon

\* The sender's row as drawn, the receiver's with a code mixed in, and the sender's
\* once that has been added to it.
DrawnRow(row, j) == row = [c \in Cols |-> PadBit(c, IF c \in choices THEN 1 ELSE 0, j)]
CodedRow(row, code, j) == row = [c \in Cols |-> SymDiff(MixedBit(c, j), code[c])]

LEMMA MixRow ==
  ASSUME NEW row, NEW u, NEW code, NEW j, DrawnRow(row, j), CodedRow(u, code, j)
  PROVE  XorWord(row, AndMask(u, choices)) = SentRow(Cols, j, code)
<1>1. DOMAIN row = Cols /\ DOMAIN u = Cols
  BY Zenon DEF DrawnRow, CodedRow
<1>2. ASSUME NEW c \in Cols
      PROVE  SymDiff(row[c], AndMask(u, choices)[c])
               = IF c \in choices THEN SymDiff(PadBit(c, 0, j), code[c]) ELSE PadBit(c, 0, j)
  <2>1. AndMask(u, choices)[c] = IF c \in choices THEN u[c] ELSE {}
    BY <1>1, Zenon DEF AndMask
  <2>2. CASE c \in choices
    <3>1. row[c] = PadBit(c, 1, j) /\ u[c] = SymDiff(MixedBit(c, j), code[c])
      BY <2>2, Zenon DEF DrawnRow, CodedRow
    <3>2. SymDiff(PadBit(c, 1, j), SymDiff(MixedBit(c, j), code[c]))
            = SymDiff(SymDiff(MixedBit(c, j), code[c]), PadBit(c, 1, j))
      BY XorFacts
    <3>3. SymDiff(SymDiff(SymDiff(PadBit(c, 0, j), PadBit(c, 1, j)), code[c]), PadBit(c, 1, j))
            = SymDiff(PadBit(c, 0, j), code[c])
      BY XorFacts
    <3>4. QED
      BY <2>1, <2>2, <3>1, <3>2, <3>3, Zenon DEF MixedBit
  <2>3. CASE c \notin choices
    <3>1. row[c] = PadBit(c, 0, j)
      BY <2>3, Zenon DEF DrawnRow
    <3>2. SymDiff(PadBit(c, 0, j), {}) = PadBit(c, 0, j)
      BY XorFacts
    <3>3. QED
      BY <2>1, <2>3, <3>1, <3>2, Zenon
  <2>4. QED
    BY <2>2, <2>3
<1>3. QED
  BY <1>1, <1>2, Zenon DEF XorWord, SentRow

\* What the sender's PRF takes at x.
PrfRow(row, y) == XorWord(AndMask(Prc(y), choices), row)

LEMMA EvalIs ==
  ASSUME choices \subseteq Cols, NEW j, NEW code, NEW y
  PROVE  PrfRow(SentRow(Cols, j, code), y) = PadRow(Cols, j)
           <=> \A c \in choices : code[c] = Prc(y)[c]
<1> DEFINE row == SentRow(Cols, j, code)
           v == PrfRow(row, y)
<1>1. DOMAIN AndMask(Prc(y), choices) = Cols
  BY Zenon DEF AndMask, Prc
<1>2. v = [c \in Cols |-> SymDiff(AndMask(Prc(y), choices)[c], row[c])]
  <2> HIDE DEF row
  <2>1. QED
    BY <1>1, Zenon DEF PrfRow, XorWord
<1>3. ASSUME NEW c \in Cols
      PROVE  /\ c \in choices => v[c] = SymDiff(Prc(y)[c], SymDiff(PadBit(c, 0, j), code[c]))
             /\ c \notin choices => v[c] = PadBit(c, 0, j)
  <2>1. AndMask(Prc(y), choices)[c] = IF c \in choices THEN Prc(y)[c] ELSE {}
    BY Zenon DEF AndMask, Prc
  <2>2. row[c] = IF c \in choices THEN SymDiff(PadBit(c, 0, j), code[c]) ELSE PadBit(c, 0, j)
    BY Zenon DEF SentRow
  <2> HIDE DEF row, v
  <2>3. v[c] = SymDiff(AndMask(Prc(y), choices)[c], row[c])
    BY <1>2, Zenon
  <2>4. SymDiff({}, PadBit(c, 0, j)) = PadBit(c, 0, j)
    BY XorFacts
  <2>5. QED
    BY <2>1, <2>2, <2>3, <2>4, Zenon
<1> HIDE DEF v
<1>4. PadRow(Cols, j) = [c \in Cols |-> PadBit(c, 0, j)]
  BY Zenon DEF PadRow
<1>5. v = PadRow(Cols, j) <=> \A c \in Cols : v[c] = PadBit(c, 0, j)
  BY <1>2, <1>4, Zenon
<1>6. ASSUME NEW c \in choices PROVE v[c] = PadBit(c, 0, j) <=> code[c] = Prc(y)[c]
  <2>1. c \in Cols
    OBVIOUS
  <2>2. v[c] = SymDiff(Prc(y)[c], SymDiff(PadBit(c, 0, j), code[c]))
    BY <1>3, <2>1, Zenon
  <2>3. PICK a, b, d : a = Prc(y)[c] /\ b = code[c] /\ d = PadBit(c, 0, j)
    OBVIOUS
  <2>4. SymDiff(a, SymDiff(d, b)) = d <=> b = a
    <3>1. \A e, f, g : e \in SymDiff(f, g) <=> ~(e \in f <=> e \in g)
      BY DEF SymDiff
    <3>2. \A e : e \in SymDiff(a, SymDiff(d, b)) <=> ~(e \in a <=> ~(e \in d <=> e \in b))
      BY <3>1
    <3>3. SymDiff(a, SymDiff(d, b)) = d => \A e : e \in b <=> e \in a
      BY <3>2
    <3>4. (\A e : e \in b <=> e \in a) => b = a
      OBVIOUS
    <3>5. SymDiff(a, SymDiff(d, a)) = d
      <4>1. \A e : e \in SymDiff(a, SymDiff(d, a)) <=> e \in d
        BY <3>1
      <4>2. QED
        BY <4>1
    <3>6. QED
      BY <3>3, <3>4, <3>5, Zenon
  <2>5. QED
    BY <2>2, <2>3, <2>4, Zenon
<1>7. QED
  BY <1>3, <1>5, <1>6, Zenon DEF v

KkrtWord(j) == [c \in Cols |-> SymDiff(MixedBit(c, j), Prc(inputs[j])[c])]
KkrtRow(j) == SentRow(Cols, j, Prc(inputs[j]))

LEMMA KkrtSame ==
  ASSUME impl' = impl, choices' = choices, inputs' = inputs
  PROVE  \A j : KkrtWord(j)' = KkrtWord(j) /\ KkrtRow(j)' = KkrtRow(j)
                /\ PadRow(Cols, j)' = PadRow(Cols, j)
<1>1. \A c, b, j : PadBit(c, b, j)' = PadBit(c, b, j)
  BY PadBitSame
<1>2. \A c, j : MixedBit(c, j)' = MixedBit(c, j)
  BY <1>1, Zenon DEF MixedBit
<1>3. \A j, code : SentRow(Cols, j, code)' = SentRow(Cols, j, code')
  BY <1>1, Zenon DEF SentRow
<1>4. QED
  BY <1>1, <1>2, <1>3, Zenon DEF KkrtWord, KkrtRow, PadRow

LEMMA KkrtParts ==
  ASSUME KkrtInv
  PROVE  /\ n \in Nat /\ num = kKkrtWidth * kKappa /\ choices \subseteq Cols
         /\ rBatch \in Nat /\ sBatch \in Nat /\ sBatch <= rBatch
         /\ IsList(net, rBatch - sBatch)
         /\ \A i \in sBatch .. rBatch - 1, k \in Bits :
              i * kKappa + k < n => net[i - sBatch + 1][k] = KkrtWord(i * kKappa + k)
         /\ rOut = [j \in 1 .. Reached(rBatch) |-> Hash(PadRow(Cols, j - 1))]
         /\ q = [j \in 1 .. Reached(sBatch) |-> KkrtRow(j - 1)]
         /\ sOut = <<>> /\ StreamIdle
<1>1. rBatch \in Nat /\ sBatch \in 0 .. rBatch
  BY Zenon DEF KkrtInv
<1>2. sBatch \in Nat /\ sBatch <= rBatch
  BY <1>1
<1>3. kBatchSize = kKappa
  BY KappaNat
<1>4. \A i \in sBatch .. rBatch - 1, k \in Bits :
         i * kKappa + k < n => net[i - sBatch + 1][k] = KkrtWord(i * kKappa + k)
  BY <1>3, ZenonT(60) DEF KkrtInv, KkrtWord
<1>5. QED
  BY <1>1, <1>2, <1>4, Zenon DEF KkrtInv, IsList, KkrtRow

LEMMA BeforeLimit ==
  ASSUME NEW i \in Nat, n \in Nat, i * kBatchSize < n, NEW k \in Bits
  PROVE  k < Limit(i) <=> i * kKappa + k < n
<1>1. PICK d \in Nat \ {0} : d = kKappa /\ d = kBatchSize
  BY KappaNat
<1>2. PICK m \in Nat : m = i * d
  OBVIOUS
<1>3. Min({d, n - m}) = IF d <= n - m THEN d ELSE n - m
  BY MinPair
<1>4. Limit(i) = Min({d, n - m})
  BY <1>1, <1>2, Zenon DEF Limit
<1>5. k \in Nat /\ k < d
  BY <1>1, BitsNat
<1>6. k < Limit(i) <=> m + k < n
  BY <1>3, <1>4, <1>5
<1>7. QED
  BY <1>1, <1>2, <1>6, Zenon

\* The receiver's rows of a batch.
LEMMA SeedRows ==
  ASSUME BaseInv, BaseSendDone, num = kKkrtWidth * kKappa, NEW i \in Nat, NEW r \in Bits,
         NEW b \in 0 .. 1
  PROVE  BatchRows([c \in Cols |-> sBlocks[c + 1][b]], i)[r]
           = [c \in Cols |-> PadBit(c, b, i * kKappa + r)]
<1> DEFINE seeds == [c \in Cols |-> sBlocks[c + 1][b]]
<1>1. ASSUME NEW c \in Cols PROVE {<<"prg", seeds[c], i, r>>} = PadBit(c, b, i * kKappa + r)
  <2>1. c \in 0 .. num - 1
    BY ColsAre, Zenon
  <2>2. sBlocks[c + 1][b] = Agreed(c + 1, b)
    BY <2>1, SenderHas
  <2>3. seeds[c] = Agreed(c + 1, b)
    BY <2>2, Zenon
  <2> HIDE DEF seeds
  <2>4. PadBit(c, b, i * kKappa + r) = {<<"prg", Agreed(c + 1, b), i, r>>}
    BY PadBitAt
  <2>5. QED
    BY <2>3, <2>4, Zenon
<1> HIDE DEF seeds
<1>2. BatchRows(seeds, i)[r] = [c \in Cols |-> {<<"prg", seeds[c], i, r>>}]
  BY BatchRowsAre
<1>3. BatchRows(seeds, i)[r] = [c \in Cols |-> PadBit(c, b, i * kKappa + r)]
  BY <1>1, <1>2, Zenon
<1>4. QED
  BY <1>3, Zenon DEF seeds

\* The sender's rows of a batch.
LEMMA ChosenRows ==
  ASSUME BaseInv, BaseRecvDone, num = kKkrtWidth * kKappa, NEW i \in Nat, NEW r \in Bits
  PROVE  DrawnRow(BatchRows([c \in Cols |-> rBlocks[c + 1]], i)[r], i * kKappa + r)
<1> DEFINE seeds == [c \in Cols |-> rBlocks[c + 1]]
           bit(c) == IF c \in choices THEN 1 ELSE 0
<1>1. ASSUME NEW c \in Cols PROVE {<<"prg", seeds[c], i, r>>} = PadBit(c, bit(c), i * kKappa + r)
  <2>1. c \in 0 .. num - 1
    BY ColsAre, Zenon
  <2>2. rBlocks[c + 1] = Agreed(c + 1, bit(c))
    BY <2>1, ReceiverHas
  <2>3. seeds[c] = Agreed(c + 1, bit(c))
    BY <2>2, Zenon
  <2> HIDE DEF seeds, bit
  <2>4. PadBit(c, bit(c), i * kKappa + r) = {<<"prg", Agreed(c + 1, bit(c)), i, r>>}
    BY PadBitAt
  <2>5. QED
    BY <2>3, <2>4, Zenon
<1> HIDE DEF seeds
<1>2. BatchRows(seeds, i)[r] = [c \in Cols |-> {<<"prg", seeds[c], i, r>>}]
  BY BatchRowsAre
<1>3. BatchRows(seeds, i)[r] = [c \in Cols |-> PadBit(c, bit(c), i * kKappa + r)]
  <2> HIDE DEF bit
  <2>1. QED
    BY <1>1, <1>2, Zenon
<1>4. QED
  BY <1>3, Zenon DEF seeds, DrawnRow

LEMMA KkrtRecvKeeps ==
  ASSUME BaseInv, KkrtInv, KkrtOtExtRecv, UNCHANGED baseVars
  PROVE  KkrtInv'
<1> DEFINE t == BatchRows([c \in Cols |-> sBlocks[c + 1][0]], rBatch)
           u == BatchRows([c \in Cols |-> sBlocks[c + 1][1]], rBatch)
           row(i) == XorWord(XorWord(u[i], t[i]), Prc(inputs[rBatch * kBatchSize + i]))
           msg == [i \in Bits |-> IF i < Limit(rBatch) THEN row(i) ELSE Garbage]
           out == [i \in 1 .. Limit(rBatch) |-> Hash(t[i - 1])]
           G == [j \in Nat |-> Hash(PadRow(Cols, j - 1))]
<1>1. /\ n \in Nat /\ num = kKkrtWidth * kKappa /\ choices \subseteq Cols
      /\ rBatch \in Nat /\ sBatch \in Nat /\ sBatch <= rBatch
      /\ IsList(net, rBatch - sBatch)
      /\ \A i \in sBatch .. rBatch - 1, k \in Bits :
           i * kKappa + k < n => net[i - sBatch + 1][k] = KkrtWord(i * kKappa + k)
      /\ rOut = [j \in 1 .. Reached(rBatch) |-> Hash(PadRow(Cols, j - 1))]
      /\ q = [j \in 1 .. Reached(sBatch) |-> KkrtRow(j - 1)]
      /\ sOut = <<>> /\ StreamIdle
  BY KkrtParts, Zenon
<1>2. /\ BaseSendDone /\ rBatch * kBatchSize < n
      /\ net' = Append(net, msg) /\ rOut' = rOut \o out /\ rBatch' = rBatch + 1
      /\ n' = n /\ inputs' = inputs /\ sBatch' = sBatch /\ sOut' = sOut /\ q' = q
      /\ streamVars' = streamVars
  BY Zenon DEF KkrtOtExtRecv
<1>3. impl' = impl /\ num' = num /\ choices' = choices
  BY DEF baseVars
<1>4. \A j : KkrtWord(j)' = KkrtWord(j) /\ KkrtRow(j)' = KkrtRow(j)
             /\ PadRow(Cols, j)' = PadRow(Cols, j)
  BY <1>2, <1>3, KkrtSame
<1>5. /\ Reached(rBatch) \in Nat /\ Reached(rBatch) = rBatch * kKappa
      /\ Limit(rBatch) \in Nat /\ Limit(rBatch) <= kKappa
      /\ Reached(rBatch + 1) = Reached(rBatch) + Limit(rBatch)
  BY <1>1, <1>2, NextBatch
<1>6. kBatchSize = kKappa /\ 0 \in 0 .. 1 /\ 1 \in 0 .. 1
  BY KappaNat
<1>7. ASSUME NEW r \in Bits
      PROVE  /\ t[r] = [c \in Cols |-> PadBit(c, 0, rBatch * kKappa + r)]
             /\ u[r] = [c \in Cols |-> PadBit(c, 1, rBatch * kKappa + r)]
  BY <1>1, <1>2, <1>6, SeedRows
<1> HIDE DEF t, u
<1>8. ASSUME NEW r \in Bits, rBatch * kKappa + r < n PROVE msg[r] = KkrtWord(rBatch * kKappa + r)
  <2>1. PICK j : j = rBatch * kKappa + r
    OBVIOUS
  <2>2. r < Limit(rBatch)
    BY <1>1, <1>2, <1>8, BeforeLimit
  <2>3. msg[r] = XorWord(XorWord(u[r], t[r]), Prc(inputs[j]))
    BY <1>6, <2>1, <2>2, Zenon
  <2>4. PICK a, e : a = t[r] /\ e = u[r]
    OBVIOUS
  <2>5. a = [c \in Cols |-> PadBit(c, 0, j)] /\ e = [c \in Cols |-> PadBit(c, 1, j)]
    BY <1>7, <2>1, <2>4, Zenon
  <2>6. \A c \in Cols : SymDiff(PadBit(c, 1, j), PadBit(c, 0, j)) = MixedBit(c, j)
    BY XorFacts DEF MixedBit
  <2>7. XorWord(e, a) = [c \in Cols |-> MixedBit(c, j)]
    BY <2>5, <2>6, Zenon DEF XorWord
  <2>8. XorWord(XorWord(e, a), Prc(inputs[j])) = KkrtWord(j)
    BY <2>7, Zenon DEF XorWord, KkrtWord
  <2> HIDE DEF msg
  <2>9. QED
    BY <2>1, <2>3, <2>4, <2>8, Zenon
<1>a. ASSUME NEW i \in 1 .. Limit(rBatch)
      PROVE  out[i] = Hash(PadRow(Cols, rBatch * kKappa + (i - 1)))
  <2>0. PICK k \in Nat \ {0} : k = kKappa /\ Bits = 0 .. k - 1
    BY KappaNat
  <2>1. i - 1 \in Bits
    BY <1>5, <2>0
  <2>2. t[i - 1] = PadRow(Cols, rBatch * kKappa + (i - 1))
    BY <1>7, <2>1, Zenon DEF PadRow
  <2>3. QED
    BY <2>2, Zenon
<1>b. IsList(out, Limit(rBatch))
  BY Zenon DEF IsList
<1> HIDE DEF msg, out
<1>c. /\ IsList(net', (rBatch + 1) - sBatch)
      /\ \A i \in sBatch .. (rBatch + 1) - 1, k \in Bits :
           i * kKappa + k < n => net'[i - sBatch + 1][k] = KkrtWord(i * kKappa + k)
  <2>a. IsList(net, rBatch - sBatch) /\ rBatch \in Nat /\ net' = Append(net, msg)
    BY <1>1, <1>2
  <2>b. Grown(Append(net, msg), net, sBatch, rBatch, msg)
    BY <1>1, <2>a, QueueGrows
  <2>2. /\ IsList(net', (rBatch + 1) - sBatch)
        /\ \A i \in sBatch .. rBatch - 1 : net'[i - sBatch + 1] = net[i - sBatch + 1]
        /\ net'[rBatch - sBatch + 1] = msg
    BY <2>a, <2>b, Zenon DEF Grown
  <2>3. ASSUME NEW i \in sBatch .. (rBatch + 1) - 1, NEW k \in Bits, i * kKappa + k < n
        PROVE  net'[i - sBatch + 1][k] = KkrtWord(i * kKappa + k)
    <3>1. i \in sBatch .. rBatch - 1 \/ i = rBatch
      BY <1>1
    <3>2. CASE i \in sBatch .. rBatch - 1
      BY <1>1, <2>2, <2>3, <3>2, Zenon
    <3>3. CASE i = rBatch
      BY <1>8, <2>2, <2>3, <3>3, Zenon
    <3>4. QED
      BY <3>1, <3>2, <3>3, Zenon
  <2>4. QED
    BY <2>2, <2>3, Zenon
<1>d. rOut' = [j \in 1 .. Reached(rBatch + 1) |-> Hash(PadRow(Cols, j - 1))]
  <2>1. PICK a \in Nat : a = Reached(rBatch)
    BY <1>5
  <2>2. PICK m \in Nat : m = Limit(rBatch)
    BY <1>5
  <2>3. \A j : j \in 1 .. a + m => j \in Nat
    OBVIOUS
  <2>4. \A j \in 1 .. a + m : G[j] = Hash(PadRow(Cols, j - 1))
    BY <2>3, Zenon
  <2>5. \A j \in 1 .. a : j \in 1 .. a + m
    OBVIOUS
  <2>6. \A i \in 1 .. m : a + i \in 1 .. a + m /\ (a + i) - 1 = a + (i - 1)
    OBVIOUS
  <2> HIDE DEF G
  <2>7. Filled(rOut, G, a)
    BY <1>1, <2>1, <2>4, <2>5, Zenon DEF Filled
  <2>8. \A i \in 1 .. m : out[i] = G[a + i]
    BY <1>5, <1>a, <2>1, <2>2, <2>4, <2>6, Zenon
  <2>9. Filled(rOut \o out, G, a + m)
    BY <1>b, <2>2, <2>7, <2>8, OutGrows
  <2>a. a + m = Reached(rBatch + 1) /\ rOut' = rOut \o out
    BY <1>2, <1>5, <2>1, <2>2, Zenon
  <2>b. [j \in 1 .. a + m |-> G[j]] = [j \in 1 .. a + m |-> Hash(PadRow(Cols, j - 1))]
    BY <2>4, Zenon
  <2>c. QED
    BY <2>9, <2>a, <2>b, Zenon DEF Filled
<1>e. /\ Reached(rBatch)' = Reached(rBatch + 1) /\ Reached(sBatch)' = Reached(sBatch)
  BY <1>2, Zenon DEF Reached
<1>f. rBatch' \in Nat /\ sBatch' \in Nat /\ sBatch' <= rBatch'
  BY <1>1, <1>2
<1>g. StreamIdle'
  <2>1. /\ T' = T /\ U' = U /\ rCorr' = rCorr /\ sCorr' = sCorr /\ lost' = lost
        /\ calls' = calls /\ shipped' = shipped
    BY <1>2 DEF streamVars
  <2>2. QED
    BY <1>1, <2>1, Zenon DEF StreamIdle
<1>h. /\ IsList(net', rBatch' - sBatch')
      /\ \A i \in sBatch' .. rBatch' - 1, k \in Bits :
           i * kKappa + k < n' => net'[i - sBatch' + 1][k] = KkrtWord(i * kKappa + k)'
  <2>1. \A i, k : KkrtWord(i * kKappa + k)' = KkrtWord(i * kKappa + k)
    BY <1>4, Zenon
  <2>2. QED
    BY <1>2, <1>c, <2>1, ZenonT(60)
<1>i. rOut' = [j \in 1 .. Reached(rBatch)' |-> Hash(PadRow(Cols, j - 1))']
  BY <1>3, <1>d, <1>e, Zenon DEF PadRow, PadBit, Agreed, BatchOf
<1>j. q' = [j \in 1 .. Reached(sBatch)' |-> KkrtRow(j - 1)']
  BY <1>1, <1>2, <1>4, <1>e, Zenon
<1>k. n' \in Nat /\ num' = kKkrtWidth * kKappa /\ choices' \subseteq Cols /\ sOut' = <<>>
  BY <1>1, <1>2, <1>3, Zenon
<1>l. sBatch' \in 0 .. rBatch'
  BY <1>f
<1>m. (\A i \in sBatch .. rBatch - 1, k \in Bits :
         LET j == i * kBatchSize + k
         IN  j < n => net[i - sBatch + 1][k]
                        = [c \in Cols |-> SymDiff(MixedBit(c, j), Prc(inputs[j])[c])])'
  BY <1>6, <1>h, ZenonT(60) DEF KkrtWord
<1>n. /\ (net = [i \in 1 .. rBatch - sBatch |-> net[i]])'
      /\ (rOut = [j \in 1 .. Reached(rBatch) |-> Hash(PadRow(Cols, j - 1))])'
      /\ (q = [j \in 1 .. Reached(sBatch) |-> SentRow(Cols, j - 1, Prc(inputs[j - 1]))])'
  BY <1>h, <1>i, <1>j, Zenon DEF IsList, KkrtRow
<1>o. QED
  BY <1>f, <1>g, <1>k, <1>l, <1>m, <1>n, Zenon DEF KkrtInv

LEMMA KkrtSendKeeps ==
  ASSUME BaseInv, KkrtInv, KkrtOtExtSend, UNCHANGED baseVars
  PROVE  KkrtInv'
<1> DEFINE Q == BatchRows([c \in Cols |-> rBlocks[c + 1]], sBatch)
           rows == [i \in Bits |-> XorWord(Q[i], AndMask(Head(net)[i], choices))]
<1>1. /\ n \in Nat /\ num = kKkrtWidth * kKappa /\ choices \subseteq Cols
      /\ rBatch \in Nat /\ sBatch \in Nat /\ sBatch <= rBatch
      /\ IsList(net, rBatch - sBatch)
      /\ \A i \in sBatch .. rBatch - 1, k \in Bits :
           i * kKappa + k < n => net[i - sBatch + 1][k] = KkrtWord(i * kKappa + k)
      /\ rOut = [j \in 1 .. Reached(rBatch) |-> Hash(PadRow(Cols, j - 1))]
      /\ q = [j \in 1 .. Reached(sBatch) |-> KkrtRow(j - 1)]
      /\ sOut = <<>> /\ StreamIdle
  BY KkrtParts, Zenon
<1>2. /\ BaseRecvDone /\ sBatch * kBatchSize < n /\ net # <<>>
      /\ q' = SetQ(rows, sBatch * kBatchSize, Limit(sBatch))
      /\ net' = Tail(net) /\ sBatch' = sBatch + 1
      /\ n' = n /\ inputs' = inputs /\ rBatch' = rBatch /\ rOut' = rOut /\ sOut' = sOut
      /\ streamVars' = streamVars
  BY Zenon DEF KkrtOtExtSend
<1>3. impl' = impl /\ num' = num /\ choices' = choices
  BY DEF baseVars
<1>4. \A j : KkrtWord(j)' = KkrtWord(j) /\ KkrtRow(j)' = KkrtRow(j)
             /\ PadRow(Cols, j)' = PadRow(Cols, j)
  BY <1>2, <1>3, KkrtSame
<1>5. /\ Reached(sBatch) \in Nat /\ Reached(sBatch) = sBatch * kKappa
      /\ Limit(sBatch) \in Nat /\ Limit(sBatch) <= kKappa
      /\ Reached(sBatch + 1) = Reached(sBatch) + Limit(sBatch)
  BY <1>1, <1>2, NextBatch
<1>6. sBatch + 1 <= rBatch /\ Head(net) = net[sBatch - sBatch + 1] /\ Shrunk(Tail(net), net, sBatch, rBatch)
  BY <1>1, <1>2, QueueShrinks
<1>7. ASSUME NEW r \in Bits, r < Limit(sBatch)
      PROVE  rows[r] = KkrtRow(sBatch * kKappa + r)
  <2>1. PICK j : j = sBatch * kKappa + r
    OBVIOUS
  <2>2. sBatch * kKappa + r < n
    BY <1>1, <1>2, <1>7, BeforeLimit
  <2>3. sBatch \in sBatch .. rBatch - 1
    BY <1>1, <1>6
  <2>4. Head(net)[r] = KkrtWord(j)
    BY <1>1, <1>6, <2>1, <2>2, <2>3, Zenon
  <2>5. DrawnRow(Q[r], j)
    BY <1>1, <1>2, <2>1, ChosenRows
  <2>6. CodedRow(Head(net)[r], Prc(inputs[j]), j)
    BY <2>4, Zenon DEF CodedRow, KkrtWord
  <2> HIDE DEF Q
  <2>7. XorWord(Q[r], AndMask(Head(net)[r], choices)) = SentRow(Cols, j, Prc(inputs[j]))
    BY <2>5, <2>6, MixRow
  <2>8. QED
    BY <2>1, <2>7, Zenon DEF KkrtRow
<1> HIDE DEF rows
<1>8. q' = [j \in 1 .. Reached(sBatch + 1) |-> KkrtRow(j - 1)]
  <2>1. PICK a \in Nat, m \in Nat, k \in Nat : a = Reached(sBatch) /\ m = Limit(sBatch) /\ k = kKappa
    BY <1>5, KappaNat
  <2>2. sBatch * kBatchSize = a /\ sBatch * kKappa = a /\ m <= k /\ Bits = 0 .. k - 1
    BY <1>5, <2>1, KappaNat, Zenon
  <2>3. q' = [i \in 1 .. a + m |-> IF i <= a THEN q[i] ELSE rows[i - a - 1]]
    BY <1>2, <2>1, <2>2, Zenon DEF SetQ
  <2>4. q = [j \in 1 .. a |-> KkrtRow(j - 1)]
    BY <1>1, <2>1, Zenon
  <2>5. ASSUME NEW i \in 1 .. a + m
        PROVE  (IF i <= a THEN q[i] ELSE rows[i - a - 1]) = KkrtRow(i - 1)
    <3>1. CASE i <= a
      <4>1. i \in 1 .. a
        BY <3>1
      <4>2. QED
        BY <2>4, <3>1, <4>1, Zenon
    <3>2. CASE ~(i <= a)
      <4>1. PICK r \in Bits : r = i - a - 1 /\ r < m /\ a + r = i - 1
        BY <2>2, <3>2
      <4>2. rows[r] = KkrtRow(a + r)
        BY <1>7, <2>1, <2>2, <4>1, Zenon
      <4>3. QED
        BY <3>2, <4>1, <4>2, Zenon
    <3>3. QED
      BY <3>1, <3>2, Zenon
  <2>6. q' = [i \in 1 .. a + m |-> KkrtRow(i - 1)]
    BY <2>3, <2>5, Zenon
  <2>7. QED
    BY <1>5, <2>1, <2>6, Zenon
<1>e. /\ Reached(rBatch)' = Reached(rBatch) /\ Reached(sBatch)' = Reached(sBatch + 1)
  BY <1>2, Zenon DEF Reached
<1>f. rBatch' \in Nat /\ sBatch' \in Nat /\ sBatch' \in 0 .. rBatch'
  BY <1>1, <1>2, <1>6
<1>g. StreamIdle'
  <2>1. /\ T' = T /\ U' = U /\ rCorr' = rCorr /\ sCorr' = sCorr /\ lost' = lost
        /\ calls' = calls /\ shipped' = shipped
    BY <1>2 DEF streamVars
  <2>2. QED
    BY <1>1, <2>1, Zenon DEF StreamIdle
<1>h. /\ IsList(net', rBatch' - sBatch')
      /\ \A i \in sBatch' .. rBatch' - 1, k \in Bits :
           i * kKappa + k < n' => net'[i - sBatch' + 1][k] = KkrtWord(i * kKappa + k)'
  <2>1. /\ IsList(net', rBatch - (sBatch + 1))
        /\ \A i \in sBatch + 1 .. rBatch - 1 : net'[i - (sBatch + 1) + 1] = net[i - sBatch + 1]
    BY <1>2, <1>6, Zenon DEF Shrunk
  <2>2. \A i \in sBatch + 1 .. rBatch - 1 : i \in sBatch .. rBatch - 1
    BY <1>1
  <2>3. ASSUME NEW i \in sBatch + 1 .. rBatch - 1, NEW k \in Bits, i * kKappa + k < n
        PROVE  net'[i - (sBatch + 1) + 1][k] = KkrtWord(i * kKappa + k)
    BY <1>1, <2>1, <2>2, <2>3, Zenon
  <2>4. \A i, k : KkrtWord(i * kKappa + k)' = KkrtWord(i * kKappa + k)
    BY <1>4, Zenon
  <2>5. \A i \in sBatch + 1 .. rBatch - 1, k \in Bits :
           i * kKappa + k < n => net'[i - (sBatch + 1) + 1][k] = KkrtWord(i * kKappa + k)
    BY <2>3, Zenon
  <2>6. ASSUME NEW i \in sBatch' .. rBatch' - 1, NEW k \in Bits, i * kKappa + k < n'
        PROVE  net'[i - sBatch' + 1][k] = KkrtWord(i * kKappa + k)'
    <3>1. i \in sBatch + 1 .. rBatch - 1 /\ i * kKappa + k < n /\ i - sBatch' + 1 = i - (sBatch + 1) + 1
      BY <1>2, <2>6, Zenon
    <3>2. net'[i - (sBatch + 1) + 1][k] = KkrtWord(i * kKappa + k)
      BY <2>5, <3>1, Zenon
    <3>3. QED
      BY <2>4, <3>1, <3>2, Zenon
  <2>7. IsList(net', rBatch' - sBatch')
    BY <1>2, <2>1, Zenon
  <2>8. QED
    BY <2>6, <2>7, Zenon
<1>i. rOut' = [j \in 1 .. Reached(rBatch)' |-> Hash(PadRow(Cols, j - 1))']
  BY <1>1, <1>2, <1>4, <1>e, Zenon
<1>j. q' = [j \in 1 .. Reached(sBatch)' |-> KkrtRow(j - 1)']
  BY <1>4, <1>8, <1>e, Zenon
<1>k. n' \in Nat /\ num' = kKkrtWidth * kKappa /\ choices' \subseteq Cols /\ sOut' = <<>>
  BY <1>1, <1>2, <1>3, Zenon
<1>l. kBatchSize = kKappa
  BY KappaNat
<1>m. (\A i \in sBatch .. rBatch - 1, k \in Bits :
         LET j == i * kBatchSize + k
         IN  j < n => net[i - sBatch + 1][k]
                        = [c \in Cols |-> SymDiff(MixedBit(c, j), Prc(inputs[j])[c])])'
  BY <1>l, <1>h, ZenonT(60) DEF KkrtWord
<1>n. /\ (net = [i \in 1 .. rBatch - sBatch |-> net[i]])'
      /\ (rOut = [j \in 1 .. Reached(rBatch) |-> Hash(PadRow(Cols, j - 1))])'
      /\ (q = [j \in 1 .. Reached(sBatch) |-> SentRow(Cols, j - 1, Prc(inputs[j - 1]))])'
  BY <1>h, <1>i, <1>j, Zenon DEF IsList, KkrtRow
<1>o. QED
  BY <1>f, <1>g, <1>k, <1>m, <1>n, Zenon DEF KkrtInv

\* At no other input than the receiver's does the sender's PRF take its value.
LEMMA PrcDiffers ==
  ASSUME NEW u, NEW v, NEW c \in Cols, Prc(u)[c] = Prc(v)[c]
  PROVE  u = v
<1>1. Prc(u)[c] = {<<"prc", u, c>>} /\ Prc(v)[c] = {<<"prc", v, c>>}
  BY Zenon DEF Prc
<1>2. <<"prc", u, c>> = <<"prc", v, c>>
  BY <1>1, Zenon
<1>3. QED
  BY <1>2

LEMMA EvalCoded ==
  ASSUME choices \subseteq Cols, NEW j, NEW u, NEW v
  PROVE  PrfRow(SentRow(Cols, j, Prc(v)), u) = PadRow(Cols, j) <=> u = v \/ choices = {}
<1>1. PrfRow(SentRow(Cols, j, Prc(v)), u) = PadRow(Cols, j)
        <=> \A c \in choices : Prc(v)[c] = Prc(u)[c]
  BY EvalIs
<1>2. \A c \in choices : Prc(v)[c] = Prc(u)[c] => v = u
  BY PrcDiffers
<1>3. QED
  BY <1>1, <1>2, Zenon

LEMMA KkrtInvCorrect ==
  ASSUME KkrtInv
  PROVE  ExtensionCorrect
<1>1. /\ n \in Nat /\ choices \subseteq Cols /\ rBatch \in Nat /\ sBatch \in Nat
      /\ rOut = [j \in 1 .. Reached(rBatch) |-> Hash(PadRow(Cols, j - 1))]
      /\ q = [j \in 1 .. Reached(sBatch) |-> KkrtRow(j - 1)]
      /\ sOut = <<>> /\ T = <<>> /\ sCorr = 0
  BY KkrtParts, Zenon DEF StreamIdle
<1>2. Reached(rBatch) \in Nat /\ Reached(sBatch) \in Nat
  BY <1>1, ReachedNat
<1>3. ASSUME NEW i \in DOMAIN rOut \cap DOMAIN q, NEW y \in Inputs
      PROVE  (Eval(i - 1, y) = rOut[i]) <=> (y = inputs[i - 1] \/ choices = {})
  <2>1. i \in 1 .. Reached(rBatch) /\ i \in 1 .. Reached(sBatch)
    BY <1>1, <1>3, Zenon
  <2>2. rOut[i] = Hash(PadRow(Cols, i - 1)) /\ q[i] = SentRow(Cols, i - 1, Prc(inputs[i - 1]))
    BY <1>1, <2>1, Zenon DEF KkrtRow
  <2>3. (i - 1) + 1 = i
    BY <1>2, <2>1
  <2>4. Eval(i - 1, y) = Hash(PrfRow(q[i], y))
    BY <2>3, Zenon DEF Eval, PrfRow
  <2>5. PrfRow(q[i], y) = PadRow(Cols, i - 1) <=> y = inputs[i - 1] \/ choices = {}
    BY <1>1, <2>2, EvalCoded
  <2>6. Hash(PrfRow(q[i], y)) = Hash(PadRow(Cols, i - 1)) <=> PrfRow(q[i], y) = PadRow(Cols, i - 1)
    BY HashInjective, Zenon
  <2>7. QED
    BY <2>2, <2>4, <2>5, <2>6, Zenon
<1>4. KkrtCorrect
  BY <1>3, Zenon DEF KkrtCorrect
<1>5. DOMAIN sOut = {} /\ 1 .. sCorr = {}
  BY <1>1
<1>6. IknpCorrect /\ StreamCorrect
  BY <1>5, Zenon DEF IknpCorrect, StreamCorrect
<1>7. PadsFresh
  <2>1. 0 \in Cols
    BY ColsAre
  <2>2. QED
    BY <1>1, <1>2, <2>1, OutFresh, Zenon
<1>8. QED
  BY <1>4, <1>6, <1>7, Zenon DEF ExtensionCorrect

-----------------------------------------------------------------------------
(* The KKRT extension in its streaming form.                               *)

\* A transfer by batch of 1024, block and place.
Placed(r, b, i, j) ==
  /\ b \in Nat /\ i \in 0 .. NumBlock1024 - 1 /\ j \in Bits
  /\ (r - 1) \div kBatchSize1024 = b
  /\ ((r - 1) % kBatchSize1024) \div kKappa = i /\ ((r - 1) % kBatchSize1024) % kKappa = j
  /\ (r - 1) % kBatchSize1024 = i * kKappa + j
  /\ r - 1 = b * kBatchSize1024 + (i * kKappa + j)
  /\ (r - 1) \div kKappa = b * NumBlock1024 + i /\ (r - 1) % kKappa = j

LEMMA LargeBatch ==
  /\ NumBlock1024 \in Nat \ {0} /\ kBatchSize1024 \in Nat \ {0}
  /\ kBatchSize1024 = NumBlock1024 * kKappa
<1>1. PICK d \in Nat \ {0}, k \in Nat \ {0} : d = NumBlock1024 /\ k = kKappa
  BY KappaNat, OtAssumption
<1>2. d * k \in Nat /\ d * k # 0
  BY Z3
<1>3. kBatchSize1024 = d * k
  BY <1>1, Zenon DEF kBatchSize1024
<1>4. QED
  BY <1>1, <1>2, <1>3

\* A quotient is below a bound.
LEMMA QuotientBelow ==
  ASSUME NEW e \in Nat, NEW d \in Nat, NEW k \in Nat \ {0}, NEW s \in Nat, e * k + s < d * k
  PROVE  e < d
<1>1. ASSUME NEW g \in Nat, e = d + g PROVE FALSE
  <2>1. e * k = d * k + g * k /\ g * k >= 0
    BY <1>1, Z3
  <2>2. PICK o \in Int, p \in Int, v \in Int : o = e * k /\ p = d * k /\ v = g * k
    OBVIOUS
  <2>3. QED
    BY <2>1, <2>2
<1>2. e >= d => e - d \in Nat /\ e = d + (e - d)
  OBVIOUS
<1>3. QED
  BY <1>1, <1>2

LEMMA PlaceExists ==
  ASSUME NEW r \in Nat \ {0}
  PROVE  \E b, i, j : Placed(r, b, i, j)
<1>1. PICK d \in Nat \ {0}, k \in Nat \ {0}, g \in Nat \ {0} :
        d = NumBlock1024 /\ k = kKappa /\ g = kBatchSize1024
  BY KappaNat, LargeBatch
<1>2. g = d * k
  BY <1>1, LargeBatch, Zenon
<1>3. PICK v \in Nat : v = r - 1
  OBVIOUS
<1>4. PICK b \in Nat : b = v \div g
  BY EuclidNat
<1>5. PICK a \in Nat : a = v % g
  BY Euclid
<1>6. a < g /\ v = b * g + a
  BY <1>4, <1>5, Euclid
<1>7. PICK i \in Nat : i = a \div k
  BY EuclidNat
<1>8. PICK j \in Nat : j = a % k
  BY Euclid
<1>9. j < k /\ a = i * k + j
  BY <1>7, <1>8, Euclid
<1>a. i < d
  <2>1. i * k + j < d * k
    BY <1>2, <1>6, <1>9, Zenon
  <2>2. QED
    BY <2>1, QuotientBelow
<1>b. i \in 0 .. d - 1 /\ j \in 0 .. k - 1
  BY <1>9, <1>a
<1>c. v = (b * d + i) * k + j
  <2>1. (b * d + i) * k = b * (d * k) + i * k
    BY Z3
  <2>2. PICK o \in Int, p \in Int : o = b * (d * k) /\ p = i * k
    OBVIOUS
  <2>3. b * g = b * (d * k)
    BY <1>2, Zenon
  <2>4. QED
    BY <1>6, <1>9, <2>1, <2>2, <2>3
<1>d. v \div k = b * d + i /\ v % k = j
  <2>1. b * d + i \in Int /\ v \in Int
    OBVIOUS
  <2>2. QED
    BY <1>9, <1>c, <2>1, Remainder
<1>e. v = b * g + (i * k + j)
  BY <1>6, <1>9, Zenon
<1>f. Placed(r, b, i, j)
  <2>1. j \in Bits
    BY <1>1, <1>b, KappaNat, Zenon
  <2>2. /\ (r - 1) \div kBatchSize1024 = b /\ (r - 1) % kBatchSize1024 = a
        /\ r - 1 = b * kBatchSize1024 + (i * kKappa + j)
        /\ (r - 1) \div kKappa = b * NumBlock1024 + i /\ (r - 1) % kKappa = j
    BY <1>1, <1>3, <1>4, <1>5, <1>d, <1>e, Zenon
  <2>3. a \div kKappa = i /\ a % kKappa = j /\ a = i * kKappa + j /\ i \in 0 .. NumBlock1024 - 1
    BY <1>1, <1>7, <1>8, <1>9, <1>b, Zenon
  <2>4. QED
    BY <2>1, <2>2, <2>3, Zenon DEF Placed
<1>g. QED
  BY <1>f, Zenon

\* Both Init methods copy every row of every batch, the last and partial one too.
LEMMA RowIsCopied ==
  ASSUME n \in Nat, NEW r \in 1 .. n, NEW b, NEW i, NEW j, Placed(r, b, i, j)
  PROVE  /\ b \in 0 .. ((n + kBatchSize1024 - 1) \div kBatchSize1024) - 1
         /\ (r - 1) % kBatchSize1024
              \in CopiedRows(Min({n - b * kBatchSize1024, kBatchSize1024}))
<1>1. PICK d \in Nat \ {0}, k \in Nat \ {0}, g \in Nat \ {0} :
        d = NumBlock1024 /\ k = kKappa /\ g = kBatchSize1024 /\ g = d * k
  BY KappaNat, LargeBatch
<1>2. /\ b \in Nat /\ i \in 0 .. d - 1 /\ j \in 0 .. k - 1
      /\ r - 1 = b * g + (i * k + j) /\ (r - 1) % kBatchSize1024 = i * k + j
  BY <1>1, KappaNat, Zenon DEF Placed
<1>t. i \in Nat /\ j \in Nat /\ j < k /\ r \in Nat /\ r <= n
  BY <1>2
<1>p. PICK o \in Nat, p \in Nat : o = b * g /\ p = i * k
  BY <1>2, <1>t
<1>q. r - 1 = o + (p + j) /\ o + (p + j) < n
  BY <1>2, <1>p, <1>t
<1>3. b \in 0 .. ((n + g - 1) \div g) - 1
  <2>1. PICK v \in Nat : v = n + g - 1
    OBVIOUS
  <2>2. PICK e \in Nat : e = v \div g
    BY EuclidNat
  <2>3. PICK s \in Nat : s = v % g
    BY Euclid
  <2>4. s < g /\ v = e * g + s
    BY <2>2, <2>3, Euclid
  <2>5. PICK w \in Nat : w = e * g
    OBVIOUS
  <2>6. o + (p + j) < w
    BY <1>q, <2>1, <2>4, <2>5
  <2>7. p + j \in Nat /\ b * g + (p + j) < e * g
    BY <1>p, <1>t, <2>5, <2>6
  <2>8. b < e
    BY <1>2, <2>7, QuotientBelow
  <2>9. QED
    BY <1>2, <2>1, <2>2, <2>8
<1>4. PICK v \in Nat : v = Min({n - b * kBatchSize1024, kBatchSize1024}) /\ p + j < v
  <2>1. Min({n - o, g}) = IF n - o <= g THEN n - o ELSE g
    BY MinPair
  <2>2. p + j < g
    <3>1. (r - 1) % kBatchSize1024 < g /\ (r - 1) \in Int
      BY <1>1, <1>t, Euclid
    <3>2. QED
      BY <1>2, <1>p, <3>1
  <2>3. PICK w \in Nat : w = Min({n - o, g}) /\ p + j < w
    <3>1. PICK e \in Nat : e = n - o /\ p + j < e
      BY <1>q, <1>t
    <3>2. Min({e, g}) = IF e <= g THEN e ELSE g
      BY <2>1, <3>1, Zenon
    <3>3. Min({e, g}) \in Nat /\ p + j < Min({e, g})
      BY <2>2, <3>1, <3>2
    <3>4. QED
      BY <3>1, <3>3, Zenon
  <2>4. n - b * kBatchSize1024 = n - o
    BY <1>1, <1>p, Zenon
  <2>5. w = Min({n - b * kBatchSize1024, kBatchSize1024})
    BY <1>1, <2>3, <2>4, Zenon
  <2>6. QED
    BY <2>3, <2>5, Zenon
<1>5. ASSUME NEW h \in 0 .. i - 1 PROVE BlockRows(v, h) = kKappa
  <2>1. PICK c \in Nat : i = h + 1 + c
    <3>1. i - h - 1 \in Nat /\ i = h + 1 + (i - h - 1)
      BY <1>t
    <3>2. QED
      BY <3>1
  <2>2. i * k = h * k + k + c * k /\ c * k >= 0 /\ h * k >= 0
    <3>1. h \in Nat
      BY <1>t
    <3>2. QED
      BY <2>1, <3>1, Z3
  <2>3. PICK y \in Nat, w \in Nat : y = h * k /\ w = c * k
    <3>1. h \in Nat
      BY <1>t
    <3>2. QED
      BY <3>1
  <2>4. p = y + k + w
    BY <1>p, <2>2, <2>3
  <2>5. ~(v < y) /\ k <= v - y
    BY <1>4, <1>t, <2>4
  <2>6. Min({k, v - y}) = k
    BY <2>5, MinPair
  <2>7. QED
    BY <1>1, <2>3, <2>5, <2>6, Zenon DEF BlockRows
<1>6. j \in 0 .. BlockRows(v, i) - 1
  <2>1. ~(v < p) /\ j < v - p
    BY <1>4, <1>t
  <2>2. Min({k, v - p}) = IF k <= v - p THEN k ELSE v - p
    BY MinPair
  <2>3. BlockRows(v, i) = Min({k, v - p})
    BY <1>1, <1>p, <2>1, Zenon DEF BlockRows
  <2>4. BlockRows(v, i) \in Nat /\ j < BlockRows(v, i)
    BY <1>t, <2>1, <2>2, <2>3
  <2>5. QED
    BY <1>t, <2>4
<1>7. i * kKappa + j \in CopiedRows(v)
  <2> DEFINE R == {e \in 0 .. NumBlock1024 - 1 : \A h \in 0 .. e - 1 : BlockRows(v, h) = kKappa}
             Part(e) == {e * kKappa + f : f \in 0 .. BlockRows(v, e) - 1}
  <2>1. i \in R
    BY <1>1, <1>2, <1>5, Zenon
  <2>2. i * kKappa + j \in Part(i)
    BY <1>6, Zenon
  <2>3. CopiedRows(v) = UNION {Part(e) : e \in R}
    BY Zenon DEF CopiedRows
  <2> HIDE DEF R, Part
  <2>4. QED
    BY <2>1, <2>2, <2>3, Zenon
<1>8. QED
  BY <1>1, <1>2, <1>3, <1>4, <1>7, Zenon

\* They write no row past the end of the batch, and none past the last.
LEMMA CopiedWithin ==
  ASSUME NEW v \in Nat, NEW at \in CopiedRows(v)
  PROVE  at \in Nat /\ at < v
<1>1. PICK k \in Nat \ {0}, d \in Nat : k = kKappa /\ d = NumBlock1024
  BY KappaNat, LargeBatch
<1>2. PICK i \in {e \in 0 .. NumBlock1024 - 1 : \A h \in 0 .. e - 1 : BlockRows(v, h) = kKappa} :
        at \in {i * kKappa + f : f \in 0 .. BlockRows(v, i) - 1}
  BY Zenon DEF CopiedRows
<1>3. PICK j \in 0 .. BlockRows(v, i) - 1 : at = i * kKappa + j
  BY <1>2, Zenon
<1>4. i \in Nat /\ \A h \in 0 .. i - 1 : BlockRows(v, h) = kKappa
  <2>1. i \in 0 .. d - 1 /\ \A h \in 0 .. i - 1 : BlockRows(v, h) = kKappa
    BY <1>1, <1>2, Zenon
  <2>2. QED
    BY <2>1
<1>5. PICK p \in Nat : p = i * k
  BY <1>4
<1>6. ~(v < p)
  <2>1. SUFFICES ASSUME v < p PROVE FALSE
    OBVIOUS
  <2>2. PICK h \in Nat, s \in Nat : h = v \div k /\ s = v % k
    <3>1. v \div k \in Nat /\ v % k \in Nat
      BY Euclid, EuclidNat
    <3>2. QED
      BY <3>1
  <2>3. s < k /\ v = h * k + s
    BY <2>2, Euclid
  <2>4. h < i
    <3>1. h * k + s < i * k
      BY <1>5, <2>1, <2>3, Zenon
    <3>2. QED
      BY <1>4, <3>1, QuotientBelow
  <2>5. PICK y \in Nat : y = h * k
    OBVIOUS
  <2>6. ~(v < y) /\ v - y = s
    BY <2>3, <2>5
  <2>7. Min({k, s}) = s
    <3>1. Min({k, s}) = IF k <= s THEN k ELSE s
      BY MinPair
    <3>2. QED
      BY <2>3, <3>1
  <2>8. BlockRows(v, h) = s
    BY <1>1, <2>5, <2>6, <2>7, Zenon DEF BlockRows
  <2>9. h \in 0 .. i - 1
    BY <1>4, <2>4
  <2>a. s = k
    BY <1>1, <1>4, <2>8, <2>9, Zenon
  <2>b. QED
    BY <2>3, <2>a
<1>7. BlockRows(v, i) = Min({k, v - p})
  BY <1>1, <1>5, <1>6, Zenon DEF BlockRows
<1>8. PICK w \in Int : w = Min({k, v - p}) /\ w <= v - p
  <2>1. Min({k, v - p}) = IF k <= v - p THEN k ELSE v - p
    BY MinPair
  <2>2. QED
    BY <2>1
<1>9. j \in 0 .. w - 1
  BY <1>7, <1>8, Zenon
<1>a. at = p + j
  BY <1>1, <1>3, <1>5, Zenon
<1>b. QED
  BY <1>8, <1>9, <1>a

LEMMA WrittenWithin ==
  ASSUME n \in Nat
  PROVE  1 .. n \cup WrittenRows = 1 .. n
<1>1. PICK g \in Nat \ {0} : g = kBatchSize1024
  BY LargeBatch
<1>2. ASSUME NEW r \in WrittenRows PROVE r \in 1 .. n
  <2>1. PICK b \in 0 .. NumBatch - 1 :
          r \in {b * kBatchSize1024 + at + 1 :
                   at \in CopiedRows(Min({n - b * kBatchSize1024, kBatchSize1024}))}
    BY <1>2, Zenon DEF WrittenRows
  <2>2. PICK at \in CopiedRows(Min({n - b * kBatchSize1024, kBatchSize1024})) :
          r = b * kBatchSize1024 + at + 1
    BY <2>1, Zenon
  <2>3. PICK v \in Nat : v = n + g - 1
    OBVIOUS
  <2>4. PICK e \in Nat, s \in Nat : e = v \div g /\ s = v % g
    <3>1. v \div g \in Nat /\ v % g \in Nat
      BY Euclid, EuclidNat
    <3>2. QED
      BY <3>1
  <2>5. v = e * g + s
    BY <2>4, Euclid
  <2>6. NumBatch = e
    BY <1>1, <2>3, <2>4, Zenon DEF NumBatch
  <2>7. b \in 0 .. e - 1
    BY <2>1, <2>6, Zenon
  <2>8. PICK c \in Nat : e = b + 1 + c
    <3>1. e - b - 1 \in Nat /\ e = b + 1 + (e - b - 1)
      BY <2>7
    <3>2. QED
      BY <3>1
  <2>9. b \in Nat
    BY <2>7
  <2>a. e * g = b * g + g + c * g /\ c * g >= 0 /\ b * g >= 0
    BY <2>8, <2>9, Z3
  <2>b. PICK o \in Nat, w \in Nat, z \in Nat : o = b * g /\ w = c * g /\ z = e * g
    BY <2>9
  <2>c. PICK m \in Nat : m = n - o
    <3>1. z = o + g + w /\ v = z + s
      BY <2>5, <2>a, <2>b, Zenon
    <3>2. n - o \in Nat
      BY <2>3, <3>1
    <3>3. QED
      BY <3>2
  <2>d. PICK u \in Nat : u = Min({m, g}) /\ u <= m
    <3>1. Min({m, g}) = IF m <= g THEN m ELSE g
      BY MinPair
    <3>2. QED
      BY <3>1
  <2>e. at \in CopiedRows(u) /\ r = o + at + 1
    BY <1>1, <2>2, <2>b, <2>c, <2>d, Zenon
  <2>f. at \in Nat /\ at < u
    BY <2>e, CopiedWithin
  <2>g. QED
    BY <2>c, <2>d, <2>e, <2>f
<1>3. QED
  BY <1>2, Zenon

\* The matrix that is drawn for word w of the rows of a batch.
DrawnWide(seeds, w, b) ==
  [k \in Bits |-> [j \in 0 .. NumBlock1024 - 1 |->
     Draw(seeds[w * kKappa + k], b * NumBlock1024 + j)]]

LEMMA DrawnWideIs ==
  ASSUME NEW seeds, NEW w, NEW b, NEW i \in 0 .. NumBlock1024 - 1, NEW j \in Bits, NEW e \in Bits
  PROVE  SseTranspose128x1024(DrawnWide(seeds, w, b))[j][i][e]
           = {<<"prg", seeds[w * kKappa + e], b * NumBlock1024 + i, j>>}
<1> DEFINE m == DrawnWide(seeds, w, b)
<1>1. NumBlock1024 \in Nat
  BY LargeBatch
<1>2. \A k \in Bits, f \in 0 .. NumBlock1024 - 1 :
        m[k][f] = Draw(seeds[w * kKappa + k], b * NumBlock1024 + f)
  BY Zenon DEF DrawnWide
<1>3. IsWide(m, NumBlock1024)
  <2>1. ASSUME NEW k \in Bits PROVE m[k] = [f \in 0 .. NumBlock1024 - 1 |-> m[k][f]]
    <3>1. m[k] = [f \in 0 .. NumBlock1024 - 1 |-> Draw(seeds[w * kKappa + k], b * NumBlock1024 + f)]
      BY Zenon DEF DrawnWide
    <3> HIDE DEF m
    <3>2. QED
      BY <3>1, Zenon
  <2>2. m = [k \in Bits |-> m[k]]
    BY Zenon DEF DrawnWide
  <2> HIDE DEF m
  <2>3. m = [k \in Bits |-> [f \in 0 .. NumBlock1024 - 1 |-> m[k][f]]]
    BY <2>1, <2>2, Zenon
  <2>4. QED
    BY <2>3, Zenon DEF IsWide
<1> HIDE DEF m
<1>4. ASSUME NEW f \in 0 .. NumBlock1024 - 1 PROVE IsMatrix(BlockColumn(m, f))
  <2>1. BlockColumn(m, f) = [k \in Bits |-> Draw(seeds[w * kKappa + k], b * NumBlock1024 + f)]
    BY <1>2, Zenon DEF BlockColumn
  <2>2. PICK h : h = b * NumBlock1024 + f
    BY Zenon
  <2>3. IsMatrix([k \in Bits |-> Draw(seeds[w * kKappa + k], h)])
    BY DrawnMatrix
  <2>4. QED
    BY <2>1, <2>2, <2>3, Zenon
<1>5. SseTranspose128x1024(m) = Turned(m, NumBlock1024, NumBlock1024)
  BY <1>1, <1>3, <1>4, WideIsNaive
<1>6. Turned(m, NumBlock1024, NumBlock1024)[j][i] = BitsAt(m, i, j)
  <2>1. i < NumBlock1024
    BY <1>1
  <2>2. QED
    BY <2>1, TurnedAt
<1>7. BitsAt(m, i, j)[e] = m[e][i][j]
  BY Zenon DEF BitsAt
<1>8. m[e][i][j] = {<<"prg", seeds[w * kKappa + e], b * NumBlock1024 + i, j>>}
  <2>1. m[e][i] = Draw(seeds[w * kKappa + e], b * NumBlock1024 + i)
    BY <1>2, Zenon
  <2>2. QED
    BY <2>1, Zenon DEF Draw
<1>9. QED
  BY <1>5, <1>6, <1>7, <1>8, Zenon DEF m

\* The rows that the Init methods store.
StreamRow(seeds, j) == [c \in Cols |-> {<<"prg", seeds[c], j \div kKappa, j % kKappa>>}]

LEMMA StreamRowsAre ==
  ASSUME n \in Nat, NEW seeds
  PROVE  StreamRows(seeds, 1 .. n) = [r \in 1 .. n |-> StreamRow(seeds, r - 1)]
<1> DEFINE num_batch == (n + kBatchSize1024 - 1) \div kBatchSize1024
           matrix == [b \in 0 .. num_batch - 1 |-> [w \in 0 .. kKkrtWidth - 1 |->
                        SseTranspose128x1024(DrawnWide(seeds, w, b))]]
           row(b, at) == [c \in Cols |->
                            matrix[b][c \div kKappa][at % kKappa][at \div kKappa][c % kKappa]]
           stored(b, at) ==
             IF at \in CopiedRows(Min({n - b * kBatchSize1024, kBatchSize1024}))
             THEN row(b, at) ELSE Garbage
<1>1. StreamRows(seeds, 1 .. n)
        = [r \in 1 .. n |-> stored((r - 1) \div kBatchSize1024, (r - 1) % kBatchSize1024)]
  BY Zenon DEF StreamRows, DrawnWide, NumBatch
<1>2. ASSUME NEW r \in 1 .. n
      PROVE  stored((r - 1) \div kBatchSize1024, (r - 1) % kBatchSize1024) = StreamRow(seeds, r - 1)
  <2>1. PICK b, i, j : Placed(r, b, i, j)
    <3>1. r \in Nat \ {0}
      OBVIOUS
    <3>2. QED
      BY <3>1, PlaceExists
  <2>2. PICK at : at = (r - 1) % kBatchSize1024
    OBVIOUS
  <2>3. /\ b \in 0 .. num_batch - 1
        /\ at \in CopiedRows(Min({n - b * kBatchSize1024, kBatchSize1024}))
    BY <2>1, <2>2, RowIsCopied
  <2>4. /\ i \in 0 .. NumBlock1024 - 1 /\ j \in Bits /\ (r - 1) \div kBatchSize1024 = b
        /\ at \div kKappa = i /\ at % kKappa = j
        /\ (r - 1) \div kKappa = b * NumBlock1024 + i /\ (r - 1) % kKappa = j
    BY <2>1, <2>2, Zenon DEF Placed
  <2>5. ASSUME NEW c \in Cols
        PROVE  matrix[b][c \div kKappa][j][i][c % kKappa]
                 = {<<"prg", seeds[c], b * NumBlock1024 + i, j>>}
    <3>1. PICK w \in 0 .. kKkrtWidth - 1, e \in Bits :
            w = c \div kKappa /\ e = c % kKappa /\ w * kKappa + e = c
      BY ColsAre, Zenon
    <3>2. matrix[b][w] = SseTranspose128x1024(DrawnWide(seeds, w, b))
      <4> HIDE DEF num_batch
      <4>1. QED
        BY <2>3, Zenon
    <3>3. SseTranspose128x1024(DrawnWide(seeds, w, b))[j][i][e]
            = {<<"prg", seeds[w * kKappa + e], b * NumBlock1024 + i, j>>}
      BY <2>4, DrawnWideIs
    <3> HIDE DEF matrix
    <3>4. QED
      BY <3>1, <3>2, <3>3, Zenon
  <2> HIDE DEF matrix
  <2>6. row(b, at) = [c \in Cols |-> {<<"prg", seeds[c], b * NumBlock1024 + i, j>>}]
    BY <2>4, <2>5, Zenon
  <2>7. row(b, at) = StreamRow(seeds, r - 1)
    BY <2>4, <2>6, Zenon DEF StreamRow
  <2> HIDE DEF row
  <2>8. QED
    BY <2>2, <2>3, <2>4, <2>7, Zenon
<1> HIDE DEF stored
<1>3. QED
  BY <1>1, <1>2, Zenon

\* The parts of StreamInv, of any values of the variables.
Received(t, u, o, k, h, r) ==
  /\ t = [i \in 1 .. n |-> PadRow(Cols, i - 1)]
  /\ IsList(u, n) /\ DOMAIN k = 0 .. n - 1
  /\ \A i \in 1 .. n : EncodedAs(u[i], k[i - 1], i - 1)
  /\ IsList(o, n) /\ \A i \in 1 .. n : o[i] \in {NoBlock, Hash(t[i])}
  /\ r \in 0 .. n /\ h \in [1 .. r -> Seq(Inputs \cup {ZeroCall})]
Answered(p, a, r, h) ==
  /\ a \in 0 .. r
  /\ IF p = <<>> THEN a = 0
     ELSE /\ IsList(p, n) /\ \A i \in a + 1 .. n : DrawnRow(p[i], i - 1)
          /\ \A i \in 1 .. a : Len(h[i]) = 1 => p[i] = SentRow(Cols, i - 1, CodeOf(h[i]))
CorrectionRows(rows, lo, hi, h) ==
  /\ lo <= hi /\ IsList(rows, hi - lo)
  /\ \A i \in 1 .. hi - lo : EncodedAs(rows[i], h[lo + i], lo + i - 1)
Corrections(w, m, at, a, r, h) ==
  /\ m \in Nat /\ IsList(w, m) /\ at \in [1 .. m + 1 -> 0 .. r]
  /\ at[1] = a /\ at[m + 1] = r
  /\ \A k \in 1 .. m : CorrectionRows(w[k].rows, at[k], at[k + 1], h)

LEMMA StreamSame ==
  ASSUME impl' = impl, choices' = choices
  PROVE  /\ \A u, s, j : EncodedAs(u, s, j)' <=> EncodedAs(u, s, j)
         /\ \A j : PadRow(Cols, j)' = PadRow(Cols, j)
         /\ \A row, j : DrawnRow(row, j)' <=> DrawnRow(row, j)
         /\ \A j, s : SentRow(Cols, j, CodeOf(s))' = SentRow(Cols, j, CodeOf(s))
<1>1. \A c, b, j : PadBit(c, b, j)' = PadBit(c, b, j)
  BY PadBitSame
<1>2. \A c, j : MixedBit(c, j)' = MixedBit(c, j)
  BY <1>1, Zenon DEF MixedBit
<1>3. \A u, s, j : EncodedAs(u, s, j)' <=> EncodedAs(u, s, j)
  BY <1>1, <1>2, ZenonT(60) DEF EncodedAs
<1>4. \A j : PadRow(Cols, j)' = PadRow(Cols, j)
  BY <1>1, Zenon DEF PadRow
<1>5. \A row, j : DrawnRow(row, j)' <=> DrawnRow(row, j)
  BY <1>1, Zenon DEF DrawnRow
<1>6. \A j, s : SentRow(Cols, j, CodeOf(s))' = SentRow(Cols, j, CodeOf(s))
  BY <1>1, Zenon DEF SentRow
<1>7. QED
  BY <1>3, <1>4, <1>5, <1>6

LEMMA ReceivedNow ==
  ASSUME ReceiverStream, T # <<>>
  PROVE  Received(T, U, rOut, calls, shipped, rCorr)
  BY Zenon DEF ReceiverStream, Received, IsList

LEMMA ReceivedNext ==
  ASSUME impl' = impl, choices' = choices, n' = n, T' # <<>>,
         Received(T', U', rOut', calls', shipped', rCorr')
  PROVE  ReceiverStream'
<1>1. /\ T' = [i \in 1 .. n |-> PadRow(Cols, i - 1)]
      /\ IsList(U', n) /\ DOMAIN calls' = 0 .. n - 1
      /\ \A i \in 1 .. n : EncodedAs(U'[i], calls'[i - 1], i - 1)
      /\ IsList(rOut', n) /\ \A i \in 1 .. n : rOut'[i] \in {NoBlock, Hash(T'[i])}
      /\ rCorr' \in 0 .. n /\ shipped' \in [1 .. rCorr' -> Seq(Inputs \cup {ZeroCall})]
  BY Zenon DEF Received
<1>2. (T = [i \in 1 .. n |-> PadRow(Cols, i - 1)])'
  BY <1>1, StreamSame, Zenon
<1>3. (\A i \in 1 .. n : EncodedAs(U[i], calls[i - 1], i - 1))'
  <2>1. ASSUME NEW i \in 1 .. n PROVE EncodedAs(U[i], calls[i - 1], i - 1)'
    <3>1. PICK u, s, j : u = U'[i] /\ s = calls'[i - 1] /\ j = i - 1
      OBVIOUS
    <3>2. EncodedAs(u, s, j)'
      BY <1>1, <3>1, StreamSame
    <3>3. QED
      BY <3>1, <3>2, Zenon DEF EncodedAs
  <2>2. QED
    BY <2>1, Zenon
<1>4. (\A i \in 1 .. n : rOut[i] \in {NoBlock, Hash(T[i])})'
  BY <1>1, Zenon DEF Hash
<1>5. QED
  BY <1>1, <1>2, <1>3, <1>4, Zenon DEF ReceiverStream, IsList

LEMMA AnsweredNow ==
  ASSUME SenderStream
  PROVE  Answered(q, sCorr, rCorr, shipped)
  BY Zenon DEF SenderStream, Answered, IsList, DrawnRow

LEMMA AnsweredNext ==
  ASSUME impl' = impl, choices' = choices, n' = n, Answered(q', sCorr', rCorr', shipped')
  PROVE  SenderStream'
<1>1. CASE q' = <<>>
  BY <1>1, Zenon DEF SenderStream, Answered
<1>2. CASE q' # <<>>
  <2>1. /\ IsList(q', n) /\ \A i \in sCorr' + 1 .. n : DrawnRow(q'[i], i - 1)
        /\ \A i \in 1 .. sCorr' : Len(shipped'[i]) = 1
             => q'[i] = SentRow(Cols, i - 1, CodeOf(shipped'[i]))
        /\ sCorr' \in 0 .. rCorr'
    BY <1>2, Zenon DEF Answered
  <2>2. (\A i \in sCorr + 1 .. n :
           q[i] = [c \in Cols |-> PadBit(c, IF c \in choices THEN 1 ELSE 0, i - 1)])'
    <3>1. ASSUME NEW i \in sCorr' + 1 .. n
          PROVE  (q[i] = [c \in Cols |-> PadBit(c, IF c \in choices THEN 1 ELSE 0, i - 1)])'
      <4>1. PICK row, j : row = q'[i] /\ j = i - 1
        OBVIOUS
      <4>2. DrawnRow(row, j)'
        BY <2>1, <4>1, StreamSame
      <4>3. QED
        BY <4>1, <4>2, Zenon DEF DrawnRow
    <3>2. QED
      BY <3>1, Zenon
  <2>3. (\A i \in 1 .. sCorr : Len(shipped[i]) = 1 => q[i] = SentRow(Cols, i - 1, CodeOf(shipped[i])))'
    <3>1. ASSUME NEW i \in 1 .. sCorr', Len(shipped'[i]) = 1
          PROVE  q'[i] = SentRow(Cols, i - 1, CodeOf(shipped[i]))'
      <4>1. PICK s, j : s = shipped'[i] /\ j = i - 1
        OBVIOUS
      <4>2. q'[i] = SentRow(Cols, j, CodeOf(s))'
        BY <2>1, <3>1, <4>1, StreamSame
      <4>3. QED
        BY <4>1, <4>2, Zenon DEF SentRow, CodeOf
    <3>2. QED
      BY <3>1, Zenon
  <2>4. QED
    BY <1>2, <2>1, <2>2, <2>3, Zenon DEF SenderStream, IsList
<1>3. QED
  BY <1>1, <1>2

LEMMA CorrectionsNow ==
  ASSUME CorrectionsInv
  PROVE  \E m, at : Corrections(net, m, at, sCorr + lost, rCorr, shipped)
<1>1. PICK at \in [1 .. Len(net) + 1 -> 0 .. rCorr] :
        /\ at[1] = sCorr + lost /\ at[Len(net) + 1] = rCorr
        /\ \A k \in 1 .. Len(net) :
             LET rows == net[k].rows
             IN  /\ at[k] <= at[k + 1] /\ rows = [i \in 1 .. at[k + 1] - at[k] |-> rows[i]]
                 /\ \A i \in 1 .. at[k + 1] - at[k] :
                      EncodedAs(rows[i], shipped[at[k] + i], at[k] + i - 1)
  BY Zenon DEF CorrectionsInv
<1>2. Len(net) \in Nat /\ IsList(net, Len(net))
  BY Zenon DEF CorrectionsInv, IsList
<1>3. Corrections(net, Len(net), at, sCorr + lost, rCorr, shipped)
  BY <1>1, <1>2, Zenon DEF Corrections, CorrectionRows, IsList
<1>4. QED
  BY <1>3, Zenon

LEMMA CorrectionsNext ==
  ASSUME impl' = impl, choices' = choices, NEW m, NEW at,
         Corrections(net', m, at, sCorr' + lost', rCorr', shipped')
  PROVE  CorrectionsInv'
<1>1. /\ m \in Nat /\ IsList(net', m) /\ at \in [1 .. m + 1 -> 0 .. rCorr']
      /\ at[1] = sCorr' + lost' /\ at[m + 1] = rCorr'
      /\ \A k \in 1 .. m : CorrectionRows(net'[k].rows, at[k], at[k + 1], shipped')
  BY Zenon DEF Corrections
<1>2. Len(net') = m
  BY <1>1, ListSeq
<1>3. ASSUME NEW k \in 1 .. m
      PROVE  /\ at[k] <= at[k + 1]
             /\ net'[k].rows = [i \in 1 .. at[k + 1] - at[k] |-> net'[k].rows[i]]
             /\ \A i \in 1 .. at[k + 1] - at[k] :
                  EncodedAs(net[k].rows[i], shipped[at[k] + i], at[k] + i - 1)'
  <2>1. CorrectionRows(net'[k].rows, at[k], at[k + 1], shipped')
    BY <1>1
  <2>2. ASSUME NEW i \in 1 .. at[k + 1] - at[k]
        PROVE  EncodedAs(net[k].rows[i], shipped[at[k] + i], at[k] + i - 1)'
    <3>1. PICK u, s, j : u = net'[k].rows[i] /\ s = shipped'[at[k] + i] /\ j = at[k] + i - 1
      OBVIOUS
    <3>2. EncodedAs(net'[k].rows[i], shipped'[at[k] + i], at[k] + i - 1)
      BY <2>1, Zenon DEF CorrectionRows
    <3>3. EncodedAs(u, s, j)'
      BY <3>1, <3>2, StreamSame
    <3>4. QED
      BY <3>1, <3>3, Zenon DEF EncodedAs
  <2>3. QED
    BY <2>1, <2>2, Zenon DEF CorrectionRows, IsList
<1>4. Len(net') \in Nat /\ net' = [k \in 1 .. Len(net') |-> net'[k]]
  BY <1>1, <1>2, Zenon DEF IsList
<1>5. QED
  BY <1>1, <1>2, <1>3, <1>4, Zenon DEF CorrectionsInv

\* The atom that the sender's block of the other side gives is in no other word.
LEMMA BitsApart ==
  ASSUME NEW c, NEW j, NEW y, NEW e \in PadBit(c, 1, j)
  PROVE  e \notin PadBit(c, 0, j) /\ e # <<"prc", y, c>>
<1>1. PICK g, a, b : e = <<"prg", Agreed(c + 1, 1), a, b>> /\ g = Agreed(c + 1, 1)
                     /\ PadBit(c, 0, j) = {<<"prg", Agreed(c + 1, 0), a, b>>}
  BY Zenon DEF PadBit
<1>2. Agreed(c + 1, 1) # Agreed(c + 1, 0)
  BY DEF Agreed
<1>3. PICK f : f = Agreed(c + 1, 0)
  OBVIOUS
<1>4. <<"prg", g, a, b>> # <<"prg", f, a, b>>
  BY <1>1, <1>2, <1>3
<1>5. <<"prg", g, a, b>> # <<"prc", y, c>>
  OBVIOUS
<1>6. QED
  BY <1>1, <1>3, <1>4, <1>5, Zenon

\* What a call for y mixes in, besides the receiver's row.
CallCode(y) == IF y = ZeroCall THEN [c \in Cols |-> {}] ELSE Prc(y)
Mixture(u, y, j) == [c \in Cols |-> SymDiff(SymDiff(u[c], PadBit(c, 0, j)), CallCode(y)[c])]

LEMMA FirstCall ==
  ASSUME NEW S, NEW s \in Seq(S), NEW y \in S
  PROVE  /\ Append(s, y) \in Seq(S) /\ Len(s) \in Nat /\ Len(Append(s, y)) = Len(s) + 1
         /\ Len(s) = 0 => Append(s, y)[1] = y
  OBVIOUS

LEMMA EncodeCall ==
  ASSUME NEW u, NEW s, NEW j, NEW y \in Inputs \cup {ZeroCall}, EncodedAs(u, s, j)
  PROVE  EncodedAs(Mixture(u, y, j), Append(s, y), j)
<1> DEFINE v == Mixture(u, y, j)
<1>1. PICK t : t = Append(s, y)
  OBVIOUS
<1>2. /\ t \in Seq(Inputs \cup {ZeroCall}) /\ Len(s) \in Nat /\ Len(t) = Len(s) + 1
      /\ Len(s) = 0 => t[1] = y
  <2>1. s \in Seq(Inputs \cup {ZeroCall})
    BY Zenon DEF EncodedAs
  <2>2. QED
    BY <1>1, <2>1, FirstCall
<1>3. /\ \A c \in Cols : PadBit(c, 1, j) \subseteq u[c]
      /\ Len(s) = 0 => u = [c \in Cols |-> PadBit(c, 1, j)]
  BY Zenon DEF EncodedAs
<1>4. \A c \in Cols : v[c] = SymDiff(SymDiff(u[c], PadBit(c, 0, j)), CallCode(y)[c])
  BY Zenon DEF Mixture
<1>5. v = [c \in Cols |-> v[c]]
  BY Zenon DEF Mixture
<1>6. ASSUME NEW c \in Cols PROVE PadBit(c, 1, j) \subseteq v[c]
  <2>1. ASSUME NEW e \in PadBit(c, 1, j) PROVE e \in v[c]
    <3>1. e \in u[c]
      BY <1>3
    <3>2. e \notin PadBit(c, 0, j) /\ e # <<"prc", y, c>>
      BY BitsApart
    <3>3. CallCode(y)[c] = {} \/ CallCode(y)[c] = {<<"prc", y, c>>}
      BY Zenon DEF CallCode, Prc
    <3>4. e \notin CallCode(y)[c]
      BY <3>2, <3>3, Zenon
    <3>5. \A a, b : e \in SymDiff(a, b) <=> ~(e \in a <=> e \in b)
      BY DEF SymDiff
    <3>6. QED
      BY <1>4, <3>1, <3>2, <3>4, <3>5, ZenonT(60)
  <2>2. QED
    BY <2>1, Zenon
<1>7. ASSUME Len(t) = 1 PROVE v = [c \in Cols |-> SymDiff(MixedBit(c, j), CodeOf(t)[c])]
  <2>1. Len(s) = 0
    <3>1. PICK l \in Nat : l = Len(s) /\ Len(t) = l + 1
      BY <1>2
    <3>2. QED
      BY <1>7, <3>1
  <2>2. CodeOf(t) = CallCode(y)
    <3>1. t[1] = y
      BY <1>2, <2>1, Zenon
    <3>2. QED
      BY <3>1, Zenon DEF CodeOf, CallCode
  <2>3. ASSUME NEW c \in Cols PROVE v[c] = SymDiff(MixedBit(c, j), CodeOf(t)[c])
    <3>1. u[c] = PadBit(c, 1, j)
      BY <1>3, <2>1, Zenon
    <3>2. SymDiff(PadBit(c, 1, j), PadBit(c, 0, j)) = MixedBit(c, j)
      BY XorFacts DEF MixedBit
    <3>3. QED
      BY <1>4, <2>2, <3>1, <3>2, Zenon
  <2> HIDE DEF v
  <2>4. QED
    BY <1>5, <2>3, Zenon
<1>8. Len(t) # 0
  BY <1>2
<1> HIDE DEF v
<1>9. EncodedAs(v, t, j)
  BY <1>2, <1>5, <1>6, <1>7, <1>8, Zenon DEF EncodedAs
<1>a. QED
  BY <1>1, <1>9, Zenon DEF v

LEMMA ZeroMixes ==
  ASSUME NEW u, NEW j, u = [c \in Cols |-> u[c]]
  PROVE  XorWord(u, PadRow(Cols, j)) = Mixture(u, ZeroCall, j)
<1>1. DOMAIN u = Cols
  BY Zenon
<1>2. ASSUME NEW c \in Cols
      PROVE  SymDiff(u[c], PadRow(Cols, j)[c])
               = SymDiff(SymDiff(u[c], PadBit(c, 0, j)), CallCode(ZeroCall)[c])
  <2>1. PadRow(Cols, j)[c] = PadBit(c, 0, j) /\ CallCode(ZeroCall)[c] = {}
    BY Zenon DEF PadRow, CallCode
  <2>2. SymDiff(SymDiff(u[c], PadBit(c, 0, j)), {}) = SymDiff(u[c], PadBit(c, 0, j))
    BY XorFacts
  <2>3. QED
    BY <2>1, <2>2, Zenon
<1>3. QED
  BY <1>1, <1>2, ZenonT(60) DEF XorWord, Mixture

LEMMA InputMixes ==
  ASSUME NEW u, NEW j, NEW y \in Inputs, u = [c \in Cols |-> u[c]]
  PROVE  XorWord(XorWord(u, PadRow(Cols, j)), Prc(y)) = Mixture(u, y, j)
<1>1. DOMAIN u = Cols
  BY Zenon
<1>2. y # ZeroCall
  BY OtAssumption DEF ZeroCall
<1>3. CallCode(y) = Prc(y)
  BY <1>2, Zenon DEF CallCode
<1>4. PICK w : w = XorWord(u, PadRow(Cols, j))
  OBVIOUS
<1>5. w = [c \in Cols |-> SymDiff(u[c], PadRow(Cols, j)[c])]
  BY <1>1, <1>4, Zenon DEF XorWord
<1>6. \A c \in Cols : w[c] = SymDiff(u[c], PadBit(c, 0, j))
  BY <1>5, Zenon DEF PadRow
<1>7. DOMAIN w = Cols
  BY <1>5, Zenon
<1>8. XorWord(w, Prc(y)) = Mixture(u, y, j)
  BY <1>3, <1>6, <1>7, Zenon DEF XorWord, Mixture
<1>9. QED
  BY <1>4, <1>8, Zenon

\* A correction joins the queue, and leaves it.
LEMMA RowsKeep ==
  ASSUME NEW rows, NEW lo \in Nat, NEW hi \in Nat, NEW r \in Nat, NEW h, NEW h1, hi <= r,
         CorrectionRows(rows, lo, hi, h), \A i \in 1 .. r : h1[i] = h[i]
  PROVE  CorrectionRows(rows, lo, hi, h1)
<1>1. lo <= hi /\ IsList(rows, hi - lo)
  BY Zenon DEF CorrectionRows
<1>2. ASSUME NEW i \in 1 .. hi - lo PROVE EncodedAs(rows[i], h1[lo + i], lo + i - 1)
  <2>1. EncodedAs(rows[i], h[lo + i], lo + i - 1)
    BY Zenon DEF CorrectionRows
  <2>2. lo + i \in 1 .. r
    OBVIOUS
  <2>3. QED
    BY <2>1, <2>2, Zenon
<1>3. QED
  BY <1>1, <1>2, Zenon DEF CorrectionRows

LEMMA CorrectionJoins ==
  ASSUME NEW w, NEW m, NEW at, NEW a, NEW r \in Nat, NEW h, NEW r1 \in Nat, NEW h1, NEW v,
         Corrections(w, m, at, a, r, h), \A i \in 1 .. r : h1[i] = h[i],
         CorrectionRows(v.rows, r, r1, h1)
  PROVE  \E m1, at1 : Corrections(Append(w, v), m1, at1, a, r1, h1)
<1>1. /\ m \in Nat /\ IsList(w, m) /\ at \in [1 .. m + 1 -> 0 .. r]
      /\ at[1] = a /\ at[m + 1] = r
      /\ \A k \in 1 .. m : CorrectionRows(w[k].rows, at[k], at[k + 1], h)
  BY Zenon DEF Corrections
<1>2. r <= r1
  BY Zenon DEF CorrectionRows
<1>3. PICK z : z = Append(w, v)
  OBVIOUS
<1>4. IsList(z, m + 1) /\ z[m + 1] = v /\ \A i \in 1 .. m : z[i] = w[i]
  <2>1. Appended(Append(w, v), w, m, v)
    BY <1>1, ListAppend
  <2>2. QED
    BY <1>3, <2>1, Zenon DEF Appended
<1>5. PICK at1 : at1 = [k \in 1 .. (m + 1) + 1 |-> IF k <= m + 1 THEN at[k] ELSE r1]
  OBVIOUS
<1>6. ASSUME NEW k \in 1 .. (m + 1) + 1 PROVE at1[k] \in 0 .. r1
  <2>1. CASE k <= m + 1
    <3>1. k \in 1 .. m + 1 /\ at1[k] = at[k]
      BY <1>1, <1>5, <2>1
    <3>2. at[k] \in 0 .. r
      BY <1>1, <3>1
    <3>3. QED
      BY <1>2, <3>1, <3>2
  <2>2. CASE ~(k <= m + 1)
    BY <1>5, <2>2
  <2>3. QED
    BY <2>1, <2>2
<1>7. at1 \in [1 .. (m + 1) + 1 -> 0 .. r1]
  BY <1>5, <1>6
<1>8. \A k \in 1 .. m + 1 : at1[k] = at[k]
  BY <1>1, <1>5
<1>9. at1[(m + 1) + 1] = r1 /\ at1[1] = a
  BY <1>1, <1>5, <1>8
<1>a. ASSUME NEW k \in 1 .. m + 1
      PROVE  CorrectionRows(z[k].rows, at1[k], at1[k + 1], h1)
  <2>1. CASE k \in 1 .. m
    <3>1. k \in 1 .. m + 1 /\ k + 1 \in 1 .. m + 1
      BY <1>1, <2>1
    <3>2. at1[k] = at[k] /\ at1[k + 1] = at[k + 1] /\ z[k] = w[k]
      BY <1>4, <1>8, <2>1, <3>1, Zenon
    <3>3. at[k] \in 0 .. r /\ at[k + 1] \in 0 .. r
      BY <1>1, <3>1
    <3>4. PICK lo \in Nat, hi \in Nat : lo = at[k] /\ hi = at[k + 1] /\ hi <= r
      BY <3>3
    <3>5. CorrectionRows(w[k].rows, lo, hi, h)
      BY <1>1, <2>1, <3>4, Zenon
    <3>6. CorrectionRows(w[k].rows, lo, hi, h1)
      BY <3>4, <3>5, RowsKeep
    <3>7. QED
      BY <3>2, <3>4, <3>6, Zenon
  <2>2. CASE k = m + 1
    <3>1. m + 1 \in 1 .. m + 1
      BY <1>1
    <3>2. at1[k] = r /\ at1[k + 1] = r1 /\ z[k] = v
      BY <1>1, <1>4, <1>8, <1>9, <2>2, <3>1, Zenon
    <3>3. QED
      BY <3>2, Zenon
  <2>3. QED
    BY <1>1, <2>1, <2>2
<1>b. m + 1 \in Nat
  BY <1>1
<1>c. Corrections(z, m + 1, at1, a, r1, h1)
  BY <1>4, <1>7, <1>9, <1>a, <1>b, Zenon DEF Corrections
<1>d. QED
  BY <1>3, <1>c, Zenon

LEMMA CorrectionLeaves ==
  ASSUME NEW w, NEW m, NEW at, NEW a \in Nat, NEW r \in Nat, NEW h, w # <<>>,
         Corrections(w, m, at, a, r, h)
  PROVE  \E a1 \in a .. r :
           /\ CorrectionRows(Head(w).rows, a, a1, h)
           /\ \E m1, at1 : Corrections(Tail(w), m1, at1, a1, r, h)
<1>1. /\ m \in Nat /\ IsList(w, m) /\ at \in [1 .. m + 1 -> 0 .. r]
      /\ at[1] = a /\ at[m + 1] = r
      /\ \A k \in 1 .. m : CorrectionRows(w[k].rows, at[k], at[k + 1], h)
  BY Zenon DEF Corrections
<1>2. m # 0
  <2>1. m = 0 => w = <<>>
    BY <1>1 DEF IsList
  <2>2. QED
    BY <2>1
<1>3. PICK k1 \in Nat : m = k1 + 1
  <2>1. m - 1 \in Nat /\ m = (m - 1) + 1
    BY <1>1, <1>2
  <2>2. QED
    BY <2>1
<1>4. PICK z, e : z = Tail(w) /\ e = Head(w)
  OBVIOUS
<1>5. IsList(z, k1) /\ e = w[1] /\ \A i \in 1 .. k1 : z[i] = w[i + 1]
  <2>1. Shortened(Tail(w), w, k1) /\ Head(w) = w[1]
    BY <1>1, <1>3, TailShortens
  <2>2. QED
    BY <1>4, <2>1, Zenon DEF Shortened
<1>6. PICK at1 : at1 = [k \in 1 .. k1 + 1 |-> at[k + 1]]
  OBVIOUS
<1>7. \A k \in 1 .. k1 + 1 : k + 1 \in 1 .. m + 1
  BY <1>3
<1>8. \A k \in 1 .. k1 + 1 : at1[k] = at[k + 1] /\ at[k + 1] \in 0 .. r
  BY <1>1, <1>6, <1>7
<1>9. at1 \in [1 .. k1 + 1 -> 0 .. r]
  BY <1>6, <1>8
<1>a. PICK a1 : a1 = at[1 + 1]
  OBVIOUS
<1>b. CorrectionRows(e.rows, a, a1, h)
  <2>1. 1 \in 1 .. m
    BY <1>1, <1>2
  <2>2. QED
    BY <1>1, <1>5, <1>a, <2>1, Zenon
<1>c. a1 \in a .. r /\ at1[1] = a1
  <2>1. 1 \in 1 .. k1 + 1
    BY <1>3
  <2>2. at1[1] = a1 /\ a1 \in 0 .. r
    BY <1>8, <1>a, <2>1, Zenon
  <2>3. a <= a1
    BY <1>b, Zenon DEF CorrectionRows
  <2>4. QED
    BY <2>2, <2>3
<1>d. at1[k1 + 1] = r
  <2>1. k1 + 1 \in 1 .. k1 + 1
    BY <1>3
  <2>2. at1[k1 + 1] = at[(k1 + 1) + 1]
    BY <1>8, <2>1, Zenon
  <2>3. QED
    BY <1>1, <1>3, <2>2, Zenon
<1>e. ASSUME NEW k \in 1 .. k1
      PROVE  CorrectionRows(z[k].rows, at1[k], at1[k + 1], h)
  <2>1. k \in 1 .. k1 + 1 /\ k + 1 \in 1 .. k1 + 1 /\ k + 1 \in 1 .. m
    BY <1>3
  <2>2. at1[k] = at[k + 1] /\ at1[k + 1] = at[(k + 1) + 1] /\ z[k] = w[k + 1]
    BY <1>5, <1>8, <2>1, Zenon
  <2>3. CorrectionRows(w[k + 1].rows, at[k + 1], at[(k + 1) + 1], h)
    BY <1>1, <2>1, Zenon
  <2>4. QED
    BY <2>2, <2>3, Zenon
<1>f. Corrections(z, k1, at1, a1, r, h)
  BY <1>3, <1>5, <1>9, <1>c, <1>d, <1>e, Zenon DEF Corrections
<1>g. QED
  BY <1>4, <1>b, <1>c, <1>f, Zenon

LEMMA ReceiverSame ==
  ASSUME ReceiverStream, impl' = impl, choices' = choices, n' = n,
         T' = T, U' = U, rOut' = rOut, calls' = calls, shipped' = shipped, rCorr' = rCorr,
         T = <<>> => net' = net /\ sCorr' = sCorr /\ lost' = lost
  PROVE  ReceiverStream'
<1>1. CASE T = <<>>
  BY <1>1, Zenon DEF ReceiverStream, StreamIdle
<1>2. CASE T # <<>>
  <2>1. Received(T, U, rOut, calls, shipped, rCorr)
    BY <1>2, ReceivedNow
  <2>2. Received(T', U', rOut', calls', shipped', rCorr') /\ T' # <<>>
    BY <1>2, <2>1, Zenon
  <2>3. QED
    BY <2>2, ReceivedNext
<1>3. QED
  BY <1>1, <1>2

LEMMA SenderSame ==
  ASSUME lost = 0 => SenderStream, impl' = impl, choices' = choices, n' = n,
         q' = q, sCorr' = sCorr, rCorr' = rCorr, shipped' = shipped, lost' = lost
  PROVE  lost' = 0 => SenderStream'
<1>1. SUFFICES ASSUME lost' = 0 PROVE SenderStream'
  BY Zenon
<1>2. SenderStream
  BY <1>1, Zenon
<1>3. Answered(q', sCorr', rCorr', shipped')
  BY <1>2, AnsweredNow, Zenon
<1>4. QED
  BY <1>3, AnsweredNext

LEMMA CountsSame ==
  ASSUME CountsInv, n' = n, q' = q, sCorr' = sCorr, rCorr' = rCorr, lost' = lost
  PROVE  CountsInv'
  BY Zenon DEF CountsInv

LEMMA CorrectionsSame ==
  ASSUME CorrectionsInv, impl' = impl, choices' = choices,
         net' = net, sCorr' = sCorr, rCorr' = rCorr, shipped' = shipped, lost' = lost
  PROVE  CorrectionsInv'
<1>1. PICK m, at : Corrections(net, m, at, sCorr + lost, rCorr, shipped)
  BY CorrectionsNow
<1>2. Corrections(net', m, at, sCorr' + lost', rCorr', shipped')
  BY <1>1, Zenon
<1>3. QED
  BY <1>2, CorrectionsNext

LEMMA StreamSteps ==
  ASSUME StreamInv, num' = num, choices' = choices, n' = n, rBatch' = rBatch, sBatch' = sBatch,
         sOut' = sOut, CountsInv', ReceiverStream', lost' = 0 => SenderStream', CorrectionsInv'
  PROVE  StreamInv'
  BY Zenon DEF StreamInv

LEMMA SenderCounts ==
  ASSUME StreamInv
  PROVE  /\ n \in Nat \ {0} /\ rCorr \in 0 .. n
         /\ sCorr \in Nat /\ lost \in Nat /\ sCorr + lost <= rCorr
<1>1. n \in Nat \ {0} /\ sCorr \in Nat /\ lost \in Nat /\ sCorr + lost <= rCorr
  BY Zenon DEF StreamInv, CountsInv
<1>2. CASE T = <<>>
  <2>1. rCorr = 0
    BY <1>2, Zenon DEF StreamInv, ReceiverStream, StreamIdle
  <2>2. QED
    BY <1>1, <2>1
<1>3. CASE T # <<>>
  BY <1>1, <1>3, Zenon DEF StreamInv, ReceiverStream
<1>4. QED
  BY <1>2, <1>3

\* The rows the two Init methods store.
LEMMA SeedRow ==
  ASSUME BaseInv, BaseSendDone, num = kKkrtWidth * kKappa, NEW j \in Nat, NEW b \in 0 .. 1
  PROVE  StreamRow([c \in Cols |-> sBlocks[c + 1][b]], j) = [c \in Cols |-> PadBit(c, b, j)]
<1> DEFINE seeds == [c \in Cols |-> sBlocks[c + 1][b]]
<1>1. ASSUME NEW c \in Cols PROVE seeds[c] = Agreed(c + 1, b)
  <2>1. c \in 0 .. num - 1
    BY ColsAre, Zenon
  <2>2. sBlocks[c + 1][b] = Agreed(c + 1, b)
    BY <2>1, SenderHas
  <2>3. QED
    BY <2>2, Zenon
<1> HIDE DEF seeds
<1>2. StreamRow(seeds, j) = [c \in Cols |-> PadBit(c, b, j)]
  BY <1>1, Zenon DEF StreamRow, PadBit
<1>3. QED
  BY <1>2, Zenon DEF seeds

LEMMA ChosenRow ==
  ASSUME BaseInv, BaseRecvDone, num = kKkrtWidth * kKappa, NEW j \in Nat
  PROVE  DrawnRow(StreamRow([c \in Cols |-> rBlocks[c + 1]], j), j)
<1> DEFINE seeds == [c \in Cols |-> rBlocks[c + 1]]
           bit(c) == IF c \in choices THEN 1 ELSE 0
<1>1. ASSUME NEW c \in Cols PROVE seeds[c] = Agreed(c + 1, bit(c))
  <2>1. c \in 0 .. num - 1
    BY ColsAre, Zenon
  <2>2. rBlocks[c + 1] = Agreed(c + 1, bit(c))
    BY <2>1, ReceiverHas
  <2> HIDE DEF bit
  <2>3. QED
    BY <2>2, Zenon
<1> HIDE DEF seeds, bit
<1>2. StreamRow(seeds, j) = [c \in Cols |-> PadBit(c, bit(c), j)]
  BY <1>1, Zenon DEF StreamRow, PadBit
<1>3. QED
  BY <1>2, Zenon DEF seeds, bit, DrawnRow

LEMMA SenderInitKeeps ==
  ASSUME BaseInv, StreamInv, SenderInit, UNCHANGED baseVars
  PROVE  StreamInv'
<1> DEFINE seeds == [c \in Cols |-> rBlocks[c + 1]]
<1>1. /\ BaseRecvDone /\ q = <<>> /\ q' = StreamRows(seeds, 1 .. n) /\ sCorr' = 0
      /\ n' = n /\ rBatch' = rBatch /\ sBatch' = sBatch /\ net' = net /\ rOut' = rOut
      /\ sOut' = sOut /\ T' = T /\ U' = U /\ rCorr' = rCorr /\ calls' = calls
      /\ shipped' = shipped /\ lost' = lost
  BY Zenon DEF SenderInit
<1>2. impl' = impl /\ num' = num /\ choices' = choices
  BY DEF baseVars
<1>0. /\ num = kKkrtWidth * kKappa /\ ReceiverStream /\ (lost = 0 => SenderStream)
      /\ CorrectionsInv /\ (lost = 0 \/ DOMAIN q = 1 .. n)
  BY Zenon DEF StreamInv, CountsInv
<1>4. n \in Nat /\ n # 0 /\ rCorr \in Nat
  BY SenderCounts
<1>b. lost = 0
  <2>1. PICK p : p = q
    OBVIOUS
  <2>2. p = <<>>
    BY <1>1, <2>1, Zenon
  <2>3. DOMAIN p # 1 .. n
    <3>1. DOMAIN p = {} /\ 1 \in 1 .. n
      BY <1>4, <2>2
    <3>2. QED
      BY <3>1, Zenon
  <2>4. QED
    BY <1>0, <2>1, <2>3, Zenon
<1>3. num = kKkrtWidth * kKappa /\ ReceiverStream /\ SenderStream /\ CorrectionsInv
  BY <1>0, <1>b, Zenon
<1>5. sCorr' = sCorr
  BY <1>1, <1>3, Zenon DEF SenderStream
<1>a. CountsInv'
  <2>1. sCorr' \in Nat /\ lost' \in Nat /\ sCorr' + lost' <= rCorr' /\ lost' = 0
    <3>1. 0 \in Nat /\ 0 + 0 <= rCorr
      BY <1>4
    <3>2. QED
      BY <1>1, <1>b, <3>1, Zenon
  <2>2. QED
    BY <2>1, Zenon DEF CountsInv
<1>6. ReceiverStream'
  BY <1>1, <1>2, <1>3, <1>5, ReceiverSame
<1>7. CorrectionsInv'
  BY <1>1, <1>2, <1>3, <1>5, CorrectionsSame
<1>8. SenderStream'
  <2>1. ASSUME NEW j \in Nat PROVE DrawnRow(StreamRow(seeds, j), j)
    BY <1>1, <1>3, ChosenRow
  <2> HIDE DEF seeds
  <2>2. q' = [r \in 1 .. n |-> StreamRow(seeds, r - 1)]
    BY <1>1, <1>4, StreamRowsAre
  <2>3. IsList(q', n)
    BY <2>2, Zenon DEF IsList
  <2>4. ASSUME NEW i \in 0 + 1 .. n PROVE DrawnRow(q'[i], i - 1)
    <3>1. i \in 1 .. n /\ i - 1 \in Nat
      BY <1>4
    <3>2. q'[i] = StreamRow(seeds, i - 1)
      BY <2>2, <3>1, Zenon
    <3>3. QED
      BY <2>1, <3>1, <3>2, Zenon
  <2>5. 1 .. 0 = {} /\ 0 \in 0 .. rCorr
    BY <1>4
  <2>6. Answered(q', 0, rCorr, shipped)
    BY <2>3, <2>4, <2>5, Zenon DEF Answered
  <2>7. Answered(q', sCorr', rCorr', shipped')
    BY <1>1, <2>6, Zenon
  <2>8. QED
    BY <1>1, <1>2, <2>7, AnsweredNext
<1>9. QED
  BY <1>1, <1>2, <1>6, <1>7, <1>8, <1>a, StreamSteps

LEMMA ReceiverInitKeeps ==
  ASSUME BaseInv, StreamInv, ReceiverInit, UNCHANGED baseVars
  PROVE  StreamInv'
<1> DEFINE seeds(b) == [c \in Cols |-> sBlocks[c + 1][b]]
<1>1. /\ BaseSendDone /\ T = <<>> /\ T' = StreamRows(seeds(0), 1 .. n \cup WrittenRows)
      /\ U' = StreamRows(seeds(1), 1 .. n \cup WrittenRows)
      /\ rCorr' = 0 /\ rOut' = [i \in 1 .. n |-> NoBlock]
      /\ calls' = [i \in 0 .. n - 1 |-> <<>>] /\ shipped' = <<>>
      /\ n' = n /\ rBatch' = rBatch /\ sBatch' = sBatch /\ net' = net /\ sOut' = sOut /\ q' = q
      /\ sCorr' = sCorr /\ lost' = lost
  BY Zenon DEF ReceiverInit
<1>2. impl' = impl /\ num' = num /\ choices' = choices
  BY DEF baseVars
<1>3. /\ num = kKkrtWidth * kKappa /\ CountsInv /\ ReceiverStream
      /\ (lost = 0 => SenderStream) /\ CorrectionsInv
  BY Zenon DEF StreamInv
<1>4. n \in Nat /\ n # 0
  BY SenderCounts
<1>5. rCorr = 0 /\ shipped = <<>>
  BY <1>1, <1>3, Zenon DEF ReceiverStream, StreamIdle
<1>a. CountsInv'
  BY <1>1, <1>3, <1>5, CountsSame
<1>6. lost' = 0 => SenderStream'
  BY <1>1, <1>2, <1>3, <1>5, SenderSame
<1>7. CorrectionsInv'
  BY <1>1, <1>2, <1>3, <1>5, CorrectionsSame
<1>8. ReceiverStream'
  <2>1. ASSUME NEW j \in Nat, NEW b \in 0 .. 1
        PROVE  StreamRow(seeds(b), j) = [c \in Cols |-> PadBit(c, b, j)]
    BY <1>1, <1>3, SeedRow
  <2>2. 0 \in 0 .. 1 /\ 1 \in 0 .. 1
    OBVIOUS
  <2> HIDE DEF seeds
  <2>3. /\ T' = [r \in 1 .. n |-> StreamRow(seeds(0), r - 1)]
        /\ U' = [r \in 1 .. n |-> StreamRow(seeds(1), r - 1)]
    <3>1. T' = StreamRows(seeds(0), 1 .. n) /\ U' = StreamRows(seeds(1), 1 .. n)
      BY <1>1, <1>4, WrittenWithin, Zenon
    <3>2. QED
      BY <1>4, <3>1, StreamRowsAre
  <2>4. \A i \in 1 .. n : i - 1 \in Nat /\ i - 1 \in 0 .. n - 1
    BY <1>4
  <2>5. T' = [i \in 1 .. n |-> PadRow(Cols, i - 1)]
    BY <2>1, <2>2, <2>3, <2>4, Zenon DEF PadRow
  <2>6. T' # <<>>
    <3>1. DOMAIN T' = 1 .. n
      BY <2>5, Zenon
    <3>2. PICK t : t = T'
      OBVIOUS
    <3>3. 1 \in DOMAIN t
      BY <1>4, <3>1, <3>2
    <3>4. t # <<>>
      BY <3>3
    <3>5. QED
      BY <3>2, <3>4, Zenon
  <2>7. ASSUME NEW i \in 1 .. n PROVE EncodedAs(U'[i], calls'[i - 1], i - 1)
    <3>1. PICK u, j : u = U'[i] /\ j = i - 1
      OBVIOUS
    <3>0. u = StreamRow(seeds(1), j) /\ j \in Nat
      BY <2>3, <2>4, <3>1, Zenon
    <3>2. u = [c \in Cols |-> PadBit(c, 1, j)]
      BY <2>1, <2>2, <3>0
    <3>3. calls'[i - 1] = <<>>
      BY <1>1, <2>4, Zenon
    <3>4. u = [c \in Cols |-> u[c]] /\ \A c \in Cols : PadBit(c, 1, j) \subseteq u[c]
      BY <3>2, Zenon
    <3>5. PICK s : s = <<>>
      OBVIOUS
    <3>6. s \in Seq(Inputs \cup {ZeroCall}) /\ Len(s) = 0 /\ Len(s) # 1
      BY <3>5
    <3>7. EncodedAs(u, s, j)
      BY <3>2, <3>4, <3>6, Zenon DEF EncodedAs
    <3>8. QED
      BY <3>1, <3>3, <3>5, <3>7, Zenon
  <2>8. IsList(U', n) /\ IsList(rOut', n) /\ DOMAIN calls' = 0 .. n - 1
    BY <1>1, <2>3, Zenon DEF IsList
  <2>9. \A i \in 1 .. n : rOut'[i] \in {NoBlock, Hash(T'[i])}
    BY <1>1, Zenon
  <2>a. rCorr' \in 0 .. n /\ shipped' \in [1 .. rCorr' -> Seq(Inputs \cup {ZeroCall})]
    <3>1. PICK S : S = Seq(Inputs \cup {ZeroCall})
      OBVIOUS
    <3>2. <<>> \in [1 .. 0 -> S]
      OBVIOUS
    <3>3. 0 \in 0 .. n
      BY <1>4
    <3>4. QED
      BY <1>1, <3>1, <3>2, <3>3, Zenon
  <2>b. Received(T', U', rOut', calls', shipped', rCorr')
    BY <2>5, <2>7, <2>8, <2>9, <2>a, Zenon DEF Received
  <2>c. QED
    BY <1>1, <1>2, <2>6, <2>b, ReceivedNext
<1>9. QED
  BY <1>1, <1>2, <1>6, <1>7, <1>8, <1>a, StreamSteps

\* A list with another element at i, and the calls with one more for row i.
Replaced(f, s, m, i, e) == IsList(f, m) /\ \A d \in 1 .. m : f[d] = IF d = i THEN e ELSE s[d]
CallMade(f, k, i, y) ==
  /\ DOMAIN f = 0 .. n - 1
  /\ \A d \in 0 .. n - 1 : f[d] = IF d = i THEN Append(k[i], y) ELSE k[d]

\* A call changes a row, what was made of it and the calls for it.
LEMMA CallKeeps ==
  ASSUME NEW t, NEW u, NEW o, NEW k, NEW h, NEW r, Received(t, u, o, k, h, r), n \in Nat,
         NEW u1, NEW o1, NEW k1, NEW i \in 0 .. n - 1, NEW y \in Inputs \cup {ZeroCall},
         Replaced(u1, u, n, i + 1, Mixture(u[i + 1], y, i)),
         NEW e \in {NoBlock, Hash(t[i + 1])}, Replaced(o1, o, n, i + 1, e), CallMade(k1, k, i, y)
  PROVE  Received(t, u1, o1, k1, h, r)
<1>1. /\ t = [d \in 1 .. n |-> PadRow(Cols, d - 1)]
      /\ IsList(u, n) /\ DOMAIN k = 0 .. n - 1
      /\ \A d \in 1 .. n : EncodedAs(u[d], k[d - 1], d - 1)
      /\ IsList(o, n) /\ \A d \in 1 .. n : o[d] \in {NoBlock, Hash(t[d])}
      /\ r \in 0 .. n /\ h \in [1 .. r -> Seq(Inputs \cup {ZeroCall})]
  BY Zenon DEF Received
<1>0. /\ IsList(u1, n) /\ IsList(o1, n) /\ DOMAIN k1 = 0 .. n - 1
      /\ \A d \in 1 .. n : u1[d] = IF d = i + 1 THEN Mixture(u[i + 1], y, i) ELSE u[d]
      /\ \A d \in 1 .. n : o1[d] = IF d = i + 1 THEN e ELSE o[d]
      /\ \A d \in 0 .. n - 1 : k1[d] = IF d = i THEN Append(k[i], y) ELSE k[d]
  BY Zenon DEF Replaced, CallMade
<1>2. ASSUME NEW d \in 1 .. n PROVE EncodedAs(u1[d], k1[d - 1], d - 1)
  <2>1. d - 1 \in 0 .. n - 1
    OBVIOUS
  <2>2. EncodedAs(u[d], k[d - 1], d - 1)
    BY <1>1, Zenon
  <2>3. CASE d = i + 1
    <3>1. d - 1 = i
      BY <2>3
    <3>2. u1[d] = Mixture(u[d], y, i) /\ k1[d - 1] = Append(k[i], y)
      BY <1>0, <2>1, <2>3, <3>1, Zenon
    <3>3. EncodedAs(u[d], k[i], i)
      BY <2>2, <3>1, Zenon
    <3>4. EncodedAs(Mixture(u[d], y, i), Append(k[i], y), i)
      BY <3>3, EncodeCall
    <3>5. QED
      BY <3>1, <3>2, <3>4, Zenon
  <2>4. CASE d # i + 1
    <3>1. d - 1 # i
      BY <2>4
    <3>2. u1[d] = u[d] /\ k1[d - 1] = k[d - 1]
      BY <1>0, <2>1, <2>4, <3>1, Zenon
    <3>3. QED
      BY <2>2, <3>2, Zenon
  <2>5. QED
    BY <2>3, <2>4
<1>3. \A d \in 1 .. n : o1[d] \in {NoBlock, Hash(t[d])}
  <2>1. ASSUME NEW d \in 1 .. n PROVE o1[d] \in {NoBlock, Hash(t[d])}
    <3>1. CASE d = i + 1
      BY <1>0, <3>1, Zenon
    <3>2. CASE d # i + 1
      BY <1>0, <1>1, <3>2, Zenon
    <3>3. QED
      BY <3>1, <3>2
  <2>2. QED
    BY <2>1
<1>4. QED
  BY <1>0, <1>1, <1>2, <1>3, Zenon DEF Received

\* What EXCEPT makes of a list, and of the calls.
LEMMA ListExcept ==
  ASSUME NEW s, NEW m, IsList(s, m), NEW i, NEW e
  PROVE  Replaced([s EXCEPT ![i] = e], s, m, i, e)
<1>1. DOMAIN s = 1 .. m
  BY Zenon DEF IsList
<1>2. PICK f : f = [s EXCEPT ![i] = e]
  OBVIOUS
<1>3. f = [d \in 1 .. m |-> IF d = i THEN e ELSE s[d]]
  BY <1>1, <1>2
<1>4. Replaced(f, s, m, i, e)
  BY <1>3, Zenon DEF Replaced, IsList
<1>5. QED
  BY <1>2, <1>4, Zenon

LEMMA CallsExcept ==
  ASSUME NEW k, DOMAIN k = 0 .. n - 1, NEW i, NEW y
  PROVE  CallMade([k EXCEPT ![i] = Append(k[i], y)], k, i, y)
<1>1. PICK z : z = Append(k[i], y)
  OBVIOUS
<1>2. PICK f : f = [k EXCEPT ![i] = z]
  OBVIOUS
<1>3. f = [d \in 0 .. n - 1 |-> IF d = i THEN z ELSE k[d]]
  BY <1>2
<1>4. CallMade(f, k, i, y)
  BY <1>1, <1>3, Zenon DEF CallMade
<1>5. QED
  BY <1>1, <1>2, <1>4, Zenon

LEMMA EncodeKeeps ==
  ASSUME BaseInv, StreamInv, NEW i \in 0 .. n - 1, NEW y \in Inputs, Encode(i, y),
         UNCHANGED baseVars
  PROVE  StreamInv'
<1> DEFINE v == XorWord(XorWord(U[i + 1], T[i + 1]), Prc(y))
           e == Hash(T[i + 1])
<1>1. /\ T # <<>> /\ U' = [U EXCEPT ![i + 1] = v] /\ rOut' = [rOut EXCEPT ![i + 1] = e]
      /\ calls' = [calls EXCEPT ![i] = Append(calls[i], y)]
      /\ n' = n /\ rBatch' = rBatch /\ sBatch' = sBatch /\ net' = net /\ sOut' = sOut /\ q' = q
      /\ T' = T /\ rCorr' = rCorr /\ sCorr' = sCorr /\ lost' = lost /\ shipped' = shipped
  BY Zenon DEF Encode
<1>2. impl' = impl /\ num' = num /\ choices' = choices
  BY DEF baseVars
<1>3. CountsInv /\ ReceiverStream /\ (lost = 0 => SenderStream) /\ CorrectionsInv
  BY Zenon DEF StreamInv
<1>4. n \in Nat
  BY SenderCounts
<1>0. CountsInv'
  BY <1>1, <1>3, CountsSame
<1>5. lost' = 0 => SenderStream'
  BY <1>1, <1>2, <1>3, SenderSame
<1>6. CorrectionsInv'
  BY <1>1, <1>2, <1>3, CorrectionsSame
<1>7. ReceiverStream'
  <2>1. Received(T, U, rOut, calls, shipped, rCorr)
    BY <1>1, <1>3, ReceivedNow
  <2>2. /\ T = [d \in 1 .. n |-> PadRow(Cols, d - 1)]
        /\ IsList(U, n) /\ DOMAIN calls = 0 .. n - 1 /\ IsList(rOut, n)
        /\ \A d \in 1 .. n : EncodedAs(U[d], calls[d - 1], d - 1)
    BY <2>1, Zenon DEF Received
  <2>3. i + 1 \in 1 .. n /\ (i + 1) - 1 = i
    BY <1>4
  <2>4. T[i + 1] = PadRow(Cols, i) /\ EncodedAs(U[i + 1], calls[i], i)
    BY <2>2, <2>3, Zenon
  <2>5. v = Mixture(U[i + 1], y, i)
    <3>1. PICK u : u = U[i + 1]
      OBVIOUS
    <3>2. u = [c \in Cols |-> u[c]]
      BY <2>4, <3>1, Zenon DEF EncodedAs
    <3>3. XorWord(XorWord(u, PadRow(Cols, i)), Prc(y)) = Mixture(u, y, i)
      BY <3>2, InputMixes
    <3>4. QED
      BY <2>4, <3>1, <3>3, Zenon
  <2> HIDE DEF v
  <2>6. e \in {NoBlock, Hash(T[i + 1])} /\ y \in Inputs \cup {ZeroCall}
    OBVIOUS
  <2> HIDE DEF e
  <2>7. Replaced(U', U, n, i + 1, v)
    <3>1. Replaced([U EXCEPT ![i + 1] = v], U, n, i + 1, v)
      BY <2>2, ListExcept
    <3>2. QED
      BY <1>1, <3>1, Zenon
  <2>8. Replaced(rOut', rOut, n, i + 1, e)
    <3>1. Replaced([rOut EXCEPT ![i + 1] = e], rOut, n, i + 1, e)
      BY <2>2, ListExcept
    <3>2. QED
      BY <1>1, <3>1, Zenon
  <2>9. CallMade(calls', calls, i, y)
    <3>1. CallMade([calls EXCEPT ![i] = Append(calls[i], y)], calls, i, y)
      BY <2>2, CallsExcept
    <3>2. QED
      BY <1>1, <3>1, Zenon
  <2>0. Replaced(U', U, n, i + 1, Mixture(U[i + 1], y, i))
    BY <2>5, <2>7, Zenon
  <2>a. Received(T, U', rOut', calls', shipped, rCorr)
    BY <1>4, <2>0, <2>1, <2>6, <2>8, <2>9, CallKeeps
  <2>b. Received(T', U', rOut', calls', shipped', rCorr') /\ T' # <<>>
    BY <1>1, <2>a, Zenon
  <2>c. QED
    BY <1>1, <1>2, <2>b, ReceivedNext
<1>8. QED
  BY <1>0, <1>1, <1>2, <1>5, <1>6, <1>7, StreamSteps

LEMMA ZeroEncodeKeeps ==
  ASSUME BaseInv, StreamInv, NEW i \in 0 .. n - 1, ZeroEncode(i), UNCHANGED baseVars
  PROVE  StreamInv'
<1> DEFINE v == XorWord(U[i + 1], T[i + 1])
<1>1. /\ T # <<>> /\ U' = [U EXCEPT ![i + 1] = v]
      /\ calls' = [calls EXCEPT ![i] = Append(calls[i], ZeroCall)]
      /\ n' = n /\ rBatch' = rBatch /\ sBatch' = sBatch /\ net' = net /\ sOut' = sOut /\ q' = q
      /\ T' = T /\ rCorr' = rCorr /\ sCorr' = sCorr /\ lost' = lost /\ shipped' = shipped /\ rOut' = rOut
  BY Zenon DEF ZeroEncode
<1>2. impl' = impl /\ num' = num /\ choices' = choices
  BY DEF baseVars
<1>3. CountsInv /\ ReceiverStream /\ (lost = 0 => SenderStream) /\ CorrectionsInv
  BY Zenon DEF StreamInv
<1>4. n \in Nat
  BY SenderCounts
<1>0. CountsInv'
  BY <1>1, <1>3, CountsSame
<1>5. lost' = 0 => SenderStream'
  BY <1>1, <1>2, <1>3, SenderSame
<1>6. CorrectionsInv'
  BY <1>1, <1>2, <1>3, CorrectionsSame
<1>7. ReceiverStream'
  <2>1. Received(T, U, rOut, calls, shipped, rCorr)
    BY <1>1, <1>3, ReceivedNow
  <2>2. /\ T = [d \in 1 .. n |-> PadRow(Cols, d - 1)]
        /\ IsList(U, n) /\ DOMAIN calls = 0 .. n - 1 /\ IsList(rOut, n)
        /\ \A d \in 1 .. n : EncodedAs(U[d], calls[d - 1], d - 1)
        /\ \A d \in 1 .. n : rOut[d] \in {NoBlock, Hash(T[d])}
    BY <2>1, Zenon DEF Received
  <2>3. i + 1 \in 1 .. n /\ (i + 1) - 1 = i
    BY <1>4
  <2>4. T[i + 1] = PadRow(Cols, i) /\ EncodedAs(U[i + 1], calls[i], i)
    BY <2>2, <2>3, Zenon
  <2>5. v = Mixture(U[i + 1], ZeroCall, i)
    <3>1. PICK u : u = U[i + 1]
      OBVIOUS
    <3>2. u = [c \in Cols |-> u[c]]
      BY <2>4, <3>1, Zenon DEF EncodedAs
    <3>3. XorWord(u, PadRow(Cols, i)) = Mixture(u, ZeroCall, i)
      BY <3>2, ZeroMixes
    <3>4. QED
      BY <2>4, <3>1, <3>3, Zenon
  <2> HIDE DEF v
  <2>6. PICK e : e = rOut[i + 1] /\ e \in {NoBlock, Hash(T[i + 1])}
    BY <2>2, <2>3, Zenon
  <2>7. Replaced(U', U, n, i + 1, v)
    <3>1. Replaced([U EXCEPT ![i + 1] = v], U, n, i + 1, v)
      BY <2>2, ListExcept
    <3>2. QED
      BY <1>1, <3>1, Zenon
  <2>8. Replaced(rOut, rOut, n, i + 1, e)
    BY <2>2, <2>6, Zenon DEF Replaced
  <2>9. CallMade(calls', calls, i, ZeroCall)
    <3>1. CallMade([calls EXCEPT ![i] = Append(calls[i], ZeroCall)], calls, i, ZeroCall)
      BY <2>2, CallsExcept
    <3>2. QED
      BY <1>1, <3>1, Zenon
  <2>0. ZeroCall \in Inputs \cup {ZeroCall} /\ Replaced(U', U, n, i + 1, Mixture(U[i + 1], ZeroCall, i))
    BY <2>5, <2>7, Zenon
  <2>a. Received(T, U', rOut, calls', shipped, rCorr)
    BY <1>4, <2>0, <2>1, <2>6, <2>8, <2>9, CallKeeps
  <2>b. Received(T', U', rOut', calls', shipped', rCorr') /\ T' # <<>>
    BY <1>1, <2>a, Zenon
  <2>c. QED
    BY <1>1, <1>2, <2>b, ReceivedNext
<1>8. QED
  BY <1>0, <1>1, <1>2, <1>5, <1>6, <1>7, StreamSteps

LEMMA ShipKeeps ==
  ASSUME BaseInv, StreamInv, NEW count \in Nat \ {0}, NEW way, Ship(count, way), UNCHANGED baseVars
  PROVE  StreamInv'
<1> DEFINE rows == SubSeq(U, rCorr + 1, rCorr + count)
           v == [way |-> way, rows |-> rows]
           more == [i \in 1 .. count |-> calls[rCorr + i - 1]]
<1>1. /\ T # <<>> /\ rCorr + count <= n /\ net' = Append(net, v)
      /\ rCorr' = rCorr + count /\ shipped' = shipped \o more
      /\ n' = n /\ rBatch' = rBatch /\ sBatch' = sBatch /\ rOut' = rOut /\ sOut' = sOut /\ q' = q
      /\ T' = T /\ U' = U /\ sCorr' = sCorr /\ lost' = lost /\ calls' = calls
  BY Zenon DEF Ship
<1>2. impl' = impl /\ num' = num /\ choices' = choices
  BY DEF baseVars
<1>3. CountsInv /\ ReceiverStream /\ (lost = 0 => SenderStream) /\ CorrectionsInv
  BY Zenon DEF StreamInv
<1>4. PICK a \in Nat, r \in Nat, r1 \in Nat, l \in Nat :
        /\ a = sCorr /\ r = rCorr /\ r1 = rCorr + count /\ l = lost /\ a <= r /\ a + l <= r
        /\ r1 = r + count /\ r1 <= n /\ n \in Nat
  BY <1>1, SenderCounts, SMTT(30)
<1>5. Received(T, U, rOut, calls, shipped, rCorr)
  BY <1>1, <1>3, ReceivedNow
<1>6. /\ IsList(U, n) /\ \A i \in 1 .. n : EncodedAs(U[i], calls[i - 1], i - 1)
      /\ shipped \in [1 .. r -> Seq(Inputs \cup {ZeroCall})]
  BY <1>4, <1>5, Zenon DEF Received
<1>7. IsList(rows, count) /\ \A i \in 1 .. count : rows[i] = U[r + i]
  <2>1. PartOf(SubSeq(U, r + 1, r + count), U, r, count)
    BY <1>4, <1>6, ListPart
  <2>2. PartOf(rows, U, r, count)
    BY <1>4, <2>1, Zenon
  <2> HIDE DEF rows
  <2>3. QED
    BY <2>2, Zenon DEF PartOf
<1>8. v.rows = rows
  OBVIOUS
<1> HIDE DEF rows, v
<1>9. IsList(more, count) /\ \A i \in 1 .. count : more[i] = calls[r + i - 1]
  BY <1>4, Zenon DEF IsList
<1> HIDE DEF more
<1>a. /\ IsList(shipped', r1) /\ \A i \in 1 .. r : shipped'[i] = shipped[i]
      /\ \A i \in 1 .. count : shipped'[r + i] = calls[r + i - 1]
  <2>1. IsList(shipped, r)
    BY <1>6 DEF IsList
  <2>2. Joined(shipped \o more, shipped, r, more, count)
    BY <1>9, <2>1, ListConcat
  <2>3. Joined(shipped', shipped, r, more, count)
    BY <1>1, <2>2, Zenon
  <2>4. /\ IsList(shipped', r + count) /\ \A i \in 1 .. r : shipped'[i] = shipped[i]
        /\ \A i \in 1 .. count : shipped'[r + i] = more[i]
    BY <2>3, Zenon DEF Joined
  <2>5. QED
    BY <1>4, <1>9, <2>4, Zenon
<1>b. ASSUME NEW i \in 1 .. count
      PROVE  EncodedAs(U[r + i], calls[r + i - 1], r + i - 1)
  <2>1. PICK d \in 1 .. n : d = r + i /\ d - 1 = r + i - 1
    BY <1>4
  <2>2. EncodedAs(U[d], calls[d - 1], d - 1)
    BY <1>6
  <2>3. QED
    BY <2>1, <2>2, Zenon
<1>c. ReceiverStream'
  <2>1. ASSUME NEW i \in 1 .. r1 PROVE shipped'[i] \in Seq(Inputs \cup {ZeroCall})
    <3>1. CASE i \in 1 .. r
      <4>1. shipped[i] \in Seq(Inputs \cup {ZeroCall})
        BY <1>6, <3>1, Zenon
      <4>2. QED
        BY <1>a, <3>1, <4>1, Zenon
    <3>2. CASE ~(i \in 1 .. r)
      <4>1. PICK d \in 1 .. count : i = r + d
        <5>1. i - r \in 1 .. count /\ i = r + (i - r)
          BY <1>4, <3>2
        <5>2. QED
          BY <5>1
      <4>2. shipped'[i] = calls[r + d - 1]
        BY <1>a, <4>1, Zenon
      <4>3. calls[r + d - 1] \in Seq(Inputs \cup {ZeroCall})
        BY <1>b, Zenon DEF EncodedAs
      <4>4. QED
        BY <4>2, <4>3, Zenon
    <3>3. QED
      BY <3>1, <3>2
  <2>2. shipped' \in [1 .. r1 -> Seq(Inputs \cup {ZeroCall})]
    <3>1. PICK S, h : S = Seq(Inputs \cup {ZeroCall}) /\ h = shipped'
      OBVIOUS
    <3>2. IsList(h, r1) /\ \A i \in 1 .. r1 : h[i] \in S
      BY <1>a, <2>1, <3>1, Zenon
    <3>3. [i \in 1 .. r1 |-> h[i]] \in [1 .. r1 -> S]
      BY <3>2
    <3>4. h \in [1 .. r1 -> S]
      BY <3>2, <3>3, Zenon DEF IsList
    <3>5. QED
      BY <3>1, <3>4, Zenon
  <2>3. r1 \in 0 .. n
    BY <1>4
  <2>4. Received(T, U, rOut, calls, shipped', r1)
    BY <1>5, <2>2, <2>3, Zenon DEF Received
  <2>5. Received(T', U', rOut', calls', shipped', rCorr') /\ T' # <<>>
    BY <1>1, <1>4, <2>4, Zenon
  <2>6. QED
    BY <1>1, <1>2, <2>5, ReceivedNext
<1>0. CountsInv'
  <2>1. lost = 0 \/ DOMAIN q = 1 .. n
    BY <1>3, Zenon DEF CountsInv
  <2>2. a + l <= r1
    BY <1>4
  <2>3. QED
    BY <1>1, <1>4, <2>1, <2>2, Zenon DEF CountsInv
<1>d. ASSUME lost' = 0 PROVE SenderStream'
  <2>0. SenderStream
    BY <1>1, <1>3, <1>d, Zenon
  <2>1. Answered(q, a, r, shipped)
    BY <1>4, <2>0, AnsweredNow
  <2>2. a \in 0 .. r1 /\ \A i \in 1 .. a : i \in 1 .. r
    BY <1>4
  <2>3. \A i \in 1 .. a : shipped'[i] = shipped[i]
    BY <1>a, <2>2, Zenon
  <2>4. CASE q = <<>>
    <3>1. Answered(q, a, r1, shipped')
      BY <2>1, <2>2, <2>4, Zenon DEF Answered
    <3>2. QED
      BY <1>1, <1>2, <1>4, <3>1, AnsweredNext
  <2>5. CASE q # <<>>
    <3>1. /\ IsList(q, n) /\ \A i \in a + 1 .. n : DrawnRow(q[i], i - 1)
          /\ \A i \in 1 .. a : Len(shipped[i]) = 1 => q[i] = SentRow(Cols, i - 1, CodeOf(shipped[i]))
      BY <2>1, <2>5, Zenon DEF Answered
    <3>2. \A i \in 1 .. a : Len(shipped'[i]) = 1 => q[i] = SentRow(Cols, i - 1, CodeOf(shipped'[i]))
      BY <2>3, <3>1, Zenon
    <3>3. Answered(q, a, r1, shipped')
      BY <2>2, <2>5, <3>1, <3>2, Zenon DEF Answered
    <3>4. QED
      BY <1>1, <1>2, <1>4, <3>3, AnsweredNext
  <2>6. QED
    BY <2>4, <2>5
<1>e. CorrectionsInv'
  <2>0. PICK c : c = sCorr + lost
    OBVIOUS
  <2>1. PICK m, at : Corrections(net, m, at, sCorr + lost, rCorr, shipped)
    BY <1>3, CorrectionsNow
  <2>2. Corrections(net, m, at, c, r, shipped)
    BY <1>4, <2>0, <2>1, Zenon
  <2>3. r <= r1 /\ r1 - r = count
    BY <1>4
  <2>4. ASSUME NEW i \in 1 .. count PROVE EncodedAs(rows[i], shipped'[r + i], r + i - 1)
    BY <1>7, <1>a, <1>b, Zenon
  <2>5. CorrectionRows(rows, r, r1, shipped')
    BY <1>7, <2>3, <2>4, Zenon DEF CorrectionRows
  <2>6. CorrectionRows(v.rows, r, r1, shipped')
    BY <1>8, <2>5, Zenon
  <2>7. \E m1, at1 : Corrections(Append(net, v), m1, at1, c, r1, shipped')
    BY <1>a, <2>2, <2>6, CorrectionJoins
  <2>8. PICK m1, at1 : Corrections(Append(net, v), m1, at1, c, r1, shipped')
    BY <2>7
  <2>9. Corrections(net', m1, at1, sCorr' + lost', rCorr', shipped')
    BY <1>1, <1>4, <2>0, <2>8, Zenon
  <2>a. QED
    BY <1>2, <2>9, CorrectionsNext
<1>f. QED
  BY <1>0, <1>1, <1>2, <1>c, <1>d, <1>e, StreamSteps

\* What every call of RecvCorrection and SetCorrection leaves alone.
ApplyFrame ==
  /\ q # <<>> /\ net # <<>>
  /\ n' = n /\ rBatch' = rBatch /\ sBatch' = sBatch /\ rOut' = rOut /\ sOut' = sOut
  /\ T' = T /\ U' = U /\ rCorr' = rCorr /\ calls' = calls /\ shipped' = shipped

\* The corrections at the head of the queue are those after c rows, h more.
LEMMA HeadCorrection ==
  ASSUME StreamInv, net # <<>>
  PROVE  \E c \in Nat, h \in Nat :
           /\ c = sCorr + lost /\ c + h <= rCorr
           /\ CorrectionRows(Head(net).rows, c, c + h, shipped) /\ Len(Head(net).rows) = h
           /\ \E m1, at1 : Corrections(Tail(net), m1, at1, c + h, rCorr, shipped)
<1>1. PICK c \in Nat, r \in Nat : c = sCorr + lost /\ r = rCorr
  BY SenderCounts
<1>2. PICK m, at : Corrections(net, m, at, c, r, shipped)
  <2>1. CorrectionsInv
    BY Zenon DEF StreamInv
  <2>2. PICK m, at : Corrections(net, m, at, sCorr + lost, rCorr, shipped)
    BY <2>1, CorrectionsNow
  <2>3. Corrections(net, m, at, c, r, shipped)
    BY <1>1, <2>2, Zenon
  <2>4. QED
    BY <2>3
<1>3. PICK a1 \in c .. r :
        /\ CorrectionRows(Head(net).rows, c, a1, shipped)
        /\ \E m1, at1 : Corrections(Tail(net), m1, at1, a1, r, shipped)
  BY <1>2, CorrectionLeaves
<1>4. PICK h \in Nat : h = a1 - c /\ a1 = c + h
  OBVIOUS
<1>5. c + h <= r
  BY <1>4
<1>6. Len(Head(net).rows) = h
  <2>1. IsList(Head(net).rows, h)
    BY <1>3, <1>4, Zenon DEF CorrectionRows
  <2>2. QED
    BY <2>1, ListSeq
<1>7. QED
  BY <1>1, <1>3, <1>4, <1>5, <1>6, Zenon

\* A count that is not that of the rows.
LEMMA RefuseKeeps ==
  ASSUME StreamInv, ApplyFrame, UNCHANGED baseVars, q' = q, sCorr' = sCorr,
         \/ net' = Tail(net) /\ lost' = lost + Len(Head(net).rows)
         \/ net' = net /\ lost' = lost
  PROVE  StreamInv'
<1>1. /\ q # <<>> /\ net # <<>>
      /\ n' = n /\ rBatch' = rBatch /\ sBatch' = sBatch /\ rOut' = rOut /\ sOut' = sOut
      /\ T' = T /\ U' = U /\ rCorr' = rCorr /\ calls' = calls /\ shipped' = shipped
  BY Zenon DEF ApplyFrame
<1>2. impl' = impl /\ num' = num /\ choices' = choices
  BY DEF baseVars
<1>3. CountsInv /\ ReceiverStream /\ (lost = 0 => SenderStream) /\ CorrectionsInv
  BY Zenon DEF StreamInv
<1>4. T # <<>>
  BY <1>1, <1>3, Zenon DEF ReceiverStream
<1>5. ReceiverStream'
  BY <1>1, <1>2, <1>3, <1>4, ReceiverSame
<1>6. CASE net' = net /\ lost' = lost
  <2>1. CountsInv'
    BY <1>1, <1>3, <1>6, CountsSame
  <2>2. lost' = 0 => SenderStream'
    BY <1>1, <1>2, <1>3, <1>6, SenderSame
  <2>3. CorrectionsInv'
    BY <1>1, <1>2, <1>3, <1>6, CorrectionsSame
  <2>4. QED
    BY <1>1, <1>2, <1>5, <2>1, <2>2, <2>3, StreamSteps
<1>7. CASE net' = Tail(net) /\ lost' = lost + Len(Head(net).rows)
  <2>1. PICK c \in Nat, h \in Nat :
           /\ c = sCorr + lost /\ c + h <= rCorr /\ Len(Head(net).rows) = h
           /\ \E m1, at1 : Corrections(Tail(net), m1, at1, c + h, rCorr, shipped)
    BY <1>1, HeadCorrection
  <2>2. PICK a \in Nat, l \in Nat : a = sCorr /\ l = lost /\ c = a + l
    BY <2>1, SenderCounts
  <2>3. lost' = l + h /\ sCorr' = a
    BY <1>7, <2>1, <2>2, Zenon
  <2>4. sCorr' + lost' = c + h /\ lost' \in Nat /\ sCorr' \in Nat
    BY <2>2, <2>3
  <2>5. lost' = 0 \/ DOMAIN q' = 1 .. n'
    <3>1. CASE lost = 0
      <4>1. Answered(q, sCorr, rCorr, shipped)
        BY <1>3, <3>1, AnsweredNow
      <4>2. DOMAIN q = 1 .. n
        BY <1>1, <4>1, Zenon DEF Answered, IsList
      <4>3. QED
        BY <1>1, <4>2, Zenon
    <3>2. CASE lost # 0
      BY <1>1, <1>3, <3>2, Zenon DEF CountsInv
    <3>3. QED
      BY <3>1, <3>2
  <2>6. CountsInv'
    BY <1>1, <2>1, <2>4, <2>5, Zenon DEF CountsInv
  <2>7. CorrectionsInv'
    <3>1. PICK m1, at1 : Corrections(Tail(net), m1, at1, c + h, rCorr, shipped)
      BY <2>1
    <3>2. Corrections(net', m1, at1, sCorr' + lost', rCorr', shipped')
      BY <1>1, <1>7, <2>4, <3>1, Zenon
    <3>3. QED
      BY <1>2, <3>2, CorrectionsNext
  <2>8. lost' = 0 => SenderStream'
    <3>1. SUFFICES ASSUME lost' = 0 PROVE SenderStream'
      BY Zenon
    <3>2. l = 0
      BY <2>3, <3>1
    <3>3. lost = 0 /\ lost' = lost
      BY <2>2, <3>1, <3>2, Zenon
    <3>4. lost' = 0 => SenderStream'
      BY <1>1, <1>2, <1>3, <3>3, SenderSame
    <3>5. QED
      BY <3>1, <3>4, Zenon
  <2>9. QED
    BY <1>1, <1>2, <1>5, <2>6, <2>7, <2>8, StreamSteps
<1>8. QED
  BY <1>6, <1>7

LEMMA AcceptKeeps ==
  ASSUME StreamInv, ApplyFrame, UNCHANGED baseVars,
         NEW rows, rows = Head(net).rows, q' = CalcQ(rows, sCorr, Len(rows)),
         sCorr' = sCorr + Len(rows), net' = Tail(net), lost' = lost
  PROVE  StreamInv'
<1>1. /\ q # <<>> /\ net # <<>>
      /\ n' = n /\ rBatch' = rBatch /\ sBatch' = sBatch /\ rOut' = rOut /\ sOut' = sOut
      /\ T' = T /\ U' = U /\ rCorr' = rCorr /\ calls' = calls /\ shipped' = shipped
  BY Zenon DEF ApplyFrame
<1>2. impl' = impl /\ num' = num /\ choices' = choices
  BY DEF baseVars
<1>3. CountsInv /\ ReceiverStream /\ (lost = 0 => SenderStream) /\ CorrectionsInv
  BY Zenon DEF StreamInv
<1>4. PICK a \in Nat, r \in Nat, l \in Nat :
        /\ a = sCorr /\ r = rCorr /\ l = lost /\ a + l <= r /\ r <= n /\ n \in Nat
  BY SenderCounts
<1>5. T # <<>>
  BY <1>1, <1>3, Zenon DEF ReceiverStream
<1>6. PICK e \in Nat, c \in Nat :
        /\ e = sCorr + lost /\ e + c <= rCorr
        /\ CorrectionRows(Head(net).rows, e, e + c, shipped) /\ Len(Head(net).rows) = c
        /\ \E m1, at1 : Corrections(Tail(net), m1, at1, e + c, rCorr, shipped)
  BY <1>1, HeadCorrection
<1>a. Len(rows) = c
  BY <1>6, Zenon
<1>7. e = a + l /\ e + c <= r
  BY <1>4, <1>6, Zenon
<1>8. PICK a1 \in Nat : a1 = a + c /\ a1 <= n /\ a1 <= r /\ a <= a1 /\ a1 + l = e + c
  <2>1. a + c \in Nat /\ a + c <= n /\ a + c <= r /\ a <= a + c /\ (a + c) + l = e + c
    BY <1>4, <1>7
  <2>2. QED
    BY <2>1
<1>b. sCorr' = a1
  BY <1>1, <1>4, <1>8, <1>a, Zenon
<1>0. CountsInv'
  <2>1. DOMAIN q' = DOMAIN q
    BY Zenon DEF CalcQ
  <2>2. lost = 0 \/ DOMAIN q = 1 .. n
    BY <1>3, Zenon DEF CountsInv
  <2>3. a1 + l <= r
    BY <1>7, <1>8
  <2>4. QED
    BY <1>1, <1>4, <1>b, <2>1, <2>2, <2>3, Zenon DEF CountsInv
<1>e. ASSUME lost' = 0 PROVE SenderStream'
  <2>0. SenderStream /\ e = a
    <3>1. SenderStream /\ l = 0
      BY <1>3, <1>4, <1>e, Zenon
    <3>2. QED
      BY <1>7, <3>1
  <2>9. IsList(rows, c) /\ \A i \in 1 .. c : EncodedAs(rows[i], shipped[a + i], a + i - 1)
    <3>1. CorrectionRows(rows, a, a1, shipped) /\ a1 - a = c
      <4>1. CorrectionRows(rows, e, e + c, shipped)
        BY <1>6, Zenon
      <4>2. QED
        BY <1>8, <2>0, <4>1
    <3>2. QED
      BY <3>1, Zenon DEF CorrectionRows
  <2>c. /\ IsList(q, n) /\ \A i \in a + 1 .. n : DrawnRow(q[i], i - 1)
        /\ \A i \in 1 .. a : Len(shipped[i]) = 1 => q[i] = SentRow(Cols, i - 1, CodeOf(shipped[i]))
    <3>1. Answered(q, a, r, shipped)
      BY <1>4, <2>0, AnsweredNow
    <3>2. QED
      BY <1>1, <3>1, Zenon DEF Answered
  <2>d. q' = [i \in 1 .. n |-> IF i \in a + 1 .. a + c
                               THEN XorWord(q[i], AndMask(rows[i - a], choices)) ELSE q[i]]
    <3>1. DOMAIN q = 1 .. n
      BY <2>c, Zenon DEF IsList
    <3>2. QED
      BY <1>1, <1>4, <1>a, <3>1, Zenon DEF CalcQ
  <2>1. IsList(q', n) /\ q' # <<>>
    <3>1. IsList(q', n)
      BY <2>d, Zenon DEF IsList
    <3>2. PICK p : p = q'
      OBVIOUS
    <3>3. DOMAIN p = 1 .. n
      BY <3>1, <3>2, Zenon DEF IsList
    <3>4. 1 \in 1 .. n
      <4>1. n # 0
        BY SenderCounts
      <4>2. QED
        BY <1>4, <4>1
    <3>5. p # <<>>
      <4>1. 1 \in DOMAIN p
        BY <3>3, <3>4, Zenon
      <4>2. QED
        BY <4>1
    <3>6. QED
      BY <3>1, <3>2, <3>5, Zenon
  <2>2. ASSUME NEW i \in a1 + 1 .. n PROVE DrawnRow(q'[i], i - 1)
    <3>1. i \in 1 .. n /\ i \in a + 1 .. n /\ ~(i \in a + 1 .. a + c)
      BY <1>4, <1>8
    <3>2. q'[i] = q[i]
      BY <2>d, <3>1, Zenon
    <3>3. QED
      BY <2>c, <3>1, <3>2, Zenon
  <2>3. ASSUME NEW i \in 1 .. a1, Len(shipped[i]) = 1
        PROVE  q'[i] = SentRow(Cols, i - 1, CodeOf(shipped[i]))
    <3>1. CASE i \in 1 .. a
      <4>1. i \in 1 .. n /\ ~(i \in a + 1 .. a + c)
        BY <1>4, <1>8, <3>1
      <4>2. q'[i] = q[i]
        BY <2>d, <4>1, Zenon
      <4>3. QED
        BY <2>c, <2>3, <3>1, <4>2, Zenon
    <3>2. CASE ~(i \in 1 .. a)
      <4>1. /\ i \in 1 .. n /\ i \in a + 1 .. a + c /\ i \in a + 1 .. n
            /\ i - a \in 1 .. c /\ a + (i - a) = i
        BY <1>4, <1>8, <3>2
      <4>2. PICK d \in 1 .. c : d = i - a /\ a + d = i /\ a + d - 1 = i - 1
        BY <4>1
      <4>3. q'[i] = XorWord(q[i], AndMask(rows[d], choices))
        BY <2>d, <4>1, <4>2, Zenon
      <4>4. EncodedAs(rows[d], shipped[i], i - 1)
        BY <2>9, <4>2, Zenon
      <4>5. PICK u, j, s : u = rows[d] /\ j = i - 1 /\ s = shipped[i]
        OBVIOUS
      <4>6. CodedRow(u, CodeOf(s), j)
        BY <2>3, <4>4, <4>5, Zenon DEF EncodedAs, CodedRow
      <4>7. DrawnRow(q[i], j)
        BY <2>c, <4>1, <4>5, Zenon
      <4>8. XorWord(q[i], AndMask(u, choices)) = SentRow(Cols, j, CodeOf(s))
        BY <4>6, <4>7, MixRow
      <4>9. QED
        BY <4>3, <4>5, <4>8, Zenon
    <3>3. QED
      BY <3>1, <3>2
  <2>4. a1 \in 0 .. r
    BY <1>4, <1>8
  <2>5. Answered(q', a1, r, shipped)
    BY <2>1, <2>2, <2>3, <2>4, Zenon DEF Answered
  <2>6. Answered(q', sCorr', rCorr', shipped')
    BY <1>1, <1>4, <1>b, <2>5, Zenon
  <2>7. QED
    BY <1>1, <1>2, <2>6, AnsweredNext
<1>f. ReceiverStream'
  BY <1>1, <1>2, <1>3, <1>5, ReceiverSame
<1>g. CorrectionsInv'
  <2>1. PICK m1, at1 : Corrections(Tail(net), m1, at1, e + c, rCorr, shipped)
    BY <1>6
  <2>2. Corrections(net', m1, at1, sCorr' + lost', rCorr', shipped')
    BY <1>1, <1>4, <1>6, <1>8, <1>b, <2>1, Zenon
  <2>3. QED
    BY <1>2, <2>2, CorrectionsNext
<1>h. QED
  BY <1>0, <1>1, <1>2, <1>e, <1>f, <1>g, StreamSteps

LEMMA ApplyKeeps ==
  ASSUME BaseInv, StreamInv, NEW way, NEW recv_count, Apply(way, recv_count), UNCHANGED baseVars
  PROVE  StreamInv'
<1>1. ApplyFrame
  BY Zenon DEF Apply, ApplyFrame
<1>2. PICK rows : rows = Head(net).rows
  OBVIOUS
<1>3. CASE /\ Len(rows) = recv_count /\ q' = CalcQ(rows, sCorr, recv_count)
           /\ sCorr' = sCorr + recv_count /\ net' = Tail(net) /\ lost' = lost
  <2>1. q' = CalcQ(rows, sCorr, Len(rows)) /\ sCorr' = sCorr + Len(rows)
    BY <1>3, Zenon
  <2>2. QED
    BY <1>1, <1>2, <1>3, <2>1, AcceptKeeps
<1>4. CASE /\ \/ net' = Tail(net) /\ lost' = lost + Len(Head(net).rows)
              \/ net' = net /\ lost' = lost
           /\ q' = q /\ sCorr' = sCorr
  BY <1>1, <1>4, RefuseKeeps
<1>5. QED
  BY <1>2, <1>3, <1>4, Zenon DEF Apply

LEMMA StreamKeeps ==
  ASSUME BaseInv, StreamInv, StreamNext, UNCHANGED baseVars
  PROVE  StreamInv'
<1>1. CASE SenderInit
  BY <1>1, SenderInitKeeps
<1>2. CASE ReceiverInit
  BY <1>2, ReceiverInitKeeps
<1>3. ASSUME NEW count \in Counts, RecvCorrection(count) \/ SetCorrection(count)
      PROVE  StreamInv'
  <2>1. PICK way : Apply(way, count)
    BY <1>3, Zenon DEF RecvCorrection, SetCorrection
  <2>2. QED
    BY <2>1, ApplyKeeps
<1>4. ASSUME NEW i \in CallRows \cap 0 .. n - 1, ZeroEncode(i) PROVE StreamInv'
  BY <1>4, ZeroEncodeKeeps
<1>5. ASSUME NEW i \in CallRows \cap 0 .. n - 1, NEW y \in Inputs, Encode(i, y) PROVE StreamInv'
  BY <1>5, EncodeKeeps
<1>6. ASSUME NEW count \in Counts, SendCorrection(count) \/ ShiftCorrection(count)
      PROVE  StreamInv'
  <2>1. PICK way : Ship(count, way)
    BY <1>6, Zenon DEF SendCorrection, ShiftCorrection
  <2>2. count \in Nat \ {0}
    BY OtAssumption
  <2>3. QED
    BY <2>1, <2>2, ShipKeeps
<1>7. QED
  BY <1>1, <1>2, <1>3, <1>4, <1>5, <1>6, Zenon DEF StreamNext

\* The sender's PRF takes the receiver's value where the only call says.
LEMMA EvalCalled ==
  ASSUME choices \subseteq Cols, NEW j, NEW s \in Seq(Inputs \cup {ZeroCall}), Len(s) = 1,
         NEW y \in Inputs
  PROVE  PrfRow(SentRow(Cols, j, CodeOf(s)), y) = PadRow(Cols, j) <=> <<y>> = s \/ choices = {}
<1>1. s = <<s[1]>>
  OBVIOUS
<1>2. PICK e : e = s[1]
  OBVIOUS
<1>3. y # ZeroCall
  BY OtAssumption DEF ZeroCall
<1>4. <<y>> = s <=> y = e
  BY <1>1, <1>2
<1>5. CASE e = ZeroCall
  <2>1. PICK code : code = CodeOf(s) /\ \A c \in Cols : code[c] = {}
    <3>1. CodeOf(s) = [c \in Cols |-> {}]
      BY <1>2, <1>5, Zenon DEF CodeOf
    <3>2. \A c \in Cols : CodeOf(s)[c] = {}
      BY <3>1, Zenon
    <3>3. QED
      BY <3>2
  <2>2. PrfRow(SentRow(Cols, j, code), y) = PadRow(Cols, j)
          <=> \A c \in choices : code[c] = Prc(y)[c]
    BY EvalIs
  <2>3. ASSUME NEW c \in choices PROVE code[c] # Prc(y)[c]
    <3>1. c \in Cols /\ Prc(y)[c] = {<<"prc", y, c>>}
      BY Zenon DEF Prc
    <3>2. QED
      BY <2>1, <3>1, Zenon
  <2>4. QED
    BY <1>3, <1>4, <1>5, <2>1, <2>2, <2>3, Zenon
<1>6. CASE e # ZeroCall
  <2>1. CodeOf(s) = Prc(e)
    BY <1>2, <1>6, Zenon DEF CodeOf
  <2>2. PrfRow(SentRow(Cols, j, Prc(e)), y) = PadRow(Cols, j) <=> y = e \/ choices = {}
    BY EvalCoded
  <2>3. QED
    BY <1>4, <2>1, <2>2, Zenon
<1>7. QED
  BY <1>5, <1>6

LEMMA StreamPadsFresh ==
  ASSUME n \in Nat, Received(T, U, rOut, calls, shipped, rCorr)
  PROVE  PadsFresh
<1>1. /\ T = [i \in 1 .. n |-> PadRow(Cols, i - 1)]
      /\ \A i \in 1 .. n : EncodedAs(U[i], calls[i - 1], i - 1)
      /\ IsList(rOut, n) /\ \A i \in 1 .. n : rOut[i] \in {NoBlock, Hash(T[i])}
  BY Zenon DEF Received
<1>2. DOMAIN T = 1 .. n /\ DOMAIN rOut = 1 .. n
  BY <1>1, Zenon DEF IsList
<1>3. 0 \in Cols
  BY ColsAre
<1>4. \A i \in 1 .. n : T[i] = PadRow(Cols, i - 1)
  BY <1>1, Zenon
<1>5. ASSUME NEW i \in 1 .. n, NEW j \in 1 .. n, T[i] = T[j] PROVE i = j
  <2>1. PICK a \in Nat, b \in Nat : a = i - 1 /\ b = j - 1
    OBVIOUS
  <2>2. PadRow(Cols, a) = PadRow(Cols, b)
    BY <1>4, <1>5, <2>1, Zenon
  <2>3. a = b
    BY <1>3, <2>2, RowsFresh
  <2>4. QED
    BY <2>1, <2>3
<1>6. ASSUME NEW i \in 1 .. n, NEW j \in 1 .. n, rOut[i] = rOut[j], rOut[i] # NoBlock PROVE i = j
  <2>1. Hash(T[i]) = Hash(T[j])
    BY <1>1, <1>6, Zenon
  <2>2. T[i] = T[j]
    BY <2>1, HashInjective
  <2>3. QED
    BY <1>5, <2>2
<1>0. \A i \in 1 .. n : i <= n
  OBVIOUS
<1>7. ASSUME NEW i \in 1 .. n PROVE T[i] # Garbage /\ U[i] # Garbage
  <2>1. PICK j, k : j = i - 1 /\ Garbage[0] = {k} /\ k = <<"uninitialised", 0>>
    BY <1>3, Zenon DEF Garbage
  <2>2. \A b : \E g, d, f : PadBit(0, b, j) = {<<"prg", g, d, f>>}
    BY Zenon DEF PadBit
  <2>3. \A g, d, f : <<"prg", g, d, f>> # k
    BY <2>1
  <2>4. \A b : k \notin PadBit(0, b, j) /\ \E e : e \in PadBit(0, b, j)
    BY <2>2, <2>3, Zenon
  <2>5. T[i][0] = PadBit(0, 0, j)
    BY <1>3, <1>4, <2>1, Zenon DEF PadRow
  <2>6. PadBit(0, 1, j) \subseteq U[i][0]
    BY <1>1, <1>3, <2>1, Zenon DEF EncodedAs
  <2>7. T[i][0] # {k}
    BY <2>4, <2>5, Zenon
  <2>8. U[i][0] # {k}
    BY <2>4, <2>6, Zenon
  <2>9. QED
    BY <2>1, <2>7, <2>8, Zenon
<1>8. QED
  BY <1>0, <1>2, <1>5, <1>6, <1>7, Zenon DEF PadsFresh

LEMMA StreamInvCorrect ==
  ASSUME StreamInv
  PROVE  ExtensionCorrect
<1>1. /\ choices \subseteq Cols /\ sBatch = 0 /\ sOut = <<>>
      /\ ReceiverStream /\ (lost = 0 => SenderStream)
  BY Zenon DEF StreamInv
<1>2. PICK a \in Nat, r \in Nat : a = sCorr /\ r = rCorr /\ a <= r /\ r <= n /\ n \in Nat
  BY SenderCounts
<1>3. DOMAIN sOut = {} /\ ~(sBatch > 0)
  BY <1>1
<1>4. IknpCorrect /\ KkrtCorrect
  BY <1>3, Zenon DEF IknpCorrect, KkrtCorrect
<1>5. CASE T = <<>>
  <2>1. sCorr = 0 /\ rOut = <<>>
    BY <1>1, <1>5, Zenon DEF ReceiverStream, StreamIdle
  <2>2. 1 .. sCorr = {} /\ DOMAIN rOut = {} /\ DOMAIN T = {}
    BY <1>5, <2>1
  <2>3. StreamCorrect /\ PadsFresh
    BY <2>2, Zenon DEF StreamCorrect, PadsFresh
  <2>4. QED
    BY <1>4, <2>3, Zenon DEF ExtensionCorrect
<1>6. CASE T # <<>>
  <2>1. Received(T, U, rOut, calls, shipped, rCorr)
    BY <1>1, <1>6, ReceivedNow
  <2>2. PadsFresh
    BY <1>2, <2>1, StreamPadsFresh
  <2>3. ASSUME lost = 0 PROVE Answered(q, a, r, shipped)
    <3>1. SenderStream
      BY <1>1, <2>3, Zenon
    <3>2. QED
      BY <1>2, <3>1, AnsweredNow
  <2>4. ASSUME lost = 0, NEW i \in 1 .. a, Len(shipped[i]) = 1, NEW y \in Inputs
        PROVE  (Eval(i - 1, y) = Hash(T[i])) <=> (<<y>> = shipped[i] \/ choices = {})
    <3>1. i \in 1 .. n /\ i \in 1 .. r /\ (i - 1) + 1 = i /\ a # 0
      BY <1>2
    <3>2. q[i] = SentRow(Cols, i - 1, CodeOf(shipped[i]))
      BY <2>3, <2>4, <3>1, Zenon DEF Answered
    <3>3. T[i] = PadRow(Cols, i - 1)
      BY <2>1, <3>1, Zenon DEF Received
    <3>4. PICK s : s = shipped[i] /\ s \in Seq(Inputs \cup {ZeroCall})
      BY <1>2, <2>1, <3>1, Zenon DEF Received
    <3>5. Eval(i - 1, y) = Hash(PrfRow(q[i], y))
      BY <3>1, Zenon DEF Eval, PrfRow
    <3>6. PrfRow(SentRow(Cols, i - 1, CodeOf(s)), y) = PadRow(Cols, i - 1) <=> <<y>> = s \/ choices = {}
      BY <1>1, <2>4, <3>4, EvalCalled
    <3>7. Hash(PrfRow(q[i], y)) = Hash(PadRow(Cols, i - 1)) <=> PrfRow(q[i], y) = PadRow(Cols, i - 1)
      BY HashInjective, Zenon
    <3>8. QED
      BY <3>2, <3>3, <3>4, <3>5, <3>6, <3>7, Zenon
  <2>5. StreamCorrect
    BY <1>2, <2>4, Zenon DEF StreamCorrect
  <2>6. QED
    BY <1>4, <2>2, <2>5, Zenon DEF ExtensionCorrect
<1>7. QED
  BY <1>5, <1>6

-----------------------------------------------------------------------------
(* The extensions, whichever runs.                                         *)

LEMMA ExtInvIs ==
  ExtInv <=> /\ proto = "iknp" => IknpInv
             /\ proto = "kkrt" => KkrtInv
             /\ proto = "stream" => StreamInv
             /\ proto \notin {"iknp", "kkrt", "stream"} => ExtIdle
<1>1. "iknp" # "kkrt" /\ "iknp" # "stream" /\ "kkrt" # "stream"
  OBVIOUS
<1>2. QED
  BY <1>1, Zenon DEF ExtInv

LEMMA ExtKept ==
  ASSUME UNCHANGED extVars, impl' = impl, num' = num, choices' = choices
  PROVE  /\ IknpInv => IknpInv'
         /\ KkrtInv => KkrtInv'
         /\ StreamInv => StreamInv'
         /\ ExtIdle => ExtIdle'
<1>1. /\ sse2' = sse2 /\ n' = n /\ inputs' = inputs /\ rBatch' = rBatch /\ sBatch' = sBatch
      /\ net' = net /\ rOut' = rOut /\ sOut' = sOut /\ q' = q /\ T' = T /\ U' = U
      /\ rCorr' = rCorr /\ sCorr' = sCorr /\ lost' = lost /\ calls' = calls
      /\ shipped' = shipped
  BY DEF extVars
<1>2. StreamIdle => StreamIdle'
  BY <1>1, Zenon DEF StreamIdle
<1>3. \A i : Reached(i)' = Reached(i)
  BY <1>1, Zenon DEF Reached
<1>4. ASSUME IknpInv PROVE IknpInv'
  <2>1. \A j : IknpMessage(j)' = IknpMessage(j) /\ IknpPair(j)' = IknpPair(j)
               /\ PadRow(Bits, j)' = PadRow(Bits, j)
    BY <1>1, IknpSame
  <2>2. Reached(rBatch)' = Reached(rBatch) /\ Reached(sBatch)' = Reached(sBatch)
    BY <1>1, Zenon DEF Reached
  <2>3. (\A i \in sBatch .. rBatch - 1 : net[i - sBatch + 1] = IknpMessage(i))'
    BY <1>1, <1>4, <2>1, Zenon DEF IknpInv
  <2>4. /\ (rOut = [j \in 1 .. Reached(rBatch) |-> Hash(PadRow(Bits, j - 1))])'
        /\ (sOut = [j \in 1 .. Reached(sBatch) |-> IknpPair(j - 1)])'
    BY <1>1, <1>4, <2>1, <2>2, Zenon DEF IknpInv
  <2>5. QED
    BY <1>1, <1>2, <1>4, <2>3, <2>4, Zenon DEF IknpInv
<1>5. ASSUME KkrtInv PROVE KkrtInv'
  <2>1. \A j : KkrtWord(j)' = KkrtWord(j) /\ KkrtRow(j)' = KkrtRow(j)
               /\ PadRow(Cols, j)' = PadRow(Cols, j)
    BY <1>1, KkrtSame
  <2>2. Reached(rBatch)' = Reached(rBatch) /\ Reached(sBatch)' = Reached(sBatch)
    BY <1>1, Zenon DEF Reached
  <2>3. (\A i \in sBatch .. rBatch - 1, k \in Bits :
           LET j == i * kBatchSize + k
           IN  j < n => net[i - sBatch + 1][k]
                          = [c \in Cols |-> SymDiff(MixedBit(c, j), Prc(inputs[j])[c])])'
    <3>1. \A i \in sBatch .. rBatch - 1, k \in Bits :
            i * kBatchSize + k < n => net[i - sBatch + 1][k] = KkrtWord(i * kBatchSize + k)
      BY <1>5, Zenon DEF KkrtInv, KkrtWord
    <3>2. \A i, k : KkrtWord(i * kBatchSize + k)' = KkrtWord(i * kBatchSize + k)
      BY <2>1, Zenon
    <3>3. ASSUME NEW i \in sBatch' .. rBatch' - 1, NEW k \in Bits, i * kBatchSize + k < n'
          PROVE  net'[i - sBatch' + 1][k] = KkrtWord(i * kBatchSize + k)'
      <4>1. i \in sBatch .. rBatch - 1 /\ i * kBatchSize + k < n
        BY <1>1, <3>3, Zenon
      <4>2. net[i - sBatch + 1][k] = KkrtWord(i * kBatchSize + k)
        BY <3>1, <4>1, Zenon
      <4>3. QED
        BY <1>1, <3>2, <4>2, Zenon
    <3>4. QED
      BY <3>3, Zenon DEF KkrtWord
  <2>4. /\ (rOut = [j \in 1 .. Reached(rBatch) |-> Hash(PadRow(Cols, j - 1))])'
        /\ (q = [j \in 1 .. Reached(sBatch) |-> KkrtRow(j - 1)])'
    BY <1>1, <1>5, <2>1, <2>2, Zenon DEF KkrtInv, KkrtRow
  <2>5. (q = [j \in 1 .. Reached(sBatch) |-> SentRow(Cols, j - 1, Prc(inputs[j - 1]))])'
    BY <2>4, Zenon DEF KkrtRow
  <2>6. QED
    BY <1>1, <1>2, <1>5, <2>3, <2>4, <2>5, Zenon DEF KkrtInv
<1>6. ASSUME StreamInv PROVE StreamInv'
  <2>1. CountsInv /\ ReceiverStream /\ (lost = 0 => SenderStream) /\ CorrectionsInv
    BY <1>6, Zenon DEF StreamInv
  <2>0. CountsInv'
    BY <1>1, <2>1, CountsSame
  <2>2. ReceiverStream'
    BY <1>1, <2>1, ReceiverSame
  <2>3. lost' = 0 => SenderStream'
    BY <1>1, <2>1, SenderSame
  <2>4. CorrectionsInv'
    BY <1>1, <2>1, CorrectionsSame
  <2>5. QED
    BY <1>1, <1>6, <2>0, <2>2, <2>3, <2>4, StreamSteps
<1>7. ExtIdle => ExtIdle'
  BY <1>1, Zenon DEF ExtIdle, ExtInit
<1>8. QED
  BY <1>4, <1>5, <1>6, <1>7

LEMMA ExtInitInv ==
  ASSUME Init
  PROVE  ExtInv
<1>1. ASSUME NEW p, NEW width, NEW sizes, NEW ins, NEW cpus,
             InitExtension(p, width, sizes, ins, cpus)
      PROVE  /\ proto = p /\ num = width /\ choices \in ChoiceSets(width) /\ n \in sizes
             /\ rBatch = 0 /\ sBatch = 0
             /\ net = <<>> /\ rOut = <<>> /\ sOut = <<>> /\ q = <<>> /\ StreamIdle
  <2>1. proto = p
    BY <1>1, Zenon DEF InitExtension
  <2>2. PICK c \in ChoiceSets(width) : BaseInit(BothX86, width, c)
    BY <1>1, Zenon DEF InitExtension
  <2>3. num = width /\ choices = c
    BY <2>2, Zenon DEF BaseInit
  <2>4. PICK m \in sizes, in \in ins, cpu \in cpus : ExtInit(cpu, m, in)
    BY <1>1, Zenon DEF InitExtension
  <2>5. QED
    BY <2>1, <2>2, <2>3, <2>4, Zenon DEF ExtInit, StreamIdle
<1>2. \A m \in Nat : n = m => Reached(0) = 0
  <2>1. kBatchSize \in Nat
    BY KappaNat
  <2>2. 0 * kBatchSize = 0
    BY <2>1
  <2>3. ASSUME NEW m \in Nat PROVE Min({m, 0}) = 0
    BY MinPair
  <2>4. QED
    BY <2>2, <2>3, Zenon DEF Reached
<1>3. /\ 0 - 1 + 1 = 0 /\ 0 .. 0 - 1 = {} /\ 0 \in Nat /\ 0 \in 0 .. 0 /\ 0 - 0 = 0
      /\ 1 .. 0 = {} /\ DOMAIN <<>> = {}
  OBVIOUS
<1>4. \A f : f = <<>> => f = [i \in 1 .. 0 |-> f[i]]
  OBVIOUS
<1>5. CASE InitExtension("iknp", kKappa, NumOts, InputVectors, {TRUE})
  <2>1. /\ proto = "iknp" /\ num = kKappa /\ choices \in ChoiceSets(kKappa) /\ n \in NumOts
        /\ rBatch = 0 /\ sBatch = 0
        /\ net = <<>> /\ rOut = <<>> /\ sOut = <<>> /\ q = <<>> /\ StreamIdle
    BY <1>1, <1>5
  <2>2. n \in Nat /\ choices \subseteq Bits
    BY <2>1, TwoPartyAssumption
  <2>3. Reached(rBatch) = 0 /\ Reached(sBatch) = 0
    BY <1>2, <2>1, <2>2, Zenon
  <2>4. net = [i \in 1 .. rBatch - sBatch |-> net[i]]
    BY <1>3, <1>4, <2>1, Zenon
  <2>5. /\ rOut = [j \in 1 .. Reached(rBatch) |-> Hash(PadRow(Bits, j - 1))]
        /\ sOut = [j \in 1 .. Reached(sBatch) |-> IknpPair(j - 1)]
    BY <2>1, <2>3
  <2>6. IknpInv
    BY <1>3, <2>1, <2>2, <2>4, <2>5, Zenon DEF IknpInv
  <2>7. QED
    BY <2>1, <2>6, ExtInvIs
<1>6. CASE InitExtension("kkrt", kKkrtWidth * kKappa, NumOts, InputVectors, BOOLEAN)
  <2>1. /\ proto = "kkrt" /\ num = kKkrtWidth * kKappa
        /\ choices \in ChoiceSets(kKkrtWidth * kKappa) /\ n \in NumOts
        /\ rBatch = 0 /\ sBatch = 0
        /\ net = <<>> /\ rOut = <<>> /\ sOut = <<>> /\ q = <<>> /\ StreamIdle
    BY <1>1, <1>6
  <2>2. n \in Nat /\ choices \subseteq Cols
    BY <2>1, TwoPartyAssumption
  <2>3. Reached(rBatch) = 0 /\ Reached(sBatch) = 0
    BY <1>2, <2>1, <2>2, Zenon
  <2>4. net = [i \in 1 .. rBatch - sBatch |-> net[i]]
    BY <1>3, <1>4, <2>1, Zenon
  <2>5. /\ rOut = [j \in 1 .. Reached(rBatch) |-> Hash(PadRow(Cols, j - 1))]
        /\ q = [j \in 1 .. Reached(sBatch) |-> SentRow(Cols, j - 1, Prc(inputs[j - 1]))]
    BY <2>1, <2>3
  <2>6. KkrtInv
    BY <1>3, <2>1, <2>2, <2>4, <2>5, Zenon DEF KkrtInv
  <2>7. QED
    BY <2>1, <2>6, ExtInvIs
<1>7. CASE InitExtension("stream", kKkrtWidth * kKappa, StreamOts, {<<>>}, {TRUE})
  <2>1. /\ proto = "stream" /\ num = kKkrtWidth * kKappa
        /\ choices \in ChoiceSets(kKkrtWidth * kKappa) /\ n \in StreamOts
        /\ rBatch = 0 /\ sBatch = 0
        /\ net = <<>> /\ rOut = <<>> /\ sOut = <<>> /\ q = <<>> /\ StreamIdle
    BY <1>1, <1>7
  <2>2. n \in Nat \ {0} /\ choices \subseteq Cols
    BY <2>1, TwoPartyAssumption
  <2>3. T = <<>> /\ rCorr = 0 /\ sCorr = 0 /\ lost = 0
    BY <2>1, Zenon DEF StreamIdle
  <2>4. ReceiverStream /\ SenderStream
    BY <1>3, <2>1, <2>3, Zenon DEF ReceiverStream, SenderStream
  <2>0. CountsInv
    <3>1. 0 \in Nat /\ 0 + 0 <= 0
      OBVIOUS
    <3>2. QED
      BY <2>3, <3>1, Zenon DEF CountsInv
  <2>5. CorrectionsInv
    <3>0. 0 + 0 = 0
      OBVIOUS
    <3>1. Len(net) = 0
      BY <2>1
    <3>2. PICK at : at = [k \in 1 .. 1 |-> 0]
      OBVIOUS
    <3>3. at \in [1 .. 0 + 1 -> 0 .. 0] /\ at[1] = 0 /\ at[0 + 1] = 0
      BY <3>2
    <3>4. net = [k \in 1 .. 0 |-> net[k]]
      BY <1>4, <2>1, Zenon
    <3>5. QED
      BY <1>3, <2>3, <3>0, <3>1, <3>3, <3>4, Zenon DEF CorrectionsInv
  <2>6. StreamInv
    BY <2>0, <2>1, <2>2, <2>4, <2>5, Zenon DEF StreamInv
  <2>7. QED
    BY <2>1, <2>6, ExtInvIs
<1>8. CASE InitPunctured \/ InitDpf
  <2>1. ExtIdle /\ (proto = "punctured" \/ proto = "dpf")
    BY <1>8, Zenon DEF InitPunctured, InitDpf
  <2>2. QED
    BY <2>1, ExtInvIs
<1>9. QED
  BY <1>5, <1>6, <1>7, <1>8, Zenon DEF Init

LEMMA BaseKeepsImpl ==
  ASSUME BaseNext
  PROVE  impl' = impl
<1>1. CASE SendS \/ RecvS
  BY <1>1 DEF SendS, RecvS
<1>2. CASE X86AsmRecv \/ PortableRecv
  BY <1>2 DEF X86AsmRecv, PortableRecv, ReceiverRound
<1>3. CASE X86AsmSend \/ PortableSend
  BY <1>3 DEF X86AsmSend, PortableSend, SenderRound
<1>4. QED
  BY <1>1, <1>2, <1>3 DEF BaseNext

LEMMA ExtNextInv ==
  ASSUME BaseInv, ExtInv, [Next]_vars
  PROVE  ExtInv'
<1>1. ASSUME proto' = proto, UNCHANGED extVars, impl' = impl, num' = num, choices' = choices
      PROVE  ExtInv'
  <2>1. /\ proto' = "iknp" => IknpInv'
        /\ proto' = "kkrt" => KkrtInv'
        /\ proto' = "stream" => StreamInv'
        /\ proto' \notin {"iknp", "kkrt", "stream"} => ExtIdle'
    BY <1>1, ExtKept, ExtInvIs
  <2>2. QED
    BY <2>1, Zenon DEF ExtInv
<1>2. CASE UNCHANGED vars
  <2>1. proto' = proto /\ UNCHANGED extVars /\ UNCHANGED baseVars
    BY <1>2 DEF vars
  <2>2. impl' = impl /\ num' = num /\ choices' = choices
    BY <2>1 DEF baseVars
  <2>3. QED
    BY <1>1, <2>1, <2>2
<1>3. CASE Step
  <2>0. proto' = proto
    BY <1>3, Zenon DEF Step
  <2>1. CASE BaseNext /\ UNCHANGED <<extVars, puncVars, dpfVars>>
    <3>1. num' = num /\ choices' = choices
      BY <2>1, BaseKeepsDone
    <3>2. UNCHANGED extVars
      BY <2>1
    <3>3. QED
      BY <1>1, <2>0, <2>1, <3>1, <3>2, BaseKeepsImpl
  <2>2. CASE UNCHANGED <<baseVars, extVars>>
    <3>1. UNCHANGED extVars /\ UNCHANGED baseVars
      BY <2>2
    <3>2. impl' = impl /\ num' = num /\ choices' = choices
      BY <3>1 DEF baseVars
    <3>3. QED
      BY <1>1, <2>0, <3>1, <3>2
  <2>3. CASE proto = "iknp" /\ (IknpOtExtRecv \/ IknpOtExtSend) /\ UNCHANGED baseVars
    <3>1. IknpInv
      BY <2>3, ExtInvIs
    <3>2. IknpInv'
      BY <2>3, <3>1, IknpRecvKeeps, IknpSendKeeps
    <3>3. QED
      BY <2>0, <2>3, <3>2, Zenon DEF ExtInv
  <2>4. CASE proto = "kkrt" /\ (KkrtOtExtRecv \/ KkrtOtExtSend) /\ UNCHANGED baseVars
    <3>1. KkrtInv
      BY <2>4, ExtInvIs
    <3>2. KkrtInv'
      BY <2>4, <3>1, KkrtRecvKeeps, KkrtSendKeeps
    <3>3. "kkrt" # "iknp"
      OBVIOUS
    <3>4. QED
      BY <2>0, <2>4, <3>2, <3>3, Zenon DEF ExtInv
  <2>5. CASE proto = "stream" /\ StreamNext /\ UNCHANGED baseVars
    <3>1. StreamInv
      BY <2>5, ExtInvIs
    <3>2. StreamInv'
      BY <2>5, <3>1, StreamKeeps
    <3>3. "stream" # "iknp" /\ "stream" # "kkrt"
      OBVIOUS
    <3>4. QED
      BY <2>0, <2>5, <3>2, <3>3, Zenon DEF ExtInv
  <2>6. \/ BaseNext /\ UNCHANGED <<extVars, puncVars, dpfVars>>
        \/ UNCHANGED <<baseVars, extVars>>
        \/ proto = "iknp" /\ (IknpOtExtRecv \/ IknpOtExtSend) /\ UNCHANGED baseVars
        \/ proto = "kkrt" /\ (KkrtOtExtRecv \/ KkrtOtExtSend) /\ UNCHANGED baseVars
        \/ proto = "stream" /\ StreamNext /\ UNCHANGED baseVars
    <3>1. \/ BaseNext /\ UNCHANGED <<extVars, puncVars, dpfVars>>
          \/ /\ \/ proto = "iknp" /\ (IknpOtExtRecv \/ IknpOtExtSend)
                \/ proto = "kkrt" /\ (KkrtOtExtRecv \/ KkrtOtExtSend)
                \/ proto = "stream" /\ StreamNext
             /\ UNCHANGED <<baseVars, puncVars, dpfVars>>
          \/ UNCHANGED <<baseVars, extVars, dpfVars>>
          \/ UNCHANGED <<baseVars, extVars, puncVars>>
      BY <1>3, Zenon DEF Step
    <3>2. QED
      BY <3>1
  <2>7. QED
    BY <2>1, <2>2, <2>3, <2>4, <2>5, <2>6
<1>4. QED
  BY <1>2, <1>3, Zenon DEF Next

LEMMA ExtInvCorrect ==
  ASSUME ExtInv
  PROVE  ExtensionCorrect
<1>1. CASE proto = "iknp"
  BY <1>1, ExtInvIs, IknpInvCorrect
<1>2. CASE proto = "kkrt"
  BY <1>2, ExtInvIs, KkrtInvCorrect
<1>3. CASE proto = "stream"
  BY <1>3, ExtInvIs, StreamInvCorrect
<1>4. CASE proto \notin {"iknp", "kkrt", "stream"}
  <2>1. ExtIdle
    BY <1>4, ExtInvIs
  <2>2. rOut = <<>> /\ sCorr = 0 /\ T = <<>>
    BY <2>1, Zenon DEF ExtIdle, ExtInit
  <2>3. DOMAIN rOut = {} /\ 1 .. sCorr = {} /\ DOMAIN T = {}
    BY <2>2
  <2>4. QED
    BY <2>3, Zenon DEF ExtensionCorrect, IknpCorrect, KkrtCorrect, StreamCorrect, PadsFresh
<1>5. QED
  BY <1>1, <1>2, <1>3, <1>4

(* Every state of the two-party protocols satisfies the invariant of the   *)
(* extension that runs, on top of that of its base transfers, for every    *)
(* number of transfers, width, secret and input.                           *)
THEOREM ExtensionInvariance == Spec => []ExtInv
<1>1. Init => ExtInv
  BY ExtInitInv
<1>2. BaseInv /\ ExtInv /\ [Next]_vars => ExtInv'
  BY ExtNextInv
<1>3. QED
  BY <1>1, <1>2, Invariance, PTL DEF Spec

(* IknpOtExtSend, KkrtOtExtSend, KkrtOtExtSender and their receivers, for  *)
(* all sizes of words, rows and batches: the receiver's block of every     *)
(* transfer is what the sender's pair or PRF gives at its input and at no  *)
(* other, with a partial last batch, with one side any number of batches   *)
(* or corrections ahead of the other and after any sequence of Encode,     *)
(* ZeroEncode and corrections, and no row of the random matrix is used     *)
(* twice, left unwritten or written past the end.  The streaming form is   *)
(* covered until a RecvCorrection asks for another count than its message  *)
(* has: from then on StreamCorrect promises nothing.                       *)
THEOREM ExtensionsCorrect == Spec => []ExtensionCorrect
<1>1. ExtInv => ExtensionCorrect
  BY ExtInvCorrect
<1>2. QED
  BY <1>1, ExtensionInvariance, PTL

=============================================================================
