---------------------------- MODULE OtExtension ----------------------------
(***************************************************************************)
(* Oblivious-transfer extension (yasl/mpctools/ot): IKNP, KKRT in one call *)
(* and KKRT in the streaming form of KkrtOtExtSender and                   *)
(* KkrtOtExtReceiver, on top of the base transfers of BaseOt.              *)
(*                                                                         *)
(* The roles are swapped: the extension's sender has been the receiver of  *)
(* the base transfers, with `choices` as its secret s and one seed per     *)
(* column, and the extension's receiver holds both seeds of every column.  *)
(* One round of a batch loop is one step.  The random generators, the      *)
(* pseudo-random code and the random oracle are free: every bit they give  *)
(* is an atom of its own, so what holds here holds whatever they return.   *)
(***************************************************************************)
EXTENDS BaseOt, Transpose

CONSTANTS
  kKkrtWidth,   \* words in a KKRT row: 4 in the code
  NumBlock1024, \* kNumBlockPerBatch1024: 8 in the code
  Inputs,       \* inputs of the receiver, numbers
  MaxCalls,     \* bound on the calls of Encode and ZeroEncode
  CallRows,     \* the rows they are made for
  Counts        \* the sizes of corrections

ASSUME OtAssumption ==
  /\ kKkrtWidth \in Nat \ {0} /\ NumBlock1024 \in Nat \ {0}
  /\ Inputs \subseteq Nat /\ MaxCalls \in Nat
  /\ CallRows \subseteq Nat /\ Counts \subseteq Nat \ {0}

VARIABLES
  sse2,          \* kCPUSupportsSSE2, the same on both sides
  n,             \* num_ot
  inputs,        \* the receiver's inputs; for IKNP its choice bits
  rBatch, sBatch,\* the batch each side is at
  net,           \* messages of the extension, receiver to sender
  rOut,          \* recv_blocks, or dest_encode per row of the streaming form
  sOut,          \* send_blocks of IKNP
  q,             \* KkrtGroupPRF::q_
  T, U,          \* KkrtOtExtReceiver::T_, U_
  rCorr, sCorr,  \* correction_idx_ of the two streaming objects
  lost,          \* rows of corrections that a RecvCorrection has thrown away
  calls,         \* per row, the inputs encoded so far
  shipped        \* per row sent, what had been encoded when it was

extVars == <<sse2, n, inputs, rBatch, sBatch, net, rOut, sOut, q, T, U, rCorr, sCorr,
             lost, calls, shipped>>

kBatchSize == kKappa
kBatchSize1024 == NumBlock1024 * kKappa
Cols == 0 .. kKkrtWidth * kKappa - 1      \* kIknpWidth columns

Hash(row) == <<"RO", row>>
Draw(seed, i) == [c \in Bits |-> {<<"prg", seed, i, c>>}]
Prc(x) == [c \in Cols |-> {<<"prc", x, c>>}]
Garbage == [c \in Cols |-> {<<"uninitialised", c>>}]
NoBlock == <<"none">>
ZeroCall == -1

ExtInit(cpu, numOt, in) ==
  /\ sse2 = cpu
  /\ n = numOt /\ inputs = in
  /\ rBatch = 0 /\ sBatch = 0
  /\ net = <<>> /\ rOut = <<>> /\ sOut = <<>> /\ q = <<>>
  /\ T = <<>> /\ U = <<>> /\ rCorr = 0 /\ sCorr = 0 /\ lost = 0
  /\ calls = <<>> /\ shipped = <<>>

streamVars == <<T, U, rCorr, sCorr, lost, calls, shipped>>

(* The number of transfers in batch i.                                     *)
Limit(i) == Min({kBatchSize, n - i * kBatchSize})
-----------------------------------------------------------------------------
(* A round of IknpOtExtRecv: u = G(K0) ^ G(K1) ^ r is sent, and the rows   *)
(* of the transposed G(K0) are hashed.                                     *)
IknpOtExtRecv ==
  /\ BaseSendDone /\ rBatch * kBatchSize < n
  /\ LET gen(b) == [k \in Bits |-> Draw(sBlocks[k + 1][b], rBatch)]
         r == [c \in Bits |-> BitOf(inputs[rBatch * kBatchSize + c] = 1)]
         t == NaiveTranspose(gen(0))
     IN  /\ net' = Append(net, [k \in Bits |->
                      XorWord(XorWord(gen(0)[k], gen(1)[k]), r)])
         /\ rOut' = rOut \o [i \in 1 .. Limit(rBatch) |-> Hash(t[i - 1])]
  /\ rBatch' = rBatch + 1
  /\ UNCHANGED <<sse2, n, inputs, sBatch, sOut, q, streamVars>>

(* S, the choice bits of the base transfers as a word.                     *)
ChoiceMask == [c \in Bits |-> BitOf(c \in choices)]

(* A round of IknpOtExtSend: Q = (u & s) ^ G(Ks), transposed; the two      *)
(* outputs are the hashes of the row and of the row ^ s.                   *)
IknpOtExtSend ==
  /\ BaseRecvDone /\ sBatch * kBatchSize < n /\ net # <<>>
  /\ LET zero == [c \in Bits |-> {}]
         gen_ks == [k \in Bits |-> Draw(rBlocks[k + 1], sBatch)]
         batch == NaiveTranspose([k \in Bits |->
                    XorWord(IF k \in choices THEN Head(net)[k] ELSE zero, gen_ks[k])])
     IN  sOut' = sOut \o [i \in 1 .. Limit(sBatch) |->
                   [b \in 0 .. 1 |-> Hash(IF b = 0 THEN batch[i - 1]
                                          ELSE XorWord(batch[i - 1], ChoiceMask))]]
  /\ net' = Tail(net)
  /\ sBatch' = sBatch + 1
  /\ UNCHANGED <<sse2, n, inputs, rBatch, rOut, q, streamVars>>
-----------------------------------------------------------------------------
(* The rows of one batch: for every word of the row, the drawn words of    *)
(* its columns, transposed.                                                *)
BatchRows(seeds, i) ==
  LET m == [w \in 0 .. kKkrtWidth - 1 |->
              MatrixTranspose128([k \in Bits |-> Draw(seeds[w * kKappa + k], i)], sse2)]
  IN  [r \in Bits |-> [c \in Cols |-> m[c \div kKappa][r][c % kKappa]]]

(* A round of KkrtOtExtRecv.  The whole array U is sent, also the rows of  *)
(* a last batch that nobody has written.                                   *)
KkrtOtExtRecv ==
  /\ BaseSendDone /\ rBatch * kBatchSize < n
  /\ LET t == BatchRows([c \in Cols |-> sBlocks[c + 1][0]], rBatch)
         u == BatchRows([c \in Cols |-> sBlocks[c + 1][1]], rBatch)
         row(i) == XorWord(XorWord(u[i], t[i]), Prc(inputs[rBatch * kBatchSize + i]))
     IN  /\ net' = Append(net, [i \in Bits |-> IF i < Limit(rBatch) THEN row(i)
                                               ELSE Garbage])
         /\ rOut' = rOut \o [i \in 1 .. Limit(rBatch) |-> Hash(t[i - 1])]
  /\ rBatch' = rBatch + 1
  /\ UNCHANGED <<sse2, n, inputs, sBatch, sOut, q, streamVars>>

(* Mutant: every correction is added to the first rows.                    *)
CalcQ_NoOffset(u, offset, num_valid) ==
  [i \in DOMAIN q |-> IF i \in 1 .. num_valid
                      THEN XorWord(q[i], AndMask(u[i], choices)) ELSE q[i]]

(* KkrtGroupPRF::SetQ and CalcQ: the rows of a batch are stored at offset, *)
(* or (u & s) is added to the rows there.                                  *)
SetQ(rows, offset, num_valid) ==
  [i \in 1 .. offset + num_valid |-> IF i <= offset THEN q[i] ELSE rows[i - offset - 1]]

CalcQ(u, offset, num_valid) ==
  [i \in DOMAIN q |-> IF i \in offset + 1 .. offset + num_valid
                      THEN XorWord(q[i], AndMask(u[i - offset], choices))
                      ELSE q[i]]

(* A round of KkrtOtExtSend: Q = (U & S) ^ G(Ks).                          *)
KkrtOtExtSend ==
  /\ BaseRecvDone /\ sBatch * kBatchSize < n /\ net # <<>>
  /\ LET Q == BatchRows([c \in Cols |-> rBlocks[c + 1]], sBatch)
         u == Head(net)
     IN  q' = SetQ([i \in Bits |-> XorWord(Q[i], AndMask(u[i], choices))],
                   sBatch * kBatchSize, Limit(sBatch))
  /\ net' = Tail(net)
  /\ sBatch' = sBatch + 1
  /\ UNCHANGED <<sse2, n, inputs, rBatch, rOut, sOut, streamVars>>

(* KkrtGroupPRF::Eval: H(q ^ (c(x) & s)).                                  *)
Eval(i, x) == Hash(XorWord(AndMask(Prc(x), choices), q[i + 1]))
-----------------------------------------------------------------------------

(* The loop of the two Init methods over the blocks of a batch of 1024:    *)
(* how many rows block i copies (the subtraction is unsigned), the rows    *)
(* written before the loop breaks off, and the rows, from 1, at which all  *)
(* batches write.                                                          *)
BlockRows(num_this_batch, i) ==
  IF num_this_batch < i * kKappa THEN kKappa
  ELSE Min({kKappa, num_this_batch - i * kKappa})

CopiedRows(num_this_batch) ==
  UNION {{i * kKappa + j : j \in 0 .. BlockRows(num_this_batch, i) - 1} :
           i \in {i \in 0 .. NumBlock1024 - 1 :
                    \A h \in 0 .. i - 1 : BlockRows(num_this_batch, h) = kKappa}}

NumBatch == (n + kBatchSize1024 - 1) \div kBatchSize1024

WrittenRows ==
  UNION {{b * kBatchSize1024 + at + 1 :
            at \in CopiedRows(Min({n - b * kBatchSize1024, kBatchSize1024}))} :
           b \in 0 .. NumBatch - 1}

StreamRows(seeds, rows) ==
  LET matrix == [b \in 0 .. NumBatch - 1 |-> [w \in 0 .. kKkrtWidth - 1 |->
                   SseTranspose128x1024([k \in Bits |-> [j \in 0 .. NumBlock1024 - 1 |->
                     Draw(seeds[w * kKappa + k], b * NumBlock1024 + j)]])]]
  IN  [r \in rows |->
         LET b == (r - 1) \div kBatchSize1024
             at == (r - 1) % kBatchSize1024
         IN  IF at \in CopiedRows(Min({n - b * kBatchSize1024, kBatchSize1024}))
             THEN [c \in Cols |-> matrix[b][c \div kKappa][at % kKappa][at \div kKappa][c % kKappa]]
             ELSE Garbage]

(* KkrtOtExtSender::Init and KkrtOtExtReceiver::Init.  The sender goes     *)
(* through an array of a whole batch, of which SetQ takes the rows there   *)
(* are; the receiver writes into T_ and U_ themselves, and a row past      *)
(* their end would show in their domain.                                   *)
SenderInit ==
  /\ BaseRecvDone /\ q = <<>>
  /\ q' = StreamRows([c \in Cols |-> rBlocks[c + 1]], 1 .. n)
  /\ sCorr' = 0
  /\ UNCHANGED <<sse2, n, inputs, rBatch, sBatch, net, rOut, sOut, T, U, rCorr,
                 lost, calls, shipped>>

ReceiverInit ==
  /\ BaseSendDone /\ T = <<>>
  /\ T' = StreamRows([c \in Cols |-> sBlocks[c + 1][0]], 1 .. n \cup WrittenRows)
  /\ U' = StreamRows([c \in Cols |-> sBlocks[c + 1][1]], 1 .. n \cup WrittenRows)
  /\ rCorr' = 0
  /\ rOut' = [i \in 1 .. n |-> NoBlock]
  /\ calls' = [i \in 0 .. n - 1 |-> <<>>]
  /\ shipped' = <<>>
  /\ UNCHANGED <<sse2, n, inputs, rBatch, sBatch, net, sOut, q, sCorr, lost>>

NumCalls == MapThenSumSet(LAMBDA i : Len(calls[i]), DOMAIN calls)

(* KkrtOtExtReceiver::Encode and ZeroEncode.  Nothing keeps a caller from  *)
(* encoding a row twice, or after its correction has been sent.            *)
Encode(i, x) ==
  /\ T # <<>> /\ NumCalls < MaxCalls
  /\ U' = [U EXCEPT ![i + 1] = XorWord(XorWord(@, T[i + 1]), Prc(x))]
  /\ rOut' = [rOut EXCEPT ![i + 1] = Hash(T[i + 1])]
  /\ calls' = [calls EXCEPT ![i] = Append(@, x)]
  /\ UNCHANGED <<sse2, n, inputs, rBatch, sBatch, net, sOut, q, T, rCorr, sCorr, lost,
                 shipped>>

ZeroEncode(i) ==
  /\ T # <<>> /\ NumCalls < MaxCalls
  /\ U' = [U EXCEPT ![i + 1] = XorWord(@, T[i + 1])]
  /\ calls' = [calls EXCEPT ![i] = Append(@, ZeroCall)]
  /\ UNCHANGED <<sse2, n, inputs, rBatch, sBatch, net, rOut, sOut, q, T, rCorr, sCorr,
                 lost, shipped>>

(* The next count rows of U_ leave, by the link (SendCorrection) or as a   *)
(* buffer the caller carries over (ShiftCorrection).  A count beyond the   *)
(* last row would read past the vector; the callers keep within it.        *)
Ship(count, way) ==
  /\ T # <<>> /\ rCorr + count <= n
  /\ net' = Append(net, [way |-> way, rows |-> SubSeq(U, rCorr + 1, rCorr + count)])
  /\ rCorr' = rCorr + count
  /\ shipped' = shipped \o [i \in 1 .. count |-> calls[rCorr + i - 1]]
  /\ UNCHANGED <<sse2, n, inputs, rBatch, sBatch, rOut, sOut, q, T, U, sCorr, lost, calls>>

SendCorrection(count) == Ship(count, "link")
ShiftCorrection(count) == Ship(count, "buffer")

(* They are applied to the next rows of the sender's PRF, handed over in   *)
(* the order in which they were made.  A recv_count that is not theirs     *)
(* throws: RecvCorrection has then taken them off the link, and since      *)
(* correction_idx_ stays, those that follow go to rows they are not for;   *)
(* SetCorrection leaves its caller the buffer.                             *)
Apply(way, recv_count) ==
  /\ q # <<>> /\ net # <<>> /\ Head(net).way = way
  /\ LET rows == Head(net).rows
     IN  \/ /\ Len(rows) = recv_count
            /\ q' = CalcQ(rows, sCorr, recv_count)
            /\ sCorr' = sCorr + recv_count
            /\ net' = Tail(net) /\ lost' = lost
         \/ /\ Len(rows) # recv_count
            /\ IF way = "link" THEN net' = Tail(net) /\ lost' = lost + Len(rows)
                               ELSE net' = net /\ lost' = lost
            /\ UNCHANGED <<q, sCorr>>
  /\ UNCHANGED <<sse2, n, inputs, rBatch, sBatch, rOut, sOut, T, U, rCorr, calls, shipped>>

RecvCorrection(recv_count) == Apply("link", recv_count)
SetCorrection(recv_count) == Apply("buffer", recv_count)

StreamNext ==
  \/ SenderInit \/ ReceiverInit
  \/ \E i \in CallRows \cap 0 .. n - 1 : ZeroEncode(i) \/ \E y \in Inputs : Encode(i, y)
  \/ \E count \in Counts :
       \/ SendCorrection(count) \/ ShiftCorrection(count)
       \/ RecvCorrection(count) \/ SetCorrection(count)
-----------------------------------------------------------------------------
(* IKNP: as far as both sides have got, the receiver's block of transfer i *)
(* is the sender's block of its choice bit and not the other one, in full  *)
(* and in partial batches, with one side batches ahead of the other.  With *)
(* the secret s = 0 the two blocks coincide: that is a chance of 2^-128.   *)
IknpCorrect ==
  \A i \in DOMAIN rOut \cap DOMAIN sOut :
    LET c == IF inputs[i - 1] = 1 THEN 1 ELSE 0
    IN  rOut[i] = sOut[i][c] /\ (choices # {} => rOut[i] # sOut[i][1 - c])

(* KKRT in one call: the sender's PRF i takes the receiver's block at the  *)
(* receiver's input and at no other, and what a partial last batch sends   *)
(* beyond its rows never reaches a result.                                 *)
KkrtCorrect ==
  \A i \in DOMAIN rOut \cap DOMAIN q : sBatch > 0 =>
    \A x \in Inputs :
      (Eval(i - 1, x) = rOut[i]) <=> (x = inputs[i - 1] \/ choices = {})

(* The streaming form, under any order of Encode, ZeroEncode and           *)
(* corrections of any size: for every row whose correction has been        *)
(* applied and that had been encoded exactly once when it was sent, the    *)
(* sender's PRF takes the receiver's value at that input and at no other,  *)
(* and at no input for a ZeroEncode; misuse of one row harms no other.     *)
(* After a RecvCorrection that threw corrections away nothing is promised: *)
(* the rest are added to the wrong rows.                                   *)
StreamCorrect ==
  lost = 0 => \A i \in 1 .. sCorr : Len(shipped[i]) = 1 =>
    \A x \in Inputs :
      (Eval(i - 1, x) = Hash(T[i])) <=> (<<x>> = shipped[i] \/ choices = {})

(* No row of the random matrix is used for two transfers, within a batch   *)
(* or across batches, none holds memory nobody has written, and nothing is *)
(* written past the rows there are.                                        *)
PadsFresh ==
  /\ \A i, j \in DOMAIN rOut : rOut[i] = rOut[j] => i = j \/ rOut[i] = NoBlock
  /\ \A i, j \in DOMAIN T : T[i] = T[j] => i = j
  /\ \A i \in DOMAIN T : i <= n /\ T[i] # Garbage /\ U[i] # Garbage

(* All three extensions: what each promises of its results, from rows of   *)
(* the random matrix that are used once.                                   *)
ExtensionCorrect == IknpCorrect /\ KkrtCorrect /\ StreamCorrect /\ PadsFresh
-----------------------------------------------------------------------------
(* The inductive invariant behind ExtensionCorrect, in terms of the blocks *)
(* the base transfers give (Agreed).                                       *)

(* The bit of transfer j that column c of the base transfers with choice b *)
(* gives, and the row of the receiver's random matrix.                     *)
PadBit(c, b, j) == {<<"prg", Agreed(c + 1, b), j \div kKappa, j % kKappa>>}
PadRow(columns, j) == [c \in columns |-> PadBit(c, 0, j)]
MixedBit(c, j) == SymDiff(PadBit(c, 0, j), PadBit(c, 1, j))

(* The transfers in the first i batches.                                   *)
Reached(i) == Min({n, i * kBatchSize})

StreamIdle ==
  /\ T = <<>> /\ U = <<>> /\ rCorr = 0 /\ sCorr = 0 /\ lost = 0
  /\ calls = <<>> /\ shipped = <<>>

(* The row of the sender's matrix where the receiver has mixed in code.    *)
SentRow(columns, j, code) ==
  [c \in columns |-> IF c \in choices THEN SymDiff(PadBit(c, 0, j), code[c]) ELSE PadBit(c, 0, j)]

(* IKNP: the message of batch i, and the sender's results of transfer j.   *)
IknpMessage(i) ==
  [k \in Bits |-> [c \in Bits |->
     LET j == i * kBatchSize + c
     IN  SymDiff(MixedBit(k, j), BitOf(inputs[j] = 1))]]
IknpPair(j) ==
  LET row == SentRow(Bits, j, [c \in Bits |-> BitOf(inputs[j] = 1)])
  IN  [b \in 0 .. 1 |-> Hash(IF b = 0 THEN row ELSE XorWord(row, ChoiceMask))]

IknpInv ==
  /\ n \in Nat /\ num = kKappa /\ choices \subseteq Bits
  /\ rBatch \in Nat /\ sBatch \in 0 .. rBatch
  /\ net = [i \in 1 .. rBatch - sBatch |-> net[i]]
  /\ \A i \in sBatch .. rBatch - 1 : net[i - sBatch + 1] = IknpMessage(i)
  /\ rOut = [j \in 1 .. Reached(rBatch) |-> Hash(PadRow(Bits, j - 1))]
  /\ sOut = [j \in 1 .. Reached(sBatch) |-> IknpPair(j - 1)]
  /\ q = <<>> /\ StreamIdle

KkrtInv ==
  /\ n \in Nat /\ num = kKkrtWidth * kKappa /\ choices \subseteq Cols
  /\ rBatch \in Nat /\ sBatch \in 0 .. rBatch
  /\ net = [i \in 1 .. rBatch - sBatch |-> net[i]]
  /\ \A i \in sBatch .. rBatch - 1, k \in Bits :
       LET j == i * kBatchSize + k
       IN  j < n => net[i - sBatch + 1][k]
                      = [c \in Cols |-> SymDiff(MixedBit(c, j), Prc(inputs[j])[c])]
  /\ rOut = [j \in 1 .. Reached(rBatch) |-> Hash(PadRow(Cols, j - 1))]
  /\ q = [j \in 1 .. Reached(sBatch) |-> SentRow(Cols, j - 1, Prc(inputs[j - 1]))]
  /\ sOut = <<>> /\ StreamIdle

(* What the only call for a row has mixed into it.                         *)
CodeOf(s) == IF s[1] = ZeroCall THEN [c \in Cols |-> {}] ELSE Prc(s[1])

(* A row u of U_ for which the calls s were made: it keeps what is its     *)
(* own, and is known if there was no more than one call.                   *)
EncodedAs(u, s, j) ==
  /\ s \in Seq(Inputs \cup {ZeroCall})
  /\ u = [c \in Cols |-> u[c]] /\ \A c \in Cols : PadBit(c, 1, j) \subseteq u[c]
  /\ Len(s) = 0 => u = [c \in Cols |-> PadBit(c, 1, j)]
  /\ Len(s) = 1 => u = [c \in Cols |-> SymDiff(MixedBit(c, j), CodeOf(s)[c])]

ReceiverStream ==
  IF T = <<>> THEN StreamIdle /\ rOut = <<>> /\ net = <<>>
  ELSE /\ T = [i \in 1 .. n |-> PadRow(Cols, i - 1)]
       /\ U = [i \in 1 .. n |-> U[i]] /\ DOMAIN calls = 0 .. n - 1
       /\ \A i \in 1 .. n : EncodedAs(U[i], calls[i - 1], i - 1)
       /\ rOut = [i \in 1 .. n |-> rOut[i]]
       /\ \A i \in 1 .. n : rOut[i] \in {NoBlock, Hash(T[i])}
       /\ rCorr \in 0 .. n /\ shipped \in [1 .. rCorr -> Seq(Inputs \cup {ZeroCall})]

(* Row i of q_: the row as drawn, and mixed once its correction is there.  *)
SenderStream ==
  /\ sCorr \in 0 .. rCorr
  /\ IF q = <<>> THEN sCorr = 0
     ELSE /\ q = [i \in 1 .. n |-> q[i]]
          /\ \A i \in sCorr + 1 .. n :
               q[i] = [c \in Cols |-> PadBit(c, IF c \in choices THEN 1 ELSE 0, i - 1)]
          /\ \A i \in 1 .. sCorr : Len(shipped[i]) = 1 =>
               q[i] = SentRow(Cols, i - 1, CodeOf(shipped[i]))

(* What the sender has got of the receiver's corrections.                  *)
CountsInv ==
  /\ sCorr \in Nat /\ lost \in Nat /\ sCorr + lost <= rCorr
  /\ lost = 0 \/ DOMAIN q = 1 .. n

(* The corrections under way are those for the last rows up to rCorr, but  *)
(* for the applied and the lost ones; at[k] rows come before those of the  *)
(* k-th.                                                                   *)
CorrectionsInv ==
  /\ Len(net) \in Nat /\ net = [k \in 1 .. Len(net) |-> net[k]]
  /\ \E at \in [1 .. Len(net) + 1 -> 0 .. rCorr] :
       /\ at[1] = sCorr + lost /\ at[Len(net) + 1] = rCorr
       /\ \A k \in 1 .. Len(net) :
            LET rows == net[k].rows
            IN  /\ at[k] <= at[k + 1] /\ rows = [i \in 1 .. at[k + 1] - at[k] |-> rows[i]]
                /\ \A i \in 1 .. at[k + 1] - at[k] :
                     EncodedAs(rows[i], shipped[at[k] + i], at[k] + i - 1)

StreamInv ==
  /\ n \in Nat \ {0} /\ num = kKkrtWidth * kKappa /\ choices \subseteq Cols
  /\ rBatch = 0 /\ sBatch = 0 /\ sOut = <<>>
  /\ CountsInv /\ ReceiverStream /\ (lost = 0 => SenderStream) /\ CorrectionsInv
=============================================================================
