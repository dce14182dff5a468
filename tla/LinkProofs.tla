----------------------------- MODULE LinkProofs -----------------------------
(***************************************************************************)
(* The theorems about chunked messages and about the mesh.                 *)
(*                                                                         *)
(* ChunkedMessage, for any messages, chunk sizes and parallelism:          *)
(* ChunkInv is inductive and gives MessageSafe.                            *)
(*                                                                         *)
(* Mesh, for any number of ranks and retries: MeshInv is inductive and     *)
(* gives MeshSafe.                                                         *)
(***************************************************************************)
EXTENDS ChunkedMessage, Mesh, FiniteSetTheorems, TLAPS

-----------------------------------------------------------------------------
(* The layout of a message.                                                *)

\* Division with remainder.
LEMMA DivFacts ==
  ASSUME NEW x \in Nat, NEW d \in Nat \ {0}
  PROVE  /\ x \div d \in Nat
         /\ (x \div d) * d <= x /\ x < (x \div d) * d + d
         /\ \A q \in Nat : q * d <= x /\ x < q * d + d => q = x \div d
<1>1. x \div d \in Nat /\ (x \div d) * d <= x /\ x < (x \div d) * d + d
  BY SMT
<1>2. ASSUME NEW q \in Nat, q * d <= x, x < q * d + d
      PROVE  q = x \div d
  BY <1>1, <1>2, SMTT(30)
<1>3. QED
  BY <1>1, <1>2

\* a / b, rounded up.
LEMMA CeilFacts ==
  ASSUME NEW a \in Nat \ {0}, NEW b \in Nat \ {0}
  PROVE  /\ CeilDiv(a, b) \in Nat \ {0}
         /\ \A x \in 0 .. (a - 1) : x \div b < CeilDiv(a, b)
         /\ \A i \in 0 .. (CeilDiv(a, b) - 1) : i * b < a
  BY SMTT(30) DEF CeilDiv

\* What the code assumes of its parameters.
LEMMA ParameterFacts ==
  ASSUME NEW m \in Msg
  PROVE  /\ MaxPayload \in Nat \ {0} /\ ParallelSize \in Nat \ {0}
         /\ Bytes[m] \in Nat \ {0} /\ MaxAttempt[m] \in Nat \ {0}
  BY ChunkAssumption

\* A message has chunks and batches, and a chunk has a size.
LEMMA ChunkFacts ==
  ASSUME NEW m \in Msg
  PROVE  /\ NumChunks(m) \in Nat \ {0} /\ NumBatches(m) \in Nat \ {0}
         /\ IsFiniteSet(Chunks(m)) /\ Cardinality(Chunks(m)) = NumChunks(m)
         /\ Chunks(m) \subseteq Nat
         /\ \A i \in Chunks(m) : ChunkSize(m, i) \in Nat
<1>1. NumChunks(m) \in Nat \ {0} /\ \A i \in Chunks(m) : i * MaxPayload < Bytes[m]
  BY ParameterFacts, CeilFacts DEF NumChunks, Chunks
<1>2. NumBatches(m) \in Nat \ {0}
  BY <1>1, ParameterFacts, CeilFacts DEF NumBatches
<1>3. 0 \in Int /\ NumChunks(m) - 1 \in Int /\ 0 <= NumChunks(m) - 1
  BY <1>1
<1>4. IsFiniteSet(Chunks(m)) /\ Cardinality(Chunks(m)) = (NumChunks(m) - 1) - 0 + 1
  BY <1>3, FS_Interval DEF Chunks
<1>5. Chunks(m) \subseteq Nat
  BY <1>1 DEF Chunks
<1>6. \A i \in Chunks(m) : ChunkSize(m, i) \in Nat
  BY <1>1, <1>5, ParameterFacts DEF ChunkSize, LeastOf
<1>7. QED
  BY <1>1, <1>2, <1>4, <1>5, <1>6

\* Each chunk is in one batch.
LEMMA BatchFacts ==
  ASSUME NEW m \in Msg, NEW i \in Chunks(m)
  PROVE  /\ i \div ParallelSize \in Nat
         /\ i \div ParallelSize < NumBatches(m)
         /\ \A b \in Nat : i \in Batch(m, b) <=> i \div ParallelSize = b
<1> DEFINE P == ParallelSize
           n == NumChunks(m)
           q == i \div P
<1>1. P \in Nat \ {0} /\ n \in Nat \ {0} /\ i \in 0 .. (n - 1) /\ i \in Nat
  BY ParameterFacts, ChunkFacts DEF Chunks
<1>2. q < NumBatches(m)
  BY <1>1, CeilFacts DEF NumBatches
<1> HIDE DEF P, n
<1>3. /\ q \in Nat /\ q * P <= i /\ i < q * P + P
      /\ \A b \in Nat : b * P <= i /\ i < b * P + P => b = q
  BY <1>1, DivFacts
<1> HIDE DEF q
<1>4. ASSUME NEW b \in Nat
      PROVE  i \in Batch(m, b) <=> q = b
  <2>1. (b + 1) * P = b * P + P /\ b * P \in Nat
    BY <1>1
  <2>2. Batch(m, b) = (b * P) .. ((IF b * P + P < n THEN b * P + P ELSE n) - 1)
    BY <2>1 DEF Batch, LeastOf, P, n
  <2>3. i \in Batch(m, b) <=> b * P <= i /\ i < b * P + P
    BY <1>1, <2>1, <2>2
  <2>4. QED
    BY <1>3, <2>3
<1>5. QED
  BY <1>2, <1>3, <1>4 DEF q, P

\* The bytes of one chunk.
LEMMA ChunkBytes ==
  ASSUME NEW m \in Msg, NEW i \in Chunks(m)
  PROVE  /\ IsFiniteSet(BytesOf(m, {i}))
         /\ Cardinality(BytesOf(m, {i})) = ChunkSize(m, i)
<1> DEFINE P == MaxPayload
           n == Bytes[m]
           last == (IF i * P + P < n THEN i * P + P ELSE n) - 1
<1>1. P \in Nat \ {0} /\ n \in Nat \ {0} /\ i \in Nat
  BY ParameterFacts, ChunkFacts
<1>2. i * P < n /\ i * P \in Nat
  <2>1. i * P < n
    BY ParameterFacts, CeilFacts DEF NumChunks, Chunks
  <2>2. \A j, k \in Nat : j * k \in Nat
    OBVIOUS
  <2> HIDE DEF P, n
  <2>3. QED
    BY <1>1, <2>1, <2>2
<1>3. ChunkSize(m, i) = IF i * P + P < n THEN P ELSE n - i * P
  <2>1. ChunkSize(m, i) = IF P < n - i * P THEN P ELSE n - i * P
    BY DEF ChunkSize, LeastOf
  <2> HIDE DEF P, n
  <2>2. QED
    BY <1>1, <1>2, <2>1
<1> HIDE DEF P, n
<1>4. \A x \in Nat : x \div P = i <=> i * P <= x /\ x < i * P + P
  BY <1>1, DivFacts
<1>5. BytesOf(m, {i}) = {x \in 0 .. (n - 1) : x \div P = i}
  BY DEF BytesOf, P, n
<1>6. BytesOf(m, {i}) = (i * P) .. last
  <2>1. \A x : x \in 0 .. (n - 1) <=> x \in Nat /\ x < n
    BY <1>1
  <2>2. \A x : x \in (i * P) .. last <=> x \in Nat /\ i * P <= x /\ x < i * P + P /\ x < n
    BY <1>1, <1>2
  <2>3. QED
    BY <1>4, <1>5, <2>1, <2>2
<1>7. i * P \in Int /\ last \in Int /\ i * P <= last
  BY <1>1, <1>2
<1>8. IsFiniteSet((i * P) .. last) /\ Cardinality((i * P) .. last) = last - i * P + 1
  BY <1>7, FS_Interval
<1>9. last - i * P + 1 = ChunkSize(m, i)
  BY <1>1, <1>2, <1>3
<1>10. QED
  BY <1>6, <1>8, <1>9

\* The bytes of a set of chunks: none, one chunk more, and all.
LEMMA BytesFacts ==
  ASSUME NEW m \in Msg
  PROVE  /\ Cardinality(BytesOf(m, {})) = 0
         /\ Cardinality(BytesOf(m, Chunks(m))) = Bytes[m]
         /\ \A C \in SUBSET Chunks(m) : Cardinality(BytesOf(m, C)) \in Nat
         /\ \A C \in SUBSET Chunks(m), i \in Chunks(m) :
              i \notin C =>
                Cardinality(BytesOf(m, C \cup {i}))
                  = Cardinality(BytesOf(m, C)) + ChunkSize(m, i)
<1> DEFINE n == Bytes[m]
<1>1. n \in Nat \ {0} /\ 0 \in Int /\ n - 1 \in Int /\ 0 <= n - 1
  BY ParameterFacts
<1> HIDE DEF n
<1>2. IsFiniteSet(0 .. (n - 1)) /\ Cardinality(0 .. (n - 1)) = n
  <2> DEFINE b == n - 1
  <2>1. b \in Int /\ 0 \in Int /\ ~(0 > b) /\ b - 0 + 1 = n
    BY <1>1
  <2> HIDE DEF b
  <2>2. IsFiniteSet(0 .. b) /\ Cardinality(0 .. b) = n
    BY <2>1, FS_Interval
  <2>3. QED
    BY <2>2 DEF b
<1>3. BytesOf(m, {}) = {}
  BY DEF BytesOf
<1>4. BytesOf(m, Chunks(m)) = 0 .. (n - 1)
  <2>1. \A x \in 0 .. (n - 1) : x \div MaxPayload < NumChunks(m)
    BY <1>1, ParameterFacts, CeilFacts DEF NumChunks, n
  <2>2. \A x \in 0 .. (n - 1) : x \div MaxPayload \in Nat
    BY <1>1, ParameterFacts, DivFacts
  <2>3. \A x \in 0 .. (n - 1) : x \div MaxPayload \in Chunks(m)
    BY <2>1, <2>2, ChunkFacts DEF Chunks
  <2>4. QED
    BY <2>3 DEF BytesOf, n
<1>5. \A C : IsFiniteSet(BytesOf(m, C))
  <2>1. \A C : BytesOf(m, C) \subseteq 0 .. (n - 1)
    BY DEF BytesOf, n
  <2>2. QED
    BY <1>2, <2>1, FS_Subset
<1>6. ASSUME NEW C \in SUBSET Chunks(m), NEW i \in Chunks(m), i \notin C
      PROVE  Cardinality(BytesOf(m, C \cup {i}))
               = Cardinality(BytesOf(m, C)) + ChunkSize(m, i)
  <2>1. BytesOf(m, C \cup {i}) = BytesOf(m, C) \cup BytesOf(m, {i})
    BY DEF BytesOf
  <2>2. BytesOf(m, C) \cap BytesOf(m, {i}) = {}
    BY <1>6 DEF BytesOf
  <2>3. Cardinality(BytesOf(m, C) \cup BytesOf(m, {i}))
          = Cardinality(BytesOf(m, C)) + Cardinality(BytesOf(m, {i}))
              - Cardinality(BytesOf(m, C) \cap BytesOf(m, {i}))
    BY <1>5, FS_Union
  <2>4. /\ Cardinality(BytesOf(m, C)) \in Nat /\ Cardinality({}) = 0
        /\ Cardinality(BytesOf(m, {i})) = ChunkSize(m, i) /\ ChunkSize(m, i) \in Nat
    BY <1>5, FS_CardinalityType, FS_EmptySet, ChunkBytes, ChunkFacts
  <2>5. \A j, k \in Nat : j + k - 0 = j + k
    OBVIOUS
  <2>6. Cardinality(BytesOf(m, C \cup {i}))
          = Cardinality(BytesOf(m, C)) + ChunkSize(m, i) - 0
    BY <2>1, <2>2, <2>3, <2>4
  <2>7. QED
    BY <2>4, <2>5, <2>6
<1>7. \A C \in SUBSET Chunks(m) : Cardinality(BytesOf(m, C)) \in Nat
  BY <1>5, FS_CardinalityType
<1>8. QED
  BY <1>2, <1>3, <1>4, <1>6, <1>7, FS_EmptySet DEF n

\* The attempts to push the chunks.
LEMMA AttemptFacts ==
  /\ \A a \in Attempt : /\ a.msg \in Msg /\ a.idx \in Chunks(a.msg)
                        /\ a.try \in 1 .. MaxAttempt[a.msg]
                        /\ a = [msg |-> a.msg, idx |-> a.idx, try |-> a.try]
  /\ \A m \in Msg : \A i \in Chunks(m), n \in 1 .. MaxAttempt[m] :
       [msg |-> m, idx |-> i, try |-> n] \in Attempt
  /\ \A m \in Msg : \A i \in Chunks(m) : First(m, i) \in Attempt
<1>1. \A a \in Attempt : /\ a.msg \in Msg /\ a.idx \in Chunks(a.msg)
                         /\ a.try \in 1 .. MaxAttempt[a.msg]
                         /\ a = [msg |-> a.msg, idx |-> a.idx, try |-> a.try]
  BY DEF Attempt
<1>2. \A m \in Msg : \A i \in Chunks(m), n \in 1 .. MaxAttempt[m] :
        [msg |-> m, idx |-> i, try |-> n] \in Attempt
  BY DEF Attempt
<1>3. \A m \in Msg : 1 \in 1 .. MaxAttempt[m]
  BY ParameterFacts
<1>4. QED
  BY <1>1, <1>2, <1>3 DEF First

-----------------------------------------------------------------------------
(* What a step leaves alone.                                               *)

\* An attempt of a message of which no chunk is pushed twice is the first.
LEMMA FirstAttempt ==
  ASSUME TypeOK, RefInv, NEW a \in Attempt, Once(a.msg), handler[a] # "none"
  PROVE  a = First(a.msg, a.idx)
<1>1. /\ a.idx \in Chunks(a.msg) /\ a.try \in 1 .. MaxAttempt[a.msg]
      /\ a = [msg |-> a.msg, idx |-> a.idx, try |-> a.try] /\ a.msg \in Msg
  BY AttemptFacts
<1>2. MaxAttempt[a.msg] \in Nat
  BY <1>1, ParameterFacts
<1>3. a.try <= 1
  BY <1>1 DEF RefInv, Once
<1>4. a.try = 1
  BY <1>1, <1>2, <1>3
<1>5. QED
  BY <1>1, <1>4 DEF First

\* The sender's batches are in order as long as only handlers go on that are
\* neither waiting to be sent nor done.
LEMMA SendKept ==
  ASSUME NEW m \in Msg, SendInv(m), send'[m] = send[m], batch'[m] = batch[m],
         \A i \in Chunks(m) : \/ handler'[First(m, i)] = handler[First(m, i)]
                              \/ handler[First(m, i)] \notin {"none", "done"}
  PROVE  SendInv(m)'
  BY DEF SendInv, First, Chunks, NumChunks

\* The phase of a message stays when its objects, its entry and the handlers
\* that have found it do.
LEMMA PhaseKept ==
  ASSUME TypeOK, RefInv, NEW m \in Msg, PhaseInv(m),
         values'[m] = values[m], delivered'[m] = delivered[m],
         \A i \in Chunks(m) :
            /\ ref'[First(m, i)] = ref[First(m, i)]
            /\ out'[First(m, i)] = out[First(m, i)]
            /\ \/ handler'[First(m, i)] = handler[First(m, i)]
               \/ /\ handler[First(m, i)] \in {"none", "flight"}
                  /\ handler'[First(m, i)] \in {"none", "flight"},
         \A j \in 1 .. Len(heap) : heap[j].msg = m => heap'[j] = heap[j]
  PROVE  PhaseInv(m)'
<1> DEFINE F(i) == First(m, i)
<1>1. /\ \A i : F(i)' = F(i)
      /\ Chunks(m)' = Chunks(m) /\ Whole(m)' = Whole(m)
      /\ \A C : BytesOf(m, C)' = BytesOf(m, C)
  BY DEF First, Chunks, NumChunks, Whole, BytesOf
<1>2. \A i \in Chunks(m) :
        /\ \A s \in Live : handler'[F(i)] = s <=> handler[F(i)] = s
        /\ handler'[F(i)] \in Live <=> handler[F(i)] \in Live
        /\ handler'[F(i)] \in HasAdded <=> handler[F(i)] \in HasAdded
  BY DEF Live, HasAdded
<1>3. Added(m)' = Added(m)
  BY <1>1, <1>2 DEF Added
<1>4. \A s \in {"reassemble", "deliver", "check", "erase"} : s \in Live
  BY DEF Live, HandlerState
<1>5. \A i \in Chunks(m) : F(i) \in Attempt /\ F(i).msg = m
  BY AttemptFacts DEF First
<1>6. \A i \in Chunks(m) : handler[F(i)] \in Live => heap'[ref[F(i)]] = heap[ref[F(i)]]
  <2> SUFFICES ASSUME NEW i \in Chunks(m), handler[F(i)] \in Live
               PROVE  heap'[ref[F(i)]] = heap[ref[F(i)]]
    OBVIOUS
  <2>1. ref[F(i)] \in 0 .. Len(heap) /\ Len(heap) \in Nat
    BY <1>5 DEF TypeOK
  <2>2. ref[F(i)] # 0 /\ heap[ref[F(i)]].msg = m
    BY <1>5 DEF RefInv
  <2>3. QED
    BY <2>1, <2>2
<1>7. values[m] # 0 => heap'[values[m]] = heap[values[m]]
  <2>1. values[m] \in 0 .. Len(heap) /\ Len(heap) \in Nat
    BY DEF TypeOK
  <2>2. QED
    BY <2>1 DEF RefInv
<1>8. CASE Untouched(m)
  <2>1. Untouched(m)'
    BY <1>1, <1>2, <1>8 DEF Untouched
  <2>2. QED
    BY <2>1 DEF PhaseInv
<1>9. CASE Filling(m)
  <2>1. /\ values'[m] # 0 /\ delivered'[m] = <<>>
        /\ heap'[values'[m]].chunks = Added(m)'
        /\ heap'[values'[m]].size = Cardinality(BytesOf(m, Added(m)))'
    BY <1>3, <1>7, <1>9 DEF Filling, BytesOf
  <2>2. \A i \in Chunks(m) :
          /\ handler'[F(i)] \notin {"reassemble", "deliver"}
          /\ handler'[F(i)] \in Live => ref'[F(i)] = values'[m]
          /\ handler'[F(i)] = "erase" => Added(m)' = Chunks(m)
    BY <1>2, <1>3, <1>4, <1>9 DEF Filling
  <2>3. Added(m)' = Chunks(m) =>
          \E i \in Chunks(m) : handler'[F(i)] \in {"check", "erase"}
    BY <1>2, <1>3, <1>4, <1>9 DEF Filling
  <2>4. Filling(m)'
    BY <1>1, <2>1, <2>2, <2>3 DEF Filling
  <2>5. QED
    BY <2>4 DEF PhaseInv
<1>10. CASE Filled(m)
  <2>1. \A i \in Chunks(m) : Winner(m, i) => Winner(m, i)'
    BY <1>1, <1>2, <1>4, <1>6 DEF Winner
  <2>2. \A i \in Chunks(m) : handler[F(i)] \notin {"reassemble", "deliver"} =>
                             handler'[F(i)] \notin {"reassemble", "deliver"}
    BY <1>2, <1>4
  <2>3. Filled(m)'
    BY <1>1, <1>3, <1>10, <2>1, <2>2 DEF Filled
  <2>4. QED
    BY <2>3 DEF PhaseInv
<1>11. QED
  BY <1>8, <1>9, <1>10 DEF PhaseInv

\* A step of one handler leaves the phase of the other messages alone.
LEMMA OthersKept ==
  ASSUME TypeOK, RefInv, NEW a \in Attempt, NEW m \in Msg, m # a.msg, PhaseInv(m),
         values'[m] = values[m], delivered'[m] = delivered[m],
         \A b \in Attempt \ {a} : /\ handler'[b] = handler[b]
                                  /\ ref'[b] = ref[b] /\ out'[b] = out[b],
         \A j \in 1 .. Len(heap) : heap[j].msg # a.msg => heap'[j] = heap[j]
  PROVE  PhaseInv(m)'
<1>1. \A i \in Chunks(m) : First(m, i) \in Attempt \ {a}
  BY AttemptFacts DEF First
<1>2. QED
  BY <1>1, PhaseKept

-----------------------------------------------------------------------------
(* The sender and brpc preserve the invariant.                             *)

\* The parts of the invariant that are about each message.
LEMMA Parts ==
  ASSUME ChunkInv
  PROVE  /\ TypeOK /\ RefInv
         /\ \A m \in Msg : Once(m) => SendInv(m) /\ PhaseInv(m)
  BY DEF ChunkInv

\* Firing a batch sends chunks that were not sent before.
LEMMA FireBatchStep ==
  ASSUME ChunkInv, NEW m \in Msg, FireBatch(m)
  PROVE  ChunkInv'
<1> USE Parts
<1> DEFINE Fires(a) == a.msg = m /\ a.idx \in Batch(m, batch[m]) /\ a.try = 1
<1>1. /\ send[m] = "fire" /\ send' = [send EXCEPT ![m] = "join"]
      /\ handler' = [a \in Attempt |-> IF Fires(a) THEN "flight" ELSE handler[a]]
      /\ UNCHANGED <<batch, try, failed, ref, out, heap, values, delivered>>
  BY DEF FireBatch
<1>2. \A a \in Attempt : handler'[a] = IF Fires(a) THEN "flight" ELSE handler[a]
  BY <1>1
<1>3. TypeOK'
  <2>1. handler' \in [Attempt -> HandlerState]
    BY <1>1 DEF TypeOK, HandlerState
  <2>2. send' \in [Msg -> SendState]
    BY <1>1 DEF TypeOK, SendState
  <2>3. QED
    BY <1>1, <2>1, <2>2 DEF TypeOK
<1>4. RefInv'
  <2>1. \A a \in Attempt : handler'[a] \in Live => handler[a] \in Live
    BY <1>2 DEF Live
  <2>2. \A a \in Attempt : handler'[a] # "none" => a.try <= try[a.msg][a.idx]
    <3> SUFFICES ASSUME NEW a \in Attempt, Fires(a)
                 PROVE  a.try <= try[a.msg][a.idx]
      BY <1>2 DEF RefInv
    <3>1. try[a.msg][a.idx] \in 1 .. MaxAttempt[a.msg] /\ MaxAttempt[a.msg] \in Nat
      BY AttemptFacts, ParameterFacts DEF TypeOK
    <3>2. QED
      BY <3>1
  <2>3. QED
    BY <1>1, <2>1, <2>2 DEF RefInv
<1>5. ASSUME NEW n \in Msg, Once(n)'
      PROVE  SendInv(n)' /\ PhaseInv(n)'
  <2>1. Once(n) /\ Chunks(n)' = Chunks(n)
    BY <1>1, <1>5 DEF Once, Chunks, NumChunks
  <2>2. \A i \in Chunks(n) : /\ First(n, i) \in Attempt
                             /\ Fires(First(n, i)) <=> n = m /\ i \div ParallelSize = batch[m]
    <3>1. \A i \in Chunks(n) : Fires(First(n, i)) <=> n = m /\ i \in Batch(m, batch[m])
      BY DEF First
    <3>2. batch[m] \in Nat
      BY DEF TypeOK
    <3>3. QED
      BY <3>1, <3>2, BatchFacts, AttemptFacts
  <2>3. \A i \in Chunks(n) : Fires(First(n, i)) => handler[First(n, i)] = "none"
    BY <1>1, <2>1, <2>2 DEF SendInv
  <2>4. SendInv(n)'
    <3>1. CASE n # m
      BY <1>1, <1>2, <2>1, <2>2, <3>1, SendKept DEF TypeOK
    <3>2. CASE n = m
      <4>1. send'[m] = "join"
        BY <1>1 DEF TypeOK
      <4>2. batch[m] \in Nat /\ \A i \in Chunks(n) : i \div ParallelSize \in Nat
        BY BatchFacts DEF TypeOK
      <4>3. ASSUME NEW i \in Chunks(n)
            PROVE  /\ i \div ParallelSize < batch[n] => handler'[First(n, i)] = "done"
                   /\ i \div ParallelSize > batch[n] => handler'[First(n, i)] = "none"
        BY <1>1, <1>2, <2>1, <2>2, <3>2, <4>2 DEF SendInv
      <4>4. QED
        BY <1>1, <2>1, <3>2, <4>1, <4>3 DEF SendInv, First
    <3>3. QED
      BY <3>1, <3>2
  <2>5. PhaseInv(n)'
    BY <1>1, <1>2, <2>1, <2>2, <2>3, PhaseKept
  <2>6. QED
    BY <2>4, <2>5
<1>6. QED
  BY <1>3, <1>4, <1>5 DEF ChunkInv

\* When a batch is joined without a failure all its handlers are done.
LEMMA JoinBatchStep ==
  ASSUME ChunkInv, NEW m \in Msg, JoinBatch(m)
  PROVE  ChunkInv'
<1> USE Parts
<1>1. /\ send[m] = "join" /\ AllJoined(m)
      /\ UNCHANGED <<try, failed, handler, ref, out, heap, values, delivered>>
  BY DEF JoinBatch, recvVars
<1>2. /\ send' = [send EXCEPT ![m] = send'[m]] /\ batch' = [batch EXCEPT ![m] = batch'[m]]
      /\ \/ send'[m] = "failed" /\ batch'[m] = batch[m]
         \/ send'[m] = "fire" /\ batch'[m] = batch[m] + 1 /\ failed[m] = {}
         \/ /\ send'[m] = "sent" /\ batch'[m] = batch[m] /\ failed[m] = {}
            /\ batch[m] + 1 = NumBatches(m)
  BY DEF JoinBatch, TypeOK
<1>3. TypeOK'
  <2>0. send'[m] \in SendState /\ batch'[m] \in Nat
    BY <1>2 DEF TypeOK, SendState
  <2>1. send' \in [Msg -> SendState] /\ batch' \in [Msg -> Nat]
    BY <1>2, <2>0 DEF TypeOK
  <2>2. QED
    BY <1>1, <2>1 DEF TypeOK
<1>4. RefInv'
  BY <1>1 DEF RefInv
<1>5. ASSUME NEW n \in Msg, Once(n)'
      PROVE  SendInv(n)' /\ PhaseInv(n)'
  <2>1. Once(n) /\ Chunks(n)' = Chunks(n) /\ \A i : First(n, i)' = First(n, i)
    BY <1>1, <1>5 DEF Once, Chunks, NumChunks, First
  <2>2. PhaseInv(n)'
    BY <1>1, <2>1, PhaseKept
  <2>3. CASE n # m
    <3>1. send'[n] = send[n] /\ batch'[n] = batch[n]
      BY <1>2, <2>3 DEF TypeOK
    <3>2. QED
      BY <1>1, <2>1, <2>2, <3>1, SendKept
  <2>4. CASE n = m
    <3>1. batch[m] \in Nat /\ NumBatches(m) \in Nat
      BY ChunkFacts DEF TypeOK
    <3>2. \A i \in Chunks(m) : /\ i \div ParallelSize \in Nat
                               /\ i \div ParallelSize < NumBatches(m)
                               /\ i \in Batch(m, batch[m]) <=> i \div ParallelSize = batch[m]
      BY <3>1, BatchFacts
    <3>3. failed[m] = {} => \A i \in Chunks(m) :
            i \div ParallelSize = batch[m] => handler[First(m, i)] = "done"
      BY <1>1, <2>1, <2>4, <3>2 DEF AllJoined, Joined, Once, First
    <3>4. \A i \in Chunks(m) :
            /\ i \div ParallelSize < batch[m] => handler[First(m, i)] = "done"
            /\ i \div ParallelSize > batch[m] => handler[First(m, i)] = "none"
      BY <2>1, <2>4 DEF SendInv
    <3>5. \A i \in Chunks(m) :
            LET b == i \div ParallelSize
                h == handler[First(m, i)]
            IN  /\ b < batch'[m] \/ send'[m] = "sent" => h = "done"
                /\ b > batch'[m] \/ (b = batch'[m] /\ send'[m] = "fire") => h = "none"
      BY <1>2, <3>1, <3>2, <3>3, <3>4
    <3>6. SendInv(m)'
      BY <1>1, <2>1, <2>4, <3>5 DEF SendInv
    <3>7. QED
      BY <2>2, <2>4, <3>6
  <2>5. QED
    BY <2>3, <2>4
<1>6. QED
  BY <1>3, <1>4, <1>5 DEF ChunkInv

\* A message of which a chunk is pushed again leaves the scope of the invariant.
LEMMA RetryStep ==
  ASSUME ChunkInv, NEW a \in Attempt, Retry(a)
  PROVE  ChunkInv'
<1> USE Parts
<1> DEFINE m == a.msg
           c == [a EXCEPT !.try = @ + 1]
<1>0. /\ m \in Msg /\ a.idx \in Chunks(m) /\ a.try \in 1 .. MaxAttempt[m]
      /\ a = [msg |-> m, idx |-> a.idx, try |-> a.try] /\ MaxAttempt[m] \in Nat
  BY AttemptFacts, ParameterFacts
<1>1. /\ a.try = try[m][a.idx] /\ a.try < MaxAttempt[m]
      /\ try' = [try EXCEPT ![m][a.idx] = @ + 1]
      /\ handler' = [handler EXCEPT ![c] = "flight"]
      /\ UNCHANGED <<send, batch, failed, ref, out, heap, values, delivered>>
  BY DEF Retry
<1>2. c \in Attempt /\ c.msg = m /\ c.idx = a.idx /\ c.try = a.try + 1
  <2>1. c = [msg |-> m, idx |-> a.idx, try |-> a.try + 1]
    BY <1>0
  <2>2. a.try + 1 \in 1 .. MaxAttempt[m]
    BY <1>0, <1>1
  <2>3. QED
    BY <1>0, <2>1, <2>2, AttemptFacts
<1> HIDE DEF c
<1>3. handler'[c] = "flight" /\ \A b \in Attempt \ {c} : handler'[b] = handler[b]
  BY <1>1, <1>2 DEF TypeOK
<1>4. /\ DOMAIN try' = Msg
      /\ \A n \in Msg \ {m} : try'[n] = try[n]
      /\ try'[m] = [try[m] EXCEPT ![a.idx] = a.try + 1]
  BY <1>0, <1>1 DEF TypeOK
<1>5. /\ try[m] \in [Chunks(m) -> 1 .. MaxAttempt[m]]
      /\ try'[m] \in [Chunks(m) -> 1 .. MaxAttempt[m]]
      /\ try'[m][a.idx] = a.try + 1
      /\ \A i \in Chunks(m) \ {a.idx} : try'[m][i] = try[m][i]
  <2>1. try[m] \in [Chunks(m) -> 1 .. MaxAttempt[m]]
    BY <1>0 DEF TypeOK
  <2>2. a.try + 1 \in 1 .. MaxAttempt[m]
    BY <1>0, <1>1
  <2>3. QED
    BY <1>0, <1>4, <2>1, <2>2
<1>6. TypeOK'
  <2>1. handler' \in [Attempt -> HandlerState]
    BY <1>1, <1>2 DEF TypeOK, HandlerState
  <2>2. \A n \in Msg : try'[n] \in [Chunks(n) -> 1 .. MaxAttempt[n]]
    BY <1>4, <1>5 DEF TypeOK
  <2>3. QED
    BY <1>1, <1>4, <2>1, <2>2 DEF TypeOK, Chunks, NumChunks
<1>7. RefInv'
  <2>1. \A b \in Attempt : handler'[b] \in Live => handler[b] \in Live
    BY <1>3 DEF Live
  <2>2. ASSUME NEW b \in Attempt, handler'[b] # "none"
        PROVE  b.try <= try'[b.msg][b.idx]
    <3>1. /\ b.msg \in Msg /\ b.idx \in Chunks(b.msg)
          /\ b.try \in 1 .. MaxAttempt[b.msg] /\ MaxAttempt[b.msg] \in Nat
      BY AttemptFacts, ParameterFacts
    <3>2. CASE b = c
      BY <1>0, <1>2, <1>5, <3>2
    <3>3. CASE b # c
      <4>1. b.try <= try[b.msg][b.idx]
        BY <1>3, <2>2, <3>3 DEF RefInv
      <4>2. CASE b.msg = m /\ b.idx = a.idx
        BY <1>0, <1>1, <1>5, <3>1, <4>1, <4>2
      <4>3. CASE ~(b.msg = m /\ b.idx = a.idx)
        BY <1>4, <1>5, <3>1, <4>1, <4>3
      <4>4. QED
        BY <4>2, <4>3
    <3>4. QED
      BY <3>2, <3>3
  <2>3. QED
    BY <1>1, <2>1, <2>2 DEF RefInv
<1>8. ASSUME NEW n \in Msg, Once(n)'
      PROVE  SendInv(n)' /\ PhaseInv(n)'
  <2>1. n # m
    <3>1. try'[m][a.idx] # 1
      BY <1>0, <1>5
    <3>2. QED
      BY <1>0, <1>8, <3>1 DEF Once, Chunks, NumChunks
  <2>2. Once(n)
    BY <1>4, <1>8, <2>1 DEF Once, Chunks, NumChunks
  <2>3. \A i \in Chunks(n) : First(n, i) \in Attempt \ {c}
    BY <1>2, <2>1, AttemptFacts DEF First
  <2>4. SendInv(n)'
    BY <1>1, <1>3, <2>2, <2>3, SendKept
  <2>5. PhaseInv(n)'
    BY <1>1, <1>3, <2>2, <2>3, PhaseKept
  <2>6. QED
    BY <2>4, <2>5
<1>9. QED
  BY <1>6, <1>7, <1>8 DEF ChunkInv

\* A chunk that does not arrive is not added.
LEMMA FailStep ==
  ASSUME ChunkInv, NEW a \in Attempt, Fail(a)
  PROVE  ChunkInv'
<1> USE Parts
<1>0. a.msg \in Msg /\ a.idx \in Chunks(a.msg)
  BY AttemptFacts
<1>1. /\ handler[a] = "flight" /\ handler' = [handler EXCEPT ![a] = "none"]
      /\ failed' = [failed EXCEPT ![a.msg] = @ \cup {a.idx}]
      /\ UNCHANGED <<send, batch, try, ref, out, heap, values, delivered>>
  BY DEF Fail
<1>2. handler'[a] = "none" /\ \A b \in Attempt \ {a} : handler'[b] = handler[b]
  BY <1>1 DEF TypeOK
<1>3. TypeOK'
  <2>1. handler' \in [Attempt -> HandlerState]
    BY <1>1 DEF TypeOK, HandlerState
  <2>2. DOMAIN failed' = Msg /\ \A n \in Msg : failed'[n] \subseteq Chunks(n)
    BY <1>0, <1>1 DEF TypeOK
  <2>3. QED
    BY <1>1, <2>1, <2>2 DEF TypeOK, Chunks, NumChunks
<1>4. RefInv'
  BY <1>1, <1>2 DEF RefInv, Live
<1>5. ASSUME NEW n \in Msg, Once(n)'
      PROVE  SendInv(n)' /\ PhaseInv(n)'
  <2>1. Once(n)
    BY <1>1, <1>5 DEF Once, Chunks, NumChunks
  <2>2. \A i \in Chunks(n) :
          \/ handler'[First(n, i)] = handler[First(n, i)]
          \/ handler[First(n, i)] = "flight" /\ handler'[First(n, i)] = "none"
    BY <1>1, <1>2, AttemptFacts
  <2>3. SendInv(n)'
    BY <1>1, <2>1, <2>2, SendKept
  <2>4. PhaseInv(n)'
    BY <1>1, <2>1, <2>2, PhaseKept
  <2>5. QED
    BY <2>3, <2>4
<1>6. QED
  BY <1>3, <1>4, <1>5 DEF ChunkInv

-----------------------------------------------------------------------------
(* The handlers preserve the invariant.                                    *)

\* What each handler step has to show: the types, the objects, and the phase of
\* its own message if no chunk of it is pushed twice.
LEMMA HandlerStep ==
  ASSUME ChunkInv, NEW a \in Attempt, NEW s \in HandlerState \ {"none"}, Goto(a, s),
         handler[a] \notin {"none", "done"},
         UNCHANGED sendVars, TypeOK', RefInv',
         \A m \in Msg \ {a.msg} : values'[m] = values[m] /\ delivered'[m] = delivered[m],
         \A b \in Attempt \ {a} : ref'[b] = ref[b] /\ out'[b] = out[b],
         \A j \in 1 .. Len(heap) : heap[j].msg # a.msg => heap'[j] = heap[j],
         \A i \in Chunks(a.msg) :
            /\ a = First(a.msg, i) /\ PhaseInv(a.msg)
            /\ \A b \in Chunks(a.msg) \ {i} :
                 /\ First(a.msg, b) \in Attempt \ {a}
                 /\ handler'[First(a.msg, b)] = handler[First(a.msg, b)]
            => PhaseInv(a.msg)'
  PROVE  ChunkInv'
<1> USE Parts
<1>1. handler'[a] = s /\ \A b \in Attempt \ {a} : handler'[b] = handler[b]
  BY DEF Goto, TypeOK
<1>2. ASSUME NEW n \in Msg, Once(n)'
      PROVE  SendInv(n)' /\ PhaseInv(n)'
  <2>1. Once(n)
    BY <1>2 DEF Once, Chunks, NumChunks, sendVars
  <2>2. SendInv(n)'
    <3>1. \A i \in Chunks(n) : \/ handler'[First(n, i)] = handler[First(n, i)]
                               \/ handler[First(n, i)] \notin {"none", "done"}
      BY <1>1, AttemptFacts
    <3>2. QED
      BY <2>1, <3>1, SendKept DEF sendVars
  <2>3. CASE n # a.msg
    BY <1>1, <2>1, <2>2, <2>3, OthersKept
  <2>4. CASE n = a.msg
    <3>1. a = First(n, a.idx) /\ a.idx \in Chunks(n)
      BY <2>1, <2>4, FirstAttempt, AttemptFacts
    <3>2. \A b \in Chunks(n) \ {a.idx} : First(n, b) \in Attempt \ {a}
      BY <3>1, AttemptFacts DEF First
    <3>3. QED
      BY <1>1, <2>1, <2>2, <2>4, <3>1, <3>2
  <2>5. QED
    BY <2>3, <2>4
<1>3. QED
  BY <1>2 DEF ChunkInv

\* The new type of the handlers.
LEMMA GotoType ==
  ASSUME TypeOK, NEW a \in Attempt, NEW s \in HandlerState, Goto(a, s)
  PROVE  /\ handler' \in [Attempt -> HandlerState]
         /\ handler'[a] = s /\ \A b \in Attempt \ {a} : handler'[b] = handler[b]
  BY DEF Goto, TypeOK

\* What an index of heap, or an entry of chunked_values_, points to.
LEMMA ObjectFacts ==
  ASSUME TypeOK, RefInv
  PROVE  /\ Len(heap) \in Nat
         /\ \A j \in 1 .. Len(heap) :
              heap[j] \in Object /\ heap[j].chunks \in SUBSET Nat /\ heap[j].size \in Nat
         /\ \A a \in Attempt : handler[a] \in Live =>
              ref[a] \in 1 .. Len(heap) /\ heap[ref[a]].msg = a.msg
         /\ \A m \in Msg : values[m] # 0 =>
              values[m] \in 1 .. Len(heap) /\ heap[values[m]].msg = m
<1>1. heap \in Seq(Object) /\ Len(heap) \in Nat
  BY DEF TypeOK
<1>2. \A j \in 1 .. Len(heap) : heap[j] \in Object
  BY <1>1
<1>3. \A a \in Attempt : ref[a] \in 0 .. Len(heap)
  BY DEF TypeOK
<1>4. \A m \in Msg : values[m] \in 0 .. Len(heap)
  BY DEF TypeOK
<1>5. QED
  BY <1>1, <1>2, <1>3, <1>4 DEF RefInv, Object

\* The handler finds the ChunkedMessage of its key, or makes it.
LEMMA FindOrInsertStep ==
  ASSUME ChunkInv, NEW a \in Attempt, FindOrInsert(a)
  PROVE  ChunkInv'
<1> USE Parts
<1> DEFINE m == a.msg
           o == ref'[a]
           new == [msg |-> m, chunks |-> {}, size |-> 0]
<1>0. m \in Msg
  BY AttemptFacts
<1>1. /\ handler[a] = "flight" /\ Goto(a, "add")
      /\ UNCHANGED <<sendVars, out, delivered>>
      /\ "add" \in HandlerState \ {"none"} /\ "add" \in Live /\ "add" \notin HasAdded
      /\ "flight" \notin Live
  BY DEF FindOrInsert, HandlerState, Live, HasAdded
<1>2. /\ ref' = [ref EXCEPT ![a] = o] /\ values' = [values EXCEPT ![m] = o]
      /\ \/ values[m] # 0 /\ o = values[m] /\ UNCHANGED <<heap, values>>
         \/ values[m] = 0 /\ o = Len(heap) + 1 /\ heap' = Append(heap, new)
  BY <1>0 DEF FindOrInsert, TypeOK
<1>3. /\ handler' \in [Attempt -> HandlerState]
      /\ handler'[a] = "add" /\ \A b \in Attempt \ {a} : handler'[b] = handler[b]
  BY <1>1, GotoType
<1>4. /\ heap' \in Seq(Object) /\ Len(heap) \in Nat /\ Len(heap') \in Nat
      /\ Len(heap) <= Len(heap')
      /\ \A j \in 1 .. Len(heap) : heap'[j] = heap[j]
      /\ o \in 1 .. Len(heap') /\ heap'[o].msg = m
      /\ values[m] = 0 => heap'[o] = new
  <2>1. heap \in Seq(Object) /\ Len(heap) \in Nat
    BY DEF TypeOK
  <2>2. CASE values[m] # 0 /\ o = values[m] /\ UNCHANGED <<heap, values>>
    BY <1>0, <2>1, <2>2, ObjectFacts
  <2>3. CASE values[m] = 0 /\ o = Len(heap) + 1 /\ heap' = Append(heap, new)
    <3>1. new \in Object
      BY <1>0 DEF Object
    <3> HIDE DEF new, o
    <3>2. /\ heap' \in Seq(Object) /\ Len(heap') = Len(heap) + 1
          /\ \A j \in 1 .. Len(heap) : heap'[j] = heap[j]
          /\ heap'[o] = new
      BY <2>1, <2>3, <3>1
    <3>3. QED
      BY <2>1, <2>3, <3>2 DEF new
  <2>4. QED
    BY <1>2, <2>2, <2>3
<1> HIDE DEF o, new
<1>5. /\ ref'[a] = o /\ \A b \in Attempt \ {a} : ref'[b] = ref[b]
      /\ values'[m] = o /\ \A n \in Msg \ {m} : values'[n] = values[n]
  BY <1>0, <1>2 DEF TypeOK
<1>6. TypeOK'
  <2>1. ref' \in [Attempt -> 0 .. Len(heap')] /\ values' \in [Msg -> 0 .. Len(heap')]
    BY <1>0, <1>2, <1>4 DEF TypeOK
  <2>2. QED
    BY <1>1, <1>3, <1>4, <2>1 DEF TypeOK, sendVars, Chunks, NumChunks
<1>7. RefInv'
  <2>1. ASSUME NEW b \in Attempt
        PROVE  /\ handler'[b] # "none" => b.try <= try'[b.msg][b.idx]
               /\ handler'[b] \in Live => ref'[b] # 0 /\ heap'[ref'[b]].msg = b.msg
    <3>1. CASE b = a
      BY <1>1, <1>4, <1>5, <3>1 DEF RefInv, sendVars
    <3>2. CASE b # a
      BY <1>1, <1>3, <1>4, <1>5, <3>2, ObjectFacts DEF RefInv, sendVars
    <3>3. QED
      BY <3>1, <3>2
  <2>2. \A n \in Msg : values'[n] # 0 => heap'[values'[n]].msg = n
    BY <1>4, <1>5, ObjectFacts
  <2>3. QED
    BY <2>1, <2>2 DEF RefInv
<1>8. ASSUME NEW i \in Chunks(m), a = First(m, i), PhaseInv(m),
             \A b \in Chunks(m) \ {i} :
                /\ First(m, b) \in Attempt \ {a}
                /\ handler'[First(m, b)] = handler[First(m, b)]
      PROVE  PhaseInv(m)'
  <2> DEFINE F(b) == First(m, b)
  <2>1. /\ \A b : F(b)' = F(b)
        /\ Chunks(m)' = Chunks(m) /\ \A C : BytesOf(m, C)' = BytesOf(m, C)
    BY DEF First, Chunks, NumChunks, BytesOf
  <2>2. Added(m)' = Added(m) /\ i \notin Added(m)
    BY <1>1, <1>3, <1>8, <2>1 DEF Added, HasAdded
  <2>3. ~Filled(m)
    BY <2>2 DEF Filled
  <2>4. Filling(m)'
    <3>1. CASE Filling(m)
      <4>1. values[m] # 0 /\ o = values[m] /\ heap'[o] = heap[o]
        BY <1>2, <3>1, <1>0, <1>4, ObjectFacts DEF Filling
      <4>2. /\ values'[m] # 0 /\ delivered'[m] = <<>>
            /\ heap'[values'[m]].chunks = Added(m)'
            /\ heap'[values'[m]].size = Cardinality(BytesOf(m, Added(m)))'
        BY <1>1, <1>5, <2>2, <3>1, <4>1 DEF Filling, BytesOf
      <4>3. \A b \in Chunks(m) :
              /\ handler'[F(b)] \notin {"reassemble", "deliver"}
              /\ handler'[F(b)] \in Live => ref'[F(b)] = values'[m]
              /\ handler'[F(b)] = "erase" => Added(m)' = Chunks(m)
        BY <1>3, <1>5, <1>8, <2>2, <3>1, <4>1 DEF Filling
      <4>4. Added(m)' # Chunks(m)
        BY <2>2
      <4>5. QED
        BY <2>1, <4>2, <4>3, <4>4 DEF Filling
    <3>2. CASE Untouched(m)
      <4>1. Added(m) = {}
        BY <3>2 DEF Untouched, Added, HasAdded
      <4>2. /\ values'[m] # 0 /\ delivered'[m] = <<>>
            /\ heap'[values'[m]].chunks = {} /\ heap'[values'[m]].size = 0
        BY <1>1, <1>4, <1>5, <3>2 DEF Untouched, new
      <4>3. Cardinality(BytesOf(m, Added(m)))' = 0
        BY <1>0, <2>2, <4>1, BytesFacts DEF BytesOf
      <4>4. \A b \in Chunks(m) :
              /\ handler'[F(b)] \notin {"reassemble", "deliver", "erase"}
              /\ handler'[F(b)] \in Live => ref'[F(b)] = values'[m]
        <5>1. \A x \in {"reassemble", "deliver", "erase"} : x \in Live
          BY DEF Live, HandlerState
        <5>2. QED
          BY <1>3, <1>5, <1>8, <3>2, <5>1 DEF Untouched
      <4>5. Added(m)' # Chunks(m)
        BY <2>2
      <4>6. QED
        BY <2>1, <2>2, <4>1, <4>2, <4>3, <4>4, <4>5 DEF Filling
    <3>3. QED
      BY <1>8, <2>3, <3>1, <3>2 DEF PhaseInv
  <2>5. QED
    BY <2>4 DEF PhaseInv
<1>9. QED
  BY <1>1, <1>4, <1>5, <1>6, <1>7, <1>8, HandlerStep

\* A change of one object, which belongs to the key of the handler.
LEMMA ObjectChange ==
  ASSUME TypeOK, RefInv, NEW a \in Attempt, handler[a] \in Live,
         NEW C \in SUBSET Nat, NEW n \in Nat,
         heap' = [heap EXCEPT ![ref[a]].chunks = C, ![ref[a]].size = n]
  PROVE  /\ heap' \in Seq(Object) /\ Len(heap') = Len(heap)
         /\ heap'[ref[a]].chunks = C /\ heap'[ref[a]].size = n
         /\ \A j \in 1 .. Len(heap) : heap'[j].msg = heap[j].msg
         /\ \A j \in 1 .. Len(heap) : j # ref[a] => heap'[j] = heap[j]
         /\ \A j \in 1 .. Len(heap) : heap[j].msg # a.msg => heap'[j] = heap[j]
<1> DEFINE o == ref[a]
<1>1. heap \in Seq(Object) /\ o \in 1 .. Len(heap) /\ heap[o].msg = a.msg
  BY ObjectFacts DEF TypeOK
<1>2. heap[o] \in Object
  BY <1>1, ObjectFacts
<1>3. DOMAIN heap = 1 .. Len(heap)
  BY <1>1
<1>4. heap' = [heap EXCEPT ![o] = [msg |-> heap[o].msg, chunks |-> C, size |-> n]]
  <2> DEFINE one == [heap EXCEPT ![o].chunks = C]
             two == [one EXCEPT ![o].size = n]
             new == [heap EXCEPT ![o] = [msg |-> heap[o].msg, chunks |-> C, size |-> n]]
  <2>1. heap' = two
    OBVIOUS
  <2>2. one[o] = [heap[o] EXCEPT !.chunks = C] /\ DOMAIN one = DOMAIN heap
        /\ \A j \in DOMAIN heap : j # o => one[j] = heap[j]
    BY <1>1, <1>3
  <2>3. one[o] = [msg |-> heap[o].msg, chunks |-> C, size |-> heap[o].size]
    BY <1>2, <2>2 DEF Object
  <2> HIDE DEF one
  <2>4. two[o] = [one[o] EXCEPT !.size = n] /\ DOMAIN two = DOMAIN heap
        /\ \A j \in DOMAIN heap : j # o => two[j] = heap[j]
    BY <1>1, <1>3, <2>2
  <2>5. two[o] = [msg |-> heap[o].msg, chunks |-> C, size |-> n]
    BY <2>3, <2>4
  <2>6. two = [j \in DOMAIN heap |-> two[j]] /\ new = [j \in DOMAIN heap |-> new[j]]
    BY <2>4
  <2>7. \A j \in DOMAIN heap : two[j] = new[j]
    BY <1>1, <1>3, <2>4, <2>5
  <2> HIDE DEF two, new
  <2>8. two = new
    BY <2>6, <2>7, Zenon
  <2>9. QED
    BY <2>1, <2>8 DEF new
<1>5. [msg |-> heap[o].msg, chunks |-> C, size |-> n] \in Object
  BY <1>2 DEF Object
<1>6. heap' \in Seq(Object) /\ Len(heap') = Len(heap)
  BY <1>1, <1>4, <1>5
<1>7. /\ heap'[o] = [msg |-> heap[o].msg, chunks |-> C, size |-> n]
      /\ \A j \in 1 .. Len(heap) : j # o => heap'[j] = heap[j]
  BY <1>1, <1>3, <1>4
<1>8. QED
  BY <1>1, <1>6, <1>7

\* The steps that give no handler another object, and no key another entry
\* than none.
LEMMA RefKept ==
  ASSUME TypeOK, RefInv, NEW a \in Attempt, NEW s \in HandlerState, Goto(a, s),
         handler[a] \in Live, UNCHANGED <<try, ref>>,
         \A m \in Msg : values'[m] = values[m] \/ values'[m] = 0,
         \A j \in 1 .. Len(heap) : heap'[j].msg = heap[j].msg
  PROVE  RefInv'
<1>1. \A b \in Attempt : handler'[b] = handler[b] \/ b = a
  BY GotoType
<1>2. handler[a] # "none"
  BY DEF Live
<1>3. \A b \in Attempt :
        /\ handler'[b] # "none" => b.try <= try'[b.msg][b.idx]
        /\ handler'[b] \in Live => ref'[b] # 0 /\ heap'[ref'[b]].msg = b.msg
  BY <1>1, <1>2, ObjectFacts DEF RefInv
<1>4. \A m \in Msg : values'[m] # 0 => heap'[values'[m]].msg = m
  BY ObjectFacts
<1>5. QED
  BY <1>3, <1>4 DEF RefInv

\* The constants that the phases speak of do not change.
LEMMA Rigid ==
  ASSUME NEW m
  PROVE  /\ \A i : First(m, i)' = First(m, i)
         /\ Chunks(m)' = Chunks(m) /\ Whole(m)' = Whole(m)
  BY DEF First, Chunks, NumChunks, Whole

\* AddChunk: one chunk and its bytes more, and this handler will check.
LEMMA AddChunkStep ==
  ASSUME ChunkInv, NEW a \in Attempt, AddChunk(a)
  PROVE  ChunkInv'
<1> USE Parts
<1> DEFINE m == a.msg
           o == ref[a]
<1>0. m \in Msg /\ a.idx \in Chunks(m) /\ a.idx \in Nat /\ ChunkSize(m, a.idx) \in Nat
  BY AttemptFacts, ChunkFacts
<1>1. /\ handler[a] = "add" /\ Goto(a, "check")
      /\ heap' = [heap EXCEPT ![o].chunks = heap[o].chunks \cup {a.idx},
                              ![o].size = heap[o].size + ChunkSize(m, a.idx)]
      /\ UNCHANGED <<sendVars, ref, out, values, delivered>>
      /\ "check" \in HandlerState \ {"none"} /\ "check" \in HasAdded
      /\ "add" \in Live /\ "add" \notin HasAdded
  <2>1. o \in 1 .. Len(heap) /\ handler[a] = "add"
    BY ObjectFacts DEF AddChunk, Live, HandlerState
  <2>2. heap' = [heap EXCEPT ![o].chunks = @ \cup {a.idx},
                             ![o].size = @ + ChunkSize(m, a.idx)]
    BY DEF AddChunk
  <2>3. heap[o] \in Object /\ DOMAIN heap = 1 .. Len(heap)
    BY <2>1, ObjectFacts DEF TypeOK
  <2>4. heap' = [heap EXCEPT ![o].chunks = heap[o].chunks \cup {a.idx},
                             ![o].size = heap[o].size + ChunkSize(m, a.idx)]
    BY <2>1, <2>2, <2>3 DEF Object
  <2>5. QED
    BY <2>4 DEF AddChunk, HandlerState, HasAdded, Live
<1>2. /\ o \in 1 .. Len(heap) /\ heap[o].chunks \in SUBSET Nat /\ heap[o].size \in Nat
      /\ heap[o].chunks \cup {a.idx} \in SUBSET Nat
      /\ heap[o].size + ChunkSize(m, a.idx) \in Nat
  BY <1>0, <1>1, ObjectFacts
<1>3. /\ heap' \in Seq(Object) /\ Len(heap') = Len(heap)
      /\ heap'[o].chunks = heap[o].chunks \cup {a.idx}
      /\ heap'[o].size = heap[o].size + ChunkSize(m, a.idx)
      /\ \A j \in 1 .. Len(heap) : heap'[j].msg = heap[j].msg
      /\ \A j \in 1 .. Len(heap) : heap[j].msg # m => heap'[j] = heap[j]
  <2> DEFINE C == heap[o].chunks \cup {a.idx}
             n == heap[o].size + ChunkSize(m, a.idx)
  <2>1. C \in SUBSET Nat /\ n \in Nat /\ handler[a] \in Live
        /\ heap' = [heap EXCEPT ![ref[a]].chunks = C, ![ref[a]].size = n]
    BY <1>1, <1>2
  <2>0. TypeOK /\ RefInv
    BY Parts
  <2> HIDE DEF C, n
  <2>2. /\ heap' \in Seq(Object) /\ Len(heap') = Len(heap)
        /\ heap'[ref[a]].chunks = C /\ heap'[ref[a]].size = n
        /\ \A j \in 1 .. Len(heap) : heap'[j].msg = heap[j].msg
        /\ \A j \in 1 .. Len(heap) : j # ref[a] => heap'[j] = heap[j]
        /\ \A j \in 1 .. Len(heap) : heap[j].msg # a.msg => heap'[j] = heap[j]
    BY <2>0, <2>1, ObjectChange, Zenon
  <2>3. QED
    BY <2>2 DEF C, n
<1>4. /\ handler' \in [Attempt -> HandlerState]
      /\ handler'[a] = "check" /\ \A b \in Attempt \ {a} : handler'[b] = handler[b]
  BY <1>1, GotoType
<1>5. TypeOK'
  BY <1>1, <1>3, <1>4 DEF TypeOK, sendVars, Chunks, NumChunks
<1>6. RefInv'
  BY <1>1, <1>3, RefKept DEF sendVars
<1>7. ASSUME NEW i \in Chunks(m), a = First(m, i), PhaseInv(m),
             \A b \in Chunks(m) \ {i} :
                /\ First(m, b) \in Attempt \ {a}
                /\ handler'[First(m, b)] = handler[First(m, b)]
      PROVE  PhaseInv(m)'
  <2>1. a.idx = i
    BY <1>7 DEF First
  <2>2. i \notin Added(m) /\ Added(m)' = Added(m) \cup {i}
    BY <1>1, <1>4, <1>7, Rigid DEF Added, HasAdded
  <2>3. Filling(m)
    BY <1>1, <1>7, <2>2 DEF PhaseInv, Untouched, Filled
  <2>4. o = values[m]
    BY <1>1, <1>7, <2>3 DEF Filling
  <2>5. Added(m) \in SUBSET Chunks(m)
    BY DEF Added
  <2>6. heap'[o].size = Cardinality(BytesOf(m, Added(m) \cup {i}))
    <3>1. heap[o].size = Cardinality(BytesOf(m, Added(m)))
      BY <2>3, <2>4 DEF Filling
    <3>2. Cardinality(BytesOf(m, Added(m) \cup {i}))
            = Cardinality(BytesOf(m, Added(m))) + ChunkSize(m, i)
      BY <1>0, <1>7, <2>2, <2>5, BytesFacts, SMTT(30)
    <3>3. QED
      BY <1>3, <2>1, <3>1, <3>2
  <2>7. /\ values'[m] # 0 /\ delivered'[m] = <<>>
        /\ heap'[values'[m]].chunks = Added(m)'
        /\ heap'[values'[m]].size = Cardinality(BytesOf(m, Added(m)))'
    BY <1>1, <1>3, <2>1, <2>2, <2>3, <2>4, <2>6 DEF Filling, BytesOf
  <2>8. \A b \in Chunks(m) :
          /\ handler'[First(m, b)] \notin {"reassemble", "deliver", "erase"}
          /\ handler'[First(m, b)] \in Live => ref'[First(m, b)] = values'[m]
    <3>1. CASE Added(m) # Chunks(m)
      BY <1>1, <1>4, <1>7, <2>3, <2>4, <3>1 DEF Filling
    <3>2. QED
      BY <2>2, <3>1
  <2>9. handler'[First(m, i)] \in {"check", "erase"}
    BY <1>4, <1>7
  <2>10. Filling(m)'
    BY <2>7, <2>8, <2>9, Rigid DEF Filling
  <2>11. QED
    BY <2>10 DEF PhaseInv
<1>8. QED
  BY <1>1, <1>3, <1>5, <1>6, <1>7, HandlerStep

\* IsFullyFilled is true when the object holds all the chunks.
LEMMA IsFullyFilledStep ==
  ASSUME ChunkInv, NEW a \in Attempt, IsFullyFilled(a)
  PROVE  ChunkInv'
<1> USE Parts
<1> DEFINE m == a.msg
           o == ref[a]
           s == IF Cardinality(heap[o].chunks) = NumChunks(m) THEN "erase" ELSE "done"
<1>0. m \in Msg
  BY AttemptFacts
<1>1. /\ handler[a] = "check" /\ Goto(a, s)
      /\ UNCHANGED <<sendVars, ref, out, heap, values, delivered>>
      /\ s \in HandlerState \ {"none"} /\ s \in HasAdded
      /\ s \notin {"reassemble", "deliver"}
      /\ "check" \in HasAdded /\ "check" \in Live
  BY DEF IsFullyFilled, HandlerState, HasAdded, Live
<1> HIDE DEF s
<1>4. /\ handler' \in [Attempt -> HandlerState]
      /\ handler'[a] = s /\ \A b \in Attempt \ {a} : handler'[b] = handler[b]
  BY <1>1, GotoType
<1>5. TypeOK'
  BY <1>1, <1>4 DEF TypeOK, sendVars, Chunks, NumChunks
<1>6. RefInv'
  BY <1>1, RefKept DEF sendVars
<1>7. ASSUME NEW i \in Chunks(m), a = First(m, i), PhaseInv(m),
             \A b \in Chunks(m) \ {i} :
                /\ First(m, b) \in Attempt \ {a}
                /\ handler'[First(m, b)] = handler[First(m, b)]
      PROVE  PhaseInv(m)'
  <2>1. Added(m)' = Added(m)
    BY <1>1, <1>4, <1>7, Rigid DEF Added
  <2>2. CASE Filling(m)
    <3>1. o = values[m] /\ heap[o].chunks = Added(m)
      BY <1>1, <1>7, <2>2 DEF Filling
    <3>2. s = "erase" <=> Added(m) = Chunks(m)
      <4>1. Added(m) \in SUBSET Chunks(m)
        BY DEF Added
      <4>2. Cardinality(Added(m)) = Cardinality(Chunks(m)) => Added(m) = Chunks(m)
        BY <1>0, <4>1, ChunkFacts, FS_Subset
      <4>3. QED
        BY <1>0, <3>1, <4>2, ChunkFacts DEF s
    <3>3. /\ values'[m] # 0 /\ delivered'[m] = <<>>
          /\ heap'[values'[m]].chunks = Added(m)'
          /\ heap'[values'[m]].size = Cardinality(BytesOf(m, Added(m)))'
      BY <1>1, <2>1, <2>2 DEF Filling, BytesOf
    <3>4. \A b \in Chunks(m) :
            /\ handler'[First(m, b)] \notin {"reassemble", "deliver"}
            /\ handler'[First(m, b)] \in Live => ref'[First(m, b)] = values'[m]
            /\ handler'[First(m, b)] = "erase" => Added(m) = Chunks(m)
      BY <1>1, <1>4, <1>7, <2>2, <3>1, <3>2 DEF Filling
    <3>5. Added(m) = Chunks(m) => handler'[First(m, i)] \in {"check", "erase"}
      BY <1>4, <1>7, <3>2
    <3>6. Filling(m)'
      BY <2>1, <3>3, <3>4, <3>5, Rigid DEF Filling
    <3>7. QED
      BY <3>6 DEF PhaseInv
  <2>3. CASE Filled(m)
    <3>1. \A b \in Chunks(m) :
            /\ Winner(m, b) => Winner(m, b)'
            /\ handler[First(m, b)] \notin {"reassemble", "deliver"} =>
                 handler'[First(m, b)] \notin {"reassemble", "deliver"}
      BY <1>1, <1>4, <1>7, Rigid DEF Winner
    <3>2. Filled(m)'
      BY <1>1, <2>1, <2>3, <3>1, Rigid DEF Filled
    <3>3. QED
      BY <3>2 DEF PhaseInv
  <2>4. ~Untouched(m)
    BY <1>1, <1>7 DEF Untouched
  <2>5. QED
    BY <1>7, <2>2, <2>3, <2>4 DEF PhaseInv
<1>8. QED
  BY <1>1, <1>5, <1>6, <1>7, HandlerStep

\* The first handler that has seen the object filled erases the entry.
LEMMA EraseEntryStep ==
  ASSUME ChunkInv, NEW a \in Attempt, EraseEntry(a)
  PROVE  ChunkInv'
<1> USE Parts
<1> DEFINE m == a.msg
           s == IF values[m] = 0 THEN "done" ELSE "reassemble"
<1>0. m \in Msg
  BY AttemptFacts
<1>1. /\ handler[a] = "erase" /\ Goto(a, s)
      /\ values' = [values EXCEPT ![m] = 0]
      /\ UNCHANGED <<sendVars, ref, out, heap, delivered>>
      /\ s \in HandlerState \ {"none"} /\ s \in HasAdded
      /\ "erase" \in HasAdded /\ "erase" \in Live
  BY DEF EraseEntry, HandlerState, HasAdded, Live
<1> HIDE DEF s
<1>3. values'[m] = 0 /\ \A n \in Msg \ {m} : values'[n] = values[n]
  BY <1>0, <1>1 DEF TypeOK
<1>4. /\ handler' \in [Attempt -> HandlerState]
      /\ handler'[a] = s /\ \A b \in Attempt \ {a} : handler'[b] = handler[b]
  BY <1>1, GotoType
<1>5. TypeOK'
  <2>1. values' \in [Msg -> 0 .. Len(heap)]
    BY <1>0, <1>1, ObjectFacts DEF TypeOK
  <2>2. QED
    BY <1>1, <1>4, <2>1 DEF TypeOK, sendVars, Chunks, NumChunks
<1>6. RefInv'
  BY <1>1, <1>3, RefKept DEF sendVars
<1>7. ASSUME NEW i \in Chunks(m), a = First(m, i), PhaseInv(m),
             \A b \in Chunks(m) \ {i} :
                /\ First(m, b) \in Attempt \ {a}
                /\ handler'[First(m, b)] = handler[First(m, b)]
      PROVE  PhaseInv(m)'
  <2>1. Added(m)' = Added(m)
    BY <1>1, <1>4, <1>7, Rigid DEF Added
  <2>2. CASE Filling(m)
    <3>1. ref[a] = values[m] /\ Added(m) = Chunks(m) /\ s = "reassemble"
      BY <1>1, <1>7, <2>2 DEF Filling, s
    <3>2. heap[ref[a]].chunks = Chunks(m) /\ heap[ref[a]].size = Bytes[m]
      BY <1>0, <2>2, <3>1, BytesFacts DEF Filling
    <3>3. Winner(m, i)'
      BY <1>1, <1>4, <1>7, <3>1, <3>2, Rigid DEF Winner
    <3>4. \A b \in Chunks(m) \ {i} :
            handler'[First(m, b)] \notin {"reassemble", "deliver"}
      BY <1>7, <2>2 DEF Filling
    <3>5. delivered'[m] = <<>>
      BY <1>1, <2>2 DEF Filling
    <3>6. Filled(m)'
      BY <1>3, <2>1, <3>1, <3>3, <3>4, <3>5, Rigid DEF Filled
    <3>7. QED
      BY <3>6 DEF PhaseInv
  <2>3. CASE Filled(m)
    <3>0. s = "done"
      BY <2>3 DEF Filled, s
    <3>1. \A b \in Chunks(m) :
            /\ Winner(m, b) => Winner(m, b)'
            /\ handler[First(m, b)] \notin {"reassemble", "deliver"} =>
                 handler'[First(m, b)] \notin {"reassemble", "deliver"}
      BY <1>1, <1>4, <1>7, <3>0, Rigid DEF Winner
    <3>2. Filled(m)'
      BY <1>1, <1>3, <2>1, <2>3, <3>1, Rigid DEF Filled
    <3>3. QED
      BY <3>2 DEF PhaseInv
  <2>4. ~Untouched(m)
    BY <1>1, <1>7 DEF Untouched
  <2>5. QED
    BY <1>7, <2>2, <2>3, <2>4 DEF PhaseInv
<1>8. QED
  BY <1>1, <1>3, <1>5, <1>6, <1>7, HandlerStep

\* That handler, and no other, reassembles the message.
LEMMA ReassembleStep ==
  ASSUME ChunkInv, NEW a \in Attempt, Reassemble(a)
  PROVE  ChunkInv'
<1> USE Parts
<1> DEFINE m == a.msg
           o == ref[a]
           buf == [size |-> heap[o].size, chunks |-> heap[o].chunks]
<1>0. m \in Msg
  BY AttemptFacts
<1>1. /\ handler[a] = "reassemble" /\ Goto(a, "deliver")
      /\ out' = [out EXCEPT ![a] = buf]
      /\ heap' = [heap EXCEPT ![o].chunks = {}, ![o].size = 0]
      /\ UNCHANGED <<sendVars, ref, values, delivered>>
      /\ "deliver" \in HandlerState \ {"none"} /\ "deliver" \in HasAdded
      /\ "reassemble" \in HasAdded /\ "reassemble" \in Live
  BY DEF Reassemble, HandlerState, HasAdded, Live
<1>2. buf \in Buffer
  BY <1>1, ObjectFacts DEF Buffer
<1> HIDE DEF buf
<1>3. /\ heap' \in Seq(Object) /\ Len(heap') = Len(heap)
      /\ \A j \in 1 .. Len(heap) : heap'[j].msg = heap[j].msg
      /\ \A j \in 1 .. Len(heap) : heap[j].msg # m => heap'[j] = heap[j]
  <2> DEFINE C == {}
             n == 0
  <2>1. C \in SUBSET Nat /\ n \in Nat /\ handler[a] \in Live
        /\ heap' = [heap EXCEPT ![ref[a]].chunks = C, ![ref[a]].size = n]
    BY <1>1
  <2> HIDE DEF C, n
  <2>2. QED
    BY <2>1, ObjectChange
<1>4. /\ handler' \in [Attempt -> HandlerState]
      /\ handler'[a] = "deliver" /\ \A b \in Attempt \ {a} : handler'[b] = handler[b]
      /\ out'[a] = buf /\ \A b \in Attempt \ {a} : out'[b] = out[b]
  BY <1>1, GotoType DEF TypeOK
<1>5. TypeOK'
  <2>1. out' \in [Attempt -> Buffer]
    BY <1>1, <1>2 DEF TypeOK
  <2>2. QED
    BY <1>1, <1>3, <1>4, <2>1 DEF TypeOK, sendVars, Chunks, NumChunks
<1>6. RefInv'
  BY <1>1, <1>3, RefKept DEF sendVars
<1>7. ASSUME NEW i \in Chunks(m), a = First(m, i), PhaseInv(m),
             \A b \in Chunks(m) \ {i} :
                /\ First(m, b) \in Attempt \ {a}
                /\ handler'[First(m, b)] = handler[First(m, b)]
      PROVE  PhaseInv(m)'
  <2>1. Added(m)' = Added(m)
    BY <1>1, <1>4, <1>7, Rigid DEF Added
  <2>2. Filled(m)
    BY <1>1, <1>7 DEF PhaseInv, Untouched, Filling
  <2>3. /\ delivered[m] = <<>> /\ Winner(m, i)
        /\ \A b \in Chunks(m) \ {i} :
             handler[First(m, b)] \notin {"reassemble", "deliver"}
    BY <1>1, <1>7, <2>2 DEF Filled
  <2>4. buf = Whole(m)
    BY <1>1, <1>7, <2>3 DEF Winner, Whole, buf
  <2>5. Winner(m, i)'
    BY <1>4, <1>7, <2>4, Rigid DEF Winner
  <2>6. Filled(m)'
    BY <1>1, <1>7, <2>1, <2>2, <2>3, <2>5, Rigid DEF Filled
  <2>7. QED
    BY <2>6 DEF PhaseInv
<1>8. QED
  BY <1>1, <1>3, <1>4, <1>5, <1>6, <1>7, HandlerStep

\* ... and delivers it.
LEMMA DeliverStep ==
  ASSUME ChunkInv, NEW a \in Attempt, Deliver(a)
  PROVE  ChunkInv'
<1> USE Parts
<1> DEFINE m == a.msg
<1>0. m \in Msg
  BY AttemptFacts
<1>1. /\ handler[a] = "deliver" /\ Goto(a, "done")
      /\ delivered' = [delivered EXCEPT ![m] = Append(@, out[a])]
      /\ UNCHANGED <<sendVars, ref, out, heap, values>>
      /\ "done" \in HandlerState \ {"none"} /\ "done" \in HasAdded
      /\ "deliver" \in HasAdded /\ "deliver" \in Live
  BY DEF Deliver, HandlerState, HasAdded, Live
<1>3. /\ delivered'[m] = Append(delivered[m], out[a])
      /\ \A n \in Msg \ {m} : delivered'[n] = delivered[n]
  BY <1>0, <1>1 DEF TypeOK
<1>4. /\ handler' \in [Attempt -> HandlerState]
      /\ handler'[a] = "done" /\ \A b \in Attempt \ {a} : handler'[b] = handler[b]
  BY <1>1, GotoType
<1>5. TypeOK'
  <2>1. delivered[m] \in Seq(Buffer) /\ out[a] \in Buffer
    BY <1>0 DEF TypeOK
  <2>2. Append(delivered[m], out[a]) \in Seq(Buffer)
    BY <2>1
  <2>3. delivered' \in [Msg -> Seq(Buffer)]
    BY <1>0, <1>1, <2>2 DEF TypeOK
  <2>4. QED
    BY <1>1, <1>4, <2>3 DEF TypeOK, sendVars, Chunks, NumChunks
<1>6. RefInv'
  BY <1>1, RefKept DEF sendVars
<1>7. ASSUME NEW i \in Chunks(m), a = First(m, i), PhaseInv(m),
             \A b \in Chunks(m) \ {i} :
                /\ First(m, b) \in Attempt \ {a}
                /\ handler'[First(m, b)] = handler[First(m, b)]
      PROVE  PhaseInv(m)'
  <2>1. Added(m)' = Added(m)
    BY <1>1, <1>4, <1>7, Rigid DEF Added
  <2>2. Filled(m)
    BY <1>1, <1>7 DEF PhaseInv, Untouched, Filling
  <2>3. /\ delivered[m] = <<>> /\ Winner(m, i)
        /\ \A b \in Chunks(m) \ {i} :
             handler[First(m, b)] \notin {"reassemble", "deliver"}
    BY <1>1, <1>7, <2>2 DEF Filled
  <2>4. out[a] = Whole(m)
    BY <1>1, <1>7, <2>3 DEF Winner
  <2>5. delivered'[m] = <<Whole(m)>>
    BY <1>3, <2>3, <2>4
  <2>6. Filled(m)'
    BY <1>1, <1>4, <1>7, <2>1, <2>2, <2>3, <2>5, Rigid DEF Filled
  <2>7. QED
    BY <2>6 DEF PhaseInv
<1>8. QED
  BY <1>1, <1>3, <1>5, <1>6, <1>7, HandlerStep

-----------------------------------------------------------------------------
(* The theorems.                                                           *)

\* At first nothing is sent.
LEMMA InitInv == Init => ChunkInv
<1> SUFFICES ASSUME Init PROVE ChunkInv
  OBVIOUS
<1>1. TypeOK
  <2>1. \A m \in Msg : try[m] \in [Chunks(m) -> 1 .. MaxAttempt[m]]
    <3>1. \A m \in Msg : 1 \in 1 .. MaxAttempt[m]
      BY ParameterFacts
    <3>2. QED
      BY <3>1 DEF Init
  <2>2. DOMAIN try = Msg /\ DOMAIN failed = Msg
    BY DEF Init
  <2>3. /\ heap = <<>> /\ Len(heap) = 0 /\ heap \in Seq(Object)
        /\ 0 \in 0 .. Len(heap)
    BY DEF Init
  <2>4. ref \in [Attempt -> 0 .. Len(heap)] /\ values \in [Msg -> 0 .. Len(heap)]
    BY <2>3 DEF Init
  <2>5. out \in [Attempt -> Buffer] /\ delivered \in [Msg -> Seq(Buffer)]
    BY DEF Init, Buffer
  <2>6. handler \in [Attempt -> HandlerState] /\ send \in [Msg -> SendState]
        /\ batch \in [Msg -> Nat] /\ \A m \in Msg : failed[m] \subseteq Chunks(m)
    BY DEF Init, HandlerState, SendState
  <2>7. QED
    BY <2>1, <2>2, <2>3, <2>4, <2>5, <2>6 DEF TypeOK
<1>2. RefInv
  BY DEF Init, RefInv, Live
<1>3. ASSUME NEW m \in Msg
      PROVE  SendInv(m) /\ PhaseInv(m)
  <2>1. \A i \in Chunks(m) : handler[First(m, i)] = "none"
    BY AttemptFacts DEF Init
  <2>2. batch[m] = 0 /\ send[m] = "fire" /\ values[m] = 0 /\ delivered[m] = <<>>
    BY DEF Init
  <2>3. \A i \in Chunks(m) : i \div ParallelSize \in Nat
    BY BatchFacts
  <2>4. SendInv(m)
    BY <2>1, <2>2, <2>3 DEF SendInv
  <2>5. Untouched(m)
    BY <2>1, <2>2 DEF Untouched, Live
  <2>6. QED
    BY <2>4, <2>5 DEF PhaseInv
<1>4. QED
  BY <1>1, <1>2, <1>3 DEF ChunkInv

\* Every step of the senders, of brpc and of the handlers preserves the invariant.
LEMMA NextInv == ChunkInv /\ [Next]_vars => ChunkInv'
<1> SUFFICES ASSUME ChunkInv, [Next]_vars PROVE ChunkInv'
  OBVIOUS
<1>1. CASE UNCHANGED vars \/ Terminating
  <2>1. /\ UNCHANGED <<send, batch, try, failed>>
        /\ UNCHANGED <<handler, ref, out, heap, values, delivered>>
    BY <1>1 DEF Terminating, vars, sendVars, recvVars
  <2>2. TypeOK'
    BY <2>1, Parts DEF TypeOK, Chunks, NumChunks
  <2>3. RefInv'
    BY <2>1, Parts DEF RefInv
  <2>4. ASSUME NEW m \in Msg, Once(m)' PROVE SendInv(m)' /\ PhaseInv(m)'
    <3>1. Once(m)
      BY <2>1, <2>4 DEF Once, Chunks, NumChunks
    <3>2. QED
      BY <2>1, <3>1, Parts, SendKept, PhaseKept
  <2>5. QED
    BY <2>2, <2>3, <2>4 DEF ChunkInv
<1>2. ASSUME NEW m \in Msg, FireBatch(m) \/ JoinBatch(m) PROVE ChunkInv'
  BY <1>2, FireBatchStep, JoinBatchStep
<1>3. ASSUME NEW a \in Attempt, Handler(a) \/ Retry(a) \/ Fail(a) PROVE ChunkInv'
  BY <1>3, FindOrInsertStep, AddChunkStep, IsFullyFilledStep, EraseEntryStep,
     ReassembleStep, DeliverStep, RetryStep, FailStep DEF Handler
<1>4. QED
  BY <1>1, <1>2, <1>3 DEF Next

\* In every state each message of which no chunk came twice is untouched, is
\* being filled in one object, or has one handler that delivers it.
THEOREM Invariance == Spec => []ChunkInv
<1>1. QED
  BY InitInv, NextInv, PTL DEF Spec

\* For any sizes of messages, payloads and batches: a message of which no chunk
\* comes twice is delivered once and whole (channel.cc:162), before SendChunked
\* returns, and leaves no entry in chunked_values_.
THEOREM ReassemblySafety == Spec => []MessageSafe
<1>1. ASSUME ChunkInv PROVE MessageSafe
  <2> USE <1>1, Parts
  <2>1. ReassembledOnce
    <3> SUFFICES ASSUME NEW m \in Msg, Once(m) PROVE Intact(m)
      BY DEF ReassembledOnce
    <3>1. delivered[m] = <<>> \/ delivered[m] = <<Whole(m)>>
      BY DEF PhaseInv, Untouched, Filling, Filled
    <3>2. CASE delivered[m] = <<>>
      BY <3>2 DEF Intact
    <3>3. CASE delivered[m] = <<Whole(m)>>
      <4>1. Len(delivered[m]) = 1 /\ delivered[m][1] = Whole(m)
        BY <3>3
      <4>2. \A n \in 1 .. 1 : n = 1
        OBVIOUS
      <4>3. QED
        BY <4>1, <4>2 DEF Intact
    <3>4. QED
      BY <3>1, <3>2, <3>3
  <2>2. ASSUME NEW m \in Msg, Once(m), send[m] = "sent"
        PROVE  Len(delivered[m]) = 1 /\ values[m] = 0
    <3>1. \A i \in Chunks(m) : handler[First(m, i)] = "done"
      BY <2>2 DEF SendInv
    <3>2. "done" \in HasAdded /\ "done" \in Live
      BY DEF HasAdded, Live, HandlerState
    <3>3. Added(m) = Chunks(m)
      BY <3>1, <3>2 DEF Added
    <3>4. 0 \in Chunks(m)
      BY ChunkFacts DEF Chunks
    <3>5. Filled(m)
      BY <2>2, <3>1, <3>2, <3>3, <3>4 DEF PhaseInv, Untouched, Filling
    <3>6. values[m] = 0 /\ delivered[m] = <<Whole(m)>>
      BY <3>1, <3>5 DEF Filled, Winner
    <3>7. QED
      BY <3>6
  <2>3. QED
    BY <2>1, <2>2 DEF MessageSafe, SentMeansDelivered, NoLeftover
<1>2. QED
  BY <1>1, Invariance, PTL

-----------------------------------------------------------------------------
(* The loops over the other ranks.                                         *)

\* The loops of a rank visit each other rank, once.
LEMMA OrderFacts ==
  ASSUME NEW r \in Rank
  PROVE  /\ \A i \in 1 .. (N - 1) : Order(r)[i] \in Rank \ {r}
         /\ \A i, j \in 1 .. (N - 1) : Order(r)[i] = Order(r)[j] => i = j
         /\ \A q \in Rank \ {r} : \E i \in 1 .. (N - 1) : Order(r)[i] = q
<1>1. N \in Nat /\ N > 1 /\ r \in Int /\ 0 <= r /\ r <= N - 1
  BY MeshAssumption DEF Rank
<1>2. \A i \in 1 .. (N - 1) : Order(r)[i] = IF i <= r THEN i - 1 ELSE i
  BY DEF Order
<1>3. ASSUME NEW q \in Rank \ {r}
      PROVE  \E i \in 1 .. (N - 1) : Order(r)[i] = q
  <2>1. q \in Int /\ 0 <= q /\ q <= N - 1 /\ q # r
    BY <1>1 DEF Rank
  <2>2. CASE q < r
    <3>1. q + 1 \in 1 .. (N - 1) /\ Order(r)[q + 1] = q
      BY <1>1, <1>2, <2>1, <2>2
    <3>2. QED
      BY <3>1
  <2>3. CASE q > r
    <3>1. q \in 1 .. (N - 1) /\ Order(r)[q] = q
      BY <1>1, <1>2, <2>1, <2>3
    <3>2. QED
      BY <3>1
  <2>4. QED
    BY <1>1, <2>1, <2>2, <2>3
<1>4. \A i \in 1 .. (N - 1) : Order(r)[i] \in Rank \ {r}
  BY <1>1, <1>2 DEF Rank
<1>5. \A i, j \in 1 .. (N - 1) : Order(r)[i] = Order(r)[j] => i = j
  BY <1>1, <1>2
<1>6. QED
  BY <1>3, <1>4, <1>5

\* The rank that a loop is at is another rank that it has not visited, and the
\* only one when it is the last.
LEMMA VisitFacts ==
  ASSUME MeshTypeOK, NEW r \in Rank
  PROVE  /\ Peer(r) \in Rank \ {r} /\ Peer(r) \notin Visited(r)
         /\ Visited(r) \subseteq Rank \ {r}
         /\ Last(r) => \A q \in Rank \ {r} : q = Peer(r) \/ q \in Visited(r)
<1>1. pos[r] \in 1 .. (N - 1) /\ N \in Nat /\ N > 1
  BY MeshAssumption DEF MeshTypeOK
<1>2. Peer(r) \in Rank \ {r}
  BY <1>1, OrderFacts DEF Peer
<1>3. \A i \in 1 .. (pos[r] - 1) : i \in 1 .. (N - 1) /\ i # pos[r]
  BY <1>1
<1>4. Peer(r) \notin Visited(r)
  BY <1>1, <1>3, OrderFacts DEF Peer, Visited
<1>5. Visited(r) \subseteq Rank \ {r}
  BY <1>3, OrderFacts DEF Visited
<1>6. ASSUME Last(r), NEW q \in Rank \ {r}
      PROVE  q = Peer(r) \/ q \in Visited(r)
  <2>1. PICK i \in 1 .. (N - 1) : Order(r)[i] = q
    BY OrderFacts
  <2>2. i = pos[r] \/ i \in 1 .. (pos[r] - 1)
    BY <1>1, <1>6 DEF Last
  <2>3. QED
    BY <2>1, <2>2 DEF Peer, Visited
<1>7. QED
  BY <1>2, <1>4, <1>5, <1>6

\* One turn of a loop.
LEMMA LoopFacts ==
  ASSUME MeshTypeOK, NEW r \in Rank, NEW s \in RankState, Loop(r, s)
  PROVE  /\ pos' \in [Rank -> 1 .. (N - 1)] /\ pc' \in [Rank -> RankState]
         /\ \A q \in Rank \ {r} : /\ pc'[q] = pc[q]
                                  /\ Peer(q)' = Peer(q)
                                  /\ Visited(q)' = Visited(q)
         /\ Last(r) => pc'[r] = s /\ Visited(r)' = {}
         /\ ~Last(r) => pc'[r] = pc[r] /\ Visited(r)' = Visited(r) \cup {Peer(r)}
<1>1. /\ pos[r] \in 1 .. (N - 1) /\ N \in Nat /\ N > 1
      /\ pos \in [Rank -> 1 .. (N - 1)] /\ pc \in [Rank -> RankState]
  BY MeshAssumption DEF MeshTypeOK
<1>2. pos' \in [Rank -> 1 .. (N - 1)] /\ pc' \in [Rank -> RankState]
  BY <1>1 DEF Loop, Last
<1>3. \A q \in Rank \ {r} : pc'[q] = pc[q] /\ pos'[q] = pos[q]
  BY <1>1 DEF Loop
<1>4. \A q \in Rank \ {r} : Peer(q)' = Peer(q) /\ Visited(q)' = Visited(q)
  BY <1>3 DEF Peer, Visited, Order
<1>5. ASSUME Last(r) PROVE pc'[r] = s /\ Visited(r)' = {}
  <2>1. pc'[r] = s /\ pos'[r] = 1
    BY <1>1, <1>5 DEF Loop
  <2>2. QED
    BY <2>1 DEF Visited
<1>6. ASSUME ~Last(r)
      PROVE  pc'[r] = pc[r] /\ Visited(r)' = Visited(r) \cup {Peer(r)}
  <2>1. pc'[r] = pc[r] /\ pos'[r] = pos[r] + 1
    BY <1>1, <1>6 DEF Loop
  <2>2. 1 .. (pos'[r] - 1) = (1 .. (pos[r] - 1)) \cup {pos[r]}
    BY <1>1, <2>1
  <2>3. QED
    BY <2>1, <2>2 DEF Visited, Peer, Order
<1>7. QED
  BY <1>2, <1>3, <1>4, <1>5, <1>6

\* A step that moves no loop.
LEMMA SameLoops ==
  ASSUME UNCHANGED pos, NEW r \in Rank
  PROVE  Peer(r)' = Peer(r) /\ Visited(r)' = Visited(r)
  BY DEF Peer, Visited, Order

-----------------------------------------------------------------------------
(* Every action preserves the invariant.                                   *)

\* What a step has to show for HeardInv.
LEMMA HeardKept ==
  ASSUME HeardInv,
         \A r \in Rank : r \notin inbox'[r],
         \A q, r \in Rank : Tried(q, r) => Tried(q, r)',
         \A r \in Rank : \A q \in Rank \ {r} :
            q \in inbox'[r] \/ Heard(r, q)'
              => q \in inbox[r] \/ Heard(r, q) \/ Tried(q, r)'
  PROVE  HeardInv'
<1> SUFFICES ASSUME NEW r \in Rank, NEW q \in Rank \ {r},
                    q \in inbox'[r] \/ Heard(r, q)'
             PROVE  Tried(q, r)'
  BY DEF HeardInv
<1>1. q \in inbox[r] \/ Heard(r, q) \/ Tried(q, r)'
  OBVIOUS
<1>2. q \in inbox[r] \/ Heard(r, q) => Tried(q, r)
  BY DEF HeardInv
<1>3. QED
  BY <1>1, <1>2

\* What a step has to show for PartedInv.
LEMMA PartedKept ==
  ASSUME PartedInv,
         \A r \in Rank : called[r] \subseteq called'[r],
         \A r, q \in Rank : Visited(r) \subseteq Rank,
         \A r \in Rank : pc'[r] = "finish" =>
            \A q \in Visited(r)' : (pc[r] = "finish" /\ q \in Visited(r)) \/ Parted(r, q)',
         \A r \in Rank : pc'[r] \in {"done", "closed"} =>
            \A q \in Rank \ {r} : pc[r] \in {"done", "closed"} \/ Parted(r, q)'
  PROVE  PartedInv'
<1>1. \A r, q \in Rank : Parted(r, q) => Parted(r, q)'
  BY DEF Parted
<1>2. ASSUME NEW r \in Rank, pc'[r] = "finish", NEW q \in Visited(r)'
      PROVE  Parted(r, q)'
  BY <1>1, <1>2 DEF PartedInv
<1>3. ASSUME NEW r \in Rank, pc'[r] \in {"done", "closed"}, NEW q \in Rank \ {r}
      PROVE  Parted(r, q)'
  BY <1>1, <1>3 DEF PartedInv
<1>4. QED
  BY <1>2, <1>3 DEF PartedInv

\* CreateContext, GatherTimeout, WaitLinkTaskFinish and Close change the state
\* of the rank and nothing else.
LEMMA StateStep ==
  ASSUME MeshInv, NEW r \in Rank,
         \/ CreateContext(r) \/ GatherTimeout(r) \/ WaitLinkTaskFinish(r)
         \/ Close(r)
  PROVE  MeshInv'
<1>1. PICK s \in {"connect", "failed", "finish", "closed"} :
         /\ pc' = [pc EXCEPT ![r] = s]
         /\ \/ s = "connect" /\ pc[r] = "down"
            \/ s = "failed" /\ pc[r] = "gather"
            \/ s = "finish" /\ pc[r] = "run"
            \/ s = "closed" /\ pc[r] = "done"
  BY DEF CreateContext, GatherTimeout, WaitLinkTaskFinish, Close
<1>2. UNCHANGED <<pos, attempt, inbox, called, late>>
  BY DEF CreateContext, GatherTimeout, WaitLinkTaskFinish, Close
<1>3. MeshTypeOK /\ MeshTypeOK'
  BY <1>1, <1>2 DEF MeshInv, MeshTypeOK, RankState
<1>4. pc'[r] = s /\ \A q \in Rank \ {r} : pc'[q] = pc[q]
  BY <1>1, <1>3 DEF MeshTypeOK
<1>5. \A q \in Rank : Peer(q)' = Peer(q) /\ Visited(q)' = Visited(q)
  BY <1>2, SameLoops
<1>6. HeardInv'
  <2>1. \A q, x \in Rank : Tried(q, x) => Tried(q, x)'
    BY <1>1, <1>2, <1>4, <1>5 DEF Tried
  <2>2. \A x, q \in Rank : Heard(x, q)' => Heard(x, q)
    BY <1>1, <1>4, <1>5 DEF Heard, Past
  <2>3. QED
    BY <1>2, <2>1, <2>2, HeardKept DEF MeshInv, HeardInv
<1>7. PartedInv'
  <2>1. \A x \in Rank : Visited(x) \subseteq Rank
    BY <1>3, VisitFacts
  <2>2. s = "finish" => Visited(r) = {}
    <3>1. s = "finish" => pos[r] = 1
      BY <1>1 DEF MeshInv, LoopInv
    <3>2. QED
      BY <3>1 DEF Visited
  <2>3. \A x \in Rank : pc'[x] = "finish" =>
          \A q \in Visited(x)' : pc[x] = "finish" /\ q \in Visited(x)
    BY <1>4, <1>5, <2>2
  <2>4. \A x \in Rank : pc'[x] \in {"done", "closed"} => pc[x] \in {"done", "closed"}
    BY <1>1, <1>4
  <2>5. QED
    BY <1>2, <2>1, <2>3, <2>4, PartedKept DEF MeshInv
<1>8. DroppedInv' /\ LoopInv'
  BY <1>1, <1>2, <1>4 DEF MeshInv, DroppedInv, LoopInv
<1>9. QED
  BY <1>3, <1>6, <1>7, <1>8 DEF MeshInv

\* What the receipt of a connect message does to msg_db_.
LEMMA DeliverFacts ==
  ASSUME MeshInv, NEW r \in Rank, NEW q \in Rank \ {r}, OnConnect(r, q),
         UNCHANGED called
  PROVE  /\ inbox' \in [Rank -> SUBSET Rank]
         /\ \A x \in Rank : x \notin inbox'[x]
         /\ \A x, y \in Rank : y \in inbox'[x] => y \in inbox[x] \/ (x = q /\ y = r)
         /\ DroppedInv'
<1>1. inbox \in [Rank -> SUBSET Rank]
  BY DEF MeshInv, MeshTypeOK
<1>2. inbox' = [inbox EXCEPT ![q] = IF r \in called[q] THEN @ ELSE @ \cup {r}]
  BY DEF OnConnect
<1>3. inbox' \in [Rank -> SUBSET Rank]
  BY <1>1, <1>2
<1>4. \A x, y \in Rank : y \in inbox'[x] =>
        y \in inbox[x] \/ (x = q /\ y = r /\ r \notin called[q])
  BY <1>1, <1>2
<1>5. \A x \in Rank : x \notin inbox'[x]
  BY <1>4 DEF MeshInv, HeardInv
<1>6. \A x \in Rank : \A y \in inbox'[x] : y \in Rank
  BY <1>3
<1>7. DroppedInv'
  BY <1>4, <1>6 DEF MeshInv, DroppedInv
<1>8. QED
  BY <1>3, <1>4, <1>5, <1>7

\* The connect message is stored at the peer, and the loop goes on.
LEMMA ConnectStep ==
  ASSUME MeshInv, NEW r \in Rank, Connect(r)
  PROVE  MeshInv'
<1>1. /\ pc[r] = "connect" /\ OnConnect(r, Peer(r)) /\ Loop(r, "gather")
      /\ attempt' = [attempt EXCEPT ![r] = 0] /\ UNCHANGED <<called, late>>
  BY DEF Connect
<1>2. MeshTypeOK /\ "gather" \in RankState
  BY DEF MeshInv, RankState
<1>3. PICK p \in Rank \ {r} : p = Peer(r)
  BY <1>2, VisitFacts
<1>4. /\ inbox' \in [Rank -> SUBSET Rank]
      /\ \A x \in Rank : x \notin inbox'[x]
      /\ \A x, y \in Rank : y \in inbox'[x] => y \in inbox[x] \/ (x = p /\ y = r)
      /\ DroppedInv'
  BY <1>1, <1>3, DeliverFacts
<1>5. /\ pos' \in [Rank -> 1 .. (N - 1)] /\ pc' \in [Rank -> RankState]
      /\ \A q \in Rank \ {r} : /\ pc'[q] = pc[q]
                               /\ Peer(q)' = Peer(q)
                               /\ Visited(q)' = Visited(q)
      /\ Last(r) => pc'[r] = "gather" /\ Visited(r)' = {}
      /\ ~Last(r) => pc'[r] = pc[r] /\ Visited(r)' = Visited(r) \cup {Peer(r)}
  BY <1>1, <1>2, LoopFacts
<1>6. /\ attempt' \in [Rank -> 0..RetryTimes]
      /\ \A q \in Rank \ {r} : attempt'[q] = attempt[q]
  BY <1>1, <1>2, MeshAssumption DEF MeshTypeOK
<1>7. MeshTypeOK'
  BY <1>1, <1>2, <1>4, <1>5, <1>6 DEF MeshTypeOK
<1>8. HeardInv'
  <2>1. Tried(r, p)'
    BY <1>1, <1>3, <1>5 DEF Tried
  <2>2. \A q, x \in Rank : Tried(q, x) => Tried(q, x)'
    BY <1>1, <1>5, <1>6 DEF Tried
  <2>3. \A x, q \in Rank : Heard(x, q)' => Heard(x, q)
    BY <1>1, <1>5 DEF Heard, Past
  <2>4. ASSUME NEW x \in Rank, NEW q \in Rank \ {x},
               q \in inbox'[x] \/ Heard(x, q)'
        PROVE  q \in inbox[x] \/ Heard(x, q) \/ Tried(q, x)'
    <3>1. q \in inbox'[x] => q \in inbox[x] \/ Tried(q, x)'
      BY <1>4, <2>1
    <3>2. QED
      BY <2>3, <2>4, <3>1
  <2>5. QED
    BY <1>4, <2>2, <2>4, HeardKept DEF MeshInv
<1>9. PartedInv'
  <2>1. \A x \in Rank : Visited(x) \subseteq Rank
    BY <1>2, VisitFacts
  <2>2. \A x \in Rank : pc'[x] = "finish" =>
          \A q \in Visited(x)' : pc[x] = "finish" /\ q \in Visited(x)
    BY <1>1, <1>5
  <2>3. \A x \in Rank : pc'[x] \in {"done", "closed"} => pc[x] \in {"done", "closed"}
    BY <1>1, <1>5
  <2>4. QED
    BY <1>1, <2>1, <2>2, <2>3, PartedKept DEF MeshInv
<1>10. LoopInv'
  <2>1. \A q \in Rank \ {r} : pos'[q] = pos[q]
    BY <1>1, <1>2 DEF Loop, MeshTypeOK
  <2>2. QED
    BY <1>1, <1>5, <2>1 DEF MeshInv, LoopInv
<1>11. QED
  BY <1>4, <1>7, <1>8, <1>9, <1>10 DEF MeshInv

\* A send that failed is counted, or ends ConnectToMesh; the peer may have the
\* message.
LEMMA FailedConnectStep ==
  ASSUME MeshInv, NEW r \in Rank, ConnectRefused(r) \/ ConnectLate(r)
  PROVE  MeshInv'
<1>1. /\ pc[r] = "connect" /\ RetryConnect(r) /\ UNCHANGED <<pos, called>>
      /\ OnConnect(r, Peer(r)) \/ UNCHANGED inbox
      /\ late' \in 0..MaxLate
  BY MeshAssumption DEF ConnectRefused, ConnectLate, MeshInv, MeshTypeOK
<1>2. MeshTypeOK
  BY DEF MeshInv
<1>3. PICK p \in Rank \ {r} : p = Peer(r)
  BY <1>2, VisitFacts
<1>4. /\ inbox' \in [Rank -> SUBSET Rank]
      /\ \A x \in Rank : x \notin inbox'[x]
      /\ \A x, y \in Rank : y \in inbox'[x] => y \in inbox[x] \/ (x = p /\ y = r)
      /\ DroppedInv'
  <2>1. CASE UNCHANGED inbox
    BY <1>1, <2>1 DEF MeshInv, MeshTypeOK, HeardInv, DroppedInv
  <2>2. CASE OnConnect(r, Peer(r))
    BY <1>1, <1>3, <2>2, DeliverFacts
  <2>3. QED
    BY <1>1, <2>1, <2>2
<1>5. \A q \in Rank : Peer(q)' = Peer(q) /\ Visited(q)' = Visited(q)
  BY <1>1, SameLoops
<1>6. /\ attempt' \in [Rank -> 0..RetryTimes] /\ pc' \in [Rank -> RankState]
      /\ \A q \in Rank \ {r} : attempt'[q] = attempt[q] /\ pc'[q] = pc[q]
      /\ pc'[r] = "failed" \/ (pc'[r] = "connect" /\ attempt'[r] > 0)
  <2>1. /\ attempt \in [Rank -> 0..RetryTimes] /\ pc \in [Rank -> RankState]
        /\ RetryTimes \in Nat
    BY <1>2, MeshAssumption DEF MeshTypeOK
  <2>2. CASE attempt[r] < RetryTimes /\ attempt' = [attempt EXCEPT ![r] = @ + 1] /\ UNCHANGED pc
    BY <1>1, <2>1, <2>2
  <2>3. CASE pc' = [pc EXCEPT ![r] = "failed"] /\ UNCHANGED attempt
    BY <1>1, <2>1, <2>3 DEF RankState
  <2>4. QED
    BY <1>1, <2>2, <2>3 DEF RetryConnect
<1>7. MeshTypeOK'
  BY <1>1, <1>2, <1>4, <1>6 DEF MeshTypeOK
<1>8. HeardInv'
  <2>1. Tried(r, p)'
    BY <1>1, <1>3, <1>5, <1>6 DEF Tried
  <2>2. \A q, x \in Rank : Tried(q, x) => Tried(q, x)'
    BY <1>1, <1>5, <1>6 DEF Tried
  <2>3. \A x, q \in Rank : Heard(x, q)' => Heard(x, q)
    BY <1>1, <1>5, <1>6 DEF Heard, Past
  <2>4. ASSUME NEW x \in Rank, NEW q \in Rank \ {x},
               q \in inbox'[x] \/ Heard(x, q)'
        PROVE  q \in inbox[x] \/ Heard(x, q) \/ Tried(q, x)'
    <3>1. q \in inbox'[x] => q \in inbox[x] \/ Tried(q, x)'
      BY <1>4, <2>1
    <3>2. QED
      BY <2>3, <2>4, <3>1
  <2>5. QED
    BY <1>4, <2>2, <2>4, HeardKept DEF MeshInv
<1>9. PartedInv'
  <2>1. \A x \in Rank : Visited(x) \subseteq Rank
    BY <1>2, VisitFacts
  <2>2. \A x \in Rank : pc'[x] = "finish" =>
          \A q \in Visited(x)' : pc[x] = "finish" /\ q \in Visited(x)
    BY <1>1, <1>5, <1>6
  <2>3. \A x \in Rank : pc'[x] \in {"done", "closed"} => pc[x] \in {"done", "closed"}
    BY <1>1, <1>6
  <2>4. QED
    BY <1>1, <2>1, <2>2, <2>3, PartedKept DEF MeshInv
<1>10. LoopInv'
  BY <1>1, <1>6 DEF MeshInv, LoopInv
<1>11. QED
  BY <1>4, <1>7, <1>8, <1>9, <1>10 DEF MeshInv

\* A connect message is received, and the loop goes on.
LEMMA GatherStep ==
  ASSUME MeshInv, NEW r \in Rank, Gather(r)
  PROVE  MeshInv'
<1>1. /\ pc[r] = "gather" /\ Peer(r) \in inbox[r] /\ Loop(r, "run")
      /\ inbox' = [inbox EXCEPT ![r] = @ \ {Peer(r)}]
      /\ UNCHANGED <<attempt, called, late>>
  BY DEF Gather
<1>2. MeshTypeOK /\ "run" \in RankState
  BY DEF MeshInv, RankState
<1>3. /\ Peer(r) \in Rank \ {r}
      /\ Last(r) => \A q \in Rank \ {r} : q = Peer(r) \/ q \in Visited(r)
  BY <1>2, VisitFacts
<1>4. inbox' \in [Rank -> SUBSET Rank] /\ \A x \in Rank : inbox'[x] \subseteq inbox[x]
  BY <1>1, <1>2 DEF MeshTypeOK
<1>5. /\ pos' \in [Rank -> 1 .. (N - 1)] /\ pc' \in [Rank -> RankState]
      /\ \A q \in Rank \ {r} : /\ pc'[q] = pc[q]
                               /\ Peer(q)' = Peer(q)
                               /\ Visited(q)' = Visited(q)
      /\ Last(r) => pc'[r] = "run" /\ Visited(r)' = {}
      /\ ~Last(r) => pc'[r] = pc[r] /\ Visited(r)' = Visited(r) \cup {Peer(r)}
  BY <1>1, <1>2, LoopFacts
<1>6. MeshTypeOK'
  BY <1>1, <1>2, <1>4, <1>5 DEF MeshTypeOK
<1>7. HeardInv'
  <2>1. \A q, x \in Rank : Tried(q, x) => Tried(q, x)'
    BY <1>1, <1>5 DEF Tried
  <2>2. ASSUME NEW x \in Rank, NEW q \in Rank \ {x}, Heard(x, q)'
        PROVE  Heard(x, q) \/ q \in inbox[x]
    <3>1. CASE x # r
      BY <1>5, <2>2, <3>1 DEF Heard
    <3>2. CASE x = r
      BY <1>1, <1>3, <1>5, <2>2, <3>2 DEF Heard
    <3>3. QED
      BY <3>1, <3>2
  <2>3. QED
    BY <1>4, <2>1, <2>2, HeardKept DEF MeshInv, HeardInv
<1>8. PartedInv'
  <2>1. \A x \in Rank : Visited(x) \subseteq Rank
    BY <1>2, VisitFacts
  <2>2. \A x \in Rank : pc'[x] = "finish" =>
          \A q \in Visited(x)' : pc[x] = "finish" /\ q \in Visited(x)
    BY <1>1, <1>5
  <2>3. \A x \in Rank : pc'[x] \in {"done", "closed"} => pc[x] \in {"done", "closed"}
    BY <1>1, <1>5
  <2>4. QED
    BY <1>1, <2>1, <2>2, <2>3, PartedKept DEF MeshInv
<1>9. DroppedInv'
  BY <1>1, <1>4 DEF MeshInv, DroppedInv
<1>10. LoopInv'
  <2>1. /\ \A q \in Rank \ {r} : pos'[q] = pos[q]
        /\ Last(r) => pos'[r] = 1
    BY <1>1, <1>2 DEF Loop, MeshTypeOK
  <2>2. QED
    BY <1>1, <1>5, <2>1 DEF MeshInv, LoopInv
<1>11. QED
  BY <1>6, <1>7, <1>8, <1>9, <1>10 DEF MeshInv

\* WaitLinkTaskFinish of one channel begins.
LEMMA EnterChannelStep ==
  ASSUME MeshInv, NEW r \in Rank, EnterChannel(r)
  PROVE  MeshInv'
<1>1. /\ pc[r] = "finish" /\ called' = [called EXCEPT ![r] = @ \cup {Peer(r)}]
      /\ inbox' = [inbox EXCEPT ![r] = @ \ {Peer(r)}]
      /\ UNCHANGED <<pc, pos, attempt, late>>
  BY DEF EnterChannel
<1>2. MeshTypeOK
  BY DEF MeshInv
<1>3. Peer(r) \in Rank \ {r}
  BY <1>2, VisitFacts
<1>4. /\ inbox' \in [Rank -> SUBSET Rank] /\ called' \in [Rank -> SUBSET Rank]
      /\ inbox'[r] = inbox[r] \ {Peer(r)} /\ called'[r] = called[r] \cup {Peer(r)}
      /\ \A x \in Rank \ {r} : inbox'[x] = inbox[x] /\ called'[x] = called[x]
  BY <1>1, <1>2, <1>3 DEF MeshTypeOK
<1>5. \A q \in Rank : Peer(q)' = Peer(q) /\ Visited(q)' = Visited(q)
  BY <1>1, SameLoops
<1>6. MeshTypeOK'
  BY <1>1, <1>2, <1>4 DEF MeshTypeOK
<1>7. HeardInv'
  <2>1. \A q, x \in Rank : Tried(q, x) => Tried(q, x)'
    BY <1>1, <1>5 DEF Tried
  <2>2. \A x, q \in Rank : Heard(x, q)' => Heard(x, q)
    BY <1>1, <1>5 DEF Heard
  <2>3. \A x \in Rank : inbox'[x] \subseteq inbox[x]
    BY <1>4
  <2>4. QED
    BY <2>1, <2>2, <2>3, HeardKept DEF MeshInv, HeardInv
<1>8. PartedInv'
  <2>1. \A x \in Rank : Visited(x) \subseteq Rank
    BY <1>2, VisitFacts
  <2>2. \A x \in Rank : called[x] \subseteq called'[x]
    BY <1>4
  <2>3. QED
    BY <1>1, <1>5, <2>1, <2>2, PartedKept DEF MeshInv
<1>9. DroppedInv'
  <2>1. \A x \in Rank : inbox'[x] \cap called'[x] \subseteq inbox[x] \cap called[x]
    BY <1>4
  <2>2. QED
    BY <2>1 DEF MeshInv, DroppedInv
<1>10. LoopInv'
  BY <1>1 DEF MeshInv, LoopInv
<1>11. QED
  BY <1>6, <1>7, <1>8, <1>9, <1>10 DEF MeshInv

\* WaitLinkTaskFinish of one channel returns, and the loop goes on.
LEMMA LeaveChannelStep ==
  ASSUME MeshInv, NEW r \in Rank, LeaveChannel(r)
  PROVE  MeshInv'
<1>1. /\ pc[r] = "finish" /\ Parted(r, Peer(r)) /\ Loop(r, "done")
      /\ UNCHANGED <<attempt, inbox, called, late>>
  BY DEF LeaveChannel, Parted
<1>2. MeshTypeOK /\ "done" \in RankState
  BY DEF MeshInv, RankState
<1>3. /\ Peer(r) \in Rank \ {r}
      /\ Last(r) => \A q \in Rank \ {r} : q = Peer(r) \/ q \in Visited(r)
  BY <1>2, VisitFacts
<1>5. /\ pos' \in [Rank -> 1 .. (N - 1)] /\ pc' \in [Rank -> RankState]
      /\ \A q \in Rank \ {r} : /\ pc'[q] = pc[q]
                               /\ Peer(q)' = Peer(q)
                               /\ Visited(q)' = Visited(q)
      /\ Last(r) => pc'[r] = "done" /\ Visited(r)' = {}
      /\ ~Last(r) => pc'[r] = pc[r] /\ Visited(r)' = Visited(r) \cup {Peer(r)}
  BY <1>1, <1>2, LoopFacts
<1>6. MeshTypeOK'
  BY <1>1, <1>2, <1>5 DEF MeshTypeOK
<1>7. HeardInv'
  <2>1. \A q, x \in Rank : Tried(q, x) => Tried(q, x)'
    BY <1>1, <1>5 DEF Tried
  <2>2. \A x, q \in Rank : Heard(x, q)' => Heard(x, q)
    BY <1>1, <1>5 DEF Heard, Past
  <2>3. QED
    BY <1>1, <2>1, <2>2, HeardKept DEF MeshInv, HeardInv
<1>8. PartedInv'
  <2>1. \A x \in Rank : Visited(x) \subseteq Rank
    BY <1>2, VisitFacts
  <2>2. /\ Parted(r, Peer(r)) /\ \A q \in Visited(r) : Parted(r, q)
        /\ \A x, q : Parted(x, q)' <=> Parted(x, q)
    BY <1>1 DEF MeshInv, PartedInv, Parted
  <2>3. \A x \in Rank : pc'[x] = "finish" =>
          \A q \in Visited(x)' : (pc[x] = "finish" /\ q \in Visited(x)) \/ Parted(x, q)'
    BY <1>1, <1>5, <2>2
  <2>4. \A x \in Rank : pc'[x] \in {"done", "closed"} =>
          \A q \in Rank \ {x} : pc[x] \in {"done", "closed"} \/ Parted(x, q)'
    BY <1>1, <1>3, <1>5, <2>2
  <2>5. QED
    BY <1>1, <2>1, <2>3, <2>4, PartedKept DEF MeshInv
<1>9. DroppedInv'
  BY <1>1 DEF MeshInv, DroppedInv
<1>10. LoopInv'
  <2>1. \A q \in Rank \ {r} : pos'[q] = pos[q]
    BY <1>1, <1>2 DEF Loop, MeshTypeOK
  <2>2. QED
    BY <1>1, <1>5, <2>1 DEF MeshInv, LoopInv
<1>11. QED
  BY <1>6, <1>7, <1>8, <1>9, <1>10 DEF MeshInv

-----------------------------------------------------------------------------
(* The theorems.                                                           *)

\* No rank is launched at first.
LEMMA MeshInitInv == MeshInit => MeshInv
<1> SUFFICES ASSUME MeshInit PROVE MeshInv
  OBVIOUS
<1>1. MeshTypeOK
  BY MeshAssumption DEF MeshInit, MeshTypeOK, RankState
<1>2. \A r \in Rank : inbox[r] = {} /\ pc[r] = "down"
  BY DEF MeshInit
<1>3. HeardInv /\ PartedInv /\ DroppedInv /\ LoopInv
  BY <1>2 DEF HeardInv, Heard, Past, PartedInv, DroppedInv, LoopInv
<1>4. QED
  BY <1>1, <1>3 DEF MeshInv

\* Every step of every rank preserves the invariant.
LEMMA MeshNextInv == MeshInv /\ [MeshNext]_meshVars => MeshInv'
<1> SUFFICES ASSUME MeshInv, [MeshNext]_meshVars PROVE MeshInv'
  OBVIOUS
<1>1. CASE UNCHANGED meshVars
  <2>1. \A q \in Rank : Peer(q)' = Peer(q) /\ Visited(q)' = Visited(q)
    BY <1>1, SameLoops DEF meshVars
  <2>2. MeshTypeOK' /\ DroppedInv' /\ LoopInv'
    BY <1>1 DEF meshVars, MeshInv, MeshTypeOK, DroppedInv, LoopInv
  <2>3. HeardInv' /\ PartedInv'
    BY <1>1, <2>1 DEF meshVars, MeshInv, HeardInv, Heard, Tried, PartedInv, Parted
  <2>4. QED
    BY <2>2, <2>3 DEF MeshInv
<1>2. ASSUME NEW r \in Rank, Step(r) \/ Application(r) \/ ConnectLate(r)
      PROVE  MeshInv'
  BY <1>2, StateStep, ConnectStep, FailedConnectStep, GatherStep, EnterChannelStep,
     LeaveChannelStep DEF Step, Application
<1>3. QED
  BY <1>1, <1>2 DEF MeshNext

\* In every state, what is in the msg_db_ of a rank was sent by another rank and
\* a rank leaves only those channels that its peer has left, too.
THEOREM MeshInvariance == MeshSpec => []MeshInv
<1>1. QED
  BY MeshInitInv, MeshNextInv, PTL DEF MeshSpec

\* For any number of ranks: a rank that is back from ConnectToMesh has met all
\* others (context.cc:144), and a rank that is back from WaitLinkTaskFinish has
\* cut off none of them and left nothing unread.
THEOREM MeshSafety == MeshSpec => []MeshSafe
<1>1. ASSUME MeshInv PROVE MeshSafe
  <2>0. MeshTypeOK
    BY <1>1 DEF MeshInv
  <2>1. Connected
    <3> SUFFICES ASSUME NEW r \in Rank, NEW q \in Rank, r # q, pc[r] \in Past
                 PROVE  /\ pc[q] # "down"
                        /\ pc[q] = "connect" /\ Peer(q) = r => attempt[q] > 0
      BY DEF Connected, Past
    <3>1. Tried(q, r)
      BY <1>1 DEF MeshInv, HeardInv, Heard
    <3>2. Peer(q) \notin Visited(q)
      BY <2>0, VisitFacts
    <3>3. QED
      BY <3>1, <3>2 DEF Tried
  <2>2. NoneCutOff
    BY <1>1 DEF MeshInv, PartedInv, Parted, NoneCutOff
  <2>3. NothingUnread
    <3> SUFFICES ASSUME NEW r \in Rank, pc[r] \in {"done", "closed"}, NEW q \in inbox[r]
                 PROVE  FALSE
      BY DEF NothingUnread
    <3>1. q \in Rank /\ q # r
      BY <1>1 DEF MeshInv, MeshTypeOK, HeardInv
    <3>2. q \in called[r]
      BY <1>1, <3>1 DEF MeshInv, PartedInv, Parted
    <3>3. QED
      BY <1>1, <3>2 DEF MeshInv, DroppedInv
  <2>4. QED
    BY <2>0, <2>1, <2>2, <2>3 DEF MeshSafe
<1>2. QED
  BY <1>1, MeshInvariance, PTL

=============================================================================
