--------------------------- MODULE ChunkedMessage ---------------------------
(***************************************************************************)
(* A message that is larger than http_max_payload_size travels in chunks:  *)
(* ChannelBrpc::SendChunked (channel_brpc.cc) pushes them in batches of    *)
(* concurrent RPCs, and ChannelBase::OnChunkedMessage (channel.cc), run by *)
(* one handler thread per RPC, puts them together again and hands the      *)
(* result to OnNormalMessage.                                              *)
(*                                                                         *)
(* Each message has a key of its own, so a message stands for its key.     *)
(***************************************************************************)
EXTENDS Integers, FiniteSets, Sequences

CONSTANTS
  Msg,           \* the chunked messages, each sent by one task
  Bytes,         \* the size of each message
  MaxPayload,    \* http_max_payload_size
  ParallelSize,  \* kParallelSize
  MaxAttempt,    \* bound: attempts of brpc for one chunk of each message
  MayFail        \* whether RPCs can fail

ASSUME ChunkAssumption ==
  /\ MaxPayload \in Nat \ {0}
  /\ ParallelSize \in Nat \ {0}
  /\ MaxAttempt \in [Msg -> Nat \ {0}]
  /\ MayFail \in BOOLEAN
  /\ Bytes \in [Msg -> Nat]
  /\ \A m \in Msg : Bytes[m] > MaxPayload

-----------------------------------------------------------------------------
(* The layout of a message: bytes in chunks, chunks in batches.            *)

CeilDiv(a, b) == (a + b - 1) \div b

LeastOf(a, b) == IF a < b THEN a ELSE b

NumChunks(m) == CeilDiv(Bytes[m], MaxPayload)

NumBatches(m) == CeilDiv(NumChunks(m), ParallelSize)

\* A mutation: the last chunk is as long as the others.
ChunkSize_Full(m, i) == MaxPayload

ChunkSize(m, i) == LeastOf(MaxPayload, Bytes[m] - i * MaxPayload)

\* BatchDesc: the chunks from Begin up to, and without, End.
Batch(m, b) ==
  (b * ParallelSize) .. (LeastOf((b + 1) * ParallelSize, NumChunks(m)) - 1)

Chunks(m) == 0 .. (NumChunks(m) - 1)

-----------------------------------------------------------------------------

\* An attempt of brpc to push one chunk.
Attempt ==
  UNION {{[msg |-> m, idx |-> i, try |-> n] : i \in Chunks(m), n \in 1..MaxAttempt[m]} :
           m \in Msg}

HandlerState == {"none",        \* not sent
                 "flight",      \* on its way to the receiver
                 "add",         \* has its ChunkedMessage, about to AddChunk
                 "check",       \* about to call IsFullyFilled
                 "erase",       \* saw it filled, about to lock chunked_values_
                 "reassemble",  \* erased the entry, about to Reassemble
                 "deliver",     \* about to call OnNormalMessage
                 "done"}        \* the handler has returned

SendState == {"fire", "join", "sent", "failed"}

\* A ChunkedMessage object: the chunks it holds and message_size_.
Object == [msg : Msg, chunks : SUBSET Nat, size : Nat]

VARIABLES
  send,       \* what the sender of each message does
  batch,      \* its batch_idx
  try,        \* the current attempt for each chunk
  failed,     \* chunks whose RPC failed
  handler,    \* the state of the handler thread of each attempt
  ref,        \* its shared_ptr<ChunkedMessage>: an index of heap
  out,        \* the Buffer it has reassembled
  heap,       \* the ChunkedMessage objects ever made
  values,     \* chunked_values_: the object of a key, or 0
  delivered   \* what was handed to OnNormalMessage for each key

sendVars == <<send, batch, try, failed>>
recvVars == <<handler, ref, out, heap, values, delivered>>
vars == <<sendVars, recvVars>>

\* A buffer made by Reassemble: its length, and the chunks written into it.
Buffer == [size : Nat, chunks : SUBSET Nat]

TypeOK ==
  /\ send \in [Msg -> SendState]
  /\ batch \in [Msg -> Nat]
  /\ DOMAIN try = Msg /\ DOMAIN failed = Msg
  /\ \A m \in Msg : try[m] \in [Chunks(m) -> 1..MaxAttempt[m]]
  /\ \A m \in Msg : failed[m] \subseteq Chunks(m)
  /\ handler \in [Attempt -> HandlerState]
  /\ ref \in [Attempt -> 0..Len(heap)]
  /\ out \in [Attempt -> Buffer]
  /\ heap \in Seq(Object)
  /\ values \in [Msg -> 0..Len(heap)]
  /\ delivered \in [Msg -> Seq(Buffer)]

Init ==
  /\ send = [m \in Msg |-> "fire"]
  /\ batch = [m \in Msg |-> 0]
  /\ try = [m \in Msg |-> [i \in Chunks(m) |-> 1]]
  /\ failed = [m \in Msg |-> {}]
  /\ handler = [a \in Attempt |-> "none"]
  /\ ref = [a \in Attempt |-> 0]
  /\ out = [a \in Attempt |-> [size |-> 0, chunks |-> {}]]
  /\ heap = <<>>
  /\ values = [m \in Msg |-> 0]
  /\ delivered = [m \in Msg |-> <<>>]

-----------------------------------------------------------------------------
(* SendChunked.                                                            *)

\* Fire the RPCs of one batch.
FireBatch(m) ==
  /\ send[m] = "fire"
  /\ handler' = [a \in Attempt |->
                   IF a.msg = m /\ a.idx \in Batch(m, batch[m]) /\ a.try = 1
                     THEN "flight" ELSE handler[a]]
  /\ send' = [send EXCEPT ![m] = "join"]
  /\ UNCHANGED <<batch, try, failed, ref, out, heap, values, delivered>>

\* The RPC of chunk i is over: it failed, or the handler of its current attempt
\* has returned.
Joined(m, i) ==
  \/ i \in failed[m]
  \/ handler[[msg |-> m, idx |-> i, try |-> try[m][i]]] = "done"

AllJoined(m) == \A i \in Batch(m, batch[m]) : Joined(m, i)

\* Join every RPC of the batch, then go on or throw NetworkError.
JoinBatch(m) ==
  /\ send[m] = "join"
  /\ AllJoined(m)
  /\ \/ /\ failed[m] # {}
        /\ send' = [send EXCEPT ![m] = "failed"]
        /\ UNCHANGED batch
     \/ /\ failed[m] = {} /\ batch[m] + 1 < NumBatches(m)
        /\ send' = [send EXCEPT ![m] = "fire"]
        /\ batch' = [batch EXCEPT ![m] = @ + 1]
     \/ /\ failed[m] = {} /\ batch[m] + 1 = NumBatches(m)
        /\ send' = [send EXCEPT ![m] = "sent"]
        /\ UNCHANGED batch
  /\ UNCHANGED <<try, failed, recvVars>>

-----------------------------------------------------------------------------
(* brpc.                                                                   *)

\* The connection breaks before the response: brpc pushes the chunk again,
\* while the first handler may still be running.
Retry(a) ==
  /\ handler[a] # "none" /\ a.idx \notin failed[a.msg]
  /\ send[a.msg] = "join" /\ a.idx \in Batch(a.msg, batch[a.msg])
  /\ a.try = try[a.msg][a.idx] /\ a.try < MaxAttempt[a.msg]
  /\ try' = [try EXCEPT ![a.msg][a.idx] = @ + 1]
  /\ handler' = [handler EXCEPT ![[a EXCEPT !.try = @ + 1]] = "flight"]
  /\ UNCHANGED <<send, batch, failed, ref, out, heap, values, delivered>>

\* The RPC fails before it reaches the receiver.
Fail(a) ==
  /\ MayFail
  /\ handler[a] = "flight" /\ a.try = try[a.msg][a.idx]
  /\ handler' = [handler EXCEPT ![a] = "none"]
  /\ failed' = [failed EXCEPT ![a.msg] = @ \cup {a.idx}]
  /\ UNCHANGED <<send, batch, try, ref, out, heap, values, delivered>>

-----------------------------------------------------------------------------
(* OnChunkedMessage, in the handler thread of attempt a.                   *)

Goto(a, s) == handler' = [handler EXCEPT ![a] = s]

\* Find or make the ChunkedMessage of the key, under chunked_values_mutex_.
FindOrInsert(a) ==
  /\ handler[a] = "flight"
  /\ \/ /\ values[a.msg] # 0
        /\ ref' = [ref EXCEPT ![a] = values[a.msg]]
        /\ UNCHANGED <<heap, values>>
     \/ /\ values[a.msg] = 0
        /\ heap' = Append(heap, [msg |-> a.msg, chunks |-> {}, size |-> 0])
        /\ ref' = [ref EXCEPT ![a] = Len(heap) + 1]
        /\ values' = [values EXCEPT ![a.msg] = Len(heap) + 1]
  /\ Goto(a, "add")
  /\ UNCHANGED <<sendVars, out, delivered>>

\* emplace keeps the first copy of a chunk, message_size_ counts every copy.
AddChunk(a) ==
  /\ handler[a] = "add"
  /\ heap' = [heap EXCEPT ![ref[a]].chunks = @ \cup {a.idx},
                          ![ref[a]].size = @ + ChunkSize(a.msg, a.idx)]
  /\ Goto(a, "check")
  /\ UNCHANGED <<sendVars, ref, out, values, delivered>>

\* A mutation: one chunk too many is waited for.
IsFullyFilled_OffByOne(a) ==
  /\ handler[a] = "check"
  /\ Goto(a, IF Cardinality(heap[ref[a]].chunks) > NumChunks(a.msg)
               THEN "erase" ELSE "done")
  /\ UNCHANGED <<sendVars, ref, out, heap, values, delivered>>

\* chunks_.size() is read without the lock; other handlers may add meanwhile.
IsFullyFilled(a) ==
  /\ handler[a] = "check"
  /\ Goto(a, IF Cardinality(heap[ref[a]].chunks) = NumChunks(a.msg)
               THEN "erase" ELSE "done")
  /\ UNCHANGED <<sendVars, ref, out, heap, values, delivered>>

\* Several handlers may have seen the message filled.  The one that finds the
\* key in chunked_values_ erases it and goes on.
EraseEntry(a) ==
  /\ handler[a] = "erase"
  /\ Goto(a, IF values[a.msg] = 0 THEN "done" ELSE "reassemble")
  /\ values' = [values EXCEPT ![a.msg] = 0]
  /\ UNCHANGED <<sendVars, ref, out, heap, delivered>>

\* The buffer is allocated with message_size_ bytes, the chunks are copied into
\* it and the object is cleared.
Reassemble(a) ==
  /\ handler[a] = "reassemble"
  /\ out' = [out EXCEPT ![a] = [size |-> heap[ref[a]].size,
                                chunks |-> heap[ref[a]].chunks]]
  /\ heap' = [heap EXCEPT ![ref[a]].chunks = {}, ![ref[a]].size = 0]
  /\ Goto(a, "deliver")
  /\ UNCHANGED <<sendVars, ref, values, delivered>>

\* OnNormalMessage, under msg_mutex_.
Deliver(a) ==
  /\ handler[a] = "deliver"
  /\ delivered' = [delivered EXCEPT ![a.msg] = Append(@, out[a])]
  /\ Goto(a, "done")
  /\ UNCHANGED <<sendVars, ref, out, heap, values>>

Handler(a) ==
  \/ FindOrInsert(a) \/ AddChunk(a) \/ IsFullyFilled(a)
  \/ EraseEntry(a) \/ Reassemble(a) \/ Deliver(a)

-----------------------------------------------------------------------------

Idle ==
  /\ \A m \in Msg : send[m] \in {"sent", "failed"}
  /\ \A a \in Attempt : handler[a] \in {"none", "done"}

Terminating == Idle /\ UNCHANGED vars

Next ==
  \/ \E m \in Msg : FireBatch(m) \/ JoinBatch(m)
  \/ \E a \in Attempt : Handler(a) \/ Retry(a) \/ Fail(a)
  \/ Terminating

\* Senders and handler threads run; breaking connections is not promised.
Spec ==
  /\ Init /\ [][Next]_vars
  /\ \A m \in Msg : WF_vars(FireBatch(m) \/ JoinBatch(m))
  /\ \A a \in Attempt : WF_vars(Handler(a))

-----------------------------------------------------------------------------

\* The buffer that holds message m and nothing else.
Whole(m) == [size |-> Bytes[m], chunks |-> Chunks(m)]

\* No chunk of the message was pushed twice.
Once(m) == \A i \in Chunks(m) : try[m][i] = 1

\* What OnNormalMessage gets for a key is the message, with its length ("unpacked
\* into small chunks then reassembled", context.h:71-72), and it gets it once
\* ("only one thread do the reassemble", channel.cc:162).
Intact(m) == Len(delivered[m]) <= 1 /\ \A n \in 1..Len(delivered[m]) :
                                          delivered[m][n] = Whole(m)

\* Messages are reassembled although several handlers may see them filled, as
\* long as no chunk comes twice.
ReassembledOnce == \A m \in Msg : Once(m) => Intact(m)

\* SendChunked returns only when the message has been handed to OnNormalMessage:
\* the handler that reassembles it answers after that.
SentMeansDelivered ==
  \A m \in Msg : Once(m) /\ send[m] = "sent" => Len(delivered[m]) = 1

\* Nothing of a message that was sent stays in chunked_values_.
NoLeftover == \A m \in Msg : Once(m) /\ send[m] = "sent" => values[m] = 0

\* What SendChunked and OnChunkedMessage promise of a message of which no chunk
\* comes twice: it is delivered once and whole, at the latest when SendChunked
\* returns, and leaves nothing behind.
MessageSafe == TypeOK /\ ReassembledOnce /\ SentMeansDelivered /\ NoLeftover

\* SendChunked comes back from every message, and unless it throws the message
\* is delivered, with or without repeated chunks.
DeliveredOrFailed ==
  \A m \in Msg : <>(\/ send[m] = "failed"
                     \/ (send[m] = "sent" /\ delivered[m] # <<>>))

-----------------------------------------------------------------------------
(* The inductive invariant behind MessageSafe.                             *)

First(m, i) == [msg |-> m, idx |-> i, try |-> 1]

\* The handlers that have their ChunkedMessage, and those that have added to it.
Live == HandlerState \ {"none", "flight"}
HasAdded == Live \ {"add"}

\* Every attempt was made by brpc, and every object belongs to one key.
RefInv ==
  /\ \A a \in Attempt :
       /\ handler[a] # "none" => a.try <= try[a.msg][a.idx]
       /\ handler[a] \in Live => ref[a] # 0 /\ heap[ref[a]].msg = a.msg
  /\ \A m \in Msg : values[m] # 0 => heap[values[m]].msg = m

\* The chunks of the batches before the current one are done, and those of the
\* batches after it are not sent.
SendInv(m) ==
  \A i \in Chunks(m) :
    LET b == i \div ParallelSize
        h == handler[First(m, i)]
    IN  /\ b < batch[m] \/ send[m] = "sent" => h = "done"
        /\ b > batch[m] \/ (b = batch[m] /\ send[m] = "fire") => h = "none"

Added(m) == {i \in Chunks(m) : handler[First(m, i)] \in HasAdded}

\* The bytes of the chunks in C.
BytesOf(m, C) == {x \in 0 .. (Bytes[m] - 1) : x \div MaxPayload \in C}

\* No handler of m has found its ChunkedMessage.
Untouched(m) ==
  /\ values[m] = 0 /\ delivered[m] = <<>>
  /\ \A i \in Chunks(m) : handler[First(m, i)] \notin Live

\* All handlers share one object.  When it holds all the chunks there is a
\* handler that will see it.
Filling(m) ==
  /\ values[m] # 0 /\ delivered[m] = <<>>
  /\ heap[values[m]].chunks = Added(m)
  /\ heap[values[m]].size = Cardinality(BytesOf(m, Added(m)))
  /\ \A i \in Chunks(m) :
       /\ handler[First(m, i)] \notin {"reassemble", "deliver"}
       /\ handler[First(m, i)] \in Live => ref[First(m, i)] = values[m]
       /\ handler[First(m, i)] = "erase" => Added(m) = Chunks(m)
  /\ Added(m) = Chunks(m) =>
       \E i \in Chunks(m) : handler[First(m, i)] \in {"check", "erase"}

\* The handler of chunk i has the message, and has yet to hand it over.
Winner(m, i) ==
  \/ /\ handler[First(m, i)] = "reassemble"
     /\ heap[ref[First(m, i)]].chunks = Chunks(m)
     /\ heap[ref[First(m, i)]].size = Bytes[m]
  \/ /\ handler[First(m, i)] = "deliver"
     /\ out[First(m, i)] = Whole(m)

\* One handler has won and has delivered the message, or will.
Filled(m) ==
  /\ values[m] = 0 /\ Added(m) = Chunks(m)
  /\ \/ /\ delivered[m] = <<>>
        /\ \E w \in Chunks(m) :
             /\ Winner(m, w)
             /\ \A i \in Chunks(m) \ {w} :
                  handler[First(m, i)] \notin {"reassemble", "deliver"}
     \/ /\ delivered[m] = <<Whole(m)>>
        /\ \A i \in Chunks(m) :
             handler[First(m, i)] \notin {"reassemble", "deliver"}

PhaseInv(m) == Untouched(m) \/ Filling(m) \/ Filled(m)

ChunkInv ==
  /\ TypeOK /\ RefInv
  /\ \A m \in Msg : Once(m) => SendInv(m) /\ PhaseInv(m)

=============================================================================
