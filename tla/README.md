# Verification of yasl in TLA+

yasl is a C++ library for secure multi-party computation: a link layer through
which parties exchange messages, oblivious transfer and other protocol tools on
top of it, cryptographic primitives, and I/O helpers. This directory models its
concurrent and distributed core, the protocols and the objects with state that
are built on it, checks them with TLC on small instances and proves the most
important properties with TLAPS for instances of any size.

## Inventory

| component | state | operations | interacts with | what is hard |
|---|---|---|---|---|
| Channel (`link/transport/channel.{h,cc}`, `channel_brpc.{h,cc}`) | `msg_db_`, sent, received and ack counts, `waiting_finish_`, `received_fin_`, `peer_sent_msg_count_`, throttle window, `running_async_count_` | `Send`, `SendAsync`, `Recv`, `SetThrottleWindowSize`, `WaitLinkTaskFinish`, `OnMessage`, RPC completion | the peer's channel through RPCs; application threads; brpc handler threads | RPCs reorder, fail and repeat; counts are taken before or after the message moves; four-step shutdown of both sides at once |
| Chunked messages (same files) | `chunked_values_`, `ChunkedMessage` objects | `SendChunked`, `OnChunkedMessage` | `OnNormalMessage` of the channel | concurrent handlers of one message; failed and repeated chunks |
| In-memory channel (`channel_mem.{h,cc}`) | that of the channel; two `msg_mutex_` | the same | calls the peer's `OnMessage` in the sender's thread | lock order between the two endpoints |
| Context and collectives (`link/context.{h,cc}`, `link/algorithm/*`) | event and point-to-point counters, statistics | `Barrier`, `Broadcast`, `AllGather`, `Gather`, `Scatter`, point-to-point calls, `Spawn`, `SubWorld` | channels, shared by contexts | ranks that are several calls apart; keys; circular waits under throttling |
| Mesh (`Context::ConnectToMesh`, `WaitLinkTaskFinish`, `factory_brpc.cc`) | progress of each rank | start, connect with retries, gather, finish | all channels of a rank | ranks start and finish at different times; sends that fail late |
| In-memory factory (`factory_mem.cc`) | sessions by id | `CreateContext` | contexts | ranks share a session |
| Thread pool (`utils/thread_pool.{h,cc}`) | queue, `stop_`, a condition variable | `Submit`, `WorkLoop`, destructor | client threads, tasks that submit tasks | lost wakeups; destruction with tasks queued |
| Parallel loops (`utils/parallel*`) | `num_intraop_threads`, the pool | `parallel_for`, `parallel_reduce`, `set_num_threads` | thread pool | thread count read twice; exceptions while tasks run |
| Pseudo-random generator (`crypto/pseudo_random_generator.h`) | seed, counter, cache, `num_consumed_` | `operator()`, `Fill`, `SetSeed`, `SetStatus` | symmetric crypto, DRBGs | stale cache after `SetSeed`; counters that wrap; refills that throw |
| DRBGs (`crypto/drbg`) | internal state, reseed counter | instantiate, reseed, generate, health check | entropy sources, OpenSSL callbacks | reseed limits; entropy that fails in the middle; arrays of fixed size |
| Symmetric crypto (`crypto/symmetric_crypto.{h,cc}`) | keys | `Encrypt`, `Decrypt`, `FillPseudoRandom` | generators, envelopes | batches of blocks, counters across batches |
| Hash and mac objects (`crypto/*hash*`, `hmac.*`) | a digest context | construct, `Reset`, `Update`, cumulative result | OpenSSL, BLAKE3 | results taken in the middle of the data |
| Envelopes (`digital_envelope`, `gcm_crypto`, `sm4_mac`) | none between calls | seal, open | symmetric and asymmetric crypto | parts that do not belong together; empty text; vectors of any length |
| Oblivious transfer (`mpctools/ot`) | seeds, matrices, correction counters | base transfer, IKNP, KKRT (in one call and streaming), punctured transfer | link | message order, batches that are not full, transposes, two implementations |
| Distributed point function (`mpctools/dpf`) | keys | `Gen`, `Eval`, `EvalAll`, serialization | PRG | early termination, arithmetic modulo powers of two at the limits |
| Streams and CSV (`io`) | stream position and bits, `current_index_`, `rows_map_`, `total_rows_`, column files | `Init`, `Next`, `Seek`, `Spawn`, write | files; readers in other threads | exceptions within a batch, seeks past the end, empty files, shared column files |
| Serialization, timers, base types (`utils`, `base`) | none | pure functions | all | none |

What makes the components correct:

- *Channel*: every message is acknowledged exactly once, whichever of four code
  paths takes it; a throttled sender never exceeds its window and is always
  released; `WaitLinkTaskFinish` returns on both sides, and only when nothing is
  on its way to the port that is about to be closed.
- *Chunked messages*: a message is delivered whole and once; the sender's call
  returns only after that.
- *In-memory channel*: the same shutdown, without deadlock of the two locks.
- *Collectives*: results are those of the inputs; the barrier is a barrier;
  keys never meet; no circular wait; nothing stays behind.
- *Mesh*: a connected rank is connected to all; no rank leaves while another one
  still needs it; finishing channel by channel has no circular wait.
- *Thread pool*: no lost wakeup, no lost or repeated task, a draining destructor.
- *CSV reader*: index, stream, row map and row count agree after any sequence of
  calls and failures; "no more" means the end; column files outlive their users.
- *Parallel loops*: every index is visited once; results are combined in order;
  every call comes back, nested ones too.
- *Generators*: no value is handed out twice; no request is answered from a seed
  that is too old or too short.
- *Hash and mac objects*: a result is the named function of the key and of all
  data since the last reset.
- *Envelopes*: what was sealed opens to its own text (with two exceptions, below),
  and nothing else opens.
- *Oblivious transfer*: what the receiver gets is what its choice names among
  the sender's blocks, and no random row is used twice.
- *Distributed point function*: on the domain, the two shares add up to the point
  function.

`PROJECT.json` lists all components, and under `hazards` the places in the code
where these can go wrong in a way that a test would hardly reach.

## Modules

| module | models | composed with |
|---|---|---|
| `LinkShutdown` | the abstract promise of `WaitLinkTaskFinish` | implemented by `Channel` and `ChannelMem` |
| `Channel` | `ChannelBase` over `ChannelBrpc` | `ChannelProofs`, `MCChannel` |
| `ChunkedMessage` | `SendChunked`, `OnChunkedMessage` | `LinkProofs`, `MCChunkedMessage` |
| `ChannelMem` | `ChannelBase` over `ChannelMem` | `ChannelMemProofs`, `MCChannelMem` |
| `Collectives` | `Context` with `Spawn` and `SubWorld`, `link/algorithm`, the sessions of the in-memory factory, over channels | `CollectivesProofs`, `MCCollectives` |
| `Mesh` | `CreateContext`, `ConnectToMesh`, `Context::WaitLinkTaskFinish` | `LinkProofs`; run as it is |
| `ThreadPool` | `ThreadPool` | `UtilityProofs`, `MCThreadPool` |
| `Parallel` | `parallel_for`, `parallel_reduce`, `set_num_threads` | `UtilityProofs`, `MCParallel` |
| `CsvReader` | `CsvReader` over an `InputStream` | `UtilityProofs`, `MCCsvReader` |
| `SymmetricCrypto` | `SymmetricCrypto`, `FillPseudoRandom` | `Drbg`, `Envelope` |
| `Drbg` | `Sm4Drbg`, `NistAesDrbg`, the entropy sources | `Prg` |
| `Prg` | `PseudoRandomGenerator`, and the DRBGs as objects | `CryptoObjects` |
| `Digest` | `SslHash`, `Blake3Hash`, `Hmac` | `Envelope` |
| `Envelope` | `Sm4Mte`, `GcmCrypto`, the digital envelopes | `CryptoObjects` |
| `CryptoObjects` | the families above, one per behaviour | `CryptoProofs`, `MCCrypto` |
| `Transpose` | blocks of bits and the bit matrix transposes of `ot/utils` | `OtExtension` |
| `BaseOt` | the base transfer, both implementations | `OtExtension`, `PuncturedOt` |
| `OtExtension` | IKNP, KKRT in one call, KKRT in streaming form | `TwoParty` |
| `Powers` | powers of two, as a function proofs can be made about | `Transpose`, `PuncturedOt`, `Dpf` |
| `PuncturedOt` | the punctured transfer | `TwoParty` |
| `Dpf` | the distributed point function | `TwoParty` |
| `TwoParty` | the protocols above, one per behaviour | `TwoPartyProofs`, `ExtensionProofs`, `MCTwoParty` |

The layers are cut where the lower one's properties say what the upper one
needs. `Channel` treats a chunked message as one message, which `ChunkedMessage`
justifies as long as no chunk is repeated. `Collectives` and `Mesh` treat a
channel as a set of messages by key with acknowledgements, and
`WaitLinkTaskFinish` of one channel as a meeting of two ranks, which is what
`LinkShutdown` says and `Channel` and `ChannelMem` are proved to implement. The two-party protocols
use a link as a queue per direction, since each names its messages in order.
`Parallel` uses the pool as a queue whose tasks are taken in order, each by one
worker, which `ThreadPool` justifies. Cryptographic functions are ideal: a result
is the term that names its arguments, and terms are equal only when they are the
same.

A name with a suffix, such as `WindowOpen_OffByOne`, is a mutation: the
definition with a plausible bug. Each property has one that it rejects. Some
properties are conjunctions of named parts that one run checks together:
`SafeUnlessOvercounted`, `MessageSafe`, `MemSafe`, `KeysClean`, `MeshSafe`,
`ReaderConsistent`, `SeedsSound` and `ExtensionCorrect`; the comment at each part
says what it is about.

### Channel

Both endpoints are indexed by `End`; the variables `sent`, `rcvd`, `acks`, `db`,
`waiting`, `window`, `rfin`, `peerSent` and `running` are the members of
`ChannelBase` and `ChannelBrpc` (the comments give their names). `net`,
`ackNet`, `finNet` and `resp` are RPCs and responses in flight, all unordered, and
`orphans` counts those in flight that have failed for the endpoint that sent them.
What the code does under `msg_mutex_` is one step; what it does before or after
is a step of its own. So `SendAsync` is three steps (hand the message to the RPC
layer, count it, wait for the window), `Recv` is two (take the message, send the
ack), and `WaitLinkTaskFinish` is one per lock. A synchronous `Send` waits for
its response in state "rpc". `pushed` and `faults` are history variables: they
bound the behaviours and appear in properties only.

`Spec` has RPCs that reorder and arrive. `FaultSpec` adds what `brpc` may do to
them: run the handler once more after a lost response ("redeliver", announced by
the comment at channel.cc:231), fail without reaching the handler ("dropsync",
"dropasync"), or fail for the client with the handler still to run ("latesync",
where `Send` throws and the message is not counted, and "lateasync", where
`OnPushDone` only logs and lowers `running_async_count_`). RPCs to a closed port
are refused.

Assumptions on the application, from how `Context` uses channels: a thread that
gets a throttle timeout stops using the channel, and `WaitLinkTaskFinish` is
called when no thread is inside a call.

### ChunkedMessage

One sender task per message and one handler thread per RPC attempt. The handler
runs `OnChunkedMessage` in the steps that its locks separate: find or insert the
object, add the chunk, look whether it is full, erase the entry, reassemble,
deliver. `heap` holds the `ChunkedMessage` objects ever made, since a handler
keeps its `shared_ptr` when the entry is gone. `message_size_` counts bytes, so
that a buffer of the wrong length is seen. The reassembly is one step: a chunk
added while it runs would be a data race that the model does not show.

### ChannelMem

The same protocol with `OnMessage` of the peer called by the sending thread. A
critical section is split in two exactly where the code asks for a second lock
while it holds one: the auto ack in `OnNormalMessage` and the acks in
`StopReceivingAndAckUnreadMsgs`.

### Collectives

Each algorithm is the sequence of sends and receives that one rank executes,
computed from world size, rank and root. A thread of a context executes its
steps one by one over channels shared with other contexts. A value names the
call and the rank whose input it is, so a result from another call, context or
rank is seen. Contexts are made while the others run: the first rank that asks
the in-memory factory for a description makes the session, the others find it;
`Spawn` and `SubWorld` give the child its id, its ranks and the parent's
channels. The vector forms of `AllGather` and `Gather` go through
`SerializeArrayOfBuffers`, and return before `NextId` when the vector is empty.
A context made by `Spawn` counts in the `Statistics` of the context it descends
from through calls of `Spawn` (`StatsOwner`).
Ranks of a context make the same calls, as the library requires, and a suffix
given to `SubWorld` is not one that a sibling has: `SubWorld` appends it unseen,
and the suffix "0" would make the id of the first child of `Spawn`
(`NamesAssumption`). An id is the sequence of its parts, and a suffix one part: a
suffix with a dash in it, which the code accepts too, could make the id of a
grandchild ("0-1"), and is left out. A throttled or receiving rank waits without a
timeout.

### Mesh

A rank's loops over the others (`pos`), its retries (`attempt`) and the stage it
is in. A send may be refused or fail late, after the peer has handled it.

### ThreadPool

Workers, clients, and the owner that runs the destructor. A step is what happens
under `queue_mutex_`; notifying is a separate step, and a notification that
meets no waiting worker is lost, as it is in C++. Workers may also wake for no
reason. A running task may submit tasks. The destructor is called when no client
is inside `Submit`; that other threads must not use an object under destruction
is C++'s rule, not the pool's.

### CsvReader

`in`, `index`, `total`, `rowsMap` are the members `in_`, `current_index_`,
`total_rows_` and `rows_map_` of each reader; `cols` and `dir` are the column
files and their directory, which spawned readers share. A file is a header, the
kinds of its rows (fits, does not convert, has another width) and whether the
last line is ended; a position is a number of lines. The loops over lines are
written in closed form: what a loop of n `GetLine`s leaves the stream in, and
the first row in reach that makes `NextRow` throw. Readers share no state that
changes, so a call is one step. After an exception of `Next` or `Seek` the
caller may go on; after one of `Init` it drops the reader, unless it was the
final `Seek(0)` that threw, which leaves the reader initialised.

### Parallel

A call is named by the tasks around it, and has its own state: the two
computations of `num_tasks` (`sized` for the results of `parallel_reduce`,
`num_tasks` for the run), its futures, the visits of its items and its results.
`stack` says what each thread is in, `region` is the thread-local flag by which a
nested call runs by itself. `num_intraop_threads` goes through `NOT_SET`, a number
and `CONSUMED` as in the code; the pool is made by the first submission.
`set_num_threads` may come at any time. Its `YASL_ENFORCE` tests a string literal
and never fires, so a call after the pool was made changes nothing and says
nothing; the model does the same.

### Two-party protocols

Bits are symbolic: a set of atoms, read as their exclusive or, so an equation
between results holds for all values of the random bits. All sizes of the
transposes follow from the number of bits in a byte, and the model keeps them as
functions of that number: with bytes of one bit a word has two bits and a few
transfers fill several batches. What a generator draws, and what the oracle
returns, are terms. Memory that nobody has written is `Garbage` or any set of
stray bits.

`BaseOt` is message by message for the two sides with their own choice of
implementation, which pack a different number of instances in a message. The checks
of the transfer library on the points it gets (x86_asm_ot_interface.cc:39-41, 94-96)
are left out, since the messages are those that the library makes. IKNP and
KKRT are one step per batch of each side, either side several batches ahead.
`OtExtension` has the streaming form call by call: `Encode`, `ZeroEncode` and
corrections of any size in any order, sent by the link or carried by the caller. The
receiver's matrices have the rows that the loops of `Init` write (`WrittenRows`), be
they past the end or not. The sender may ask for a correction with another count than
it has: `SetCorrection` then changes nothing, and `RecvCorrection` has taken the
message before it throws; `lost` counts the rows that went this way.
`PuncturedOt` is one step per level of the tree. The masked choices travel as a length
and bytes of `ByteBits` bits, and all bits of an uncleared buffer may be set.

`Dpf` works on seeds of few bits with any generator of a small family, since the
result must not depend on the generator. One level of `Gen`, of `Eval` and of the
recursion of `EvalAll` is a step. `Points` are the values of alpha and of the argument
of `Eval`, those past the domain included which the natural logarithm at dpf.cc:73 and
190 admits (`Reach`). Conversion of a negative double to `size_t` is undefined in
C++; `wrapped` says for each of the three machines, the dealer's and the parties', which
of two outcomes it has. A party evaluates if it comes to the level of `Gen` and, with
`EvalAll`, the domain has at most `EvalAllBits` bits (`CanEval`).

### Objects of crypto/

The block cipher is ideal. `SymmetricCrypto` keeps the loop over batches and the
chaining of each mode. In `Drbg` each operation is a function of the generator
and the entropy source; its result says whether it threw and what it left behind
either way. Entropy comes in words that never repeat, and RDSEED may fail at any
of a set of words. `RAND_DRBG` of OpenSSL is external: a request counter, the
reseed interval and the error state. `Prg` has the objects of a program, which
share the entropy; `handed` and `stale` are history variables. `Digest` has the
context of each hash object, a finalized context being useless; `Envelope` seals
envelopes and opens any combination of their parts. `GenRandKey` is a fresh key. A
vector has a length and, beyond its first 16 bytes, a rest: SM4 takes 16 bytes of any
view, reading on in memory behind a shorter one, while the key of the mac is a hash of
the whole vector; GCM refuses vectors that have not 12 bytes.

## Runs

| run | instance | what it shows |
|---|---|---|
| `channel_safe` | 2 threads and 2 keys per endpoint, window 1, 3 + 1 messages, no faults | every message acknowledged once (`AckOnce`), the window (`ThrottleBound`), the port is closed and the call returns only when nothing is under way (`PortSafe`, `OutboxDone`), and `ImplementsShutdown` |
| `channel_faults` | 1 thread, 1 key, windows 0 and 1 with changes between them, 2 messages, one fault of any kind anywhere | `PortSafe` and `OutboxDone` with lost RPCs and asynchronous ones that fail late (`SafeUnlessOvercounted`; a repeated RPC and a synchronous one that fails late are excepted, see below), `FinishLive` and `ThrottleReleased` |
| `chunks` | 1 message of 5 bytes in 3 chunks and 2 batches, each chunk pushed up to twice, RPCs may fail | without repetition delivered whole and once, nothing left over (`MessageSafe`); the sender comes back (`DeliveredOrFailed`) |
| `mem_finish` | 2 threads per endpoint, 2 + 2 messages, one endpoint reads all | `MemSafe`, `FinishLive`, `ImplementsShutdown` |
| `mem_deadlock` | 1 thread per endpoint, 1 + 1 messages, nobody reads | `FinishLive` is violated |
| `collectives` | five ranks (broadcast, barrier); three ranks (every operation, vectors of 0, 1 and 2 buffers); a world of two that makes two children by `Spawn` and one by `SubWorld` in another rank order; windows 0, 1 (at one party) and 2 | `ResultCorrect`, `BarrierSafe`, keys never meet and nothing stays behind (`KeysClean`), every call returns with sends and receives accounted for alike (`AllReturn`, unless several parties have a window of 1, see below) |
| `mesh` | 3 ranks, 1 retry, 2 late failures | `MeshSafe`, `ConnectEnds`, `FinishLive` |
| `thread_pool` | 3 workers, 2 clients, 3 tasks | `NoIdleWorker`, `Drained`, `TasksRun`, `Destroyed` |
| `parallel` | 2 callers, 2 workers, default of 2 threads, set to 1 or 3 once, ranges of 0, 1 and 5 items with grain 2, nested calls, functions that throw | `EachOnce`, `ReduceCorrect`, `CallsReturn` |
| `csv_reader` | files of up to 3 rows with a row that does not fit anywhere, ended or not; batches of 1, 2, 3; a reader and one spawned from it; all modes | `ReaderConsistent`, `NextFalseIsEof`, `ColumnsReadable` |
| `two_party` | words of 2 bits, rows of 2 words, 1, 2 and 5 transfers; streaming with 2 and 5 rows and 2 encodings; corrections asked for with other counts; trees of depth 1 to 3; domains of 1 to 4 bits, `EvalAll` up to 3 bits, shares of 2, 8 and 22 bits, every point of the domains up to 3 bits and points past them | `BaseOtAgrees`, `ExtensionCorrect`, `SeedsMatchIfClean`, `SharesAgree` |
| `crypto` | 2 generators of all kinds, 5 calls, counters at the wrap of 3 bits, entropy that fails at one of several words; 2 hash objects, 5 calls; 2 envelopes under vectors of 12, 16 and 20 bytes, some with the same first 16 bytes, and any recombination of their parts | `NeverTwice`, `SeedsSound`, `DigestTrue`, `EnvelopeTrue` |

Two facts about operators are `ASSUME`s that TLC evaluates: `TransposesAgree` (all
forms of the transpose, for bytes of two and four bits, are the naive one) and
`RoundTrip` (in every mode `Decrypt` undoes `Encrypt`, over batch limits).

Why the bounds are enough for the questions asked. Two threads with two keys
give duplicate keys, throttled senders that overtake each other, and a reader
beside a sender; three messages on one side exceed the window of 1 twice. One
fault at any point is what one broken connection does, and two messages are what
the early-close scenario needs. Three chunks in batches of two have a full and a
short batch and a short last chunk. Five ranks are the least number with a
broadcast tree of three levels that is not full; three ranks are the least
number for which a barrier has two rounds. Three ranks in the mesh allow a
circle of waits. Three workers and two clients allow two notifications at once
with a third worker asleep, and three tasks allow tasks that submit tasks.
Batches of 1, 2 and 3 end before, at and after the last of up to three rows, and
give `rows_map_` every set of entries. Five items with grain 2 make two tasks with
two threads and three with three, so that a change of the thread count between
two computations is seen. One, two and five transfers in batches of two are a
partial, a full, and two full batches with a partial one; two blocks for the eight
of a batch of 1024 have a last batch that ends within and at the end of a block.
Depth 1 is where the punctured transfer refuses, depth 3 has an inner level on
both sides of the hole. The numbers of bits of shares and domains give
`GetTerminateLevel` of `Dpf` results below, at and above zero. Five calls are enough to
construct, use up a cache, fail in a refill and go on, or to cross a reseed limit
of 3 or 4.
`SYMMETRY` is used only where no liveness is checked.

Deadlock is checked except in `csv_reader` (all readers are destroyed), `crypto`
and `parallel` (the program has made its calls), `channel_faults` (a lost
asynchronous RPC leaves `WaitLinkTaskFinish` waiting for ever, which the code
does), `mem_deadlock` (the deadlock is the finding, stated by a liveness property)
and `mesh` (a rank waits without a timeout for a peer that failed).

### Where the code does not keep a promise

`mem_deadlock` shows a deadlock: with unread messages on both sides, each
endpoint holds its `msg_mutex_` and waits for the other's (channel.cc:241-245).

The other places are exceptions that a property names; without the exception TLC
finds the behaviour.

- `SafeUnlessOvercounted`: `WaitForFinAndFlyingMsg` and `WaitForFlyingAck` accept
  counts that exceed the expected ones, and a message that was received and not
  counted by its sender then stands for one that is still on its way. There are two
  ways to such a message: brpc delivers it twice, or a synchronous `Send` fails
  (channel_brpc.cc:328) although its handler runs. The comments at channel.cc:269
  and 276 promise that the port can be closed safely.
- `AllReturn`: with a throttle window of 1 `SendAsync` returns only when its message
  has been received (channel.cc:211), and in `AllGather` and `Barrier` every rank
  sends before it receives (allgather.cc:41, barrier.cc:37). Two ranks of an
  `AllGather`, or all ranks of a `Barrier`, that have this window wait for each
  other until "Throttle window wait timeout". The window is legal (the channel's
  tests use it), and the property is about settings in which at most one party has
  it; with two of them TLC finds the circle.
- `MessageSafe`: `AddChunk` adds the size of a repeated chunk, so the reassembled
  buffer is too long (channel.cc:36-37).
- `ReaderConsistent`: `NextRow` reads a row of another width without counting it
  (csv_reader.cc:398-406). A caller that goes on after the exception gets wrong
  entries in `rows_map_`; `Tell` lags behind, and `Seek` later comes to other rows,
  so that rows are given out again or passed over (csv_reader.cc:483). In files with
  such rows the property only says that index and map never count more rows than
  lie before the position.
- `SeedsMatchIfClean`: `BufferFromVectorBool` ors bits into a buffer that nobody
  has cleared (punctured_rand_ot.cc:44); a stray bit changes a masked choice and
  the seeds of that level do not match.
- `NeverTwice`: `SetSeed` keeps what is left in the cache, which comes again when
  the seed is the same (pseudo_random_generator.h:86).
- `ReduceCorrect`: `parallel_reduce` computes the number of tasks twice, and a
  `set_num_threads` in between leaves tasks without a result
  (parallel_native.h:63).
- `DigestTrue`: `SslHash` of SHA224 computes SHA-256 (ssl_hash.cc:25).
- `EnvelopeTrue`: an empty text is sealed by `SmEnvSeal` and does not open
  (sm4_mac.cc:60). With `RsaEnvSeal` it opens only if the view of the empty ciphertext
  has data: without, `EVP_DecryptUpdate` takes the missing input for the end and
  refuses it, as the tag is set only later (gcm_crypto.cc:110, 115). `SmEnvSeal` and
  `SmEnvOpen` copy 16 bytes of a vector of any length (symmetric_crypto.cc:83-89): of a
  shorter one what lies behind it in memory, which need not be the same for both.
- `SharesAgree`: dpf.h:35 says that the function is 0 everywhere but at alpha. `Gen` and
  `Eval` compare the *natural* logarithm of alpha and of the position with `in_bitnum`
  (dpf.cc:73, 190), and so take numbers past 2^`in_bitnum`, of which they use the lowest
  `in_bitnum` bits: the shares add up to beta at 2^`in_bitnum` + alpha, too, and for such
  an alpha at the position in the domain. And machines that convert a negative double
  differently (dpf.h:182) come to different levels, so that `EvalAll` reads past the
  words of a key made on the other kind. The property is about alpha and positions of
  the domain, and about a party that comes to the level of `Gen`.
- `ExtensionCorrect`: `RecvCorrection` takes its message and then throws if the count is
  not the one of the message (kkrt_ot_extension.cc:388-390). The corrections after it go
  to rows that are not theirs. The property says nothing of the streaming form from
  then on.

One case is outside of the model: `Sm4Drbg` copies seed material of any length into 33
bytes (sm4_drbg.cc:74, 89), which an additional input of more than 17 bytes exceeds.
The inputs of `Drbg` are shorter.

### Fairness

Liveness properties assume weak fairness of threads that are inside a call, of
handlers and completions of RPCs that have arrived, and of the steps of
`WaitLinkTaskFinish` and of the destructor: all are threads of brpc, of the pool
or of the application that the operating system schedules, blocked on condition
variables whose waits re-check their predicates. Nothing is assumed of the
application (it need not send, receive, submit or finish), of timeouts, or of
faults. `Mesh` and `ChunkedMessage` assume that a send or receive that was begun
comes back, which brpc's timeouts and the receive timeout ensure; `ChannelMem`
that each endpoint's program goes on; `ThreadPool` that tasks end. `Parallel` assumes
that a thread in a call goes on, that a worker takes tasks, and that the function
ends. `Collectives` assumes only that some thread that can run does.

## Proofs

Each module of proofs extends the module it is about and proves, for every value
of the constants that its `ASSUME` allows, that an inductive invariant holds
always, and from that invariant the properties which the runs check. No property
is inductive as it stands; the invariants stand at the end of the component's
module (`CsvInv` in `UtilityProofs`, `CollectivesInv` in `CollectivesProofs`). All but
`CollectivesInv`, whose quantifiers TLC cannot enumerate, were checked by TLC on
the component's run before they were proved. Facts about one action and one conjunct are lemmas or steps of their own.

| module | invariant | theorems about properties of the runs |
|---|---|---|
| `ChannelProofs` | `IInv`, `FaultInv` | `TypeCorrect`, `AcksAreExact`, `PortSafety`, `OutboxCompleteness`, `ThrottleBounded`, `Refinement` of `Spec`; `SafeDespiteLoss` of `FaultSpec` |
| `ChannelMemProofs` | `MemInv` | `Silence`, `Refinement` |
| `LinkProofs` | `ChunkInv`, `MeshInv` | `ReassemblySafety`, `MeshSafety` |
| `CollectivesProofs` | `CollectivesInv` | `KeysCleanAlways`, `BarrierSafeAlways`, `ResultCorrectAlways` |
| `UtilityProofs` | `TypeOK`, `NoIdleWorker`, `Draining`; `ParallelInv`; `CsvInv` | `TypeCorrect`, `NoLostWakeup`, `DestructorDrains`; `EveryItemOnce`, `ReduceInOrder`; `PositionsAgreeAlways`, `FalseOnlyAtEnd`, `ColumnsStayReadable` |
| `CryptoProofs` | `CryptoInv` | `DigestsTrue`, `SeedsStaySound`, `EnvelopesTrue` |
| `TwoPartyProofs` | `BaseInv`, `PuncInv`, `PointInv` | `BaseTransfersAgree`, `PuncturedSeeds`, `PointFunctionShared` |
| `ExtensionProofs` | `ExtInv` | `ExtensionsCorrect`; and `TransposesCorrect` about operators |

**Channel.** From `ChannelAssumption`: finitely many threads, and windows that have
a largest one (the argument of `SetThrottleWindowSize` is a `size_t`).
`LossyInv(lm, ls, la)` says what the counters count up to the messages, sends and
acks that were lost: `PushInv` (what was pushed is in flight, received or lost,
and counted, about to be counted or given up), `AckInv` (what was received is
unread, about to be acknowledged, acknowledged, or its ack is lost), `RunningInv`
(`running_async_count_` is the number of asynchronous RPCs and responses in
flight, without those that failed before their handler has run), `SyncInv` (a synchronous message has its sender waiting), `QuietInv` (a
finishing endpoint sends nothing new), `FinInv` (the fin message carries the final
count) and `WaitInv` (what each wait has established). `IInv` is the case of no
loss and no failed RPC. `FaultInv` says that unless a receiver counts something that
its sender does not (`Overcounted`) there are losses with which `LossyInv` holds: every
fault step names the loss it adds. The refinement of `LinkShutdown` is about `Spec`
only: after an asynchronous RPC has failed, `running_async_count_` no longer tells
that it is under way. `PortSafe`
follows: a finished endpoint has `rcvd = peerSent`, so nothing is in flight to it
and nothing was lost, and the acks of its messages and the peer's fin have arrived.
`ThrottleBound` needs `HeldInv`: every count that is a full window past the acks
belongs to a thread that is still held back. A thread is let go only below the
window, acks never decrease, and a count is given out once; so the counts past the
window are no more than the held threads, and the messages that are not counted
yet no more than the others.

**ChannelMem.** From `MemAssumption`. `MemInv` has the same counters in the
simpler form of direct calls, where a thread of the sender stands in the peer's
`OnNormalMessage`; `Pending` is the part of `msg_db_` that
`StopReceivingAndAckUnreadMsgs` has not acknowledged yet. The deadlock of
`mem_deadlock` is no contradiction: the theorems say that a call that returns does
so safely.

**ChunkedMessage.** For any messages, payload sizes and parallelism. `RefInv` ties
handlers to objects of their key, `SendInv` orders the batches, and `PhaseInv` says
that a message of which no chunk was repeated is untouched, being filled in one
object that all its handlers share, or filled, with one handler that has won and
delivers. The size that `AddChunk` adds up is the number of the bytes that belong
to the chunks added (`BytesOf`), which turns the sum into a cardinality.

**Mesh.** For any number of ranks. `MeshInv` says who has tried to connect to whom
(`HeardInv`), that the ranks which a finishing rank is done with have called
`WaitLinkTaskFinish` for it too (`PartedInv`), that nothing is stored for a
channel that is finishing (`DroppedInv`), and where loops begin.

**Collectives.** For any contexts, members, programs and windows, from
`CollectivesAssumption` (what the code enforces of ranks, roots and the parties of
a sub world) and `NamesAssumption` (see above). The steps of a call fit together
(`StepsOf`): every send has exactly one receive at its destination, every receive
one send, and in the order in which a thread makes them. For `BroadcastSteps` this
is arithmetic on powers of two: the rank from which virtual rank v receives is v
without its lowest bit, and that rank sends at exactly this stride; for
`BarrierSteps` it is that adding and subtracting an offset modulo n are inverse.
`CollectivesInv` says, with the number of steps each thread has made in its call:

- `Runs`, `Live`, `Counted`: what a thread has left of its call is the end of the
  call's steps, and its counters are the numbers of the calls of each kind that it
  has begun. So ranks that are at the same call have the same counters, however
  far apart they were before.
- `Ids`, `IdsAgree`, `EventKnown`: the id of a context is the same at its ranks
  and differs from that of any other context. A child's id is its parent's with a
  name, and the names of siblings differ; the argument is by the length of the ids.
  So the key of a message tells the context, the call and the two ranks.
- `DbSound`, `DbComplete`, `Acked`: the channel holds exactly the messages that
  were sent and not received, each once, and as many acks are missing.
- `Causal`, `BarrierKnown`: what was received was sent; and after round k of a
  barrier the 2^(k+1) - 1 ranks behind a rank have entered it, which after the last
  round are all. `GotKnown`: what a call has received so far are the right inputs;
  for `Broadcast` the value of a rank is the root's, since it came from a rank that
  had it.

`NoKeyClash` follows since a second message with the key would be the same step
made twice; `NothingLeft` since each message left would have a receive to come.

**ThreadPool.** From `ThreadPoolAssumption` (there is a worker, as the constructor
enforces). `TypeCorrect`: every task is in one place. `NoLostWakeup`: while a
worker is blocked, the queue is no longer than the set of threads that are about to
look at it or to notify a worker. `Submit` adds a task and an alert thread, a
worker that takes a task removes both, `notify_one` passes the alert on, and nobody
goes to sleep while there are tasks. When no worker is blocked a notification may
be lost; the statement becomes relevant again only when a worker goes to sleep, on
an empty queue. `DestructorDrains`: from `Draining` (nothing enters the queue after
`stop_`, a worker exits only from an empty queue, a running task has a worker).

**Parallel.** From `ParallelAssumption` (callers are not workers of the pool, grains
are positive). A call is `Fresh`, `Direct` or `Divided`; a divided call has
visited item i once if the task of i's chunk is done, and not otherwise, and the
result of a task that is done is that of its chunk. The stacks say which tasks are
running, each on one thread. That the chunks cover the range is arithmetic on
`divup`; that the results of the chunks in order are the items in order is an
induction over the number of chunks.

**Crypto.** From the assumptions of the modules: sizes and intervals are positive,
security strengths are those of `SecurityStrengthFlags`, a text is a sequence.
`DigestInv`: the context of a hash object is a new one with all the data in it, and
never finalized. `GeneratorInv`: `reseed_counter_` of `Sm4Drbg` is twice the number of
requests since the last seeding and one more, the counter of `RAND_DRBG` is one more
than that number, neither number exceeds the interval, and what the callbacks
copied is what the strength asks for. `EnvelopeInv`: envelope i was sealed with
key i, under some contents of the memory behind its vector, so the key tells which
envelope an attempt is about. Counter mode is proved
to be the exclusive or of every block with its key stream, whatever the batch size
(`CtrIs`), so decrypting undoes encrypting (`CtrRoundTrip`), and with another key or
vector the first block of the mac is a sum of three different terms. Vectors with the
same first 16 bytes give the same key stream; the mac, whose key is a hash of the whole
vector, tells them apart.

**CsvReader.** From `CsvAssumption`: batches and sizes are positive, an empty file has
no rows. `CsvInv` says of every reader, through the predicate `Sound` of its members,
that the eof bit is set only at the end, that row 0 is in `rows_map_` of a reader by
rows, that its index is at most, and in an even file exactly, the rows before its
position, and the same of every entry of the map; a reader by columns has the row
count, and all files are complete while one is initialised. `RootFirst` (there is
no other reader while the first one may still fail in `Init`) keeps an incomplete set
of files from a reader. What each call does to one reader is a lemma about its members
alone (`BatchSound`, `ThrowSound`, `SeekSound`, `CopySound`, `ColSound`), and the
steps apply them.

**Two-party protocols.** For every number of instances, all choices, all pairs of
implementations, and trees of every depth. `BaseInv`: both sides are at multiples
of their batch and have a block for every instance before that; the block of
instance i and choice b is a closed term (`Agreed`) that names the message in which
i lies. The messages under way are the next ones that the sender has to take
(`PacksInv`), and if the batches differ the sender has not come past the first one.
`PuncInv`: the hole of a level is the index without its last bits, and as long as
no stray bit was in the buffer, `known` is the sender's level without the seed at
the hole (`Punctured`), and the answers for the levels to come hold the sums of the
siblings' sides under blocks that the receiver has: masking the choice twice gives
the choice of the base transfer, for which `BaseInv` says what both sides hold. In
a step, the seeds of a level being all different (`TreeFacts`), the sum of a side is
the set of its seeds (`SumIs`), what is known cancels, and what is left is the child
of the hole (`Opens`), which put in its place makes the next level without the new
hole (`LevelInserted`). `TwoPartyAssumption` says that a tree has at least one
level, which the code enforces (n > 1).

`ExtInv`, for every number of transfers, width of the KKRT rows, number of blocks in a
batch, secret of the sender and inputs of the receiver, on top of `BaseInv`. All of it
is in terms of `PadBit(c, b, j)`, the bit of transfer j that the generator of base
transfer c and choice b gives: the sender holds the one of its choice, the receiver
both. `IknpInv` and `KkrtInv`: the receiver is any number of batches ahead, the
messages in between are those of the batches in between, and the results of either side
reach to the end of its last batch or of the transfers. The rows which a partial last
KKRT batch sends beyond the end are left open, being memory nobody has written, and
no result depends on them. `StreamInv` has the rows of the streaming form:
`ReceiverStream` (a row of `U_` keeps the bit of its own that nothing can cancel, and is
known in full while at most one call was made for it), `SenderStream` (a row of `q_` is
as drawn until its correction is there, and then mixed with the code of the call for it)
and `CorrectionsInv` (the corrections under way cut the rows between the two counters
into consecutive pieces, of any sizes, and begin behind those that are applied or
lost, whose numbers `CountsInv` bounds). `SenderStream` holds as long as none is lost.
That the loops of `Init` write each row of T_ and U_ and no other is arithmetic on the
last batch (`CopiedWithin`, `WrittenWithin`). In a step the two random words cancel, what is
left of column c is the code if the sender's choice of c is 1 and nothing otherwise,
and the hash of the row is the receiver's exactly at the input whose code was mixed in,
since codes of different inputs differ in every column and some choice is 1. From
`OtAssumption` (sizes are positive, inputs are numbers) and `TwoPartyAssumption` (the sets
of choices are about the columns of the protocol).

`TransposesCorrect` is what both sides' matrices rest on: SSE and Eklundh transposes
give the naive one for every matrix of words. `ByteBitsAssumption` says that a byte has
a positive number of bits and a word a power of two, as 128 is. After a round of
Eklundh's method of width w the rows and columns have exchanged their digits from weight
w up (`Exchanged`), so that the round of width 1 leaves the transpose. After
the step (j, k) of the SSE transpose exactly the sub-squares of the steps before it
are transposed, and loading and storing one is its transpose by arithmetic on
positions; the wide forms are the same for every column of blocks, which does not
touch the others.

`PointInv`, for every domain, width of the shares, point, value and pair
of master seeds, and whatever the generators return: `DpfAssumption` gives the seeds
and generators their types and says that domains have 1 to 63 bits and shares 1 to 64,
as `Gen` enforces. `Points`, `Reach` and `EvalAllBits` are any: which points `Admitted`
lets pass is not used, and the invariant holds for those past the domain, too, of which
`PointFunction` does not speak. The evaluations are those of parties with `CanEval`.
`GenInv`: every entry of
the trail that `Gen` leaves, and every correction word, is `Corrected` of the entry
before, and the two control bits of a level differ. `KeysInv`: the keys the parties
have are those words under their ranks, since `Deserialize` undoes `Serialize`.
`EvalInv`: every node to be visited is the last one of the path to its position
(`NodeAt`), every result is the share of the last node on the path to its position,
every position is put out or below a node to be visited, and the positions of both
kinds together are as many as the domain has; so when nothing is left to visit, each
was put out once. That the two paths agree goes by induction on the level: on the way
to alpha both parties are where `Gen` was, with control bits that differ; where the way
leaves it the correction makes them alike, and alike nodes have alike children. The
shares are then added up by congruences modulo 2^ss_bitnum (`SharesSum`): alike nodes
cancel, and on the path to alpha the last word, which exactly one party adds, is what
the difference lacks of beta.

Induction. A recursive function over numbers is reasoned about by giving its values
in closed form and showing that the set of numbers up to which it has them is all of
`Nat`. The lemma for this, `Induction`, is stated for sets rather than
predicates and proved from a least counterexample, since the library's induction
theorems cannot be instantiated by the provers.

Only model-checked:

- all liveness properties and `ENABLED` (out of the prover's reach);
- `NeverTwice` of `Prg`: that two values differ rests on terms that do not contain
  themselves, such as the state of `Sm4Drbg` after another update. TLC's values have
  this by construction; in the logic of the prover nothing says that a tuple
  is not an element of itself several levels down.

## Not modelled

Message contents beyond what properties tell apart, sizes (except in
`ChunkedMessage`), logging and tracing; the receive timeout of a blocked `Recv`
in `Channel` (it changes nothing); the registration of listeners; the response
codes of `Push`; descriptions of one session that differ between ranks; the
frame of a caller that tasks outlive when `parallel_for` throws; the internals of
brpc, OpenSSL and of the simplest-OT library; `GenRandKey`'s way to a key;
signatures and keys in PEM form (fixed sequences of OpenSSL calls); the CSV
writer (one flag, and formatting); `InputStream::Read` and `Close`; benchmarks,
command line tools, exceptions and value types. The components without a module
are listed in `PROJECT.json` with the reason.

## Plan

Every component with behaviour of its own has a module, and every safety property of a
run but `NeverTwice` has its theorem. `NeverTwice` needs terms with a rank, so that a
term cannot contain itself.
