---------------------------- MODULE Collectives ----------------------------
(***************************************************************************)
(* The collective algorithms of yasl::link (link/algorithm/*.cc) and the   *)
(* point-to-point calls of Context (link/context.cc), run by every rank of *)
(* one or more contexts over shared channels.                              *)
(*                                                                         *)
(* A context comes from the factory, or from a call of Spawn or SubWorld   *)
(* of another one; it then has its own id, ranks and counters and shares   *)
(* the channels of its parent.  Each context is used by a thread of its    *)
(* own.  All ranks of a context make the same sequence of calls.           *)
(*                                                                         *)
(* A channel is what Channel shows it to be: a message that was sent can   *)
(* be received by its key, its ack follows.  So sending stores, and        *)
(* receiving acknowledges, in one step.                                    *)
(***************************************************************************)
EXTENDS Integers, FiniteSets, Sequences, SequencesExt, FiniteSetsExt

CONSTANTS
  Ctx,      \* the contexts
  Members,  \* the parties of each context, in the order of their ranks
  Program,  \* the calls that every member of a context makes, in order
  Together, \* the sets of contexts that are used at the same time
  Window    \* throttle_window_size_ of all channels of each party

Vectors == {"allgatherv", "gatherv"}  \* the forms that take vectors of buffers
Creation == {"spawn", "subworld"}
Op == {"barrier", "bcast", "allgather", "gather", "scatter", "p2p"}
        \cup Vectors \cup Creation

\* A call.  For "p2p", rank root sends to rank peer; the others do nothing.
\* size is the length of the vectors, child the context that is made, which
\* SubWorld names by a suffix.  An id is a text with parts between dashes, and
\* here the sequence of its parts; a suffix is one part, as the number that Spawn
\* appends.  Suffixes with a dash in them, which the code does not refuse
\* (context.cc:282), are left out: "0-1" would be the name of a grandchild.
Call == [op : Op, root : Nat, peer : Nat, size : Nat, child : Ctx, suffix : Nat]

WorldSize(c) == Len(Members[c])

Rank(c) == 0 .. (WorldSize(c) - 1)

Party == UNION {Range(Members[c]) : c \in Ctx}

ASSUME CollectivesAssumption ==
  /\ Window \in [Party -> Nat]
  /\ Together \subseteq SUBSET Ctx
  /\ \A c \in Ctx : Members[c] \in Seq(Party) /\ IsInjective(Members[c]) /\ WorldSize(c) > 0
  /\ \A c \in Ctx : Program[c] \in Seq(Call)
  /\ \A c \in Ctx : \A n \in DOMAIN Program[c] :
       LET call == Program[c][n]
       IN  /\ call.root \in Rank(c) /\ call.peer \in Rank(c)
           /\ call.op = "p2p" => call.root # call.peer
           /\ call.op = "spawn" => Members[call.child] = Members[c]
           /\ call.op = "subworld" => Range(Members[call.child]) \subseteq Range(Members[c])

\* What a call of Spawn or SubWorld appends to the id of its context: Spawn the
\* number of children that Spawn has made before.
Making(c) == {n \in DOMAIN Program[c] : Program[c][n].op \in Creation}
Name(c, n) ==
  IF Program[c][n].op = "spawn"
  THEN Cardinality({k \in 1 .. (n - 1) : Program[c][k].op = "spawn"})
  ELSE Program[c][n].suffix

\* Each of these calls makes a context of its own, and a suffix is not one that
\* a sibling has: SubWorld appends what its caller gives it, unseen.
ASSUME NamesAssumption ==
  \A c, d \in Ctx : \A n \in Making(c), m \in Making(d) :
    <<c, n>> # <<d, m>> =>
      /\ Program[c][n].child # Program[d][m].child
      /\ c = d /\ Program[d][m].op = "subworld" => Name(c, n) # Name(d, m)

\* The party that has rank r in context c.
PartyOf(c, r) == Members[c][r + 1]

-----------------------------------------------------------------------------
(* The steps of each algorithm at rank r of n.                             *)

PrevRank(n, r, stride) == (r - stride + n) % n

NextRank(n, r, stride) == (r + stride) % n

SendTo(q) == [do |-> "send", rank |-> q]

RecvFrom(q) == [do |-> "recv", rank |-> q]

\* The other ranks, in ascending order.
Others(n, r) == [i \in 1 .. (n - 1) |-> IF i <= r THEN i - 1 ELSE i]

\* 1 << k, as an offset or a stride that is shifted on has it.
Shift[k \in Nat] == IF k = 0 THEN 1 ELSE 2 * Shift[k - 1]

\* The rounds of Barrier: the offset is below n.
Rounds(n) == Min({k \in 0..n : Shift[k] >= n})

\* A mutation: the last round is forgotten.
BarrierSteps_ShortRounds(n, r) ==
  [i \in 1 .. 2 * (IF n > 2 THEN Rounds(n) - 1 ELSE Rounds(n)) |->
     LET offset == Shift[(i - 1) \div 2]
     IN  IF i % 2 = 1 THEN SendTo(NextRank(n, r, offset))
                      ELSE RecvFrom(PrevRank(n, r, offset))]

BarrierSteps(n, r) ==
  [i \in 1 .. 2 * Rounds(n) |->
     LET offset == Shift[(i - 1) \div 2]
     IN  IF i % 2 = 1 THEN SendTo(NextRank(n, r, offset))
                      ELSE RecvFrom(PrevRank(n, r, offset))]

\* Positions relative to the root.
RingOffset(begin, end, n) == (end - begin + n) % n

\* The strides of Broadcast are shifted from bit_floor(n) down to 1.
BitFloor(n) == Max({k \in 0..n : Shift[k] <= n})

\* Virtual rank v receives at the first stride that divides it; the root has
\* the value before the first one.
Turn(n, v) ==
  IF v = 0 THEN BitFloor(n) + 1 ELSE Max({k \in 0 .. BitFloor(n) : v % Shift[k] = 0})

\* It sends at each later stride that does not leave the world, and these are
\* the last ones.
Sends(n, v) == Min({k \in 0 .. Turn(n, v) : k = Turn(n, v) \/ v + Shift[k] >= n})

BroadcastSteps(n, r, root) ==
  LET v == RingOffset(root, r, n)
      receive == <<RecvFrom(PrevRank(n, r, Shift[Turn(n, v)]))>>
      send == [i \in 1 .. Sends(n, v) |-> SendTo(NextRank(n, r, Shift[Sends(n, v) - i]))]
  IN  IF v = 0 THEN send ELSE receive \o send

SendAll(n, r) == [i \in 1 .. (n - 1) |-> SendTo(Others(n, r)[i])]

RecvAll(n, r) == [i \in 1 .. (n - 1) |-> RecvFrom(Others(n, r)[i])]

AllGatherSteps(n, r) == SendAll(n, r) \o RecvAll(n, r)

GatherSteps(n, r, root) == IF r = root THEN RecvAll(n, r) ELSE <<SendTo(root)>>

ScatterSteps(n, r, root) == IF r = root THEN SendAll(n, r) ELSE <<RecvFrom(root)>>

P2PSteps(r, src, dst) ==
  CASE r = src -> <<SendTo(dst)>>
    [] r = dst -> <<RecvFrom(src)>>
    [] OTHER -> <<>>

\* What GatherVectorImpl and AllGatherVectorImpl do for their vectors, they do
\* by one call of GatherImpl or AllGatherImpl, or none if the vector is empty.
ImplOf(op) ==
  CASE op = "allgatherv" -> "allgather"
    [] op = "gatherv" -> "gather"
    [] OTHER -> op

Steps(c, r, call) ==
  LET n == WorldSize(c)
      op == ImplOf(call.op)
  IN  IF call.op \in Vectors /\ call.size = 0 THEN <<>>
      ELSE CASE op = "barrier" -> BarrierSteps(n, r)
             [] op = "bcast" -> BroadcastSteps(n, r, call.root)
             [] op = "allgather" -> AllGatherSteps(n, r)
             [] op = "gather" -> GatherSteps(n, r, call.root)
             [] op = "scatter" -> ScatterSteps(n, r, call.root)
             [] op = "p2p" -> P2PSteps(r, call.root, call.peer)

-----------------------------------------------------------------------------

\* A member of a context, with the thread that uses it.
Thread == UNION {{<<c, r>> : r \in Rank(c)} : c \in Ctx}

VARIABLES
  sessions, \* _sessions of the in-memory factory
  id,       \* the id of each thread's context, <<>> before it is made
  children, \* Context::child_counter_ of each thread
  calls,    \* the number of calls each thread has begun
  counter,  \* Context::counter_ of each thread
  p2p,      \* Context::p2p_counter_ of each thread
  event,    \* the key of the current call
  todo,     \* the steps of it that are left
  pc,       \* "idle", "step" (in a call), "throttle" (in ThrottleWindowWait)
  wcount,   \* the wait_count argument of ThrottleWindowWait
  got,      \* the value the thread has for each rank in the current call
  db,       \* messages from one party that another one has not received
  sent,     \* sent_msg_count_ of the channel from one party to another
  acks,     \* ack_msg_count_ of that channel
  stats     \* Statistics: sent_actions and recv_actions of each context

makeVars == <<sessions, id, children>>
ctxVars == <<makeVars, calls, counter, p2p, event>>
chanVars == <<db, sent, acks>>
vars == <<ctxVars, todo, pc, wcount, got, chanVars, stats>>

Empty == <<>>

Current(t) == Program[t[1]][calls[t]]

\* The input of rank r in the n-th call of context c; for scatter the root's
\* input for r; for the vector forms the i-th buffer of r's vector.
Input(c, n, r) == <<c, n, r>>
Buffers(c, n, r) == [i \in 1 .. Program[c][n].size |-> <<c, n, r, i>>]

SerializeArrayOfBuffers(bufs) == [proto |-> bufs]

DeserializeArrayOfBuffers(buf) == buf.proto

\* What a rank gives to GatherImpl and AllGatherImpl for its vector: a single
\* buffer is not serialized again.
Packed(c, n, r) ==
  LET bufs == Buffers(c, n, r)
  IN  IF Len(bufs) = 1 THEN bufs[1] ELSE SerializeArrayOfBuffers(bufs)

Unpacked(t, q) ==
  IF Current(t).size = 1 THEN <<got[t][q]>> ELSE DeserializeArrayOfBuffers(got[t][q])

\* outputs[idx][rank] of the vector forms.
outputs(t) ==
  [i \in 1 .. Current(t).size |-> [q \in Rank(t[1]) |-> Unpacked(t, q)[i]]]

\* The contexts that Spawn and SubWorld make.
Spawned ==
  {c \in Ctx : \E d \in Ctx : \E n \in DOMAIN Program[d] :
                 Program[d][n].op \in Creation /\ Program[d][n].child = c}

\* Whose Statistics a thread counts in: a context made by Spawn shares them
\* with its parent, and so with the parent's parent.
StatsOwner ==
  LET parents(t) == {c \in Ctx : \E n \in DOMAIN Program[c] :
                       Program[c][n].op = "spawn" /\ Program[c][n].child = t[1]}
      owner[t \in Thread] ==
        IF parents(t) = {} THEN t ELSE owner[<<CHOOSE c \in parents(t) : TRUE, t[2]>>]
  IN  [t \in Thread |-> owner[t]]

\* The contexts that are not used have made their calls.
Init ==
  /\ sessions = {}
  /\ id = [t \in Thread |-> <<>>] /\ children = [t \in Thread |-> 0]
  /\ \E used \in Together :
       calls = [t \in Thread |-> IF t[1] \in used THEN 0 ELSE Len(Program[t[1]])]
  /\ counter = [t \in Thread |-> 0]
  /\ p2p = [t \in Thread |-> [d \in Rank(t[1]) \X Rank(t[1]) |-> 0]]
  /\ event = [t \in Thread |-> Empty]
  /\ todo = [t \in Thread |-> <<>>] /\ pc = [t \in Thread |-> "idle"]
  /\ wcount = [t \in Thread |-> 0]
  /\ got = [t \in Thread |-> [r \in Rank(t[1]) |-> Empty]]
  /\ db = [p \in Party |-> [q \in Party |-> {}]]
  /\ sent = [p \in Party |-> [q \in Party |-> 0]]
  /\ acks = [p \in Party |-> [q \in Party |-> 0]]
  /\ stats = [t \in Thread |-> [sent |-> 0, recv |-> 0]]

-----------------------------------------------------------------------------

\* CreateSession makes the contexts of all ranks with channels that are linked
\* in pairs: a rank may send to one that has not asked for its context yet.
CreateOrGetSession(desc) == sessions' = sessions \cup {desc}

\* FactoryMem::CreateContext with the same description at each rank.
CreateContext(t) ==
  /\ id[t] = <<>> /\ t[1] \notin Spawned
  /\ calls[t] < Len(Program[t[1]])
  /\ CreateOrGetSession([id |-> t[1], parties |-> Members[t[1]]])
  /\ id' = [id EXCEPT ![t] = <<t[1]>>]
  /\ UNCHANGED <<children, calls, counter, p2p, event, todo, pc, wcount, got, chanVars, stats>>

\* The next call of the thread's program, which has the given operation.
Calls(t, ops) ==
  /\ pc[t] = "idle" /\ id[t] # <<>>
  /\ calls[t] < Len(Program[t[1]])
  /\ Program[t[1]][calls[t] + 1].op \in ops
  /\ calls' = [calls EXCEPT ![t] = @ + 1]

\* A mutation: the children have the same id.
SpawnId_Same(t) == Append(id[t], 0)

\* The id of the next child: "{id}-{child_counter_++}".
SpawnId(t) == Append(id[t], children[t])

Spawn(t) ==
  /\ Calls(t, {"spawn"})
  /\ id' = [id EXCEPT ![<<Program[t[1]][calls[t] + 1].child, t[2]>>] = SpawnId(t)]
  /\ children' = [children EXCEPT ![t] = @ + 1]
  /\ UNCHANGED <<sessions, counter, p2p, event, todo, pc, wcount, got, chanVars, stats>>

\* The rank of a member of a context in the context made by SubWorld; its
\* channels are the parent's, in the order of the sub world's parties.
NewRank(c, r, child) == CHOOSE q \in Rank(child) : PartyOf(child, q) = PartyOf(c, r)

\* "Party which not in `sub_parties` should not call the SubWorld() method."
SubWorld(t) ==
  /\ Calls(t, {"subworld"})
  /\ LET call == Program[t[1]][calls[t] + 1]
     IN  id' = IF PartyOf(t[1], t[2]) \in Range(Members[call.child])
               THEN [id EXCEPT ![<<call.child, NewRank(t[1], t[2], call.child)>>] =
                       Append(id[t], call.suffix)]
               ELSE id
  /\ UNCHANGED <<sessions, children, counter, p2p, event, todo, pc, wcount, got, chanVars, stats>>

\* NextId, and the type each algorithm appends to it.
NextId(t, op) ==
  /\ counter' = [counter EXCEPT ![t] = @ + 1]
  /\ event' = [event EXCEPT ![t] = <<id[t], counter[t] + 1, op>>]
  /\ UNCHANGED p2p

\* NextP2PId, called by the two ranks concerned.
NextP2PId(t, src, dst) ==
  LET n == p2p[t][<<src, dst>>] + 1
  IN  /\ p2p' = [p2p EXCEPT ![t][<<src, dst>>] = n]
      /\ event' = [event EXCEPT ![t] = <<id[t], n, src, dst>>]
      /\ UNCHANGED counter

\* Each rank has an input; only the root has one in Broadcast, Scatter and a
\* point-to-point send.
HasInput(call, r) ==
  r = call.root \/ ImplOf(call.op) \in {"allgather", "gather"}

Given(c, n, r) == IF Program[c][n].op \in Vectors THEN Packed(c, n, r) ELSE Input(c, n, r)

\* The thread makes the next call of its program.
Begin(t) ==
  /\ Calls(t, Op \ Creation)
  /\ LET n == calls[t] + 1
         call == Program[t[1]][n]
         r == t[2]
     IN  /\ todo' = [todo EXCEPT ![t] = Steps(t[1], r, call)]
         /\ got' = [got EXCEPT ![t] =
              [q \in Rank(t[1]) |->
                 IF q = r /\ HasInput(call, r) THEN Given(t[1], n, r) ELSE Empty]]
         /\ CASE call.op # "p2p" /\ ~(call.op \in Vectors /\ call.size = 0) ->
                   NextId(t, ImplOf(call.op))
              [] call.op = "p2p" /\ r \in {call.root, call.peer} ->
                   NextP2PId(t, call.root, call.peer)
              [] OTHER -> UNCHANGED <<counter, p2p, event>>
  /\ pc' = [pc EXCEPT ![t] = "step"]
  /\ UNCHANGED <<makeVars, wcount, chanVars, stats>>

\* A mutation: a rank passes its input on, not what it has received.
Value_OwnInput(t, q) ==
  IF Current(t).op = "barrier" THEN Empty ELSE got[t][t[2]]

\* What the thread sends to rank q: a received broadcast is passed on.
Value(t, q) ==
  LET call == Current(t)
  IN  CASE call.op = "barrier" -> Empty
        [] call.op = "scatter" -> Input(t[1], calls[t], q)
        [] call.op = "bcast" /\ t[2] # call.root -> got[t][call.root]
        [] OTHER -> got[t][t[2]]

\* OnNormalMessage at party q: a key that is in msg_db_ is dropped and acked.
Store(p, q, key, val) ==
  \/ /\ \A m \in db[p][q] : m.key # key
     /\ db' = [db EXCEPT ![p][q] = @ \cup {[key |-> key, val |-> val]}]
     /\ UNCHANGED acks
  \/ /\ \E m \in db[p][q] : m.key = key
     /\ acks' = [acks EXCEPT ![p][q] = @ + 1]
     /\ UNCHANGED db

\* SendAsyncInternal up to ThrottleWindowWait.
SendAsyncInternal(t) ==
  /\ pc[t] = "step" /\ todo[t] # <<>> /\ Head(todo[t]).do = "send"
  /\ LET p == PartyOf(t[1], t[2])
         q == PartyOf(t[1], Head(todo[t]).rank)
     IN  /\ Store(p, q, event[t], Value(t, Head(todo[t]).rank))
         /\ sent' = [sent EXCEPT ![p][q] = @ + 1]
         /\ wcount' = [wcount EXCEPT ![t] = sent[p][q] + 1]
  /\ pc' = [pc EXCEPT ![t] = "throttle"]
  /\ UNCHANGED <<ctxVars, todo, got, stats>>

\* A mutation: the acks must exceed the window.
WindowOpen_Strict(t) ==
  LET p == PartyOf(t[1], t[2])
      q == PartyOf(t[1], Head(todo[t]).rank)
  IN  Window[p] = 0 \/ acks[p][q] + Window[p] > wcount[t] + 1

WindowOpen(t) ==
  LET p == PartyOf(t[1], t[2])
      q == PartyOf(t[1], Head(todo[t]).rank)
  IN  Window[p] = 0 \/ acks[p][q] + Window[p] > wcount[t]

\* The window is open: the call of SendAsync returns and is accounted for.
ThrottleWindowWait(t) ==
  /\ pc[t] = "throttle"
  /\ WindowOpen(t)
  /\ stats' = [stats EXCEPT ![StatsOwner[t]].sent = @ + 1]
  /\ todo' = [todo EXCEPT ![t] = Tail(@)]
  /\ pc' = [pc EXCEPT ![t] = "step"]
  /\ UNCHANGED <<ctxVars, wcount, got, chanVars>>

\* Where the value received from rank q goes: an algorithm with a root, or a
\* vector with a place for each rank.
Place(t, q) == IF Current(t).op = "bcast" THEN Current(t).root ELSE q

RecvInternal(t) ==
  /\ pc[t] = "step" /\ todo[t] # <<>> /\ Head(todo[t]).do = "recv"
  /\ LET q == Head(todo[t]).rank
         p == PartyOf(t[1], q)
         me == PartyOf(t[1], t[2])
     IN  \E m \in db[p][me] :
           /\ m.key = event[t]
           /\ db' = [db EXCEPT ![p][me] = @ \ {m}]
           /\ acks' = [acks EXCEPT ![p][me] = @ + 1]
           /\ got' = [got EXCEPT ![t][Place(t, q)] = m.val]
  /\ stats' = [stats EXCEPT ![StatsOwner[t]].recv = @ + 1]
  /\ todo' = [todo EXCEPT ![t] = Tail(@)]
  /\ UNCHANGED <<ctxVars, pc, wcount, sent>>

\* The call has done all its steps.
Returning(t) == pc[t] = "step" /\ todo[t] = <<>>

Return(t) ==
  /\ Returning(t)
  /\ pc' = [pc EXCEPT ![t] = "idle"]
  /\ UNCHANGED <<ctxVars, todo, wcount, got, chanVars, stats>>

Step(t) ==
  \/ CreateContext(t) \/ Spawn(t) \/ SubWorld(t)
  \/ Begin(t) \/ SendAsyncInternal(t) \/ ThrottleWindowWait(t)
  \/ RecvInternal(t) \/ Return(t)

Done == \A t \in Thread : pc[t] = "idle" /\ calls[t] = Len(Program[t[1]])

Terminating == Done /\ UNCHANGED vars

SomeStep == \E t \in Thread : Step(t)

Next == SomeStep \/ Terminating

\* Some thread that can run does: as programs are finite, this is less than
\* what the scheduler of threads promises and enough.
Spec == Init /\ [][Next]_vars /\ WF_vars(SomeStep)

-----------------------------------------------------------------------------
(* Properties.                                                             *)

TypeOK ==
  /\ \A t \in Thread :
       /\ calls[t] \in 0 .. Len(Program[t[1]])
       /\ counter[t] \in 0 .. calls[t]
       /\ pc[t] \in {"idle", "step", "throttle"}
       /\ wcount[t] \in Nat
       /\ \A i \in DOMAIN todo[t] : todo[t][i].rank \in Rank(t[1]) \ {t[2]}
  /\ \A p, q \in Party : sent[p][q] \in Nat /\ acks[p][q] \in Nat

\* "Blocks the caller until all members in the world have called it."
\* (barrier.h:21); the same holds of AllGather.
BarrierSafe ==
  \A t \in Thread :
    Returning(t) /\ (\/ Current(t).op \in {"barrier", "allgather"}
                     \/ (Current(t).op = "allgatherv" /\ Current(t).size > 0)) =>
      \A r \in Rank(t[1]) : calls[<<t[1], r>>] >= calls[t]

\* What a call returns is what the inputs of its ranks say, however far the
\* ranks, and the contexts that share the channels, are apart.
ResultCorrect ==
  \A t \in Thread :
    Returning(t) =>
      LET call == Current(t)
          n == calls[t]
          r == t[2]
      IN  /\ call.op = "bcast" => got[t][call.root] = Input(t[1], n, call.root)
          /\ call.op = "allgather" => \A q \in Rank(t[1]) : got[t][q] = Input(t[1], n, q)
          /\ call.op = "gather" /\ r = call.root =>
               \A q \in Rank(t[1]) : got[t][q] = Input(t[1], n, q)
          /\ call.op = "allgatherv" \/ (call.op = "gatherv" /\ r = call.root) =>
               \A i \in 1 .. call.size, q \in Rank(t[1]) :
                 outputs(t)[i][q] = Buffers(t[1], n, q)[i]
          /\ call.op = "scatter" => got[t][call.root] = Input(t[1], n, r)
          /\ call.op = "p2p" /\ r = call.peer =>
               got[t][call.root] = Input(t[1], n, call.root)

\* A message is never sent while one with the same key is unread at the
\* receiver: OnNormalMessage would drop it ("Duplicate key", channel.cc:100).
NoKeyClash ==
  \A t \in Thread :
    pc[t] = "step" /\ todo[t] # <<>> /\ Head(todo[t]).do = "send" =>
      \A m \in db[PartyOf(t[1], t[2])][PartyOf(t[1], Head(todo[t]).rank)] :
        m.key # event[t]

\* When all calls have returned, no message is left unread: nothing for
\* "Asymmetric logic exist, clear unread key" (channel.cc:244), and every
\* message has been acknowledged.
NothingLeft == Done => \A p, q \in Party : db[p][q] = {} /\ acks[p][q] = sent[p][q]

\* The statistics of the contexts, which a context made by Spawn shares with
\* its parent, account for as many receives as sends in the end.
StatsBalance ==
  MapThenSumSet(LAMBDA t : stats[t].sent, Thread) =
    MapThenSumSet(LAMBDA t : stats[t].recv, Thread)

\* With a window of 1, SendAsync returns only when its message has been received
\* (channel.cc:211: ack_msg_count_ + 1 > wait_count).
Synchronous == {p \in Party : Window[p] = 1}

\* All ranks come to the end of their programs: they never wait for each other
\* in a circle, although they send before they receive; and every send and
\* receive has then been accounted for.  Excepted are settings in which several
\* parties have a window of 1: two of them in an AllGather, or a Barrier in which
\* all have it, stay in SendAsync, before their own receive, until "Throttle
\* window wait timeout" (allgather.cc:41, barrier.cc:37), and the calls throw.
AllReturn == Cardinality(Synchronous) <= 1 => <>(Done /\ StatsBalance)

\* Together: however far apart ranks and contexts are, and whatever
\* Spawn and SubWorld have made, no two messages meet under one key and none is
\* left over.
KeysClean == TypeOK /\ NoKeyClash /\ NothingLeft

=============================================================================
