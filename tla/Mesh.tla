-------------------------------- MODULE Mesh --------------------------------
(***************************************************************************)
(* The life of a context over brpc: FactoryBrpc::CreateContext starts the  *)
(* server (factory_brpc.cc), Context::ConnectToMesh meets all other ranks  *)
(* and Context::WaitLinkTaskFinish leaves them again (context.cc).         *)
(*                                                                         *)
(* A channel is taken from Channel: a message that reached an open port is *)
(* in msg_db_, and WaitLinkTaskFinish of one channel returns when its peer *)
(* has called it as well.                                                  *)
(***************************************************************************)
EXTENDS Integers

CONSTANTS
  N,           \* the number of ranks
  RetryTimes,  \* connect_retry_times
  MaxLate      \* bound: sends that fail for the client after they were handled

ASSUME MeshAssumption ==
  N \in Nat \ {0, 1} /\ RetryTimes \in Nat /\ MaxLate \in Nat

Rank == 0 .. (N - 1)

RankState == {"down",     \* the process has not created its context
              "connect",  \* in ConnectToMesh, sending to a rank
              "gather",   \* in ConnectToMesh, receiving from a rank
              "run",      \* connected
              "finish",   \* in WaitLinkTaskFinish of the channel to a rank
              "done",     \* back from WaitLinkTaskFinish
              "closed",   \* the server has stopped
              "failed"}   \* ConnectToMesh threw, the context is gone

VARIABLES
  pc,       \* the state of each rank
  pos,      \* the position of its loop over the other ranks
  attempt,  \* the number of failed attempts to connect to the current rank
  inbox,    \* ranks whose connect message is in msg_db_
  called,   \* ranks whose channels are in, or past, WaitLinkTaskFinish
  late      \* number of late sends so far

meshVars == <<pc, pos, attempt, inbox, called, late>>

MeshTypeOK ==
  /\ pc \in [Rank -> RankState]
  /\ pos \in [Rank -> 1 .. (N - 1)]
  /\ attempt \in [Rank -> 0..RetryTimes]
  /\ inbox \in [Rank -> SUBSET Rank]
  /\ called \in [Rank -> SUBSET Rank]
  /\ late \in 0..MaxLate

MeshInit ==
  /\ pc = [r \in Rank |-> "down"]
  /\ pos = [r \in Rank |-> 1]
  /\ attempt = [r \in Rank |-> 0]
  /\ inbox = [r \in Rank |-> {}] /\ called = [r \in Rank |-> {}]
  /\ late = 0

\* A mutation: each rank begins with its neighbour and goes round.
Order_Rotated(r) == [i \in 1 .. (N - 1) |-> (r + i) % N]

\* The order in which the loops of rank r visit the other ranks: all ranks from
\* 0 on, without r itself.
Order(r) == [i \in 1 .. (N - 1) |-> IF i <= r THEN i - 1 ELSE i]

\* The rank that the loop of rank r is at.
Peer(r) == Order(r)[pos[r]]

\* The server of rank r is running.
Listening(r) == pc[r] \notin {"down", "closed", "failed"}

Last(r) == pos[r] = N - 1

\* The loop goes to its next rank; after the last one r goes on to state s.
Loop(r, s) ==
  /\ pos' = [pos EXCEPT ![r] = IF Last(r) THEN 1 ELSE @ + 1]
  /\ pc' = [pc EXCEPT ![r] = IF Last(r) THEN s ELSE @]

-----------------------------------------------------------------------------

\* CreateContext, and the call of ConnectToMesh.
CreateContext(r) ==
  /\ pc[r] = "down"
  /\ pc' = [pc EXCEPT ![r] = "connect"]
  /\ UNCHANGED <<pos, attempt, inbox, called, late>>

\* OnNormalMessage at rank q for "connect_r": a second message with the key is
\* dropped, and so is every message once the channel is finishing.
OnConnect(r, q) ==
  inbox' = [inbox EXCEPT ![q] = IF r \in called[q] THEN @ ELSE @ \cup {r}]

\* SendInternal succeeds.
Connect(r) ==
  /\ pc[r] = "connect" /\ Listening(Peer(r))
  /\ OnConnect(r, Peer(r))
  /\ attempt' = [attempt EXCEPT ![r] = 0]
  /\ Loop(r, "gather")
  /\ UNCHANGED <<called, late>>

\* A mutation: retries are not counted.
RetryConnect_Endless(r) == UNCHANGED <<pc, attempt>>

\* NetworkError: the rank sleeps and tries again, or throws "connect to mesh
\* failed".
RetryConnect(r) ==
  \/ /\ attempt[r] < RetryTimes
     /\ attempt' = [attempt EXCEPT ![r] = @ + 1]
     /\ UNCHANGED pc
  \/ /\ attempt[r] = RetryTimes
     /\ pc' = [pc EXCEPT ![r] = "failed"]
     /\ UNCHANGED attempt

ConnectRefused(r) ==
  /\ pc[r] = "connect" /\ ~Listening(Peer(r))
  /\ RetryConnect(r)
  /\ UNCHANGED <<pos, inbox, called, late>>

\* NetworkError, although the peer has handled the message.
ConnectLate(r) ==
  /\ pc[r] = "connect" /\ Listening(Peer(r))
  /\ late < MaxLate
  /\ late' = late + 1
  /\ OnConnect(r, Peer(r))
  /\ RetryConnect(r)
  /\ UNCHANGED <<pos, called>>

\* RecvInternal.
Gather(r) ==
  /\ pc[r] = "gather" /\ Peer(r) \in inbox[r]
  /\ inbox' = [inbox EXCEPT ![r] = @ \ {Peer(r)}]
  /\ Loop(r, "run")
  /\ UNCHANGED <<attempt, called, late>>

\* "Get data timeout".
GatherTimeout(r) ==
  /\ pc[r] = "gather" /\ Peer(r) \notin inbox[r]
  /\ pc' = [pc EXCEPT ![r] = "failed"]
  /\ UNCHANGED <<pos, attempt, inbox, called, late>>

\* The application calls Context::WaitLinkTaskFinish.
WaitLinkTaskFinish(r) ==
  /\ pc[r] = "run"
  /\ pc' = [pc EXCEPT ![r] = "finish"]
  /\ UNCHANGED <<pos, attempt, inbox, called, late>>

\* WaitLinkTaskFinish of one channel begins: an unread message is acknowledged
\* and dropped.
EnterChannel(r) ==
  /\ pc[r] = "finish" /\ Peer(r) \notin called[r]
  /\ called' = [called EXCEPT ![r] = @ \cup {Peer(r)}]
  /\ inbox' = [inbox EXCEPT ![r] = @ \ {Peer(r)}]
  /\ UNCHANGED <<pc, pos, attempt, late>>

\* A mutation: the peer is not waited for.
LeaveChannel_Alone(r) ==
  /\ pc[r] = "finish" /\ Peer(r) \in called[r]
  /\ Loop(r, "done")
  /\ UNCHANGED <<attempt, inbox, called, late>>

\* It returns when the peer has called it as well.
LeaveChannel(r) ==
  /\ pc[r] = "finish" /\ Peer(r) \in called[r] /\ r \in called[Peer(r)]
  /\ Loop(r, "done")
  /\ UNCHANGED <<attempt, inbox, called, late>>

\* The context is destroyed.
Close(r) ==
  /\ pc[r] = "done"
  /\ pc' = [pc EXCEPT ![r] = "closed"]
  /\ UNCHANGED <<pos, attempt, inbox, called, late>>

-----------------------------------------------------------------------------

Step(r) ==
  \/ Connect(r) \/ ConnectRefused(r) \/ Gather(r) \/ GatherTimeout(r)
  \/ EnterChannel(r) \/ LeaveChannel(r)

Application(r) == CreateContext(r) \/ WaitLinkTaskFinish(r) \/ Close(r)

MeshNext == \E r \in Rank : Step(r) \/ Application(r) \/ ConnectLate(r)

\* Sends and receives come back, be it with an error; the applications promise
\* nothing.
MeshSpec == MeshInit /\ [][MeshNext]_meshVars /\ \A r \in Rank : WF_meshVars(Step(r))

-----------------------------------------------------------------------------
(* Properties.                                                             *)

\* A rank that is back from ConnectToMesh has heard from every other rank: all
\* are launched ("all partners launched", context.cc:144), and the only ones
\* that still try to connect to this rank are those whose send failed late.
Connected ==
  \A r, q \in Rank :
    r # q /\ pc[r] \in {"run", "finish", "done", "closed"} =>
      /\ pc[q] # "down"
      /\ pc[q] = "connect" /\ Peer(q) = r => attempt[q] > 0

\* A rank comes back from WaitLinkTaskFinish, and may stop its server, only when
\* every other rank has called it too: none of them is cut off while it still
\* connects, works or has not begun to finish with this rank (channel.cc:269).
NoneCutOff ==
  \A r, q \in Rank :
    r # q /\ pc[r] \in {"done", "closed"} => r \in called[q]

\* A connect message that was sent twice does not stay behind unread.
NothingUnread == \A r \in Rank : pc[r] \in {"done", "closed"} => inbox[r] = {}

\* What a rank may rely on between ConnectToMesh and WaitLinkTaskFinish, and
\* after it: it is connected, not cut off, and nothing is left behind.
MeshSafe == MeshTypeOK /\ Connected /\ NoneCutOff /\ NothingUnread

\* ConnectToMesh comes back from every rank, with or without success.
ConnectEnds ==
  \A r \in Rank : pc[r] = "connect" ~> pc[r] \notin {"connect", "gather"}

\* If all ranks call WaitLinkTaskFinish, all come back: the ranks finish their
\* channels one after the other, in an order that has no circle.
FinishLive ==
  (\A r \in Rank : pc[r] \in {"finish", "done", "closed"})
    ~> (\A r \in Rank : pc[r] \in {"done", "closed"})

-----------------------------------------------------------------------------
(* The inductive invariant behind MeshSafe.                                *)

Past == {"run", "finish", "done", "closed"}

\* The ranks that the loop of rank r is done with.
Visited(r) == {Order(r)[i] : i \in 1 .. (pos[r] - 1)}

\* Rank q has sent its connect message to rank r, at least once.
Tried(q, r) ==
  /\ pc[q] # "down"
  /\ pc[q] = "connect" => r \in Visited(q) \/ (r = Peer(q) /\ attempt[q] > 0)

\* Rank r has received the connect message of rank q.
Heard(r, q) == pc[r] \in Past \/ (pc[r] = "gather" /\ q \in Visited(r))

\* Ranks r and q have both called WaitLinkTaskFinish of the channel they share.
Parted(r, q) == q \in called[r] /\ r \in called[q]

\* A message that is, or was, in msg_db_ has been sent by another rank.
HeardInv ==
  \A r \in Rank :
    /\ r \notin inbox[r]
    /\ \A q \in Rank \ {r} : q \in inbox[r] \/ Heard(r, q) => Tried(q, r)

\* The ranks that WaitLinkTaskFinish of rank r is done with have parted from it.
PartedInv ==
  \A r \in Rank :
    /\ pc[r] = "finish" => \A q \in Visited(r) : Parted(r, q)
    /\ pc[r] \in {"done", "closed"} => \A q \in Rank \ {r} : Parted(r, q)

\* Nothing is stored for a channel that is finishing.
DroppedInv == \A r \in Rank : inbox[r] \cap called[r] = {}

\* Every loop has begun at the first rank.
LoopInv == \A r \in Rank : pc[r] = "run" => pos[r] = 1

MeshInv == MeshTypeOK /\ HeardInv /\ PartedInv /\ DroppedInv /\ LoopInv

=============================================================================
