------------------------------ MODULE Channel ------------------------------
(***************************************************************************)
(* The point-to-point channel of yasl::link: ChannelBase                   *)
(* (yasl/link/transport/channel.cc) over the asynchronous RPC transport of *)
(* ChannelBrpc (channel_brpc.cc).                                          *)
(*                                                                         *)
(* Two endpoints exchange normal messages, each addressed by a key.  The   *)
(* receiving side stores a message in msg_db_ until some thread calls Recv *)
(* for its key, and acknowledges it.  The acknowledgements drive the       *)
(* throttle window of the sender and the four-step shutdown of             *)
(* WaitLinkTaskFinish.                                                     *)
(*                                                                         *)
(* A message travels in an RPC (Push).  Its handler runs OnMessage at the  *)
(* receiver under msg_mutex_, so one delivery is one step.  RPCs overtake  *)
(* each other freely.  A chunked message is one message here: the module   *)
(* ChunkedMessage shows how its chunks become one OnNormalMessage.         *)
(***************************************************************************)
EXTENDS Integers, FiniteSets

CONSTANTS
  Thread,    \* the application threads that use one endpoint
  Key,       \* keys of normal messages (never kAckKey or kFinKey)
  Window,    \* the sizes SetThrottleWindowSize is called with
  MaxPush,   \* bound: normal messages that each endpoint hands to the RPC layer
  Fault,     \* the kinds of RPC faults that FaultSpec may show
  MaxFault   \* bound: RPC faults in one behaviour of FaultSpec

End == {0, 1}

Peer(e) == 1 - e

\* The waiter of an RPC: nobody, because it was sent by SendAsyncImpl ...
Async == "async"
\* ... or nobody any more, because SendImpl gave the RPC up.
Orphan == "orphan"

\* "redeliver": the handler ran but its response was lost, brpc sends again;
\* "dropsync", "dropasync": the RPC fails without having reached the handler;
\* "latesync", "lateasync": it fails for the client, the handler runs afterwards.
FaultKind == {"redeliver", "dropsync", "dropasync", "latesync", "lateasync"}

\* SetThrottleWindowSize takes a size_t, so its arguments have a largest one.
ASSUME ChannelAssumption ==
  /\ IsFiniteSet(Thread)
  /\ Thread \cap {Async, Orphan} = {}
  /\ Window \subseteq Nat
  /\ \E w \in Window : \A v \in Window : v <= w
  /\ MaxPush \in [End -> Nat]
  /\ Fault \subseteq FaultKind
  /\ MaxFault \in Nat

\* A normal message in an RPC.  The id is its place in the order in which the
\* endpoint pushed its messages; the code has no such field, it stands for the
\* payload and tells two messages with one key apart.
Msg == [id : Nat, key : Key, rpc : Thread \cup {Async, Orphan}]

\* Where an application thread is.  A thread blocked in Recv is "idle": a Recv
\* that times out throws and leaves the channel as it was.
ThreadState == {"idle",      \* outside the channel, or blocked in Recv
                "rpc",       \* in SendImpl, waiting for the response
                "count",     \* message pushed, sent_msg_count_ not yet increased
                "throttle",  \* in ThrottleWindowWait
                "ack",       \* in Recv, message taken, ack not yet sent
                "failed"}    \* ThrottleWindowWait threw, the thread gave up

\* Where WaitLinkTaskFinish is; "closed" is after ReceiverLoopBrpc::Stop.
FinishState == {"run", "fin", "waitfin", "waitmsg", "waitasync", "waitack",
                "done", "closed"}

VARIABLES
  \* members of ChannelBase and ChannelBrpc, one per endpoint
  sent,       \* sent_msg_count_
  rcvd,       \* received_msg_count_
  acks,       \* ack_msg_count_
  db,         \* msg_db_, as the set of the stored messages
  waiting,    \* waiting_finish_
  window,     \* throttle_window_size_
  rfin,       \* received_fin_
  peerSent,   \* peer_sent_msg_count_
  running,    \* ChannelBrpc::running_async_count_
  \* threads
  pc,         \* the state of each application thread
  wcount,     \* its wait_count argument of ThrottleWindowWait
  fpc,        \* the progress of WaitLinkTaskFinish
  \* the RPC layer
  net,        \* normal messages on their way TO the endpoint
  ackNet,     \* number of acks on their way TO the endpoint
  finNet,     \* fin messages on their way TO the endpoint (their values)
  resp,       \* responses of async RPCs on their way back TO the endpoint
  orphans,    \* async RPCs OF the endpoint that failed, their handler still to run
  \* history
  pushed,     \* number of messages the endpoint has handed to the RPC layer
  faults      \* number of RPC faults so far, of each kind

countVars == <<sent, rcvd, acks, running>>
confVars == <<waiting, window>>
finVars == <<rfin, peerSent, fpc>>
thrVars == <<pc, wcount>>
netVars == <<net, ackNet, finNet, resp, orphans>>
vars == <<countVars, confVars, finVars, thrVars, netVars, db, pushed, faults>>

TypeOK ==
  /\ sent \in [End -> Nat] /\ rcvd \in [End -> Nat] /\ acks \in [End -> Nat]
  /\ db \in [End -> SUBSET Msg]
  /\ waiting \in [End -> BOOLEAN]
  /\ window \in [End -> Window]
  /\ rfin \in [End -> BOOLEAN]
  /\ peerSent \in [End -> Nat]
  /\ running \in [End -> Nat]
  /\ pc \in [End -> [Thread -> ThreadState]]
  /\ wcount \in [End -> [Thread -> Nat]]
  /\ fpc \in [End -> FinishState]
  /\ net \in [End -> SUBSET Msg]
  /\ ackNet \in [End -> Nat]
  /\ finNet \in [End -> SUBSET Nat]
  /\ resp \in [End -> Nat]
  /\ orphans \in [End -> Nat]
  /\ pushed \in [End -> Nat]
  /\ faults \in [FaultKind -> Nat]

Init ==
  /\ sent = [e \in End |-> 0] /\ rcvd = [e \in End |-> 0]
  /\ acks = [e \in End |-> 0] /\ running = [e \in End |-> 0]
  /\ db = [e \in End |-> {}]
  /\ waiting = [e \in End |-> FALSE]
  /\ window \in [End -> Window]
  /\ rfin = [e \in End |-> FALSE] /\ peerSent = [e \in End |-> 0]
  /\ fpc = [e \in End |-> "run"]
  /\ pc = [e \in End |-> [t \in Thread |-> "idle"]]
  /\ wcount = [e \in End |-> [t \in Thread |-> 0]]
  /\ net = [e \in End |-> {}] /\ ackNet = [e \in End |-> 0]
  /\ finNet = [e \in End |-> {}] /\ resp = [e \in End |-> 0]
  /\ orphans = [e \in End |-> 0]
  /\ pushed = [e \in End |-> 0] /\ faults = [k \in FaultKind |-> 0]

-----------------------------------------------------------------------------
(* Helpers.                                                                *)

Goto(e, t, s) == pc' = [pc EXCEPT ![e][t] = s]

\* A mutation: AddAsyncCount is forgotten.
SendAcks_Uncounted(e, n) ==
  /\ ackNet' = [ackNet EXCEPT ![Peer(e)] = @ + n]
  /\ UNCHANGED running

\* SendAsyncImpl(kAckKey), n times, by endpoint e.
SendAcks(e, n) ==
  /\ ackNet' = [ackNet EXCEPT ![Peer(e)] = @ + n]
  /\ running' = [running EXCEPT ![e] = @ + n]

\* Endpoint e hands a message to the RPC layer, to be answered to rpc.
Push(e, k, rpc) ==
  /\ pushed[e] < MaxPush[e]
  /\ pushed' = [pushed EXCEPT ![e] = @ + 1]
  /\ net' = [net EXCEPT ![Peer(e)] =
               @ \cup {[id |-> pushed[e] + 1, key |-> k, rpc |-> rpc]}]

-----------------------------------------------------------------------------
(* Application threads.  A thread uses the channel only before its         *)
(* endpoint calls WaitLinkTaskFinish.                                      *)

SendAsync(e, t, k) ==
  /\ fpc[e] = "run" /\ pc[e][t] = "idle"
  /\ Push(e, k, Async)
  /\ running' = [running EXCEPT ![e] = @ + 1]
  /\ Goto(e, t, "count")
  /\ UNCHANGED <<sent, rcvd, acks, confVars, finVars, wcount, ackNet, finNet,
                 resp, orphans, db, faults>>

Send(e, t, k) ==
  /\ fpc[e] = "run" /\ pc[e][t] = "idle"
  /\ Push(e, k, t)
  /\ Goto(e, t, "rpc")
  /\ UNCHANGED <<countVars, confVars, finVars, wcount, ackNet, finNet, resp, orphans,
                 db, faults>>

\* ThrottleWindowWait(sent_msg_count_.fetch_add(1) + 1): the argument.  The
\* message is with the RPC layer, and may already have been acknowledged.
CountSent(e, t) ==
  /\ pc[e][t] = "count"
  /\ sent' = [sent EXCEPT ![e] = @ + 1]
  /\ wcount' = [wcount EXCEPT ![e][t] = sent[e] + 1]
  /\ Goto(e, t, "throttle")
  /\ UNCHANGED <<rcvd, acks, running, confVars, finVars, netVars, db, pushed,
                 faults>>

\* A mutation: one message too many.
WindowOpen_OffByOne(e, t) == window[e] = 0 \/ acks[e] + window[e] >= wcount[e][t]

\* The condition a sender waits for; re-read at every ack and at the timeout.
WindowOpen(e, t) == window[e] = 0 \/ acks[e] + window[e] > wcount[e][t]

ThrottleWindowWait(e, t) ==
  /\ pc[e][t] = "throttle"
  /\ WindowOpen(e, t)
  /\ Goto(e, t, "idle")
  /\ UNCHANGED <<countVars, confVars, finVars, wcount, netVars, db, pushed,
                 faults>>

\* "Throttle window wait timeout" is thrown to the application, whose thread
\* does not use the channel again.
ThrottleTimeout(e, t) ==
  /\ pc[e][t] = "throttle"
  /\ ~WindowOpen(e, t)
  /\ Goto(e, t, "failed")
  /\ UNCHANGED <<countVars, confVars, finVars, wcount, netVars, db, pushed,
                 faults>>

\* Recv finds its key in msg_db_ and leaves msg_mutex_ ...
Recv(e, t, m) ==
  /\ fpc[e] = "run" /\ pc[e][t] = "idle"
  /\ m \in db[e]
  /\ db' = [db EXCEPT ![e] = @ \ {m}]
  /\ Goto(e, t, "ack")
  /\ UNCHANGED <<countVars, confVars, finVars, wcount, netVars, pushed, faults>>

\* ... before it sends the acknowledgement.
RecvAck(e, t) ==
  /\ pc[e][t] = "ack"
  /\ SendAcks(e, 1)
  /\ Goto(e, t, "idle")
  /\ UNCHANGED <<sent, rcvd, acks, confVars, finVars, wcount, net, finNet, resp, orphans,
                 db, pushed, faults>>

SetThrottleWindowSize(e, w) ==
  /\ fpc[e] = "run" /\ window[e] # w
  /\ window' = [window EXCEPT ![e] = w]
  /\ UNCHANGED <<countVars, waiting, finVars, thrVars, netVars, db, pushed,
                 faults>>

-----------------------------------------------------------------------------
(* The RPC handlers: OnMessage at endpoint e.                              *)

\* The key is free in msg_db_ and the endpoint still accepts messages.
Stores(e, m) == ~waiting[e] /\ \A n \in db[e] : n.key # m.key

\* A mutation: a message with a duplicate key is dropped without an ack.
OnNormalMessage_SilentDuplicate(e, m) ==
  /\ rcvd' = [rcvd EXCEPT ![e] = @ + 1]
  /\ \/ /\ ~waiting[e]
        /\ db' = IF Stores(e, m) THEN [db EXCEPT ![e] = @ \cup {m}] ELSE db
        /\ UNCHANGED <<ackNet, running>>
     \/ /\ waiting[e]
        /\ SendAcks(e, 1)
        /\ UNCHANGED db

OnNormalMessage(e, m) ==
  /\ rcvd' = [rcvd EXCEPT ![e] = @ + 1]
  /\ \/ /\ Stores(e, m)
        /\ db' = [db EXCEPT ![e] = @ \cup {m}]
        /\ UNCHANGED <<ackNet, running>>
     \/ /\ ~Stores(e, m)
        /\ SendAcks(e, 1)
        /\ UNCHANGED db

OnAck(e) == acks' = [acks EXCEPT ![e] = @ + 1]

OnFin(e, n) ==
  \/ /\ ~rfin[e]
     /\ rfin' = [rfin EXCEPT ![e] = TRUE]
     /\ peerSent' = [peerSent EXCEPT ![e] = n]
  \/ /\ rfin[e]
     /\ UNCHANGED <<rfin, peerSent>>

\* The server port is open.
Listening(e) == fpc[e] # "closed"

\* The response of a synchronous RPC lets its thread go on.
AnswerSync(e, m) ==
  /\ UNCHANGED <<resp, orphans>>
  /\ pc' = IF m.rpc \in Thread THEN [pc EXCEPT ![Peer(e)][m.rpc] = "count"]
                               ELSE pc

AsyncIn(e) == {m \in net[e] : m.rpc = Async}

\* The asynchronous RPCs whose handlers at e are still to run.
InFlight(e) == Cardinality(AsyncIn(e)) + ackNet[e] + Cardinality(finNet[e])

\* The response of an asynchronous RPC will run OnPushDone, unless that has run
\* already because the RPC had failed.  Which of the RPCs were the failed ones
\* is decided here: until its handler has run, nothing depends on it.
AnswerAsync(e) ==
  \/ /\ InFlight(e) > orphans[Peer(e)]
     /\ resp' = [resp EXCEPT ![Peer(e)] = @ + 1]
     /\ UNCHANGED orphans
  \/ /\ orphans[Peer(e)] > 0
     /\ orphans' = [orphans EXCEPT ![Peer(e)] = @ - 1]
     /\ UNCHANGED resp

DeliverMsg(e, m) ==
  /\ Listening(e)
  /\ m \in net[e]
  /\ net' = [net EXCEPT ![e] = @ \ {m}]
  /\ OnNormalMessage(e, m)
  /\ IF m.rpc = Async THEN AnswerAsync(e) /\ pc' = pc ELSE AnswerSync(e, m)
  /\ UNCHANGED <<sent, acks, confVars, finVars, wcount, finNet, pushed, faults>>

DeliverAck(e) ==
  /\ Listening(e)
  /\ ackNet[e] > 0
  /\ ackNet' = [ackNet EXCEPT ![e] = @ - 1]
  /\ OnAck(e)
  /\ AnswerAsync(e)
  /\ UNCHANGED <<sent, rcvd, running, confVars, finVars, thrVars, net, finNet,
                 db, pushed, faults>>

DeliverFin(e, n) ==
  /\ Listening(e)
  /\ n \in finNet[e]
  /\ finNet' = [finNet EXCEPT ![e] = @ \ {n}]
  /\ OnFin(e, n)
  /\ AnswerAsync(e)
  /\ UNCHANGED <<countVars, confVars, fpc, thrVars, net, ackNet, db, pushed,
                 faults>>

\* OnPushDone::Run, whose destructor calls SubAsyncCount.
OnPushDone(e) ==
  /\ resp[e] > 0
  /\ resp' = [resp EXCEPT ![e] = @ - 1]
  /\ running' = [running EXCEPT ![e] = @ - 1]
  /\ UNCHANGED <<sent, rcvd, acks, confVars, finVars, thrVars, net, ackNet,
                 finNet, orphans, db, pushed, faults>>

-----------------------------------------------------------------------------
(* WaitLinkTaskFinish.                                                     *)

\* The application calls it when no thread of the endpoint is in the channel.
Quiet(e) == \A t \in Thread : pc[e][t] \in {"idle", "failed"}

\* A mutation: unread messages are cleared without acks.
StopReceivingAndAckUnreadMsgs_NoAck(e) ==
  /\ fpc[e] = "run" /\ Quiet(e)
  /\ waiting' = [waiting EXCEPT ![e] = TRUE]
  /\ db' = [db EXCEPT ![e] = {}]
  /\ fpc' = [fpc EXCEPT ![e] = "fin"]
  /\ UNCHANGED <<countVars, window, rfin, peerSent, thrVars, netVars, pushed, faults>>

StopReceivingAndAckUnreadMsgs(e) ==
  /\ fpc[e] = "run" /\ Quiet(e)
  /\ waiting' = [waiting EXCEPT ![e] = TRUE]
  /\ SendAcks(e, Cardinality(db[e]))
  /\ db' = [db EXCEPT ![e] = {}]
  /\ fpc' = [fpc EXCEPT ![e] = "fin"]
  /\ UNCHANGED <<sent, rcvd, acks, window, rfin, peerSent, thrVars, net, finNet,
                 resp, orphans, pushed, faults>>

\* WaitForFinAndFlyingMsg: send the fin message, ...
SendFin(e) ==
  /\ fpc[e] = "fin"
  /\ finNet' = [finNet EXCEPT ![Peer(e)] = @ \cup {sent[e]}]
  /\ running' = [running EXCEPT ![e] = @ + 1]
  /\ fpc' = [fpc EXCEPT ![e] = "waitfin"]
  /\ UNCHANGED <<sent, rcvd, acks, confVars, rfin, peerSent, thrVars, net, ackNet,
                 resp, orphans, db, pushed, faults>>

Advance(e, from, to) ==
  /\ fpc[e] = from
  /\ fpc' = [fpc EXCEPT ![e] = to]
  /\ UNCHANGED <<countVars, confVars, rfin, peerSent, thrVars, netVars, db,
                 pushed, faults>>

\* ... wait for the peer's fin message, ...
WaitForFin(e) == rfin[e] /\ Advance(e, "waitfin", "waitmsg")

\* Mutations: the wait is left out; duplicates are not tolerated.
WaitForFlyingMsg_Skipped(e) == Advance(e, "waitmsg", "waitasync")
WaitForFlyingMsg_Exact(e) ==
  rcvd[e] = peerSent[e] /\ Advance(e, "waitmsg", "waitasync")

\* ... and for the messages it counts.
WaitForFlyingMsg(e) ==
  rcvd[e] >= peerSent[e] /\ Advance(e, "waitmsg", "waitasync")

\* A mutation: the wait is left out.
WaitAsyncSendToFinish_Skipped(e) == Advance(e, "waitasync", "waitack")

WaitAsyncSendToFinish(e) ==
  running[e] = 0 /\ Advance(e, "waitasync", "waitack")

\* A mutation: the wait is left out.
WaitForFlyingAck_Skipped(e) == Advance(e, "waitack", "done")

WaitForFlyingAck(e) == acks[e] >= sent[e] /\ Advance(e, "waitack", "done")

\* ReceiverLoopBrpc::Stop
StopServer(e) == Advance(e, "done", "closed")

-----------------------------------------------------------------------------
(* RPC faults.                                                             *)

FaultOf(kind) ==
  /\ kind \in Fault
  /\ faults["redeliver"] + faults["dropsync"] + faults["dropasync"]
       + faults["latesync"] + faults["lateasync"] < MaxFault
  /\ faults' = [faults EXCEPT ![kind] = @ + 1]

\* brpc retries after a broken connection: the handler will run once more.
RedeliverMsg(e, m) ==
  /\ FaultOf("redeliver")
  /\ Listening(e)
  /\ m \in net[e]
  /\ OnNormalMessage(e, m)
  /\ UNCHANGED <<sent, acks, confVars, finVars, thrVars, net, finNet, resp, orphans,
                 pushed>>

RedeliverAck(e) ==
  /\ FaultOf("redeliver")
  /\ Listening(e)
  /\ ackNet[e] > 0
  /\ OnAck(e)
  /\ UNCHANGED <<sent, rcvd, running, confVars, finVars, thrVars, netVars, db,
                 pushed>>

RedeliverFin(e, n) ==
  /\ FaultOf("redeliver")
  /\ Listening(e)
  /\ n \in finNet[e]
  /\ OnFin(e, n)
  /\ UNCHANGED <<countVars, confVars, fpc, thrVars, netVars, db, pushed>>

\* SendImpl throws NetworkError: the message is not counted.
FailSync(e, m) ==
  /\ m \in net[e] /\ m.rpc \in Thread
  /\ Goto(Peer(e), m.rpc, "idle")
  /\ UNCHANGED <<countVars, confVars, finVars, wcount, ackNet, finNet, resp, orphans, db,
                 pushed>>

DropSync(e, m) ==
  /\ FaultOf("dropsync")
  /\ FailSync(e, m)
  /\ net' = [net EXCEPT ![e] = @ \ {m}]

\* The RPC times out while its handler is still to run.
LateSync(e, m) ==
  /\ FaultOf("latesync")
  /\ FailSync(e, m)
  /\ net' = [net EXCEPT ![e] = (@ \ {m}) \cup {[m EXCEPT !.rpc = Orphan]}]

\* OnPushDone::Run only logs the failure of an asynchronous RPC, and its
\* destructor calls SubAsyncCount.
LateAsync(e) ==
  /\ FaultOf("lateasync")
  /\ InFlight(e) > orphans[Peer(e)]
  /\ running' = [running EXCEPT ![Peer(e)] = @ - 1]
  /\ orphans' = [orphans EXCEPT ![Peer(e)] = @ + 1]
  /\ UNCHANGED <<sent, rcvd, acks, confVars, finVars, thrVars, net, ackNet,
                 finNet, resp, db, pushed>>

\* The handler will not run: the RPC fails now, or has failed before.
FailAsync(e) ==
  /\ \/ /\ InFlight(e) > orphans[Peer(e)]
        /\ running' = [running EXCEPT ![Peer(e)] = @ - 1]
        /\ UNCHANGED orphans
     \/ /\ orphans[Peer(e)] > 0
        /\ orphans' = [orphans EXCEPT ![Peer(e)] = @ - 1]
        /\ UNCHANGED running
  /\ UNCHANGED <<sent, rcvd, acks, confVars, finVars, thrVars, resp, db, pushed>>

LoseMsg(e, m) ==
  /\ m \in net[e] /\ m.rpc = Async
  /\ net' = [net EXCEPT ![e] = @ \ {m}]
  /\ FailAsync(e)
  /\ UNCHANGED <<ackNet, finNet>>

LoseAck(e) ==
  /\ ackNet[e] > 0
  /\ ackNet' = [ackNet EXCEPT ![e] = @ - 1]
  /\ FailAsync(e)
  /\ UNCHANGED <<net, finNet>>

LoseFin(e, n) ==
  /\ n \in finNet[e]
  /\ finNet' = [finNet EXCEPT ![e] = @ \ {n}]
  /\ FailAsync(e)
  /\ UNCHANGED <<net, ackNet>>

DropAsync(e) ==
  /\ FaultOf("dropasync")
  /\ \/ \E m \in net[e] : LoseMsg(e, m)
     \/ LoseAck(e)
     \/ \E n \in finNet[e] : LoseFin(e, n)

\* What is sent to a closed port fails.
Refuse(e) ==
  /\ ~Listening(e)
  /\ faults' = faults
  /\ \/ \E m \in net[e] : LoseMsg(e, m)
     \/ LoseAck(e)
     \/ \E n \in finNet[e] : LoseFin(e, n)
     \/ \E m \in net[e] :
          /\ FailSync(e, m)
          /\ net' = [net EXCEPT ![e] = @ \ {m}]
     \/ \E m \in net[e] :
          /\ m.rpc = Orphan
          /\ net' = [net EXCEPT ![e] = @ \ {m}]
          /\ UNCHANGED <<countVars, confVars, finVars, thrVars, ackNet, finNet,
                         resp, orphans, db, pushed>>

-----------------------------------------------------------------------------

\* The calls of the application.
Application(e) ==
  \/ \E t \in Thread, k \in Key : SendAsync(e, t, k) \/ Send(e, t, k)
  \/ \E t \in Thread : \E m \in db[e] : Recv(e, t, m)
  \/ \E t \in Thread : ThrottleTimeout(e, t)
  \/ \E w \in Window : SetThrottleWindowSize(e, w)
  \/ StopReceivingAndAckUnreadMsgs(e)
  \/ StopServer(e)

\* The steps of calls that have started.
ThreadStep(e, t) == CountSent(e, t) \/ ThrottleWindowWait(e, t) \/ RecvAck(e, t)

FinishStep(e) ==
  \/ SendFin(e) \/ WaitForFin(e) \/ WaitForFlyingMsg(e)
  \/ WaitAsyncSendToFinish(e) \/ WaitForFlyingAck(e)

DeliverStep(e) ==
  \/ \E m \in net[e] : DeliverMsg(e, m)
  \/ DeliverAck(e)
  \/ \E n \in finNet[e] : DeliverFin(e, n)
  \/ OnPushDone(e)

FaultStep(e) ==
  \/ \E m \in net[e] : RedeliverMsg(e, m) \/ DropSync(e, m) \/ LateSync(e, m)
  \/ RedeliverAck(e)
  \/ \E n \in finNet[e] : RedeliverFin(e, n)
  \/ DropAsync(e)
  \/ LateAsync(e)

Closed == \A e \in End : fpc[e] = "closed"

\* Both endpoints have stopped.
Terminating == Closed /\ UNCHANGED vars

Next ==
  \/ \E e \in End : \/ Application(e)
                    \/ \E t \in Thread : ThreadStep(e, t)
                    \/ FinishStep(e)
                    \/ DeliverStep(e)
  \/ Terminating

FaultNext == Next \/ \E e \in End : FaultStep(e) \/ Refuse(e)

Spec == Init /\ [][Next]_vars

FaultSpec == Init /\ [][FaultNext]_vars

\* brpc runs every handler and every done closure, and the scheduler runs
\* every thread; the application and the timeouts promise nothing.
Fairness ==
  \A e \in End :
    /\ \A t \in Thread : WF_vars(ThreadStep(e, t))
    /\ WF_vars(FinishStep(e))
    /\ WF_vars(DeliverStep(e))
    /\ WF_vars(Refuse(e))

FairFaultSpec == FaultSpec /\ Fairness

-----------------------------------------------------------------------------
(* Properties.                                                             *)

\* WaitLinkTaskFinish has returned.
Finished(e) == fpc[e] \in {"done", "closed"}

\* When WaitLinkTaskFinish returns, and ever after, nothing is on its way to the
\* endpoint: the port may be closed without the peer's RPCs failing
\* (channel.cc:269-276).
PortSafe ==
  \A e \in End :
    Finished(e) => net[e] = {} /\ ackNet[e] = 0 /\ finNet[e] = {}

\* When WaitLinkTaskFinish returns, every message the endpoint counted has been
\* received and acknowledged exactly once, and none of its RPCs is running.
OutboxDone ==
  \A e \in End :
    Finished(e) =>
      acks[e] = sent[e] /\ rcvd[Peer(e)] = sent[e] /\ running[e] = 0

\* The receiver counts, or will count, a message or an ack that its sender counts
\* once less: brpc sent it again, or SendImpl threw for a message that arrives.
Overcounted == faults["redeliver"] + faults["latesync"] > 0

\* PortSafe, but for behaviours in which a receiver counts too much: there the
\* surplus stands for a message that is still on its way (channel.cc:229).
PortSafeUnlessOvercounted == Overcounted \/ PortSafe

\* OutboxDone, with the same exception (channel.cc:253).
OutboxDoneUnlessOvercounted == Overcounted \/ OutboxDone

\* Both promises of WaitLinkTaskFinish survive RPCs that are lost or refused, and
\* asynchronous RPCs that fail in OnPushDone with their handler still to run
\* (channel_brpc.cc:172-181): the counts then do not add up, and the call waits,
\* or they do add up because the RPC arrives.  They do not survive what a
\* receiver counts and its sender does not: an RPC that brpc delivers twice, and
\* a synchronous Send that throws although its message arrives
\* (channel_brpc.cc:328).  Behaviours with one of these are excepted.
SafeUnlessOvercounted ==
  PortSafeUnlessOvercounted /\ OutboxDoneUnlessOvercounted

\* Threads of e that have taken a message and not acknowledged it, ...
Acking(e) == {t \in Thread : pc[e][t] = "ack"}

\* ... and threads that have pushed a message and not counted it.
Uncounted(e) == {t \in Thread : pc[e][t] \in {"rpc", "count"}}

\* The messages that one endpoint has received are the ones still unread in
\* msg_db_, about to be acknowledged, or acknowledged once: no path of Recv,
\* OnNormalMessage and StopReceivingAndAckUnreadMsgs acknowledges a message
\* twice or never.
AckOnce ==
  \A e \in End :
    rcvd[e] = Cardinality(db[e]) + Cardinality(Acking(e))
                + ackNet[Peer(e)] + acks[Peer(e)]

MaxWindow == CHOOSE w \in Window : \A v \in Window : v <= w

\* With a throttle window, at most that many messages, and one per sending
\* thread, are unacknowledged, although each sender counts its message only
\* after the message has left.
ThrottleBound ==
  \A e \in End :
    0 \notin Window => pushed[e] - acks[e] < MaxWindow + Cardinality(Thread)

\* An asynchronous RPC (a message, an ack or a fin) is lost for good.
Lost == faults["dropasync"] > 0

\* If both endpoints call WaitLinkTaskFinish, both calls return, also when brpc
\* redelivers messages, acks and fins, when synchronous sends fail and when any
\* RPC fails with its handler still to run.
FinishLive ==
  (\A e \in End : fpc[e] # "run") ~> (Lost \/ \A e \in End : Finished(e))

\* A throttled sender goes on once the peer has called WaitLinkTaskFinish, even
\* if the peer reads none of its messages.
ThrottleReleased ==
  \A e \in End, t \in Thread :
    (pc[e][t] = "throttle" /\ fpc[Peer(e)] # "run")
      ~> (Lost \/ pc[e][t] # "throttle")

-----------------------------------------------------------------------------
(* The promise of WaitLinkTaskFinish.                                      *)

phaseOf ==
  [e \in End |-> IF fpc[e] = "run" THEN "open"
                 ELSE IF Finished(e) THEN "finished" ELSE "closing"]

unacknowledged == [e \in End |-> pushed[e] - acks[e]]

Shutdown == INSTANCE LinkShutdown WITH phase <- phaseOf,
                                       outstanding <- unacknowledged

\* The counters, the fin messages and the four waits of WaitLinkTaskFinish
\* (channel.cc:262-277) implement the abstract shutdown: an endpoint comes back
\* only when both have called it and every message of both is acknowledged.
ImplementsShutdown == Shutdown!Spec

-----------------------------------------------------------------------------
(* The inductive invariants behind PortSafe and OutboxDone.                *)

\* A message in flight has an id that was given out.
FlightInv ==
  \A e \in End :
    /\ IsFiniteSet(net[e]) /\ IsFiniteSet(db[e])
    /\ \A m \in net[e] : m.id <= pushed[Peer(e)]

\* A synchronous message has its sender, and nobody else, waiting for it.
SyncInv ==
  \A e \in End :
    /\ \A m \in net[e] :
         /\ m.rpc # Orphan
         /\ m.rpc \in Thread => pc[Peer(e)][m.rpc] = "rpc"
    /\ \A m, n \in net[e] : m.rpc \in Thread /\ m.rpc = n.rpc => m = n

\* What was pushed is in flight, received or lost (lm), and counted, about to be
\* counted or given up by its sender (ls), which is only done if it is lost.
PushInv(lm, ls) ==
  \A e \in End :
    /\ pushed[Peer(e)] = Cardinality(net[e]) + rcvd[e] + lm[e]
    /\ pushed[e] = sent[e] + Cardinality(Uncounted(e)) + ls[e]
    /\ ls[Peer(e)] <= lm[e]

\* AckOnce, but for the acks that were lost (la).
AckInv(la) ==
  \A e \in End :
    rcvd[e] = Cardinality(db[e]) + Cardinality(Acking(e))
                + ackNet[Peer(e)] + acks[Peer(e)] + la[e]

\* running_async_count_ and the RPCs that failed early are the RPCs in flight and
\* the responses, and every response is counted.
RunningInv ==
  \A e \in End :
    /\ running[e] + orphans[e] = Cardinality(AsyncIn(Peer(e))) + ackNet[Peer(e)]
                                  + Cardinality(finNet[Peer(e)]) + resp[e]
    /\ resp[e] <= running[e]

\* An endpoint in WaitLinkTaskFinish takes in and sends out nothing new.
QuietInv ==
  \A e \in End : fpc[e] # "run" => waiting[e] /\ db[e] = {} /\ Quiet(e)

\* The fin message, once sent, carries the final count, once.
FinInv ==
  \A e \in End :
    /\ finNet[e] \subseteq {sent[Peer(e)]}
    /\ fpc[Peer(e)] \in {"run", "fin"} => finNet[e] = {} /\ ~rfin[e]
    /\ rfin[e] => finNet[e] = {} /\ peerSent[e] = sent[Peer(e)]

\* What each wait of WaitLinkTaskFinish has established.
WaitInv ==
  \A e \in End :
    /\ fpc[e] \in {"waitmsg", "waitasync", "waitack", "done", "closed"} => rfin[e]
    /\ fpc[e] \in {"waitasync", "waitack", "done", "closed"} => net[e] = {}
    /\ fpc[e] \in {"waitack", "done", "closed"} => running[e] = 0
    /\ fpc[e] \in {"done", "closed"} => acks[e] = sent[e]

\* The threads that ThrottleWindowWait holds back, or has thrown at.
Held(e) == {t \in Thread : pc[e][t] \in {"throttle", "failed"}}

\* Behind ThrottleBound: each count that is a full window past the acks belongs
\* to a thread that is still held back, because a thread is let go only below
\* the window, acks never decrease, and a count is given out once.
HeldInv ==
  0 \notin Window =>
    \A e \in End : \A n \in (acks[e] + MaxWindow) .. sent[e] :
      \E t \in Held(e) : wcount[e][t] = n

\* The invariant up to the messages to (lm), the sends of (ls) and the acks from
\* (la) each endpoint that were lost.
LossyInv(lm, ls, la) ==
  /\ TypeOK /\ FlightInv /\ SyncInv
  /\ PushInv(lm, ls) /\ AckInv(la) /\ RunningInv
  /\ QuietInv /\ FinInv /\ WaitInv

NoLoss == [e \in End |-> 0]

\* The inductive invariant of Spec, where nothing is lost or fails, ...
IInv == orphans = [e \in End |-> 0] /\ LossyInv(NoLoss, NoLoss, NoLoss)

\* ... and the one of FaultSpec.
FaultInv ==
  /\ faults \in [FaultKind -> Nat]
  /\ Overcounted \/ \E lm, ls, la \in [End -> Nat] : LossyInv(lm, ls, la)

=============================================================================
