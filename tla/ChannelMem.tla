----------------------------- MODULE ChannelMem -----------------------------
(***************************************************************************)
(* A channel between two endpoints of one process: ChannelBase             *)
(* (yasl/link/transport/channel.cc) over ChannelMem (channel_mem.cc).      *)
(*                                                                         *)
(* SendAsyncImpl calls OnMessage of the peer in the calling thread.  So a  *)
(* thread takes the msg_mutex_ of the peer, and where it acknowledges from *)
(* inside OnNormalMessage or StopReceivingAndAckUnreadMsgs it holds one    *)
(* msg_mutex_ and asks for the other.  A critical section that takes no    *)
(* second lock is one step.                                                *)
(*                                                                         *)
(* Every message has a key of its own, so msg_db_ is the number of unread  *)
(* messages.  The throttle window is 0, its default.                       *)
(***************************************************************************)
EXTENDS Integers, FiniteSets

CONSTANTS
  Thread,   \* the application threads that use one endpoint
  MaxPush,  \* the number of messages that each endpoint sends before it stops
  Reader    \* the endpoints that read all messages before they stop

End == {0, 1}

Peer(e) == 1 - e

ASSUME MemAssumption ==
  /\ IsFiniteSet(Thread)
  /\ MaxPush \in [End -> Nat]
  /\ Reader \subseteq End

ThreadState == {"idle",
                "autoack",  \* in the peer's OnNormalMessage, peer's lock held
                "count",    \* message handed over, not yet counted
                "ack"}      \* in Recv, message taken, ack not yet sent

FinishState == {"run", "stop", "fin", "waitfin", "waitmsg", "waitack", "done"}

VARIABLES
  sent, rcvd, acks,  \* sent_msg_count_, received_msg_count_, ack_msg_count_
  unread,            \* the size of msg_db_
  waiting,           \* waiting_finish_
  rfin, peerSent,    \* received_fin_, peer_sent_msg_count_
  lock,              \* whether msg_mutex_ is held between two steps
  pc,                \* the state of each application thread
  fpc,               \* the progress of WaitLinkTaskFinish
  toAck,             \* messages StopReceivingAndAckUnreadMsgs has yet to ack
  pushed             \* history: messages sent, counted or not

vars == <<sent, rcvd, acks, unread, waiting, rfin, peerSent, lock, pc, fpc,
          toAck, pushed>>

TypeOK ==
  /\ sent \in [End -> Nat] /\ rcvd \in [End -> Nat] /\ acks \in [End -> Nat]
  /\ unread \in [End -> Nat] /\ toAck \in [End -> Nat]
  /\ peerSent \in [End -> Nat] /\ pushed \in [End -> Nat]
  /\ waiting \in [End -> BOOLEAN] /\ rfin \in [End -> BOOLEAN]
  /\ lock \in [End -> BOOLEAN]
  /\ pc \in [End -> [Thread -> ThreadState]]
  /\ fpc \in [End -> FinishState]

Init ==
  /\ sent = [e \in End |-> 0] /\ rcvd = [e \in End |-> 0]
  /\ acks = [e \in End |-> 0] /\ unread = [e \in End |-> 0]
  /\ toAck = [e \in End |-> 0] /\ peerSent = [e \in End |-> 0]
  /\ pushed = [e \in End |-> 0]
  /\ waiting = [e \in End |-> FALSE] /\ rfin = [e \in End |-> FALSE]
  /\ lock = [e \in End |-> FALSE]
  /\ pc = [e \in End |-> [t \in Thread |-> "idle"]]
  /\ fpc = [e \in End |-> "run"]

-----------------------------------------------------------------------------

Goto(e, t, s) == pc' = [pc EXCEPT ![e][t] = s]

\* OnMessage(kAckKey) at endpoint e.
OnAck(e) ==
  /\ ~lock[e]
  /\ acks' = [acks EXCEPT ![e] = @ + 1]

\* SendAsync, Send: OnMessage at the peer, in the thread of the sender.  If the
\* peer is waiting to finish, its lock is still held for the ack.
Send(e, t) ==
  /\ fpc[e] = "run" /\ pc[e][t] = "idle"
  /\ pushed[e] < MaxPush[e]
  /\ ~lock[Peer(e)]
  /\ pushed' = [pushed EXCEPT ![e] = @ + 1]
  /\ rcvd' = [rcvd EXCEPT ![Peer(e)] = @ + 1]
  /\ \/ /\ ~waiting[Peer(e)]
        /\ unread' = [unread EXCEPT ![Peer(e)] = @ + 1]
        /\ Goto(e, t, "count")
        /\ UNCHANGED lock
     \/ /\ waiting[Peer(e)]
        /\ lock' = [lock EXCEPT ![Peer(e)] = TRUE]
        /\ Goto(e, t, "autoack")
        /\ UNCHANGED unread
  /\ UNCHANGED <<sent, acks, waiting, rfin, peerSent, fpc, toAck>>

\* A mutation: the message is not acknowledged.
AutoAck_Dropped(e, t) ==
  /\ pc[e][t] = "autoack"
  /\ lock' = [lock EXCEPT ![Peer(e)] = FALSE]
  /\ Goto(e, t, "count")
  /\ UNCHANGED <<sent, rcvd, acks, unread, waiting, rfin, peerSent, fpc, toAck,
                 pushed>>

\* "auto ack": the peer's OnNormalMessage calls OnMessage of this endpoint.
AutoAck(e, t) ==
  /\ pc[e][t] = "autoack"
  /\ OnAck(e)
  /\ lock' = [lock EXCEPT ![Peer(e)] = FALSE]
  /\ Goto(e, t, "count")
  /\ UNCHANGED <<sent, rcvd, unread, waiting, rfin, peerSent, fpc, toAck, pushed>>

CountSent(e, t) ==
  /\ pc[e][t] = "count"
  /\ sent' = [sent EXCEPT ![e] = @ + 1]
  /\ Goto(e, t, "idle")
  /\ UNCHANGED <<rcvd, acks, unread, waiting, rfin, peerSent, lock, fpc, toAck,
                 pushed>>

Recv(e, t) ==
  /\ fpc[e] = "run" /\ pc[e][t] = "idle"
  /\ ~lock[e]
  /\ unread[e] > 0
  /\ unread' = [unread EXCEPT ![e] = @ - 1]
  /\ Goto(e, t, "ack")
  /\ UNCHANGED <<sent, rcvd, acks, waiting, rfin, peerSent, lock, fpc, toAck,
                 pushed>>

RecvAck(e, t) ==
  /\ pc[e][t] = "ack"
  /\ OnAck(Peer(e))
  /\ Goto(e, t, "idle")
  /\ UNCHANGED <<sent, rcvd, unread, waiting, rfin, peerSent, lock, fpc, toAck,
                 pushed>>

-----------------------------------------------------------------------------
(* WaitLinkTaskFinish.                                                     *)

Quiet(e) == \A t \in Thread : pc[e][t] = "idle"

\* The application has done what it came for.
Finishing(e) ==
  /\ fpc[e] = "run" /\ Quiet(e)
  /\ pushed[e] = MaxPush[e]
  /\ e \in Reader => rcvd[e] = MaxPush[Peer(e)] /\ unread[e] = 0

\* StopReceivingAndAckUnreadMsgs takes the lock, ...
StopReceiving(e) ==
  /\ Finishing(e)
  /\ ~lock[e]
  /\ lock' = [lock EXCEPT ![e] = TRUE]
  /\ waiting' = [waiting EXCEPT ![e] = TRUE]
  /\ toAck' = [toAck EXCEPT ![e] = unread[e]]
  /\ fpc' = [fpc EXCEPT ![e] = "stop"]
  /\ UNCHANGED <<sent, rcvd, acks, unread, rfin, peerSent, pc, pushed>>

\* ... acknowledges the messages one by one, ...
AckUnreadMsg(e) ==
  /\ fpc[e] = "stop" /\ toAck[e] > 0
  /\ OnAck(Peer(e))
  /\ toAck' = [toAck EXCEPT ![e] = @ - 1]
  /\ UNCHANGED <<sent, rcvd, unread, waiting, rfin, peerSent, lock, pc, fpc,
                 pushed>>

\* A mutation: the lock is released before the messages are acknowledged.
ClearUnread_Early(e) ==
  /\ fpc[e] = "stop"
  /\ unread' = [unread EXCEPT ![e] = 0]
  /\ lock' = [lock EXCEPT ![e] = FALSE]
  /\ fpc' = [fpc EXCEPT ![e] = "fin"]
  /\ UNCHANGED <<sent, rcvd, acks, waiting, rfin, peerSent, pc, toAck, pushed>>

\* ... clears msg_db_ and releases the lock.
ClearUnread(e) ==
  /\ fpc[e] = "stop" /\ toAck[e] = 0
  /\ unread' = [unread EXCEPT ![e] = 0]
  /\ lock' = [lock EXCEPT ![e] = FALSE]
  /\ fpc' = [fpc EXCEPT ![e] = "fin"]
  /\ UNCHANGED <<sent, rcvd, acks, waiting, rfin, peerSent, pc, toAck, pushed>>

\* WaitForFinAndFlyingMsg: OnMessage(kFinKey) at the peer, ...
SendFin(e) ==
  /\ fpc[e] = "fin"
  /\ ~lock[Peer(e)]
  /\ rfin' = [rfin EXCEPT ![Peer(e)] = TRUE]
  /\ peerSent' = [peerSent EXCEPT ![Peer(e)] =
                    IF rfin[Peer(e)] THEN @ ELSE sent[e]]
  /\ fpc' = [fpc EXCEPT ![e] = "waitfin"]
  /\ UNCHANGED <<sent, rcvd, acks, unread, waiting, lock, pc, toAck, pushed>>

Advance(e, from, to) ==
  /\ fpc[e] = from
  /\ ~lock[e]
  /\ fpc' = [fpc EXCEPT ![e] = to]
  /\ UNCHANGED <<sent, rcvd, acks, unread, waiting, rfin, peerSent, lock, pc,
                 toAck, pushed>>

\* A mutation: the wait is left out.
WaitForFin_Skipped(e) == Advance(e, "waitfin", "waitmsg")

WaitForFin(e) == rfin[e] /\ Advance(e, "waitfin", "waitmsg")

\* ... and wait for its messages.  WaitAsyncSendToFinish does nothing.
WaitForFlyingMsg(e) == rcvd[e] >= peerSent[e] /\ Advance(e, "waitmsg", "waitack")

WaitForFlyingAck(e) == acks[e] >= sent[e] /\ Advance(e, "waitack", "done")

-----------------------------------------------------------------------------

ThreadStep(e, t) == AutoAck(e, t) \/ CountSent(e, t) \/ RecvAck(e, t)

Application(e, t) == Send(e, t) \/ Recv(e, t)

FinishStep(e) ==
  \/ StopReceiving(e) \/ AckUnreadMsg(e) \/ ClearUnread(e)
  \/ SendFin(e) \/ WaitForFin(e) \/ WaitForFlyingMsg(e) \/ WaitForFlyingAck(e)

Finished(e) == fpc[e] = "done"

Terminating == (\A e \in End : Finished(e)) /\ UNCHANGED vars

Next ==
  \/ \E e \in End, t \in Thread : Application(e, t) \/ ThreadStep(e, t)
  \/ \E e \in End : FinishStep(e)
  \/ Terminating

\* Every thread runs, and the application does what it came for.
Fairness ==
  \A e \in End :
    /\ \A t \in Thread : WF_vars(ThreadStep(e, t)) /\ WF_vars(Application(e, t))
    /\ WF_vars(FinishStep(e))

Spec == Init /\ [][Next]_vars /\ Fairness

-----------------------------------------------------------------------------
(* Properties.                                                             *)

\* Once WaitLinkTaskFinish has returned, the peer calls this channel no more:
\* it may be destroyed, and no thread of the peer meets "Peer's memory channel
\* released" (channel_mem.cc:33).
PeerSilent ==
  \A e \in End :
    Finished(e) => fpc[Peer(e)] \notin {"run", "stop", "fin"} /\ Quiet(Peer(e))

\* The counters and locks are well formed, and nobody calls a finished channel.
MemSafe == TypeOK /\ PeerSilent

\* Threads that take the locks of both endpoints never wait for each other for
\* ever: both endpoints come back from WaitLinkTaskFinish.
FinishLive == <>(\A e \in End : Finished(e))

phaseOf ==
  [e \in End |-> IF fpc[e] = "run" THEN "open"
                 ELSE IF Finished(e) THEN "finished" ELSE "closing"]

unacknowledged == [e \in End |-> pushed[e] - acks[e]]

Shutdown == INSTANCE LinkShutdown WITH phase <- phaseOf,
                                       outstanding <- unacknowledged

\* The in-memory channel keeps the promise of WaitLinkTaskFinish.
ImplementsShutdown == Shutdown!Spec

-----------------------------------------------------------------------------
(* The inductive invariant behind MemSafe and ImplementsShutdown.          *)

\* Threads of e inside the peer's OnNormalMessage, ...
AutoAcking(e) == {t \in Thread : pc[e][t] = "autoack"}

\* ... that have handed a message over and not counted it, ...
Uncounted(e) == {t \in Thread : pc[e][t] \in {"autoack", "count"}}

\* ... and that have taken a message and not acknowledged it.
Acking(e) == {t \in Thread : pc[e][t] = "ack"}

\* The messages in msg_db_ that have no ack yet.
Pending(e) == IF fpc[e] = "stop" THEN toAck[e] ELSE unread[e]

\* A message is received when it is pushed, and counted later.
PushInv ==
  \A e \in End :
    /\ rcvd[Peer(e)] = pushed[e]
    /\ pushed[e] = sent[e] + Cardinality(Uncounted(e))

\* A received message is unread, about to be acknowledged by a thread of either
\* endpoint, or acknowledged once.
AckInv ==
  \A e \in End :
    rcvd[e] = Pending(e) + Cardinality(Acking(e))
                + Cardinality(AutoAcking(Peer(e))) + acks[Peer(e)]

\* An endpoint in WaitLinkTaskFinish stores nothing, and its threads are out.
QuietInv ==
  \A e \in End :
    /\ waiting[e] <=> fpc[e] # "run"
    /\ fpc[e] # "run" => Quiet(e)
    /\ fpc[e] \notin {"run", "stop"} => unread[e] = 0

\* The fin message carries the final count.
FinInv ==
  \A e \in End :
    /\ rfin[e] <=> fpc[Peer(e)] \notin {"run", "stop", "fin"}
    /\ rfin[e] => peerSent[e] = sent[Peer(e)]
    /\ fpc[e] \in {"waitmsg", "waitack", "done"} => rfin[e]

MemInv == TypeOK /\ PushInv /\ AckInv /\ QuietInv /\ FinInv

=============================================================================
