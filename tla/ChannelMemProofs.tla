-------------------------- MODULE ChannelMemProofs --------------------------
(***************************************************************************)
(* For any number of threads and messages: MemInv is inductive, whatever   *)
(* the locks do, and gives MemSafe; and the in-memory channel implements   *)
(* LinkShutdown.                                                           *)
(***************************************************************************)
EXTENDS ChannelMem, FiniteSetTheorems, TLAPS

-----------------------------------------------------------------------------
(* The two endpoints, and counting.                                        *)

\* The other endpoint is the only other one.
LEMMA PeerFacts ==
  \A e \in End : /\ Peer(e) \in End /\ Peer(e) # e /\ Peer(Peer(e)) = e
                 /\ \A f \in End : f = e \/ f = Peer(e)
  BY DEF End, Peer

\* Adding or removing one element of a finite set.
LEMMA CardChange ==
  ASSUME NEW S, IsFiniteSet(S), NEW x
  PROVE  /\ IsFiniteSet(S \cup {x}) /\ IsFiniteSet(S \ {x})
         /\ Cardinality(S) \in Nat
         /\ x \in S => Cardinality(S \ {x}) = Cardinality(S) - 1
         /\ x \in S => Cardinality(S) > 0
         /\ x \notin S => Cardinality(S \cup {x}) = Cardinality(S) + 1
         /\ x \in S => S \cup {x} = S
         /\ x \notin S => S \ {x} = S
<1>1. IsFiniteSet(S \cup {x}) /\ IsFiniteSet(S \ {x}) /\ Cardinality(S) \in Nat
  BY FS_AddElement, FS_RemoveElement, FS_CardinalityType
<1>2. x \in S => Cardinality(S \ {x}) = Cardinality(S) - 1
  BY FS_RemoveElement
<1>3. x \notin S => Cardinality(S \cup {x}) = Cardinality(S) + 1
  BY FS_AddElement
<1>4. x \in S => Cardinality(S) > 0
  BY <1>1, FS_EmptySet
<1>5. QED
  BY <1>1, <1>2, <1>3, <1>4

\* A set T that agrees with S outside x.
LEMMA CardMove ==
  ASSUME NEW S, IsFiniteSet(S), NEW x, NEW T,
         T = S \cup {x} \/ T = S \ {x}
  PROVE  /\ Cardinality(T) \in Nat /\ Cardinality(S) \in Nat
         /\ x \in T /\ x \in S => T = S
         /\ x \notin T /\ x \notin S => T = S
         /\ x \in T /\ x \notin S => Cardinality(T) = Cardinality(S) + 1
         /\ x \notin T /\ x \in S => Cardinality(T) = Cardinality(S) - 1
<1>1. IsFiniteSet(T)
  BY CardChange
<1>2. x \in T /\ x \notin S => T = S \cup {x}
  OBVIOUS
<1>3. x \notin T /\ x \in S => T = S \ {x}
  OBVIOUS
<1>4. x \in T /\ x \notin S => Cardinality(T) = Cardinality(S) + 1
  BY <1>2, CardChange
<1>5. x \notin T /\ x \in S => Cardinality(T) = Cardinality(S) - 1
  BY <1>3, CardChange
<1>6. Cardinality(T) \in Nat /\ Cardinality(S) \in Nat
  BY <1>1, FS_CardinalityType
<1>7. QED
  BY <1>4, <1>5, <1>6

\* The sets of threads that the invariant counts are finite.
LEMMA FiniteCounts ==
  ASSUME NEW e \in End
  PROVE  /\ IsFiniteSet(AutoAcking(e)) /\ Cardinality(AutoAcking(e)) \in Nat
         /\ IsFiniteSet(Uncounted(e)) /\ Cardinality(Uncounted(e)) \in Nat
         /\ IsFiniteSet(Acking(e)) /\ Cardinality(Acking(e)) \in Nat
<1>1. /\ AutoAcking(e) \in SUBSET Thread /\ Uncounted(e) \in SUBSET Thread
      /\ Acking(e) \in SUBSET Thread
  BY DEF AutoAcking, Uncounted, Acking
<1>2. QED
  BY <1>1, MemAssumption, FS_Subset, FS_CardinalityType

\* A count goes from old to new when one thread leaves or enters the set.
Counts(old, new, was, is) ==
  /\ ~was /\ is => new = old + 1
  /\ was /\ ~is => new = old - 1
  /\ (was <=> is) => new = old

\* A thread's move: the other endpoint's threads and the other threads stay
\* where they are, and the three counts of the endpoint follow the move.
LEMMA GotoCounts ==
  ASSUME TypeOK, NEW e \in End, NEW t \in Thread, NEW s \in ThreadState,
         Goto(e, t, s)
  PROVE  /\ pc' \in [End -> [Thread -> ThreadState]]
         /\ \A f \in End : f # e => /\ pc'[f] = pc[f]
                                    /\ AutoAcking(f)' = AutoAcking(f)
                                    /\ Uncounted(f)' = Uncounted(f)
                                    /\ Acking(f)' = Acking(f)
         /\ Counts(Cardinality(AutoAcking(e)), Cardinality(AutoAcking(e)'),
                   pc[e][t] \in {"autoack"}, s \in {"autoack"})
         /\ Counts(Cardinality(Uncounted(e)), Cardinality(Uncounted(e)'),
                   pc[e][t] \in {"autoack", "count"}, s \in {"autoack", "count"})
         /\ Counts(Cardinality(Acking(e)), Cardinality(Acking(e)'),
                   pc[e][t] \in {"ack"}, s \in {"ack"})
<1>1. pc' = [pc EXCEPT ![e][t] = s] /\ pc \in [End -> [Thread -> ThreadState]]
  BY DEF Goto, TypeOK
<1>2. pc' \in [End -> [Thread -> ThreadState]] /\ \A f \in End \ {e} : pc'[f] = pc[f]
  BY <1>1
<1>3. \A f \in End \ {e} : /\ AutoAcking(f)' = AutoAcking(f)
                           /\ Uncounted(f)' = Uncounted(f)
                           /\ Acking(f)' = Acking(f)
  BY <1>2 DEF AutoAcking, Uncounted, Acking
<1>4. pc'[e][t] = s /\ \A u \in Thread \ {t} : pc'[e][u] = pc[e][u]
  BY <1>1
<1>5. /\ IsFiniteSet(AutoAcking(e)) /\ IsFiniteSet(Uncounted(e))
      /\ IsFiniteSet(Acking(e))
  BY FiniteCounts
<1>6. /\ t \in AutoAcking(e)' <=> s \in {"autoack"}
      /\ t \in AutoAcking(e) <=> pc[e][t] \in {"autoack"}
      /\ AutoAcking(e)' = AutoAcking(e) \cup {t} \/ AutoAcking(e)' = AutoAcking(e) \ {t}
  BY <1>4 DEF AutoAcking
<1>7. /\ t \in Uncounted(e)' <=> s \in {"autoack", "count"}
      /\ t \in Uncounted(e) <=> pc[e][t] \in {"autoack", "count"}
      /\ Uncounted(e)' = Uncounted(e) \cup {t} \/ Uncounted(e)' = Uncounted(e) \ {t}
  BY <1>4 DEF Uncounted
<1>8. /\ t \in Acking(e)' <=> s \in {"ack"}
      /\ t \in Acking(e) <=> pc[e][t] \in {"ack"}
      /\ Acking(e)' = Acking(e) \cup {t} \/ Acking(e)' = Acking(e) \ {t}
  BY <1>4 DEF Acking
<1>9. /\ t \in AutoAcking(e)' /\ t \in AutoAcking(e) => AutoAcking(e)' = AutoAcking(e)
      /\ t \notin AutoAcking(e)' /\ t \notin AutoAcking(e) => AutoAcking(e)' = AutoAcking(e)
      /\ t \in AutoAcking(e)' /\ t \notin AutoAcking(e) =>
           Cardinality(AutoAcking(e)') = Cardinality(AutoAcking(e)) + 1
      /\ t \notin AutoAcking(e)' /\ t \in AutoAcking(e) =>
           Cardinality(AutoAcking(e)') = Cardinality(AutoAcking(e)) - 1
  BY <1>5, <1>6, CardMove
<1>10. /\ t \in Uncounted(e)' /\ t \in Uncounted(e) => Uncounted(e)' = Uncounted(e)
       /\ t \notin Uncounted(e)' /\ t \notin Uncounted(e) => Uncounted(e)' = Uncounted(e)
       /\ t \in Uncounted(e)' /\ t \notin Uncounted(e) =>
            Cardinality(Uncounted(e)') = Cardinality(Uncounted(e)) + 1
       /\ t \notin Uncounted(e)' /\ t \in Uncounted(e) =>
            Cardinality(Uncounted(e)') = Cardinality(Uncounted(e)) - 1
  BY <1>5, <1>7, CardMove
<1>11. /\ t \in Acking(e)' /\ t \in Acking(e) => Acking(e)' = Acking(e)
       /\ t \notin Acking(e)' /\ t \notin Acking(e) => Acking(e)' = Acking(e)
       /\ t \in Acking(e)' /\ t \notin Acking(e) =>
            Cardinality(Acking(e)') = Cardinality(Acking(e)) + 1
       /\ t \notin Acking(e)' /\ t \in Acking(e) =>
            Cardinality(Acking(e)') = Cardinality(Acking(e)) - 1
  BY <1>5, <1>8, CardMove
<1>12. Counts(Cardinality(AutoAcking(e)), Cardinality(AutoAcking(e)'),
              pc[e][t] \in {"autoack"}, s \in {"autoack"})
  BY <1>6, <1>9 DEF Counts
<1>13. Counts(Cardinality(Uncounted(e)), Cardinality(Uncounted(e)'),
              pc[e][t] \in {"autoack", "count"}, s \in {"autoack", "count"})
  BY <1>7, <1>10 DEF Counts
<1>14. Counts(Cardinality(Acking(e)), Cardinality(Acking(e)'),
              pc[e][t] \in {"ack"}, s \in {"ack"})
  BY <1>8, <1>11 DEF Counts
<1>15. QED
  BY <1>2, <1>3, <1>12, <1>13, <1>14

\* A step that moves no thread changes none of the counts.
LEMMA SameCounts ==
  ASSUME UNCHANGED pc, NEW e \in End
  PROVE  UNCHANGED <<AutoAcking(e), Uncounted(e), Acking(e), Quiet(e)>>
  BY DEF AutoAcking, Uncounted, Acking, Quiet

\* The threads of an endpoint in WaitLinkTaskFinish are in no count.
LEMMA QuietCounts ==
  ASSUME NEW e \in End, Quiet(e)
  PROVE  /\ Cardinality(AutoAcking(e)) = 0 /\ Cardinality(Uncounted(e)) = 0
         /\ Cardinality(Acking(e)) = 0
<1>1. AutoAcking(e) = {} /\ Uncounted(e) = {} /\ Acking(e) = {}
  BY DEF Quiet, AutoAcking, Uncounted, Acking
<1>2. QED
  BY <1>1, FS_EmptySet

-----------------------------------------------------------------------------
(* Every action preserves the invariant.                                   *)

\* The values that the counting invariants relate are natural numbers.
LEMMA Numbers ==
  ASSUME TypeOK, NEW e \in End
  PROVE  /\ sent[e] \in Nat /\ rcvd[e] \in Nat /\ acks[e] \in Nat
         /\ unread[e] \in Nat /\ toAck[e] \in Nat /\ pushed[e] \in Nat
         /\ Pending(e) \in Nat
         /\ Cardinality(AutoAcking(e)) \in Nat
         /\ Cardinality(Uncounted(e)) \in Nat
         /\ Cardinality(Acking(e)) \in Nat
  BY FiniteCounts DEF TypeOK, Pending

\* What PushInv and AckInv say of one endpoint.
Counted(e) ==
  /\ rcvd[Peer(e)] = pushed[e]
  /\ pushed[e] = sent[e] + Cardinality(Uncounted(e))
  /\ rcvd[e] = Pending(e) + Cardinality(Acking(e))
                 + Cardinality(AutoAcking(Peer(e))) + acks[Peer(e)]

\* They say it of an endpoint and of its peer.
LEMMA BothCounted ==
  ASSUME NEW e \in End
  PROVE  /\ PushInv /\ AckInv <=> Counted(e) /\ Counted(Peer(e))
         /\ PushInv' /\ AckInv' <=> Counted(e)' /\ Counted(Peer(e))'
<1>1. Peer(e) \in End /\ \A f \in End : f = e \/ f = Peer(e)
  BY PeerFacts
<1>2. PushInv /\ AckInv <=> \A f \in End : Counted(f)
  BY DEF PushInv, AckInv, Counted
<1>3. PushInv' /\ AckInv' <=> \A f \in End : Counted(f)'
  BY DEF PushInv, AckInv, Counted
<1>4. QED
  BY <1>1, <1>2, <1>3

\* Only idle threads, or threads of an endpoint that is not in
\* WaitLinkTaskFinish, move.
LEMMA QuietMove ==
  ASSUME MemInv, NEW e \in End, NEW t \in Thread, NEW s \in ThreadState,
         Goto(e, t, s), fpc[e] = "run", UNCHANGED <<fpc, waiting>>,
         \A f \in End : fpc[f] \notin {"run", "stop"} => unread'[f] = 0
  PROVE  QuietInv'
<1>1. \A f \in End : f # e => pc'[f] = pc[f]
  BY GotoCounts DEF MemInv
<1>2. \A f \in End : f # e /\ Quiet(f) => Quiet(f)'
  BY <1>1 DEF Quiet
<1>3. QED
  BY <1>2 DEF MemInv, QuietInv

\* A thread that is not idle belongs to an endpoint that still runs.
LEMMA BusyRuns ==
  ASSUME QuietInv, NEW e \in End, NEW t \in Thread, pc[e][t] # "idle"
  PROVE  fpc[e] = "run"
  BY DEF QuietInv, Quiet

\* Send stores the message at the peer, or keeps its lock to acknowledge it.
LEMMA SendStep ==
  ASSUME MemInv, NEW e \in End, NEW t \in Thread, Send(e, t)
  PROVE  MemInv'
<1>t. TypeOK /\ Peer(e) \in End /\ Peer(e) # e
  BY PeerFacts DEF MemInv
<1>u. /\ fpc[e] = "run" /\ pc[e][t] = "idle"
      /\ pushed' = [pushed EXCEPT ![e] = @ + 1]
      /\ rcvd' = [rcvd EXCEPT ![Peer(e)] = @ + 1]
      /\ UNCHANGED <<sent, acks, waiting, rfin, peerSent, fpc, toAck>>
  BY DEF Send
<1>1. PICK s \in {"count", "autoack"} :
         /\ Goto(e, t, s)
         /\ s = "count" => /\ fpc[Peer(e)] = "run" /\ UNCHANGED lock
                           /\ unread' = [unread EXCEPT ![Peer(e)] = @ + 1]
         /\ s = "autoack" => /\ UNCHANGED unread
                             /\ lock' = [lock EXCEPT ![Peer(e)] = TRUE]
  BY <1>t DEF Send, MemInv, QuietInv
<1>2. s \in ThreadState
  BY DEF ThreadState
<1>3. /\ pc' \in [End -> [Thread -> ThreadState]]
      /\ UNCHANGED <<AutoAcking(Peer(e)), Uncounted(Peer(e)), Acking(Peer(e))>>
      /\ Cardinality(Acking(e)') = Cardinality(Acking(e))
      /\ Cardinality(Uncounted(e)') = Cardinality(Uncounted(e)) + 1
      /\ s = "count" => Cardinality(AutoAcking(e)') = Cardinality(AutoAcking(e))
      /\ s = "autoack" =>
           Cardinality(AutoAcking(e)') = Cardinality(AutoAcking(e)) + 1
  BY <1>t, <1>u, <1>1, <1>2, GotoCounts DEF Counts
<1>4. TypeOK'
  <2>0. unread' \in [End -> Nat]
    BY <1>t, <1>1 DEF TypeOK
  <2>1. lock' \in [End -> BOOLEAN]
    BY <1>t, <1>1, Zenon DEF TypeOK
  <2>2. pushed' \in [End -> Nat] /\ rcvd' \in [End -> Nat]
    BY <1>t, <1>u DEF TypeOK
  <2>3. QED
    BY <1>t, <1>u, <1>3, <2>0, <2>1, <2>2 DEF TypeOK
<1>5. /\ s = "count" => Pending(Peer(e))' = Pending(Peer(e)) + 1
      /\ s = "autoack" => Pending(Peer(e))' = Pending(Peer(e))
      /\ Pending(e)' = Pending(e)
  BY <1>t, <1>u, <1>1 DEF Pending, TypeOK
<1>6. /\ rcvd'[e] = rcvd[e] /\ rcvd'[Peer(e)] = rcvd[Peer(e)] + 1
      /\ pushed'[e] = pushed[e] + 1 /\ pushed'[Peer(e)] = pushed[Peer(e)]
  BY <1>t, <1>u DEF TypeOK
<1>7. PushInv' /\ AckInv'
  <2>1. Counted(e) /\ Counted(Peer(e)) /\ Peer(Peer(e)) = e
    BY BothCounted, PeerFacts DEF MemInv
  <2>2. Counted(e)'
    BY <1>t, <1>u, <1>3, <1>5, <1>6, <2>1, Numbers DEF Counted
  <2>3. Counted(Peer(e))'
    <3>1. CASE s = "count"
      BY <3>1, <1>t, <1>u, <1>3, <1>5, <1>6, <2>1, Numbers DEF Counted
    <3>2. CASE s = "autoack"
      BY <3>2, <1>t, <1>u, <1>3, <1>5, <1>6, <2>1, Numbers DEF Counted
    <3>3. QED
      BY <3>1, <3>2
  <2>4. QED
    BY <2>2, <2>3, BothCounted
<1>8. QuietInv'
  <2>1. \A f \in End : fpc[f] \notin {"run", "stop"} => unread'[f] = 0
    BY <1>t, <1>u, <1>1 DEF MemInv, QuietInv, TypeOK
  <2>2. QED
    BY <1>u, <1>1, <1>2, <2>1, QuietMove
<1>9. FinInv'
  BY <1>u DEF MemInv, FinInv
<1>10. QED
  BY <1>4, <1>7, <1>8, <1>9 DEF MemInv

\* The automatic ack of a message that arrives at an endpoint that waits.
LEMMA AutoAckStep ==
  ASSUME MemInv, NEW e \in End, NEW t \in Thread, AutoAck(e, t)
  PROVE  MemInv'
<1>t. TypeOK /\ Peer(e) \in End /\ Peer(e) # e
  BY PeerFacts DEF MemInv
<1>u. /\ pc[e][t] = "autoack" /\ Goto(e, t, "count")
      /\ acks' = [acks EXCEPT ![e] = @ + 1]
      /\ lock' = [lock EXCEPT ![Peer(e)] = FALSE]
      /\ UNCHANGED <<sent, rcvd, unread, waiting, rfin, peerSent, fpc, toAck,
                     pushed>>
  BY DEF AutoAck, OnAck
<1>2. "count" \in ThreadState
  BY DEF ThreadState
<1>3. /\ pc' \in [End -> [Thread -> ThreadState]]
      /\ UNCHANGED <<AutoAcking(Peer(e)), Uncounted(Peer(e)), Acking(Peer(e))>>
      /\ Cardinality(Acking(e)') = Cardinality(Acking(e))
      /\ Cardinality(Uncounted(e)') = Cardinality(Uncounted(e))
      /\ Cardinality(AutoAcking(e)') = Cardinality(AutoAcking(e)) - 1
  BY <1>t, <1>u, <1>2, GotoCounts DEF Counts
<1>4. TypeOK'
  <2>1. lock' \in [End -> BOOLEAN]
    BY <1>t, <1>u, Zenon DEF TypeOK
  <2>2. acks' \in [End -> Nat]
    BY <1>t, <1>u DEF TypeOK
  <2>3. QED
    BY <1>t, <1>u, <1>3, <2>1, <2>2 DEF TypeOK
<1>5. Pending(Peer(e))' = Pending(Peer(e)) /\ Pending(e)' = Pending(e)
  BY <1>u DEF Pending
<1>6. acks'[e] = acks[e] + 1 /\ acks'[Peer(e)] = acks[Peer(e)]
  BY <1>t, <1>u DEF TypeOK
<1>7. PushInv' /\ AckInv'
  <2>1. Counted(e) /\ Counted(Peer(e)) /\ Peer(Peer(e)) = e
    BY BothCounted, PeerFacts DEF MemInv
  <2>2. Counted(e)' /\ Counted(Peer(e))'
    BY <1>t, <1>u, <1>3, <1>5, <1>6, <2>1, Numbers DEF Counted
  <2>3. QED
    BY <2>2, BothCounted
<1>8. QuietInv'
  <2>1. fpc[e] = "run" /\ \A f \in End : fpc[f] \notin {"run", "stop"} => unread'[f] = 0
    BY <1>u, BusyRuns DEF MemInv, QuietInv
  <2>2. QED
    BY <1>u, <1>2, <2>1, QuietMove
<1>9. FinInv'
  BY <1>u DEF MemInv, FinInv
<1>10. QED
  BY <1>4, <1>7, <1>8, <1>9 DEF MemInv

\* Counting a message that the peer has (fetch_add on sent_msg_count_).
LEMMA CountSentStep ==
  ASSUME MemInv, NEW e \in End, NEW t \in Thread, CountSent(e, t)
  PROVE  MemInv'
<1>t. TypeOK /\ Peer(e) \in End /\ Peer(e) # e
  BY PeerFacts DEF MemInv
<1>u. /\ pc[e][t] = "count" /\ Goto(e, t, "idle")
      /\ sent' = [sent EXCEPT ![e] = @ + 1]
      /\ UNCHANGED <<rcvd, acks, unread, waiting, rfin, peerSent, lock, fpc,
                     toAck, pushed>>
  BY DEF CountSent
<1>2. "idle" \in ThreadState
  BY DEF ThreadState
<1>3. /\ pc' \in [End -> [Thread -> ThreadState]]
      /\ UNCHANGED <<AutoAcking(Peer(e)), Uncounted(Peer(e)), Acking(Peer(e))>>
      /\ Cardinality(Acking(e)') = Cardinality(Acking(e))
      /\ Cardinality(Uncounted(e)') = Cardinality(Uncounted(e)) - 1
      /\ Cardinality(AutoAcking(e)') = Cardinality(AutoAcking(e))
  BY <1>t, <1>u, <1>2, GotoCounts DEF Counts
<1>4. TypeOK'
  <2>1. sent' \in [End -> Nat]
    BY <1>t, <1>u DEF TypeOK
  <2>2. QED
    BY <1>t, <1>u, <1>3, <2>1 DEF TypeOK
<1>5. Pending(Peer(e))' = Pending(Peer(e)) /\ Pending(e)' = Pending(e)
  BY <1>u DEF Pending
<1>6. sent'[e] = sent[e] + 1 /\ sent'[Peer(e)] = sent[Peer(e)]
  BY <1>t, <1>u DEF TypeOK
<1>7. PushInv' /\ AckInv'
  <2>1. Counted(e) /\ Counted(Peer(e)) /\ Peer(Peer(e)) = e
    BY BothCounted, PeerFacts DEF MemInv
  <2>2. Counted(e)' /\ Counted(Peer(e))'
    BY <1>t, <1>u, <1>3, <1>5, <1>6, <2>1, Numbers DEF Counted
  <2>3. QED
    BY <2>2, BothCounted
<1>r. fpc[e] = "run"
  BY <1>u, BusyRuns DEF MemInv
<1>8. QuietInv'
  <2>1. \A f \in End : fpc[f] \notin {"run", "stop"} => unread'[f] = 0
    BY <1>u DEF MemInv, QuietInv
  <2>2. QED
    BY <1>u, <1>2, <1>r, <2>1, QuietMove
<1>9. FinInv'
  <2>1. \A f \in End : Peer(f) = e \/ sent'[Peer(f)] = sent[Peer(f)]
    BY <1>6, PeerFacts
  <2>2. QED
    BY <1>u, <1>r, <2>1 DEF MemInv, FinInv
<1>10. QED
  BY <1>4, <1>7, <1>8, <1>9 DEF MemInv

\* Recv takes a message out of msg_db_.
LEMMA RecvStep ==
  ASSUME MemInv, NEW e \in End, NEW t \in Thread, Recv(e, t)
  PROVE  MemInv'
<1>t. TypeOK /\ Peer(e) \in End /\ Peer(e) # e
  BY PeerFacts DEF MemInv
<1>u. /\ fpc[e] = "run" /\ pc[e][t] = "idle" /\ Goto(e, t, "ack")
      /\ unread[e] > 0 /\ unread' = [unread EXCEPT ![e] = @ - 1]
      /\ UNCHANGED <<sent, rcvd, acks, waiting, rfin, peerSent, lock, fpc,
                     toAck, pushed>>
  BY DEF Recv
<1>2. "ack" \in ThreadState
  BY DEF ThreadState
<1>3. /\ pc' \in [End -> [Thread -> ThreadState]]
      /\ UNCHANGED <<AutoAcking(Peer(e)), Uncounted(Peer(e)), Acking(Peer(e))>>
      /\ Cardinality(Acking(e)') = Cardinality(Acking(e)) + 1
      /\ Cardinality(Uncounted(e)') = Cardinality(Uncounted(e))
      /\ Cardinality(AutoAcking(e)') = Cardinality(AutoAcking(e))
  BY <1>t, <1>u, <1>2, GotoCounts DEF Counts
<1>4. TypeOK'
  <2>1. unread' \in [End -> Nat]
    BY <1>t, <1>u DEF TypeOK
  <2>2. QED
    BY <1>t, <1>u, <1>3, <2>1 DEF TypeOK
<1>5. Pending(Peer(e))' = Pending(Peer(e)) /\ Pending(e)' = Pending(e) - 1
  BY <1>t, <1>u DEF Pending, TypeOK
<1>7. PushInv' /\ AckInv'
  <2>1. Counted(e) /\ Counted(Peer(e)) /\ Peer(Peer(e)) = e
    BY BothCounted, PeerFacts DEF MemInv
  <2>2. Counted(e)' /\ Counted(Peer(e))'
    BY <1>t, <1>u, <1>3, <1>5, <2>1, Numbers DEF Counted
  <2>3. QED
    BY <2>2, BothCounted
<1>8. QuietInv'
  <2>1. \A f \in End : fpc[f] \notin {"run", "stop"} => unread'[f] = 0
    BY <1>t, <1>u DEF MemInv, QuietInv, TypeOK
  <2>2. QED
    BY <1>u, <1>2, <2>1, QuietMove
<1>9. FinInv'
  BY <1>u DEF MemInv, FinInv
<1>10. QED
  BY <1>4, <1>7, <1>8, <1>9 DEF MemInv

\* Recv acknowledges the message that it took.
LEMMA RecvAckStep ==
  ASSUME MemInv, NEW e \in End, NEW t \in Thread, RecvAck(e, t)
  PROVE  MemInv'
<1>t. TypeOK /\ Peer(e) \in End /\ Peer(e) # e
  BY PeerFacts DEF MemInv
<1>u. /\ pc[e][t] = "ack" /\ Goto(e, t, "idle")
      /\ acks' = [acks EXCEPT ![Peer(e)] = @ + 1]
      /\ UNCHANGED <<sent, rcvd, unread, waiting, rfin, peerSent, lock, fpc,
                     toAck, pushed>>
  BY DEF RecvAck, OnAck
<1>2. "idle" \in ThreadState
  BY DEF ThreadState
<1>3. /\ pc' \in [End -> [Thread -> ThreadState]]
      /\ UNCHANGED <<AutoAcking(Peer(e)), Uncounted(Peer(e)), Acking(Peer(e))>>
      /\ Cardinality(Acking(e)') = Cardinality(Acking(e)) - 1
      /\ Cardinality(Uncounted(e)') = Cardinality(Uncounted(e))
      /\ Cardinality(AutoAcking(e)') = Cardinality(AutoAcking(e))
  BY <1>t, <1>u, <1>2, GotoCounts DEF Counts
<1>4. TypeOK'
  <2>1. acks' \in [End -> Nat]
    BY <1>t, <1>u DEF TypeOK
  <2>2. QED
    BY <1>t, <1>u, <1>3, <2>1 DEF TypeOK
<1>5. Pending(Peer(e))' = Pending(Peer(e)) /\ Pending(e)' = Pending(e)
  BY <1>u DEF Pending
<1>6. acks'[Peer(e)] = acks[Peer(e)] + 1 /\ acks'[e] = acks[e]
  BY <1>t, <1>u DEF TypeOK
<1>7. PushInv' /\ AckInv'
  <2>1. Counted(e) /\ Counted(Peer(e)) /\ Peer(Peer(e)) = e
    BY BothCounted, PeerFacts DEF MemInv
  <2>2. Counted(e)' /\ Counted(Peer(e))'
    BY <1>t, <1>u, <1>3, <1>5, <1>6, <2>1, Numbers DEF Counted
  <2>3. QED
    BY <2>2, BothCounted
<1>8. QuietInv'
  <2>1. fpc[e] = "run" /\ \A f \in End : fpc[f] \notin {"run", "stop"} => unread'[f] = 0
    BY <1>u, BusyRuns DEF MemInv, QuietInv
  <2>2. QED
    BY <1>u, <1>2, <2>1, QuietMove
<1>9. FinInv'
  BY <1>u DEF MemInv, FinInv
<1>10. QED
  BY <1>4, <1>7, <1>8, <1>9 DEF MemInv

\* StopReceivingAndAckUnreadMsgs begins when the threads of the endpoint are out.
LEMMA StopReceivingStep ==
  ASSUME MemInv, NEW e \in End, StopReceiving(e)
  PROVE  MemInv'
<1>t. TypeOK /\ Peer(e) \in End /\ Peer(e) # e
  BY PeerFacts DEF MemInv
<1>u. /\ fpc[e] = "run" /\ Quiet(e)
      /\ lock' = [lock EXCEPT ![e] = TRUE]
      /\ waiting' = [waiting EXCEPT ![e] = TRUE]
      /\ toAck' = [toAck EXCEPT ![e] = unread[e]]
      /\ fpc' = [fpc EXCEPT ![e] = "stop"]
      /\ UNCHANGED <<sent, rcvd, acks, unread, rfin, peerSent, pc, pushed>>
  BY DEF StopReceiving, Finishing
<1>3. \A f \in End : UNCHANGED <<AutoAcking(f), Uncounted(f), Acking(f), Quiet(f)>>
  BY <1>u, SameCounts
<1>4. TypeOK'
  <2>1. lock' \in [End -> BOOLEAN] /\ waiting' \in [End -> BOOLEAN]
    BY <1>t, <1>u, Zenon DEF TypeOK
  <2>2. toAck' \in [End -> Nat] /\ fpc' \in [End -> FinishState]
    BY <1>t, <1>u DEF TypeOK, FinishState
  <2>3. QED
    BY <1>t, <1>u, <2>1, <2>2 DEF TypeOK
<1>5. Pending(Peer(e))' = Pending(Peer(e)) /\ Pending(e)' = Pending(e)
  BY <1>t, <1>u DEF Pending, TypeOK
<1>7. PushInv' /\ AckInv'
  <2>1. Counted(e) /\ Counted(Peer(e)) /\ Peer(Peer(e)) = e
    BY BothCounted, PeerFacts DEF MemInv
  <2>2. Counted(e)' /\ Counted(Peer(e))'
    BY <1>t, <1>u, <1>3, <1>5, <2>1 DEF Counted
  <2>3. QED
    BY <2>2, BothCounted
<1>8. QuietInv'
  <2>1. /\ fpc'[e] = "stop" /\ \A f \in End : f # e => fpc'[f] = fpc[f]
        /\ waiting'[e] /\ \A f \in End : f # e => waiting'[f] = waiting[f]
    BY <1>t, <1>u DEF TypeOK
  <2>2. QED
    BY <1>u, <1>3, <2>1 DEF MemInv, QuietInv
<1>9. FinInv'
  <2>1. /\ \A f \in End : f # e => fpc'[f] = fpc[f]
        /\ fpc'[e] = "stop"
    BY <1>t, <1>u DEF TypeOK
  <2>2. QED
    BY <1>u, <2>1 DEF MemInv, FinInv
<1>10. QED
  BY <1>4, <1>7, <1>8, <1>9 DEF MemInv

\* The ack of one message that was not read.
LEMMA AckUnreadMsgStep ==
  ASSUME MemInv, NEW e \in End, AckUnreadMsg(e)
  PROVE  MemInv'
<1>t. TypeOK /\ Peer(e) \in End /\ Peer(e) # e
  BY PeerFacts DEF MemInv
<1>u. /\ fpc[e] = "stop" /\ toAck[e] > 0
      /\ acks' = [acks EXCEPT ![Peer(e)] = @ + 1]
      /\ toAck' = [toAck EXCEPT ![e] = @ - 1]
      /\ UNCHANGED <<sent, rcvd, unread, waiting, rfin, peerSent, lock, pc, fpc,
                     pushed>>
  BY DEF AckUnreadMsg, OnAck
<1>3. \A f \in End : UNCHANGED <<AutoAcking(f), Uncounted(f), Acking(f), Quiet(f)>>
  BY <1>u, SameCounts
<1>4. TypeOK'
  <2>1. toAck' \in [End -> Nat] /\ acks' \in [End -> Nat]
    BY <1>t, <1>u DEF TypeOK
  <2>2. QED
    BY <1>t, <1>u, <2>1 DEF TypeOK
<1>5. Pending(Peer(e))' = Pending(Peer(e)) /\ Pending(e)' = Pending(e) - 1
  BY <1>t, <1>u DEF Pending, TypeOK
<1>6. acks'[Peer(e)] = acks[Peer(e)] + 1 /\ acks'[e] = acks[e]
  BY <1>t, <1>u DEF TypeOK
<1>7. PushInv' /\ AckInv'
  <2>1. Counted(e) /\ Counted(Peer(e)) /\ Peer(Peer(e)) = e
    BY BothCounted, PeerFacts DEF MemInv
  <2>2. Counted(e)' /\ Counted(Peer(e))'
    BY <1>t, <1>u, <1>3, <1>5, <1>6, <2>1, Numbers DEF Counted
  <2>3. QED
    BY <2>2, BothCounted
<1>8. QuietInv' /\ FinInv'
  BY <1>u, <1>3 DEF MemInv, QuietInv, FinInv
<1>10. QED
  BY <1>4, <1>7, <1>8 DEF MemInv

\* StopReceivingAndAckUnreadMsgs ends when every unread message has its ack.
LEMMA ClearUnreadStep ==
  ASSUME MemInv, NEW e \in End, ClearUnread(e)
  PROVE  MemInv'
<1>t. TypeOK /\ Peer(e) \in End /\ Peer(e) # e
  BY PeerFacts DEF MemInv
<1>u. /\ fpc[e] = "stop" /\ toAck[e] = 0
      /\ unread' = [unread EXCEPT ![e] = 0]
      /\ lock' = [lock EXCEPT ![e] = FALSE]
      /\ fpc' = [fpc EXCEPT ![e] = "fin"]
      /\ UNCHANGED <<sent, rcvd, acks, waiting, rfin, peerSent, pc, toAck, pushed>>
  BY DEF ClearUnread
<1>3. \A f \in End : UNCHANGED <<AutoAcking(f), Uncounted(f), Acking(f), Quiet(f)>>
  BY <1>u, SameCounts
<1>4. TypeOK'
  <2>1. lock' \in [End -> BOOLEAN]
    BY <1>t, <1>u, Zenon DEF TypeOK
  <2>2. unread' \in [End -> Nat] /\ fpc' \in [End -> FinishState]
    BY <1>t, <1>u DEF TypeOK, FinishState
  <2>3. QED
    BY <1>t, <1>u, <2>1, <2>2 DEF TypeOK
<1>5. Pending(Peer(e))' = Pending(Peer(e)) /\ Pending(e)' = Pending(e)
  BY <1>t, <1>u DEF Pending, TypeOK
<1>6. /\ fpc'[e] = "fin" /\ \A f \in End : f # e => fpc'[f] = fpc[f]
      /\ unread'[e] = 0 /\ \A f \in End : f # e => unread'[f] = unread[f]
  BY <1>t, <1>u DEF TypeOK
<1>7. PushInv' /\ AckInv'
  <2>1. Counted(e) /\ Counted(Peer(e)) /\ Peer(Peer(e)) = e
    BY BothCounted, PeerFacts DEF MemInv
  <2>2. Counted(e)' /\ Counted(Peer(e))'
    BY <1>t, <1>u, <1>3, <1>5, <2>1 DEF Counted
  <2>3. QED
    BY <2>2, BothCounted
<1>8. QuietInv'
  BY <1>u, <1>3, <1>6 DEF MemInv, QuietInv
<1>9. FinInv'
  BY <1>u, <1>6 DEF MemInv, FinInv
<1>10. QED
  BY <1>4, <1>7, <1>8, <1>9 DEF MemInv

\* The fin message carries the count of a quiet endpoint, which is final.
LEMMA SendFinStep ==
  ASSUME MemInv, NEW e \in End, SendFin(e)
  PROVE  MemInv'
<1>t. TypeOK /\ Peer(e) \in End /\ Peer(e) # e /\ Peer(Peer(e)) = e
  BY PeerFacts DEF MemInv
<1>u. /\ fpc[e] = "fin"
      /\ rfin' = [rfin EXCEPT ![Peer(e)] = TRUE]
      /\ peerSent' = [peerSent EXCEPT ![Peer(e)] =
                        IF rfin[Peer(e)] THEN @ ELSE sent[e]]
      /\ fpc' = [fpc EXCEPT ![e] = "waitfin"]
      /\ UNCHANGED <<sent, rcvd, acks, unread, waiting, lock, pc, toAck, pushed>>
  BY DEF SendFin
<1>3. \A f \in End : UNCHANGED <<AutoAcking(f), Uncounted(f), Acking(f), Quiet(f)>>
  BY <1>u, SameCounts
<1>4. TypeOK'
  <2>1. rfin' \in [End -> BOOLEAN]
    BY <1>t, <1>u, Zenon DEF TypeOK
  <2>2. peerSent' \in [End -> Nat] /\ fpc' \in [End -> FinishState]
    BY <1>t, <1>u DEF TypeOK, FinishState
  <2>3. QED
    BY <1>t, <1>u, <2>1, <2>2 DEF TypeOK
<1>5. Pending(Peer(e))' = Pending(Peer(e)) /\ Pending(e)' = Pending(e)
  BY <1>t, <1>u DEF Pending, TypeOK
<1>6. ~rfin[Peer(e)]
  BY <1>t, <1>u DEF MemInv, FinInv
<1>7. PushInv' /\ AckInv'
  <2>1. Counted(e) /\ Counted(Peer(e)) /\ Peer(Peer(e)) = e
    BY BothCounted, PeerFacts DEF MemInv
  <2>2. Counted(e)' /\ Counted(Peer(e))'
    BY <1>t, <1>u, <1>3, <1>5, <2>1 DEF Counted
  <2>3. QED
    BY <2>2, BothCounted
<1>v. /\ fpc'[e] = "waitfin" /\ \A f \in End : f # e => fpc'[f] = fpc[f]
      /\ rfin'[Peer(e)] /\ \A f \in End : f # Peer(e) => rfin'[f] = rfin[f]
      /\ peerSent'[Peer(e)] = sent[e]
      /\ \A f \in End : f # Peer(e) => peerSent'[f] = peerSent[f]
  BY <1>t, <1>u, <1>6 DEF TypeOK
<1>8. QuietInv'
  BY <1>u, <1>3, <1>v DEF MemInv, QuietInv
<1>9. FinInv'
  BY <1>u, <1>t, <1>v, PeerFacts DEF MemInv, FinInv
<1>10. QED
  BY <1>4, <1>7, <1>8, <1>9 DEF MemInv

\* The three waits of WaitForFinAndFlyingMsg and WaitForFlyingAck.
LEMMA AdvanceStep ==
  ASSUME MemInv, NEW e \in End,
         WaitForFin(e) \/ WaitForFlyingMsg(e) \/ WaitForFlyingAck(e)
  PROVE  MemInv'
<1>t. TypeOK /\ Peer(e) \in End /\ Peer(e) # e
  BY PeerFacts DEF MemInv
<1>u. PICK to \in {"waitmsg", "waitack", "done"} :
        /\ fpc[e] \in {"waitfin", "waitmsg", "waitack"}
        /\ fpc[e] = "waitfin" => rfin[e]
        /\ fpc' = [fpc EXCEPT ![e] = to]
        /\ UNCHANGED <<sent, rcvd, acks, unread, waiting, rfin, peerSent, lock,
                       pc, toAck, pushed>>
  BY DEF WaitForFin, WaitForFlyingMsg, WaitForFlyingAck, Advance
<1>3. \A f \in End : UNCHANGED <<AutoAcking(f), Uncounted(f), Acking(f), Quiet(f)>>
  BY <1>u, SameCounts
<1>4. TypeOK'
  BY <1>t, <1>u DEF TypeOK, FinishState
<1>5. Pending(Peer(e))' = Pending(Peer(e)) /\ Pending(e)' = Pending(e)
  BY <1>t, <1>u DEF Pending, TypeOK
<1>6. fpc'[e] = to /\ \A f \in End : f # e => fpc'[f] = fpc[f]
  BY <1>t, <1>u DEF TypeOK
<1>7. PushInv' /\ AckInv'
  <2>1. Counted(e) /\ Counted(Peer(e)) /\ Peer(Peer(e)) = e
    BY BothCounted, PeerFacts DEF MemInv
  <2>2. Counted(e)' /\ Counted(Peer(e))'
    BY <1>t, <1>u, <1>3, <1>5, <2>1 DEF Counted
  <2>3. QED
    BY <2>2, BothCounted
<1>8. QuietInv'
  BY <1>u, <1>3, <1>6 DEF MemInv, QuietInv
<1>9. FinInv'
  BY <1>u, <1>6, PeerFacts DEF MemInv, FinInv
<1>10. QED
  BY <1>4, <1>7, <1>8, <1>9 DEF MemInv

-----------------------------------------------------------------------------
(* The theorems.                                                           *)

\* The two endpoints start with everything empty.
LEMMA InitInv == Init => MemInv
<1> SUFFICES ASSUME Init PROVE MemInv
  OBVIOUS
<1>1. TypeOK
  BY DEF Init, TypeOK, ThreadState, FinishState
<1>2. \A e \in End : /\ sent[e] = 0 /\ rcvd[e] = 0 /\ acks[e] = 0
                     /\ unread[e] = 0 /\ pushed[e] = 0
                     /\ fpc[e] = "run" /\ ~rfin[e] /\ ~waiting[e] /\ Quiet(e)
  BY DEF Init, Quiet
<1>3. \A e \in End : Peer(e) \in End
  BY PeerFacts
<1>4. \A e \in End : /\ Cardinality(Acking(e)) = 0 /\ Cardinality(Uncounted(e)) = 0
                     /\ Cardinality(AutoAcking(e)) = 0
  BY <1>2, QuietCounts
<1>5. PushInv /\ AckInv
  BY <1>2, <1>3, <1>4 DEF PushInv, AckInv, Pending
<1>6. QuietInv /\ FinInv
  BY <1>2, <1>3 DEF QuietInv, FinInv
<1>7. QED
  BY <1>1, <1>5, <1>6 DEF MemInv

\* Every step of both endpoints and of their threads preserves the invariant.
LEMMA NextInv == MemInv /\ [Next]_vars => MemInv'
<1> SUFFICES ASSUME MemInv, [Next]_vars PROVE MemInv'
  OBVIOUS
<1>1. CASE UNCHANGED vars \/ Terminating
  <2>1. UNCHANGED vars
    BY <1>1 DEF Terminating
  <2>2. \A e \in End : /\ UNCHANGED <<AutoAcking(e), Uncounted(e), Acking(e), Quiet(e)>>
                       /\ UNCHANGED Pending(e)
    BY <2>1 DEF vars, AutoAcking, Uncounted, Acking, Quiet, Pending
  <2>3. TypeOK' /\ PushInv' /\ AckInv'
    BY <2>1, <2>2, PeerFacts DEF MemInv, vars, TypeOK, PushInv, AckInv
  <2>4. QuietInv' /\ FinInv'
    BY <2>1, <2>2 DEF MemInv, vars, QuietInv, FinInv
  <2>5. QED
    BY <2>3, <2>4 DEF MemInv
<1>2. ASSUME NEW e \in End, NEW t \in Thread, Application(e, t) \/ ThreadStep(e, t)
      PROVE  MemInv'
  BY <1>2, SendStep, RecvStep, AutoAckStep, CountSentStep, RecvAckStep
     DEF Application, ThreadStep
<1>3. ASSUME NEW e \in End, FinishStep(e)
      PROVE  MemInv'
  BY <1>3, StopReceivingStep, AckUnreadMsgStep, ClearUnreadStep, SendFinStep,
     AdvanceStep DEF FinishStep
<1>4. QED
  BY <1>1, <1>2, <1>3 DEF Next

\* In every state the counters of the two endpoints account for each message.
THEOREM Invariance == Spec => []MemInv
<1>1. QED
  BY InitInv, NextInv, PTL DEF Spec

\* Once WaitLinkTaskFinish has returned, no thread of the peer is, or will be,
\* in OnMessage of this channel (channel_mem.cc:33), for any number of threads
\* and messages.
THEOREM Silence == Spec => []MemSafe
<1>1. ASSUME MemInv PROVE MemSafe
  <2>1. ASSUME NEW e \in End, Finished(e)
        PROVE  fpc[Peer(e)] \notin {"run", "stop", "fin"} /\ Quiet(Peer(e))
    <3>1. rfin[e]
      BY <1>1, <2>1 DEF Finished, MemInv, FinInv
    <3>2. fpc[Peer(e)] \notin {"run", "stop", "fin"}
      BY <1>1, <3>1 DEF MemInv, FinInv
    <3>3. QED
      BY <1>1, <3>2, PeerFacts DEF MemInv, QuietInv
  <2>2. QED
    BY <1>1, <2>1 DEF MemInv, MemSafe, PeerSilent
<1>2. QED
  BY <1>1, Invariance, PTL

-----------------------------------------------------------------------------
(* The in-memory channel implements LinkShutdown.                          *)

\* A step that changes neither the phases nor the counts is a stuttering step.
LEMMA StutterStep ==
  ASSUME UNCHANGED <<fpc, pushed, acks>>
  PROVE  UNCHANGED Shutdown!vars
  BY DEF Shutdown!vars, phaseOf, unacknowledged, Finished

\* A message handed to the peer is a Submit.
LEMMA SubmitStep ==
  ASSUME MemInv, NEW e \in End, NEW t \in Thread, Send(e, t)
  PROVE  Shutdown!Submit(e)
<1>1. /\ pushed' = [pushed EXCEPT ![e] = @ + 1] /\ fpc[e] = "run"
      /\ UNCHANGED <<fpc, acks>>
  BY DEF Send
<1>2. pushed \in [End -> Nat] /\ acks \in [End -> Nat]
  BY DEF MemInv, TypeOK
<1>3. unacknowledged' = [unacknowledged EXCEPT ![e] = @ + 1]
  <2>1. \A f \in End : pushed'[f] - acks'[f] =
          IF f = e THEN (pushed[f] - acks[f]) + 1 ELSE pushed[f] - acks[f]
    BY <1>1, <1>2
  <2>2. QED
    BY <2>1 DEF unacknowledged
<1>4. phaseOf' = phaseOf /\ phaseOf[e] = "open"
  BY <1>1 DEF phaseOf, Finished
<1>5. QED
  BY <1>3, <1>4 DEF Shutdown!Submit

\* An ack is an Acknowledge: there is a message for it.
LEMMA AcknowledgeStep ==
  ASSUME MemInv, NEW e \in End,
         acks' = [acks EXCEPT ![e] = @ + 1], UNCHANGED <<pushed, fpc>>,
         Cardinality(AutoAcking(e)) + Cardinality(Acking(Peer(e)))
           + Pending(Peer(e)) > 0
  PROVE  Shutdown!Acknowledge(e)
<1>1. TypeOK /\ pushed \in [End -> Nat] /\ acks \in [End -> Nat]
  BY DEF MemInv, TypeOK
<1>2. unacknowledged' = [unacknowledged EXCEPT ![e] = @ - 1]
  <2>1. \A f \in End : pushed'[f] - acks'[f] =
          IF f = e THEN (pushed[f] - acks[f]) - 1 ELSE pushed[f] - acks[f]
    BY <1>1
  <2>2. QED
    BY <2>1 DEF unacknowledged
<1>3. unacknowledged[e] > 0
  <2>1. Counted(e) /\ Counted(Peer(e)) /\ Peer(e) \in End /\ Peer(Peer(e)) = e
    BY BothCounted, PeerFacts DEF MemInv
  <2>2. pushed[e] = Pending(Peer(e)) + Cardinality(Acking(Peer(e)))
                      + Cardinality(AutoAcking(e)) + acks[e]
    BY <2>1 DEF Counted
  <2>3. pushed[e] - acks[e] > 0
    BY <1>1, <2>1, <2>2, Numbers
  <2>4. QED
    BY <2>3 DEF unacknowledged
<1>4. phaseOf' = phaseOf
  BY DEF phaseOf, Finished
<1>5. QED
  BY <1>2, <1>3, <1>4 DEF Shutdown!Acknowledge

\* The first step of WaitLinkTaskFinish is a Close.
LEMMA CloseStep ==
  ASSUME MemInv, NEW e \in End, StopReceiving(e)
  PROVE  Shutdown!Close(e)
<1>1. /\ fpc[e] = "run" /\ fpc' = [fpc EXCEPT ![e] = "stop"]
      /\ UNCHANGED <<pushed, acks>>
  BY DEF StopReceiving, Finishing
<1>2. fpc \in [End -> FinishState]
  BY DEF MemInv, TypeOK
<1>3. phaseOf' = [phaseOf EXCEPT ![e] = "closing"] /\ phaseOf[e] = "open"
  BY <1>1, <1>2 DEF phaseOf, Finished
<1>4. unacknowledged' = unacknowledged
  BY <1>1 DEF unacknowledged
<1>5. QED
  BY <1>3, <1>4 DEF Shutdown!Close

\* The last wait of WaitLinkTaskFinish ends only when both endpoints have called
\* it and every message of both is acknowledged.
LEMMA FinishMapped ==
  ASSUME MemInv, NEW e \in End, WaitForFlyingAck(e)
  PROVE  Shutdown!Finish(e)
<1> DEFINE p == Peer(e)
<1>1. p \in End /\ Peer(p) = e /\ p # e /\ End = {e, p}
  BY DEF End, Peer
<1>2. /\ acks[e] >= sent[e] /\ fpc[e] = "waitack"
      /\ fpc' = [fpc EXCEPT ![e] = "done"] /\ UNCHANGED <<pushed, acks>>
  BY DEF WaitForFlyingAck, Advance
<1>3. Quiet(e) /\ unread[e] = 0 /\ rfin[e]
  BY <1>2 DEF MemInv, QuietInv, FinInv
<1>4. fpc[p] \notin {"run", "stop", "fin"} /\ Quiet(p) /\ unread[p] = 0
  <2>1. fpc[p] \notin {"run", "stop", "fin"}
    BY <1>3 DEF MemInv, FinInv
  <2>2. QED
    BY <1>1, <2>1 DEF MemInv, QuietInv
<1>5. \A f \in {e, p} : /\ Cardinality(AutoAcking(f)) = 0
                        /\ Cardinality(Uncounted(f)) = 0
                        /\ Cardinality(Acking(f)) = 0
                        /\ Pending(f) = 0
  BY <1>1, <1>2, <1>3, <1>4, QuietCounts DEF Pending
<1>6. pushed[e] = acks[e] /\ pushed[p] = acks[p]
  <2>1. Counted(e) /\ Counted(p)
    BY BothCounted DEF MemInv
  <2>2. \A f \in {e, p} : rcvd[f] \in Nat /\ pushed[f] \in Nat /\ acks[f] \in Nat
    BY <1>1 DEF MemInv, TypeOK
  <2>3. rcvd[e] = 0 + 0 + 0 + acks[p] /\ rcvd[p] = 0 + 0 + 0 + acks[e]
    BY <1>1, <1>5, <2>1 DEF Counted
  <2>4. rcvd[p] = pushed[e] /\ rcvd[e] = pushed[p]
    BY <1>1, <2>1 DEF Counted
  <2>5. QED
    BY <2>2, <2>3, <2>4
<1>7. unacknowledged[e] = 0 /\ unacknowledged[p] = 0 /\ unacknowledged' = unacknowledged
  <2>1. pushed[e] - acks[e] = 0 /\ pushed[p] - acks[p] = 0
    BY <1>1, <1>6 DEF MemInv, TypeOK
  <2>2. QED
    BY <1>1, <1>2, <2>1 DEF unacknowledged
<1>8. /\ phaseOf' = [phaseOf EXCEPT ![e] = "finished"]
      /\ phaseOf[e] = "closing" /\ phaseOf[p] # "open"
  <2>1. fpc \in [End -> FinishState]
    BY DEF MemInv, TypeOK
  <2>2. QED
    BY <1>1, <1>2, <1>4, <2>1 DEF phaseOf, Finished
<1>9. Shutdown!Peer(e) = p /\ Shutdown!End = {e, p}
  BY <1>1 DEF Shutdown!Peer, Shutdown!End, Peer, End
<1>10. QED
  BY <1>7, <1>8, <1>9 DEF Shutdown!Finish

\* Every step of the channel is a step of LinkShutdown or leaves it unchanged.
LEMMA StepMapped ==
  ASSUME MemInv, [Next]_vars
  PROVE  [Shutdown!Next]_(Shutdown!vars)
<1>e. /\ \A e \in End : e \in Shutdown!End /\ Peer(e) \in Shutdown!End
      /\ TypeOK
  BY DEF Shutdown!End, End, Peer, MemInv
<1>1. CASE UNCHANGED vars \/ Terminating
  BY <1>1, StutterStep DEF vars, Terminating
<1>2. ASSUME NEW e \in End, NEW t \in Thread, Application(e, t) \/ ThreadStep(e, t)
      PROVE  Shutdown!Next \/ UNCHANGED Shutdown!vars
  <2>1. CASE Send(e, t)
    BY <1>e, <2>1, SubmitStep DEF Shutdown!Next
  <2>2. CASE Recv(e, t) \/ CountSent(e, t)
    <3>1. UNCHANGED <<fpc, pushed, acks>>
      BY <2>2 DEF Recv, CountSent
    <3>2. QED
      BY <3>1, StutterStep
  <2>3. CASE AutoAck(e, t)
    <3>1. /\ t \in AutoAcking(e) /\ acks' = [acks EXCEPT ![e] = @ + 1]
          /\ UNCHANGED <<pushed, fpc>>
      BY <2>3 DEF AutoAck, OnAck, AutoAcking
    <3>2. Cardinality(AutoAcking(e)) > 0
      BY <3>1, FiniteCounts, CardChange
    <3>3. Peer(e) \in End
      BY PeerFacts
    <3>4. Cardinality(AutoAcking(e)) + Cardinality(Acking(Peer(e)))
            + Pending(Peer(e)) > 0
      BY <1>e, <3>2, <3>3, Numbers
    <3>5. QED
      BY <1>e, <3>1, <3>4, AcknowledgeStep DEF Shutdown!Next
  <2>4. CASE RecvAck(e, t)
    <3>1. /\ t \in Acking(e) /\ acks' = [acks EXCEPT ![Peer(e)] = @ + 1]
          /\ UNCHANGED <<pushed, fpc>>
      BY <2>4 DEF RecvAck, OnAck, Acking
    <3>2. Cardinality(Acking(e)) > 0
      BY <3>1, FiniteCounts, CardChange
    <3>3. Peer(e) \in End /\ Peer(Peer(e)) = e
      BY PeerFacts
    <3>4. Cardinality(AutoAcking(Peer(e))) + Cardinality(Acking(Peer(Peer(e))))
            + Pending(Peer(Peer(e))) > 0
      BY <1>e, <3>2, <3>3, Numbers
    <3>5. Shutdown!Acknowledge(Peer(e))
      BY <3>1, <3>3, <3>4, AcknowledgeStep
    <3>6. QED
      BY <1>e, <3>5 DEF Shutdown!Next
  <2>5. QED
    BY <1>2, <2>1, <2>2, <2>3, <2>4 DEF Application, ThreadStep
<1>3. ASSUME NEW e \in End, FinishStep(e)
      PROVE  Shutdown!Next \/ UNCHANGED Shutdown!vars
  <2>1. CASE StopReceiving(e)
    BY <1>e, <2>1, CloseStep DEF Shutdown!Next
  <2>2. CASE AckUnreadMsg(e)
    <3>1. /\ fpc[e] = "stop" /\ toAck[e] > 0
          /\ acks' = [acks EXCEPT ![Peer(e)] = @ + 1] /\ UNCHANGED <<pushed, fpc>>
      BY <2>2 DEF AckUnreadMsg, OnAck
    <3>3. Peer(e) \in End /\ Peer(Peer(e)) = e
      BY PeerFacts
    <3>2. Pending(Peer(Peer(e))) > 0
      BY <3>1, <3>3 DEF Pending
    <3>4. Cardinality(AutoAcking(Peer(e))) + Cardinality(Acking(Peer(Peer(e))))
            + Pending(Peer(Peer(e))) > 0
      BY <1>e, <3>2, <3>3, Numbers
    <3>5. Shutdown!Acknowledge(Peer(e))
      BY <3>1, <3>3, <3>4, AcknowledgeStep
    <3>6. QED
      BY <1>e, <3>5 DEF Shutdown!Next
  <2>3. CASE WaitForFlyingAck(e)
    BY <1>e, <2>3, FinishMapped DEF Shutdown!Next
  <2>4. CASE \/ ClearUnread(e) \/ SendFin(e) \/ WaitForFin(e)
             \/ WaitForFlyingMsg(e)
    <3>1. PICK from \in {"stop", "fin", "waitfin", "waitmsg"},
               to \in {"fin", "waitfin", "waitmsg", "waitack"} :
            fpc[e] = from /\ fpc' = [fpc EXCEPT ![e] = to]
      BY <2>4 DEF ClearUnread, SendFin, WaitForFin, WaitForFlyingMsg, Advance
    <3>2. UNCHANGED <<pushed, acks>>
      BY <2>4 DEF ClearUnread, SendFin, WaitForFin, WaitForFlyingMsg, Advance
    <3>3. fpc \in [End -> FinishState]
      BY <1>e DEF TypeOK
    <3>4. phaseOf' = phaseOf
      BY <3>1, <3>3 DEF phaseOf, Finished
    <3>5. unacknowledged' = unacknowledged
      BY <3>2 DEF unacknowledged
    <3>6. QED
      BY <3>4, <3>5 DEF Shutdown!vars
  <2>5. QED
    BY <1>3, <2>1, <2>2, <2>3, <2>4 DEF FinishStep
<1>4. QED
  BY <1>1, <1>2, <1>3 DEF Next

\* For any number of threads and messages the in-memory channel implements
\* LinkShutdown: WaitLinkTaskFinish (channel.cc:262-277) returns only when both
\* endpoints have called it and each message of both has been acknowledged.
THEOREM Refinement == Spec => ImplementsShutdown
<1>1. Init => Shutdown!Init
  BY DEF Init, Shutdown!Init, phaseOf, unacknowledged, Finished, Shutdown!End, End
<1>2. MemInv /\ [Next]_vars => [Shutdown!Next]_(Shutdown!vars)
  BY StepMapped
<1>3. QED
  BY <1>1, <1>2, Invariance, PTL DEF Spec, ImplementsShutdown, Shutdown!Spec

=============================================================================
