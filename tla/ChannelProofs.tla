--------------------------- MODULE ChannelProofs ---------------------------
(***************************************************************************)
(* For any number of threads, keys, window sizes and messages.  LossyInv   *)
(* is inductive up to what the RPC layer loses.  With nothing lost it      *)
(* gives PortSafe, OutboxDone, AckOnce and TypeOK, and the channel         *)
(* implements LinkShutdown; with RPCs lost, refused or given up it still   *)
(* gives PortSafe and OutboxDone.  HeldInv gives the bound of the          *)
(* throttle window.                                                        *)
(***************************************************************************)
EXTENDS Channel, FiniteSetTheorems, TLAPS

-----------------------------------------------------------------------------
(* The two endpoints, and counting.                                        *)

\* The other endpoint is the only other one.
LEMMA PeerFacts ==
  \A e \in End : /\ Peer(e) \in End /\ Peer(e) # e /\ Peer(Peer(e)) = e
                 /\ \A f \in End : f = e \/ f = Peer(e)
  BY DEF End, Peer

\* Adding or removing one element of a finite set.
LEMMA CardChange ==
  ASSUME NEW S, IsFiniteSet(S), NEW x
  PROVE  /\ IsFiniteSet(S \cup {x}) /\ IsFiniteSet(S \ {x})
         /\ Cardinality(S) \in Nat
         /\ x \in S => Cardinality(S \ {x}) = Cardinality(S) - 1
         /\ x \in S => Cardinality(S) > 0
         /\ x \notin S => Cardinality(S \cup {x}) = Cardinality(S) + 1
         /\ x \in S => S \cup {x} = S
         /\ x \notin S => S \ {x} = S
<1>1. IsFiniteSet(S \cup {x}) /\ IsFiniteSet(S \ {x}) /\ Cardinality(S) \in Nat
  BY FS_AddElement, FS_RemoveElement, FS_CardinalityType
<1>2. x \in S => Cardinality(S \ {x}) = Cardinality(S) - 1
  BY FS_RemoveElement
<1>3. x \notin S => Cardinality(S \cup {x}) = Cardinality(S) + 1
  BY FS_AddElement
<1>4. x \in S => Cardinality(S) > 0
  BY <1>1, FS_EmptySet
<1>5. QED
  BY <1>1, <1>2, <1>3, <1>4

\* A set T that agrees with S outside x.
LEMMA CardMove ==
  ASSUME NEW S, IsFiniteSet(S), NEW x, NEW T,
         T = S \cup {x} \/ T = S \ {x}
  PROVE  /\ Cardinality(T) \in Nat /\ Cardinality(S) \in Nat
         /\ x \in T /\ x \in S => T = S
         /\ x \notin T /\ x \notin S => T = S
         /\ x \in T /\ x \notin S => Cardinality(T) = Cardinality(S) + 1
         /\ x \notin T /\ x \in S => Cardinality(T) = Cardinality(S) - 1
<1>1. IsFiniteSet(T)
  BY CardChange
<1>2. x \in T /\ x \notin S => T = S \cup {x}
  OBVIOUS
<1>3. x \notin T /\ x \in S => T = S \ {x}
  OBVIOUS
<1>4. x \in T /\ x \notin S => Cardinality(T) = Cardinality(S) + 1
  BY <1>2, CardChange
<1>5. x \notin T /\ x \in S => Cardinality(T) = Cardinality(S) - 1
  BY <1>3, CardChange
<1>6. Cardinality(T) \in Nat /\ Cardinality(S) \in Nat
  BY <1>1, FS_CardinalityType
<1>7. QED
  BY <1>4, <1>5, <1>6

\* The subsets that the invariant counts are finite.
LEMMA FiniteCounts ==
  ASSUME TypeOK, NEW e \in End
  PROVE  /\ IsFiniteSet(Acking(e)) /\ Cardinality(Acking(e)) \in Nat
         /\ IsFiniteSet(Uncounted(e)) /\ Cardinality(Uncounted(e)) \in Nat
<1>1. Acking(e) \in SUBSET Thread /\ Uncounted(e) \in SUBSET Thread
  BY DEF Acking, Uncounted
<1>2. QED
  BY <1>1, ChannelAssumption, FS_Subset, FS_CardinalityType

\* The sets of messages in flight and in msg_db_ are finite.
LEMMA FiniteMessages ==
  ASSUME NEW lm \in [End -> Nat], NEW ls \in [End -> Nat],
         NEW la \in [End -> Nat], LossyInv(lm, ls, la),
         NEW e \in End
  PROVE  /\ IsFiniteSet(net[e]) /\ Cardinality(net[e]) \in Nat
         /\ IsFiniteSet(db[e]) /\ Cardinality(db[e]) \in Nat
         /\ IsFiniteSet(AsyncIn(e)) /\ Cardinality(AsyncIn(e)) \in Nat
         /\ IsFiniteSet(finNet[e]) /\ Cardinality(finNet[e]) \in Nat
<1>1. IsFiniteSet(net[e]) /\ IsFiniteSet(db[e])
  BY DEF LossyInv, FlightInv
<1>2. AsyncIn(e) \in SUBSET net[e]
  BY DEF AsyncIn
<1>3. finNet[e] \in SUBSET {sent[Peer(e)]}
  BY DEF LossyInv, FinInv
<1>4. IsFiniteSet({sent[Peer(e)]})
  BY FS_Singleton
<1>5. IsFiniteSet(finNet[e]) /\ IsFiniteSet(AsyncIn(e))
  BY <1>1, <1>2, <1>3, <1>4, FS_Subset
<1>6. QED
  BY <1>1, <1>5, FS_CardinalityType

\* What a thread's move does to the two counts of its endpoint.
LEMMA GotoCounts ==
  ASSUME TypeOK, NEW e \in End, NEW t \in Thread, NEW s \in ThreadState,
         Goto(e, t, s)
  PROVE  /\ pc' \in [End -> [Thread -> ThreadState]]
         /\ \A f \in End \ {e} : /\ pc'[f] = pc[f]
                                 /\ Acking(f)' = Acking(f)
                                 /\ Uncounted(f)' = Uncounted(f)
         /\ pc'[e][t] = s /\ \A u \in Thread \ {t} : pc'[e][u] = pc[e][u]
         /\ Cardinality(Acking(e)') =
              CASE s = "ack" /\ pc[e][t] # "ack" -> Cardinality(Acking(e)) + 1
                [] s # "ack" /\ pc[e][t] = "ack" -> Cardinality(Acking(e)) - 1
                [] OTHER -> Cardinality(Acking(e))
         /\ LET in == s \in {"rpc", "count"}
                was == pc[e][t] \in {"rpc", "count"}
            IN  Cardinality(Uncounted(e)') =
                  CASE in /\ ~was -> Cardinality(Uncounted(e)) + 1
                    [] ~in /\ was -> Cardinality(Uncounted(e)) - 1
                    [] OTHER -> Cardinality(Uncounted(e))
<1>1. pc' = [pc EXCEPT ![e][t] = s] /\ pc \in [End -> [Thread -> ThreadState]]
  BY DEF Goto, TypeOK
<1>2. pc' \in [End -> [Thread -> ThreadState]] /\ \A f \in End \ {e} : pc'[f] = pc[f]
  BY <1>1
<1>3. pc'[e][t] = s /\ \A u \in Thread \ {t} : pc'[e][u] = pc[e][u]
  BY <1>1
<1>4. \A f \in End \ {e} : Acking(f)' = Acking(f) /\ Uncounted(f)' = Uncounted(f)
  BY <1>2 DEF Acking, Uncounted
<1>5. IsFiniteSet(Acking(e)) /\ IsFiniteSet(Uncounted(e))
  BY FiniteCounts
<1>6. /\ t \in Acking(e)' <=> s = "ack"
      /\ t \in Acking(e) <=> pc[e][t] = "ack"
      /\ Acking(e)' = Acking(e) \cup {t} \/ Acking(e)' = Acking(e) \ {t}
  BY <1>3 DEF Acking
<1>7. /\ t \in Uncounted(e)' <=> s \in {"rpc", "count"}
      /\ t \in Uncounted(e) <=> pc[e][t] \in {"rpc", "count"}
      /\ Uncounted(e)' = Uncounted(e) \cup {t} \/ Uncounted(e)' = Uncounted(e) \ {t}
  BY <1>3 DEF Uncounted
<1>8. /\ t \in Acking(e)' /\ t \in Acking(e) => Acking(e)' = Acking(e)
      /\ t \notin Acking(e)' /\ t \notin Acking(e) => Acking(e)' = Acking(e)
      /\ t \in Acking(e)' /\ t \notin Acking(e) =>
           Cardinality(Acking(e)') = Cardinality(Acking(e)) + 1
      /\ t \notin Acking(e)' /\ t \in Acking(e) =>
           Cardinality(Acking(e)') = Cardinality(Acking(e)) - 1
  BY <1>5, <1>6, CardMove
<1>9. /\ t \in Uncounted(e)' /\ t \in Uncounted(e) => Uncounted(e)' = Uncounted(e)
      /\ t \notin Uncounted(e)' /\ t \notin Uncounted(e) =>
           Uncounted(e)' = Uncounted(e)
      /\ t \in Uncounted(e)' /\ t \notin Uncounted(e) =>
           Cardinality(Uncounted(e)') = Cardinality(Uncounted(e)) + 1
      /\ t \notin Uncounted(e)' /\ t \in Uncounted(e) =>
           Cardinality(Uncounted(e)') = Cardinality(Uncounted(e)) - 1
  BY <1>5, <1>7, CardMove
<1>10. QED
  BY <1>2, <1>3, <1>4, <1>6, <1>7, <1>8, <1>9

-----------------------------------------------------------------------------
(* Every action preserves the invariant.                                   *)

\* The counts that an action leaves alone.
LEMMA SameCounts ==
  ASSUME NEW e \in End
  PROVE  /\ UNCHANGED pc => UNCHANGED <<Acking(e), Uncounted(e)>>
         /\ UNCHANGED net => UNCHANGED AsyncIn(e)
  BY DEF Acking, Uncounted, AsyncIn

\* ThrottleWindowWait, whether it returns or throws, preserves the invariant.
LEMMA ThrottleStep ==
  ASSUME NEW lm \in [End -> Nat], NEW ls \in [End -> Nat],
         NEW la \in [End -> Nat], LossyInv(lm, ls, la),
         NEW e \in End, NEW t \in Thread,
         ThrottleWindowWait(e, t) \/ ThrottleTimeout(e, t)
  PROVE  LossyInv(lm, ls, la)'
<1>0. PICK s \in {"idle", "failed"} : Goto(e, t, s)
  BY DEF ThrottleWindowWait, ThrottleTimeout
<1>u. /\ pc[e][t] = "throttle"
      /\ UNCHANGED <<countVars, confVars, finVars, wcount, netVars, db, pushed,
                     faults>>
  BY DEF ThrottleWindowWait, ThrottleTimeout
<1>1. TypeOK
  BY DEF LossyInv
<1>2. s \in ThreadState
  BY DEF ThreadState
<1>3. /\ pc' \in [End -> [Thread -> ThreadState]]
      /\ \A f \in End : /\ UNCHANGED Cardinality(Acking(f))
                        /\ UNCHANGED Cardinality(Uncounted(f))
      /\ \A f \in End, u \in Thread : f # e \/ u # t => pc'[f][u] = pc[f][u]
      /\ pc'[e][t] = s
  BY <1>0, <1>u, <1>1, <1>2, GotoCounts
<1>4. TypeOK'
  BY <1>1, <1>u, <1>3 DEF TypeOK, countVars, confVars, finVars, netVars
<1>5. FlightInv'
  BY <1>u, PeerFacts DEF LossyInv, FlightInv, netVars
<1>s. SyncInv'
  <2> SUFFICES ASSUME NEW f \in End, NEW m \in net'[f], m.rpc \in Thread
               PROVE  pc'[Peer(f)][m.rpc] = "rpc"
    BY <1>u DEF LossyInv, SyncInv, netVars
  <2>1. pc[Peer(f)][m.rpc] = "rpc"
    BY <1>u DEF LossyInv, SyncInv, netVars
  <2>2. QED
    BY <2>1, <1>u, <1>3, PeerFacts
<1>6. PushInv(lm, ls)' /\ AckInv(la)' /\ RunningInv'
  BY <1>u, <1>3, PeerFacts DEF LossyInv, PushInv, AckInv, RunningInv, countVars, netVars, AsyncIn
<1>7. QuietInv'
  BY <1>u, <1>3, PeerFacts DEF LossyInv, QuietInv, Quiet, confVars, finVars
<1>8. FinInv' /\ WaitInv'
  BY <1>u, <1>3, PeerFacts DEF LossyInv, FinInv, WaitInv, countVars, finVars, netVars
<1>9. QED
  BY <1>4, <1>5, <1>s, <1>6, <1>7, <1>8 DEF LossyInv

\* Counting a message that has left (fetch_add on sent_msg_count_).
LEMMA CountSentStep ==
  ASSUME NEW lm \in [End -> Nat], NEW ls \in [End -> Nat],
         NEW la \in [End -> Nat], LossyInv(lm, ls, la),
         NEW e \in End, NEW t \in Thread, CountSent(e, t)
  PROVE  LossyInv(lm, ls, la)'
<1>u. /\ pc[e][t] = "count" /\ Goto(e, t, "throttle")
      /\ sent' = [sent EXCEPT ![e] = @ + 1]
      /\ wcount' = [wcount EXCEPT ![e][t] = sent[e] + 1]
      /\ UNCHANGED <<rcvd, acks, running, confVars, finVars, netVars, db, pushed,
                     faults>>
  BY DEF CountSent
<1>1. TypeOK
  BY DEF LossyInv
<1>2. "throttle" \in ThreadState
  BY DEF ThreadState
<1>3. /\ pc' \in [End -> [Thread -> ThreadState]]
      /\ \A f \in End : UNCHANGED Cardinality(Acking(f))
      /\ \A f \in End \ {e} : UNCHANGED Cardinality(Uncounted(f))
      /\ Cardinality(Uncounted(e)') = Cardinality(Uncounted(e)) - 1
      /\ \A f \in End, u \in Thread : f # e \/ u # t => pc'[f][u] = pc[f][u]
  <2>1. Goto(e, t, "throttle")
    BY <1>u
  <2>2. /\ pc' \in [End -> [Thread -> ThreadState]]
        /\ \A f \in End \ {e} : /\ pc'[f] = pc[f]
                                /\ Acking(f)' = Acking(f)
                                /\ Uncounted(f)' = Uncounted(f)
        /\ \A u \in Thread \ {t} : pc'[e][u] = pc[e][u]
    BY <2>1, <1>1, <1>2, GotoCounts
  <2>3. Cardinality(Acking(e)') = Cardinality(Acking(e))
    BY <2>1, <1>u, <1>1, <1>2, GotoCounts
  <2>4. Cardinality(Uncounted(e)') = Cardinality(Uncounted(e)) - 1
    BY <2>1, <1>u, <1>1, <1>2, GotoCounts
  <2>5. QED
    BY <2>2, <2>3, <2>4
<1>t. /\ sent \in [End -> Nat] /\ wcount \in [End -> [Thread -> Nat]]
      /\ pushed \in [End -> Nat] /\ rcvd \in [End -> Nat]
  BY <1>1 DEF TypeOK
<1>v. /\ sent' \in [End -> Nat] /\ wcount' \in [End -> [Thread -> Nat]]
      /\ sent'[e] = sent[e] + 1 /\ \A f \in End \ {e} : sent'[f] = sent[f]
  BY <1>u, <1>t
<1>4. TypeOK'
  BY <1>1, <1>u, <1>v, <1>3 DEF TypeOK, confVars, finVars, netVars
<1>5. FlightInv'
  BY <1>u, PeerFacts DEF LossyInv, FlightInv, netVars
<1>6. SyncInv'
  <2> SUFFICES ASSUME NEW f \in End, NEW m \in net'[f], m.rpc \in Thread
               PROVE  pc'[Peer(f)][m.rpc] = "rpc"
    BY <1>u DEF LossyInv, SyncInv, netVars
  <2>1. pc[Peer(f)][m.rpc] = "rpc"
    BY <1>u DEF LossyInv, SyncInv, netVars
  <2>2. QED
    BY <2>1, <1>u, <1>3, PeerFacts
<1>7. \A f \in End : Cardinality(Uncounted(f)) \in Nat
  BY <1>1, FiniteCounts
<1>8. PushInv(lm, ls)'
  <2> SUFFICES ASSUME NEW f \in End
               PROVE  /\ pushed[Peer(f)] = Cardinality(net[f]) + rcvd[f] + lm[f]
                      /\ pushed[f] = sent'[f] + Cardinality(Uncounted(f)') + ls[f]
    BY <1>u DEF PushInv, LossyInv, netVars
  <2>1. /\ pushed[Peer(f)] = Cardinality(net[f]) + rcvd[f] + lm[f]
        /\ pushed[f] = sent[f] + Cardinality(Uncounted(f)) + ls[f]
    BY DEF LossyInv, PushInv
  <2>2. CASE f = e
    BY <2>1, <2>2, <1>t, <1>v, <1>3, <1>7
  <2>3. CASE f # e
    BY <2>1, <2>3, <1>t, <1>v, <1>3, <1>7
  <2>4. QED
    BY <2>2, <2>3
<1>9. AckInv(la)' /\ RunningInv'
  BY <1>u, <1>3, PeerFacts DEF LossyInv, AckInv, RunningInv, netVars, AsyncIn
<1>10. fpc[e] = "run"
  BY <1>u DEF LossyInv, QuietInv, Quiet
<1>11. QuietInv'
  BY <1>u, <1>3, <1>10 DEF LossyInv, QuietInv, Quiet, confVars, finVars
<1>12. FinInv'
  <2> SUFFICES ASSUME NEW f \in End
               PROVE  /\ finNet[f] \subseteq {sent'[Peer(f)]}
                      /\ fpc[Peer(f)] \in {"run", "fin"} => finNet[f] = {} /\ ~rfin[f]
                      /\ rfin[f] => finNet[f] = {} /\ peerSent[f] = sent'[Peer(f)]
    BY <1>u DEF FinInv, finVars, netVars
  <2>1. CASE Peer(f) = e
    BY <2>1, <1>10 DEF LossyInv, FinInv
  <2>2. CASE Peer(f) # e
    <3>1. sent'[Peer(f)] = sent[Peer(f)]
      BY <2>2, <1>v, PeerFacts
    <3>2. QED
      BY <3>1 DEF LossyInv, FinInv
  <2>3. QED
    BY <2>1, <2>2
<1>13. WaitInv'
  BY <1>u, <1>v, <1>10 DEF LossyInv, WaitInv, finVars, netVars
<1>14. QED
  BY <1>4, <1>5, <1>6, <1>8, <1>9, <1>11, <1>12, <1>13 DEF LossyInv

\* Fields of a message.
LEMMA MsgFields ==
  ASSUME NEW i \in Nat, NEW k \in Key, NEW r \in Thread \cup {Async, Orphan}
  PROVE  LET m == [id |-> i, key |-> k, rpc |-> r]
         IN  m \in Msg /\ m.id = i /\ m.key = k /\ m.rpc = r
  BY DEF Msg

\* What handing a message to the RPC layer does to the messages in flight.
LEMMA PushCounts ==
  ASSUME NEW lm \in [End -> Nat], NEW ls \in [End -> Nat],
         NEW la \in [End -> Nat], LossyInv(lm, ls, la),
         NEW e \in End, NEW k \in Key, NEW r \in Thread \cup {Async},
         Push(e, k, r)
  PROVE  LET p == Peer(e)
         IN  /\ pushed' = [pushed EXCEPT ![e] = @ + 1]
             /\ pushed' \in [End -> Nat]
             /\ net' \in [End -> SUBSET Msg]
             /\ net'[e] = net[e] /\ AsyncIn(e)' = AsyncIn(e)
             /\ Cardinality(net'[p]) = Cardinality(net[p]) + 1
             /\ Cardinality(AsyncIn(p)') =
                  IF r = Async THEN Cardinality(AsyncIn(p)) + 1
                               ELSE Cardinality(AsyncIn(p))
             /\ \E m \in Msg : /\ m.rpc = r /\ m.id = pushed[e] + 1
                               /\ net'[p] = net[p] \cup {m}
<1> DEFINE p == Peer(e)
           m == [id |-> pushed[e] + 1, key |-> k, rpc |-> r]
<1>1. p \in End /\ p # e /\ Peer(p) = e
  BY PeerFacts
<1>2. /\ pushed' = [pushed EXCEPT ![e] = @ + 1]
      /\ net' = [net EXCEPT ![p] = @ \cup {m}]
  BY DEF Push
<1>3. pushed \in [End -> Nat] /\ net \in [End -> SUBSET Msg]
  BY DEF LossyInv, TypeOK
<1>4. m \in Msg /\ m.id = pushed[e] + 1 /\ m.rpc = r
  BY <1>3, MsgFields
<1>5. m \notin net[p]
  BY <1>1, <1>3, <1>4 DEF LossyInv, FlightInv
<1> HIDE DEF m
<1>6. net'[p] = net[p] \cup {m} /\ net'[e] = net[e] /\ net' \in [End -> SUBSET Msg]
  BY <1>1, <1>2, <1>3, <1>4
<1>7. AsyncIn(e)' = AsyncIn(e)
  BY <1>6 DEF AsyncIn
<1>8. AsyncIn(p)' = IF r = Async THEN AsyncIn(p) \cup {m} ELSE AsyncIn(p)
  BY <1>6, <1>4 DEF AsyncIn
<1>9. m \notin AsyncIn(p)
  BY <1>5 DEF AsyncIn
<1>10. IsFiniteSet(net[p]) /\ IsFiniteSet(AsyncIn(p))
  BY <1>1, FiniteMessages
<1>11. Cardinality(net'[p]) = Cardinality(net[p]) + 1
  BY <1>5, <1>6, <1>10, CardChange
<1>12. Cardinality(AsyncIn(p)') = IF r = Async THEN Cardinality(AsyncIn(p)) + 1
                                              ELSE Cardinality(AsyncIn(p))
  <2>1. CASE r = Async
    BY <2>1, <1>8, <1>9, <1>10, CardChange
  <2>2. CASE r # Async
    BY <2>2, <1>8
  <2>3. QED
    BY <2>1, <2>2
<1>13. pushed' \in [End -> Nat]
  BY <1>2, <1>3
<1>14. QED
  BY <1>2, <1>4, <1>6, <1>7, <1>11, <1>12, <1>13

\* SendAsync and Send hand a message to the RPC layer.
LEMMA SendStep ==
  ASSUME NEW lm \in [End -> Nat], NEW ls \in [End -> Nat],
         NEW la \in [End -> Nat], LossyInv(lm, ls, la),
         NEW e \in End, NEW t \in Thread, NEW k \in Key,
         SendAsync(e, t, k) \/ Send(e, t, k)
  PROVE  LossyInv(lm, ls, la)'
<1> DEFINE p == Peer(e)
<1>0. PICK r \in {t, Async}, s \in {"rpc", "count"} :
        /\ Push(e, k, r) /\ Goto(e, t, s)
        /\ \/ r = Async /\ s = "count" /\ running' = [running EXCEPT ![e] = @ + 1]
           \/ r = t /\ s = "rpc" /\ running' = running
  BY DEF SendAsync, Send, countVars
<1>u. /\ fpc[e] = "run" /\ pc[e][t] = "idle"
      /\ UNCHANGED <<sent, rcvd, acks, confVars, finVars, wcount, ackNet, finNet,
                     resp, orphans, db, faults>>
  BY DEF SendAsync, Send, countVars
<1>a. t # Async /\ t # Orphan
  BY ChannelAssumption
<1>1. TypeOK
  BY DEF LossyInv
<1>2. s \in ThreadState /\ p \in End /\ p # e /\ Peer(p) = e
      /\ \A f \in End : f = e \/ f = p
  BY PeerFacts DEF ThreadState
<1>3. /\ pc' \in [End -> [Thread -> ThreadState]]
      /\ \A f \in End : Cardinality(Acking(f)') = Cardinality(Acking(f))
      /\ Cardinality(Uncounted(p)') = Cardinality(Uncounted(p))
      /\ Cardinality(Uncounted(e)') = Cardinality(Uncounted(e)) + 1
      /\ pc'[p] = pc[p]
      /\ pc'[e][t] = s
      /\ \A v \in Thread \ {t} : pc'[e][v] = pc[e][v]
  BY <1>0, <1>u, <1>1, <1>2, GotoCounts
<1>4. /\ pushed' = [pushed EXCEPT ![e] = @ + 1]
      /\ pushed' \in [End -> Nat]
      /\ net' \in [End -> SUBSET Msg]
      /\ net'[e] = net[e] /\ AsyncIn(e)' = AsyncIn(e)
      /\ Cardinality(net'[p]) = Cardinality(net[p]) + 1
      /\ Cardinality(AsyncIn(p)') =
           IF r = Async THEN Cardinality(AsyncIn(p)) + 1
                        ELSE Cardinality(AsyncIn(p))
      /\ \E m \in Msg : /\ m.rpc = r /\ m.id = pushed[e] + 1
                        /\ net'[p] = net[p] \cup {m}
  BY <1>0, PushCounts
<1>5. PICK m \in Msg : /\ m.rpc = r /\ m.id = pushed[e] + 1
                       /\ net'[p] = net[p] \cup {m}
  BY <1>4
<1>6. /\ sent \in [End -> Nat] /\ rcvd \in [End -> Nat] /\ pushed \in [End -> Nat]
      /\ running \in [End -> Nat] /\ ackNet \in [End -> Nat] /\ resp \in [End -> Nat] /\ orphans \in [End -> Nat]
  BY <1>1 DEF TypeOK
<1>7. /\ pushed'[e] = pushed[e] + 1 /\ pushed'[p] = pushed[p]
      /\ running' \in [End -> Nat] /\ running'[p] = running[p]
      /\ running'[e] = IF r = Async THEN running[e] + 1 ELSE running[e]
  BY <1>0, <1>2, <1>4, <1>6, <1>a
<1>8. \A f \in End : /\ Cardinality(net[f]) \in Nat
                     /\ IsFiniteSet(net[f])
                     /\ Cardinality(AsyncIn(f)) \in Nat
                     /\ Cardinality(finNet[f]) \in Nat
                     /\ Cardinality(Uncounted(f)) \in Nat
  BY <1>1, FiniteMessages, FiniteCounts
<1> HIDE DEF p
<1>9. TypeOK'
  BY <1>1, <1>u, <1>3, <1>4, <1>7 DEF TypeOK, confVars, finVars
<1>10. FlightInv'
  <2>a. IsFiniteSet(net[e]) /\ IsFiniteSet(net[p])
    BY <1>2, <1>8
  <2>b. IsFiniteSet(net[p] \cup {m})
    BY <2>a, CardChange
  <2>1. IsFiniteSet(net'[e]) /\ IsFiniteSet(net'[p])
    BY <2>a, <2>b, <1>4, <1>5
  <2>2. \A n \in net'[e] : n.id <= pushed'[Peer(e)]
    BY <1>2, <1>4, <1>7 DEF LossyInv, FlightInv, p
  <2>3. \A n \in net[p] : n.id <= pushed[e] /\ n.id \in Nat
    BY <1>1, <1>2 DEF LossyInv, FlightInv, TypeOK, Msg
  <2>4. \A n \in net'[p] : n.id <= pushed'[e]
    BY <2>3, <1>2, <1>5, <1>6, <1>7
  <2>5. \A f \in End : IsFiniteSet(db[f])
    BY DEF LossyInv, FlightInv
  <2>6. QED
    BY <2>1, <2>2, <2>4, <2>5, <1>2, <1>u DEF FlightInv
<1>11. SyncInv'
  <2>1. \A n \in net[p] : n.rpc # Orphan /\ n.rpc # t
    BY <1>2, <1>u DEF LossyInv, SyncInv
  <2>2. \A n \in net'[p] : n.rpc # Orphan
    BY <2>1, <1>5, <1>a DEF Async, Orphan
  <2>3. \A n \in net'[p] : n.rpc \in Thread => pc'[e][n.rpc] = "rpc"
    <3> SUFFICES ASSUME NEW n \in net'[p], n.rpc \in Thread
                 PROVE  pc'[e][n.rpc] = "rpc"
      OBVIOUS
    <3>1. CASE n \in net[p]
      <4>1. pc[e][n.rpc] = "rpc" /\ n.rpc # t
        BY <3>1, <2>1, <1>2 DEF LossyInv, SyncInv
      <4>2. QED
        BY <4>1, <1>3
    <3>2. CASE n = m
      BY <3>2, <1>0, <1>3, <1>5, ChannelAssumption
    <3>3. QED
      BY <3>1, <3>2, <1>5
  <2>4. \A n, o \in net'[p] : n.rpc \in Thread /\ n.rpc = o.rpc => n = o
    BY <2>1, <1>2, <1>5, ChannelAssumption DEF LossyInv, SyncInv
  <2>5. \A n \in net'[e] : /\ n.rpc # Orphan
                           /\ n.rpc \in Thread => pc'[p][n.rpc] = "rpc"
    BY <1>3, <1>4 DEF LossyInv, SyncInv, p
  <2>6. \A n, o \in net'[e] : n.rpc \in Thread /\ n.rpc = o.rpc => n = o
    BY <1>4 DEF LossyInv, SyncInv
  <2>7. QED
    BY <2>2, <2>3, <2>4, <2>5, <2>6, <1>2, PeerFacts DEF SyncInv, p
<1>12. PushInv(lm, ls)'
  <2>1. /\ pushed[p] = Cardinality(net[e]) + rcvd[e] + lm[e]
        /\ pushed[e] = sent[e] + Cardinality(Uncounted(e)) + ls[e]
        /\ pushed[e] = Cardinality(net[p]) + rcvd[p] + lm[p]
        /\ pushed[p] = sent[p] + Cardinality(Uncounted(p)) + ls[p]
    BY <1>2 DEF LossyInv, PushInv, p
  <2>2. /\ pushed'[p] = Cardinality(net'[e]) + rcvd'[e] + lm[e]
        /\ pushed'[e] = sent'[e] + Cardinality(Uncounted(e)') + ls[e]
    BY <2>1, <1>u, <1>2, <1>3, <1>4, <1>6, <1>7, <1>8
  <2>3. /\ pushed'[e] = Cardinality(net'[p]) + rcvd'[p] + lm[p]
        /\ pushed'[p] = sent'[p] + Cardinality(Uncounted(p)') + ls[p]
    BY <2>1, <1>u, <1>2, <1>3, <1>4, <1>6, <1>7, <1>8
  <2>4. QED
    BY <2>2, <2>3, <1>2 DEF LossyInv, PushInv, p
<1>13. AckInv(la)'
  BY <1>u, <1>3 DEF LossyInv, AckInv
<1>14. RunningInv'
  <2>1. /\ running[e] + orphans[e] = Cardinality(AsyncIn(p)) + ackNet[p]
                          + Cardinality(finNet[p]) + resp[e] /\ resp[e] <= running[e]
        /\ running[p] + orphans[p] = Cardinality(AsyncIn(e)) + ackNet[e]
                          + Cardinality(finNet[e]) + resp[p] /\ resp[p] <= running[p]
    BY <1>2 DEF LossyInv, RunningInv, p
  <2>2. running'[e] + orphans[e] = Cardinality(AsyncIn(p)') + ackNet[p]
                        + Cardinality(finNet[p]) + resp[e] /\ resp[e] <= running'[e]
    BY <2>1, <1>2, <1>4, <1>6, <1>7, <1>8
  <2>3. running'[p] + orphans[p] = Cardinality(AsyncIn(e)') + ackNet[e]
                        + Cardinality(finNet[e]) + resp[p] /\ resp[p] <= running'[p]
    BY <2>1, <1>2, <1>4, <1>6, <1>7, <1>8
  <2>4. QED
    BY <2>2, <2>3, <1>2, <1>u DEF RunningInv, p
<1>15. QuietInv'
  <2>1. \A f \in End : fpc[f] # "run" => f = p
    BY <1>2, <1>u
  <2>2. QED
    BY <2>1, <1>u, <1>3 DEF LossyInv, QuietInv, Quiet, confVars, finVars
<1>16. FinInv' /\ WaitInv'
  <2>1. FinInv'
    BY <1>u DEF LossyInv, FinInv, finVars
  <2>2. ~rfin[p]
    BY <1>2, <1>u DEF LossyInv, FinInv
  <2>3. \A f \in End : fpc[f] \in {"waitmsg", "waitasync", "waitack", "done", "closed"}
                         => FALSE
    BY <2>2, <1>2, <1>u DEF LossyInv, WaitInv
  <2>4. WaitInv'
    BY <2>3, <1>u DEF WaitInv, finVars
  <2>5. QED
    BY <2>1, <2>4
<1>17. QED
  BY <1>9, <1>10, <1>11, <1>12, <1>13, <1>14, <1>15, <1>16 DEF LossyInv

\* Recv takes a message out of msg_db_.
LEMMA RecvStep ==
  ASSUME NEW lm \in [End -> Nat], NEW ls \in [End -> Nat],
         NEW la \in [End -> Nat], LossyInv(lm, ls, la),
         NEW e \in End, NEW t \in Thread, NEW m \in db[e], Recv(e, t, m)
  PROVE  LossyInv(lm, ls, la)'
<1> DEFINE p == Peer(e)
<1>u. /\ fpc[e] = "run" /\ pc[e][t] = "idle" /\ Goto(e, t, "ack")
      /\ db' = [db EXCEPT ![e] = @ \ {m}]
      /\ UNCHANGED <<countVars, confVars, finVars, wcount, netVars, pushed, faults>>
  BY DEF Recv
<1>1. TypeOK
  BY DEF LossyInv
<1>2. "ack" \in ThreadState /\ p \in End /\ p # e /\ Peer(p) = e
      /\ \A f \in End : f = e \/ f = p
  BY PeerFacts DEF ThreadState
<1>3. /\ pc' \in [End -> [Thread -> ThreadState]]
      /\ Cardinality(Acking(p)') = Cardinality(Acking(p))
      /\ Cardinality(Acking(e)') = Cardinality(Acking(e)) + 1
      /\ \A f \in End : Cardinality(Uncounted(f)') = Cardinality(Uncounted(f))
      /\ pc'[p] = pc[p]
      /\ \A v \in Thread \ {t} : pc'[e][v] = pc[e][v]
  <2>1. Goto(e, t, "ack") /\ pc[e][t] = "idle" /\ "ack" \in ThreadState
    BY <1>u, <1>2
  <2>2. /\ pc' \in [End -> [Thread -> ThreadState]]
        /\ \A f \in End \ {e} : /\ pc'[f] = pc[f]
                                /\ Acking(f)' = Acking(f)
                                /\ Uncounted(f)' = Uncounted(f)
        /\ \A v \in Thread \ {t} : pc'[e][v] = pc[e][v]
    BY <2>1, <1>1, GotoCounts
  <2>3. Cardinality(Acking(e)') = Cardinality(Acking(e)) + 1
    BY <2>1, <1>1, GotoCounts
  <2>4. Cardinality(Uncounted(e)') = Cardinality(Uncounted(e))
    BY <2>1, <1>1, GotoCounts
  <2>5. QED
    BY <2>2, <2>3, <2>4, <1>2
<1>4. db \in [End -> SUBSET Msg] /\ IsFiniteSet(db[e])
  BY <1>1, FiniteMessages DEF TypeOK
<1>5. /\ db' \in [End -> SUBSET Msg]
      /\ db'[p] = db[p] /\ db'[e] = db[e] \ {m}
  BY <1>u, <1>2, <1>4
<1>6. /\ IsFiniteSet(db'[e]) /\ Cardinality(db'[e]) = Cardinality(db[e]) - 1
      /\ Cardinality(db[e]) \in Nat /\ Cardinality(Acking(e)) \in Nat
  <2>1. /\ IsFiniteSet(db[e] \ {m}) /\ Cardinality(db[e]) \in Nat
        /\ Cardinality(db[e] \ {m}) = Cardinality(db[e]) - 1
    BY <1>4, CardChange
  <2>2. Cardinality(Acking(e)) \in Nat
    BY <1>1, FiniteCounts
  <2>3. QED
    BY <2>1, <2>2, <1>5
<1> HIDE DEF p
<1>7. TypeOK'
  BY <1>1, <1>u, <1>3, <1>5 DEF TypeOK, countVars, confVars, finVars, netVars
<1>8. FlightInv'
  BY <1>2, <1>u, <1>5, <1>6 DEF LossyInv, FlightInv, netVars
<1>9. SyncInv'
  <2> SUFFICES ASSUME NEW f \in End, NEW n \in net'[f], n.rpc \in Thread
               PROVE  pc'[Peer(f)][n.rpc] = "rpc"
    BY <1>u DEF LossyInv, SyncInv, netVars
  <2>1. pc[Peer(f)][n.rpc] = "rpc"
    BY <1>u DEF LossyInv, SyncInv, netVars
  <2>2. QED
    BY <2>1, <1>u, <1>2, <1>3, PeerFacts
<1>10. PushInv(lm, ls)' /\ RunningInv'
  BY <1>u, <1>3 DEF LossyInv, PushInv, RunningInv, AsyncIn, countVars, netVars
<1>11. AckInv(la)'
  <2>1. /\ rcvd[e] = Cardinality(db[e]) + Cardinality(Acking(e)) + ackNet[p] + acks[p] + la[e]
        /\ rcvd[p] = Cardinality(db[p]) + Cardinality(Acking(p)) + ackNet[e] + acks[e] + la[p]
    BY <1>2 DEF LossyInv, AckInv, p
  <2>2. ackNet[p] \in Nat /\ acks[p] \in Nat
    BY <1>1, <1>2 DEF TypeOK
  <2>3. rcvd[e] = Cardinality(db'[e]) + Cardinality(Acking(e)') + ackNet[p] + acks[p] + la[e]
    BY <2>1, <2>2, <1>3, <1>6
  <2>4. rcvd[p] = Cardinality(db'[p]) + Cardinality(Acking(p)') + ackNet[e] + acks[e] + la[p]
    BY <2>1, <1>3, <1>5
  <2>5. QED
    BY <2>3, <2>4, <1>2, <1>u DEF AckInv, p, countVars, netVars
<1>12. QuietInv'
  <2>1. \A f \in End : fpc[f] # "run" => f = p
    BY <1>2, <1>u
  <2>2. QED
    BY <2>1, <1>u, <1>3, <1>5 DEF LossyInv, QuietInv, Quiet, confVars, finVars
<1>13. FinInv' /\ WaitInv'
  BY <1>u DEF LossyInv, FinInv, WaitInv, countVars, finVars, netVars
<1>14. QED
  BY <1>7, <1>8, <1>9, <1>10, <1>11, <1>12, <1>13 DEF LossyInv

\* Recv acknowledges the message it took.
LEMMA RecvAckStep ==
  ASSUME NEW lm \in [End -> Nat], NEW ls \in [End -> Nat],
         NEW la \in [End -> Nat], LossyInv(lm, ls, la),
         NEW e \in End, NEW t \in Thread, RecvAck(e, t)
  PROVE  LossyInv(lm, ls, la)'
<1> DEFINE p == Peer(e)
<1>u. /\ pc[e][t] = "ack" /\ Goto(e, t, "idle")
      /\ ackNet' = [ackNet EXCEPT ![p] = @ + 1]
      /\ running' = [running EXCEPT ![e] = @ + 1]
      /\ UNCHANGED <<sent, rcvd, acks, confVars, finVars, wcount, net, finNet,
                     resp, orphans, db, pushed, faults>>
  BY DEF RecvAck, SendAcks
<1>1. TypeOK
  BY DEF LossyInv
<1>2. "idle" \in ThreadState /\ p \in End /\ p # e /\ Peer(p) = e
      /\ \A f \in End : f = e \/ f = p
  BY PeerFacts DEF ThreadState
<1>3. /\ pc' \in [End -> [Thread -> ThreadState]]
      /\ Cardinality(Acking(p)') = Cardinality(Acking(p))
      /\ Cardinality(Acking(e)') = Cardinality(Acking(e)) - 1
      /\ \A f \in End : Cardinality(Uncounted(f)') = Cardinality(Uncounted(f))
      /\ pc'[p] = pc[p]
      /\ \A v \in Thread \ {t} : pc'[e][v] = pc[e][v]
  <2>1. Goto(e, t, "idle") /\ pc[e][t] = "ack" /\ "idle" \in ThreadState
    BY <1>u, <1>2
  <2>2. /\ pc' \in [End -> [Thread -> ThreadState]]
        /\ \A f \in End \ {e} : /\ pc'[f] = pc[f]
                                /\ Acking(f)' = Acking(f)
                                /\ Uncounted(f)' = Uncounted(f)
        /\ \A v \in Thread \ {t} : pc'[e][v] = pc[e][v]
    BY <2>1, <1>1, GotoCounts
  <2>3. Cardinality(Acking(e)') = Cardinality(Acking(e)) - 1
    BY <2>1, <1>1, GotoCounts
  <2>4. Cardinality(Uncounted(e)') = Cardinality(Uncounted(e))
    BY <2>1, <1>1, GotoCounts
  <2>5. QED
    BY <2>2, <2>3, <2>4, <1>2
<1>4. /\ ackNet \in [End -> Nat] /\ running \in [End -> Nat] /\ acks \in [End -> Nat]
      /\ resp \in [End -> Nat] /\ orphans \in [End -> Nat]
  BY <1>1 DEF TypeOK
<1>5. /\ ackNet' \in [End -> Nat] /\ running' \in [End -> Nat]
      /\ ackNet'[e] = ackNet[e] /\ ackNet'[p] = ackNet[p] + 1
      /\ running'[p] = running[p] /\ running'[e] = running[e] + 1
  BY <1>u, <1>2, <1>4
<1>6. \A f \in End : /\ Cardinality(db[f]) \in Nat /\ Cardinality(Acking(f)) \in Nat
                     /\ Cardinality(AsyncIn(f)) \in Nat
                     /\ Cardinality(finNet[f]) \in Nat
  BY <1>1, FiniteMessages, FiniteCounts
<1> HIDE DEF p
<1>7. TypeOK'
  BY <1>1, <1>u, <1>3, <1>5 DEF TypeOK, confVars, finVars
<1>8. FlightInv'
  BY <1>u DEF LossyInv, FlightInv
<1>9. SyncInv'
  <2> SUFFICES ASSUME NEW f \in End, NEW n \in net'[f], n.rpc \in Thread
               PROVE  pc'[Peer(f)][n.rpc] = "rpc"
    BY <1>u DEF LossyInv, SyncInv
  <2>1. pc[Peer(f)][n.rpc] = "rpc"
    BY <1>u DEF LossyInv, SyncInv
  <2>2. QED
    BY <2>1, <1>u, <1>2, <1>3, PeerFacts
<1>10. PushInv(lm, ls)'
  BY <1>u, <1>3 DEF LossyInv, PushInv
<1>11. AckInv(la)'
  <2>1. /\ rcvd[e] = Cardinality(db[e]) + Cardinality(Acking(e)) + ackNet[p] + acks[p] + la[e]
        /\ rcvd[p] = Cardinality(db[p]) + Cardinality(Acking(p)) + ackNet[e] + acks[e] + la[p]
    BY <1>2 DEF LossyInv, AckInv, p
  <2>3. rcvd[e] = Cardinality(db[e]) + Cardinality(Acking(e)') + ackNet'[p] + acks[p] + la[e]
    BY <2>1, <1>2, <1>3, <1>4, <1>5, <1>6
  <2>4. rcvd[p] = Cardinality(db[p]) + Cardinality(Acking(p)') + ackNet'[e] + acks[e] + la[p]
    BY <2>1, <1>3, <1>5
  <2>5. QED
    BY <2>3, <2>4, <1>2, <1>u DEF AckInv, p
<1>12. RunningInv'
  <2>1. /\ running[e] + orphans[e] = Cardinality(AsyncIn(p)) + ackNet[p]
                          + Cardinality(finNet[p]) + resp[e] /\ resp[e] <= running[e]
        /\ running[p] + orphans[p] = Cardinality(AsyncIn(e)) + ackNet[e]
                          + Cardinality(finNet[e]) + resp[p] /\ resp[p] <= running[p]
    BY <1>2 DEF LossyInv, RunningInv, p
  <2>2. running'[e] + orphans[e] = Cardinality(AsyncIn(p)) + ackNet'[p]
                        + Cardinality(finNet[p]) + resp[e] /\ resp[e] <= running'[e]
    BY <2>1, <1>2, <1>4, <1>5, <1>6
  <2>3. running'[p] + orphans[p] = Cardinality(AsyncIn(e)) + ackNet'[e]
                        + Cardinality(finNet[e]) + resp[p] /\ resp[p] <= running'[p]
    BY <2>1, <1>2, <1>5
  <2>4. QED
    BY <2>2, <2>3, <1>2, <1>u DEF RunningInv, AsyncIn, p
<1>13. fpc[e] = "run"
  BY <1>u DEF LossyInv, QuietInv, Quiet
<1>14. QuietInv'
  <2>1. \A f \in End : fpc[f] # "run" => f = p
    BY <1>2, <1>13
  <2>2. QED
    BY <2>1, <1>u, <1>3 DEF LossyInv, QuietInv, Quiet, confVars, finVars
<1>15. FinInv'
  BY <1>u DEF LossyInv, FinInv, finVars
<1>16. WaitInv'
  <2>1. \A f \in End : fpc[f] # "run" => running'[f] = running[f]
    BY <1>2, <1>5, <1>13
  <2>2. QED
    BY <2>1, <1>u DEF LossyInv, WaitInv, finVars
<1>17. QED
  BY <1>7, <1>8, <1>9, <1>10, <1>11, <1>12, <1>14, <1>15, <1>16 DEF LossyInv

\* A step that changes no more than the window, or nothing.
LEMMA WindowStep ==
  ASSUME NEW lm \in [End -> Nat], NEW ls \in [End -> Nat],
         NEW la \in [End -> Nat], LossyInv(lm, ls, la),
         window' \in [End -> Window],
         UNCHANGED <<countVars, waiting, finVars, thrVars, netVars, db, pushed,
                     faults>>
  PROVE  LossyInv(lm, ls, la)'
<1>1. TypeOK'
  BY DEF LossyInv, TypeOK, countVars, finVars, thrVars, netVars
<1>2. FlightInv' /\ SyncInv'
  BY DEF LossyInv, FlightInv, SyncInv, thrVars, netVars
<1>3. PushInv(lm, ls)' /\ AckInv(la)' /\ RunningInv'
  BY DEF LossyInv, PushInv, AckInv, RunningInv, Acking, Uncounted, AsyncIn,
         countVars, thrVars, netVars
<1>4. QuietInv' /\ FinInv' /\ WaitInv'
  BY DEF LossyInv, QuietInv, Quiet, FinInv, WaitInv, countVars, finVars, thrVars,
         netVars
<1>5. QED
  BY <1>1, <1>2, <1>3, <1>4 DEF LossyInv

\* SetThrottleWindowSize.
LEMMA SetThrottleWindowSizeStep ==
  ASSUME NEW lm \in [End -> Nat], NEW ls \in [End -> Nat],
         NEW la \in [End -> Nat], LossyInv(lm, ls, la),
         NEW e \in End, NEW w \in Window, SetThrottleWindowSize(e, w)
  PROVE  LossyInv(lm, ls, la)'
<1>1. window' \in [End -> Window]
  BY DEF SetThrottleWindowSize, LossyInv, TypeOK
<1>2. QED
  BY <1>1, WindowStep DEF SetThrottleWindowSize

\* The parts of running_async_count_, for both endpoints.
LEMMA RunningParts ==
  ASSUME NEW lm \in [End -> Nat], NEW ls \in [End -> Nat],
         NEW la \in [End -> Nat], LossyInv(lm, ls, la), NEW e \in End
  PROVE  LET p == Peer(e)
         IN  /\ running[e] + orphans[e] = Cardinality(AsyncIn(p)) + ackNet[p]
                               + Cardinality(finNet[p]) + resp[e]
             /\ running[p] + orphans[p] = Cardinality(AsyncIn(e)) + ackNet[e]
                               + Cardinality(finNet[e]) + resp[p]
             /\ resp[e] <= running[e] /\ resp[p] <= running[p]
             /\ running[e] \in Nat /\ running[p] \in Nat
             /\ Cardinality(AsyncIn(p)) \in Nat /\ Cardinality(AsyncIn(e)) \in Nat
             /\ Cardinality(finNet[p]) \in Nat /\ Cardinality(finNet[e]) \in Nat
             /\ ackNet[p] \in Nat /\ ackNet[e] \in Nat
             /\ resp[p] \in Nat /\ resp[e] \in Nat
             /\ orphans[p] \in Nat /\ orphans[e] \in Nat
<1> DEFINE p == Peer(e)
<1>1. p \in End /\ Peer(p) = e
  BY PeerFacts
<1>2. /\ running[e] + orphans[e] = Cardinality(AsyncIn(p)) + ackNet[p]
                        + Cardinality(finNet[p]) + resp[e]
      /\ running[p] + orphans[p] = Cardinality(AsyncIn(e)) + ackNet[e]
                        + Cardinality(finNet[e]) + resp[p]
      /\ resp[e] <= running[e] /\ resp[p] <= running[p]
  BY <1>1 DEF LossyInv, RunningInv
<1>3. /\ Cardinality(AsyncIn(p)) \in Nat /\ Cardinality(AsyncIn(e)) \in Nat
      /\ Cardinality(finNet[p]) \in Nat /\ Cardinality(finNet[e]) \in Nat
  BY <1>1, FiniteMessages
<1>4. /\ running[e] \in Nat /\ running[p] \in Nat
      /\ ackNet[p] \in Nat /\ ackNet[e] \in Nat
      /\ resp[p] \in Nat /\ resp[e] \in Nat
      /\ orphans[p] \in Nat /\ orphans[e] \in Nat
  BY <1>1 DEF LossyInv, TypeOK
<1>5. QED
  BY <1>2, <1>3, <1>4

\* The handler of an asynchronous RPC has run: there is a response more, or a
\* failed RPC less.
LEMMA AnswerStep ==
  ASSUME NEW lm \in [End -> Nat], NEW ls \in [End -> Nat],
         NEW la \in [End -> Nat], LossyInv(lm, ls, la),
         NEW e \in End, AnswerAsync(e)
  PROVE  LET p == Peer(e)
         IN  /\ resp' \in [End -> Nat] /\ orphans' \in [End -> Nat]
             /\ resp'[e] = resp[e] /\ orphans'[e] = orphans[e]
             /\ resp'[p] + orphans[p] = resp[p] + orphans'[p] + 1
             /\ resp'[p] <= running[p]
             /\ resp'[p] \in Nat /\ orphans'[p] \in Nat
<1> DEFINE p == Peer(e)
<1>1. p \in End /\ p # e
  BY PeerFacts
<1>2. resp \in [End -> Nat] /\ orphans \in [End -> Nat]
  BY DEF LossyInv, TypeOK
<1>3. CASE /\ InFlight(e) > orphans[p] /\ orphans' = orphans
           /\ resp' = [resp EXCEPT ![p] = @ + 1]
  <2>1. Cardinality(AsyncIn(e)) + ackNet[e] + Cardinality(finNet[e]) > orphans[p]
    BY <1>3 DEF InFlight
  <2>2. resp[p] + 1 <= running[p]
    BY <2>1, RunningParts
  <2>3. /\ resp' \in [End -> Nat] /\ resp'[e] = resp[e] /\ resp'[p] = resp[p] + 1
    BY <1>1, <1>2, <1>3
  <2>4. QED
    BY <2>2, <2>3, <1>1, <1>2, <1>3
<1>4. CASE /\ orphans[p] > 0 /\ resp' = resp
           /\ orphans' = [orphans EXCEPT ![p] = @ - 1]
  <2>1. /\ orphans' \in [End -> Nat] /\ orphans'[e] = orphans[e]
        /\ orphans'[p] = orphans[p] - 1
    BY <1>1, <1>2, <1>4
  <2>2. resp[p] <= running[p]
    BY RunningParts
  <2>3. QED
    BY <2>1, <2>2, <1>1, <1>2, <1>4
<1>5. QED
  BY <1>3, <1>4 DEF AnswerAsync

\* A sum that counts the RPCs on their way stays true when both sides grow alike,
\* or when one RPC moves from one summand to another.
Balanced(r, o, k, c, f, d) == r + o = k + c + f + d

LEMMA SumGrows ==
  ASSUME NEW r \in Nat, NEW r2 \in Nat, NEW o \in Nat, NEW k \in Nat, NEW c \in Nat,
         NEW c2 \in Nat, NEW f \in Nat, NEW d \in Nat,
         Balanced(r, o, k, c, f, d), r2 - c2 = r - c
  PROVE  Balanced(r2, o, k, c2, f, d)
BY DEF Balanced

LEMMA SumMoves ==
  ASSUME NEW r \in Nat, NEW o \in Nat, NEW o2 \in Nat, NEW k \in Nat, NEW k2 \in Nat,
         NEW c \in Nat, NEW f \in Nat, NEW d \in Nat, NEW d2 \in Nat,
         Balanced(r, o, k, c, f, d), k2 + d2 + o = k + d + o2
  PROVE  Balanced(r, o2, k2, c, f, d2)
BY DEF Balanced

\* OnMessage with an ack: no ack comes after WaitLinkTaskFinish has returned.
LEMMA DeliverAckStep ==
  ASSUME NEW lm \in [End -> Nat], NEW ls \in [End -> Nat],
         NEW la \in [End -> Nat], LossyInv(lm, ls, la),
         NEW e \in End, DeliverAck(e)
  PROVE  LossyInv(lm, ls, la)'
<1> DEFINE p == Peer(e)
<1>u. /\ ackNet[e] > 0
      /\ ackNet' = [ackNet EXCEPT ![e] = @ - 1]
      /\ acks' = [acks EXCEPT ![e] = @ + 1]
      /\ AnswerAsync(e)
      /\ UNCHANGED <<sent, rcvd, running, confVars, finVars, thrVars, net, finNet,
                     db, pushed, faults>>
  BY DEF DeliverAck, OnAck
<1>1. TypeOK
  BY DEF LossyInv
<1>2. p \in End /\ p # e /\ Peer(p) = e /\ \A f \in End : f = e \/ f = p
  BY PeerFacts
<1>4. /\ ackNet \in [End -> Nat] /\ running \in [End -> Nat] /\ acks \in [End -> Nat]
      /\ resp \in [End -> Nat] /\ orphans \in [End -> Nat] /\ rcvd \in [End -> Nat] /\ sent \in [End -> Nat]
  BY <1>1 DEF TypeOK
<1>5. /\ ackNet' \in [End -> Nat] /\ acks' \in [End -> Nat]
      /\ ackNet'[e] = ackNet[e] - 1 /\ ackNet'[p] = ackNet[p]
      /\ acks'[e] = acks[e] + 1 /\ acks'[p] = acks[p]
  BY <1>u, <1>2, <1>4
<1>r. /\ resp' \in [End -> Nat] /\ orphans' \in [End -> Nat]
      /\ resp'[e] = resp[e] /\ orphans'[e] = orphans[e]
      /\ resp'[p] + orphans[p] = resp[p] + orphans'[p] + 1
      /\ resp'[p] <= running[p]
      /\ resp'[p] \in Nat /\ orphans'[p] \in Nat
  BY <1>u, AnswerStep
<1>6. \A f \in End : /\ Cardinality(db[f]) \in Nat /\ Cardinality(Acking(f)) \in Nat
                     /\ Cardinality(AsyncIn(f)) \in Nat
                     /\ Cardinality(finNet[f]) \in Nat
                     /\ Cardinality(net[f]) \in Nat
                     /\ Cardinality(Uncounted(f)) \in Nat
  BY <1>1, FiniteMessages, FiniteCounts
<1>3. \A f \in End : /\ Acking(f)' = Acking(f) /\ AsyncIn(f)' = AsyncIn(f)
                     /\ Uncounted(f)' = Uncounted(f)
  BY <1>u, SameCounts DEF thrVars
<1> HIDE DEF p
<1>7. TypeOK'
  BY <1>1, <1>u, <1>5, <1>r DEF TypeOK, confVars, finVars, thrVars
<1>8. FlightInv' /\ SyncInv'
  BY <1>u DEF LossyInv, FlightInv, SyncInv, thrVars
<1>9. PushInv(lm, ls)'
  BY <1>u, <1>3 DEF LossyInv, PushInv
<1>a. /\ rcvd[e] = Cardinality(db[e]) + Cardinality(Acking(e)) + ackNet[p] + acks[p] + la[e]
      /\ rcvd[p] = Cardinality(db[p]) + Cardinality(Acking(p)) + ackNet[e] + acks[e] + la[p]
  BY <1>2 DEF LossyInv, AckInv, p
<1>10. AckInv(la)'
  <2>1. rcvd[p] = Cardinality(db[p]) + Cardinality(Acking(p)) + ackNet'[e] + acks'[e] + la[p]
    BY <1>a, <1>2, <1>4, <1>5, <1>6
  <2>2. rcvd[e] = Cardinality(db[e]) + Cardinality(Acking(e)) + ackNet'[p] + acks'[p] + la[e]
    BY <1>a, <1>5
  <2>3. QED
    BY <2>1, <2>2, <1>2, <1>3, <1>u DEF AckInv, p
<1>11. RunningInv'
  <2>1. /\ running[e] + orphans[e] = Cardinality(AsyncIn(p)) + ackNet[p]
                          + Cardinality(finNet[p]) + resp[e] /\ resp[e] <= running[e]
        /\ running[p] + orphans[p] = Cardinality(AsyncIn(e)) + ackNet[e]
                          + Cardinality(finNet[e]) + resp[p] /\ resp[p] <= running[p]
    BY <1>2 DEF LossyInv, RunningInv, p
  <2>2. /\ running[e] + orphans'[e] = Cardinality(AsyncIn(p)) + ackNet'[p]
                                        + Cardinality(finNet[p]) + resp'[e]
        /\ resp'[e] <= running[e]
    BY <2>1, <1>5, <1>r
  <2>3. /\ running[p] + orphans'[p] = Cardinality(AsyncIn(e)) + ackNet'[e]
                                        + Cardinality(finNet[e]) + resp'[p]
        /\ resp'[p] <= running[p]
    BY <2>1, <1>2, <1>4, <1>5, <1>6, <1>r
  <2>4. QED
    BY <2>2, <2>3, <1>2, <1>3, <1>u DEF RunningInv, p
<1>12. QuietInv' /\ FinInv'
  BY <1>u DEF LossyInv, QuietInv, Quiet, FinInv, confVars, finVars, thrVars
<1>13. WaitInv'
  <2>1. fpc[e] \notin {"done", "closed"}
    <3> SUFFICES ASSUME fpc[e] \in {"done", "closed"} PROVE FALSE
      OBVIOUS
    <3>1. acks[e] = sent[e] /\ Quiet(e)
      BY DEF LossyInv, WaitInv, QuietInv
    <3>2. Uncounted(e) = {}
      BY <3>1 DEF Uncounted, Quiet
    <3>3. Cardinality(Uncounted(e)) = 0
      BY <3>2, FS_EmptySet
    <3>4. pushed[e] = sent[e] + Cardinality(Uncounted(e)) + ls[e]
          /\ pushed[e] = Cardinality(net[p]) + rcvd[p] + lm[p]
          /\ ls[e] <= lm[p]
      BY <1>2 DEF LossyInv, PushInv
    <3>5. QED
      BY <3>1, <3>3, <3>4, <1>2, <1>4, <1>6, <1>a, <1>u
  <2>2. \A f \in End : fpc[f] \in {"done", "closed"} => acks'[f] = acks[f]
    BY <2>1, <1>2, <1>5
  <2>3. QED
    BY <2>2, <1>u DEF LossyInv, WaitInv, finVars
<1>14. QED
  BY <1>7, <1>8, <1>9, <1>10, <1>11, <1>12, <1>13 DEF LossyInv

\* OnPushDone: SubAsyncCount finds a positive count.
LEMMA OnPushDoneStep ==
  ASSUME NEW lm \in [End -> Nat], NEW ls \in [End -> Nat],
         NEW la \in [End -> Nat], LossyInv(lm, ls, la),
         NEW e \in End, OnPushDone(e)
  PROVE  LossyInv(lm, ls, la)'
<1> DEFINE p == Peer(e)
<1>u. /\ resp[e] > 0
      /\ resp' = [resp EXCEPT ![e] = @ - 1]
      /\ running' = [running EXCEPT ![e] = @ - 1]
      /\ UNCHANGED <<sent, rcvd, acks, confVars, finVars, thrVars, net, ackNet,
                     finNet, orphans, db, pushed, faults>>
  BY DEF OnPushDone
<1>1. TypeOK
  BY DEF LossyInv
<1>2. p \in End /\ p # e /\ Peer(p) = e /\ \A f \in End : f = e \/ f = p
  BY PeerFacts
<1>3. \A f \in End : /\ Acking(f)' = Acking(f) /\ AsyncIn(f)' = AsyncIn(f)
                     /\ Uncounted(f)' = Uncounted(f)
  BY <1>u, SameCounts DEF thrVars
<1>4. ackNet \in [End -> Nat] /\ running \in [End -> Nat] /\ resp \in [End -> Nat] /\ orphans \in [End -> Nat]
  BY <1>1 DEF TypeOK
<1>5. \A f \in End : /\ Cardinality(AsyncIn(f)) \in Nat
                     /\ Cardinality(finNet[f]) \in Nat
  BY FiniteMessages
<1>6. /\ running[e] + orphans[e] = Cardinality(AsyncIn(p)) + ackNet[p]
                        + Cardinality(finNet[p]) + resp[e] /\ resp[e] <= running[e]
      /\ running[p] + orphans[p] = Cardinality(AsyncIn(e)) + ackNet[e]
                        + Cardinality(finNet[e]) + resp[p] /\ resp[p] <= running[p]
  BY <1>2 DEF LossyInv, RunningInv
<1> HIDE DEF p
<1>7. running[e] > 0
  BY <1>2, <1>4, <1>5, <1>6, <1>u
<1>8. /\ resp' \in [End -> Nat] /\ running' \in [End -> Nat]
      /\ resp'[e] = resp[e] - 1 /\ resp'[p] = resp[p]
      /\ running'[e] = running[e] - 1 /\ running'[p] = running[p]
  BY <1>u, <1>2, <1>4, <1>7
<1>9. TypeOK'
  BY <1>1, <1>u, <1>8 DEF TypeOK, confVars, finVars, thrVars
<1>10. FlightInv' /\ SyncInv' /\ PushInv(lm, ls)' /\ AckInv(la)'
  BY <1>u, <1>3 DEF LossyInv, FlightInv, SyncInv, PushInv, AckInv, thrVars
<1>11. RunningInv'
  <2>1. running'[e] + orphans[e] = Cardinality(AsyncIn(p)) + ackNet[p]
                        + Cardinality(finNet[p]) + resp'[e] /\ resp'[e] <= running'[e]
    BY <1>2, <1>4, <1>5, <1>6, <1>8
  <2>2. running'[p] + orphans[p] = Cardinality(AsyncIn(e)) + ackNet[e]
                        + Cardinality(finNet[e]) + resp'[p] /\ resp'[p] <= running'[p]
    BY <1>6, <1>8
  <2>3. QED
    BY <2>1, <2>2, <1>2, <1>3, <1>u DEF RunningInv, p
<1>12. QuietInv' /\ FinInv'
  BY <1>u DEF LossyInv, QuietInv, Quiet, FinInv, confVars, finVars, thrVars
<1>13. WaitInv'
  <2>1. fpc[e] \notin {"waitack", "done", "closed"}
    BY <1>7 DEF LossyInv, WaitInv
  <2>2. \A f \in End : fpc[f] \in {"waitack", "done", "closed"} =>
                         running'[f] = running[f]
    BY <2>1, <1>2, <1>8
  <2>3. QED
    BY <2>2, <1>u DEF LossyInv, WaitInv, finVars
<1>14. QED
  BY <1>9, <1>10, <1>11, <1>12, <1>13 DEF LossyInv

\* OnMessage with a fin message, which is the first and the only one.
LEMMA DeliverFinStep ==
  ASSUME NEW lm \in [End -> Nat], NEW ls \in [End -> Nat],
         NEW la \in [End -> Nat], LossyInv(lm, ls, la),
         NEW e \in End, NEW n \in finNet[e], DeliverFin(e, n)
  PROVE  LossyInv(lm, ls, la)'
<1> DEFINE p == Peer(e)
<1>1. TypeOK
  BY DEF LossyInv
<1>2. p \in End /\ p # e /\ Peer(p) = e /\ \A f \in End : f = e \/ f = p
  BY PeerFacts
<1>3. n = sent[p] /\ finNet[e] = {n} /\ ~rfin[e] /\ fpc[p] \notin {"run", "fin"}
  BY DEF LossyInv, FinInv
<1>u. /\ finNet' = [finNet EXCEPT ![e] = @ \ {n}]
      /\ rfin' = [rfin EXCEPT ![e] = TRUE]
      /\ peerSent' = [peerSent EXCEPT ![e] = n]
      /\ AnswerAsync(e)
      /\ UNCHANGED <<countVars, confVars, fpc, thrVars, net, ackNet, db, pushed,
                     faults>>
  BY <1>3 DEF DeliverFin, OnFin
<1>4. /\ finNet \in [End -> SUBSET Nat] /\ rfin \in [End -> BOOLEAN]
      /\ peerSent \in [End -> Nat] /\ resp \in [End -> Nat] /\ orphans \in [End -> Nat] /\ sent \in [End -> Nat]
      /\ running \in [End -> Nat] /\ ackNet \in [End -> Nat]
  BY <1>1 DEF TypeOK
<1>r. /\ resp' \in [End -> Nat] /\ orphans' \in [End -> Nat]
      /\ resp'[e] = resp[e] /\ orphans'[e] = orphans[e]
      /\ resp'[p] + orphans[p] = resp[p] + orphans'[p] + 1
      /\ resp'[p] <= running[p]
      /\ resp'[p] \in Nat /\ orphans'[p] \in Nat
  BY <1>u, AnswerStep
<1> HIDE DEF p
<1>5. /\ finNet' \in [End -> SUBSET Nat] /\ finNet'[e] = {} /\ finNet'[p] = finNet[p]
      /\ rfin' \in [End -> BOOLEAN] /\ rfin'[e] = TRUE /\ rfin'[p] = rfin[p]
      /\ peerSent' \in [End -> Nat] /\ peerSent'[e] = n /\ peerSent'[p] = peerSent[p]
  BY <1>u, <1>2, <1>3, <1>4
<1>6. /\ \A f \in End : Cardinality(AsyncIn(f)) \in Nat
      /\ Cardinality(finNet[e]) = 1 /\ Cardinality(finNet'[e]) = 0
  BY <1>3, <1>5, FiniteMessages, FS_Singleton, FS_EmptySet
<1>7. \A f \in End : /\ Acking(f)' = Acking(f) /\ AsyncIn(f)' = AsyncIn(f)
                     /\ Uncounted(f)' = Uncounted(f)
  BY <1>u, SameCounts DEF thrVars
<1>8. TypeOK'
  BY <1>1, <1>u, <1>5, <1>r DEF TypeOK, countVars, confVars, thrVars
<1>9. FlightInv' /\ SyncInv' /\ PushInv(lm, ls)' /\ AckInv(la)'
  BY <1>u, <1>7 DEF LossyInv, FlightInv, SyncInv, PushInv, AckInv, thrVars, countVars
<1>10. RunningInv'
  <2>1. /\ running[e] + orphans[e] = Cardinality(AsyncIn(p)) + ackNet[p]
                          + Cardinality(finNet[p]) + resp[e] /\ resp[e] <= running[e]
        /\ running[p] + orphans[p] = Cardinality(AsyncIn(e)) + ackNet[e]
                          + Cardinality(finNet[e]) + resp[p] /\ resp[p] <= running[p]
    BY <1>2 DEF LossyInv, RunningInv, p
  <2>2. /\ running[e] + orphans'[e] = Cardinality(AsyncIn(p)) + ackNet[p]
                                        + Cardinality(finNet'[p]) + resp'[e]
        /\ resp'[e] <= running[e]
    BY <2>1, <1>5, <1>r
  <2>3. /\ running[p] + orphans'[p] = Cardinality(AsyncIn(e)) + ackNet[e]
                                        + Cardinality(finNet'[e]) + resp'[p]
        /\ resp'[p] <= running[p]
    <3>1. /\ running[p] \in Nat /\ orphans[p] \in Nat /\ resp[p] \in Nat
          /\ ackNet[e] \in Nat /\ Cardinality(AsyncIn(e)) \in Nat
      BY <1>2, <1>4, <1>6
    <3>2. running[p] + orphans[p] = Cardinality(AsyncIn(e)) + ackNet[e] + 1 + resp[p]
      BY <2>1, <1>6
    <3>3. running[p] + orphans'[p] = Cardinality(AsyncIn(e)) + ackNet[e] + 0 + resp'[p]
      BY <3>1, <3>2, <1>r
    <3>4. QED
      BY <3>3, <1>6, <1>r
  <2>4. QED
    BY <2>2, <2>3, <1>2, <1>7, <1>u DEF RunningInv, p, countVars
<1>11. QuietInv'
  BY <1>u DEF LossyInv, QuietInv, Quiet, confVars, thrVars
<1>12. FinInv'
  <2>1. /\ finNet'[e] \subseteq {sent'[p]}
        /\ fpc'[p] \in {"run", "fin"} => finNet'[e] = {} /\ ~rfin'[e]
        /\ rfin'[e] => finNet'[e] = {} /\ peerSent'[e] = sent'[p]
    BY <1>3, <1>5, <1>u DEF countVars
  <2>2. /\ finNet'[p] \subseteq {sent'[e]}
        /\ fpc'[e] \in {"run", "fin"} => finNet'[p] = {} /\ ~rfin'[p]
        /\ rfin'[p] => finNet'[p] = {} /\ peerSent'[p] = sent'[e]
    BY <1>2, <1>5, <1>u DEF LossyInv, FinInv, countVars
  <2>3. QED
    BY <2>1, <2>2, <1>2 DEF FinInv, p
<1>13. WaitInv'
  <2>1. \A f \in End : rfin[f] => rfin'[f]
    BY <1>2, <1>3, <1>5
  <2>2. QED
    BY <2>1, <1>u DEF LossyInv, WaitInv, countVars
<1>14. QED
  BY <1>8, <1>9, <1>10, <1>11, <1>12, <1>13 DEF LossyInv

\* StopReceivingAndAckUnreadMsgs turns every unread message into an ack.
LEMMA StopStep ==
  ASSUME NEW lm \in [End -> Nat], NEW ls \in [End -> Nat],
         NEW la \in [End -> Nat], LossyInv(lm, ls, la),
         NEW e \in End, StopReceivingAndAckUnreadMsgs(e)
  PROVE  LossyInv(lm, ls, la)'
<1> DEFINE p == Peer(e)
           n == Cardinality(db[e])
<1>u. /\ fpc[e] = "run" /\ Quiet(e)
      /\ waiting' = [waiting EXCEPT ![e] = TRUE]
      /\ ackNet' = [ackNet EXCEPT ![p] = @ + n]
      /\ running' = [running EXCEPT ![e] = @ + n]
      /\ db' = [db EXCEPT ![e] = {}]
      /\ fpc' = [fpc EXCEPT ![e] = "fin"]
      /\ UNCHANGED <<sent, rcvd, acks, window, rfin, peerSent, thrVars, net,
                     finNet, resp, orphans, pushed, faults>>
  BY DEF StopReceivingAndAckUnreadMsgs, SendAcks
<1>1. TypeOK
  BY DEF LossyInv
<1>2. p \in End /\ p # e /\ Peer(p) = e /\ \A f \in End : f = e \/ f = p
  BY PeerFacts
<1>3. \A f \in End : /\ Acking(f)' = Acking(f) /\ AsyncIn(f)' = AsyncIn(f)
                     /\ Uncounted(f)' = Uncounted(f)
  BY <1>u, SameCounts DEF thrVars
<1>4. \A f \in End : /\ Cardinality(db[f]) \in Nat /\ Cardinality(Acking(f)) \in Nat
                     /\ Cardinality(AsyncIn(f)) \in Nat
                     /\ Cardinality(finNet[f]) \in Nat
                     /\ IsFiniteSet(db[f])
  BY <1>1, FiniteMessages, FiniteCounts
<1>5. n \in Nat /\ IsFiniteSet({}) /\ Cardinality({}) = 0
  BY <1>4, FS_EmptySet
<1>6. /\ ackNet \in [End -> Nat] /\ running \in [End -> Nat] /\ acks \in [End -> Nat]
      /\ resp \in [End -> Nat] /\ orphans \in [End -> Nat] /\ waiting \in [End -> BOOLEAN]
      /\ db \in [End -> SUBSET Msg] /\ fpc \in [End -> FinishState]
  BY <1>1 DEF TypeOK
<1> HIDE DEF p, n
<1>7. /\ waiting' \in [End -> BOOLEAN] /\ waiting'[e] = TRUE /\ waiting'[p] = waiting[p]
      /\ ackNet' \in [End -> Nat] /\ ackNet'[p] = ackNet[p] + n /\ ackNet'[e] = ackNet[e]
      /\ running' \in [End -> Nat] /\ running'[e] = running[e] + n
      /\ running'[p] = running[p]
  BY <1>u, <1>2, <1>5, <1>6
<1>8. /\ db' \in [End -> SUBSET Msg] /\ db'[e] = {} /\ db'[p] = db[p]
      /\ fpc' \in [End -> FinishState] /\ fpc'[e] = "fin" /\ fpc'[p] = fpc[p]
  BY <1>u, <1>2, <1>6 DEF FinishState
<1>9. TypeOK'
  BY <1>1, <1>u, <1>7, <1>8 DEF TypeOK, thrVars
<1>10. FlightInv'
  BY <1>u, <1>2, <1>4, <1>5, <1>8 DEF LossyInv, FlightInv
<1>11. SyncInv' /\ PushInv(lm, ls)'
  BY <1>u, <1>3 DEF LossyInv, SyncInv, PushInv, thrVars
<1>12. AckInv(la)'
  <2>1. /\ rcvd[e] = n + Cardinality(Acking(e)) + ackNet[p] + acks[p] + la[e]
        /\ rcvd[p] = Cardinality(db[p]) + Cardinality(Acking(p)) + ackNet[e] + acks[e] + la[p]
    BY <1>2 DEF LossyInv, AckInv, p, n
  <2>2. rcvd[e] = Cardinality(db'[e]) + Cardinality(Acking(e)) + ackNet'[p] + acks[p] + la[e]
    BY <2>1, <1>2, <1>4, <1>5, <1>6, <1>7, <1>8
  <2>3. rcvd[p] = Cardinality(db'[p]) + Cardinality(Acking(p)) + ackNet'[e] + acks[e] + la[p]
    BY <2>1, <1>7, <1>8
  <2>4. QED
    BY <2>2, <2>3, <1>2, <1>3, <1>u DEF AckInv, p
<1>13. RunningInv'
  <2>1. /\ running[e] + orphans[e] = Cardinality(AsyncIn(p)) + ackNet[p]
                          + Cardinality(finNet[p]) + resp[e] /\ resp[e] <= running[e]
        /\ running[p] + orphans[p] = Cardinality(AsyncIn(e)) + ackNet[e]
                          + Cardinality(finNet[e]) + resp[p] /\ resp[p] <= running[p]
    BY <1>2 DEF LossyInv, RunningInv, p
  <2>2. running'[e] + orphans[e] = Cardinality(AsyncIn(p)) + ackNet'[p]
                        + Cardinality(finNet[p]) + resp[e] /\ resp[e] <= running'[e]
    BY <2>1, <1>2, <1>4, <1>5, <1>6, <1>7
  <2>3. running'[p] + orphans[p] = Cardinality(AsyncIn(e)) + ackNet'[e]
                        + Cardinality(finNet[e]) + resp[p] /\ resp[p] <= running'[p]
    BY <2>1, <1>7
  <2>4. QED
    BY <2>2, <2>3, <1>2, <1>3, <1>u DEF RunningInv, p
<1>14. QuietInv'
  <2>1. waiting'[e] /\ db'[e] = {} /\ Quiet(e)'
    BY <1>u, <1>7, <1>8 DEF Quiet, thrVars
  <2>2. fpc'[p] # "run" => waiting'[p] /\ db'[p] = {} /\ Quiet(p)'
    BY <1>2, <1>u, <1>7, <1>8 DEF LossyInv, QuietInv, Quiet, thrVars
  <2>3. QED
    BY <2>1, <2>2, <1>2 DEF QuietInv
<1>15. FinInv'
  <2>1. fpc[e] \in {"run", "fin"} /\ fpc'[e] \in {"run", "fin"}
    BY <1>u, <1>8
  <2>2. \A f \in End : fpc'[f] \in {"run", "fin"} => fpc[f] \in {"run", "fin"}
    BY <2>1, <1>2, <1>8
  <2>3. QED
    BY <2>2, <1>u, PeerFacts DEF LossyInv, FinInv
<1>16. WaitInv'
  <2>1. \A f \in End : fpc'[f] # "fin" => fpc'[f] = fpc[f] /\ running'[f] = running[f]
    BY <1>2, <1>7, <1>8
  <2>2. QED
    BY <2>1, <1>u DEF LossyInv, WaitInv
<1>17. QED
  BY <1>9, <1>10, <1>11, <1>12, <1>13, <1>14, <1>15, <1>16 DEF LossyInv

\* WaitForFinAndFlyingMsg sends the final count.
LEMMA SendFinStep ==
  ASSUME NEW lm \in [End -> Nat], NEW ls \in [End -> Nat],
         NEW la \in [End -> Nat], LossyInv(lm, ls, la),
         NEW e \in End, SendFin(e)
  PROVE  LossyInv(lm, ls, la)'
<1> DEFINE p == Peer(e)
<1>u. /\ fpc[e] = "fin"
      /\ finNet' = [finNet EXCEPT ![p] = @ \cup {sent[e]}]
      /\ running' = [running EXCEPT ![e] = @ + 1]
      /\ fpc' = [fpc EXCEPT ![e] = "waitfin"]
      /\ UNCHANGED <<sent, rcvd, acks, confVars, rfin, peerSent, thrVars, net,
                     ackNet, resp, orphans, db, pushed, faults>>
  BY DEF SendFin
<1>1. TypeOK
  BY DEF LossyInv
<1>2. p \in End /\ p # e /\ Peer(p) = e /\ \A f \in End : f = e \/ f = p
  BY PeerFacts
<1>3. finNet[p] = {} /\ ~rfin[p]
  BY <1>2, <1>u DEF LossyInv, FinInv
<1>4. \A f \in End : /\ Acking(f)' = Acking(f) /\ AsyncIn(f)' = AsyncIn(f)
                     /\ Uncounted(f)' = Uncounted(f)
  BY <1>u, SameCounts DEF thrVars
<1>5. /\ finNet \in [End -> SUBSET Nat] /\ running \in [End -> Nat]
      /\ fpc \in [End -> FinishState] /\ sent \in [End -> Nat]
      /\ ackNet \in [End -> Nat] /\ resp \in [End -> Nat] /\ orphans \in [End -> Nat]
  BY <1>1 DEF TypeOK
<1> HIDE DEF p
<1>6. /\ finNet' \in [End -> SUBSET Nat] /\ finNet'[p] = {sent[e]}
      /\ finNet'[e] = finNet[e]
      /\ running' \in [End -> Nat] /\ running'[e] = running[e] + 1
      /\ running'[p] = running[p]
      /\ fpc' \in [End -> FinishState] /\ fpc'[e] = "waitfin" /\ fpc'[p] = fpc[p]
  BY <1>u, <1>2, <1>3, <1>5 DEF FinishState
<1>7. /\ Cardinality(finNet[p]) = 0 /\ Cardinality(finNet'[p]) = 1
      /\ Cardinality(AsyncIn(p)) \in Nat
  <2>1. Cardinality(finNet[p]) = 0
    BY <1>3, FS_EmptySet
  <2>2. Cardinality(finNet'[p]) = 1
    BY <1>6, FS_Singleton
  <2>3. Cardinality(AsyncIn(p)) \in Nat
    BY <1>2, FiniteMessages
  <2>4. QED
    BY <2>1, <2>2, <2>3
<1>8. TypeOK'
  BY <1>1, <1>u, <1>6 DEF TypeOK, confVars, thrVars
<1>9. FlightInv' /\ SyncInv' /\ PushInv(lm, ls)' /\ AckInv(la)'
  BY <1>u, <1>4 DEF LossyInv, FlightInv, SyncInv, PushInv, AckInv, thrVars
<1>10. RunningInv'
  <2>1. /\ running[e] + orphans[e] = Cardinality(AsyncIn(p)) + ackNet[p]
                          + Cardinality(finNet[p]) + resp[e] /\ resp[e] <= running[e]
        /\ running[p] + orphans[p] = Cardinality(AsyncIn(e)) + ackNet[e]
                          + Cardinality(finNet[e]) + resp[p] /\ resp[p] <= running[p]
    BY <1>2 DEF LossyInv, RunningInv, p
  <2>2. running'[e] + orphans[e] = Cardinality(AsyncIn(p)) + ackNet[p]
                        + Cardinality(finNet'[p]) + resp[e] /\ resp[e] <= running'[e]
    BY <2>1, <1>2, <1>5, <1>6, <1>7
  <2>3. running'[p] + orphans[p] = Cardinality(AsyncIn(e)) + ackNet[e]
                        + Cardinality(finNet'[e]) + resp[p] /\ resp[p] <= running'[p]
    BY <2>1, <1>6
  <2>4. QED
    BY <2>2, <2>3, <1>2, <1>4, <1>u DEF RunningInv, p
<1>11. QuietInv'
  <2>1. \A f \in End : fpc'[f] # "run" => fpc[f] # "run"
    BY <1>2, <1>6, <1>u
  <2>2. QED
    BY <2>1, <1>u DEF LossyInv, QuietInv, Quiet, confVars, thrVars
<1>12. FinInv'
  <2>1. /\ finNet'[p] \subseteq {sent[e]}
        /\ fpc'[e] \in {"run", "fin"} => finNet'[p] = {} /\ ~rfin[p]
        /\ rfin[p] => finNet'[p] = {} /\ peerSent[p] = sent[e]
    BY <1>3, <1>6
  <2>2. /\ finNet'[e] \subseteq {sent[p]}
        /\ fpc'[p] \in {"run", "fin"} => finNet'[e] = {} /\ ~rfin[e]
        /\ rfin[e] => finNet'[e] = {} /\ peerSent[e] = sent[p]
    BY <1>6 DEF LossyInv, FinInv, p
  <2>3. QED
    BY <2>1, <2>2, <1>2, <1>u DEF FinInv, p
<1>13. WaitInv'
  <2>1. \A f \in End : fpc'[f] # "waitfin" => fpc'[f] = fpc[f] /\ running'[f] = running[f]
    BY <1>2, <1>6
  <2>2. QED
    BY <2>1, <1>u DEF LossyInv, WaitInv
<1>14. QED
  BY <1>8, <1>9, <1>10, <1>11, <1>12, <1>13 DEF LossyInv

\* The waits of WaitLinkTaskFinish change fpc only.
LEMMA AdvanceStep ==
  ASSUME NEW lm \in [End -> Nat], NEW ls \in [End -> Nat],
         NEW la \in [End -> Nat], LossyInv(lm, ls, la),
         NEW e \in End,
         NEW from \in FinishState \ {"run", "fin"},
         NEW to \in FinishState \ {"run", "fin"},
         Advance(e, from, to), WaitInv'
  PROVE  LossyInv(lm, ls, la)'
<1>u. /\ fpc[e] = from
      /\ fpc' = [fpc EXCEPT ![e] = to]
      /\ UNCHANGED <<countVars, confVars, rfin, peerSent, thrVars, netVars, db,
                     pushed, faults>>
  BY DEF Advance
<1>1. TypeOK /\ fpc \in [End -> FinishState]
  BY DEF LossyInv, TypeOK
<1>2. fpc' \in [End -> FinishState] /\ fpc'[e] = to
      /\ \A f \in End \ {e} : fpc'[f] = fpc[f]
  BY <1>u, <1>1
<1>3. TypeOK'
  BY <1>1, <1>u, <1>2 DEF TypeOK, countVars, confVars, thrVars, netVars
<1>4. FlightInv' /\ SyncInv'
  BY <1>u DEF LossyInv, FlightInv, SyncInv, thrVars, netVars
<1>5. PushInv(lm, ls)' /\ AckInv(la)' /\ RunningInv'
  BY <1>u DEF LossyInv, PushInv, AckInv, RunningInv, Acking, Uncounted, AsyncIn,
              countVars, thrVars, netVars
<1>6. \A f \in End : /\ fpc'[f] # "run" => fpc[f] # "run"
                     /\ fpc'[f] \in {"run", "fin"} => fpc[f] \in {"run", "fin"}
  BY <1>u, <1>2
<1>7. QuietInv'
  BY <1>u, <1>6 DEF LossyInv, QuietInv, Quiet, confVars, thrVars
<1>8. FinInv'
  BY <1>u, <1>6, PeerFacts DEF LossyInv, FinInv, countVars, netVars
<1>9. QED
  BY <1>3, <1>4, <1>5, <1>7, <1>8 DEF LossyInv

\* A quiet endpoint has counted every message it pushed and did not give up.
LEMMA QuietCounts ==
  ASSUME NEW lm \in [End -> Nat], NEW ls \in [End -> Nat],
         NEW la \in [End -> Nat], LossyInv(lm, ls, la),
         NEW e \in End, Quiet(e)
  PROVE  /\ pushed[e] = sent[e] + ls[e]
         /\ sent[e] >= Cardinality(net[Peer(e)]) + rcvd[Peer(e)]
<1> DEFINE p == Peer(e)
<1>0. p \in End /\ Peer(p) = e
  BY PeerFacts
<1>1. Uncounted(e) = {}
  BY DEF Quiet, Uncounted
<1>2. Cardinality(Uncounted(e)) = 0
  BY <1>1, FS_EmptySet
<1>3. sent[e] \in Nat /\ pushed[e] \in Nat /\ rcvd[p] \in Nat
      /\ Cardinality(net[p]) \in Nat
  BY <1>0, FiniteMessages DEF LossyInv, TypeOK
<1> HIDE DEF p
<1>4. pushed[e] = sent[e] + Cardinality(Uncounted(e)) + ls[e]
      /\ pushed[e] = Cardinality(net[p]) + rcvd[p] + lm[p] /\ ls[e] <= lm[p]
  BY <1>0 DEF LossyInv, PushInv
<1>5. sent[e] >= Cardinality(net[p]) + rcvd[p] /\ pushed[e] = sent[e] + ls[e]
  BY <1>0, <1>2, <1>3, <1>4
<1>6. QED
  BY <1>5 DEF p

\* When a quiet endpoint has all its acks, every message was received and no
\* ack is in flight.
LEMMA AllAcked ==
  ASSUME NEW lm \in [End -> Nat], NEW ls \in [End -> Nat],
         NEW la \in [End -> Nat], LossyInv(lm, ls, la),
         NEW e \in End, Quiet(e),
         acks[e] >= sent[e]
  PROVE  /\ acks[e] = sent[e] /\ ackNet[e] = 0
         /\ rcvd[Peer(e)] = sent[e] /\ net[Peer(e)] = {}
<1> DEFINE p == Peer(e)
<1>1. p \in End /\ Peer(p) = e
  BY PeerFacts
<1>2. sent[e] >= Cardinality(net[p]) + rcvd[p]
  BY QuietCounts
<1>3. rcvd[p] = Cardinality(db[p]) + Cardinality(Acking(p)) + ackNet[e] + acks[e] + la[p]
  BY <1>1 DEF LossyInv, AckInv
<1>4. /\ Cardinality(net[p]) \in Nat /\ Cardinality(db[p]) \in Nat
      /\ IsFiniteSet(net[p])
  BY <1>1, FiniteMessages
<1>5. Cardinality(Acking(p)) \in Nat
  BY <1>1, FiniteCounts DEF LossyInv
<1>6. /\ ackNet[e] \in Nat /\ acks[e] \in Nat /\ sent[e] \in Nat
      /\ rcvd[p] \in Nat /\ la[p] \in Nat
  BY <1>1 DEF LossyInv, TypeOK
<1> HIDE DEF p
<1>7. /\ acks[e] = sent[e] /\ ackNet[e] = 0 /\ rcvd[p] = sent[e]
      /\ Cardinality(net[p]) = 0
  BY <1>2, <1>3, <1>4, <1>5, <1>6
<1>8. net[p] = {}
  BY <1>4, <1>7, FS_EmptySet
<1>9. QED
  BY <1>7, <1>8 DEF p

\* Each wait of WaitLinkTaskFinish establishes its part of WaitInv.
LEMMA FinishStepInv ==
  ASSUME NEW lm \in [End -> Nat], NEW ls \in [End -> Nat],
         NEW la \in [End -> Nat], LossyInv(lm, ls, la),
         NEW e \in End, FinishStep(e) \/ StopServer(e)
  PROVE  LossyInv(lm, ls, la)'
<1>1. CASE SendFin(e)
  BY <1>1, SendFinStep
<1>2. ASSUME NEW from \in FinishState \ {"run", "fin"},
             NEW to \in FinishState \ {"run", "fin"}, Advance(e, from, to)
      PROVE  /\ fpc[e] = from /\ fpc'[e] = to
             /\ \A f \in End \ {e} : fpc'[f] = fpc[f]
             /\ UNCHANGED <<rfin, net, running, acks, sent>>
  BY <1>2 DEF Advance, LossyInv, TypeOK, countVars, netVars
<1>3. CASE WaitForFin(e)
  <2>1. "waitfin" \in FinishState \ {"run", "fin"}
        /\ "waitmsg" \in FinishState \ {"run", "fin"}
    BY DEF FinishState
  <2>2. rfin[e] /\ Advance(e, "waitfin", "waitmsg")
    BY <1>3 DEF WaitForFin
  <2>3. WaitInv'
    BY <1>2, <2>1, <2>2 DEF LossyInv, WaitInv
  <2>4. QED
    BY <2>1, <2>2, <2>3, AdvanceStep
<1>4. CASE WaitForFlyingMsg(e)
  <2>1. "waitmsg" \in FinishState \ {"run", "fin"}
        /\ "waitasync" \in FinishState \ {"run", "fin"}
    BY DEF FinishState
  <2>2. rcvd[e] >= peerSent[e] /\ Advance(e, "waitmsg", "waitasync")
    BY <1>4 DEF WaitForFlyingMsg
  <2>3. fpc[e] = "waitmsg" /\ rfin[e]
    BY <1>2, <2>1, <2>2 DEF LossyInv, WaitInv
  <2>4. Peer(e) \in End /\ Peer(Peer(e)) = e
    BY PeerFacts
  <2>5. peerSent[e] = sent[Peer(e)] /\ fpc[Peer(e)] # "run"
    BY <2>3 DEF LossyInv, FinInv
  <2>6. Quiet(Peer(e))
    BY <2>4, <2>5 DEF LossyInv, QuietInv
  <2>7. sent[Peer(e)] >= Cardinality(net[e]) + rcvd[e]
    BY <2>4, <2>6, QuietCounts
  <2>8. /\ Cardinality(net[e]) \in Nat /\ IsFiniteSet(net[e]) /\ rcvd[e] \in Nat
        /\ sent[Peer(e)] \in Nat
    BY <2>4, FiniteMessages DEF LossyInv, TypeOK
  <2>9. Cardinality(net[e]) = 0
    BY <2>2, <2>5, <2>7, <2>8
  <2>10. net[e] = {}
    BY <2>8, <2>9, FS_EmptySet
  <2>11. WaitInv'
    BY <1>2, <2>1, <2>2, <2>3, <2>10 DEF LossyInv, WaitInv
  <2>12. QED
    BY <2>1, <2>2, <2>11, AdvanceStep
<1>5. CASE WaitAsyncSendToFinish(e)
  <2>1. "waitasync" \in FinishState \ {"run", "fin"}
        /\ "waitack" \in FinishState \ {"run", "fin"}
    BY DEF FinishState
  <2>2. running[e] = 0 /\ Advance(e, "waitasync", "waitack")
    BY <1>5 DEF WaitAsyncSendToFinish
  <2>3. WaitInv'
    BY <1>2, <2>1, <2>2 DEF LossyInv, WaitInv
  <2>4. QED
    BY <2>1, <2>2, <2>3, AdvanceStep
<1>6. CASE WaitForFlyingAck(e)
  <2>1. "waitack" \in FinishState \ {"run", "fin"}
        /\ "done" \in FinishState \ {"run", "fin"}
    BY DEF FinishState
  <2>2. acks[e] >= sent[e] /\ Advance(e, "waitack", "done")
    BY <1>6 DEF WaitForFlyingAck
  <2>3. fpc[e] # "run"
    BY <1>2, <2>1, <2>2
  <2>4. acks[e] = sent[e]
    BY <2>2, <2>3, AllAcked DEF LossyInv, QuietInv
  <2>5. WaitInv'
    BY <1>2, <2>1, <2>2, <2>4 DEF LossyInv, WaitInv
  <2>6. QED
    BY <2>1, <2>2, <2>5, AdvanceStep
<1>7. CASE StopServer(e)
  <2>1. "done" \in FinishState \ {"run", "fin"}
        /\ "closed" \in FinishState \ {"run", "fin"}
    BY DEF FinishState
  <2>2. Advance(e, "done", "closed")
    BY <1>7 DEF StopServer
  <2>3. WaitInv'
    BY <1>2, <2>1, <2>2 DEF LossyInv, WaitInv
  <2>4. QED
    BY <2>1, <2>2, <2>3, AdvanceStep
<1>8. QED
  BY <1>1, <1>3, <1>4, <1>5, <1>6, <1>7 DEF FinishStep

\* The handler of a normal message and the answer to its RPC.
LEMMA DeliverMsgStep ==
  ASSUME NEW lm \in [End -> Nat], NEW ls \in [End -> Nat],
         NEW la \in [End -> Nat], LossyInv(lm, ls, la),
         NEW e \in End, NEW m \in net[e], DeliverMsg(e, m)
  PROVE  LossyInv(lm, ls, la)'
<1> DEFINE p == Peer(e)
<1>1. TypeOK
  BY DEF LossyInv
<1>2. p \in End /\ p # e /\ Peer(p) = e /\ \A f \in End : f = e \/ f = p
  BY PeerFacts
<1>t. /\ net \in [End -> SUBSET Msg] /\ db \in [End -> SUBSET Msg]
      /\ rcvd \in [End -> Nat] /\ running \in [End -> Nat]
      /\ ackNet \in [End -> Nat] /\ resp \in [End -> Nat]
      /\ orphans \in [End -> Nat] /\ acks \in [End -> Nat]
      /\ pushed \in [End -> Nat] /\ pc \in [End -> [Thread -> ThreadState]]
  BY <1>1 DEF TypeOK
<1>c. \A f \in End : /\ Cardinality(net[f]) \in Nat /\ IsFiniteSet(net[f])
                     /\ Cardinality(db[f]) \in Nat /\ IsFiniteSet(db[f])
                     /\ Cardinality(AsyncIn(f)) \in Nat /\ IsFiniteSet(AsyncIn(f))
                     /\ Cardinality(finNet[f]) \in Nat
                     /\ Cardinality(Acking(f)) \in Nat
  BY <1>1, FiniteMessages, FiniteCounts
<1>u. /\ net' = [net EXCEPT ![e] = @ \ {m}]
      /\ rcvd' = [rcvd EXCEPT ![e] = @ + 1]
      /\ UNCHANGED <<sent, acks, confVars, finVars, wcount, finNet, pushed, faults>>
  BY DEF DeliverMsg, OnNormalMessage
<1>s. m.rpc \in Thread \cup {Async} /\ (m.rpc \in Thread => pc[p][m.rpc] = "rpc")
  <2>1. m.rpc \in Thread \cup {Async, Orphan}
    BY <1>t DEF Msg
  <2>2. QED
    BY <2>1 DEF LossyInv, SyncInv
<1>i. /\ orphans[p] \in Nat /\ orphans[e] \in Nat
      /\ ackNet[p] \in Nat /\ resp[p] \in Nat /\ resp[e] \in Nat /\ acks[p] \in Nat
      /\ running[e] \in Nat /\ rcvd[e] \in Nat /\ ackNet[e] \in Nat
      /\ Cardinality(net[e]) \in Nat /\ IsFiniteSet(net[e])
      /\ Cardinality(db[e]) \in Nat /\ Cardinality(Acking(e)) \in Nat
      /\ Cardinality(AsyncIn(e)) \in Nat /\ Cardinality(AsyncIn(p)) \in Nat
      /\ Cardinality(finNet[e]) \in Nat /\ Cardinality(finNet[p]) \in Nat
  BY <1>2, <1>t, <1>c
<1> HIDE DEF p
\* the RPC's answer
<1>r. /\ m.rpc = Async =>
           AnswerAsync(e) /\ pc' = pc
      /\ m.rpc # Async =>
           m.rpc \in Thread /\ UNCHANGED <<resp, orphans>> /\ Goto(p, m.rpc, "count")
  BY <1>s DEF DeliverMsg, AnswerSync, Goto, p
<1>p. /\ pc' \in [End -> [Thread -> ThreadState]]
      /\ pc'[e] = pc[e]
      /\ m.rpc \notin Thread => pc' = pc
      /\ m.rpc \in Thread => \A v \in Thread \ {m.rpc} : pc'[p][v] = pc[p][v]
      /\ \A f \in End : /\ Cardinality(Acking(f)') = Cardinality(Acking(f))
                        /\ Cardinality(Uncounted(f)') = Cardinality(Uncounted(f))
  <2>0. Thread \cap {Async} = {}
    BY ChannelAssumption
  <2>1. CASE m.rpc = Async
    BY <2>0, <2>1, <1>r, <1>t, SameCounts
  <2>2. CASE m.rpc # Async
    <3>1. "count" \in ThreadState
      BY DEF ThreadState
    <3>2. m.rpc \in Thread /\ Goto(p, m.rpc, "count") /\ pc[p][m.rpc] = "rpc"
      BY <2>2, <1>r, <1>s
    <3>3. QED
      BY <3>1, <3>2, <1>1, <1>2, GotoCounts, ZenonT(60)
  <2>3. QED
    BY <2>1, <2>2
\* the messages in flight
<1>n. /\ net' \in [End -> SUBSET Msg]
      /\ net'[p] = net[p] /\ net'[e] = net[e] \ {m}
      /\ IsFiniteSet(net'[e])
      /\ Cardinality(net'[e]) = Cardinality(net[e]) - 1
      /\ rcvd' \in [End -> Nat] /\ rcvd'[e] = rcvd[e] + 1 /\ rcvd'[p] = rcvd[p]
  <2>1. /\ net' \in [End -> SUBSET Msg]
        /\ net'[p] = net[p] /\ net'[e] = net[e] \ {m}
        /\ rcvd' \in [End -> Nat] /\ rcvd'[e] = rcvd[e] + 1 /\ rcvd'[p] = rcvd[p]
    BY <1>u, <1>t, <1>2
  <2>2. /\ IsFiniteSet(net[e] \ {m})
        /\ Cardinality(net[e] \ {m}) = Cardinality(net[e]) - 1
    BY <1>i, CardChange
  <2>3. QED
    BY <2>1, <2>2
<1>a. /\ AsyncIn(p)' = AsyncIn(p)
      /\ resp' \in [End -> Nat] /\ resp'[e] = resp[e]
      /\ orphans' \in [End -> Nat] /\ orphans'[e] = orphans[e]
      /\ Cardinality(AsyncIn(e)') + resp'[p] + orphans[p]
           = Cardinality(AsyncIn(e)) + resp[p] + orphans'[p]
      /\ Cardinality(AsyncIn(e)') \in Nat
      /\ resp'[p] <= running[p]
  <2>1. AsyncIn(p)' = AsyncIn(p)
    BY <1>n DEF AsyncIn
  <2>2. CASE m.rpc = Async
    <3>1. AsyncIn(e)' = AsyncIn(e) \ {m} /\ m \in AsyncIn(e)
      BY <1>n, <2>2 DEF AsyncIn
    <3>2. IsFiniteSet(AsyncIn(e)) /\ Cardinality(AsyncIn(e)) \in Nat
      BY <1>c
    <3>3. /\ Cardinality(AsyncIn(e)') = Cardinality(AsyncIn(e)) - 1
          /\ Cardinality(AsyncIn(e)) > 0
      BY <3>1, <3>2, CardChange
    <3>4. /\ resp' \in [End -> Nat] /\ orphans' \in [End -> Nat]
          /\ resp'[e] = resp[e] /\ orphans'[e] = orphans[e]
          /\ resp'[p] + orphans[p] = resp[p] + orphans'[p] + 1
          /\ resp'[p] <= running[p]
          /\ resp'[p] \in Nat /\ orphans'[p] \in Nat
      BY <2>2, <1>r, AnswerStep DEF p
    <3>5. /\ Cardinality(AsyncIn(e)') + resp'[p] + orphans[p]
               = Cardinality(AsyncIn(e)) + resp[p] + orphans'[p]
          /\ Cardinality(AsyncIn(e)') \in Nat
      BY <3>2, <3>3, <3>4, <1>i
    <3>6. QED
      BY <2>1, <3>4, <3>5
  <2>3. CASE m.rpc # Async
    <3>1. AsyncIn(e)' = AsyncIn(e)
      BY <1>n, <2>3 DEF AsyncIn
    <3>2. resp[p] <= running[p]
      BY RunningParts DEF p
    <3>3. QED
      BY <2>1, <2>3, <3>1, <3>2, <1>r, <1>t, <1>c
  <2>4. QED
    BY <2>2, <2>3
\* storing or acknowledging
<1>d. /\ db' \in [End -> SUBSET Msg] /\ db'[p] = db[p] /\ IsFiniteSet(db'[e])
      /\ ackNet' \in [End -> Nat] /\ ackNet'[e] = ackNet[e]
      /\ running' \in [End -> Nat] /\ running'[p] = running[p]
      /\ Cardinality(db'[e]) + ackNet'[p] = Cardinality(db[e]) + ackNet[p] + 1
      /\ running'[e] - ackNet'[p] = running[e] - ackNet[p]
      /\ ackNet'[p] >= ackNet[p]
      /\ Cardinality(db'[e]) \in Nat
      /\ waiting[e] => db'[e] = db[e]
  <2>1. CASE Stores(e, m)
    <3>1. db' = [db EXCEPT ![e] = @ \cup {m}] /\ UNCHANGED <<ackNet, running>>
      BY <2>1 DEF DeliverMsg, OnNormalMessage
    <3>2. m \notin db[e] /\ ~waiting[e]
      BY <2>1 DEF Stores
    <3>3. m \in Msg
      BY <1>t
    <3>4. db' \in [End -> SUBSET Msg] /\ db'[e] = db[e] \cup {m} /\ db'[p] = db[p]
      BY <3>1, <3>3, <1>t, <1>2
    <3>5. IsFiniteSet(db[e]) /\ Cardinality(db[e]) \in Nat
      BY <1>c
    <3>6. IsFiniteSet(db'[e]) /\ Cardinality(db'[e]) = Cardinality(db[e]) + 1
      BY <3>2, <3>4, <3>5, CardChange
    <3>7. /\ Cardinality(db'[e]) + ackNet'[p] = Cardinality(db[e]) + ackNet[p] + 1
          /\ Cardinality(db'[e]) \in Nat
      BY <3>1, <3>5, <3>6, <1>i
    <3>8. QED
      BY <3>1, <3>2, <3>4, <3>6, <3>7, <1>t, <1>i
  <2>2. CASE ~Stores(e, m)
    <3>1. /\ ackNet' = [ackNet EXCEPT ![p] = @ + 1]
          /\ running' = [running EXCEPT ![e] = @ + 1]
          /\ db' = db
      BY <2>2 DEF DeliverMsg, OnNormalMessage, SendAcks, p
    <3>2. /\ ackNet' \in [End -> Nat] /\ running' \in [End -> Nat]
          /\ ackNet'[e] = ackNet[e] /\ ackNet'[p] = ackNet[p] + 1
          /\ running'[p] = running[p] /\ running'[e] = running[e] + 1
      BY <3>1, <1>t, <1>2
    <3>3. IsFiniteSet(db[e]) /\ Cardinality(db[e]) \in Nat
      BY <1>c
    <3>4. /\ Cardinality(db'[e]) + ackNet'[p] = Cardinality(db[e]) + ackNet[p] + 1
          /\ running'[e] - ackNet'[p] = running[e] - ackNet[p]
      BY <3>1, <3>2, <1>i
    <3>5. QED
      BY <3>1, <3>2, <3>3, <3>4, <1>t, <1>i
  <2>3. QED
    BY <2>1, <2>2
<1>3. TypeOK'
  BY <1>1, <1>u, <1>p, <1>n, <1>a, <1>d DEF TypeOK, confVars, finVars
<1>4. FlightInv'
  <2>1. \A f \in End : net'[f] \subseteq net[f] /\ IsFiniteSet(net'[f])
                       /\ IsFiniteSet(db'[f])
    BY <1>2, <1>c, <1>n, <1>d
  <2>2. QED
    BY <2>1, <1>u DEF LossyInv, FlightInv
<1>5. SyncInv'
  <2>1. \A n \in net'[e] : n.rpc \in Thread => n.rpc # m.rpc
    BY <1>n DEF LossyInv, SyncInv
  <2>2. \A n \in net'[e] : n.rpc \in Thread => pc'[p][n.rpc] = "rpc"
    <3> SUFFICES ASSUME NEW n \in net'[e], n.rpc \in Thread
                 PROVE  pc'[p][n.rpc] = "rpc"
      OBVIOUS
    <3>1. pc[p][n.rpc] = "rpc" /\ n.rpc # m.rpc
      BY <2>1, <1>n DEF LossyInv, SyncInv, p
    <3>2. QED
      BY <3>1, <1>p
  <2>3. \A n \in net'[p] : n.rpc \in Thread => pc'[e][n.rpc] = "rpc"
    BY <1>2, <1>n, <1>p DEF LossyInv, SyncInv
  <2>4. \A f \in End : net'[f] \subseteq net[f]
    BY <1>2, <1>n
  <2>5. \A f \in End : \A n \in net'[f] :
          n.rpc \in Thread => pc'[Peer(f)][n.rpc] = "rpc"
    BY <2>2, <2>3, <1>2 DEF p
  <2>6. QED
    BY <2>4, <2>5 DEF LossyInv, SyncInv
<1>6. PushInv(lm, ls)'
  <2>1. /\ pushed[p] = Cardinality(net[e]) + rcvd[e] + lm[e]
        /\ pushed[e] = Cardinality(net[p]) + rcvd[p] + lm[p]
        /\ \A f \in End : pushed[f] = sent[f] + Cardinality(Uncounted(f)) + ls[f]
    BY <1>2 DEF LossyInv, PushInv, p
  <2>2. pushed[p] = Cardinality(net'[e]) + rcvd'[e] + lm[e]
    BY <2>1, <1>2, <1>t, <1>c, <1>n
  <2>3. pushed[e] = Cardinality(net'[p]) + rcvd'[p] + lm[p]
    BY <2>1, <1>n
  <2>4. \A f \in End : pushed[f] = sent[f] + Cardinality(Uncounted(f)') + ls[f]
    BY <2>1, <1>p
  <2>5. QED
    BY <2>2, <2>3, <2>4, <1>2, <1>u DEF LossyInv, PushInv, p
<1>7. AckInv(la)'
  <2>1. /\ rcvd[e] = Cardinality(db[e]) + Cardinality(Acking(e)) + ackNet[p] + acks[p] + la[e]
        /\ rcvd[p] = Cardinality(db[p]) + Cardinality(Acking(p)) + ackNet[e] + acks[e] + la[p]
    BY <1>2 DEF LossyInv, AckInv, p
  <2>2. rcvd'[e] = Cardinality(db'[e]) + Cardinality(Acking(e)') + ackNet'[p] + acks[p] + la[e]
    <3>1. /\ Cardinality(Acking(e)') = Cardinality(Acking(e))
          /\ ackNet'[p] \in Nat
      BY <1>2, <1>p, <1>d
    <3>2. QED
      BY <2>1, <3>1, <1>i, <1>n, <1>d
  <2>3. rcvd'[p] = Cardinality(db'[p]) + Cardinality(Acking(p)') + ackNet'[e] + acks[e] + la[p]
    BY <2>1, <1>2, <1>n, <1>p, <1>d
  <2>4. QED
    BY <2>2, <2>3, <1>2, <1>u DEF AckInv, p
<1>8. RunningInv'
  <2>1. /\ running[e] + orphans[e] = Cardinality(AsyncIn(p)) + ackNet[p]
                                       + Cardinality(finNet[p]) + resp[e]
        /\ running[p] + orphans[p] = Cardinality(AsyncIn(e)) + ackNet[e]
                                       + Cardinality(finNet[e]) + resp[p]
        /\ resp[e] <= running[e]
    BY RunningParts DEF p
  <2>2. /\ running'[e] + orphans'[e] = Cardinality(AsyncIn(p)') + ackNet'[p]
                                         + Cardinality(finNet[p]) + resp'[e]
        /\ resp'[e] <= running'[e]
    <3>1. ackNet'[p] \in Nat /\ running'[e] \in Nat /\ ackNet'[p] >= ackNet[p]
      BY <1>2, <1>d
    <3>2. /\ Cardinality(AsyncIn(p)') = Cardinality(AsyncIn(p))
          /\ resp'[e] = resp[e] /\ orphans'[e] = orphans[e]
      BY <1>a
    <3>3. running'[e] - ackNet'[p] = running[e] - ackNet[p]
      BY <1>d
    <3>4. Balanced(running[e], orphans[e], Cardinality(AsyncIn(p)), ackNet[p],
                   Cardinality(finNet[p]), resp[e])
      BY <2>1 DEF Balanced
    <3>5. Balanced(running'[e], orphans[e], Cardinality(AsyncIn(p)), ackNet'[p],
                   Cardinality(finNet[p]), resp[e])
      BY <3>1, <3>3, <3>4, <1>i, SumGrows
    <3>6. resp[e] <= running'[e]
      BY <2>1, <3>1, <3>3, <1>i
    <3>7. QED
      BY <3>2, <3>5, <3>6 DEF Balanced
  <2>3. /\ running'[p] + orphans'[p] = Cardinality(AsyncIn(e)') + ackNet'[e]
                                         + Cardinality(finNet[e]) + resp'[p]
        /\ resp'[p] <= running'[p]
    <3>1. /\ running'[p] = running[p] /\ ackNet'[e] = ackNet[e]
          /\ running[p] \in Nat /\ orphans'[p] \in Nat
      BY <1>2, <1>a, <1>d, <1>t
    <3>2. /\ Cardinality(AsyncIn(e)') + resp'[p] + orphans[p]
               = Cardinality(AsyncIn(e)) + resp[p] + orphans'[p]
          /\ resp'[p] <= running[p]
      BY <1>a
    <3>3. Cardinality(AsyncIn(e)') \in Nat /\ resp'[p] \in Nat
      BY <1>a, <1>2
    <3>4. Balanced(running[p], orphans[p], Cardinality(AsyncIn(e)), ackNet[e],
                   Cardinality(finNet[e]), resp[p])
      BY <2>1 DEF Balanced
    <3>5. Balanced(running[p], orphans'[p], Cardinality(AsyncIn(e)'), ackNet[e],
                   Cardinality(finNet[e]), resp'[p])
      BY <3>1, <3>2, <3>3, <3>4, <1>i, SumMoves
    <3>6. QED
      BY <3>1, <3>2, <3>5 DEF Balanced
  <2>4. QED
    BY <2>2, <2>3, <1>2, <1>u DEF RunningInv, p
<1>9. QuietInv'
  <2>1. fpc[e] # "run" => waiting[e] /\ db'[e] = {} /\ Quiet(e)'
    BY <1>d, <1>p DEF LossyInv, QuietInv, Quiet
  <2>2. fpc[p] # "run" => waiting[p] /\ db'[p] = {} /\ Quiet(p)'
    <3> SUFFICES ASSUME fpc[p] # "run"
                 PROVE  waiting[p] /\ db'[p] = {} /\ Quiet(p)'
      OBVIOUS
    <3>1. waiting[p] /\ db[p] = {} /\ Quiet(p)
      BY <1>2 DEF LossyInv, QuietInv
    <3>2. m.rpc \notin Thread
      BY <3>1, <1>s DEF Quiet
    <3>3. QED
      BY <3>1, <3>2, <1>d, <1>p DEF Quiet
  <2>3. QED
    BY <2>1, <2>2, <1>2, <1>u DEF QuietInv, confVars, finVars
<1>10. FinInv'
  BY <1>u DEF LossyInv, FinInv, finVars
<1>11. WaitInv'
  <2>1. fpc[e] \notin {"waitasync", "waitack", "done", "closed"}
    BY DEF LossyInv, WaitInv
  <2>2. \A f \in End : fpc[f] \in {"waitasync", "waitack", "done", "closed"} =>
                         net'[f] = net[f] /\ running'[f] = running[f]
    BY <2>1, <1>2, <1>n, <1>d
  <2>3. QED
    BY <2>2, <1>u DEF LossyInv, WaitInv, finVars
<1>12. QED
  BY <1>3, <1>4, <1>5, <1>6, <1>7, <1>8, <1>9, <1>10, <1>11 DEF LossyInv

-----------------------------------------------------------------------------
(* The theorems.                                                           *)

\* A channel starts with everything empty.
LEMMA InitInv == Init => IInv
<1> SUFFICES ASSUME Init PROVE IInv
  OBVIOUS
<1> USE DEF Init
<1>1. TypeOK
  BY ChannelAssumption DEF TypeOK, ThreadState, FinishState
<1>2. \A e \in End : /\ Acking(e) = {} /\ Uncounted(e) = {} /\ AsyncIn(e) = {}
                     /\ net[e] = {} /\ db[e] = {} /\ finNet[e] = {}
                     /\ sent[e] = 0 /\ rcvd[e] = 0 /\ acks[e] = 0 /\ running[e] = 0
                     /\ ackNet[e] = 0 /\ resp[e] = 0 /\ pushed[e] = 0
                     /\ orphans[e] = 0
                     /\ fpc[e] = "run" /\ ~rfin[e]
  BY DEF Acking, Uncounted, AsyncIn
<1>3. IsFiniteSet({}) /\ Cardinality({}) = 0
  BY FS_EmptySet
<1>4. FlightInv /\ SyncInv
  BY <1>2, <1>3 DEF FlightInv, SyncInv
<1>5. PushInv(NoLoss, NoLoss) /\ AckInv(NoLoss) /\ RunningInv
  <2>1. \A e \in End : /\ Cardinality(Acking(e)) = 0 /\ Cardinality(Uncounted(e)) = 0
                       /\ Cardinality(AsyncIn(e)) = 0 /\ Cardinality(net[e]) = 0
                       /\ Cardinality(db[e]) = 0 /\ Cardinality(finNet[e]) = 0
    BY <1>2, <1>3
  <2>2. \A e \in End : Peer(e) \in End
    BY PeerFacts
  <2> HIDE DEF Init
  <2>3. QED
    BY <1>2, <2>1, <2>2 DEF PushInv, AckInv, RunningInv, NoLoss
<1>6. QuietInv /\ FinInv /\ WaitInv
  BY <1>2 DEF QuietInv, FinInv, WaitInv
<1>7. QED
  BY <1>1, <1>4, <1>5, <1>6 DEF IInv, LossyInv

\* Every step of both endpoints, their threads and the RPC layer preserves the
\* invariant and loses nothing.
LEMMA NextLossy ==
  ASSUME NEW lm \in [End -> Nat], NEW ls \in [End -> Nat],
         NEW la \in [End -> Nat], LossyInv(lm, ls, la),
         [Next]_vars
  PROVE  LossyInv(lm, ls, la)'
<1>1. CASE UNCHANGED vars
  <2>1. window' \in [End -> Window]
    BY <1>1 DEF LossyInv, TypeOK, vars, confVars
  <2>2. QED
    BY <1>1, <2>1, WindowStep DEF vars, confVars
<1>2. CASE Terminating
  BY <1>1, <1>2 DEF Terminating
<1>3. ASSUME NEW e \in End, Application(e)
      PROVE  LossyInv(lm, ls, la)'
  BY <1>3, SendStep, RecvStep, ThrottleStep, SetThrottleWindowSizeStep, StopStep,
     FinishStepInv
     DEF Application
<1>4. ASSUME NEW e \in End, NEW t \in Thread, ThreadStep(e, t)
      PROVE  LossyInv(lm, ls, la)'
  BY <1>4, CountSentStep, ThrottleStep, RecvAckStep DEF ThreadStep
<1>5. ASSUME NEW e \in End, FinishStep(e)
      PROVE  LossyInv(lm, ls, la)'
  BY <1>5, FinishStepInv
<1>6. ASSUME NEW e \in End, DeliverStep(e)
      PROVE  LossyInv(lm, ls, la)'
  BY <1>6, DeliverMsgStep, DeliverAckStep, DeliverFinStep, OnPushDoneStep
     DEF DeliverStep
<1>7. QED
  BY <1>1, <1>2, <1>3, <1>4, <1>5, <1>6 DEF Next

\* As long as no RPC has failed, a step without a fault makes none fail.
LEMMA NoOrphanStep ==
  ASSUME \A f \in End : orphans[f] = 0, [Next]_vars
  PROVE  UNCHANGED orphans
<1>0. ASSUME NEW e \in End, AnswerAsync(e) PROVE orphans' = orphans
  BY <1>0, PeerFacts DEF AnswerAsync
<1>1. CASE UNCHANGED vars
  BY <1>1 DEF vars, netVars
<1>2. ASSUME NEW e \in End, Application(e) PROVE orphans' = orphans
  BY <1>2 DEF Application, SendAsync, Send, Recv, ThrottleTimeout,
              SetThrottleWindowSize, StopReceivingAndAckUnreadMsgs, StopServer,
              Advance, netVars
<1>3. ASSUME NEW e \in End, NEW t \in Thread, ThreadStep(e, t)
      PROVE  orphans' = orphans
  BY <1>3 DEF ThreadStep, CountSent, ThrottleWindowWait, RecvAck, netVars
<1>4. ASSUME NEW e \in End, FinishStep(e) PROVE orphans' = orphans
  BY <1>4 DEF FinishStep, SendFin, WaitForFin, WaitForFlyingMsg,
              WaitAsyncSendToFinish, WaitForFlyingAck, Advance, netVars
<1>5. ASSUME NEW e \in End, DeliverStep(e) PROVE orphans' = orphans
  BY <1>0, <1>5 DEF DeliverStep, DeliverMsg, DeliverAck, DeliverFin, OnPushDone,
                    AnswerSync
<1>6. QED
  BY <1>1, <1>2, <1>3, <1>4, <1>5 DEF Next, Terminating

\* Nothing is lost, and no RPC fails, in a channel without RPC faults.
LEMMA NextInv == IInv /\ [Next]_vars => IInv'
<1>1. NoLoss \in [End -> Nat]
  BY DEF NoLoss
<1>2. NoLoss' = NoLoss
  BY DEF NoLoss
<1>3. IInv /\ [Next]_vars => orphans' = orphans
  BY NoOrphanStep DEF IInv
<1>4. QED
  BY <1>1, <1>2, <1>3, NextLossy DEF IInv

\* What the invariant says of a channel without RPC faults.
LEMMA Exact ==
  ASSUME IInv
  PROVE  /\ LossyInv(NoLoss, NoLoss, NoLoss) /\ NoLoss \in [End -> Nat]
         /\ TypeOK /\ AckOnce
         /\ \A e \in End : /\ pushed[Peer(e)] = Cardinality(net[e]) + rcvd[e]
                          /\ pushed[e] = sent[e] + Cardinality(Uncounted(e))
<1>1. LossyInv(NoLoss, NoLoss, NoLoss) /\ NoLoss \in [End -> Nat] /\ TypeOK
  BY DEF IInv, LossyInv, NoLoss
<1>2. \A e \in End : NoLoss[e] = 0
  BY DEF NoLoss
<1>3. ASSUME NEW e \in End
      PROVE  /\ pushed[Peer(e)] = Cardinality(net[e]) + rcvd[e]
             /\ pushed[e] = sent[e] + Cardinality(Uncounted(e))
             /\ rcvd[e] = Cardinality(db[e]) + Cardinality(Acking(e))
                            + ackNet[Peer(e)] + acks[Peer(e)]
  <2> DEFINE p == Peer(e)
  <2>1. p \in End
    BY PeerFacts
  <2>2. /\ Cardinality(net[e]) \in Nat /\ Cardinality(db[e]) \in Nat
        /\ Cardinality(Uncounted(e)) \in Nat /\ Cardinality(Acking(e)) \in Nat
    BY <1>1, FiniteMessages, FiniteCounts
  <2>3. /\ rcvd[e] \in Nat /\ sent[e] \in Nat /\ ackNet[p] \in Nat
        /\ acks[p] \in Nat
    BY <1>1, <2>1 DEF TypeOK
  <2> HIDE DEF p
  <2>4. /\ pushed[p] = Cardinality(net[e]) + rcvd[e] + NoLoss[e]
        /\ pushed[e] = sent[e] + Cardinality(Uncounted(e)) + NoLoss[e]
        /\ rcvd[e] = Cardinality(db[e]) + Cardinality(Acking(e))
                       + ackNet[p] + acks[p] + NoLoss[e]
    BY <1>1 DEF LossyInv, PushInv, AckInv, p
  <2>5. /\ pushed[p] = Cardinality(net[e]) + rcvd[e]
        /\ pushed[e] = sent[e] + Cardinality(Uncounted(e))
        /\ rcvd[e] = Cardinality(db[e]) + Cardinality(Acking(e)) + ackNet[p] + acks[p]
    BY <2>2, <2>3, <2>4, <1>2
  <2>6. QED
    BY <2>5 DEF p
<1>4. QED
  BY <1>1, <1>3 DEF AckOnce

\* An endpoint that has finished has its outbox done and nothing on its way to
\* it, also when messages, acks and fins were lost before.
LEMMA FinishedInv ==
  ASSUME NEW lm \in [End -> Nat], NEW ls \in [End -> Nat],
         NEW la \in [End -> Nat], LossyInv(lm, ls, la)
  PROVE  PortSafe /\ OutboxDone
<1> SUFFICES ASSUME NEW e \in End, Finished(e)
             PROVE  /\ net[e] = {} /\ ackNet[e] = 0 /\ finNet[e] = {}
                    /\ acks[e] = sent[e] /\ rcvd[Peer(e)] = sent[e]
                    /\ running[e] = 0
  BY DEF PortSafe, OutboxDone
<1>1. fpc[e] \in {"done", "closed"}
  BY DEF Finished
<1>2. net[e] = {} /\ rfin[e] /\ running[e] = 0 /\ acks[e] = sent[e] /\ Quiet(e)
  BY <1>1 DEF LossyInv, WaitInv, QuietInv
<1>3. finNet[e] = {}
  BY <1>2 DEF LossyInv, FinInv
<1>4. acks[e] >= sent[e]
  BY <1>2 DEF LossyInv, TypeOK
<1>5. QED
  BY <1>2, <1>3, <1>4, AllAcked

\* The invariant holds in every state of a channel without RPC faults.
THEOREM Invariance == Spec => []IInv
  BY InitInv, NextInv, PTL DEF Spec

\* The counters, sets and program counters of a channel stay in their types: in
\* particular running_async_count_ never goes below zero (the YASL_ENFORCE of
\* SubAsyncCount, channel_brpc.cc:254).
THEOREM TypeCorrect == Spec => []TypeOK
<1>1. IInv => TypeOK
  BY Exact
<1>2. QED
  BY <1>1, Invariance, PTL

\* Every received message is unread, about to be acknowledged or acknowledged
\* exactly once (Recv, OnNormalMessage, StopReceivingAndAckUnreadMsgs).
THEOREM AcksAreExact == Spec => []AckOnce
<1>1. IInv => AckOnce
  BY Exact
<1>2. QED
  BY <1>1, Invariance, PTL

\* Without RPC faults WaitLinkTaskFinish returns only when nothing is, or ever
\* will be, on its way to the endpoint (channel.cc:262-277).
THEOREM PortSafety == Spec => []PortSafe
<1>1. IInv => PortSafe
  BY Exact, FinishedInv
<1>2. QED
  BY <1>1, Invariance, PTL

\* Without RPC faults WaitLinkTaskFinish returns only when each message of the
\* endpoint has been received and acknowledged and no RPC of it is running.
THEOREM OutboxCompleteness == Spec => []OutboxDone
<1>1. IInv => OutboxDone
  BY Exact, FinishedInv
<1>2. QED
  BY <1>1, Invariance, PTL

-----------------------------------------------------------------------------
(* RPCs that are lost.                                                     *)

\* One more loss at endpoint e.
OneMore(l, e) == [l EXCEPT ![e] = @ + 1]

\* Of the RPCs of the peer of e, running or failed, there is one less.
Fewer(e) ==
  LET p == Peer(e)
  IN  /\ running' \in [End -> Nat] /\ orphans' \in [End -> Nat]
      /\ running'[e] = running[e] /\ orphans'[e] = orphans[e]
      /\ running[p] + orphans[p] = running'[p] + orphans'[p] + 1
      /\ resp[p] <= running'[p] /\ running'[p] <= running[p]
      /\ running'[p] \in Nat /\ orphans'[p] \in Nat

\* Losing an asynchronous RPC, failed or not, makes them fewer.
LEMMA FailFewer ==
  ASSUME NEW lm \in [End -> Nat], NEW ls \in [End -> Nat],
         NEW la \in [End -> Nat], LossyInv(lm, ls, la),
         NEW e \in End, FailAsync(e)
  PROVE  Fewer(e)
<1> DEFINE p == Peer(e)
<1>1. p \in End /\ p # e
  BY PeerFacts
<1>2. running \in [End -> Nat] /\ orphans \in [End -> Nat]
  BY DEF LossyInv, TypeOK
<1>3. CASE /\ InFlight(e) > orphans[p] /\ orphans' = orphans
           /\ running' = [running EXCEPT ![p] = @ - 1]
  <2>1. Cardinality(AsyncIn(e)) + ackNet[e] + Cardinality(finNet[e]) > orphans[p]
    BY <1>3 DEF InFlight
  <2>2. resp[p] + 1 <= running[p] /\ resp[p] \in Nat
    BY <2>1, RunningParts
  <2>3. /\ running' \in [End -> Nat] /\ running'[e] = running[e]
        /\ running'[p] = running[p] - 1
    BY <2>2, <1>1, <1>2, <1>3
  <2>4. QED
    BY <2>2, <2>3, <1>1, <1>2, <1>3 DEF Fewer
<1>4. CASE /\ orphans[p] > 0 /\ running' = running
           /\ orphans' = [orphans EXCEPT ![p] = @ - 1]
  <2>1. /\ orphans' \in [End -> Nat] /\ orphans'[e] = orphans[e]
        /\ orphans'[p] = orphans[p] - 1
    BY <1>1, <1>2, <1>4
  <2>2. resp[p] <= running[p]
    BY RunningParts
  <2>3. QED
    BY <2>1, <2>2, <1>1, <1>2, <1>4 DEF Fewer
<1>5. QED
  BY <1>3, <1>4 DEF FailAsync

\* The loss of an asynchronous RPC takes something off the network and, unless it
\* had failed before, one off running_async_count_, and disturbs nothing else.
LEMMA FailAsyncStep ==
  ASSUME NEW lm \in [End -> Nat], NEW ls \in [End -> Nat],
         NEW la \in [End -> Nat], LossyInv(lm, ls, la),
         NEW e \in End, FailAsync(e),
         net' \in [End -> SUBSET Msg], \A f \in End : net'[f] \subseteq net[f],
         ackNet' \in [End -> Nat],
         finNet' \in [End -> SUBSET Nat],
         \A f \in End : finNet'[f] \subseteq finNet[f],
         faults' \in [FaultKind -> Nat]
  PROVE  /\ TypeOK' /\ FlightInv' /\ SyncInv' /\ QuietInv' /\ FinInv' /\ WaitInv'
         /\ Fewer(e)
         /\ \A f \in End : Acking(f)' = Acking(f) /\ Uncounted(f)' = Uncounted(f)
         /\ UNCHANGED <<sent, rcvd, acks, resp, db, pushed>>
<1> DEFINE p == Peer(e)
<1>u. UNCHANGED <<sent, rcvd, acks, confVars, finVars, thrVars, resp, db, pushed>>
  BY DEF FailAsync
<1>1. TypeOK /\ running \in [End -> Nat]
  BY DEF LossyInv, TypeOK
<1>2. p \in End /\ p # e /\ Peer(p) = e /\ \A f \in End : f = e \/ f = p
  BY PeerFacts
<1>f. Fewer(e)
  BY FailFewer
<1>3. /\ running' \in [End -> Nat] /\ orphans' \in [End -> Nat]
      /\ running'[p] <= running[p] /\ running'[e] = running[e]
  BY <1>f DEF Fewer
<1> HIDE DEF p
<1>4. TypeOK'
  BY <1>1, <1>3, <1>u DEF TypeOK, confVars, finVars, thrVars
<1>5. FlightInv'
  <2>1. \A f \in End : IsFiniteSet(net[f]) /\ IsFiniteSet(db[f])
    BY DEF LossyInv, FlightInv
  <2>2. \A f \in End : IsFiniteSet(net'[f])
    BY <2>1, FS_Subset
  <2>3. QED
    BY <2>1, <2>2, <1>u DEF LossyInv, FlightInv
<1>6. SyncInv'
  BY <1>u DEF LossyInv, SyncInv, thrVars
<1>7. QuietInv'
  BY <1>u DEF LossyInv, QuietInv, Quiet, confVars, finVars, thrVars
<1>8. FinInv'
  <2> SUFFICES ASSUME NEW f \in End
               PROVE  /\ finNet'[f] \subseteq {sent[Peer(f)]}
                      /\ fpc[Peer(f)] \in {"run", "fin"} => finNet'[f] = {} /\ ~rfin[f]
                      /\ rfin[f] => finNet'[f] = {} /\ peerSent[f] = sent[Peer(f)]
    BY <1>u DEF FinInv, finVars
  <2>1. finNet'[f] \subseteq finNet[f]
    OBVIOUS
  <2>2. QED
    BY <2>1 DEF LossyInv, FinInv
<1>9. WaitInv'
  <2>1. \A f \in End : running[f] = 0 => running'[f] = 0
    BY <1>1, <1>2, <1>3
  <2>2. \A f \in End : net[f] = {} => net'[f] = {}
    OBVIOUS
  <2>3. QED
    BY <2>1, <2>2, <1>u DEF LossyInv, WaitInv, finVars
<1>10. \A f \in End : Acking(f)' = Acking(f) /\ Uncounted(f)' = Uncounted(f)
  BY <1>u, SameCounts DEF thrVars
<1>11. QED
  BY <1>4, <1>5, <1>6, <1>7, <1>8, <1>9, <1>10, <1>f, <1>u

\* An asynchronous message is lost on its way to e.
LEMMA LoseMsgStep ==
  ASSUME NEW lm \in [End -> Nat], NEW ls \in [End -> Nat],
         NEW la \in [End -> Nat], LossyInv(lm, ls, la),
         NEW e \in End, NEW m \in net[e], LoseMsg(e, m),
         faults' \in [FaultKind -> Nat]
  PROVE  LossyInv(OneMore(lm, e), ls, la)'
<1> DEFINE p == Peer(e)
<1>u. /\ m.rpc = Async /\ net' = [net EXCEPT ![e] = @ \ {m}]
      /\ FailAsync(e) /\ UNCHANGED <<ackNet, finNet>>
  BY DEF LoseMsg
<1>2. p \in End /\ p # e /\ Peer(p) = e /\ \A f \in End : f = e \/ f = p
  BY PeerFacts
<1>t. /\ net \in [End -> SUBSET Msg] /\ ackNet \in [End -> Nat]
      /\ finNet \in [End -> SUBSET Nat] /\ rcvd[e] \in Nat
  BY DEF LossyInv, TypeOK
<1>3. net' \in [End -> SUBSET Msg] /\ net'[e] = net[e] \ {m} /\ net'[p] = net[p]
  BY <1>u, <1>t, <1>2
<1>4. /\ AsyncIn(e)' = AsyncIn(e) \ {m} /\ m \in AsyncIn(e)
      /\ AsyncIn(p)' = AsyncIn(p)
  BY <1>u, <1>3 DEF AsyncIn
<1>5. IsFiniteSet(net[e]) /\ IsFiniteSet(AsyncIn(e))
  BY FiniteMessages
<1>6. /\ Cardinality(net'[e]) = Cardinality(net[e]) - 1 /\ Cardinality(net[e]) \in Nat
  <2>1. /\ Cardinality(net[e] \ {m}) = Cardinality(net[e]) - 1
        /\ Cardinality(net[e]) \in Nat
    <3>1. IsFiniteSet(net[e]) /\ m \in net[e]
      BY <1>5
    <3>2. QED
      BY <3>1, FS_RemoveElement, FS_CardinalityType
  <2>2. QED
    BY <2>1, <1>3
<1>7. /\ Cardinality(AsyncIn(e)') = Cardinality(AsyncIn(e)) - 1
      /\ Cardinality(AsyncIn(e)) > 0
  <2>1. /\ Cardinality(AsyncIn(e) \ {m}) = Cardinality(AsyncIn(e)) - 1
        /\ Cardinality(AsyncIn(e)) > 0
    BY <1>4, <1>5, CardChange
  <2>2. QED
    BY <2>1, <1>4
<1>9. \A f \in End : net'[f] \subseteq net[f] /\ finNet'[f] \subseteq finNet[f]
  BY <1>u, <1>2, <1>3
<1>10. ackNet' \in [End -> Nat] /\ finNet' \in [End -> SUBSET Nat]
  BY <1>u, <1>t
<1>11. /\ TypeOK' /\ FlightInv' /\ SyncInv' /\ QuietInv' /\ FinInv' /\ WaitInv'
       /\ Fewer(e)
       /\ \A f \in End : Acking(f)' = Acking(f) /\ Uncounted(f)' = Uncounted(f)
       /\ UNCHANGED <<sent, rcvd, acks, resp, db, pushed>>
  BY <1>u, <1>3, <1>9, <1>10, FailAsyncStep
<1> HIDE DEF p
<1>12. PushInv(OneMore(lm, e), ls)'
  <2>0. /\ OneMore(lm, e)[e] = lm[e] + 1 /\ OneMore(lm, e)[p] = lm[p]
        /\ lm[e] \in Nat /\ ls[p] \in Nat
    BY <1>2 DEF OneMore
  <2>1. /\ pushed[p] = Cardinality(net[e]) + rcvd[e] + lm[e] /\ ls[p] <= lm[e]
        /\ pushed[e] = Cardinality(net[p]) + rcvd[p] + lm[p] /\ ls[e] <= lm[p]
        /\ \A f \in End : pushed[f] = sent[f] + Cardinality(Uncounted(f)) + ls[f]
    BY <1>2 DEF LossyInv, PushInv, p
  <2>2. /\ pushed[p] = Cardinality(net'[e]) + rcvd[e] + (lm[e] + 1)
        /\ ls[p] <= lm[e] + 1
    BY <2>0, <2>1, <1>6, <1>t
  <2>3. QED
    BY <2>0, <2>1, <2>2, <1>2, <1>3, <1>11 DEF PushInv, p
<1>13. AckInv(la)'
  BY <1>u, <1>11 DEF LossyInv, AckInv
<1>14. RunningInv'
  <2>1. /\ running'[e] + orphans'[e] = Cardinality(AsyncIn(p)') + ackNet'[p]
                                         + Cardinality(finNet'[p]) + resp'[e]
        /\ resp'[e] <= running'[e]
    BY <1>u, <1>4, <1>11, RunningParts DEF p, Fewer
  <2>2. /\ running'[p] + orphans'[p] = Cardinality(AsyncIn(e)') + ackNet'[e]
                                         + Cardinality(finNet'[e]) + resp'[p]
        /\ resp'[p] <= running'[p]
    <3>1. /\ running[p] + orphans[p] = Cardinality(AsyncIn(e)) + ackNet[e]
                                         + Cardinality(finNet[e]) + resp[p]
          /\ running[p] \in Nat /\ orphans[p] \in Nat /\ resp[p] \in Nat
          /\ ackNet[e] \in Nat /\ Cardinality(AsyncIn(e)) \in Nat
          /\ Cardinality(finNet[e]) \in Nat
      BY RunningParts DEF p
    <3>2. /\ running[p] + orphans[p] = running'[p] + orphans'[p] + 1
          /\ resp[p] <= running'[p] /\ running'[p] \in Nat /\ orphans'[p] \in Nat
      BY <1>11 DEF Fewer, p
    <3>3. running'[p] + orphans'[p] = Cardinality(AsyncIn(e)') + ackNet[e]
                                        + Cardinality(finNet[e]) + resp[p]
      BY <3>1, <3>2, <1>7
    <3>4. QED
      BY <3>2, <3>3, <1>u, <1>11
  <2>3. QED
    BY <2>1, <2>2, <1>2 DEF RunningInv, p
<1>15. QED
  BY <1>11, <1>12, <1>13, <1>14 DEF LossyInv

\* An ack is lost on its way to e.
LEMMA LoseAckStep ==
  ASSUME NEW lm \in [End -> Nat], NEW ls \in [End -> Nat],
         NEW la \in [End -> Nat], LossyInv(lm, ls, la),
         NEW e \in End, LoseAck(e), faults' \in [FaultKind -> Nat]
  PROVE  LossyInv(lm, ls, OneMore(la, Peer(e)))'
<1> DEFINE p == Peer(e)
<1>u. /\ ackNet[e] > 0 /\ ackNet' = [ackNet EXCEPT ![e] = @ - 1]
      /\ FailAsync(e) /\ UNCHANGED <<net, finNet>>
  BY DEF LoseAck
<1>2. p \in End /\ p # e /\ Peer(p) = e /\ \A f \in End : f = e \/ f = p
  BY PeerFacts
<1>t. /\ net \in [End -> SUBSET Msg] /\ ackNet \in [End -> Nat]
      /\ finNet \in [End -> SUBSET Nat] /\ acks[e] \in Nat
  BY DEF LossyInv, TypeOK
<1>3. ackNet' \in [End -> Nat] /\ ackNet'[e] = ackNet[e] - 1 /\ ackNet'[p] = ackNet[p]
  BY <1>u, <1>t, <1>2
<1>4. \A f \in End : AsyncIn(f)' = AsyncIn(f)
  BY <1>u, SameCounts
<1>6. \A f \in End : net'[f] \subseteq net[f] /\ finNet'[f] \subseteq finNet[f]
  BY <1>u
<1>7. net' \in [End -> SUBSET Msg] /\ finNet' \in [End -> SUBSET Nat]
  BY <1>u, <1>t
<1>8. /\ TypeOK' /\ FlightInv' /\ SyncInv' /\ QuietInv' /\ FinInv' /\ WaitInv'
      /\ Fewer(e)
      /\ \A f \in End : Acking(f)' = Acking(f) /\ Uncounted(f)' = Uncounted(f)
      /\ UNCHANGED <<sent, rcvd, acks, resp, db, pushed>>
  BY <1>u, <1>3, <1>6, <1>7, FailAsyncStep
<1>c. Cardinality(db[p]) \in Nat /\ Cardinality(Acking(p)) \in Nat
  BY <1>2, FiniteMessages, FiniteCounts DEF LossyInv
<1> HIDE DEF p
<1>9. PushInv(lm, ls)'
  BY <1>u, <1>8 DEF LossyInv, PushInv
<1>10. AckInv(OneMore(la, p))'
  <2>0. /\ OneMore(la, p)[p] = la[p] + 1 /\ OneMore(la, p)[e] = la[e]
        /\ la[p] \in Nat /\ ackNet[e] \in Nat
    BY <1>2, <1>t DEF OneMore
  <2>1. /\ rcvd[e] = Cardinality(db[e]) + Cardinality(Acking(e)) + ackNet[p]
                       + acks[p] + la[e]
        /\ rcvd[p] = Cardinality(db[p]) + Cardinality(Acking(p)) + ackNet[e]
                       + acks[e] + la[p]
    BY <1>2 DEF LossyInv, AckInv, p
  <2>2. rcvd[p] = Cardinality(db[p]) + Cardinality(Acking(p)) + ackNet'[e]
                    + acks[e] + (la[p] + 1)
    BY <2>0, <2>1, <1>3, <1>c, <1>t
  <2>3. QED
    BY <2>0, <2>1, <2>2, <1>2, <1>3, <1>8 DEF AckInv, p
<1>11. RunningInv'
  <2>1. /\ running'[e] + orphans'[e] = Cardinality(AsyncIn(p)') + ackNet'[p]
                                         + Cardinality(finNet'[p]) + resp'[e]
        /\ resp'[e] <= running'[e]
    BY <1>u, <1>2, <1>3, <1>4, <1>8, RunningParts DEF p, Fewer
  <2>2. /\ running'[p] + orphans'[p] = Cardinality(AsyncIn(e)') + ackNet'[e]
                                         + Cardinality(finNet'[e]) + resp'[p]
        /\ resp'[p] <= running'[p]
    BY <1>u, <1>2, <1>3, <1>4, <1>8, RunningParts DEF p, Fewer
  <2>3. QED
    BY <2>1, <2>2, <1>2 DEF RunningInv, p
<1>12. QED
  BY <1>8, <1>9, <1>10, <1>11 DEF LossyInv, p

\* A fin message is lost on its way to e: it was the only one.
LEMMA LoseFinStep ==
  ASSUME NEW lm \in [End -> Nat], NEW ls \in [End -> Nat],
         NEW la \in [End -> Nat], LossyInv(lm, ls, la),
         NEW e \in End, NEW n, LoseFin(e, n), faults' \in [FaultKind -> Nat]
  PROVE  LossyInv(lm, ls, la)'
<1> DEFINE p == Peer(e)
<1>u. /\ n \in finNet[e] /\ finNet' = [finNet EXCEPT ![e] = @ \ {n}]
      /\ FailAsync(e) /\ UNCHANGED <<net, ackNet>>
  BY DEF LoseFin
<1>2. p \in End /\ p # e /\ Peer(p) = e /\ \A f \in End : f = e \/ f = p
  BY PeerFacts
<1>t. /\ net \in [End -> SUBSET Msg] /\ ackNet \in [End -> Nat]
      /\ finNet \in [End -> SUBSET Nat]
  BY DEF LossyInv, TypeOK
<1>3. /\ finNet' \in [End -> SUBSET Nat] /\ finNet'[e] = finNet[e] \ {n}
      /\ finNet'[p] = finNet[p]
  BY <1>u, <1>t, <1>2
<1>4. /\ Cardinality(finNet'[e]) = Cardinality(finNet[e]) - 1
      /\ Cardinality(finNet[e]) > 0
  <2>1. IsFiniteSet(finNet[e])
    BY FiniteMessages
  <2>2. QED
    BY <2>1, <1>u, <1>3, CardChange
<1>6. \A f \in End : net'[f] \subseteq net[f] /\ finNet'[f] \subseteq finNet[f]
  BY <1>u, <1>2, <1>3
<1>7. net' \in [End -> SUBSET Msg] /\ ackNet' \in [End -> Nat]
  BY <1>u, <1>t
<1>8. /\ TypeOK' /\ FlightInv' /\ SyncInv' /\ QuietInv' /\ FinInv' /\ WaitInv'
      /\ Fewer(e)
      /\ \A f \in End : Acking(f)' = Acking(f) /\ Uncounted(f)' = Uncounted(f)
      /\ UNCHANGED <<sent, rcvd, acks, resp, db, pushed>>
  BY <1>u, <1>3, <1>6, <1>7, FailAsyncStep
<1>9. \A f \in End : AsyncIn(f)' = AsyncIn(f)
  BY <1>u, SameCounts
<1> HIDE DEF p
<1>10. PushInv(lm, ls)' /\ AckInv(la)'
  BY <1>u, <1>8 DEF LossyInv, PushInv, AckInv
<1>11. RunningInv'
  <2>1. /\ running'[e] + orphans'[e] = Cardinality(AsyncIn(p)') + ackNet'[p]
                                         + Cardinality(finNet'[p]) + resp'[e]
        /\ resp'[e] <= running'[e]
    BY <1>u, <1>2, <1>3, <1>8, <1>9, RunningParts DEF p, Fewer
  <2>2. /\ running'[p] + orphans'[p] = Cardinality(AsyncIn(e)') + ackNet'[e]
                                         + Cardinality(finNet'[e]) + resp'[p]
        /\ resp'[p] <= running'[p]
    BY <1>u, <1>2, <1>4, <1>8, <1>9, RunningParts DEF p, Fewer
  <2>3. QED
    BY <2>1, <2>2, <1>2 DEF RunningInv, p
<1>12. QED
  BY <1>8, <1>10, <1>11 DEF LossyInv

\* An asynchronous RPC fails with its handler still to run: it is counted as
\* failed, and no longer as running.
LEMMA LateAsyncStep ==
  ASSUME NEW lm \in [End -> Nat], NEW ls \in [End -> Nat],
         NEW la \in [End -> Nat], LossyInv(lm, ls, la),
         NEW e \in End, LateAsync(e), faults' \in [FaultKind -> Nat]
  PROVE  LossyInv(lm, ls, la)'
<1> DEFINE p == Peer(e)
<1>u. /\ InFlight(e) > orphans[p]
      /\ running' = [running EXCEPT ![p] = @ - 1]
      /\ orphans' = [orphans EXCEPT ![p] = @ + 1]
      /\ UNCHANGED <<sent, rcvd, acks, confVars, finVars, thrVars, net, ackNet,
                     finNet, resp, db, pushed>>
  BY DEF LateAsync
<1>1. TypeOK /\ running \in [End -> Nat] /\ orphans \in [End -> Nat]
  BY DEF LossyInv, TypeOK
<1>2. p \in End /\ p # e /\ Peer(p) = e /\ \A f \in End : f = e \/ f = p
  BY PeerFacts
<1>3. Cardinality(AsyncIn(e)) + ackNet[e] + Cardinality(finNet[e]) > orphans[p]
  BY <1>u DEF InFlight
<1>4. resp[p] + 1 <= running[p] /\ resp[p] \in Nat
  BY <1>3, RunningParts
<1>5. /\ running' \in [End -> Nat] /\ running'[p] = running[p] - 1
      /\ running'[e] = running[e]
      /\ orphans' \in [End -> Nat] /\ orphans'[p] = orphans[p] + 1
      /\ orphans'[e] = orphans[e]
  BY <1>u, <1>1, <1>2, <1>4
<1>6. \A f \in End : /\ Acking(f)' = Acking(f) /\ AsyncIn(f)' = AsyncIn(f)
                     /\ Uncounted(f)' = Uncounted(f)
  BY <1>u, SameCounts DEF thrVars
<1>7. \A f \in End : /\ running'[f] + orphans'[f] = running[f] + orphans[f]
                     /\ resp[f] <= running'[f]
  <2>1. /\ running[p] \in Nat /\ orphans[p] \in Nat
        /\ running[e] \in Nat /\ orphans[e] \in Nat /\ resp[e] <= running[e]
    BY RunningParts
  <2>2. QED
    BY <2>1, <1>2, <1>4, <1>5
<1> HIDE DEF p
<1>8. TypeOK'
  BY <1>1, <1>u, <1>5 DEF TypeOK, confVars, finVars, thrVars
<1>9. FlightInv' /\ SyncInv' /\ PushInv(lm, ls)' /\ AckInv(la)'
  BY <1>u, <1>6 DEF LossyInv, FlightInv, SyncInv, PushInv, AckInv, thrVars
<1>10. RunningInv'
  BY <1>u, <1>6, <1>7, PeerFacts DEF LossyInv, RunningInv
<1>11. QuietInv' /\ FinInv'
  BY <1>u DEF LossyInv, QuietInv, Quiet, FinInv, confVars, finVars, thrVars
<1>12. WaitInv'
  <2>1. \A f \in End : running[f] = 0 => running'[f] = 0
    BY <1>1, <1>2, <1>4, <1>5
  <2>2. QED
    BY <2>1, <1>u DEF LossyInv, WaitInv, finVars
<1>13. QED
  BY <1>8, <1>9, <1>10, <1>11, <1>12 DEF LossyInv

\* A synchronous message is lost on its way to e: its sender is told, and does
\* not count it.
LEMMA FailSyncStep ==
  ASSUME NEW lm \in [End -> Nat], NEW ls \in [End -> Nat],
         NEW la \in [End -> Nat], LossyInv(lm, ls, la),
         NEW e \in End, NEW m, FailSync(e, m), net' = [net EXCEPT ![e] = @ \ {m}],
         faults' \in [FaultKind -> Nat]
  PROVE  LossyInv(OneMore(lm, e), OneMore(ls, Peer(e)), la)'
<1> DEFINE p == Peer(e)
<1>u. /\ m \in net[e] /\ m.rpc \in Thread /\ Goto(p, m.rpc, "idle")
      /\ UNCHANGED <<countVars, confVars, finVars, wcount, ackNet, finNet, resp, orphans,
                     db, pushed>>
  BY DEF FailSync
<1>1. TypeOK
  BY DEF LossyInv
<1>2. p \in End /\ p # e /\ Peer(p) = e /\ \A f \in End : f = e \/ f = p
  BY PeerFacts
<1>t. /\ net \in [End -> SUBSET Msg] /\ rcvd[e] \in Nat /\ sent[p] \in Nat
      /\ pushed[p] \in Nat
  BY <1>1, <1>2 DEF TypeOK
<1>3. net' \in [End -> SUBSET Msg] /\ net'[e] = net[e] \ {m} /\ net'[p] = net[p]
  BY <1>t, <1>2
<1>4. pc[p][m.rpc] = "rpc" /\ "idle" \in ThreadState
  BY <1>u DEF LossyInv, SyncInv, ThreadState
<1>5. m.rpc # Async
  BY <1>u, ChannelAssumption
<1>6. \A f \in End : AsyncIn(f)' = AsyncIn(f)
  BY <1>2, <1>3, <1>5 DEF AsyncIn
<1>7. IsFiniteSet(net[e]) /\ IsFiniteSet(net[p]) /\ Cardinality(Uncounted(p)) \in Nat
  BY <1>1, <1>2, FiniteMessages, FiniteCounts
<1>8. /\ Cardinality(net'[e]) = Cardinality(net[e]) - 1 /\ Cardinality(net[e]) \in Nat
      /\ IsFiniteSet(net'[e])
  BY <1>u, <1>3, <1>7, CardChange
<1> HIDE DEF p
<1>9. /\ pc' \in [End -> [Thread -> ThreadState]]
      /\ pc'[e] = pc[e] /\ pc'[p][m.rpc] = "idle"
      /\ \A v \in Thread \ {m.rpc} : pc'[p][v] = pc[p][v]
      /\ Acking(e)' = Acking(e) /\ Uncounted(e)' = Uncounted(e)
  <2>1. Goto(p, m.rpc, "idle") /\ m.rpc \in Thread
    BY <1>u
  <2>2. QED
    BY <2>1, <1>1, <1>2, <1>4, GotoCounts
<1>10. Cardinality(Acking(p)') = Cardinality(Acking(p))
  BY <1>u, <1>1, <1>2, <1>4, GotoCounts
<1>11. Cardinality(Uncounted(p)') = Cardinality(Uncounted(p)) - 1
  BY <1>u, <1>1, <1>2, <1>4, GotoCounts
<1>12. TypeOK'
  BY <1>1, <1>u, <1>3, <1>9 DEF TypeOK, countVars, confVars, finVars
<1>13. FlightInv'
  <2>1. \A f \in End : net'[f] \subseteq net[f] /\ IsFiniteSet(net'[f])
    BY <1>2, <1>3, <1>7, <1>8
  <2>2. QED
    BY <2>1, <1>u DEF LossyInv, FlightInv
<1>14. SyncInv'
  <2>1. \A n \in net'[e] : n.rpc \in Thread => n.rpc # m.rpc
    BY <1>u, <1>3 DEF LossyInv, SyncInv
  <2>2. \A n \in net'[e] : n.rpc \in Thread => pc'[p][n.rpc] = "rpc"
    <3> SUFFICES ASSUME NEW n \in net'[e], n.rpc \in Thread
                 PROVE  pc'[p][n.rpc] = "rpc"
      OBVIOUS
    <3>1. pc[p][n.rpc] = "rpc" /\ n.rpc # m.rpc
      BY <2>1, <1>3 DEF LossyInv, SyncInv, p
    <3>2. QED
      BY <3>1, <1>9
  <2>3. \A n \in net'[p] : n.rpc \in Thread => pc'[e][n.rpc] = "rpc"
    BY <1>2, <1>3, <1>9 DEF LossyInv, SyncInv
  <2>4. \A f \in End : net'[f] \subseteq net[f]
    BY <1>2, <1>3
  <2>5. \A f \in End : \A n \in net'[f] :
          n.rpc \in Thread => pc'[Peer(f)][n.rpc] = "rpc"
    BY <2>2, <2>3, <1>2 DEF p
  <2>6. QED
    BY <2>4, <2>5 DEF LossyInv, SyncInv
<1>15. PushInv(OneMore(lm, e), OneMore(ls, p))'
  <2>0. /\ OneMore(lm, e)[e] = lm[e] + 1 /\ OneMore(lm, e)[p] = lm[p]
        /\ OneMore(ls, p)[p] = ls[p] + 1 /\ OneMore(ls, p)[e] = ls[e]
        /\ lm[e] \in Nat /\ ls[p] \in Nat
    BY <1>2 DEF OneMore
  <2>1. /\ pushed[p] = Cardinality(net[e]) + rcvd[e] + lm[e] /\ ls[p] <= lm[e]
        /\ pushed[e] = Cardinality(net[p]) + rcvd[p] + lm[p] /\ ls[e] <= lm[p]
        /\ pushed[e] = sent[e] + Cardinality(Uncounted(e)) + ls[e]
        /\ pushed[p] = sent[p] + Cardinality(Uncounted(p)) + ls[p]
    BY <1>2 DEF LossyInv, PushInv, p
  <2>2. /\ pushed[p] = Cardinality(net'[e]) + rcvd[e] + (lm[e] + 1)
        /\ ls[p] + 1 <= lm[e] + 1
        /\ pushed[p] = sent[p] + Cardinality(Uncounted(p)') + (ls[p] + 1)
    BY <2>0, <2>1, <1>7, <1>8, <1>11, <1>t
  <2>3. QED
    BY <2>0, <2>1, <2>2, <1>2, <1>3, <1>9, <1>u DEF PushInv, p, countVars
<1>16. AckInv(la)' /\ RunningInv'
  <2>1. \A f \in End : Cardinality(Acking(f)') = Cardinality(Acking(f))
    BY <1>2, <1>9, <1>10
  <2>2. QED
    BY <2>1, <1>6, <1>u, PeerFacts DEF LossyInv, AckInv, RunningInv, countVars
<1>17. QuietInv'
  <2>1. \A f \in End : Quiet(f) => Quiet(f)'
    <3>1. Quiet(e) => Quiet(e)'
      BY <1>9 DEF Quiet
    <3>2. Quiet(p) => Quiet(p)'
      BY <1>9 DEF Quiet
    <3>3. QED
      BY <3>1, <3>2, <1>2
  <2>2. QED
    BY <2>1, <1>u DEF LossyInv, QuietInv, confVars, finVars
<1>18. FinInv' /\ WaitInv'
  <2>1. \A f \in End : net[f] = {} => net'[f] = {}
    BY <1>2, <1>3
  <2>2. QED
    BY <2>1, <1>u DEF LossyInv, FinInv, WaitInv, countVars, finVars
<1>19. QED
  BY <1>12, <1>13, <1>14, <1>15, <1>16, <1>17, <1>18 DEF LossyInv, p

\* One more loss is a number of losses.
LEMMA OneMoreType ==
  ASSUME NEW l \in [End -> Nat], NEW e \in End
  PROVE  OneMore(l, e) \in [End -> Nat] /\ OneMore(l, e)' = OneMore(l, e)
  BY DEF OneMore

\* Whatever is lost, and however, the invariant holds up to more losses.
LEMMA LoseStep ==
  ASSUME NEW lm \in [End -> Nat], NEW ls \in [End -> Nat],
         NEW la \in [End -> Nat], LossyInv(lm, ls, la),
         NEW e \in End, faults' \in [FaultKind -> Nat],
         \/ \E m \in net[e] : LoseMsg(e, m)
         \/ LoseAck(e)
         \/ \E n \in finNet[e] : LoseFin(e, n)
         \/ \E m \in net[e] : FailSync(e, m) /\ net' = [net EXCEPT ![e] = @ \ {m}]
         \/ LateAsync(e)
  PROVE  \E m2, s2, a2 \in [End -> Nat] : LossyInv(m2, s2, a2)'
<1>0. Peer(e) \in End
  BY PeerFacts
<1>1. ASSUME NEW m \in net[e], LoseMsg(e, m)
      PROVE  LossyInv(OneMore(lm, e), ls, la)'
  BY <1>1, LoseMsgStep
<1>2. LoseAck(e) => LossyInv(lm, ls, OneMore(la, Peer(e)))'
  BY LoseAckStep
<1>3. ASSUME NEW n \in finNet[e], LoseFin(e, n)
      PROVE  LossyInv(lm, ls, la)'
  BY <1>3, LoseFinStep
<1>4. ASSUME NEW m \in net[e], FailSync(e, m), net' = [net EXCEPT ![e] = @ \ {m}]
      PROVE  LossyInv(OneMore(lm, e), OneMore(ls, Peer(e)), la)'
  BY <1>4, FailSyncStep
<1>5. /\ OneMore(lm, e) \in [End -> Nat]
      /\ OneMore(ls, Peer(e)) \in [End -> Nat]
      /\ OneMore(la, Peer(e)) \in [End -> Nat]
  BY <1>0, OneMoreType
<1>6. LateAsync(e) => LossyInv(lm, ls, la)'
  BY LateAsyncStep
<1>7. QED
  BY <1>1, <1>2, <1>3, <1>4, <1>5, <1>6

\* A step without a fault does not count one.
LEMMA NoFaultStep == [Next]_vars => UNCHANGED faults
<1> SUFFICES ASSUME [Next]_vars PROVE faults' = faults
  OBVIOUS
<1>1. CASE UNCHANGED vars
  BY <1>1 DEF vars
<1>2. ASSUME NEW e \in End, Application(e) PROVE faults' = faults
  BY <1>2 DEF Application, SendAsync, Send, Recv, ThrottleTimeout,
              SetThrottleWindowSize, StopReceivingAndAckUnreadMsgs, StopServer,
              Advance
<1>3. ASSUME NEW e \in End, NEW t \in Thread, ThreadStep(e, t) PROVE faults' = faults
  BY <1>3 DEF ThreadStep, CountSent, ThrottleWindowWait, RecvAck
<1>4. ASSUME NEW e \in End, FinishStep(e) PROVE faults' = faults
  BY <1>4 DEF FinishStep, SendFin, WaitForFin, WaitForFlyingMsg,
              WaitAsyncSendToFinish, WaitForFlyingAck, Advance
<1>5. ASSUME NEW e \in End, DeliverStep(e) PROVE faults' = faults
  BY <1>5 DEF DeliverStep, DeliverMsg, DeliverAck, DeliverFin, OnPushDone
<1>6. QED
  BY <1>1, <1>2, <1>3, <1>4, <1>5 DEF Next, Terminating

\* A fault of one kind is counted.
LEMMA FaultOfCounts ==
  ASSUME faults \in [FaultKind -> Nat], NEW k \in FaultKind, FaultOf(k)
  PROVE  /\ faults' \in [FaultKind -> Nat]
         /\ Overcounted => Overcounted'
         /\ k \in {"redeliver", "latesync"} => Overcounted'
<1>1. faults' = [faults EXCEPT ![k] = @ + 1]
  BY DEF FaultOf
<1>2. \A j \in FaultKind : /\ faults[j] \in Nat
                           /\ faults'[j] = IF j = k THEN faults[j] + 1 ELSE faults[j]
  BY <1>1
<1>3. "redeliver" \in FaultKind /\ "latesync" \in FaultKind
  BY DEF FaultKind
<1>4. QED
  BY <1>1, <1>2, <1>3 DEF Overcounted

\* An overcount is never forgotten, and every other step of a channel with RPC
\* faults preserves the invariant up to its losses.
LEMMA FaultNextInv == FaultInv /\ [FaultNext]_vars => FaultInv'
<1> SUFFICES ASSUME FaultInv, [FaultNext]_vars PROVE FaultInv'
  OBVIOUS
<1> DEFINE Loses(e) ==
      \/ \E m \in net[e] : LoseMsg(e, m)
      \/ LoseAck(e)
      \/ \E n \in finNet[e] : LoseFin(e, n)
      \/ \E m \in net[e] : FailSync(e, m) /\ net' = [net EXCEPT ![e] = @ \ {m}]
      \/ LateAsync(e)
<1>1. faults \in [FaultKind -> Nat]
  BY DEF FaultInv
<1>2. ASSUME NEW lm \in [End -> Nat], NEW ls \in [End -> Nat],
             NEW la \in [End -> Nat], LossyInv(lm, ls, la), ~Overcounted',
             faults' \in [FaultKind -> Nat],
             [Next]_vars \/ \E e \in End : Loses(e)
      PROVE  FaultInv'
  <2>1. CASE [Next]_vars
    BY <1>2, <2>1, NextLossy DEF FaultInv
  <2>2. ASSUME NEW e \in End, Loses(e)
        PROVE  FaultInv'
    <3>1. \E m2, s2, a2 \in [End -> Nat] : LossyInv(m2, s2, a2)'
      BY <1>2, <2>2, LoseStep
    <3>2. QED
      BY <1>2, <3>1 DEF FaultInv
  <2>3. QED
    BY <1>2, <2>1, <2>2
<1>3. ASSUME NEW lm \in [End -> Nat], NEW ls \in [End -> Nat],
             NEW la \in [End -> Nat], LossyInv(lm, ls, la), NEW e \in End,
             NEW m \in net[e], m.rpc = Orphan
      PROVE  FALSE
  BY <1>3 DEF LossyInv, SyncInv
<1> HIDE DEF Loses
<1>4. /\ faults' \in [FaultKind -> Nat] /\ (Overcounted => Overcounted')
      /\ \/ Overcounted'
         \/ [Next]_vars
         \/ \E e \in End : Loses(e)
         \/ \E e \in End : \E m \in net[e] : m.rpc = Orphan
  <2>0. FaultKind = {"redeliver", "dropsync", "dropasync", "latesync", "lateasync"}
    BY DEF FaultKind
  <2>1. CASE [Next]_vars
    <3>1. faults' = faults
      BY <2>1, NoFaultStep
    <3>2. QED
      BY <1>1, <2>1, <3>1 DEF Overcounted
  <2>2. ASSUME NEW e \in End, Refuse(e)
        PROVE  /\ faults' = faults
               /\ Loses(e) \/ \E m \in net[e] : m.rpc = Orphan
    BY <2>2 DEF Refuse, Loses
  <2>3. ASSUME NEW e \in End, FaultStep(e)
        PROVE  /\ faults' \in [FaultKind -> Nat] /\ (Overcounted => Overcounted')
               /\ Overcounted' \/ Loses(e)
    <3>1. ASSUME NEW m \in net[e],
                 RedeliverMsg(e, m) \/ DropSync(e, m) \/ LateSync(e, m)
          PROVE  /\ faults' \in [FaultKind -> Nat] /\ (Overcounted => Overcounted')
                 /\ Overcounted' \/ Loses(e)
      <4>1. CASE DropSync(e, m)
        BY <4>1, <1>1, <2>0, FaultOfCounts DEF DropSync, Loses
      <4>2. CASE RedeliverMsg(e, m) \/ LateSync(e, m)
        BY <4>2, <1>1, <2>0, FaultOfCounts DEF RedeliverMsg, LateSync
      <4>3. QED
        BY <3>1, <4>1, <4>2
    <3>2. CASE RedeliverAck(e)
      BY <3>2, <1>1, <2>0, FaultOfCounts DEF RedeliverAck
    <3>3. ASSUME NEW n \in finNet[e], RedeliverFin(e, n)
          PROVE  /\ faults' \in [FaultKind -> Nat] /\ (Overcounted => Overcounted')
                 /\ Overcounted' \/ Loses(e)
      BY <3>3, <1>1, <2>0, FaultOfCounts DEF RedeliverFin
    <3>4. CASE DropAsync(e)
      <4>1. FaultOf("dropasync") /\ Loses(e)
        BY <3>4 DEF DropAsync, Loses
      <4>2. QED
        BY <4>1, <1>1, <2>0, FaultOfCounts
    <3>5. CASE LateAsync(e)
      <4>1. FaultOf("lateasync") /\ Loses(e)
        BY <3>5 DEF LateAsync, Loses
      <4>2. QED
        BY <4>1, <1>1, <2>0, FaultOfCounts
    <3>6. QED
      BY <2>3, <3>1, <3>2, <3>3, <3>4, <3>5 DEF FaultStep
  <2>4. QED
    BY <1>1, <2>1, <2>2, <2>3 DEF FaultNext, Overcounted
<1>5. CASE Overcounted'
  BY <1>4, <1>5 DEF FaultInv
<1>6. CASE ~Overcounted'
  <2>1. PICK lm \in [End -> Nat], ls \in [End -> Nat], la \in [End -> Nat] :
          LossyInv(lm, ls, la)
    BY <1>4, <1>6 DEF FaultInv
  <2>2. [Next]_vars \/ \E e \in End : Loses(e)
    BY <2>1, <1>3, <1>4, <1>6
  <2>3. QED
    BY <2>1, <2>2, <1>2, <1>4, <1>6
<1>7. QED
  BY <1>5, <1>6

\* Whatever RPCs brpc loses or refuses, and whatever asynchronous RPCs fail in
\* OnPushDone with their handler still to run, WaitLinkTaskFinish
\* (channel.cc:262-277) returns only when nothing is on its way to the endpoint
\* and its own messages are all acknowledged.  Excepted are behaviours in which
\* brpc delivers an RPC twice or a synchronous Send throws for a message that
\* arrives: there the receiver counts what its sender does not.
THEOREM SafeDespiteLoss == FaultSpec => []SafeUnlessOvercounted
<1>1. Init => FaultInv
  <2> SUFFICES ASSUME Init PROVE FaultInv
    OBVIOUS
  <2>1. LossyInv(NoLoss, NoLoss, NoLoss) /\ NoLoss \in [End -> Nat]
    BY InitInv, Exact
  <2>2. faults \in [FaultKind -> Nat]
    BY DEF Init
  <2>3. QED
    BY <2>1, <2>2 DEF FaultInv
<1>2. FaultInv => SafeUnlessOvercounted
  BY FinishedInv
     DEF FaultInv, SafeUnlessOvercounted, PortSafeUnlessOvercounted,
         OutboxDoneUnlessOvercounted
<1>3. QED
  BY <1>1, <1>2, FaultNextInv, PTL DEF FaultSpec

-----------------------------------------------------------------------------
(* The channel implements LinkShutdown.                                    *)

\* The messages without an ack: their number is a natural number, at least the
\* number of acks on their way.
LEMMA Unacknowledged ==
  ASSUME IInv, NEW e \in End
  PROVE  /\ unacknowledged[e] = pushed[e] - acks[e]
         /\ unacknowledged[e] \in Nat /\ unacknowledged[e] >= ackNet[e]
         /\ pushed[e] \in Nat /\ acks[e] \in Nat /\ ackNet[e] \in Nat
<1> DEFINE p == Peer(e)
<1>1. p \in End /\ Peer(p) = e
  BY PeerFacts
<1>2. pushed[e] = Cardinality(net[p]) + rcvd[p]
  BY <1>1, Exact
<1>3. rcvd[p] = Cardinality(db[p]) + Cardinality(Acking(p)) + ackNet[e] + acks[e]
  BY <1>1, Exact DEF AckOnce
<1>4. /\ Cardinality(net[p]) \in Nat /\ Cardinality(db[p]) \in Nat
      /\ Cardinality(Acking(p)) \in Nat
  BY <1>1, Exact, FiniteMessages, FiniteCounts
<1>5. ackNet[e] \in Nat /\ acks[e] \in Nat /\ pushed[e] \in Nat
  BY Exact DEF TypeOK
<1>6. unacknowledged[e] = pushed[e] - acks[e]
  BY DEF unacknowledged
<1>7. QED
  BY <1>2, <1>3, <1>4, <1>5, <1>6

\* A step that changes neither the phases nor the counts is a stuttering step.
LEMMA StutterStep ==
  ASSUME UNCHANGED <<fpc, pushed, acks>>
  PROVE  UNCHANGED Shutdown!vars
  BY DEF Shutdown!vars, phaseOf, unacknowledged, Finished

\* A message handed to the RPC layer is a Submit.
LEMMA SubmitStep ==
  ASSUME IInv, NEW e \in End, NEW k, NEW r,
         Push(e, k, r), fpc[e] = "run", UNCHANGED <<fpc, acks>>
  PROVE  Shutdown!Submit(e)
<1>1. pushed' = [pushed EXCEPT ![e] = @ + 1] /\ pushed \in [End -> Nat]
      /\ acks \in [End -> Nat]
  BY Exact DEF Push, TypeOK
<1>2. unacknowledged' = [unacknowledged EXCEPT ![e] = @ + 1]
  <2>1. \A f \in End : pushed'[f] - acks'[f] =
          IF f = e THEN (pushed[f] - acks[f]) + 1 ELSE pushed[f] - acks[f]
    BY <1>1
  <2>2. QED
    BY <2>1 DEF unacknowledged
<1>3. phaseOf' = phaseOf /\ phaseOf[e] = "open"
  BY DEF phaseOf, Finished
<1>4. QED
  BY <1>2, <1>3 DEF Shutdown!Submit

\* An ack that arrives is an Acknowledge.
LEMMA AcknowledgeStep ==
  ASSUME IInv, NEW e \in End, DeliverAck(e)
  PROVE  Shutdown!Acknowledge(e)
<1>1. /\ acks' = [acks EXCEPT ![e] = @ + 1] /\ ackNet[e] > 0
      /\ UNCHANGED <<pushed, fpc>>
  BY DEF DeliverAck, OnAck, finVars
<1>2. pushed \in [End -> Nat] /\ acks \in [End -> Nat]
  BY Exact DEF TypeOK
<1>3. unacknowledged' = [unacknowledged EXCEPT ![e] = @ - 1]
  <2>1. \A f \in End : pushed'[f] - acks'[f] =
          IF f = e THEN (pushed[f] - acks[f]) - 1 ELSE pushed[f] - acks[f]
    BY <1>1, <1>2
  <2>2. QED
    BY <2>1 DEF unacknowledged
<1>4. unacknowledged[e] > 0
  BY <1>1, Unacknowledged
<1>5. phaseOf' = phaseOf
  BY <1>1 DEF phaseOf, Finished
<1>6. QED
  BY <1>3, <1>4, <1>5 DEF Shutdown!Acknowledge

\* The first step of WaitLinkTaskFinish is a Close.
LEMMA CloseStep ==
  ASSUME IInv, NEW e \in End, StopReceivingAndAckUnreadMsgs(e)
  PROVE  Shutdown!Close(e)
<1>1. /\ fpc[e] = "run" /\ fpc' = [fpc EXCEPT ![e] = "fin"]
      /\ UNCHANGED <<pushed, acks>>
  BY DEF StopReceivingAndAckUnreadMsgs
<1>2. fpc \in [End -> FinishState]
  BY Exact DEF TypeOK
<1>3. phaseOf' = [phaseOf EXCEPT ![e] = "closing"] /\ phaseOf[e] = "open"
  BY <1>1, <1>2 DEF phaseOf, Finished
<1>4. unacknowledged' = unacknowledged
  BY <1>1 DEF unacknowledged
<1>5. QED
  BY <1>3, <1>4 DEF Shutdown!Close

\* When the last wait of WaitLinkTaskFinish is over, both endpoints have called
\* it and every message of both is acknowledged.
LEMMA FinishMapped ==
  ASSUME IInv, NEW e \in End, WaitForFlyingAck(e)
  PROVE  Shutdown!Finish(e)
<1> DEFINE p == Peer(e)
<1>1. p \in End /\ Peer(p) = e /\ p # e /\ End = {e, p}
  BY DEF End, Peer
<1>2. /\ acks[e] >= sent[e] /\ fpc[e] = "waitack"
      /\ fpc' = [fpc EXCEPT ![e] = "done"] /\ UNCHANGED <<pushed, acks>>
  BY DEF WaitForFlyingAck, Advance, countVars
<1>3. /\ Quiet(e) /\ db[e] = {} /\ rfin[e] /\ net[e] = {} /\ running[e] = 0
  BY <1>2, Exact DEF LossyInv, QuietInv, WaitInv
<1>4. fpc[p] \notin {"run", "fin"}
  BY <1>1, <1>3, Exact DEF LossyInv, FinInv
<1>5. unacknowledged[e] = 0
  <2>1. acks[e] = sent[e] /\ pushed[e] = sent[e] + NoLoss[e]
    BY <1>2, <1>3, Exact, AllAcked, QuietCounts
  <2>2. NoLoss[e] = 0 /\ sent[e] \in Nat
    BY Exact DEF NoLoss, TypeOK
  <2>3. QED
    BY <2>1, <2>2, Unacknowledged
<1>6. unacknowledged[p] = 0
  <2>1. pushed[p] = Cardinality(net[e]) + rcvd[e]
    BY <1>1, Exact
  <2>2. rcvd[e] = Cardinality(db[e]) + Cardinality(Acking(e)) + ackNet[p] + acks[p]
    BY Exact DEF AckOnce
  <2>3. Acking(e) = {}
    BY <1>3 DEF Quiet, Acking
  <2>4. Cardinality(net[e]) = 0 /\ Cardinality(db[e]) = 0 /\ Cardinality(Acking(e)) = 0
    BY <1>3, <2>3, FS_EmptySet
  <2>5. /\ running[e] + orphans[e] = Cardinality(AsyncIn(p)) + ackNet[p]
                                       + Cardinality(finNet[p]) + resp[e]
        /\ orphans[e] = 0
    BY Exact DEF IInv, LossyInv, RunningInv
  <2>6. /\ Cardinality(AsyncIn(p)) \in Nat /\ Cardinality(finNet[p]) \in Nat
        /\ ackNet[p] \in Nat /\ resp[e] \in Nat /\ acks[p] \in Nat
        /\ pushed[p] \in Nat /\ rcvd[e] \in Nat
    BY <1>1, Exact, FiniteMessages DEF TypeOK
  <2>7. ackNet[p] = 0
    <3>1. 0 = Cardinality(AsyncIn(p)) + ackNet[p]
                + Cardinality(finNet[p]) + resp[e]
      BY <1>3, <2>5
    <3>2. \A a, b, c, d \in Nat : 0 = a + b + c + d => b = 0
      OBVIOUS
    <3>3. QED
      BY <3>1, <3>2, <2>6, Zenon
  <2>8. pushed[p] = acks[p]
    BY <2>1, <2>2, <2>4, <2>6, <2>7
  <2>9. QED
    BY <1>1, <2>6, <2>8, Unacknowledged
<1>7. unacknowledged' = unacknowledged
  BY <1>2 DEF unacknowledged
<1>8. fpc \in [End -> FinishState]
  BY Exact DEF TypeOK
<1>9. /\ phaseOf' = [phaseOf EXCEPT ![e] = "finished"]
      /\ phaseOf[e] = "closing" /\ phaseOf[p] # "open"
  BY <1>1, <1>2, <1>4, <1>8 DEF phaseOf, Finished
<1>10. Shutdown!Peer(e) = p /\ Shutdown!End = {e, p}
  BY <1>1 DEF Shutdown!Peer, Shutdown!End, Peer, End
<1>11. QED
  BY <1>5, <1>6, <1>7, <1>9, <1>10 DEF Shutdown!Finish

\* Every step of the channel is a step of LinkShutdown or leaves it unchanged.
LEMMA StepMapped ==
  ASSUME IInv, [Next]_vars
  PROVE  [Shutdown!Next]_(Shutdown!vars)
<1>1. CASE UNCHANGED vars
  BY <1>1, StutterStep DEF vars, countVars, finVars
<1>2. CASE Terminating
  BY <1>1, <1>2 DEF Terminating
<1>3. ASSUME NEW e \in End, Application(e)
      PROVE  Shutdown!Next \/ UNCHANGED Shutdown!vars
  <2>0. e \in Shutdown!End
    BY DEF Shutdown!End, End
  <2>1. ASSUME NEW t \in Thread, NEW k \in Key, SendAsync(e, t, k) \/ Send(e, t, k)
        PROVE  Shutdown!Submit(e)
    <3>1. /\ Push(e, k, Async) \/ Push(e, k, t)
          /\ fpc[e] = "run" /\ UNCHANGED <<fpc, acks>>
      BY <2>1 DEF SendAsync, Send, finVars, countVars
    <3>2. QED
      BY <3>1, SubmitStep
  <2>2. ASSUME NEW t \in Thread, NEW m \in db[e], Recv(e, t, m)
        PROVE  UNCHANGED <<fpc, pushed, acks>>
    BY <2>2 DEF Recv, finVars, countVars
  <2>3. ASSUME NEW t \in Thread, ThrottleTimeout(e, t)
        PROVE  UNCHANGED <<fpc, pushed, acks>>
    BY <2>3 DEF ThrottleTimeout, finVars, countVars
  <2>4. ASSUME NEW w \in Window, SetThrottleWindowSize(e, w)
        PROVE  UNCHANGED <<fpc, pushed, acks>>
    BY <2>4 DEF SetThrottleWindowSize, finVars, countVars
  <2>5. CASE StopReceivingAndAckUnreadMsgs(e)
    BY <2>0, <2>5, CloseStep DEF Shutdown!Next
  <2>6. CASE StopServer(e)
    <3>1. /\ fpc[e] = "done" /\ fpc' = [fpc EXCEPT ![e] = "closed"]
          /\ UNCHANGED <<pushed, acks>>
      BY <2>6 DEF StopServer, Advance, countVars
    <3>2. fpc \in [End -> FinishState]
      BY Exact DEF TypeOK
    <3>3. phaseOf' = phaseOf
      BY <3>1, <3>2 DEF phaseOf, Finished
    <3>4. unacknowledged' = unacknowledged
      BY <3>1 DEF unacknowledged
    <3>5. QED
      BY <3>3, <3>4 DEF Shutdown!vars
  <2>7. QED
    BY <1>3, <2>0, <2>1, <2>2, <2>3, <2>4, <2>5, <2>6, StutterStep
       DEF Application, Shutdown!Next
<1>4. ASSUME NEW e \in End, NEW t \in Thread, ThreadStep(e, t)
      PROVE  UNCHANGED Shutdown!vars
  <2>1. UNCHANGED <<fpc, pushed, acks>>
    BY <1>4 DEF ThreadStep, CountSent, ThrottleWindowWait, RecvAck, finVars, countVars
  <2>2. QED
    BY <2>1, StutterStep
<1>5. ASSUME NEW e \in End, FinishStep(e)
      PROVE  Shutdown!Next \/ UNCHANGED Shutdown!vars
  <2>0. e \in Shutdown!End
    BY DEF Shutdown!End, End
  <2>1. CASE WaitForFlyingAck(e)
    BY <2>0, <2>1, FinishMapped DEF Shutdown!Next
  <2>2. CASE ~WaitForFlyingAck(e)
    <3>1. PICK from \in {"fin", "waitfin", "waitmsg", "waitasync"},
               to \in {"waitfin", "waitmsg", "waitasync", "waitack"} :
            fpc[e] = from /\ fpc' = [fpc EXCEPT ![e] = to]
      BY <1>5, <2>2 DEF FinishStep, SendFin, WaitForFin, WaitForFlyingMsg,
                        WaitAsyncSendToFinish, Advance
    <3>2. UNCHANGED <<pushed, acks>>
      BY <1>5, <2>2 DEF FinishStep, SendFin, WaitForFin, WaitForFlyingMsg,
                        WaitAsyncSendToFinish, Advance, countVars
    <3>3. fpc \in [End -> FinishState]
      BY Exact DEF TypeOK
    <3>4. phaseOf' = phaseOf
      BY <3>1, <3>3 DEF phaseOf, Finished
    <3>5. unacknowledged' = unacknowledged
      BY <3>2 DEF unacknowledged
    <3>6. QED
      BY <3>4, <3>5 DEF Shutdown!vars
  <2>3. QED
    BY <2>1, <2>2
<1>6. ASSUME NEW e \in End, DeliverStep(e)
      PROVE  Shutdown!Next \/ UNCHANGED Shutdown!vars
  <2>0. e \in Shutdown!End
    BY DEF Shutdown!End, End
  <2>1. CASE DeliverAck(e)
    BY <2>0, <2>1, AcknowledgeStep DEF Shutdown!Next
  <2>2. CASE ~DeliverAck(e)
    <3>1. UNCHANGED <<fpc, pushed, acks>>
      BY <1>6, <2>2 DEF DeliverStep, DeliverMsg, DeliverFin, OnPushDone, finVars,
                        countVars
    <3>2. QED
      BY <3>1, StutterStep
  <2>3. QED
    BY <2>1, <2>2
<1>7. QED
  BY <1>1, <1>2, <1>3, <1>4, <1>5, <1>6 DEF Next

\* For any number of threads, keys, windows and messages the channel implements
\* LinkShutdown: WaitLinkTaskFinish (channel.cc:262-277) returns only when both
\* endpoints have called it and each message of both has been acknowledged.
THEOREM Refinement == Spec => ImplementsShutdown
<1>1. Init => Shutdown!Init
  BY DEF Init, Shutdown!Init, phaseOf, unacknowledged, Shutdown!End, End
<1>2. IInv /\ [Next]_vars => [Shutdown!Next]_(Shutdown!vars)
  BY StepMapped
<1>3. QED
  BY <1>1, <1>2, Invariance, PTL DEF Spec, ImplementsShutdown, Shutdown!Spec

-----------------------------------------------------------------------------
(* The throttle window bounds what is unacknowledged.                      *)

\* The largest window that SetThrottleWindowSize is called with exists.
LEMMA MaxWindowFacts ==
  MaxWindow \in Window /\ MaxWindow \in Nat /\ \A w \in Window : w <= MaxWindow
  BY ChannelAssumption DEF MaxWindow

\* A step that keeps the threads that are held back, and neither takes acks
\* back nor gives out a count, preserves HeldInv.
LEMMA HeldKept ==
  ASSUME TypeOK, TypeOK', HeldInv,
         \A e \in End : sent'[e] = sent[e] /\ acks'[e] >= acks[e],
         \A e \in End : \A t \in Held(e) :
            t \in Held(e)' /\ wcount'[e][t] = wcount[e][t]
  PROVE  HeldInv'
<1> SUFFICES ASSUME 0 \notin Window, NEW e \in End,
                    NEW n \in (acks'[e] + MaxWindow) .. sent'[e]
             PROVE  \E t \in Held(e)' : wcount'[e][t] = n
  BY DEF HeldInv, MaxWindow
<1>1. /\ acks[e] \in Nat /\ acks'[e] \in Nat /\ sent[e] \in Nat
      /\ MaxWindow \in Nat
  BY MaxWindowFacts DEF TypeOK
<1>2. n \in (acks[e] + MaxWindow) .. sent[e]
  BY <1>1
<1>3. PICK t \in Held(e) : wcount[e][t] = n
  BY <1>2 DEF HeldInv
<1>4. QED
  BY <1>3

\* A thread that moves and was not held back.
LEMMA HeldMove ==
  ASSUME TypeOK, TypeOK', HeldInv, NEW e \in End, NEW t \in Thread,
         NEW s \in ThreadState, Goto(e, t, s),
         pc[e][t] \notin {"throttle", "failed"} \/ s = "failed",
         UNCHANGED <<sent, acks, wcount>>
  PROVE  HeldInv'
<1>1. /\ \A f \in End \ {e} : pc'[f] = pc[f]
      /\ \A u \in Thread \ {t} : pc'[e][u] = pc[e][u]
      /\ pc'[e][t] = s
  BY GotoCounts
<1>2. \A f \in End : \A u \in Held(f) : u \in Held(f)'
  BY <1>1 DEF Held
<1>3. \A f \in End : acks[f] \in Nat
  BY DEF TypeOK
<1>4. QED
  BY <1>2, <1>3, HeldKept

\* The response of a synchronous RPC releases no thread that is held back.
LEMMA HeldDeliver ==
  ASSUME IInv, IInv', HeldInv, NEW e \in End, NEW m \in net[e], DeliverMsg(e, m)
  PROVE  HeldInv'
<1>1. TypeOK /\ TypeOK'
  BY DEF IInv, LossyInv
<1>2. /\ UNCHANGED <<sent, acks, wcount>>
      /\ \/ pc' = pc
         \/ m.rpc \in Thread /\ Goto(Peer(e), m.rpc, "count")
  BY DEF DeliverMsg, AnswerSync, Goto
<1>3. CASE pc' = pc
  <2>1. \A f \in End : Held(f)' = Held(f) /\ acks[f] \in Nat
    BY <1>1, <1>3 DEF Held, TypeOK
  <2>2. QED
    BY <1>1, <1>2, <2>1, HeldKept
<1>4. CASE m.rpc \in Thread /\ Goto(Peer(e), m.rpc, "count")
  <2>1. pc[Peer(e)][m.rpc] = "rpc" /\ Peer(e) \in End
    BY <1>4, PeerFacts DEF IInv, LossyInv, SyncInv
  <2>2. "count" \in ThreadState
    BY DEF ThreadState
  <2>3. QED
    BY <1>1, <1>2, <1>4, <2>1, <2>2, HeldMove
<1>5. QED
  BY <1>2, <1>3, <1>4

\* CountSent gives out one count, to a thread that is then held back.
LEMMA HeldCount ==
  ASSUME TypeOK, TypeOK', HeldInv, NEW e \in End, NEW t \in Thread,
         CountSent(e, t)
  PROVE  HeldInv'
<1>1. /\ pc[e][t] = "count" /\ Goto(e, t, "throttle")
      /\ sent' = [sent EXCEPT ![e] = @ + 1]
      /\ wcount' = [wcount EXCEPT ![e][t] = sent[e] + 1]
      /\ acks' = acks
  BY DEF CountSent
<1>2. "throttle" \in ThreadState
  BY DEF ThreadState
<1>3. /\ \A f \in End \ {e} : pc'[f] = pc[f]
      /\ \A u \in Thread \ {t} : pc'[e][u] = pc[e][u]
      /\ pc'[e][t] = "throttle"
  BY <1>1, <1>2, GotoCounts
<1>4. /\ \A f \in End \ {e} : wcount'[f] = wcount[f] /\ sent'[f] = sent[f]
      /\ \A u \in Thread \ {t} : wcount'[e][u] = wcount[e][u]
      /\ wcount'[e][t] = sent[e] + 1 /\ sent'[e] = sent[e] + 1
  BY <1>1 DEF TypeOK
<1>5. t \in Held(e)'
  BY <1>3 DEF Held
<1>6. \A f \in End : \A u \in Held(f) : u \in Held(f)' /\ wcount'[f][u] = wcount[f][u]
  BY <1>1, <1>3, <1>4 DEF Held
<1> SUFFICES ASSUME 0 \notin Window, NEW f \in End,
                    NEW n \in (acks'[f] + MaxWindow) .. sent'[f]
             PROVE  \E u \in Held(f)' : wcount'[f][u] = n
  BY DEF HeldInv, MaxWindow
<1>7. acks[f] \in Nat /\ sent[f] \in Nat /\ sent[e] \in Nat /\ MaxWindow \in Nat
  BY MaxWindowFacts DEF TypeOK
<1>8. CASE n \in (acks[f] + MaxWindow) .. sent[f]
  <2>1. PICK u \in Held(f) : wcount[f][u] = n
    BY <1>8 DEF HeldInv
  <2>2. QED
    BY <2>1, <1>6
<1>9. CASE f = e /\ n = sent[e] + 1
  BY <1>9, <1>4, <1>5
<1>10. QED
  BY <1>1, <1>4, <1>7, <1>8, <1>9

\* ThrottleWindowWait lets a thread go only below the window.
LEMMA HeldRelease ==
  ASSUME TypeOK, TypeOK', HeldInv, NEW e \in End, NEW t \in Thread,
         ThrottleWindowWait(e, t)
  PROVE  HeldInv'
<1>1. /\ Goto(e, t, "idle") /\ UNCHANGED <<sent, acks, wcount>>
      /\ window[e] = 0 \/ acks[e] + window[e] > wcount[e][t]
  BY DEF ThrottleWindowWait, WindowOpen, countVars
<1>2. "idle" \in ThreadState
  BY DEF ThreadState
<1>3. /\ \A f \in End \ {e} : pc'[f] = pc[f]
      /\ \A u \in Thread \ {t} : pc'[e][u] = pc[e][u]
  BY <1>1, <1>2, GotoCounts
<1> SUFFICES ASSUME 0 \notin Window, NEW f \in End,
                    NEW n \in (acks[f] + MaxWindow) .. sent[f]
             PROVE  \E u \in Held(f)' : wcount[f][u] = n
  BY <1>1 DEF HeldInv, MaxWindow
<1>4. PICK u \in Held(f) : wcount[f][u] = n
  BY DEF HeldInv
<1>0. /\ window[e] \in Window /\ wcount[e][t] \in Nat
      /\ acks[e] \in Nat /\ sent[e] \in Nat
  BY DEF TypeOK
<1>5. window[e] \in Nat /\ MaxWindow \in Nat /\ window[e] <= MaxWindow
  BY <1>0, MaxWindowFacts, ChannelAssumption
<1>6. acks[e] + MaxWindow > wcount[e][t]
  BY <1>0, <1>1, <1>5
<1>7. f # e \/ u # t
  BY <1>0, <1>4, <1>5, <1>6
<1>8. u \in Held(f)'
  BY <1>3, <1>7 DEF Held
<1>9. QED
  BY <1>4, <1>8

\* Every step preserves HeldInv.
LEMMA HeldNext == IInv /\ HeldInv /\ [Next]_vars => HeldInv'
<1> SUFFICES ASSUME IInv, HeldInv, [Next]_vars PROVE HeldInv'
  OBVIOUS
<1>1. IInv' /\ TypeOK /\ TypeOK'
  BY NextInv DEF IInv, LossyInv
<1>a. \A e \in End : acks[e] \in Nat
  BY <1>1 DEF TypeOK
<1>b. {"rpc", "count", "ack", "idle", "failed"} \subseteq ThreadState
  BY DEF ThreadState
<1>2. CASE UNCHANGED <<sent, pc, wcount>> /\ \A e \in End : acks'[e] >= acks[e]
  <2>1. \A e \in End : Held(e)' = Held(e)
    BY <1>2 DEF Held
  <2>2. QED
    BY <1>1, <1>2, <2>1, HeldKept
<1>3. CASE UNCHANGED vars
  BY <1>2, <1>3, <1>a DEF vars, countVars, thrVars
<1>4. ASSUME NEW e \in End, Application(e)
      PROVE  HeldInv'
  <2>1. ASSUME NEW t \in Thread, NEW k \in Key, SendAsync(e, t, k) \/ Send(e, t, k)
        PROVE  HeldInv'
    <3>1. PICK s \in {"rpc", "count"} : Goto(e, t, s)
      BY <2>1 DEF SendAsync, Send
    <3>2. pc[e][t] = "idle" /\ UNCHANGED <<sent, acks, wcount>>
      BY <2>1 DEF SendAsync, Send, countVars
    <3>3. QED
      BY <3>1, <3>2, <1>1, <1>b, HeldMove
  <2>2. ASSUME NEW t \in Thread, NEW m \in db[e], Recv(e, t, m)
        PROVE  HeldInv'
    BY <2>2, <1>1, <1>b, HeldMove DEF Recv, countVars
  <2>3. ASSUME NEW t \in Thread, ThrottleTimeout(e, t)
        PROVE  HeldInv'
    BY <2>3, <1>1, <1>b, HeldMove DEF ThrottleTimeout, countVars
  <2>4. ASSUME NEW w \in Window, SetThrottleWindowSize(e, w)
        PROVE  HeldInv'
    BY <2>4, <1>2, <1>a DEF SetThrottleWindowSize, countVars, thrVars
  <2>5. CASE StopReceivingAndAckUnreadMsgs(e)
    BY <2>5, <1>2, <1>a DEF StopReceivingAndAckUnreadMsgs, thrVars
  <2>6. CASE StopServer(e)
    BY <2>6, <1>2, <1>a DEF StopServer, Advance, countVars, thrVars
  <2>7. QED
    BY <1>4, <2>1, <2>2, <2>3, <2>4, <2>5, <2>6 DEF Application
<1>5. ASSUME NEW e \in End, NEW t \in Thread, ThreadStep(e, t)
      PROVE  HeldInv'
  <2>1. CASE RecvAck(e, t)
    BY <2>1, <1>1, <1>b, HeldMove DEF RecvAck
  <2>2. QED
    BY <1>1, <1>5, <2>1, HeldCount, HeldRelease DEF ThreadStep
<1>6. ASSUME NEW e \in End, FinishStep(e)
      PROVE  HeldInv'
  <2>1. UNCHANGED <<sent, pc, wcount, acks>>
    BY <1>6 DEF FinishStep, SendFin, WaitForFin, WaitForFlyingMsg,
                WaitAsyncSendToFinish, WaitForFlyingAck, Advance, countVars, thrVars
  <2>2. QED
    BY <2>1, <1>2, <1>a
<1>7. ASSUME NEW e \in End, DeliverStep(e)
      PROVE  HeldInv'
  <2>1. CASE DeliverAck(e)
    <3>1. UNCHANGED <<sent, pc, wcount>> /\ acks' = [acks EXCEPT ![e] = @ + 1]
      BY <2>1 DEF DeliverAck, OnAck, thrVars
    <3>2. \A f \in End : acks'[f] >= acks[f]
      BY <3>1, <1>a, <1>1 DEF TypeOK
    <3>3. QED
      BY <3>1, <3>2, <1>2
  <2>2. ASSUME NEW n \in finNet[e], DeliverFin(e, n)
        PROVE  HeldInv'
    BY <2>2, <1>2, <1>a DEF DeliverFin, countVars, thrVars
  <2>3. CASE OnPushDone(e)
    BY <2>3, <1>2, <1>a DEF OnPushDone, thrVars
  <2>4. QED
    BY <1>1, <1>7, <2>1, <2>2, <2>3, HeldDeliver DEF DeliverStep
<1>8. QED
  BY <1>3, <1>4, <1>5, <1>6, <1>7 DEF Next, Terminating

\* Whatever is a full window past the acks is held by as many threads.
LEMMA HeldBound ==
  ASSUME IInv, HeldInv, 0 \notin Window, NEW e \in End
  PROVE  pushed[e] - acks[e] < MaxWindow + Cardinality(Thread)
<1> DEFINE I == (acks[e] + MaxWindow) .. sent[e]
           H == Held(e)
           U == Uncounted(e)
           f == [n \in I |-> CHOOSE t \in H : wcount[e][t] = n]
<1>1. /\ acks[e] \in Nat /\ sent[e] \in Nat /\ pushed[e] \in Nat
      /\ MaxWindow \in Nat /\ MaxWindow \in Window
  BY MaxWindowFacts, Exact DEF TypeOK
<1>2. \A n \in I : f[n] \in H /\ wcount[e][f[n]] = n
  BY DEF HeldInv
<1>3. H \subseteq Thread /\ U \subseteq Thread /\ H \cap U = {}
  BY DEF Held, Uncounted
<1>4. /\ IsFiniteSet(H) /\ IsFiniteSet(U) /\ IsFiniteSet(Thread)
      /\ Cardinality(Thread) \in Nat /\ Cardinality(H) \in Nat /\ Cardinality(U) \in Nat
  BY <1>3, ChannelAssumption, FS_Subset, FS_CardinalityType
<1>5. f \in [I -> H] /\ \A m, n \in I : f[m] = f[n] => m = n
  BY <1>2
<1> HIDE DEF f, H, U
<1>6. Cardinality(I) <= Cardinality(H)
  <2>1. f \in Injection(I, H)
    BY <1>5 DEF Injection, IsInjective
  <2>2. QED
    BY <2>1, <1>4, FS_Injection
<1>7. Cardinality(I) = IF acks[e] + MaxWindow > sent[e] THEN 0
                       ELSE sent[e] - (acks[e] + MaxWindow) + 1
  <2>1. acks[e] + MaxWindow \in Int /\ sent[e] \in Int
    BY <1>1
  <2>2. QED
    BY <2>1, FS_Interval
<1>8. Cardinality(H) + Cardinality(U) <= Cardinality(Thread)
  <2>1. /\ Cardinality(H \cup U) = Cardinality(H) + Cardinality(U) - Cardinality(H \cap U)
        /\ IsFiniteSet(H \cup U)
    BY <1>4, FS_Union
  <2>2. H \cup U \in SUBSET Thread
    BY <1>3
  <2>3. Cardinality(H \cup U) <= Cardinality(Thread)
    BY <2>2, <1>4, FS_Subset
  <2>4. Cardinality(H \cap U) = 0
    BY <1>3, FS_EmptySet
  <2>5. QED
    BY <2>1, <2>3, <2>4, <1>4
<1>9. pushed[e] = sent[e] + Cardinality(U)
  BY Exact DEF U
<1>10. CASE acks[e] + MaxWindow <= sent[e]
  BY <1>1, <1>4, <1>6, <1>7, <1>8, <1>9, <1>10, SMTT(30)
<1>11. CASE acks[e] + MaxWindow > sent[e]
  BY <1>1, <1>4, <1>8, <1>9, <1>11
<1>12. QED
  BY <1>1, <1>10, <1>11

\* With a throttle window, at most that many messages and one per sending thread
\* are unacknowledged (ThrottleWindowWait, channel.cc:203-215), for any number
\* of threads, although a sender counts its message after the message has left.
THEOREM ThrottleBounded == Spec => []ThrottleBound
<1>1. Init => HeldInv
  <2> SUFFICES ASSUME Init, 0 \notin Window, NEW e \in End,
                      NEW n \in (acks[e] + MaxWindow) .. sent[e]
               PROVE  FALSE
    BY DEF HeldInv
  <2>1. acks[e] = 0 /\ sent[e] = 0
    BY DEF Init
  <2>2. MaxWindow \in Window /\ MaxWindow \in Nat
    BY MaxWindowFacts
  <2>3. QED
    BY <2>1, <2>2
<1>2. IInv /\ HeldInv => ThrottleBound
  BY HeldBound DEF ThrottleBound
<1>3. QED
  BY <1>1, <1>2, HeldNext, Invariance, PTL DEF Spec

=============================================================================
