---------------------------- MODULE LinkShutdown ----------------------------
(***************************************************************************)
(* What WaitLinkTaskFinish promises to the users of a channel              *)
(* (IChannel, channel.h:61-65), whatever the transport: an endpoint comes  *)
(* back from it only when both endpoints have called it and no message of  *)
(* either of them is waiting for its acknowledgement.                      *)
(***************************************************************************)
EXTENDS Integers

End == {0, 1}

Peer(e) == 1 - e

VARIABLES
  phase,       \* "open", in WaitLinkTaskFinish ("closing"), or back from it
  outstanding  \* messages of the endpoint that are not acknowledged

vars == <<phase, outstanding>>

Init ==
  /\ phase = [e \in End |-> "open"]
  /\ outstanding = [e \in End |-> 0]

Submit(e) ==
  /\ phase[e] = "open"
  /\ outstanding' = [outstanding EXCEPT ![e] = @ + 1]
  /\ UNCHANGED phase

Acknowledge(e) ==
  /\ outstanding[e] > 0
  /\ outstanding' = [outstanding EXCEPT ![e] = @ - 1]
  /\ UNCHANGED phase

Close(e) ==
  /\ phase[e] = "open"
  /\ phase' = [phase EXCEPT ![e] = "closing"]
  /\ UNCHANGED outstanding

Finish(e) ==
  /\ phase[e] = "closing" /\ phase[Peer(e)] # "open"
  /\ \A f \in End : outstanding[f] = 0
  /\ phase' = [phase EXCEPT ![e] = "finished"]
  /\ UNCHANGED outstanding

Next == \E e \in End : Submit(e) \/ Acknowledge(e) \/ Close(e) \/ Finish(e)

Spec == Init /\ [][Next]_vars

=============================================================================
