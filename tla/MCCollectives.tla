--------------------------- MODULE MCCollectives ---------------------------
(***************************************************************************)
(* Instances of Collectives for TLC: one world of five parties, one of     *)
(* three, and one of two with two spawned contexts and a sub world that    *)
(* all share its channels.                                                 *)
(***************************************************************************)
EXTENDS Collectives, TLC

CONSTANTS five, three, world, kid, twin, sub

Contexts == {five, three, world, kid, twin, sub}
UsedTogether == {{five}, {three}, {world, kid, twin, sub}}

\* The ranks of the sub world are in another order.
Parties == (five :> <<0, 1, 2, 3, 4>>) @@ (three :> <<0, 1, 2>>) @@
           (world :> <<0, 1>>) @@ (kid :> <<0, 1>>) @@ (twin :> <<0, 1>>) @@
           (sub :> <<1, 0>>)

\* Some parties throttle what they send, one of them as much as possible.
Windows == [p \in 0..4 |-> IF p < 2 THEN 2 ELSE IF p = 2 THEN 1 ELSE 0]

Of(op, root) ==
  [op |-> op, root |-> root, peer |-> 0, size |-> 1, child |-> world, suffix |-> 0]
Vector(op, root, size) == [Of(op, root) EXCEPT !.size = size]
P2P(src, dst) == [Of("p2p", src) EXCEPT !.peer = dst]
Make(op, child) == [Of(op, 0) EXCEPT !.child = child, !.suffix = 7]

\* Five ranks: a broadcast and a barrier that no power of two fits.  Three
\* ranks: all algorithms, some of them twice, and vectors of no, one and two
\* buffers.  The children of a world: the same calls under different ids.
Programs ==
  (five :> <<Of("bcast", 2), Of("barrier", 0)>>) @@
  (three :> <<Of("barrier", 0), Of("bcast", 0), Of("bcast", 0),
              Vector("allgatherv", 0, 2), Vector("allgatherv", 0, 0),
              Vector("gatherv", 1, 1), Of("scatter", 1), P2P(1, 2), P2P(1, 2)>>) @@
  (world :> <<Make("spawn", kid), Make("spawn", twin), Make("subworld", sub)>>) @@
  (kid :> <<Of("gather", 1)>>) @@ (twin :> <<Of("gather", 1)>>) @@
  (sub :> <<Of("gather", 0)>>)

=============================================================================
