----------------------------- MODULE MCParallel -----------------------------
(***************************************************************************)
(* An instance of Parallel for TLC: five items in chunks of at least two   *)
(* make two tasks with two threads and three with three.                   *)
(***************************************************************************)
EXTENDS Parallel

MCWork(len, reduce, nests, throwsAt) ==
  [len |-> len, grain |-> 2, reduce |-> reduce, nests |-> nests, throwsAt |-> throwsAt]

MCNested == [MCWork(2, FALSE, FALSE, -1) EXCEPT !.grain = 1]

MCWorkOf ==
  (11 :> {MCWork(0, TRUE, FALSE, -1), MCWork(5, TRUE, FALSE, -1),
          MCWork(5, TRUE, TRUE, 4), MCWork(5, FALSE, TRUE, 0)})
  @@ (12 :> {MCWork(1, TRUE, FALSE, 0), MCWork(5, TRUE, TRUE, -1)})
=============================================================================
