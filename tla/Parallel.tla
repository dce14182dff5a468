------------------------------ MODULE Parallel ------------------------------
(***************************************************************************)
(* parallel_for and parallel_reduce of yasl/utils/parallel_native.h over a *)
(* pool that is made when the first task is submitted.  Several threads of *)
(* the program call them and set_num_threads at any time; the function     *)
(* they run may throw, and may call parallel_for itself.                   *)
(*                                                                         *)
(* Of the pool (ThreadPool) this module uses what its own specification    *)
(* promises: submitted tasks are taken in order, each by one worker.       *)
(***************************************************************************)
EXTENDS Integers, SequencesExt

CONSTANTS
  Callers,       \* threads of the program
  Workers,       \* threads the pool may have, 1 .. n
  DefaultThreads,\* intraop_default_num_threads()
  ThreadCounts,  \* arguments of set_num_threads
  Work,          \* what each caller may call, see below
  NestedWork,    \* what f calls
  MaxSets        \* bound on the calls of set_num_threads

ASSUME ParallelAssumption ==
  /\ Callers \cap Workers = {}
  /\ DefaultThreads \in Nat \ {0}
  /\ ThreadCounts \subseteq Nat \ {0}
  /\ DOMAIN Work = Callers
  /\ \A w \in (UNION Range(Work)) \cup {NestedWork} : w.len \in Nat /\ w.grain \in Nat \ {0}

NOT_SET == -1
CONSUMED == -2

Threads == Callers \cup Workers

(* Work is the length of the range and the grain, whether it is a reduce,  *)
(* whether f calls parallel_for, and the item at which f throws (or -1).   *)
(*                                                                         *)
(* A call is named by the tasks around it: <<c>> is the call of thread c,  *)
(* <<c, k>> a call of its task k.                                          *)
MaxTasks == Max(ThreadCounts \cup {DefaultThreads})
Calls == {<<c>> : c \in Callers} \cup (Callers \X (0 .. MaxTasks - 1))
Caller(id) == id[1]

VARIABLES
  num_intraop_threads,
  pool,     \* the number of workers of the pool, 0 before it is made
  queue,    \* the queue of the pool
  stack,    \* what each thread is in: calls and tasks, innermost first
  region,   \* in_parallel_region_, thread local
  call,     \* the calls
  sets

vars == <<num_intraop_threads, pool, queue, stack, region, call, sets>>

NoCall == [pc |-> "none", work |-> NestedWork, sized |-> 0,
           num_tasks |-> 0, chunk_size |-> 0, next |-> 0, future |-> <<>>,
           results |-> <<>>, visits |-> <<>>, result |-> <<>>]

Init ==
  /\ num_intraop_threads = NOT_SET /\ pool = 0 /\ queue = <<>>
  /\ stack = [t \in Threads |-> <<>>]
  /\ region = [t \in Threads |-> FALSE]
  /\ call = [id \in Calls |-> NoCall]
  /\ sets = 0

-----------------------------------------------------------------------------
(* Mutant: rounds down.                                                    *)
divup_Floor(x, y) == x \div y

divup(x, y) == (x + y - 1) \div y

(* A pool that could not be made (of no workers) leaves CONSUMED behind,   *)
(* and every later use throws, the one in in_parallel_region too.          *)
PoolBroken == num_intraop_threads = CONSUMED /\ pool = 0

get_num_threads ==
  CASE num_intraop_threads > 0 -> num_intraop_threads
    [] num_intraop_threads = NOT_SET -> DefaultThreads
    [] OTHER -> pool + 1

calc_num_tasks_and_chunk_size(len, grain) ==
  IF len < grain THEN [num_tasks |-> 1, chunk_size |-> len]
  ELSE LET chunk == Max({grain, divup(len, get_num_threads)})
       IN  [num_tasks |-> divup(len, chunk), chunk_size |-> chunk]

(* Mutant: only the threads of the program know that they are in a region. *)
in_parallel_region_CallersOnly(t) == t \in Callers /\ region[t]

(* The second disjunct is InThreadPool.                                    *)
in_parallel_region(t) ==
  region[t] \/ (num_intraop_threads = CONSUMED /\ t \in Workers)

set_num_threads(t) ==
  /\ t \in Callers /\ stack[t] = <<>> /\ sets < MaxSets
  /\ sets' = sets + 1
  /\ \E k \in ThreadCounts :
       num_intraop_threads' = IF num_intraop_threads = NOT_SET THEN k ELSE num_intraop_threads
  /\ UNCHANGED <<pool, queue, stack, region, call>>

-----------------------------------------------------------------------------
Push(t, frame) == stack' = [stack EXCEPT ![t] = <<frame>> \o @]
Pop(t) == stack' = [stack EXCEPT ![t] = Tail(@)]
Top(t) == Head(stack[t])
SetCall(id, c) == call' = [call EXCEPT ![id] = c]
Throws(work, from, to) == work.throwsAt >= from /\ work.throwsAt < to

(* f runs over the items from .. to - 1 of a call.                         *)
Visit(c, from, to) ==
  [i \in DOMAIN c.visits |-> IF i >= from /\ i < to THEN c.visits[i] + 1 ELSE c.visits[i]]
Items(from, to) == [i \in 1 .. to - from |-> from + i - 1]

(* parallel_for and parallel_reduce up to _parallel_run: nothing to do, a  *)
(* direct call of f, or, for parallel_reduce, results of the size that the *)
(* first computation of num_tasks gives.                                   *)
Begin(t, id, work) ==
  LET c == [NoCall EXCEPT !.work = work, !.visits = [i \in 0 .. work.len - 1 |-> 0]]
      direct == work.len < work.grain \/ in_parallel_region(t)
      size == calc_num_tasks_and_chunk_size(work.len, work.grain).num_tasks
  IN  \/ /\ work.len = 0
         /\ SetCall(id, [c EXCEPT !.pc = "ok"])
         /\ UNCHANGED stack
      \/ /\ work.len > 0 /\ direct
         /\ SetCall(id, IF Throws(work, 0, work.len) THEN [c EXCEPT !.pc = "threw"]
                        ELSE [c EXCEPT !.pc = "ok", !.visits = Visit(c, 0, work.len),
                                       !.result = Items(0, work.len)])
         /\ UNCHANGED stack
      \/ /\ work.len > 0 /\ ~direct /\ PoolBroken
         /\ SetCall(id, [c EXCEPT !.pc = "threw"])
         /\ UNCHANGED stack
      \/ /\ work.len > 0 /\ ~direct /\ ~PoolBroken
         /\ SetCall(id, [c EXCEPT !.pc = "enter", !.sized = IF work.reduce THEN size ELSE 0,
                                  !.results = IF work.reduce
                                              THEN [k \in 0 .. size - 1 |-> <<"scalar_t()">>] ELSE @])
         /\ Push(t, [call |-> id, task |-> -1])

Start(t) ==
  /\ t \in Callers /\ stack[t] = <<>> /\ call[<<t>>].pc = "none"
  /\ \E work \in Work[t] : Begin(t, <<t>>, work)
  /\ UNCHANGED <<num_intraop_threads, pool, queue, region, sets>>

(* The exception leaves the call.                                          *)
Leave(t, id, c) == SetCall(id, [c EXCEPT !.pc = "threw"]) /\ Pop(t)

(* _parallel_run computes the number of tasks again.                       *)
Enter(t, id) ==
  /\ call[id].pc = "enter"
  /\ IF PoolBroken THEN Leave(t, id, call[id])
     ELSE LET r == calc_num_tasks_and_chunk_size(call[id].work.len, call[id].work.grain)
          IN  /\ SetCall(id, [call[id] EXCEPT !.pc = "submit", !.next = 1,
                                !.num_tasks = r.num_tasks, !.chunk_size = r.chunk_size,
                                !.future = [k \in 1 .. r.num_tasks - 1 |-> "none"]])
              /\ UNCHANGED stack
  /\ UNCHANGED <<num_intraop_threads, pool, queue, region, sets>>

(* _get_intraop_pool and Submit: the pool has one thread less than asked   *)
(* for, because the caller works too; a pool of none throws.               *)
PoolSize ==
  CASE pool > 0 -> pool
    [] num_intraop_threads = NOT_SET -> DefaultThreads - 1
    [] num_intraop_threads > 0 -> num_intraop_threads - 1
    [] OTHER -> 0

Submit(t, id) ==
  LET c == call[id] IN
  /\ c.pc = "submit" /\ c.next < c.num_tasks
  /\ num_intraop_threads' = CONSUMED /\ pool' = PoolSize
  /\ IF PoolSize = 0 THEN Leave(t, id, c) /\ UNCHANGED queue
     ELSE /\ queue' = Append(queue, [call |-> id, task |-> c.next])
          /\ SetCall(id, [c EXCEPT !.next = @ + 1, !.future[c.next] = "queued"])
          /\ UNCHANGED stack
  /\ UNCHANGED <<region, sets>>

(* task(0) on the thread of the caller.                                    *)
RunFirst(t, id) ==
  /\ call[id].pc = "submit" /\ call[id].next = call[id].num_tasks
  /\ SetCall(id, [call[id] EXCEPT !.pc = "first"])
  /\ Push(t, [call |-> id, task |-> 0])
  /\ region' = [region EXCEPT ![t] = TRUE]
  /\ UNCHANGED <<num_intraop_threads, pool, queue, sets>>

(* WorkLoop: a worker that has nothing to do takes the next task.          *)
Take(w) ==
  LET id == Head(queue).call
      k == Head(queue).task
  IN
  /\ w \in Workers /\ w <= pool /\ stack[w] = <<>> /\ queue # <<>>
  /\ queue' = Tail(queue)
  /\ Push(w, Head(queue))
  /\ region' = [region EXCEPT ![w] = TRUE]
  /\ SetCall(id, [call[id] EXCEPT !.future[k] = "running"])
  /\ UNCHANGED <<num_intraop_threads, pool, sets>>

InTask(t) == stack[t] # <<>> /\ Top(t).task >= 0

NestedCall(t) == <<Caller(Top(t).call), Top(t).task>>

(* f calls parallel_for.                                                   *)
Nest(t) ==
  /\ InTask(t) /\ call[Top(t).call].work.nests /\ call[NestedCall(t)].pc = "none"
  /\ Begin(t, NestedCall(t), NestedWork)
  /\ UNCHANGED <<num_intraop_threads, pool, queue, region, sets>>

(* The chunk of task k, from start up to end.                              *)
ChunkStart(c, k) == k * c.chunk_size
ChunkEnd(c, k) == Min({c.work.len, ChunkStart(c, k) + c.chunk_size})

(* A task ends: f has gone through its chunk or throws.  The guard is      *)
(* destroyed, and the future, or the caller after task(0), is told.  A     *)
(* result that nobody waits for any more is written nowhere here.          *)
EndTask(t) ==
  LET id == Top(t).call
      k == Top(t).task
      c == call[id]
      start == ChunkStart(c, k)
      end == ChunkEnd(c, k)
      ok == ~Throws(c.work, start, end)
      told == IF k = 0 THEN [c EXCEPT !.pc = IF ok THEN "wait" ELSE "threw", !.next = 1]
                       ELSE [c EXCEPT !.future[k] = IF ok THEN "ok" ELSE "threw"]
      done == [told EXCEPT !.visits = Visit(c, start, end),
                           !.results = IF k \in DOMAIN @ THEN [@ EXCEPT ![k] = Items(start, end)]
                                       ELSE @]
  IN  /\ InTask(t) /\ (c.work.nests => call[NestedCall(t)].pc \in {"ok", "threw"})
      /\ SetCall(id, IF ok THEN done ELSE told)
      /\ stack' = [stack EXCEPT ![t] = IF k = 0 /\ ~ok THEN Tail(Tail(@)) ELSE Tail(@)]
      /\ region' = [region EXCEPT ![t] = FALSE]
      /\ UNCHANGED <<num_intraop_threads, pool, queue, sets>>

(* future.get() in turn; the first exception is thrown on.                 *)
Get(t, id) ==
  LET c == call[id] IN
  /\ c.pc = "wait" /\ c.next < c.num_tasks
  /\ \/ /\ c.future[c.next] = "ok"
        /\ SetCall(id, [c EXCEPT !.next = @ + 1])
        /\ UNCHANGED stack
     \/ c.future[c.next] = "threw" /\ Leave(t, id, c)
  /\ UNCHANGED <<num_intraop_threads, pool, queue, region, sets>>

(* Mutant: the result of task 0 is left out.                               *)
Combined_FromOne(c) == FlattenSeq([k \in 1 .. c.sized - 1 |-> c.results[k]])

(* sf over the results in their order, beginning with ident.               *)
Combined(c) == FlattenSeq([k \in 1 .. c.sized |-> c.results[k - 1]])

Return(t, id) ==
  LET c == call[id]
  IN  /\ c.pc = "wait" /\ c.next = c.num_tasks
      /\ SetCall(id, [c EXCEPT !.pc = "ok", !.result = Combined(c)])
      /\ Pop(t)
      /\ UNCHANGED <<num_intraop_threads, pool, queue, region, sets>>

InCalls(t) ==
  /\ stack[t] # <<>> /\ Top(t).task = -1
  /\ LET id == Top(t).call
     IN  Enter(t, id) \/ Submit(t, id) \/ RunFirst(t, id) \/ Get(t, id) \/ Return(t, id)

Next ==
  \E t \in Threads :
    set_num_threads(t) \/ Start(t) \/ InCalls(t) \/ Take(t) \/ Nest(t) \/ EndTask(t)

Spec == Init /\ [][Next]_vars

(* A thread in a call, and a worker of the pool, goes on; f ends.          *)
Fairness == \A t \in Threads : WF_vars(InCalls(t)) /\ WF_vars(Take(t)) /\ WF_vars(Nest(t) \/ EndTask(t))

FairSpec == Spec /\ Fairness

-----------------------------------------------------------------------------
(* The chunks are a partition of the range: no item is visited twice by a  *)
(* call, and when the call returns every item has been visited, whatever   *)
(* set_num_threads did between the computations of the number of tasks.    *)
EachOnce ==
  \A id \in Calls :
    \A i \in DOMAIN call[id].visits :
      call[id].visits[i] \in (IF call[id].pc = "ok" THEN {1} ELSE {0, 1})

(* parallel_reduce combines the results of all items in their order, when  *)
(* both of its computations of num_tasks agree.  (A set_num_threads that   *)
(* comes between them leaves results that no task fills, or tasks without  *)
(* a result.)                                                              *)
ReduceCorrect ==
  \A id \in Calls :
    LET c == call[id]
    IN  c.work.reduce /\ c.pc = "ok" /\ c.sized = c.num_tasks => c.result = Items(0, c.work.len)

(* Every call of parallel_for and parallel_reduce returns or throws, also  *)
(* when all the workers run functions that call parallel_for: those calls  *)
(* run in the worker itself, and no worker ever waits for another task.    *)
CallsReturn ==
  \A c \in Callers : call[<<c>>].pc # "none" ~> call[<<c>>].pc \in {"ok", "threw"}

-----------------------------------------------------------------------------
(* The inductive invariant behind EachOnce and ReduceCorrect.              *)

HasFields(c) == c = [f \in {"pc", "work", "sized", "num_tasks", "chunk_size", "next",
                            "future", "results", "visits", "result"} |-> c[f]]

Visited(c, n) == \A i \in DOMAIN c.visits : c.visits[i] = n

(* Nothing has run: the call has not begun, has not divided its range, or  *)
(* has thrown before it did.                                               *)
Fresh(c) ==
  /\ c.pc \in {"none", "enter", "threw"} /\ Visited(c, 0) /\ DOMAIN c.future = {}
  /\ c.pc = "enter" => 0 < c.work.len /\ c.work.grain <= c.work.len
  /\ c.pc = "enter" /\ c.work.reduce => DOMAIN c.results = 0 .. c.sized - 1

(* f was called directly, or there was nothing to do.                      *)
Direct(c) ==
  c.pc = "ok" /\ Visited(c, 1) /\ DOMAIN c.future = {} /\ c.result = Items(0, c.work.len)

(* Task k has ended well.                                                  *)
Done(c, k) == IF k = 0 THEN c.pc \in {"wait", "ok"} ELSE c.future[k] = "ok"

(* The range is divided, and an item is visited when its task is done; of  *)
(* the first task of a call that threw nothing is known.                   *)
Divided(c) ==
  /\ c.pc \in {"submit", "first", "wait", "ok", "threw"}
  /\ 0 < c.work.len /\ c.chunk_size \in Nat \ {0}
  /\ c.num_tasks = divup(c.work.len, c.chunk_size) /\ c.next \in 1 .. c.num_tasks
  /\ DOMAIN c.future = 1 .. c.num_tasks - 1
  /\ c.pc = "submit" => \A k \in c.next .. c.num_tasks - 1 : c.future[k] = "none"
  /\ c.pc = "wait" => \A k \in 1 .. c.next - 1 : c.future[k] = "ok"
  /\ c.pc = "ok" => \A k \in DOMAIN c.future : c.future[k] = "ok"
  /\ \A i \in 0 .. c.work.len - 1 :
       LET k == i \div c.chunk_size
       IN  /\ c.visits[i] \in {0, 1}
           /\ k # 0 \/ c.pc # "threw" => c.visits[i] = IF Done(c, k) THEN 1 ELSE 0
  /\ c.work.reduce =>
       /\ DOMAIN c.results = 0 .. c.sized - 1
       /\ \A k \in 0 .. c.num_tasks - 1 :
            k \in DOMAIN c.results /\ Done(c, k) =>
              c.results[k] = Items(ChunkStart(c, k), ChunkEnd(c, k))
       /\ c.pc = "ok" /\ c.sized = c.num_tasks => c.result = Items(0, c.work.len)

CallInv(c) ==
  /\ HasFields(c) /\ c.work.len \in Nat /\ c.work.grain \in Nat \ {0}
  /\ DOMAIN c.visits = IF c.pc = "none" THEN {} ELSE 0 .. c.work.len - 1
  /\ Fresh(c) \/ Direct(c) \/ Divided(c)

Frame(c, k) == [call |-> <<c>>, task |-> k]
TaskFrame == [call : {<<c>> : c \in Callers}, task : Nat \ {0}]

(* A task of the pool whose future is in that state.                       *)
IsTask(f, state) ==
  /\ f \in TaskFrame /\ f.task \in DOMAIN call[f.call].future
  /\ call[f.call].future[f.task] = state

(* A thread of the program is in its own call; calls of f stay in the task *)
(* that f runs in.                                                         *)
CallerInv(t) ==
  LET pc == call[<<t>>].pc
  IN  \/ stack[t] = <<>> /\ pc \in {"none", "ok", "threw"}
      \/ stack[t] = <<Frame(t, -1)>> /\ pc \in {"enter", "submit", "wait"}
      \/ stack[t] = <<Frame(t, 0), Frame(t, -1)>> /\ pc = "first" /\ region[t]

WorkerInv(w) ==
  stack[w] # <<>> => region[w] /\ stack[w] = <<Top(w)>> /\ IsTask(Top(w), "running")

QueueInv ==
  /\ \A j \in 1 .. Len(queue) : IsTask(queue[j], "queued")
  /\ \A i, j \in 1 .. Len(queue) : queue[i] = queue[j] => i = j

PoolInv ==
  /\ num_intraop_threads \in {NOT_SET, CONSUMED} \cup (Nat \ {0}) /\ pool \in Nat
  /\ DOMAIN stack = Threads /\ DOMAIN region = Threads /\ DOMAIN call = Calls
  /\ queue \in Seq(TaskFrame)

ParallelInv ==
  /\ PoolInv /\ QueueInv
  /\ \A id \in Calls : CallInv(call[id])
  /\ \A t \in Callers : CallerInv(t)
  /\ \A w \in Workers : WorkerInv(w)
  /\ \A v, w \in Workers : stack[v] = stack[w] /\ stack[v] # <<>> => v = w

=============================================================================
