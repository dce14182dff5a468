----------------------------- MODULE ThreadPool -----------------------------
(***************************************************************************)
(* yasl::ThreadPool (utils/thread_pool.h, utils/thread_pool.cc): workers   *)
(* that wait on a condition variable for a queue of tasks, threads that    *)
(* submit tasks, tasks that submit tasks, and the destructor.              *)
(*                                                                         *)
(* What happens under queue_mutex_ is one step.  Notifying the condition   *)
(* variable is a step of its own, as it happens after the unlock.          *)
(***************************************************************************)
EXTENDS Integers, FiniteSets, Sequences

CONSTANTS
  Worker,  \* threads_
  Client,  \* other threads that call Submit
  Task,    \* the tasks there are to submit
  NoTask   \* what a worker runs that runs no task

\* The constructor enforces num_threads > 0.
ASSUME ThreadPoolAssumption ==
  /\ IsFiniteSet(Worker) /\ Worker # {}
  /\ IsFiniteSet(Client)
  /\ Worker \cap Client = {}
  /\ NoTask \notin Task

Thread == Worker \cup Client

WorkerState == {"check",   \* about to lock queue_mutex_ and look at the queue
                "wait",    \* blocked in condition_.wait
                "run",     \* in task()
                "nested",  \* in task(), in Submit, about to notify
                "exit"}    \* WorkLoop has returned

ClientState == {"idle", "notify"}

\* The thread that owns the pool: it uses it, or is in the destructor about to
\* notify all, or in it joining the workers, or past it.
OwnerState == {"use", "notify_all", "join", "gone"}

VARIABLES
  pc,      \* the state of each worker and client
  cur,     \* the task a worker runs
  tasks,   \* tasks_
  status,  \* what has become of each task
  stop,    \* stop_
  owner    \* the state of the owner

poolVars == <<pc, cur, tasks, status, stop, owner>>

\* Every task is where its status says, and nowhere else.
Placed ==
  /\ \A i, j \in 1..Len(tasks) : tasks[i] = tasks[j] => i = j
  /\ \A t \in Task : status[t] = "queued" <=> \E i \in 1..Len(tasks) : tasks[i] = t
  /\ \A w \in Worker : pc[w] \in {"run", "nested"} <=> cur[w] \in Task
  /\ \A w \in Worker : cur[w] \in Task => status[cur[w]] = "running"
  /\ \A v, w \in Worker : cur[v] = cur[w] /\ cur[v] \in Task => v = w

TypeOK ==
  /\ pc \in [Thread -> WorkerState \cup ClientState]
  /\ \A w \in Worker : pc[w] \in WorkerState
  /\ \A c \in Client : pc[c] \in ClientState
  /\ cur \in [Worker -> Task \cup {NoTask}]
  /\ tasks \in Seq(Task)
  /\ status \in [Task -> {"new", "queued", "running", "done", "rejected"}]
  /\ stop \in BOOLEAN
  /\ owner \in OwnerState
  /\ Placed

\* The constructor launches the workers.
PoolInit ==
  /\ pc = [x \in Thread |-> IF x \in Worker THEN "check" ELSE "idle"]
  /\ cur = [w \in Worker |-> NoTask]
  /\ tasks = <<>>
  /\ status = [t \in Task |-> "new"]
  /\ stop = FALSE
  /\ owner = "use"

-----------------------------------------------------------------------------
(* Submit.                                                                 *)

\* A client submits a task while the pool lives, a worker while it runs one.
MaySubmit(x) ==
  \/ x \in Client /\ pc[x] = "idle" /\ owner = "use"
  \/ x \in Worker /\ pc[x] = "run"

\* A mutation: Submit does not notify.
Enqueue_Silent(x, t) ==
  /\ MaySubmit(x) /\ status[t] = "new" /\ ~stop
  /\ tasks' = Append(tasks, t)
  /\ status' = [status EXCEPT ![t] = "queued"]
  /\ UNCHANGED <<pc, cur, stop, owner>>

\* The queue takes the task; the notification is to come.
Enqueue(x, t) ==
  /\ MaySubmit(x) /\ status[t] = "new" /\ ~stop
  /\ tasks' = Append(tasks, t)
  /\ status' = [status EXCEPT ![t] = "queued"]
  /\ pc' = [pc EXCEPT ![x] = IF x \in Client THEN "notify" ELSE "nested"]
  /\ UNCHANGED <<cur, stop, owner>>

\* "Submit on a stopped ThreadPool".
Reject(x, t) ==
  /\ MaySubmit(x) /\ status[t] = "new" /\ stop
  /\ status' = [status EXCEPT ![t] = "rejected"]
  /\ UNCHANGED <<pc, cur, tasks, stop, owner>>

Waiting == {w \in Worker : pc[w] = "wait"}

\* Where Submit returns to.
Resumed(x) == IF x \in Client THEN "idle" ELSE "run"

\* condition_.notify_one wakes one worker, if one waits.
NotifyOne(x) ==
  /\ pc[x] \in {"notify", "nested"}
  /\ \/ /\ Waiting = {}
        /\ pc' = [pc EXCEPT ![x] = Resumed(x)]
     \/ \E w \in Waiting : pc' = [pc EXCEPT ![x] = Resumed(x), ![w] = "check"]
  /\ UNCHANGED <<cur, tasks, status, stop, owner>>

-----------------------------------------------------------------------------
(* WorkLoop.                                                               *)

\* A mutation: the task is not popped.
TakeTask_NoPop(w) ==
  /\ pc[w] = "check" /\ tasks # <<>>
  /\ cur' = [cur EXCEPT ![w] = Head(tasks)]
  /\ status' = [status EXCEPT ![Head(tasks)] = "running"]
  /\ pc' = [pc EXCEPT ![w] = "run"]
  /\ UNCHANGED <<tasks, stop, owner>>

TakeTask(w) ==
  /\ pc[w] = "check" /\ tasks # <<>>
  /\ cur' = [cur EXCEPT ![w] = Head(tasks)]
  /\ tasks' = Tail(tasks)
  /\ status' = [status EXCEPT ![Head(tasks)] = "running"]
  /\ pc' = [pc EXCEPT ![w] = "run"]
  /\ UNCHANGED <<stop, owner>>

\* A mutation: condition_.wait without a predicate.
Sleep_NoPredicate(w) ==
  /\ pc[w] = "check" /\ ~stop
  /\ pc' = [pc EXCEPT ![w] = "wait"]
  /\ UNCHANGED <<cur, tasks, status, stop, owner>>

Sleep(w) ==
  /\ pc[w] = "check" /\ tasks = <<>> /\ ~stop
  /\ pc' = [pc EXCEPT ![w] = "wait"]
  /\ UNCHANGED <<cur, tasks, status, stop, owner>>

\* A mutation: a stopped pool leaves its tasks.
Exit_TasksLeft(w) ==
  /\ pc[w] = "check" /\ stop
  /\ pc' = [pc EXCEPT ![w] = "exit"]
  /\ UNCHANGED <<cur, tasks, status, stop, owner>>

Exit(w) ==
  /\ pc[w] = "check" /\ tasks = <<>> /\ stop
  /\ pc' = [pc EXCEPT ![w] = "exit"]
  /\ UNCHANGED <<cur, tasks, status, stop, owner>>

\* A condition variable may wake a thread without a notification.
WakeSpuriously(w) ==
  /\ pc[w] = "wait"
  /\ pc' = [pc EXCEPT ![w] = "check"]
  /\ UNCHANGED <<cur, tasks, status, stop, owner>>

\* task() returns; what it throws goes to its future.
Finish(w) ==
  /\ pc[w] = "run"
  /\ status' = [status EXCEPT ![cur[w]] = "done"]
  /\ cur' = [cur EXCEPT ![w] = NoTask]
  /\ pc' = [pc EXCEPT ![w] = "check"]
  /\ UNCHANGED <<tasks, stop, owner>>

-----------------------------------------------------------------------------
(* The destructor, called when no other thread uses the pool any more.     *)

Stop ==
  /\ owner = "use" /\ \A c \in Client : pc[c] = "idle"
  /\ stop' = TRUE
  /\ owner' = "notify_all"
  /\ UNCHANGED <<pc, cur, tasks, status>>

\* A mutation: one worker is notified.
NotifyAll_One ==
  /\ owner = "notify_all"
  /\ \/ Waiting = {} /\ UNCHANGED pc
     \/ \E w \in Waiting : pc' = [pc EXCEPT ![w] = "check"]
  /\ owner' = "join"
  /\ UNCHANGED <<cur, tasks, status, stop>>

NotifyAll ==
  /\ owner = "notify_all"
  /\ pc' = [x \in Thread |-> IF x \in Waiting THEN "check" ELSE pc[x]]
  /\ owner' = "join"
  /\ UNCHANGED <<cur, tasks, status, stop>>

Join ==
  /\ owner = "join" /\ \A w \in Worker : pc[w] = "exit"
  /\ owner' = "gone"
  /\ UNCHANGED <<pc, cur, tasks, status, stop>>

-----------------------------------------------------------------------------

WorkLoop(w) == TakeTask(w) \/ Sleep(w) \/ Exit(w) \/ Finish(w) \/ NotifyOne(w)

Destroy == NotifyAll \/ Join

Terminating == owner = "gone" /\ UNCHANGED poolVars

PoolNext ==
  \/ \E x \in Thread, t \in Task : Enqueue(x, t) \/ Reject(x, t)
  \/ \E w \in Worker : WorkLoop(w) \/ WakeSpuriously(w)
  \/ \E c \in Client : NotifyOne(c)
  \/ Stop \/ Destroy \/ Terminating

\* Threads run, tasks come to an end, and the destructor goes on once called.
\* Nobody has to submit or to destroy anything.
PoolFairness ==
  /\ \A w \in Worker : WF_poolVars(WorkLoop(w))
  /\ \A c \in Client : WF_poolVars(NotifyOne(c))
  /\ WF_poolVars(Destroy)

PoolSpec == PoolInit /\ [][PoolNext]_poolVars /\ PoolFairness

-----------------------------------------------------------------------------
(* Properties.                                                             *)

\* Threads that are about to look at the queue, or to wake one that will.
Alert == {x \in Thread : pc[x] \in {"check", "notify", "nested"}}

\* "if the thread pool has idle thread, the task will run immediately"
\* (thread_pool.h:48-49): while a worker is blocked, every task in the queue has
\* a thread that is coming for it.  No notification is lost.
NoIdleWorker == Waiting # {} => Len(tasks) <= Cardinality(Alert)

\* The destructor returns only when every task that Submit took has run.
Drained ==
  owner = "gone" => \A t \in Task : status[t] \in {"new", "done", "rejected"}

\* Every task that Submit took is run in the end.
TasksRun == \A t \in Task : status[t] = "queued" ~> status[t] = "done"

\* The destructor comes to its end: no worker sleeps through it.
Destroyed == (owner = "notify_all") ~> (owner = "gone")

=============================================================================
