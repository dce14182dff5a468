---------------------------- MODULE UtilityProofs ----------------------------
(***************************************************************************)
(* The theorems about the thread pool, parallel loops and the CSV reader.  *)
(*                                                                         *)
(* ThreadPool, for any finite number of workers and clients and any set of *)
(* tasks: no task is lost or run twice, a blocked worker means that every  *)
(* queued task has a thread coming for it, and the destructor drains the   *)
(* queue.                                                                  *)
(*                                                                         *)
(* Parallel, for any callers, workers, ranges and grains: ParallelInv is   *)
(* inductive and gives EachOnce and ReduceCorrect.                         *)
(*                                                                         *)
(* CsvReader, for any files, selections, batch sizes and number of         *)
(* readers: CsvInv is inductive and gives ReaderConsistent, NextFalseIsEof *)
(* and ColumnsReadable.                                                    *)
(***************************************************************************)
EXTENDS ThreadPool, Parallel, CsvReader, FiniteSetTheorems, SequenceTheorems,
        WellFoundedInduction, TLAPS

-----------------------------------------------------------------------------
(* The thread pool.                                                        *)

\* What the destructor rests on: nothing enters the queue after stop_, a worker
\* leaves only an empty queue, and a running task has a worker.
Draining ==
  /\ stop <=> owner # "use"
  /\ \A w \in Worker : pc[w] = "exit" => stop /\ tasks = <<>>
  /\ owner = "gone" => \A w \in Worker : pc[w] = "exit"
  /\ \A t \in Task : status[t] = "running" => \E w \in Worker : cur[w] = t

PoolSafe == TypeOK /\ NoIdleWorker /\ Draining

\* The ways a step can change the state, without the quantifiers of Next.
LEMMA StepCases ==
  ASSUME [PoolNext]_poolVars, NEW ACTION P,
         \A x \in Thread, t \in Task : Enqueue(x, t) => P,
         \A x \in Thread, t \in Task : Reject(x, t) => P,
         \A x \in Thread : NotifyOne(x) => P,
         \A w \in Worker : TakeTask(w) => P,
         \A w \in Worker : Sleep(w) => P,
         \A w \in Worker : Exit(w) => P,
         \A w \in Worker : WakeSpuriously(w) => P,
         \A w \in Worker : Finish(w) => P,
         Stop => P, NotifyAll => P, Join => P,
         UNCHANGED poolVars => P
  PROVE  P
BY DEF PoolNext, WorkLoop, Destroy, Terminating, Thread

\* The first element of a queue, and the others, are its elements.
LEMMA QueueFacts ==
  ASSUME tasks \in Seq(Task), tasks # <<>>
  PROVE  /\ Head(tasks) \in Task /\ Head(tasks) = tasks[1]
         /\ Tail(tasks) \in Seq(Task)
         /\ Len(tasks) \in Nat /\ Len(tasks) >= 1
         /\ Len(Tail(tasks)) = Len(tasks) - 1
         /\ \A i \in 1..Len(Tail(tasks)) : Tail(tasks)[i] = tasks[i + 1]
OBVIOUS

\* What Submit does to the queue.
LEMMA AppendFacts ==
  ASSUME tasks \in Seq(Task), NEW t \in Task
  PROVE  /\ Append(tasks, t) \in Seq(Task)
         /\ Len(tasks) \in Nat
         /\ Len(Append(tasks, t)) = Len(tasks) + 1
         /\ \A i \in 1..Len(tasks) : Append(tasks, t)[i] = tasks[i]
         /\ Append(tasks, t)[Len(tasks) + 1] = t
OBVIOUS

-----------------------------------------------------------------------------

\* The types, and the place of every task, are kept by every step.
LEMMA TypeStep == TypeOK /\ [PoolNext]_poolVars => TypeOK'
<1> SUFFICES ASSUME TypeOK, [PoolNext]_poolVars PROVE TypeOK'
  OBVIOUS
<1> USE ThreadPoolAssumption
<1>1. ASSUME NEW x \in Thread, NEW t \in Task, Enqueue(x, t) PROVE TypeOK'
  <2>1. /\ tasks' \in Seq(Task) /\ Len(tasks) \in Nat
        /\ Len(tasks') = Len(tasks) + 1
        /\ \A i \in 1..Len(tasks) : tasks'[i] = tasks[i]
        /\ tasks'[Len(tasks) + 1] = t
    BY <1>1, AppendFacts DEF Enqueue, TypeOK
  <2>2. \A i \in 1..Len(tasks) : tasks[i] # t
    BY <1>1 DEF Enqueue, TypeOK, Placed
  <2>3. \A i, j \in 1..Len(tasks') : tasks'[i] = tasks'[j] => i = j
    BY <2>1, <2>2 DEF TypeOK, Placed
  <2>4. \A u \in Task : status'[u] = "queued" <=> \E i \in 1..Len(tasks') : tasks'[i] = u
    BY <1>1, <2>1 DEF Enqueue, TypeOK, Placed
  <2>5. \A w \in Worker : cur[w] \in Task => cur[w] # t
    BY <1>1 DEF Enqueue, TypeOK, Placed
  <2>6. Placed'
    BY <1>1, <2>3, <2>4, <2>5 DEF Enqueue, MaySubmit, TypeOK, Placed, Thread
  <2> QED
    BY <1>1, <2>1, <2>6 DEF Enqueue, MaySubmit, TypeOK, Thread, WorkerState, ClientState
<1>2. ASSUME NEW x \in Thread, NEW t \in Task, Reject(x, t) PROVE TypeOK'
  BY <1>2 DEF Reject, TypeOK, Placed, Thread
<1>3. ASSUME NEW x \in Thread, NotifyOne(x) PROVE TypeOK'
  BY <1>3 DEF NotifyOne, Resumed, Waiting, TypeOK, Placed, Thread, WorkerState, ClientState
<1>4. ASSUME NEW w \in Worker, TakeTask(w) PROVE TypeOK'
  <2>1. /\ Head(tasks) \in Task /\ Head(tasks) = tasks[1]
        /\ tasks' \in Seq(Task)
        /\ Len(tasks) \in Nat /\ Len(tasks) >= 1
        /\ Len(tasks') = Len(tasks) - 1
        /\ \A i \in 1..Len(tasks') : tasks'[i] = tasks[i + 1]
    BY <1>4, QueueFacts DEF TakeTask, TypeOK
  <2>2. status[Head(tasks)] = "queued"
    BY <2>1 DEF TypeOK, Placed
  <2>3. \A i, j \in 1..Len(tasks') : tasks'[i] = tasks'[j] => i = j
    BY <2>1 DEF TypeOK, Placed
  <2>4. ASSUME NEW u \in Task
        PROVE  status'[u] = "queued" <=> \E i \in 1..Len(tasks') : tasks'[i] = u
    <3>1. CASE u = Head(tasks)
      <4>1. \A i \in 1..Len(tasks') : tasks'[i] # u
        BY <2>1, <3>1 DEF TypeOK, Placed
      <4>2. status'[u] = "running"
        BY <1>4, <2>1, <3>1 DEF TakeTask, TypeOK
      <4> QED BY <4>1, <4>2
    <3>2. CASE u # Head(tasks)
      <4>1. status'[u] = status[u]
        BY <1>4, <2>1, <3>2 DEF TakeTask, TypeOK
      <4>2. ASSUME NEW i \in 1..Len(tasks), tasks[i] = u
            PROVE  \E j \in 1..Len(tasks') : tasks'[j] = u
        <5>1. i # 1
          BY <2>1, <3>2, <4>2
        <5>2. i - 1 \in 1..Len(tasks') /\ tasks'[i - 1] = u
          BY <2>1, <4>2, <5>1
        <5> QED BY <5>2
      <4>3. ASSUME NEW j \in 1..Len(tasks'), tasks'[j] = u
            PROVE  \E i \in 1..Len(tasks) : tasks[i] = u
        <5>1. j + 1 \in 1..Len(tasks) /\ tasks[j + 1] = u
          BY <2>1, <4>3
        <5> QED BY <5>1
      <4> QED BY <4>1, <4>2, <4>3 DEF TypeOK, Placed
    <3> QED BY <3>1, <3>2
  <2>5. \A v \in Worker : cur[v] \in Task => cur[v] # Head(tasks)
    BY <2>2 DEF TypeOK, Placed
  <2>6. Placed'
    BY <1>4, <2>1, <2>3, <2>4, <2>5 DEF TakeTask, TypeOK, Placed, Thread
  <2> QED
    BY <1>4, <2>1, <2>6 DEF TakeTask, TypeOK, Thread, WorkerState
<1>5. ASSUME NEW w \in Worker, Sleep(w) PROVE TypeOK'
  BY <1>5 DEF Sleep, TypeOK, Placed, Thread, WorkerState
<1>6. ASSUME NEW w \in Worker, Exit(w) PROVE TypeOK'
  BY <1>6 DEF Exit, TypeOK, Placed, Thread, WorkerState
<1>7. ASSUME NEW w \in Worker, WakeSpuriously(w) PROVE TypeOK'
  BY <1>7 DEF WakeSpuriously, TypeOK, Placed, Thread, WorkerState
<1>8. ASSUME NEW w \in Worker, Finish(w) PROVE TypeOK'
  BY <1>8 DEF Finish, TypeOK, Placed, Thread, WorkerState
<1>9. CASE Stop
  BY <1>9 DEF Stop, TypeOK, Placed, OwnerState
<1>10. CASE NotifyAll
  BY <1>10 DEF NotifyAll, Waiting, TypeOK, Placed, Thread, WorkerState, OwnerState
<1>11. CASE Join
  BY <1>11 DEF Join, TypeOK, Placed, OwnerState
<1>12. CASE UNCHANGED poolVars
  BY <1>12 DEF poolVars, TypeOK, Placed
<1> QED
  BY <1>1, <1>2, <1>3, <1>4, <1>5, <1>6, <1>7, <1>8, <1>9, <1>10, <1>11, <1>12, StepCases

-----------------------------------------------------------------------------

\* The number of alert threads is a number.
LEMMA AlertFinite ==
  ASSUME NEW S \in SUBSET Thread
  PROVE  IsFiniteSet(S) /\ Cardinality(S) \in Nat
<1>1. IsFiniteSet(Thread)
  BY ThreadPoolAssumption, FS_Union DEF Thread
<1>2. IsFiniteSet(S)
  BY <1>1, FS_Subset
<1> QED
  BY <1>2, FS_CardinalityType

\* A notification is in flight for every queued task as long as somebody waits:
\* Submit adds one alert thread and one task, a worker that takes a task stops
\* being alert, notify_one passes the alert on, and nobody falls asleep while
\* there are tasks.
LEMMA IdleStep == TypeOK /\ NoIdleWorker /\ [PoolNext]_poolVars => NoIdleWorker'
<1> SUFFICES ASSUME TypeOK, NoIdleWorker, [PoolNext]_poolVars, Waiting' # {}
             PROVE  Len(tasks)' <= Cardinality(Alert)'
  BY DEF NoIdleWorker
<1> USE ThreadPoolAssumption
<1> DEFINE Goal == Len(tasks)' <= Cardinality(Alert)'
<1>a. Alert \in SUBSET Thread /\ Alert' \in SUBSET Thread
  BY DEF Alert
<1>b. /\ IsFiniteSet(Alert) /\ Cardinality(Alert) \in Nat
      /\ IsFiniteSet(Alert') /\ Cardinality(Alert') \in Nat
  BY <1>a, AlertFinite
<1>c. Len(tasks) \in Nat
  BY DEF TypeOK
\* Steps that keep the queue and put no alert thread to rest.
<1>d. ASSUME UNCHANGED tasks, Waiting # {}, Alert \subseteq Alert' PROVE Goal
  BY <1>b, <1>c, <1>d, FS_Subset DEF NoIdleWorker
<1>1. ASSUME NEW x \in Thread, NEW t \in Task, Enqueue(x, t) PROVE Goal
  <2>1. Waiting # {} /\ x \notin Alert /\ Alert' = Alert \cup {x}
    BY <1>1 DEF Enqueue, MaySubmit, Waiting, Alert, TypeOK, Thread
  <2>2. Cardinality(Alert') = Cardinality(Alert) + 1
    BY <1>b, <2>1, FS_AddElement
  <2>3. Len(tasks') = Len(tasks) + 1
    BY <1>1, AppendFacts DEF Enqueue, TypeOK
  <2> QED BY <1>b, <1>c, <2>1, <2>2, <2>3 DEF NoIdleWorker
<1>2. ASSUME NEW x \in Thread, NEW t \in Task, Reject(x, t) PROVE Goal
  BY <1>2, <1>d DEF Reject, Waiting, Alert
<1>3. ASSUME NEW x \in Thread, NotifyOne(x) PROVE Goal
  <2>1. PICK w \in Waiting : pc' = [pc EXCEPT ![x] = Resumed(x), ![w] = "check"]
    BY <1>3 DEF NotifyOne, Resumed, Waiting, TypeOK, Thread
  <2>2. /\ x \in Alert /\ w \notin Alert /\ Waiting # {}
        /\ Alert' = (Alert \ {x}) \cup {w}
    BY <1>3, <2>1 DEF NotifyOne, Resumed, Waiting, Alert, TypeOK, Thread
  <2>3. /\ IsFiniteSet(Alert \ {x})
        /\ Cardinality(Alert \ {x}) = Cardinality(Alert) - 1
    BY <1>b, <2>2, FS_RemoveElement
  <2>4. Cardinality(Alert') = Cardinality(Alert \ {x}) + 1
    BY <2>2, <2>3, FS_AddElement
  <2> QED BY <1>3, <1>b, <2>2, <2>3, <2>4 DEF NotifyOne, NoIdleWorker
<1>4. ASSUME NEW w \in Worker, TakeTask(w) PROVE Goal
  <2>1. Waiting # {} /\ w \in Alert /\ Alert' = Alert \ {w}
    BY <1>4 DEF TakeTask, Waiting, Alert, TypeOK, Thread
  <2>2. Cardinality(Alert') = Cardinality(Alert) - 1
    BY <1>b, <2>1, FS_RemoveElement
  <2>3. Len(tasks') = Len(tasks) - 1
    BY <1>4, QueueFacts DEF TakeTask, TypeOK
  <2> QED BY <1>b, <1>c, <2>1, <2>2, <2>3 DEF NoIdleWorker
<1>5. ASSUME NEW w \in Worker, Sleep(w) PROVE Goal
  BY <1>5, <1>b DEF Sleep
<1>6. ASSUME NEW w \in Worker, Exit(w) PROVE Goal
  BY <1>6, <1>b DEF Exit
<1>7. ASSUME NEW w \in Worker, WakeSpuriously(w) PROVE Goal
  BY <1>7, <1>d DEF WakeSpuriously, Waiting, Alert, TypeOK, Thread
<1>8. ASSUME NEW w \in Worker, Finish(w) PROVE Goal
  BY <1>8, <1>d DEF Finish, Waiting, Alert, TypeOK, Thread
<1>9. CASE Stop
  BY <1>9, <1>d DEF Stop, Waiting, Alert
<1>10. CASE NotifyAll
  BY <1>10 DEF NotifyAll, Waiting, TypeOK, Thread
<1>11. CASE Join
  BY <1>11, <1>d DEF Join, Waiting, Alert
<1>12. CASE UNCHANGED poolVars
  BY <1>12, <1>d DEF poolVars, Waiting, Alert
<1> QED
  BY <1>1, <1>2, <1>3, <1>4, <1>5, <1>6, <1>7, <1>8, <1>9, <1>10, <1>11, <1>12, StepCases

-----------------------------------------------------------------------------

\* The destructor's argument is kept by every step.
LEMMA DrainingStep == TypeOK /\ Draining /\ [PoolNext]_poolVars => Draining'
<1> SUFFICES ASSUME TypeOK, Draining, [PoolNext]_poolVars PROVE Draining'
  OBVIOUS
<1> USE ThreadPoolAssumption
<1>1. ASSUME NEW x \in Thread, NEW t \in Task, Enqueue(x, t) PROVE Draining'
  BY <1>1 DEF Enqueue, MaySubmit, Draining, TypeOK, Thread
<1>2. ASSUME NEW x \in Thread, NEW t \in Task, Reject(x, t) PROVE Draining'
  BY <1>2 DEF Reject, Draining, TypeOK
<1>3. ASSUME NEW x \in Thread, NotifyOne(x) PROVE Draining'
  BY <1>3 DEF NotifyOne, Resumed, Waiting, Draining, TypeOK, Thread
<1>4. ASSUME NEW w \in Worker, TakeTask(w) PROVE Draining'
  <2>1. Head(tasks) \in Task
    BY <1>4, QueueFacts DEF TakeTask, TypeOK
  <2>2. cur[w] \notin Task
    BY <1>4 DEF TakeTask, TypeOK, Placed
  <2>3. \A t \in Task : status'[t] = "running" => \E v \in Worker : cur'[v] = t
    BY <1>4, <2>1, <2>2 DEF TakeTask, Draining, TypeOK
  <2> QED BY <1>4, <2>3 DEF TakeTask, Draining, TypeOK, Thread
<1>5. ASSUME NEW w \in Worker, Sleep(w) PROVE Draining'
  BY <1>5 DEF Sleep, Draining, TypeOK, Thread
<1>6. ASSUME NEW w \in Worker, Exit(w) PROVE Draining'
  BY <1>6 DEF Exit, Draining, TypeOK, Thread
<1>7. ASSUME NEW w \in Worker, WakeSpuriously(w) PROVE Draining'
  BY <1>7 DEF WakeSpuriously, Draining, TypeOK, Thread
<1>8. ASSUME NEW w \in Worker, Finish(w) PROVE Draining'
  <2>1. cur[w] \in Task
    BY <1>8 DEF Finish, TypeOK, Placed
  <2>2. \A t \in Task : status'[t] = "running" => \E v \in Worker : cur'[v] = t
    BY <1>8, <2>1 DEF Finish, Draining, TypeOK
  <2> QED BY <1>8, <2>2 DEF Finish, Draining, TypeOK, Thread
<1>9. CASE Stop
  BY <1>9 DEF Stop, Draining, TypeOK
<1>10. CASE NotifyAll
  BY <1>10 DEF NotifyAll, Waiting, Draining, TypeOK, Thread
<1>11. CASE Join
  BY <1>11 DEF Join, Draining
<1>12. CASE UNCHANGED poolVars
  BY <1>12 DEF poolVars, Draining
<1> QED
  BY <1>1, <1>2, <1>3, <1>4, <1>5, <1>6, <1>7, <1>8, <1>9, <1>10, <1>11, <1>12, StepCases

\* Inv holds of every state of the pool.
THEOREM PoolInvariance == PoolSpec => []PoolSafe
<1>1. PoolInit => PoolSafe
  <2> SUFFICES ASSUME PoolInit PROVE PoolSafe
    OBVIOUS
  <2>a. Len(tasks) = 0 /\ tasks \in Seq(Task)
    BY DEF PoolInit
  <2>b. \A w \in Worker : pc[w] = "check" /\ cur[w] \notin Task
    BY ThreadPoolAssumption DEF PoolInit, Thread
  <2>c. \A c \in Client : pc[c] = "idle"
    BY ThreadPoolAssumption DEF PoolInit, Thread
  <2>d. \A t \in Task : status[t] = "new"
    BY DEF PoolInit
  <2>e. Placed
    BY <2>a, <2>b, <2>d DEF Placed
  <2>1. TypeOK
    BY <2>a, <2>b, <2>c, <2>e DEF PoolInit, TypeOK, WorkerState, ClientState, OwnerState
  <2>2. NoIdleWorker
    BY DEF PoolInit, NoIdleWorker, Waiting, Thread
  <2>3. Draining
    BY DEF PoolInit, Draining, Thread
  <2> QED BY <2>1, <2>2, <2>3 DEF PoolSafe
<1>2. PoolSafe /\ [PoolNext]_poolVars => PoolSafe'
  BY TypeStep, IdleStep, DrainingStep DEF PoolSafe
<1> QED
  BY <1>1, <1>2, PTL DEF PoolSpec

\* Every task is in one place: the queue or one worker, never in two.
THEOREM TypeCorrect == PoolSpec => []TypeOK
BY PoolInvariance, PTL DEF PoolSafe

\* No notification of Submit is lost: while a worker is blocked, each queued
\* task has a thread that is coming for it.
THEOREM NoLostWakeup == PoolSpec => []NoIdleWorker
BY PoolInvariance, PTL DEF PoolSafe

\* ~ThreadPool returns only when every task that Submit took has run.
THEOREM DestructorDrains == PoolSpec => []Drained
<1>1. PoolSafe => Drained
  <2> SUFFICES ASSUME PoolSafe, owner = "gone", NEW t \in Task
               PROVE  status[t] \in {"new", "done", "rejected"}
    BY DEF Drained
  <2>1. \A w \in Worker : pc[w] = "exit"
    BY DEF PoolSafe, Draining
  <2>2. tasks = <<>>
    BY <2>1, ThreadPoolAssumption DEF PoolSafe, Draining
  <2>3. status[t] # "queued"
    BY <2>2 DEF PoolSafe, TypeOK, Placed
  <2>4. status[t] # "running"
    BY <2>1 DEF PoolSafe, Draining, TypeOK, Placed
  <2> QED BY <2>3, <2>4 DEF PoolSafe, TypeOK
<1> QED
  BY <1>1, PoolInvariance, PTL

-----------------------------------------------------------------------------
(* Induction, with a set in place of a predicate.                          *)

\* A set of numbers that is not empty has a least element.
LEMMA Least ==
  ASSUME NEW T \in SUBSET Nat, T # {}
  PROVE  \E x \in T : \A y \in T : x <= y
<1> DEFINE R == OpToRel(<, Nat)
<1>1. IsWellFoundedOn(R, Nat)
  BY NatLessThanWellFounded
<1>2. \A x, y \in Nat : x < y => <<x, y>> \in R
  BY DEF OpToRel
<1> HIDE DEF R
<1>3. PICK x \in T : \A y \in T : ~(<<y, x>> \in R)
  BY <1>1, WFMin
<1>4. \A y \in T : x <= y
  <2> SUFFICES ASSUME NEW y \in T PROVE ~(y < x)
    OBVIOUS
  <2>1. x \in Nat /\ y \in Nat
    OBVIOUS
  <2>2. QED
    BY <1>2, <1>3, <2>1
<1>5. QED
  BY <1>4

\* A set that holds 0, and the successors of its numbers, holds all of them.
LEMMA Induction ==
  ASSUME NEW S, 0 \in S, \A n \in Nat : n \in S => n + 1 \in S
  PROVE  Nat \subseteq S
<1> DEFINE T == Nat \ S
<1> SUFFICES ASSUME T # {} PROVE FALSE
  OBVIOUS
<1>1. T \in SUBSET Nat
  OBVIOUS
<1> HIDE DEF T
<1>2. PICK x \in T : \A y \in T : x <= y
  BY <1>1, Least
<1>3. x \in Nat /\ x \notin S /\ x # 0
  BY DEF T
<1>4. x - 1 \in Nat /\ x - 1 \notin T
  BY <1>2, <1>3
<1>5. QED
  BY <1>3, <1>4 DEF T

-----------------------------------------------------------------------------
(* Numbers, chunks and items.                                              *)

\* Of two numbers.
LEMMA MinMax ==
  ASSUME NEW a \in Int, NEW b \in Int
  PROVE  /\ Min({a, b}) = IF a <= b THEN a ELSE b
         /\ Max({a, b}) = IF a <= b THEN b ELSE a
  BY DEF Min, Max

\* Division with remainder.
LEMMA DivFacts ==
  ASSUME NEW x \in Nat, NEW d \in Nat \ {0}
  PROVE  /\ x \div d \in Nat
         /\ (x \div d) * d <= x /\ x < (x \div d) * d + d
         /\ \A q \in Nat : q * d <= x /\ x < q * d + d => q = x \div d
<1>1. x \div d \in Nat /\ (x \div d) * d <= x /\ x < (x \div d) * d + d
  BY SMT
<1>2. ASSUME NEW q \in Nat, q * d <= x, x < q * d + d
      PROVE  q = x \div d
  BY <1>1, <1>2, SMTT(30)
<1>3. QED
  BY <1>1, <1>2

\* divup leaves no item out and makes no empty chunk.
LEMMA DivUpFacts ==
  ASSUME NEW a \in Nat \ {0}, NEW b \in Nat \ {0}
  PROVE  /\ divup(a, b) \in Nat \ {0}
         /\ \A x \in 0 .. (a - 1) : x \div b < divup(a, b)
         /\ \A k \in 0 .. (divup(a, b) - 1) : k * b < a
         /\ a <= divup(a, b) * b
  BY SMTT(30) DEF divup

\* The items of two adjacent chunks.
LEMMA ItemsJoin ==
  ASSUME NEW a \in Nat, NEW b \in Nat, NEW c \in Nat, a <= b, b <= c
  PROVE  Items(a, b) \o Items(b, c) = Items(a, c)
<1> DEFINE s == Items(a, b)
           t == Items(b, c)
           r == Items(a, c)
<1>0. b - a \in Nat /\ c - b \in Nat /\ c - a \in Nat
  OBVIOUS
<1>1. /\ s \in Seq(Int) /\ Len(s) = b - a /\ \A i \in 1 .. b - a : s[i] = a + i - 1
      /\ t \in Seq(Int) /\ Len(t) = c - b /\ \A i \in 1 .. c - b : t[i] = b + i - 1
      /\ r \in Seq(Int) /\ Len(r) = c - a /\ \A i \in 1 .. c - a : r[i] = a + i - 1
  BY <1>0 DEF Items
<1> HIDE DEF s, t, r
<1>2. s \o t \in Seq(Int) /\ Len(s \o t) = c - a
  BY <1>1
<1>3. ASSUME NEW i \in 1 .. c - a
      PROVE  (s \o t)[i] = r[i]
  <2>1. CASE i <= b - a
    BY <1>1, <2>1
  <2>2. CASE ~(i <= b - a)
    <3>1. i \in Len(s) + 1 .. Len(s) + Len(t)
      BY <1>1, <2>2
    <3>2. (s \o t)[i] = t[i - Len(s)]
      <4>1. s \in Seq(Int) /\ t \in Seq(Int)
        BY <1>1
      <4>2. QED
        BY <3>1, <4>1, ConcatProperties
    <3>3. i - Len(s) \in 1 .. c - b
      BY <1>1, <3>1
    <3>4. QED
      BY <1>1, <3>2, <3>3
  <2>3. QED
    BY <2>1, <2>2
<1>4. s \o t = r
  <2> DEFINE l == s \o t
  <2>1. l \in Seq(Int) /\ Len(l) = c - a /\ \A i \in 1 .. c - a : l[i] = r[i]
    BY <1>2, <1>3
  <2> HIDE DEF l
  <2>2. l = [i \in 1 .. c - a |-> l[i]] /\ r = [i \in 1 .. c - a |-> r[i]]
    BY <1>1, <2>1
  <2>3. l = r
    BY <2>1, <2>2, Zenon
  <2>4. QED
    BY <2>3 DEF l
<1>5. QED
  BY <1>4 DEF s, t, r

\* What FlattenSeq computes, by the partial concatenations of the sequences.
LEMMA FlattenIs ==
  ASSUME NEW seqs, NEW n \in Nat \ {0}, Len(seqs) = n, NEW F,
         \A i \in 1 .. n : F[i] = IF i = 1 THEN seqs[i] ELSE F[i - 1] \o seqs[i]
  PROVE  FlattenSeq(seqs) = F[n]
<1> DEFINE Is(f) == f = [i \in 1 .. n |-> IF i = 1 THEN seqs[i] ELSE f[i - 1] \o seqs[i]]
           G == CHOOSE f : Is(f)
           S == {m \in Nat : m \in 1 .. n => G[m] = F[m]}
<1>1. FlattenSeq(seqs) = G[n]
  BY DEF FlattenSeq
<1>2. \E f : Is(f)
  <2> DEFINE f == [i \in 1 .. n |-> F[i]]
  <2>1. \A i \in 1 .. n : f[i] = IF i = 1 THEN seqs[i] ELSE f[i - 1] \o seqs[i]
    <3> SUFFICES ASSUME NEW i \in 1 .. n
                 PROVE  f[i] = IF i = 1 THEN seqs[i] ELSE f[i - 1] \o seqs[i]
      OBVIOUS
    <3>1. i # 1 => i - 1 \in 1 .. n
      OBVIOUS
    <3>2. f[i] = F[i] /\ (i # 1 => f[i - 1] = F[i - 1])
      BY <3>1
    <3> HIDE DEF f
    <3>3. QED
      BY <3>2
  <2>2. f = [i \in 1 .. n |-> f[i]]
    OBVIOUS
  <2> HIDE DEF f
  <2>3. Is(f)
    BY <2>1, <2>2, Zenon
  <2>4. QED
    BY <2>3
<1>3. Is(G)
  <2> HIDE DEF Is
  <2>1. QED
    BY <1>2
<1> HIDE DEF G
<1>4. \A i \in 1 .. n : /\ F[i] = IF i = 1 THEN seqs[i] ELSE F[i - 1] \o seqs[i]
                        /\ G[i] = IF i = 1 THEN seqs[i] ELSE G[i - 1] \o seqs[i]
  BY <1>3
<1>5. 0 \in S
  OBVIOUS
<1>6. ASSUME NEW m \in Nat, m \in S
      PROVE  m + 1 \in S
  <2>1. CASE m = 0
    <3>1. 1 \in 1 .. n /\ m + 1 = 1
      BY <2>1
    <3>2. G[1] = F[1]
      BY <1>4, <3>1
    <3>3. QED
      BY <3>1, <3>2
  <2>2. CASE m # 0 /\ m + 1 \in 1 .. n
    <3>1. m \in 1 .. n
      BY <2>2
    <3>2. G[m] = F[m]
      BY <1>6, <3>1
    <3>3. PICK p \in 1 .. n : p = m + 1 /\ p # 1 /\ p - 1 = m
      BY <2>2
    <3>4. G[p] = G[p - 1] \o seqs[p] /\ F[p] = F[p - 1] \o seqs[p]
      BY <1>4, <3>3
    <3>5. G[p] = F[p]
      BY <3>2, <3>3, <3>4
    <3>6. p \in S
      BY <3>5
    <3> HIDE DEF S
    <3>7. QED
      BY <3>3, <3>6
  <2>3. QED
    BY <2>1, <2>2
<1>7. Nat \subseteq S
  <2> HIDE DEF S
  <2>1. QED
    BY <1>5, <1>6, Induction
<1>8. QED
  BY <1>1, <1>7

\* The results of all the tasks are the items in their order.
LEMMA CombinedAll ==
  ASSUME NEW c, NEW len \in Nat \ {0}, c.work.len = len, c.chunk_size \in Nat \ {0},
         c.sized = divup(len, c.chunk_size),
         \A k \in 0 .. c.sized - 1 : c.results[k] = Items(ChunkStart(c, k), ChunkEnd(c, k))
  PROVE  Combined(c) = Items(0, len)
<1> DEFINE n == c.sized
           d == c.chunk_size
           End(i) == IF i * d <= len THEN i * d ELSE len
           seqs == [k \in 1 .. n |-> c.results[k - 1]]
           F == [i \in 1 .. n |-> Items(0, End(i))]
<1>1. /\ n \in Nat \ {0} /\ d \in Nat \ {0} /\ len <= n * d
      /\ \A k \in 0 .. (n - 1) : k * d < len
  BY DivUpFacts
<1>2. \A i \in 1 .. n : /\ i - 1 \in 0 .. n - 1 /\ i - 1 \in Nat
                        /\ (i - 1) * d \in Nat /\ (i - 1) * d + d = i * d /\ i * d \in Nat
  BY <1>1
<1>3. \A i \in 1 .. n : seqs[i] = Items((i - 1) * d, End(i))
  <2> TAKE i \in 1 .. n
  <2>1. ChunkEnd(c, i - 1) = End(i)
    BY <1>1, <1>2, MinMax DEF ChunkEnd, ChunkStart
  <2>2. QED
    BY <1>2, <2>1 DEF ChunkStart
<1>4. \A i \in 1 .. n : i # 1 => i - 1 \in 1 .. n /\ End(i - 1) = (i - 1) * d
  BY <1>1, <1>2
<1>5. \A i \in 1 .. n : End(i) \in Nat /\ (i - 1) * d <= End(i)
  BY <1>1, <1>2
<1>6. /\ \A i \in 1 .. n : F[i] = Items(0, End(i))
      /\ Len(seqs) = n
      /\ Combined(c) = FlattenSeq(seqs)
  BY <1>1 DEF Combined
<1>7. End(n) = len
  BY <1>1
<1> HIDE DEF End, F, seqs, n, d
<1>8. ASSUME NEW i \in 1 .. n
      PROVE  F[i] = IF i = 1 THEN seqs[i] ELSE F[i - 1] \o seqs[i]
  <2>1. CASE i = 1
    <3>1. (i - 1) * d = 0
      BY <1>1, <2>1
    <3>2. QED
      BY <1>3, <1>6, <2>1, <3>1
  <2>2. CASE i # 1
    <3>1. F[i - 1] = Items(0, (i - 1) * d)
      BY <1>4, <1>6, <2>2
    <3>2. 0 <= (i - 1) * d
      BY <1>2
    <3>3. Items(0, (i - 1) * d) \o Items((i - 1) * d, End(i)) = Items(0, End(i))
      BY <1>2, <1>5, <3>2, ItemsJoin
    <3>4. F[i] = Items(0, End(i)) /\ seqs[i] = Items((i - 1) * d, End(i))
      BY <1>3, <1>6
    <3>5. QED
      BY <2>2, <3>1, <3>3, <3>4
  <2>3. QED
    BY <2>1, <2>2
<1>10. FlattenSeq(seqs) = F[n]
  BY <1>1, <1>6, <1>8, FlattenIs
<1>11. n \in 1 .. n
  BY <1>1
<1>12. QED
  BY <1>6, <1>7, <1>10, <1>11

-----------------------------------------------------------------------------
(* One call.                                                               *)

\* The task of an item, and the chunk of a task.
LEMMA ChunkFacts ==
  ASSUME NEW c, Divided(c), c.work.len \in Nat
  PROVE  /\ c.num_tasks \in Nat \ {0} /\ DOMAIN c.future = 1 .. c.num_tasks - 1
         /\ \A i \in 0 .. c.work.len - 1 : i \div c.chunk_size \in 0 .. c.num_tasks - 1
         /\ \A k \in 0 .. c.num_tasks - 1, i \in 0 .. c.work.len - 1 :
              i >= ChunkStart(c, k) /\ i < ChunkEnd(c, k) <=> k = i \div c.chunk_size
<1> DEFINE len == c.work.len
           d == c.chunk_size
<1>1. len \in Nat \ {0} /\ d \in Nat \ {0} /\ c.num_tasks = divup(len, d)
  BY DEF Divided
<1>2. c.num_tasks \in Nat \ {0} /\ \A i \in 0 .. (len - 1) : i \div d < c.num_tasks
  BY <1>1, DivUpFacts
<1>3. \A i \in 0 .. len - 1 : i \in Nat /\ i \div d \in Nat
  BY <1>1, DivFacts
<1>4. ASSUME NEW k \in 0 .. c.num_tasks - 1, NEW i \in 0 .. len - 1
      PROVE  i >= ChunkStart(c, k) /\ i < ChunkEnd(c, k) <=> k = i \div d
  <2>1. k \in Nat /\ k * d \in Nat /\ i \in Nat
    BY <1>1, <1>2
  <2>2. i < ChunkEnd(c, k) <=> i < k * d + d
    BY <1>1, <2>1, MinMax DEF ChunkEnd, ChunkStart
  <2>3. k * d <= i /\ i < k * d + d <=> k = i \div d
    BY <1>1, <2>1, DivFacts
  <2>4. QED
    BY <2>1, <2>2, <2>3 DEF ChunkStart
<1>5. QED
  BY <1>1, <1>2, <1>3, <1>4 DEF Divided

\* The number of threads of the pool, and what is computed from it.
LEMMA PoolFacts ==
  ASSUME PoolInv
  PROVE  /\ get_num_threads \in Nat \ {0} /\ PoolSize \in Nat
         /\ \A len \in Nat \ {0}, grain \in Nat \ {0} : grain <= len =>
              LET r == calc_num_tasks_and_chunk_size(len, grain)
              IN  r.chunk_size \in Nat \ {0} /\ r.num_tasks = divup(len, r.chunk_size)
<1>1. get_num_threads \in Nat \ {0}
  BY ParallelAssumption DEF get_num_threads, PoolInv, NOT_SET, CONSUMED
<1>2. PoolSize \in Nat
  BY ParallelAssumption DEF PoolSize, PoolInv, NOT_SET, CONSUMED
<1>3. ASSUME NEW len \in Nat \ {0}, NEW grain \in Nat \ {0}, grain <= len
      PROVE  LET r == calc_num_tasks_and_chunk_size(len, grain)
             IN  r.chunk_size \in Nat \ {0} /\ r.num_tasks = divup(len, r.chunk_size)
  <2>1. divup(len, get_num_threads) \in Nat
    BY <1>1, DivUpFacts
  <2>2. Max({grain, divup(len, get_num_threads)}) \in Nat \ {0}
    <3> DEFINE q == divup(len, get_num_threads)
    <3>1. q \in Int /\ q >= 0 /\ grain \in Int
      BY <2>1
    <3> HIDE DEF q
    <3>2. Max({grain, q}) = IF grain <= q THEN q ELSE grain
      BY <3>1, MinMax, Zenon
    <3>3. Max({grain, q}) \in Nat \ {0}
      BY <3>1, <3>2
    <3>4. QED
      BY <3>3 DEF q
  <2> DEFINE chunk == Max({grain, divup(len, get_num_threads)})
             r == calc_num_tasks_and_chunk_size(len, grain)
  <2>3. ~(len < grain)
    BY <1>3
  <2>4. r = [num_tasks |-> divup(len, chunk), chunk_size |-> chunk]
    BY <2>3, Zenon DEF calc_num_tasks_and_chunk_size
  <2> HIDE DEF chunk, r
  <2>5. r.chunk_size \in Nat \ {0} /\ r.num_tasks = divup(len, r.chunk_size)
    BY <2>2, <2>4 DEF chunk
  <2>6. QED
    BY <2>5 DEF r
<1>4. QED
  BY <1>1, <1>2, <1>3

\* A call as parallel_for begins it.
LEMMA NewCall ==
  ASSUME NEW work, work.len \in Nat, work.grain \in Nat \ {0}
  PROVE  LET c == [NoCall EXCEPT !.work = work, !.visits = [i \in 0 .. work.len - 1 |-> 0]]
         IN  /\ HasFields(c) /\ c.work = work /\ c.future = <<>> /\ c.result = <<>>
             /\ c.visits = [i \in 0 .. work.len - 1 |-> 0]
  BY DEF HasFields, NoCall

\* No call.
LEMMA NoCallInv == CallInv(NoCall)
<1>1. NestedWork.len \in Nat /\ NestedWork.grain \in Nat \ {0}
  BY ParallelAssumption
<1>2. HasFields(NoCall)
  BY DEF HasFields, NoCall
<1>3. NoCall.work = NestedWork /\ NoCall.pc = "none" /\ NoCall.visits = <<>> /\ NoCall.future = <<>>
  BY DEF NoCall
<1>4. DOMAIN NoCall.visits = {} /\ DOMAIN NoCall.future = {}
  BY <1>3
<1>5. Fresh(NoCall)
  BY <1>3, <1>4 DEF Fresh, Visited
<1>6. QED
  BY <1>1, <1>2, <1>3, <1>4, <1>5 DEF CallInv

\* It has nothing to do or is a direct call of f, it throws, or it goes on to
\* _parallel_run.
LEMMA BeginCall ==
  ASSUME NEW work, work.len \in Nat, work.grain \in Nat \ {0}, NEW t, NEW id,
         Begin(t, id, work)
  PROVE  \E d : /\ SetCall(id, d) /\ CallInv(d) /\ DOMAIN d.future = {}
                /\ \/ d.pc \in {"ok", "threw"} /\ UNCHANGED stack
                   \/ /\ d.pc = "enter" /\ ~in_parallel_region(t)
                      /\ Push(t, [call |-> id, task |-> -1])
<1> DEFINE c == [NoCall EXCEPT !.work = work, !.visits = [i \in 0 .. work.len - 1 |-> 0]]
           direct == work.len < work.grain \/ in_parallel_region(t)
           size == calc_num_tasks_and_chunk_size(work.len, work.grain).num_tasks
<1>1. /\ HasFields(c) /\ c.work = work /\ c.future = <<>> /\ c.result = <<>>
      /\ c.visits = [i \in 0 .. work.len - 1 |-> 0]
  BY NewCall
<1>2. DOMAIN <<>> = {} /\ Visited(c, 0)
  BY <1>1 DEF Visited
<1> DEFINE B1 == /\ work.len = 0 /\ SetCall(id, [c EXCEPT !.pc = "ok"]) /\ UNCHANGED stack
           B2 == /\ work.len > 0 /\ direct
                 /\ SetCall(id, IF Throws(work, 0, work.len) THEN [c EXCEPT !.pc = "threw"]
                                ELSE [c EXCEPT !.pc = "ok", !.visits = Visit(c, 0, work.len),
                                               !.result = Items(0, work.len)])
                 /\ UNCHANGED stack
           B3 == /\ work.len > 0 /\ ~direct /\ PoolBroken
                 /\ SetCall(id, [c EXCEPT !.pc = "threw"]) /\ UNCHANGED stack
           B4 == /\ work.len > 0 /\ ~direct /\ ~PoolBroken
                 /\ SetCall(id, [c EXCEPT !.pc = "enter", !.sized = IF work.reduce THEN size ELSE 0,
                                  !.results = IF work.reduce
                                              THEN [k \in 0 .. size - 1 |-> <<"scalar_t()">>] ELSE @])
                 /\ Push(t, [call |-> id, task |-> -1])
<1>3. B1 \/ B2 \/ B3 \/ B4
  BY DEF Begin
<1> HIDE DEF c, direct, size
<1>4. CASE B1
  <2> DEFINE d == [c EXCEPT !.pc = "ok"]
  <2>1. /\ HasFields(d) /\ d.pc = "ok" /\ d.work = work /\ d.future = <<>> /\ d.result = <<>>
        /\ d.visits = c.visits
    BY <1>1 DEF HasFields
  <2>2. SetCall(id, d) /\ UNCHANGED stack
    BY <1>4
  <2> HIDE DEF d
  <2>3. Items(0, 0) = <<>>
    BY DEF Items
  <2>4. DOMAIN d.visits = {} /\ 0 .. work.len - 1 = {}
    BY <1>1, <1>4, <2>1
  <2>5. CallInv(d)
    BY <1>2, <1>4, <2>1, <2>3, <2>4 DEF CallInv, Direct, Visited
  <2>6. QED
    BY <1>2, <2>1, <2>2, <2>5
<1>5. CASE B2 /\ ~Throws(work, 0, work.len)
  <2> DEFINE d == [c EXCEPT !.pc = "ok", !.visits = Visit(c, 0, work.len),
                            !.result = Items(0, work.len)]
  <2>1. /\ HasFields(d) /\ d.pc = "ok" /\ d.work = work /\ d.future = <<>>
        /\ d.result = Items(0, work.len) /\ d.visits = Visit(c, 0, work.len)
    BY <1>1 DEF HasFields
  <2>2. SetCall(id, d) /\ UNCHANGED stack
    BY <1>5
  <2> HIDE DEF d
  <2>3. DOMAIN d.visits = 0 .. work.len - 1 /\ Visited(d, 1)
    BY <1>1, <2>1 DEF Visit, Visited
  <2>4. CallInv(d)
    BY <1>2, <2>1, <2>3 DEF CallInv, Direct
  <2>5. QED
    BY <1>2, <2>1, <2>2, <2>4
<1>6. CASE B3 \/ (B2 /\ Throws(work, 0, work.len))
  <2> DEFINE d == [c EXCEPT !.pc = "threw"]
  <2>1. /\ HasFields(d) /\ d.pc = "threw" /\ d.work = work /\ d.future = <<>>
        /\ d.visits = c.visits
    BY <1>1 DEF HasFields
  <2>2. SetCall(id, d) /\ UNCHANGED stack
    BY <1>6
  <2> HIDE DEF d
  <2>3. DOMAIN d.visits = 0 .. work.len - 1 /\ Visited(d, 0)
    BY <1>1, <1>2, <2>1 DEF Visited
  <2>4. CallInv(d)
    BY <1>2, <2>1, <2>3 DEF CallInv, Fresh
  <2>5. QED
    BY <1>2, <2>1, <2>2, <2>4
<1>7. CASE B4
  <2> DEFINE d == [c EXCEPT !.pc = "enter", !.sized = IF work.reduce THEN size ELSE 0,
                            !.results = IF work.reduce
                                        THEN [k \in 0 .. size - 1 |-> <<"scalar_t()">>] ELSE @]
  <2>1. /\ HasFields(d) /\ d.pc = "enter" /\ d.work = work /\ d.future = <<>>
        /\ d.visits = c.visits
        /\ work.reduce => d.sized = size /\ d.results = [k \in 0 .. size - 1 |-> <<"scalar_t()">>]
    BY <1>1 DEF HasFields
  <2>2. SetCall(id, d) /\ Push(t, [call |-> id, task |-> -1]) /\ ~direct /\ work.len > 0
    BY <1>7
  <2> HIDE DEF d
  <2>3. DOMAIN d.visits = 0 .. work.len - 1 /\ Visited(d, 0)
    BY <1>1, <1>2, <2>1 DEF Visited
  <2>4. work.grain <= work.len /\ ~in_parallel_region(t)
    BY <2>2 DEF direct
  <2>5. work.reduce => DOMAIN d.results = 0 .. d.sized - 1
    BY <2>1
  <2>6. CallInv(d)
    BY <1>2, <2>1, <2>2, <2>3, <2>4, <2>5 DEF CallInv, Fresh
  <2>7. QED
    BY <1>2, <2>1, <2>2, <2>4, <2>6
<1>8. QED
  BY <1>3, <1>4, <1>5, <1>6, <1>7

\* A divided call whose tasks go on, while nothing is visited.
LEMMA StillDivided ==
  ASSUME NEW c, CallInv(c), Divided(c), NEW d, HasFields(d),
         d.work = c.work, d.sized = c.sized, d.num_tasks = c.num_tasks,
         d.chunk_size = c.chunk_size, d.results = c.results, d.visits = c.visits,
         d.pc \in {"submit", "first", "wait", "ok", "threw"}, d.next \in 1 .. d.num_tasks,
         DOMAIN d.future = DOMAIN c.future,
         \A k \in DOMAIN c.future : c.future[k] = "ok" <=> d.future[k] = "ok",
         Done(d, 0) <=> Done(c, 0) /\ d.pc # "threw",
         c.pc = "threw" => d.pc = "threw",
         d.pc = "submit" => \A k \in d.next .. d.num_tasks - 1 : d.future[k] = "none",
         d.pc = "wait" => \A k \in 1 .. d.next - 1 : d.future[k] = "ok",
         d.pc = "ok" => \A k \in DOMAIN d.future : d.future[k] = "ok",
         d.pc = "ok" /\ d.work.reduce /\ d.sized = d.num_tasks => d.result = Items(0, d.work.len)
  PROVE  CallInv(d)
<1>0. c.work.len \in Nat /\ c.pc # "none" /\ d.pc # "none"
  BY DEF CallInv, Divided
<1>1. \A k \in 0 .. c.num_tasks - 1 : k # 0 => k \in DOMAIN c.future
  BY <1>0, ChunkFacts
<1>2. \A k \in 0 .. c.num_tasks - 1 :
        /\ Done(d, k) => Done(c, k)
        /\ k # 0 \/ d.pc # "threw" => (Done(c, k) <=> Done(d, k))
  BY <1>1 DEF Done
<1>3. \A k : ChunkStart(d, k) = ChunkStart(c, k) /\ ChunkEnd(d, k) = ChunkEnd(c, k)
  BY DEF ChunkStart, ChunkEnd
<1>4. ASSUME NEW i \in 0 .. d.work.len - 1
      PROVE  LET k == i \div d.chunk_size
             IN  /\ d.visits[i] \in {0, 1}
                 /\ k # 0 \/ d.pc # "threw" => d.visits[i] = IF Done(d, k) THEN 1 ELSE 0
  <2> DEFINE k == i \div c.chunk_size
  <2>1. k \in 0 .. c.num_tasks - 1
    BY <1>0, ChunkFacts
  <2>2. /\ c.visits[i] \in {0, 1}
        /\ k # 0 \/ c.pc # "threw" => c.visits[i] = IF Done(c, k) THEN 1 ELSE 0
    BY DEF Divided
  <2> HIDE DEF k
  <2>3. k # 0 \/ d.pc # "threw" => c.visits[i] = IF Done(d, k) THEN 1 ELSE 0
    BY <1>2, <2>1, <2>2
  <2>4. QED
    BY <2>2, <2>3 DEF k
<1>5. d.work.reduce =>
        /\ DOMAIN d.results = 0 .. d.sized - 1
        /\ \A k \in 0 .. d.num_tasks - 1 :
             k \in DOMAIN d.results /\ Done(d, k) =>
               d.results[k] = Items(ChunkStart(d, k), ChunkEnd(d, k))
  BY <1>2, <1>3 DEF Divided
<1>6. /\ 0 < d.work.len /\ d.chunk_size \in Nat \ {0}
      /\ d.num_tasks = divup(d.work.len, d.chunk_size)
      /\ DOMAIN d.future = 1 .. d.num_tasks - 1
  BY DEF Divided
<1>7. Divided(d)
  BY <1>4, <1>5, <1>6 DEF Divided
<1>8. QED
  BY <1>0, <1>7 DEF CallInv

\* The exception leaves a call.
LEMMA LeaveCall ==
  ASSUME NEW c, CallInv(c), c.pc \in {"enter", "submit", "wait"}
  PROVE  LET d == [c EXCEPT !.pc = "threw"]
         IN  CallInv(d) /\ d.pc = "threw" /\ d.future = c.future
<1> DEFINE d == [c EXCEPT !.pc = "threw"]
<1>1. /\ HasFields(d) /\ d.pc = "threw" /\ d.work = c.work /\ d.sized = c.sized
      /\ d.num_tasks = c.num_tasks /\ d.chunk_size = c.chunk_size /\ d.next = c.next
      /\ d.future = c.future /\ d.results = c.results /\ d.visits = c.visits
  BY DEF CallInv, HasFields
<1> HIDE DEF d
<1>2. CASE c.pc = "enter"
  <2>1. Fresh(c)
    BY <1>2 DEF CallInv, Direct, Divided
  <2>2. Fresh(d)
    BY <1>1, <2>1 DEF Fresh, Visited
  <2>3. CallInv(d)
    BY <1>1, <1>2, <2>2 DEF CallInv
  <2>4. QED
    BY <1>1, <2>3 DEF d
<1>3. CASE c.pc # "enter"
  <2>1. Divided(c)
    BY <1>3 DEF CallInv, Fresh, Direct
  <2>2. c.next \in 1 .. c.num_tasks
    BY <2>1 DEF Divided
  <2>3. ~Done(d, 0)
    BY <1>1 DEF Done
  <2>4. CallInv(d)
    BY <1>1, <2>1, <2>2, <2>3, StillDivided
  <2>5. QED
    BY <1>1, <2>4 DEF d
<1>4. QED
  BY <1>2, <1>3

\* _parallel_run divides the range.
LEMMA EnterCall ==
  ASSUME NEW c, CallInv(c), c.pc = "enter", NEW n, NEW chunk \in Nat \ {0},
         n = divup(c.work.len, chunk)
  PROVE  LET d == [c EXCEPT !.pc = "submit", !.next = 1, !.num_tasks = n, !.chunk_size = chunk,
                            !.future = [k \in 1 .. n - 1 |-> "none"]]
         IN  CallInv(d) /\ d.pc = "submit" /\ DOMAIN c.future = {}
<1> DEFINE d == [c EXCEPT !.pc = "submit", !.next = 1, !.num_tasks = n, !.chunk_size = chunk,
                          !.future = [k \in 1 .. n - 1 |-> "none"]]
<1>1. /\ HasFields(d) /\ d.pc = "submit" /\ d.work = c.work /\ d.sized = c.sized
      /\ d.num_tasks = n /\ d.chunk_size = chunk /\ d.next = 1
      /\ d.future = [k \in 1 .. n - 1 |-> "none"] /\ d.results = c.results
      /\ d.visits = c.visits
  BY DEF CallInv, HasFields
<1> HIDE DEF d
<1>2. Fresh(c) /\ c.work.len \in Nat /\ DOMAIN c.visits = 0 .. c.work.len - 1
  BY DEF CallInv, Direct, Divided
<1>3. c.work.len \in Nat \ {0} /\ Visited(c, 0) /\ DOMAIN c.future = {}
  BY <1>2 DEF Fresh
<1>4. /\ n \in Nat \ {0} /\ 1 \in 1 .. n
      /\ \A i \in 0 .. (c.work.len - 1) : i \div chunk < n /\ i \div chunk \in Nat
  <2>1. \A i \in 0 .. (c.work.len - 1) : i \div chunk \in Nat
    BY <1>3, DivFacts
  <2>2. n \in Nat \ {0} /\ \A i \in 0 .. (c.work.len - 1) : i \div chunk < n
    BY <1>3, DivUpFacts, Zenon
  <2>3. QED
    BY <2>1, <2>2
<1>5. \A k \in 0 .. n - 1 : ~Done(d, k)
  BY <1>1, <1>4 DEF Done
<1>6. ASSUME NEW i \in 0 .. d.work.len - 1
      PROVE  LET k == i \div d.chunk_size
             IN  /\ d.visits[i] \in {0, 1}
                 /\ k # 0 \/ d.pc # "threw" => d.visits[i] = IF Done(d, k) THEN 1 ELSE 0
  <2>1. d.visits[i] = 0
    BY <1>1, <1>2, <1>3 DEF Visited
  <2>2. i \in 0 .. (c.work.len - 1)
    BY <1>1
  <2>3. i \div chunk \in 0 .. n - 1
    BY <1>4, <2>2
  <2>4. QED
    BY <1>1, <1>5, <2>1, <2>3
<1>7. d.work.reduce => DOMAIN d.results = 0 .. d.sized - 1
  BY <1>1, <1>2 DEF Fresh
<1>8. Divided(d)
  <2>1. d.work.len > 0 /\ d.num_tasks = divup(d.work.len, d.chunk_size)
        /\ d.chunk_size \in Nat \ {0} /\ d.next \in 1 .. d.num_tasks
        /\ DOMAIN d.future = 1 .. d.num_tasks - 1
        /\ \A k \in d.next .. d.num_tasks - 1 : d.future[k] = "none"
    BY <1>1, <1>3, <1>4
  <2>2. \A k \in 0 .. d.num_tasks - 1 : ~Done(d, k)
    BY <1>1, <1>5
  <2>3. QED
    BY <1>1, <1>6, <1>7, <2>1, <2>2 DEF Divided
<1>9. CallInv(d)
  BY <1>1, <1>2, <1>8 DEF CallInv
<1>10. QED
  BY <1>1, <1>3, <1>9 DEF d

\* A task is submitted.
LEMMA SubmitCall ==
  ASSUME NEW c, CallInv(c), c.pc = "submit", c.next < c.num_tasks
  PROVE  LET d == [c EXCEPT !.next = @ + 1, !.future[c.next] = "queued"]
         IN  /\ CallInv(d) /\ d.pc = "submit" /\ c.next \in Nat \ {0}
             /\ c.next \in DOMAIN c.future /\ c.future[c.next] = "none"
             /\ d.future = [c.future EXCEPT ![c.next] = "queued"]
<1> DEFINE d == [c EXCEPT !.next = @ + 1, !.future[c.next] = "queued"]
<1>1. Divided(c) /\ c.work.len \in Nat
  BY DEF CallInv, Fresh, Direct
<1>2. /\ c.num_tasks \in Nat \ {0} /\ c.next \in 1 .. c.num_tasks
      /\ DOMAIN c.future = 1 .. c.num_tasks - 1
      /\ \A k \in c.next .. c.num_tasks - 1 : c.future[k] = "none"
  BY <1>1, ChunkFacts DEF Divided
<1>3. c.next \in DOMAIN c.future /\ c.future[c.next] = "none"
  BY <1>2
<1>4. /\ HasFields(d) /\ d.pc = "submit" /\ d.work = c.work /\ d.sized = c.sized
      /\ d.num_tasks = c.num_tasks /\ d.chunk_size = c.chunk_size /\ d.next = c.next + 1
      /\ d.future = [c.future EXCEPT ![c.next] = "queued"] /\ d.results = c.results
      /\ d.visits = c.visits
  BY DEF CallInv, HasFields
<1> HIDE DEF d
<1>5. /\ DOMAIN d.future = DOMAIN c.future
      /\ \A k \in DOMAIN c.future : d.future[k] = IF k = c.next THEN "queued" ELSE c.future[k]
  BY <1>4
<1>6. /\ \A k \in DOMAIN c.future : c.future[k] = "ok" <=> d.future[k] = "ok"
      /\ \A k \in d.next .. d.num_tasks - 1 : d.future[k] = "none"
      /\ d.next \in 1 .. d.num_tasks
  BY <1>2, <1>3, <1>4, <1>5
<1>7. ~Done(d, 0) /\ ~Done(c, 0)
  BY <1>4 DEF Done
<1>8. CallInv(d)
  BY <1>1, <1>4, <1>5, <1>6, <1>7, StillDivided
<1>9. QED
  BY <1>2, <1>3, <1>4, <1>8 DEF d

\* The caller begins the first task.
LEMMA FirstCall ==
  ASSUME NEW c, CallInv(c), c.pc = "submit"
  PROVE  LET d == [c EXCEPT !.pc = "first"]
         IN  CallInv(d) /\ d.pc = "first" /\ d.future = c.future
<1> DEFINE d == [c EXCEPT !.pc = "first"]
<1>1. Divided(c)
  BY DEF CallInv, Fresh, Direct
<1>2. c.next \in 1 .. c.num_tasks
  BY <1>1 DEF Divided
<1>3. /\ HasFields(d) /\ d.pc = "first" /\ d.work = c.work /\ d.sized = c.sized
      /\ d.num_tasks = c.num_tasks /\ d.chunk_size = c.chunk_size /\ d.next = c.next
      /\ d.future = c.future /\ d.results = c.results /\ d.visits = c.visits
  BY DEF CallInv, HasFields
<1> HIDE DEF d
<1>4. ~Done(d, 0) /\ ~Done(c, 0)
  BY <1>3 DEF Done
<1>5. CallInv(d)
  BY <1>1, <1>2, <1>3, <1>4, StillDivided
<1>6. QED
  BY <1>3, <1>5 DEF d

\* A worker takes a task, or its function throws.
LEMMA TaskCall ==
  ASSUME NEW c, CallInv(c), NEW k \in DOMAIN c.future, c.future[k] \in {"queued", "running"},
         NEW state \in {"running", "threw"}
  PROVE  LET d == [c EXCEPT !.future[k] = state]
         IN  CallInv(d) /\ d.pc = c.pc /\ d.future = [c.future EXCEPT ![k] = state]
<1> DEFINE d == [c EXCEPT !.future[k] = state]
<1>1. Divided(c) /\ c.work.len \in Nat
  BY DEF CallInv, Fresh, Direct
<1>2. /\ c.num_tasks \in Nat \ {0} /\ c.next \in 1 .. c.num_tasks
      /\ DOMAIN c.future = 1 .. c.num_tasks - 1
      /\ c.pc \in {"submit", "first", "wait", "ok", "threw"}
      /\ c.pc = "submit" => \A j \in c.next .. c.num_tasks - 1 : c.future[j] = "none"
      /\ c.pc = "wait" => \A j \in 1 .. c.next - 1 : c.future[j] = "ok"
      /\ c.pc = "ok" => \A j \in DOMAIN c.future : c.future[j] = "ok"
  BY <1>1, ChunkFacts DEF Divided
<1>3. /\ HasFields(d) /\ d.pc = c.pc /\ d.work = c.work /\ d.sized = c.sized
      /\ d.num_tasks = c.num_tasks /\ d.chunk_size = c.chunk_size /\ d.next = c.next
      /\ d.future = [c.future EXCEPT ![k] = state] /\ d.results = c.results
      /\ d.visits = c.visits /\ d.result = c.result
  BY DEF CallInv, HasFields
<1> HIDE DEF d
<1>4. /\ DOMAIN d.future = DOMAIN c.future
      /\ \A j \in DOMAIN c.future : d.future[j] = IF j = k THEN state ELSE c.future[j]
  BY <1>3
<1>5. c.pc # "ok"
  BY <1>2
<1>6. /\ \A j \in DOMAIN c.future : c.future[j] = "ok" <=> d.future[j] = "ok"
      /\ d.pc = "submit" => \A j \in d.next .. d.num_tasks - 1 : d.future[j] = "none"
      /\ d.pc = "wait" => \A j \in 1 .. d.next - 1 : d.future[j] = "ok"
  <2>1. \A j \in DOMAIN c.future : c.future[j] = "ok" <=> d.future[j] = "ok"
    BY <1>4
  <2>2. ASSUME d.pc = "submit", NEW j \in d.next .. d.num_tasks - 1 PROVE d.future[j] = "none"
    BY <1>2, <1>3, <1>4, <2>2
  <2>3. ASSUME d.pc = "wait", NEW j \in 1 .. d.next - 1 PROVE d.future[j] = "ok"
    <3>1. j \in DOMAIN c.future /\ c.future[j] = "ok"
      BY <1>2, <1>3, <2>3
    <3>2. QED
      BY <2>1, <3>1
  <2>4. QED
    BY <2>1, <2>2, <2>3
<1>7. Done(d, 0) <=> Done(c, 0)
  BY <1>3 DEF Done
<1>8. ~(Done(c, 0) /\ c.pc = "threw")
  BY DEF Done
<1>9. CallInv(d)
  BY <1>1, <1>2, <1>3, <1>4, <1>5, <1>6, <1>7, <1>8, StillDivided
<1>10. QED
  BY <1>3, <1>9 DEF d

\* The caller has got the result of a task.
LEMMA GetCall ==
  ASSUME NEW c, CallInv(c), c.pc = "wait", c.next < c.num_tasks, c.future[c.next] = "ok"
  PROVE  LET d == [c EXCEPT !.next = @ + 1]
         IN  CallInv(d) /\ d.pc = "wait" /\ d.future = c.future
<1> DEFINE d == [c EXCEPT !.next = @ + 1]
<1>1. Divided(c) /\ c.work.len \in Nat
  BY DEF CallInv, Fresh, Direct
<1>2. /\ c.num_tasks \in Nat \ {0} /\ c.next \in 1 .. c.num_tasks
      /\ \A j \in 1 .. c.next - 1 : c.future[j] = "ok"
  BY <1>1, ChunkFacts DEF Divided
<1>3. /\ HasFields(d) /\ d.pc = c.pc /\ d.work = c.work /\ d.sized = c.sized
      /\ d.num_tasks = c.num_tasks /\ d.chunk_size = c.chunk_size /\ d.next = c.next + 1
      /\ d.future = c.future /\ d.results = c.results /\ d.visits = c.visits
  BY DEF CallInv, HasFields
<1> HIDE DEF d
<1>4. /\ d.next \in 1 .. d.num_tasks
      /\ \A j \in 1 .. d.next - 1 : d.future[j] = "ok"
  BY <1>2, <1>3
<1>5. Done(d, 0) /\ Done(c, 0)
  BY <1>3 DEF Done
<1>6. CallInv(d)
  BY <1>1, <1>3, <1>4, <1>5, StillDivided
<1>7. QED
  BY <1>3, <1>6 DEF d

\* The caller has got all the results, and combines them.
LEMMA ReturnCall ==
  ASSUME NEW c, CallInv(c), c.pc = "wait", c.next = c.num_tasks
  PROVE  LET d == [c EXCEPT !.pc = "ok", !.result = Combined(c)]
         IN  CallInv(d) /\ d.pc = "ok" /\ d.future = c.future
<1> DEFINE d == [c EXCEPT !.pc = "ok", !.result = Combined(c)]
<1>1. Divided(c) /\ c.work.len \in Nat
  BY DEF CallInv, Fresh, Direct
<1>2. /\ c.num_tasks \in Nat \ {0} /\ c.next \in 1 .. c.num_tasks
      /\ DOMAIN c.future = 1 .. c.num_tasks - 1
      /\ \A j \in 1 .. c.next - 1 : c.future[j] = "ok"
  BY <1>1, ChunkFacts DEF Divided
<1>3. /\ HasFields(d) /\ d.pc = "ok" /\ d.work = c.work /\ d.sized = c.sized
      /\ d.num_tasks = c.num_tasks /\ d.chunk_size = c.chunk_size /\ d.next = c.next
      /\ d.future = c.future /\ d.results = c.results /\ d.visits = c.visits
      /\ d.result = Combined(c)
  BY DEF CallInv, HasFields
<1> HIDE DEF d
<1>4. \A k \in DOMAIN c.future : c.future[k] = "ok"
  BY <1>2
<1>5. Done(d, 0) /\ Done(c, 0)
  BY <1>3 DEF Done
<1>6. ASSUME c.work.reduce, c.sized = c.num_tasks
      PROVE  Combined(c) = Items(0, c.work.len)
  <2>1. \A k \in 0 .. c.num_tasks - 1 : Done(c, k)
    BY <1>2, <1>4, <1>5 DEF Done
  <2>2. DOMAIN c.results = 0 .. c.num_tasks - 1
    BY <1>1, <1>6 DEF Divided
  <2>3. \A k \in 0 .. c.sized - 1 : c.results[k] = Items(ChunkStart(c, k), ChunkEnd(c, k))
    BY <1>1, <1>6, <2>1, <2>2 DEF Divided
  <2>4. /\ c.work.len \in Nat \ {0} /\ c.chunk_size \in Nat \ {0}
        /\ c.sized = divup(c.work.len, c.chunk_size)
    BY <1>1, <1>6 DEF Divided
  <2>5. QED
    BY <2>3, <2>4, CombinedAll
<1>7. CallInv(d)
  BY <1>1, <1>2, <1>3, <1>4, <1>5, <1>6, StillDivided
<1>8. QED
  BY <1>3, <1>7 DEF d

\* The function throws in the first task.
LEMMA FirstThrows ==
  ASSUME NEW c, CallInv(c), c.pc = "first"
  PROVE  LET d == [c EXCEPT !.pc = "threw", !.next = 1]
         IN  CallInv(d) /\ d.pc = "threw" /\ d.future = c.future
<1> DEFINE d == [c EXCEPT !.pc = "threw", !.next = 1]
<1>1. Divided(c) /\ c.work.len \in Nat
  BY DEF CallInv, Fresh, Direct
<1>2. 1 \in 1 .. c.num_tasks
  BY <1>1, ChunkFacts
<1>3. /\ HasFields(d) /\ d.pc = "threw" /\ d.work = c.work /\ d.sized = c.sized
      /\ d.num_tasks = c.num_tasks /\ d.chunk_size = c.chunk_size /\ d.next = 1
      /\ d.future = c.future /\ d.results = c.results /\ d.visits = c.visits
  BY DEF CallInv, HasFields
<1> HIDE DEF d
<1>4. ~Done(d, 0)
  BY <1>3 DEF Done
<1>5. CallInv(d)
  BY <1>1, <1>2, <1>3, <1>4, StillDivided
<1>6. QED
  BY <1>3, <1>5 DEF d

\* Task k has gone through its chunk: the items of the chunk, and no others, are
\* visited once more.
LEMMA TaskDone ==
  ASSUME NEW c, CallInv(c), Divided(c), NEW k \in 0 .. c.num_tasks - 1,
         NEW d, HasFields(d), d.work = c.work, d.sized = c.sized,
         d.num_tasks = c.num_tasks, d.chunk_size = c.chunk_size,
         d.visits = Visit(c, ChunkStart(c, k), ChunkEnd(c, k)),
         d.results = (IF k \in DOMAIN c.results
                      THEN [c.results EXCEPT ![k] = Items(ChunkStart(c, k), ChunkEnd(c, k))]
                      ELSE c.results),
         \/ k = 0 /\ c.pc = "first" /\ d.pc = "wait" /\ d.next = 1 /\ d.future = c.future
         \/ /\ k # 0 /\ c.future[k] = "running" /\ d.pc = c.pc /\ d.next = c.next
            /\ d.future = [c.future EXCEPT ![k] = "ok"]
  PROVE  CallInv(d)
<1>1. /\ c.work.len \in Nat /\ c.num_tasks \in Nat \ {0} /\ c.next \in 1 .. c.num_tasks
      /\ DOMAIN c.future = 1 .. c.num_tasks - 1 /\ DOMAIN c.visits = 0 .. c.work.len - 1
      /\ c.pc \in {"submit", "first", "wait", "ok", "threw"}
      /\ c.pc = "submit" => \A j \in c.next .. c.num_tasks - 1 : c.future[j] = "none"
      /\ c.pc = "wait" => \A j \in 1 .. c.next - 1 : c.future[j] = "ok"
      /\ c.pc = "ok" => \A j \in DOMAIN c.future : c.future[j] = "ok"
  <2>1. c.work.len \in Nat
    BY DEF CallInv
  <2>2. QED
    BY <2>1, ChunkFacts DEF Divided, CallInv
<1>2. k # 0 => k \in DOMAIN c.future
  BY <1>1
<1>3. /\ DOMAIN d.future = DOMAIN c.future
      /\ \A j \in DOMAIN c.future : j # k => d.future[j] = c.future[j]
      /\ k # 0 => d.future[k] = "ok"
  BY <1>2
<1>4. /\ c.pc # "ok" /\ d.pc # "ok" /\ d.pc # "none" /\ d.next \in 1 .. d.num_tasks
      /\ d.pc \in {"submit", "first", "wait", "threw"}
  <2>1. CASE k = 0
    BY <1>1, <2>1
  <2>2. CASE k # 0
    BY <1>1, <1>2, <2>2
  <2>3. QED
    BY <2>1, <2>2
<1>5. ~Done(c, k) /\ Done(d, k) /\ (k = 0 => c.pc # "threw")
  BY <1>3 DEF Done
<1>6. \A j \in 0 .. c.num_tasks - 1 : j # k =>
        /\ Done(d, j) <=> Done(c, j)
        /\ j # 0 \/ d.pc # "threw" <=> j # 0 \/ c.pc # "threw"
  <2> SUFFICES ASSUME NEW j \in 0 .. c.num_tasks - 1, j # k
               PROVE  /\ Done(d, j) <=> Done(c, j)
                      /\ j # 0 \/ d.pc # "threw" <=> j # 0 \/ c.pc # "threw"
    OBVIOUS
  <2>1. CASE j = 0
    BY <2>1 DEF Done
  <2>2. CASE j # 0
    <3>1. j \in DOMAIN c.future
      BY <1>1, <2>2
    <3>2. QED
      BY <1>3, <2>2, <3>1 DEF Done
  <2>3. QED
    BY <2>1, <2>2
<1>7. ASSUME NEW i \in 0 .. d.work.len - 1
      PROVE  LET j == i \div d.chunk_size
             IN  /\ d.visits[i] \in {0, 1}
                 /\ j # 0 \/ d.pc # "threw" => d.visits[i] = IF Done(d, j) THEN 1 ELSE 0
  <2> DEFINE j == i \div c.chunk_size
  <2>1. /\ j \in 0 .. c.num_tasks - 1 /\ i \in DOMAIN c.visits
        /\ i >= ChunkStart(c, k) /\ i < ChunkEnd(c, k) <=> k = j
    BY <1>1, ChunkFacts
  <2>2. /\ c.visits[i] \in {0, 1}
        /\ j # 0 \/ c.pc # "threw" => c.visits[i] = IF Done(c, j) THEN 1 ELSE 0
    BY DEF Divided
  <2>3. d.visits[i] = IF k = j THEN c.visits[i] + 1 ELSE c.visits[i]
    BY <2>1 DEF Visit
  <2> HIDE DEF j
  <2>4. CASE k = j
    BY <1>5, <2>2, <2>3, <2>4 DEF j
  <2>5. CASE k # j
    BY <1>6, <2>1, <2>2, <2>3, <2>5 DEF j
  <2>6. QED
    BY <2>4, <2>5
<1>8. \A j : ChunkStart(d, j) = ChunkStart(c, j) /\ ChunkEnd(d, j) = ChunkEnd(c, j)
  BY DEF ChunkStart, ChunkEnd
<1>9. ASSUME d.work.reduce
      PROVE  /\ DOMAIN d.results = 0 .. d.sized - 1
             /\ \A j \in 0 .. d.num_tasks - 1 :
                  j \in DOMAIN d.results /\ Done(d, j) =>
                    d.results[j] = Items(ChunkStart(d, j), ChunkEnd(d, j))
  <2>1. /\ DOMAIN c.results = 0 .. c.sized - 1
        /\ \A j \in 0 .. c.num_tasks - 1 :
             j \in DOMAIN c.results /\ Done(c, j) =>
               c.results[j] = Items(ChunkStart(c, j), ChunkEnd(c, j))
    BY <1>9 DEF Divided
  <2>2. /\ DOMAIN d.results = DOMAIN c.results
        /\ \A j \in DOMAIN c.results :
             d.results[j] = IF j = k THEN Items(ChunkStart(c, k), ChunkEnd(c, k)) ELSE c.results[j]
    <3>1. CASE k \in DOMAIN c.results
      <4>1. d.results = [c.results EXCEPT ![k] = Items(ChunkStart(c, k), ChunkEnd(c, k))]
        BY <3>1
      <4>2. QED
        BY ONLY <4>1
    <3>2. CASE k \notin DOMAIN c.results
      <4>1. d.results = c.results
        BY <3>2
      <4>2. QED
        BY <3>2, <4>1
    <3>3. QED
      BY <3>1, <3>2
  <2>3. ASSUME NEW j \in 0 .. d.num_tasks - 1, j \in DOMAIN d.results, Done(d, j)
        PROVE  d.results[j] = Items(ChunkStart(c, j), ChunkEnd(c, j))
    <3>1. CASE j = k
      BY <2>2, <2>3, <3>1
    <3>2. CASE j # k
      BY <1>6, <2>1, <2>2, <2>3, <3>2
    <3>3. QED
      BY <3>1, <3>2
  <2>4. QED
    BY <1>8, <2>1, <2>2, <2>3
<1>10. /\ d.pc = "submit" => \A j \in d.next .. d.num_tasks - 1 : d.future[j] = "none"
       /\ d.pc = "wait" => \A j \in 1 .. d.next - 1 : d.future[j] = "ok"
  <2>1. ASSUME d.pc = "submit", NEW j \in d.next .. d.num_tasks - 1 PROVE d.future[j] = "none"
    <3>1. c.pc = "submit" /\ c.future[j] = "none" /\ j \in DOMAIN c.future /\ k # 0
      BY <1>1, <2>1
    <3>2. QED
      BY <1>3, <3>1
  <2>2. ASSUME d.pc = "wait", NEW j \in 1 .. d.next - 1 PROVE d.future[j] = "ok"
    <3>1. k # 0 /\ c.pc = "wait" /\ d.next = c.next
      BY <2>2
    <3>2. c.future[j] = "ok" /\ j \in DOMAIN c.future
      BY <1>1, <2>2, <3>1
    <3>3. QED
      BY <1>3, <3>2
  <2>3. QED
    BY <2>1, <2>2
<1>11. /\ 0 < d.work.len /\ d.chunk_size \in Nat \ {0}
       /\ d.num_tasks = divup(d.work.len, d.chunk_size)
       /\ DOMAIN d.future = 1 .. d.num_tasks - 1
  BY <1>1, <1>3 DEF Divided
<1>12. Divided(d)
  BY <1>4, <1>7, <1>9, <1>10, <1>11 DEF Divided
<1>13. DOMAIN d.visits = 0 .. d.work.len - 1
  BY <1>1 DEF Visit
<1>14. QED
  BY <1>4, <1>12, <1>13 DEF CallInv

-----------------------------------------------------------------------------
(* The state.                                                              *)

\* Calls and frames of threads of the program.
LEMMA CallFacts ==
  /\ \A t \in Callers : <<t>> \in Calls
  /\ \A t, u : <<t>> = <<u>> => t = u
  /\ \A t : t \in Threads <=> t \in Callers \/ t \in Workers
  /\ \A t \in Callers : t \notin Workers
  BY ParallelAssumption DEF Calls, Threads

\* Stacks of at most two frames.
LEMMA StackFacts ==
  ASSUME NEW f, NEW g
  PROVE  /\ <<f>> # <<>> /\ <<f, g>> # <<>> /\ Head(<<f>>) = f /\ Head(<<f, g>>) = f
         /\ Tail(<<f>>) = <<>> /\ Tail(<<f, g>>) = <<g>>
         /\ <<f>> \o <<>> = <<f>> /\ <<f>> \o <<g>> = <<f, g>>
<1>1. <<f>> # <<>> /\ <<f, g>> # <<>> /\ Head(<<f>>) = f /\ Head(<<f, g>>) = f
  OBVIOUS
<1>2. Tail(<<f>>) = <<>> /\ Tail(<<f, g>>) = <<g>>
  OBVIOUS
<1>3. <<f>> \o <<>> = <<f>> /\ <<f>> \o <<g>> = <<f, g>>
  <2> DEFINE S == {f, g}
             s == <<f>>
             r == <<g>>
             u == <<f, g>>
  <2>1. /\ s \in Seq(S) /\ r \in Seq(S) /\ u \in Seq(S) /\ Len(s) = 1 /\ Len(r) = 1 /\ Len(u) = 2
        /\ s[1] = f /\ r[1] = g /\ u[1] = f /\ u[2] = g
    OBVIOUS
  <2> HIDE DEF S, s, r, u
  <2>2. s \o <<>> = s
    BY <2>1, ConcatEmptySeq
  <2>3. s \o r \in Seq(S) /\ Len(s \o r) = 2 /\ (s \o r)[1] = f /\ (s \o r)[2] = g
    BY <2>1, ConcatProperties
  <2>4. \A i \in 1 .. Len(s \o r) : (s \o r)[i] = u[i]
    BY <2>1, <2>3
  <2>5. s \o r = u
    BY <2>1, <2>3, <2>4, SeqEqual
  <2>6. QED
    BY <2>2, <2>5 DEF s, r, u
<1>4. QED
  BY <1>1, <1>2, <1>3

\* The conjuncts of the invariant.
LEMMA Parts ==
  ASSUME ParallelInv
  PROVE  /\ PoolInv /\ QueueInv
         /\ \A id \in Calls : CallInv(call[id])
         /\ \A t \in Callers : CallerInv(t) /\ <<t>> \in Calls /\ CallInv(call[<<t>>])
         /\ \A w \in Workers : WorkerInv(w)
         /\ \A v, w \in Workers : stack[v] = stack[w] /\ stack[v] # <<>> => v = w
         /\ DOMAIN call = Calls /\ DOMAIN stack = Threads /\ DOMAIN region = Threads
         /\ queue \in Seq(TaskFrame)
  BY CallFacts DEF ParallelInv, PoolInv

\* A call changes.
LEMMA SetCallFacts ==
  ASSUME DOMAIN call = Calls, NEW id \in Calls, NEW d, SetCall(id, d)
  PROVE  /\ DOMAIN call' = Calls /\ call'[id] = d
         /\ \A x \in Calls \ {id} : call'[x] = call[x]
  BY DEF SetCall

\* A thread in a call of parallel_for is a caller, in its own call.
LEMMA InCallFacts ==
  ASSUME ParallelInv, NEW t \in Threads, stack[t] # <<>>, Top(t).task = -1
  PROVE  /\ t \in Callers /\ stack[t] = <<Frame(t, -1)>> /\ Top(t).call = <<t>>
         /\ call[<<t>>].pc \in {"enter", "submit", "wait"}
<1>1. CASE t \in Workers
  <2>1. Top(t) \in TaskFrame
    BY <1>1, Parts DEF WorkerInv, IsTask
  <2>2. QED
    BY <2>1 DEF TaskFrame
<1>2. CASE t \in Callers
  <2>1. CASE stack[t] = <<Frame(t, 0), Frame(t, -1)>>
    <3>1. Top(t) = Frame(t, 0)
      BY <2>1, StackFacts DEF Top
    <3>2. QED
      BY <3>1 DEF Frame
  <2>2. CASE stack[t] = <<Frame(t, -1)>> /\ call[<<t>>].pc \in {"enter", "submit", "wait"}
    <3>1. Top(t) = Frame(t, -1)
      BY <2>2, StackFacts DEF Top
    <3>2. QED
      BY <1>2, <2>2, <3>1 DEF Frame
  <2>3. QED
    BY <1>2, <2>1, <2>2, Parts DEF CallerInv
<1>3. QED
  BY <1>1, <1>2, CallFacts

\* A thread in a task is in a parallel region: a caller in the first task of its
\* call, or a worker.
LEMMA InTaskFacts ==
  ASSUME ParallelInv, NEW t \in Threads, InTask(t)
  PROVE  /\ in_parallel_region(t)
         /\ \/ /\ t \in Callers /\ stack[t] = <<Frame(t, 0), Frame(t, -1)>>
               /\ Top(t).call = <<t>> /\ Top(t).task = 0 /\ call[<<t>>].pc = "first"
            \/ t \in Workers /\ stack[t] = <<Top(t)>> /\ IsTask(Top(t), "running")
<1>0. stack[t] # <<>> /\ Top(t).task >= 0
  BY DEF InTask
<1>1. CASE t \in Workers
  BY <1>0, <1>1, Parts DEF WorkerInv, in_parallel_region
<1>2. CASE t \in Callers
  <2>1. CASE stack[t] = <<Frame(t, -1)>>
    <3>1. Top(t) = Frame(t, -1)
      BY <2>1, StackFacts DEF Top
    <3>2. QED
      BY <1>0, <3>1 DEF Frame
  <2>2. CASE stack[t] = <<Frame(t, 0), Frame(t, -1)>> /\ call[<<t>>].pc = "first" /\ region[t]
    <3>1. Top(t) = Frame(t, 0)
      BY <2>2, StackFacts DEF Top
    <3>2. QED
      BY <1>2, <2>2, <3>1 DEF Frame, in_parallel_region
  <2>3. QED
    BY <1>0, <1>2, <2>1, <2>2, Parts DEF CallerInv
<1>3. QED
  BY <1>1, <1>2, CallFacts

\* Tasks that are queued or run stay so, when their futures are kept.
LEMMA TaskKept ==
  ASSUME ParallelInv, NEW id \in Calls, NEW d, SetCall(id, d),
         NEW f, NEW state, IsTask(f, state),
         f.call = id => f.task \in DOMAIN d.future /\ d.future[f.task] = call[id].future[f.task]
  PROVE  IsTask(f, state)'
<1>1. f \in TaskFrame /\ f.call \in Calls
  BY CallFacts DEF IsTask, TaskFrame
<1>2. call'[id] = d /\ \A x \in Calls \ {id} : call'[x] = call[x]
  BY SetCallFacts, Parts
<1>3. CASE f.call = id
  BY <1>1, <1>2, <1>3 DEF IsTask
<1>4. CASE f.call # id
  BY <1>1, <1>2, <1>4 DEF IsTask
<1>5. QED
  BY <1>3, <1>4

\* A queue that is not touched.
LEMMA QueueKept ==
  ASSUME ParallelInv, NEW id \in Calls, NEW d, SetCall(id, d), queue' = queue,
         \A k \in DOMAIN call[id].future : call[id].future[k] = "queued" =>
           k \in DOMAIN d.future /\ d.future[k] = "queued"
  PROVE  QueueInv' /\ queue' \in Seq(TaskFrame)
<1>1. QueueInv /\ queue \in Seq(TaskFrame)
  BY Parts
<1>2. ASSUME NEW j \in 1 .. Len(queue)
      PROVE  IsTask(queue[j], "queued")'
  <2>0. PICK f : f = queue[j]
    OBVIOUS
  <2>1. IsTask(f, "queued")
    BY <1>1, <2>0 DEF QueueInv
  <2>2. f.call = id => f.task \in DOMAIN d.future /\ d.future[f.task] = call[id].future[f.task]
    BY <2>1 DEF IsTask
  <2>3. IsTask(f, "queued")'
    BY <2>1, <2>2, TaskKept
  <2>4. queue'[j] = f
    BY <2>0
  <2>5. QED
    BY <2>3, <2>4
<1>3. QED
  BY <1>1, <1>2 DEF QueueInv

\* A caller goes on in its own call.
LEMMA OwnStep ==
  ASSUME ParallelInv, NEW t \in Callers, NEW d, SetCall(<<t>>, d), CallInv(d),
         \A k \in DOMAIN call[<<t>>].future : call[<<t>>].future[k] = "running" =>
           k \in DOMAIN d.future /\ d.future[k] = "running",
         DOMAIN stack' = Threads, DOMAIN region' = Threads,
         \A u \in Threads \ {t} : stack'[u] = stack[u] /\ region'[u] = region[u],
         num_intraop_threads' \in {NOT_SET, CONSUMED} \cup (Nat \ {0}), pool' \in Nat,
         queue' \in Seq(TaskFrame), QueueInv', CallerInv(t)'
  PROVE  ParallelInv'
<1> USE Parts
<1>1. /\ <<t>> \in Calls /\ DOMAIN call' = Calls /\ call'[<<t>>] = d
      /\ \A x \in Calls \ {<<t>>} : call'[x] = call[x]
  BY SetCallFacts, CallFacts
<1>2. PoolInv'
  BY <1>1 DEF PoolInv, Threads, Calls, TaskFrame
<1>3. \A id \in Calls : CallInv(call'[id])
  BY <1>1
<1>4. ASSUME NEW u \in Callers PROVE CallerInv(u)'
  <2>1. CASE u = t
    BY <2>1
  <2>2. CASE u # t
    <3>1. <<u>> \in Calls \ {<<t>>} /\ u \in Threads \ {t}
      BY <2>2, CallFacts
    <3>2. call'[<<u>>] = call[<<u>>] /\ stack'[u] = stack[u] /\ region'[u] = region[u]
      BY <1>1, <3>1
    <3>3. QED
      BY <3>2 DEF CallerInv
  <2>3. QED
    BY <2>1, <2>2
<1>5. \A w \in Workers : stack'[w] = stack[w] /\ region'[w] = region[w]
  BY CallFacts
<1>6. ASSUME NEW w \in Workers PROVE WorkerInv(w)'
  <2> SUFFICES ASSUME stack[w] # <<>>
               PROVE  region'[w] /\ stack'[w] = <<Top(w)'>> /\ IsTask(Top(w), "running")'
    BY <1>5 DEF WorkerInv
  <2> DEFINE f == Top(w)
  <2>1. region[w] /\ stack[w] = <<f>> /\ IsTask(f, "running") /\ Top(w)' = f
    BY <1>5 DEF WorkerInv, Top
  <2> HIDE DEF f
  <2>2. f.call = <<t>> =>
          f.task \in DOMAIN d.future /\ d.future[f.task] = call[<<t>>].future[f.task]
    BY <2>1 DEF IsTask
  <2>3. PICK h : h = f
    OBVIOUS
  <2>4. IsTask(h, "running")'
    BY <1>1, <2>1, <2>2, <2>3, TaskKept
  <2>5. IsTask(Top(w), "running")'
    BY <2>1, <2>3, <2>4
  <2>6. QED
    BY <1>5, <2>1, <2>5
<1>7. \A v, w \in Workers : stack'[v] = stack'[w] /\ stack'[v] # <<>> => v = w
  BY <1>5
<1>8. QED
  BY <1>2, <1>3, <1>4, <1>6, <1>7 DEF ParallelInv, Calls

\* A stack changes.
LEMMA StackChange ==
  ASSUME DOMAIN stack = Threads, NEW t \in Threads, NEW s, stack' = [stack EXCEPT ![t] = s]
  PROVE  /\ DOMAIN stack' = Threads /\ stack'[t] = s
         /\ \A u \in Threads \ {t} : stack'[u] = stack[u]
  OBVIOUS

\* parallel_for is called by the program.
LEMMA StartStep ==
  ASSUME ParallelInv, NEW t \in Callers, Start(t)
  PROVE  ParallelInv'
<1> USE Parts
<1>1. /\ stack[t] = <<>> /\ call[<<t>>].pc = "none"
      /\ UNCHANGED <<num_intraop_threads, pool, queue, region, sets>>
  BY DEF Start
<1>2. PICK work \in Work[t] : Begin(t, <<t>>, work)
  BY DEF Start
<1>3. work.len \in Nat /\ work.grain \in Nat \ {0}
  BY <1>2, ParallelAssumption DEF Range
<1>4. PICK d : /\ SetCall(<<t>>, d) /\ CallInv(d) /\ DOMAIN d.future = {}
               /\ \/ d.pc \in {"ok", "threw"} /\ UNCHANGED stack
                  \/ /\ d.pc = "enter" /\ ~in_parallel_region(t)
                     /\ Push(t, [call |-> <<t>>, task |-> -1])
  BY <1>2, <1>3, BeginCall
<1>5. DOMAIN call[<<t>>].future = {}
  BY <1>1 DEF CallInv, Fresh, Direct, Divided
<1>6. QueueInv' /\ queue' \in Seq(TaskFrame)
  BY <1>1, <1>4, <1>5, QueueKept
<1>7. t \in Threads /\ call'[<<t>>] = d
  BY <1>4, SetCallFacts, CallFacts
<1>8. CASE d.pc \in {"ok", "threw"} /\ UNCHANGED stack
  <2>1. CallerInv(t)'
    BY <1>1, <1>7, <1>8 DEF CallerInv
  <2>2. QED
    BY <1>1, <1>4, <1>5, <1>6, <1>8, <2>1, OwnStep DEF PoolInv
<1>9. CASE d.pc = "enter" /\ Push(t, [call |-> <<t>>, task |-> -1])
  <2>1. stack' = [stack EXCEPT ![t] = <<Frame(t, -1)>>]
    BY <1>1, <1>7, <1>9, StackFacts DEF Push, Frame
  <2>2. /\ DOMAIN stack' = Threads /\ stack'[t] = <<Frame(t, -1)>>
        /\ \A u \in Threads \ {t} : stack'[u] = stack[u]
    BY <1>7, <2>1, StackChange
  <2>3. CallerInv(t)'
    BY <1>7, <1>9, <2>2 DEF CallerInv, Frame
  <2>4. QED
    BY <1>1, <1>4, <1>5, <1>6, <2>2, <2>3, OwnStep DEF PoolInv
<1>10. QED
  BY <1>4, <1>8, <1>9

\* An exception leaves the caller's call.
LEMMA LeaveStep ==
  ASSUME ParallelInv, NEW t \in Callers, stack[t] = <<Frame(t, -1)>>,
         call[<<t>>].pc \in {"enter", "submit", "wait"}, Leave(t, <<t>>, call[<<t>>]),
         num_intraop_threads' \in {NOT_SET, CONSUMED} \cup (Nat \ {0}), pool' \in Nat,
         UNCHANGED <<queue, region>>
  PROVE  ParallelInv'
<1> USE Parts
<1> DEFINE c == call[<<t>>]
           d == [c EXCEPT !.pc = "threw"]
<1>1. SetCall(<<t>>, d) /\ Pop(t)
  BY DEF Leave
<1>2. CallInv(d) /\ d.pc = "threw" /\ d.future = c.future
  BY LeaveCall
<1> HIDE DEF d
<1>3. t \in Threads /\ call'[<<t>>] = d
  BY <1>1, SetCallFacts, CallFacts
<1>4. stack' = [stack EXCEPT ![t] = <<>>]
  BY <1>1, <1>3, StackFacts DEF Pop
<1>5. /\ DOMAIN stack' = Threads /\ stack'[t] = <<>>
      /\ \A u \in Threads \ {t} : stack'[u] = stack[u]
  BY <1>3, <1>4, StackChange
<1>6. CallerInv(t)'
  BY <1>2, <1>3, <1>5 DEF CallerInv
<1>7. QueueInv' /\ queue' \in Seq(TaskFrame)
  BY <1>1, <1>2, QueueKept
<1>8. QED
  BY <1>1, <1>2, <1>5, <1>6, <1>7, OwnStep

\* The caller's call goes on in its loops.
LEMMA LoopStep ==
  ASSUME ParallelInv, NEW t \in Callers, stack[t] = <<Frame(t, -1)>>,
         NEW d, SetCall(<<t>>, d), CallInv(d), d.pc \in {"enter", "submit", "wait"},
         \A k \in DOMAIN call[<<t>>].future : k \in DOMAIN d.future /\
           d.future[k] = call[<<t>>].future[k],
         UNCHANGED <<num_intraop_threads, pool, queue, stack, region>>
  PROVE  ParallelInv'
<1> USE Parts
<1>1. call'[<<t>>] = d
  BY SetCallFacts
<1>2. CallerInv(t)'
  BY <1>1 DEF CallerInv, Frame
<1>3. QueueInv' /\ queue' \in Seq(TaskFrame)
  BY QueueKept
<1>4. QED
  BY <1>2, <1>3, OwnStep DEF PoolInv

\* _parallel_run begins.
LEMMA EnterStep ==
  ASSUME ParallelInv, NEW t \in Callers, stack[t] = <<Frame(t, -1)>>, Enter(t, <<t>>)
  PROVE  ParallelInv'
<1> USE Parts
<1> DEFINE c == call[<<t>>]
           r == calc_num_tasks_and_chunk_size(c.work.len, c.work.grain)
           d == [c EXCEPT !.pc = "submit", !.next = 1, !.num_tasks = r.num_tasks,
                          !.chunk_size = r.chunk_size,
                          !.future = [k \in 1 .. r.num_tasks - 1 |-> "none"]]
<1>1. /\ c.pc = "enter" /\ UNCHANGED <<num_intraop_threads, pool, queue, region, sets>>
      /\ IF PoolBroken THEN Leave(t, <<t>>, c) ELSE SetCall(<<t>>, d) /\ UNCHANGED stack
  BY DEF Enter
<1>2. CASE PoolBroken
  BY <1>1, <1>2, LeaveStep DEF PoolInv
<1>3. CASE ~PoolBroken
  <2>1. Fresh(c) /\ c.work.len \in Nat /\ c.work.grain \in Nat \ {0}
    BY <1>1 DEF CallInv, Direct, Divided
  <2>2. c.work.len \in Nat \ {0} /\ c.work.grain <= c.work.len
    BY <1>1, <2>1 DEF Fresh
  <2>3. r.chunk_size \in Nat \ {0} /\ r.num_tasks = divup(c.work.len, r.chunk_size)
    BY <2>1, <2>2, PoolFacts
  <2>4. SetCall(<<t>>, d) /\ UNCHANGED stack
    BY <1>1, <1>3
  <2> HIDE DEF r
  <2>5. CallInv(d) /\ d.pc = "submit" /\ DOMAIN c.future = {}
    BY <1>1, <2>3, EnterCall
  <2> HIDE DEF d
  <2>6. QED
    BY <1>1, <2>4, <2>5, LoopStep
<1>4. QED
  BY <1>2, <1>3

\* The caller begins with the first task.
LEMMA RunFirstStep ==
  ASSUME ParallelInv, NEW t \in Callers, stack[t] = <<Frame(t, -1)>>, RunFirst(t, <<t>>)
  PROVE  ParallelInv'
<1> USE Parts
<1> DEFINE c == call[<<t>>]
           d == [c EXCEPT !.pc = "first"]
<1>1. /\ c.pc = "submit" /\ SetCall(<<t>>, d) /\ Push(t, [call |-> <<t>>, task |-> 0])
      /\ region' = [region EXCEPT ![t] = TRUE]
      /\ UNCHANGED <<num_intraop_threads, pool, queue, sets>>
  BY DEF RunFirst
<1>2. CallInv(d) /\ d.pc = "first" /\ d.future = c.future
  BY <1>1, FirstCall
<1> HIDE DEF d
<1>3. t \in Threads /\ call'[<<t>>] = d
  BY <1>1, SetCallFacts, CallFacts
<1>4. stack' = [stack EXCEPT ![t] = <<Frame(t, 0), Frame(t, -1)>>]
  <2>1. Push(t, Frame(t, 0))
    BY <1>1 DEF Frame
  <2>2. <<Frame(t, 0)>> \o stack[t] = <<Frame(t, 0), Frame(t, -1)>>
    BY StackFacts
  <2>3. QED
    BY <2>1, <2>2 DEF Push
<1>5. /\ DOMAIN stack' = Threads /\ stack'[t] = <<Frame(t, 0), Frame(t, -1)>>
      /\ \A u \in Threads \ {t} : stack'[u] = stack[u]
  BY <1>3, <1>4, StackChange
<1>6. /\ DOMAIN region' = Threads /\ region'[t] = TRUE
      /\ \A u \in Threads \ {t} : region'[u] = region[u]
  BY <1>1, <1>3
<1>7. CallerInv(t)'
  BY <1>2, <1>3, <1>5, <1>6 DEF CallerInv, Frame
<1>8. QueueInv' /\ queue' \in Seq(TaskFrame)
  BY <1>1, <1>2, QueueKept
<1>9. QED
  BY <1>1, <1>2, <1>5, <1>6, <1>7, <1>8, OwnStep DEF PoolInv

\* The caller gets a result.
LEMMA GetStep ==
  ASSUME ParallelInv, NEW t \in Callers, stack[t] = <<Frame(t, -1)>>, Get(t, <<t>>)
  PROVE  ParallelInv'
<1> USE Parts
<1> DEFINE c == call[<<t>>]
           d == [c EXCEPT !.next = @ + 1]
<1>1. /\ c.pc = "wait" /\ c.next < c.num_tasks
      /\ UNCHANGED <<num_intraop_threads, pool, queue, region, sets>>
      /\ \/ c.future[c.next] = "ok" /\ SetCall(<<t>>, d) /\ UNCHANGED stack
         \/ Leave(t, <<t>>, c)
  BY DEF Get
<1>2. CASE Leave(t, <<t>>, c)
  BY <1>1, <1>2, LeaveStep DEF PoolInv
<1>3. CASE c.future[c.next] = "ok" /\ SetCall(<<t>>, d) /\ UNCHANGED stack
  <2>1. CallInv(d) /\ d.pc = "wait" /\ d.future = c.future
    BY <1>1, <1>3, GetCall
  <2> HIDE DEF d
  <2>2. QED
    BY <1>1, <1>3, <2>1, LoopStep
<1>4. QED
  BY <1>1, <1>2, <1>3

\* The caller has all the results.
LEMMA ReturnStep ==
  ASSUME ParallelInv, NEW t \in Callers, stack[t] = <<Frame(t, -1)>>, Return(t, <<t>>)
  PROVE  ParallelInv'
<1> USE Parts
<1> DEFINE c == call[<<t>>]
           d == [c EXCEPT !.pc = "ok", !.result = Combined(c)]
<1>1. /\ c.pc = "wait" /\ c.next = c.num_tasks /\ SetCall(<<t>>, d) /\ Pop(t)
      /\ UNCHANGED <<num_intraop_threads, pool, queue, region, sets>>
  BY DEF Return
<1>2. CallInv(d) /\ d.pc = "ok" /\ d.future = c.future
  BY <1>1, ReturnCall
<1> HIDE DEF d
<1>3. t \in Threads /\ call'[<<t>>] = d
  BY <1>1, SetCallFacts, CallFacts
<1>4. stack' = [stack EXCEPT ![t] = <<>>]
  BY <1>1, <1>3, StackFacts DEF Pop
<1>5. /\ DOMAIN stack' = Threads /\ stack'[t] = <<>>
      /\ \A u \in Threads \ {t} : stack'[u] = stack[u]
  BY <1>3, <1>4, StackChange
<1>6. CallerInv(t)'
  BY <1>2, <1>3, <1>5 DEF CallerInv
<1>7. QueueInv' /\ queue' \in Seq(TaskFrame)
  BY <1>1, <1>2, QueueKept
<1>8. QED
  BY <1>1, <1>2, <1>5, <1>6, <1>7, OwnStep DEF PoolInv

\* The caller submits a task.
LEMMA SubmitStep ==
  ASSUME ParallelInv, NEW t \in Callers, stack[t] = <<Frame(t, -1)>>, Submit(t, <<t>>)
  PROVE  ParallelInv'
<1> USE Parts
<1> DEFINE c == call[<<t>>]
           d == [c EXCEPT !.next = @ + 1, !.future[c.next] = "queued"]
<1>1. /\ c.pc = "submit" /\ c.next < c.num_tasks
      /\ num_intraop_threads' = CONSUMED /\ pool' = PoolSize
      /\ IF PoolSize = 0 THEN Leave(t, <<t>>, c) /\ UNCHANGED queue
         ELSE /\ queue' = Append(queue, [call |-> <<t>>, task |-> c.next])
              /\ SetCall(<<t>>, d) /\ UNCHANGED stack
      /\ UNCHANGED <<region, sets>>
  BY DEF Submit
<1>2. num_intraop_threads' \in {NOT_SET, CONSUMED} \cup (Nat \ {0}) /\ pool' \in Nat
  BY <1>1, PoolFacts
<1>3. CASE PoolSize = 0
  BY <1>1, <1>2, <1>3, LeaveStep
<1>4. CASE PoolSize # 0
  <2>1. /\ queue' = Append(queue, [call |-> <<t>>, task |-> c.next])
        /\ SetCall(<<t>>, d) /\ UNCHANGED stack
    BY <1>1, <1>4
  <2>2. /\ CallInv(d) /\ d.pc = "submit" /\ c.next \in Nat \ {0}
        /\ c.next \in DOMAIN c.future /\ c.future[c.next] = "none"
        /\ d.future = [c.future EXCEPT ![c.next] = "queued"]
    BY <1>1, SubmitCall
  <2> HIDE DEF d
  <2>3. /\ d.future[c.next] = "queued" /\ DOMAIN d.future = DOMAIN c.future
        /\ \A k \in DOMAIN c.future : k # c.next => d.future[k] = c.future[k]
    BY <2>2
  <2>4. call'[<<t>>] = d
    BY <2>1, SetCallFacts
  <2>5. CallerInv(t)'
    BY <2>1, <2>2, <2>4 DEF CallerInv, Frame
  <2>6. PICK g : g = [call |-> <<t>>, task |-> c.next]
    OBVIOUS
  <2>7. g \in TaskFrame /\ g.call = <<t>> /\ g.task = c.next
    BY <2>2, <2>6 DEF TaskFrame
  <2>8. queue' = Append(queue, g) /\ queue' \in Seq(TaskFrame)
    BY <2>1, <2>6, <2>7
  <2>9. /\ Len(queue') = Len(queue) + 1 /\ queue'[Len(queue) + 1] = g
        /\ \A j \in 1 .. Len(queue) : queue'[j] = queue[j]
        /\ Len(queue) \in Nat
    BY <2>7, <2>8
  <2>10. IsTask(g, "queued")'
    BY <2>2, <2>3, <2>4, <2>7 DEF IsTask, TaskFrame
  <2>11. ASSUME NEW f, IsTask(f, "queued")
         PROVE  IsTask(f, "queued")' /\ f # g
    <3>1. f.call = <<t>> =>
            f.task \in DOMAIN d.future /\ d.future[f.task] = call[<<t>>].future[f.task]
      BY <2>2, <2>3, <2>11 DEF IsTask
    <3>2. IsTask(f, "queued")'
      BY <2>1, <2>11, <3>1, TaskKept
    <3>3. f # g
      BY <2>2, <2>7, <2>11 DEF IsTask
    <3>4. QED
      BY <3>2, <3>3
  <2>12. \A j \in 1 .. Len(queue) : IsTask(queue[j], "queued")
    BY DEF QueueInv
  <2>13. QueueInv'
    <3>1. ASSUME NEW j \in 1 .. Len(queue') PROVE IsTask(queue[j], "queued")'
      <4>1. CASE j = Len(queue) + 1
        BY <2>9, <2>10, <4>1
      <4>2. CASE j \in 1 .. Len(queue)
        <5>1. PICK f : f = queue[j]
          OBVIOUS
        <5>2. IsTask(f, "queued")' /\ queue'[j] = f
          BY <2>9, <2>11, <2>12, <4>2, <5>1
        <5>3. QED
          BY <5>2
      <4>3. QED
        BY <2>9, <4>1, <4>2
    <3>2. \A j \in 1 .. Len(queue) : queue[j] # g
      BY <2>11, <2>12
    <3>3. \A i, j \in 1 .. Len(queue') : queue'[i] = queue'[j] => i = j
      BY <2>9, <3>2 DEF QueueInv
    <3>4. QED
      BY <3>1, <3>3 DEF QueueInv
  <2>14. \A k \in DOMAIN c.future : c.future[k] = "running" =>
           k \in DOMAIN d.future /\ d.future[k] = "running"
    BY <2>2, <2>3
  <2>15. QED
    BY <1>1, <1>2, <2>1, <2>2, <2>5, <2>8, <2>13, <2>14, OwnStep
<1>5. QED
  BY <1>3, <1>4

\* A worker takes a task or ends it.
LEMMA WorkerStep ==
  ASSUME ParallelInv, NEW w \in Workers, NEW f \in TaskFrame, NEW d,
         SetCall(f.call, d), CallInv(d), d.pc = call[f.call].pc,
         \A k \in DOMAIN call[f.call].future : k # f.task =>
           k \in DOMAIN d.future /\ d.future[k] = call[f.call].future[k],
         DOMAIN stack' = Threads, DOMAIN region' = Threads,
         \A u \in Threads \ {w} : stack'[u] = stack[u] /\ region'[u] = region[u],
         \A v \in Workers \ {w} : stack[v] # <<f>>,
         UNCHANGED <<num_intraop_threads, pool>>,
         queue' \in Seq(TaskFrame), QueueInv',
         WorkerInv(w)', stack'[w] = <<>> \/ stack'[w] = <<f>>
  PROVE  ParallelInv'
<1> USE Parts
<1>0. f.call \in Calls
  BY CallFacts DEF TaskFrame
<1>1. /\ DOMAIN call' = Calls /\ call'[f.call] = d
      /\ \A x \in Calls \ {f.call} : call'[x] = call[x]
  BY <1>0, SetCallFacts
<1>2. PoolInv'
  BY <1>1 DEF PoolInv, Threads, Calls, TaskFrame
<1>3. \A id \in Calls : CallInv(call'[id])
  BY <1>1
<1>4. ASSUME NEW u \in Callers PROVE CallerInv(u)'
  <2>1. call'[<<u>>].pc = call[<<u>>].pc
    BY <1>1
  <2>2. u \in Threads \ {w}
    BY CallFacts
  <2>3. stack'[u] = stack[u] /\ region'[u] = region[u]
    BY <2>2
  <2>4. QED
    BY <2>1, <2>3 DEF CallerInv
<1>5. \A v \in Workers \ {w} : stack'[v] = stack[v] /\ region'[v] = region[v]
  BY CallFacts
<1>6. ASSUME NEW v \in Workers \ {w} PROVE WorkerInv(v)'
  <2> SUFFICES ASSUME stack[v] # <<>>
               PROVE  region'[v] /\ stack'[v] = <<Top(v)'>> /\ IsTask(Top(v), "running")'
    BY <1>5 DEF WorkerInv
  <2>1. PICK g : g = Top(v)
    OBVIOUS
  <2>2. region[v] /\ stack[v] = <<g>> /\ IsTask(g, "running") /\ Top(v)' = g /\ g # f
    BY <1>5, <2>1 DEF WorkerInv, Top
  <2>3. g \in TaskFrame
    BY <2>2 DEF IsTask
  <2>4. g.call = f.call => g.task # f.task
    BY <2>2, <2>3 DEF TaskFrame
  <2>5. g.call = f.call =>
          g.task \in DOMAIN d.future /\ d.future[g.task] = call[f.call].future[g.task]
    BY <2>2, <2>4 DEF IsTask
  <2>6. IsTask(g, "running")'
    BY <1>0, <2>2, <2>5, TaskKept
  <2>7. QED
    BY <1>5, <2>2, <2>6
<1>7. \A u, v \in Workers : stack'[u] = stack'[v] /\ stack'[u] # <<>> => u = v
  BY <1>5
<1>8. QED
  BY <1>2, <1>3, <1>4, <1>6, <1>7 DEF ParallelInv, Calls

\* A task of a call is known by its number.
LEMMA TaskFrameEq ==
  ASSUME NEW f \in TaskFrame, NEW g \in TaskFrame, f.call = g.call, f.task = g.task
  PROVE  f = g
<1>1. f = [call |-> f.call, task |-> f.task] /\ g = [call |-> g.call, task |-> g.task]
  BY DEF TaskFrame
<1>2. QED
  BY <1>1

\* A worker takes the next task.
LEMMA TakeStep ==
  ASSUME ParallelInv, NEW w \in Workers, Take(w)
  PROVE  ParallelInv'
<1> USE Parts
<1>0. PICK f : f = Head(queue)
  OBVIOUS
<1> DEFINE c == call[f.call]
           k == f.task
           d == [c EXCEPT !.future[k] = "running"]
<1>1. /\ stack[w] = <<>> /\ queue # <<>> /\ queue' = Tail(queue) /\ Push(w, f)
      /\ region' = [region EXCEPT ![w] = TRUE] /\ SetCall(f.call, d)
      /\ UNCHANGED <<num_intraop_threads, pool, sets>>
  BY <1>0 DEF Take
<1>2. 1 \in 1 .. Len(queue) /\ f = queue[1] /\ Len(queue) \in Nat
  BY <1>0, <1>1
<1>3. IsTask(f, "queued") /\ f \in TaskFrame /\ f.call \in Calls
  BY <1>2, CallFacts DEF QueueInv, IsTask, TaskFrame
<1>4. k \in DOMAIN c.future /\ c.future[k] = "queued"
  BY <1>3 DEF IsTask
<1>5. CallInv(d) /\ d.pc = c.pc /\ d.future = [c.future EXCEPT ![k] = "running"]
  BY <1>3, <1>4, TaskCall
<1> HIDE DEF d
<1>6. /\ DOMAIN d.future = DOMAIN c.future /\ d.future[k] = "running"
      /\ \A j \in DOMAIN c.future : j # k => d.future[j] = c.future[j]
  BY <1>4, <1>5
<1>7. w \in Threads /\ call'[f.call] = d
  BY <1>1, <1>3, SetCallFacts, CallFacts
<1>8. IsTask(f, "running")'
  BY <1>3, <1>4, <1>6, <1>7 DEF IsTask, TaskFrame
<1>9. /\ DOMAIN stack' = Threads /\ stack'[w] = <<f>>
      /\ \A u \in Threads \ {w} : stack'[u] = stack[u]
  <2>1. stack' = [stack EXCEPT ![w] = <<f>>]
    BY <1>1, StackFacts DEF Push
  <2>2. QED
    BY <1>7, <2>1, StackChange
<1>10. /\ DOMAIN region' = Threads /\ region'[w] = TRUE
       /\ \A u \in Threads \ {w} : region'[u] = region[u]
  BY <1>1, <1>7
<1>11. WorkerInv(w)'
  <2>1. Top(w)' = f
    BY <1>9, StackFacts DEF Top
  <2>2. QED
    BY <1>8, <1>9, <1>10, <2>1 DEF WorkerInv
<1>12. \A v \in Workers \ {w} : stack[v] # <<f>>
  <2> SUFFICES ASSUME NEW v \in Workers \ {w}, stack[v] = <<f>> PROVE FALSE
    OBVIOUS
  <2>1. Top(v) = f /\ stack[v] # <<>>
    BY StackFacts DEF Top
  <2>2. IsTask(f, "running")
    BY <2>1 DEF WorkerInv
  <2>3. QED
    BY <1>3, <2>2 DEF IsTask
<1>13. /\ queue' \in Seq(TaskFrame) /\ Len(queue') = Len(queue) - 1
       /\ \A j \in 1 .. Len(queue') : queue'[j] = queue[j + 1] /\ j + 1 \in 1 .. Len(queue)
  BY <1>1, <1>2
<1>14. QueueInv'
  <2>1. ASSUME NEW j \in 1 .. Len(queue') PROVE IsTask(queue[j], "queued")'
    <3>1. PICK g : g = queue[j + 1]
      OBVIOUS
    <3>2. IsTask(g, "queued") /\ queue'[j] = g /\ g # f
      <4>1. j + 1 \in 1 .. Len(queue) /\ j + 1 # 1 /\ queue'[j] = g
        BY <1>2, <1>13, <3>1
      <4>2. PICK p \in 1 .. Len(queue) : p = j + 1
        BY <4>1
      <4>3. IsTask(g, "queued")
        BY <3>1, <4>2 DEF QueueInv
      <4>4. queue[p] = g /\ p # 1
        BY <3>1, <4>1, <4>2
      <4>5. g # f
        BY <1>2, <4>4 DEF QueueInv
      <4>6. QED
        BY <4>1, <4>3, <4>5
    <3>3. g \in TaskFrame
      BY <3>2 DEF IsTask
    <3>4. g.call = f.call => g.task # f.task
      BY <1>3, <3>2, <3>3, TaskFrameEq
    <3>5. g.call = f.call =>
            g.task \in DOMAIN d.future /\ d.future[g.task] = call[f.call].future[g.task]
      BY <1>6, <3>2, <3>4 DEF IsTask
    <3>6. IsTask(g, "queued")'
      BY <1>1, <1>3, <3>2, <3>5, TaskKept
    <3>7. QED
      BY <3>2, <3>6
  <2>2. \A i, j \in 1 .. Len(queue') : queue'[i] = queue'[j] => i = j
    <3> SUFFICES ASSUME NEW i \in 1 .. Len(queue'), NEW j \in 1 .. Len(queue'),
                        queue'[i] = queue'[j]
                 PROVE  i = j
      OBVIOUS
    <3>1. queue[i + 1] = queue[j + 1] /\ i + 1 \in 1 .. Len(queue) /\ j + 1 \in 1 .. Len(queue)
      BY <1>13
    <3>2. i + 1 = j + 1
      BY <3>1 DEF QueueInv
    <3>3. QED
      BY <3>2
  <2>3. QED
    BY <2>1, <2>2 DEF QueueInv
<1>15. QED
  BY <1>1, <1>3, <1>5, <1>6, <1>9, <1>10, <1>11, <1>12, <1>13, <1>14, WorkerStep

\* The function returns or throws in the first task.
LEMMA EndFirstStep ==
  ASSUME ParallelInv, NEW t \in Callers, stack[t] = <<Frame(t, 0), Frame(t, -1)>>,
         Top(t).call = <<t>>, Top(t).task = 0, call[<<t>>].pc = "first", EndTask(t)
  PROVE  ParallelInv'
<1> USE Parts
<1> DEFINE c == call[<<t>>]
           start == ChunkStart(c, 0)
           end == ChunkEnd(c, 0)
           ok == ~Throws(c.work, start, end)
           told == [c EXCEPT !.pc = IF ok THEN "wait" ELSE "threw", !.next = 1]
           done == [told EXCEPT !.visits = Visit(c, start, end),
                                !.results = IF 0 \in DOMAIN @
                                            THEN [@ EXCEPT ![0] = Items(start, end)] ELSE @]
<1>1. /\ SetCall(<<t>>, IF ok THEN done ELSE told)
      /\ stack' = [stack EXCEPT ![t] = IF ~ok THEN Tail(Tail(@)) ELSE Tail(@)]
      /\ region' = [region EXCEPT ![t] = FALSE]
      /\ UNCHANGED <<num_intraop_threads, pool, queue, sets>>
  BY DEF EndTask
<1>2. Divided(c) /\ c.work.len \in Nat /\ HasFields(c)
  BY DEF CallInv, Fresh, Direct
<1>3. 0 \in 0 .. c.num_tasks - 1
  BY <1>2, ChunkFacts
<1>4. t \in Threads /\ <<t>> \in Calls
  BY CallFacts
<1>5. /\ DOMAIN region' = Threads
      /\ \A u \in Threads \ {t} : region'[u] = region[u]
  BY <1>1, <1>4
<1> HIDE DEF start, end, ok
<1>6. CASE ok
  <2>1. told = [c EXCEPT !.pc = "wait", !.next = 1]
    BY <1>6
  <2>2. /\ HasFields(told) /\ told.pc = "wait" /\ told.work = c.work /\ told.sized = c.sized
        /\ told.num_tasks = c.num_tasks /\ told.chunk_size = c.chunk_size /\ told.next = 1
        /\ told.future = c.future /\ told.results = c.results
    BY <1>2, <2>1 DEF HasFields
  <2> HIDE DEF told
  <2>3. /\ HasFields(done) /\ done.pc = "wait" /\ done.work = c.work /\ done.sized = c.sized
        /\ done.num_tasks = c.num_tasks /\ done.chunk_size = c.chunk_size /\ done.next = 1
        /\ done.future = c.future /\ done.visits = Visit(c, start, end)
        /\ done.results = IF 0 \in DOMAIN c.results
                          THEN [c.results EXCEPT ![0] = Items(start, end)] ELSE c.results
    BY <2>2 DEF HasFields
  <2>4. SetCall(<<t>>, done) /\ stack' = [stack EXCEPT ![t] = Tail(stack[t])]
    BY <1>1, <1>6
  <2> HIDE DEF done
  <2>5. CallInv(done)
    <3>1. PICK k \in 0 .. c.num_tasks - 1 : k = 0
      BY <1>3
    <3>2. /\ done.visits = Visit(c, ChunkStart(c, k), ChunkEnd(c, k))
          /\ done.results = (IF k \in DOMAIN c.results
                             THEN [c.results EXCEPT ![k] = Items(ChunkStart(c, k), ChunkEnd(c, k))]
                             ELSE c.results)
      BY <2>3, <3>1, Zenon DEF start, end
    <3>3. CallInv(c) /\ c.pc = "first"
      BY Parts
    <3>4. \/ k = 0 /\ c.pc = "first" /\ done.pc = "wait" /\ done.next = 1 /\ done.future = c.future
          \/ /\ k # 0 /\ c.future[k] = "running" /\ done.pc = c.pc /\ done.next = c.next
             /\ done.future = [c.future EXCEPT ![k] = "ok"]
      BY <2>3, <3>1, <3>3
    <3> HIDE DEF c
    <3>5. QED
      BY <1>2, <2>3, <3>2, <3>3, <3>4, TaskDone, Zenon
  <2>6. /\ DOMAIN stack' = Threads /\ stack'[t] = <<Frame(t, -1)>>
        /\ \A u \in Threads \ {t} : stack'[u] = stack[u]
    <3>1. Tail(stack[t]) = <<Frame(t, -1)>>
      BY StackFacts
    <3>2. QED
      BY <1>4, <2>4, <3>1, StackChange
  <2>7. call'[<<t>>] = done
    BY <1>4, <2>4, SetCallFacts
  <2>8. CallerInv(t)'
    BY <2>3, <2>6, <2>7 DEF CallerInv, Frame
  <2>9. QueueInv' /\ queue' \in Seq(TaskFrame)
    BY <1>1, <1>4, <2>3, <2>4, QueueKept
  <2>10. QED
    BY <1>1, <1>5, <2>3, <2>4, <2>5, <2>6, <2>8, <2>9, OwnStep DEF PoolInv
<1>7. CASE ~ok
  <2>1. told = [c EXCEPT !.pc = "threw", !.next = 1]
    BY <1>7
  <2>2. CallInv(told) /\ told.pc = "threw" /\ told.future = c.future
    <3> DEFINE e == [c EXCEPT !.pc = "threw", !.next = 1]
    <3>1. CallInv(c) /\ c.pc = "first"
      BY Parts
    <3>2. CallInv(e) /\ e.pc = "threw" /\ e.future = c.future
      <4> HIDE DEF c
      <4>1. QED
        BY <3>1, FirstThrows
    <3>3. told = e
      BY <2>1
    <3> HIDE DEF e, told, c
    <3>4. QED
      BY <3>2, <3>3
  <2> HIDE DEF told
  <2>3. SetCall(<<t>>, told) /\ stack' = [stack EXCEPT ![t] = Tail(Tail(stack[t]))]
    BY <1>1, <1>7
  <2>4. /\ DOMAIN stack' = Threads /\ stack'[t] = <<>>
        /\ \A u \in Threads \ {t} : stack'[u] = stack[u]
    <3>1. Tail(Tail(stack[t])) = <<>>
      BY StackFacts
    <3>2. QED
      BY <1>4, <2>3, <3>1, StackChange
  <2>5. call'[<<t>>] = told
    BY <1>4, <2>3, SetCallFacts
  <2>6. CallerInv(t)'
    BY <2>2, <2>4, <2>5 DEF CallerInv
  <2>7. QueueInv' /\ queue' \in Seq(TaskFrame)
    BY <1>1, <1>4, <2>2, <2>3, QueueKept
  <2>8. QED
    BY <1>1, <1>5, <2>2, <2>3, <2>4, <2>6, <2>7, OwnStep DEF PoolInv
<1>8. QED
  BY <1>6, <1>7

\* The function returns or throws in a task of a worker.
LEMMA EndWorkerStep ==
  ASSUME ParallelInv, NEW w \in Workers, stack[w] = <<Top(w)>>, IsTask(Top(w), "running"),
         EndTask(w)
  PROVE  ParallelInv'
<1> USE Parts
<1>0. PICK f : f = Top(w)
  OBVIOUS
<1>1. PICK c : c = call[f.call]
  OBVIOUS
<1>2. PICK k : k = f.task
  OBVIOUS
<1>3. /\ f \in TaskFrame /\ f.call \in Calls /\ k \in Nat \ {0}
      /\ k \in DOMAIN c.future /\ c.future[k] = "running" /\ IsTask(f, "running")
  BY <1>0, <1>1, <1>2, CallFacts DEF IsTask, TaskFrame
<1>4. CallInv(c)
  BY <1>1, <1>3
<1>5. Divided(c) /\ HasFields(c)
  BY <1>3, <1>4 DEF CallInv, Fresh, Direct
<1>6. k \in 0 .. c.num_tasks - 1
  <2>1. DOMAIN c.future = 1 .. c.num_tasks - 1 /\ c.num_tasks \in Nat
    BY <1>4, <1>5, ChunkFacts DEF CallInv
  <2>2. QED
    BY <1>3, <2>1
<1> DEFINE start == ChunkStart(c, k)
           end == ChunkEnd(c, k)
           ok == ~Throws(c.work, start, end)
           told == [c EXCEPT !.future[k] = IF ok THEN "ok" ELSE "threw"]
           done == [told EXCEPT !.visits = Visit(c, start, end),
                                !.results = IF k \in DOMAIN @
                                            THEN [@ EXCEPT ![k] = Items(start, end)] ELSE @]
<1>7. /\ SetCall(f.call, IF ok THEN done ELSE told)
      /\ stack' = [stack EXCEPT ![w] = Tail(stack[w])]
      /\ region' = [region EXCEPT ![w] = FALSE]
      /\ UNCHANGED <<num_intraop_threads, pool, queue, sets>>
  BY <1>0, <1>1, <1>2, <1>3 DEF EndTask
<1> HIDE DEF start, end, ok
<1> DEFINE state == IF ok THEN "ok" ELSE "threw"
           d == IF ok THEN done ELSE told
<1>8. CallInv(d) /\ d.pc = c.pc /\ d.future = [c.future EXCEPT ![k] = state]
  <2>1. CASE ok
    <3>1. told = [c EXCEPT !.future[k] = "ok"]
      BY <2>1
    <3>2. /\ HasFields(told) /\ told.pc = c.pc /\ told.work = c.work /\ told.sized = c.sized
          /\ told.num_tasks = c.num_tasks /\ told.chunk_size = c.chunk_size /\ told.next = c.next
          /\ told.future = [c.future EXCEPT ![k] = "ok"] /\ told.results = c.results
      BY <1>5, <3>1 DEF HasFields
    <3> HIDE DEF told
    <3>3. /\ HasFields(done) /\ done.pc = c.pc /\ done.work = c.work /\ done.sized = c.sized
          /\ done.num_tasks = c.num_tasks /\ done.chunk_size = c.chunk_size /\ done.next = c.next
          /\ done.future = [c.future EXCEPT ![k] = "ok"] /\ done.visits = Visit(c, start, end)
          /\ done.results = IF k \in DOMAIN c.results
                            THEN [c.results EXCEPT ![k] = Items(start, end)] ELSE c.results
      BY <3>2 DEF HasFields
    <3>4. d = done /\ state = "ok"
      BY <2>1
    <3> HIDE DEF done, d, state
    <3>5. /\ done.visits = Visit(c, ChunkStart(c, k), ChunkEnd(c, k))
          /\ done.results = (IF k \in DOMAIN c.results
                             THEN [c.results EXCEPT ![k] = Items(ChunkStart(c, k), ChunkEnd(c, k))]
                             ELSE c.results)
      BY <3>3, Zenon DEF start, end
    <3>6. \/ k = 0 /\ c.pc = "first" /\ done.pc = "wait" /\ done.next = 1 /\ done.future = c.future
          \/ /\ k # 0 /\ c.future[k] = "running" /\ done.pc = c.pc /\ done.next = c.next
             /\ done.future = [c.future EXCEPT ![k] = "ok"]
      BY <1>3, <3>3
    <3>7. CallInv(done)
      BY <1>4, <1>5, <1>6, <3>3, <3>5, <3>6, TaskDone, Zenon
    <3>8. QED
      BY <3>3, <3>4, <3>7
  <2>2. CASE ~ok
    <3> DEFINE e == [c EXCEPT !.future[k] = "threw"]
    <3>1. CallInv(e) /\ e.pc = c.pc /\ e.future = [c.future EXCEPT ![k] = "threw"]
      BY <1>3, <1>4, TaskCall
    <3>2. told = e /\ d = told /\ state = "threw"
      BY <2>2
    <3> HIDE DEF e, told, done, d, state
    <3>3. QED
      BY <3>1, <3>2
  <2>3. QED
    BY <2>1, <2>2
<1>9. SetCall(f.call, d)
  BY <1>7
<1>10. state \in {"ok", "threw"}
  OBVIOUS
<1> HIDE DEF d, state, told, done
<1>11. /\ DOMAIN d.future = DOMAIN c.future
       /\ \A j \in DOMAIN c.future : j # k => d.future[j] = c.future[j]
  BY <1>8
<1>12. w \in Threads
  BY CallFacts
<1>13. /\ DOMAIN stack' = Threads /\ stack'[w] = <<>>
       /\ \A u \in Threads \ {w} : stack'[u] = stack[u]
  <2>1. Tail(stack[w]) = <<>>
    BY StackFacts
  <2>2. QED
    BY <1>7, <1>12, <2>1, StackChange
<1>14. /\ DOMAIN region' = Threads
       /\ \A u \in Threads \ {w} : region'[u] = region[u]
  BY <1>7, <1>12
<1>15. WorkerInv(w)'
  BY <1>13 DEF WorkerInv
<1>16. \A v \in Workers \ {w} : stack[v] # <<f>>
  BY <1>0, StackFacts
<1>17. QueueInv' /\ queue' \in Seq(TaskFrame)
  <2>1. \A j \in DOMAIN c.future : c.future[j] = "queued" =>
          j \in DOMAIN d.future /\ d.future[j] = "queued"
    BY <1>3, <1>11
  <2>2. QED
    BY <1>1, <1>3, <1>7, <1>9, <2>1, QueueKept
<1>18. QED
  BY <1>1, <1>2, <1>3, <1>7, <1>8, <1>9, <1>11, <1>13, <1>14, <1>15, <1>16, <1>17, WorkerStep

\* Outside the calls of the threads nothing depends on call.
LEMMA OtherCalls ==
  ASSUME ParallelInv, UNCHANGED <<queue, stack, region>>, DOMAIN call' = Calls,
         \A id \in Calls : CallInv(call'[id]),
         \A t \in Callers : call'[<<t>>] = call[<<t>>],
         num_intraop_threads' \in {NOT_SET, CONSUMED} \cup (Nat \ {0}), pool' = pool
  PROVE  ParallelInv'
<1> USE Parts
<1>1. ASSUME NEW f, NEW state, IsTask(f, state) PROVE IsTask(f, state)'
  <2>1. PICK t \in Callers : f.call = <<t>>
    BY <1>1 DEF IsTask, TaskFrame
  <2>2. QED
    BY <1>1, <2>1 DEF IsTask
<1>2. PoolInv'
  BY DEF PoolInv
<1>3. QueueInv'
  <2>1. ASSUME NEW j \in 1 .. Len(queue) PROVE IsTask(queue[j], "queued")'
    <3>1. PICK f : f = queue[j]
      OBVIOUS
    <3>2. IsTask(f, "queued")
      BY <3>1 DEF QueueInv
    <3>3. QED
      BY <1>1, <3>1, <3>2
  <2>2. QED
    BY <2>1 DEF QueueInv
<1>4. ASSUME NEW t \in Callers PROVE CallerInv(t)'
  BY <1>4 DEF CallerInv
<1>5. ASSUME NEW w \in Workers, stack[w] # <<>> PROVE WorkerInv(w)'
  <2>1. PICK f : f = Top(w)
    OBVIOUS
  <2>2. region[w] /\ stack[w] = <<f>> /\ IsTask(f, "running")
    BY <1>5, <2>1 DEF WorkerInv
  <2>3. Top(w)' = f
    BY <2>1 DEF Top
  <2>4. IsTask(f, "running")'
    BY <1>1, <2>2
  <2>5. QED
    BY <2>2, <2>3, <2>4 DEF WorkerInv
<1>6. ASSUME NEW w \in Workers PROVE WorkerInv(w)'
  BY <1>5 DEF WorkerInv
<1>7. QED
  BY <1>2, <1>3, <1>4, <1>6 DEF ParallelInv

\* The function calls parallel_for: that call runs where it is, and is over.
LEMMA NestStep ==
  ASSUME ParallelInv, NEW t \in Threads, Nest(t)
  PROVE  ParallelInv'
<1> USE Parts
<1>1. PICK id : id = NestedCall(t)
  OBVIOUS
<1>2. InTask(t) /\ Begin(t, id, NestedWork) /\ UNCHANGED <<num_intraop_threads, pool, queue, region>>
  BY <1>1 DEF Nest
<1>3. NestedWork.len \in Nat /\ NestedWork.grain \in Nat \ {0}
  BY ParallelAssumption
<1>4. PICK d : /\ SetCall(id, d) /\ CallInv(d)
               /\ \/ UNCHANGED stack
                  \/ ~in_parallel_region(t)
  BY <1>2, <1>3, BeginCall
<1>5. UNCHANGED stack
  BY <1>2, <1>4, InTaskFacts
<1>6. \A u : id # <<u>>
  BY <1>1 DEF NestedCall
<1>7. /\ DOMAIN call' = Calls
      /\ \A x \in Calls : call'[x] = IF x = id THEN d ELSE call[x]
  BY <1>4 DEF SetCall
<1>8. \A x \in Calls : CallInv(call'[x])
  BY <1>4, <1>7
<1>9. \A u \in Callers : call'[<<u>>] = call[<<u>>]
  BY <1>6, <1>7
<1>10. QED
  BY <1>2, <1>5, <1>7, <1>8, <1>9, OtherCalls DEF PoolInv

\* set_num_threads.
LEMMA SetThreadsStep ==
  ASSUME ParallelInv, NEW t \in Threads, set_num_threads(t)
  PROVE  ParallelInv'
<1>1. num_intraop_threads' \in {NOT_SET, CONSUMED} \cup (Nat \ {0})
  BY Parts, ParallelAssumption DEF set_num_threads, PoolInv
<1>2. QED
  BY <1>1, Parts, OtherCalls DEF set_num_threads

\* The invariant holds at first.
LEMMA InitInv == Init => ParallelInv
<1> SUFFICES ASSUME Init PROVE ParallelInv
  OBVIOUS
<1> USE DEF Init
<1>1. PoolInv
  BY DEF PoolInv, NOT_SET
<1>2. QueueInv
  BY DEF QueueInv
<1>3. \A id \in Calls : CallInv(call[id])
  BY NoCallInv
<1>4. \A t \in Callers : CallerInv(t)
  BY CallFacts DEF CallerInv, NoCall
<1>5. \A w \in Workers : stack[w] = <<>>
  BY CallFacts
<1>6. \A w \in Workers : WorkerInv(w)
  BY <1>5 DEF WorkerInv
<1>7. QED
  BY <1>1, <1>2, <1>3, <1>4, <1>5, <1>6 DEF ParallelInv

\* Every step keeps the invariant.
LEMMA NextInv == ParallelInv /\ [Next]_vars => ParallelInv'
<1> SUFFICES ASSUME ParallelInv, [Next]_vars PROVE ParallelInv'
  OBVIOUS
<1>1. CASE UNCHANGED vars
  BY <1>1, Parts, OtherCalls DEF vars, PoolInv
<1>2. CASE Next
  <2>1. PICK t \in Threads :
          set_num_threads(t) \/ Start(t) \/ InCalls(t) \/ Take(t) \/ Nest(t) \/ EndTask(t)
    BY <1>2 DEF Next
  <2>2. CASE set_num_threads(t)
    BY <2>2, SetThreadsStep
  <2>3. CASE Start(t)
    BY <2>3, StartStep DEF Start
  <2>4. CASE InCalls(t)
    <3>1. t \in Callers /\ stack[t] = <<Frame(t, -1)>> /\ Top(t).call = <<t>>
      BY <2>4, InCallFacts DEF InCalls
    <3>2. \/ Enter(t, <<t>>) \/ Submit(t, <<t>>) \/ RunFirst(t, <<t>>)
          \/ Get(t, <<t>>) \/ Return(t, <<t>>)
      BY <2>4, <3>1 DEF InCalls
    <3>3. QED
      BY <3>1, <3>2, EnterStep, SubmitStep, RunFirstStep, GetStep, ReturnStep
  <2>5. CASE Take(t)
    <3>1. t \in Workers
      BY <2>5 DEF Take
    <3>2. QED
      BY <2>5, <3>1, TakeStep
  <2>6. CASE Nest(t)
    BY <2>6, NestStep
  <2>7. CASE EndTask(t)
    <3>1. InTask(t)
      BY <2>7 DEF EndTask
    <3>2. QED
      BY <2>7, <3>1, InTaskFacts, EndFirstStep, EndWorkerStep
  <2>8. QED
    BY <2>1, <2>2, <2>3, <2>4, <2>5, <2>6, <2>7
<1>3. QED
  BY <1>1, <1>2

\* Every call is in a consistent state, every task of the pool is in its queue
\* once or in one worker, and a nested call never enters the pool.
THEOREM Invariance == Spec => []ParallelInv
<1>1. QED
  BY InitInv, NextInv, PTL DEF Spec

\* No item is visited twice by a call, and when it returns every item has been,
\* for every length, grain and number of threads.
THEOREM EveryItemOnce == Spec => []EachOnce
<1>1. ParallelInv => EachOnce
  <2> SUFFICES ASSUME ParallelInv, NEW id \in Calls, NEW i \in DOMAIN call[id].visits
               PROVE  call[id].visits[i] \in (IF call[id].pc = "ok" THEN {1} ELSE {0, 1})
    BY DEF EachOnce
  <2>1. PICK c : c = call[id]
    OBVIOUS
  <2>2. CallInv(c) /\ i \in DOMAIN c.visits
    BY <2>1, Parts
  <2>3. CASE Fresh(c)
    BY <2>1, <2>2, <2>3 DEF Fresh, Visited
  <2>4. CASE Direct(c)
    BY <2>1, <2>2, <2>4 DEF Direct, Visited
  <2>5. CASE Divided(c)
    <3>1. i \in 0 .. c.work.len - 1 /\ c.work.len \in Nat /\ c.chunk_size \in Nat \ {0}
      BY <2>2, <2>5 DEF CallInv, Divided
    <3>2. c.visits[i] \in {0, 1}
      BY <2>5, <3>1 DEF Divided
    <3>3. ASSUME c.pc = "ok" PROVE c.visits[i] = 1
      <4> DEFINE k == i \div c.chunk_size
      <4>1. c.visits[i] = IF Done(c, k) THEN 1 ELSE 0
        BY <2>5, <3>1, <3>3 DEF Divided
      <4>2. k \in 0 .. c.num_tasks - 1
        BY <2>2, <2>5, <3>1, ChunkFacts
      <4>3. k # 0 => k \in DOMAIN c.future
        BY <2>5, <4>2 DEF Divided
      <4>4. Done(c, k)
        BY <2>5, <3>3, <4>3 DEF Divided, Done
      <4>5. QED
        BY <4>1, <4>4
    <3>4. QED
      BY <2>1, <3>2, <3>3
  <2>6. QED
    BY <2>2, <2>3, <2>4, <2>5 DEF CallInv
<1>2. QED
  BY <1>1, Invariance, PTL

\* parallel_reduce combines the results of all items in their order whenever its
\* two computations of the number of tasks agree.
THEOREM ReduceInOrder == Spec => []ReduceCorrect
<1>1. ParallelInv => ReduceCorrect
  <2> SUFFICES ASSUME ParallelInv, NEW id \in Calls, call[id].work.reduce, call[id].pc = "ok",
                      call[id].sized = call[id].num_tasks
               PROVE  call[id].result = Items(0, call[id].work.len)
    BY DEF ReduceCorrect
  <2>1. CallInv(call[id])
    BY Parts
  <2>2. QED
    BY <2>1 DEF CallInv, Fresh, Direct, Divided
<1>2. QED
  BY <1>1, Invariance, PTL

-----------------------------------------------------------------------------
(* The CSV reader.                                                         *)

\* The lines of a file, and whether its rows have the header's width.
LinesOf(f) == IF f.header = "none" THEN 0 ELSE Len(f.rows) + 1

EvenRows(f) == \A row \in 0..Len(f.rows) - 1 : f.rows[row + 1] # "uneven"

\* The members of one reader: l of life, s of in, i of index, t of total and m
\* of rowsMap.
MemberTypes(f, sel, l, s, i, t, m) ==
  /\ l \in {"none", "made", "inited", "failed", "gone"}
  /\ s \in [pos : 0..LinesOf(f), eof : BOOLEAN]
  /\ i \in 0..Max({Len(f.rows), Len(sel)})
  /\ t \in 0..Len(f.rows) \cup {Unknown}
  /\ DOMAIN m \subseteq 0..Len(f.rows)
  /\ \A k \in DOMAIN m : m[k] \in 1..LinesOf(f)
  /\ s.eof => s.pos = LinesOf(f)
  /\ l = "made" => i = 0

\* In a reader by rows.
Agree(f, s, i, t, m) ==
  /\ 0 \in DOMAIN m
  /\ i <= s.pos - 1
  /\ \A k \in DOMAIN m : k <= m[k] - 1
  /\ EvenRows(f) => /\ i = s.pos - 1
                    /\ \A k \in DOMAIN m : k = m[k] - 1
                    /\ t \in {Unknown, Len(f.rows)}

\* In a reader by columns.
Columns(f, sel, i, t) == i <= Len(sel) /\ t = Len(f.rows)

Sound(f, md, sel, l, s, i, t, m) ==
  /\ MemberTypes(f, sel, l, s, i, t, m)
  /\ l = "inited" =>
       /\ f.header = "ok"
       /\ IF md = "col" THEN Columns(f, sel, i, t) ELSE Agree(f, s, i, t, m)

\* The parts of the inductive invariant.
Settings == file \in Files /\ mode \in Mode /\ selected \in Selections

ReadersSound ==
  /\ life = [r \in Reader |-> life[r]] /\ in = [r \in Reader |-> in[r]]
  /\ index = [r \in Reader |-> index[r]] /\ total = [r \in Reader |-> total[r]]
  /\ rowsMap = [r \in Reader |-> rowsMap[r]]
  /\ \A r \in Reader :
       Sound(file, mode, selected, life[r], in[r], index[r], total[r], rowsMap[r])

\* While the first reader is not initialised there is no other.
RootFirst == life[Root] = "made" => \A s \in Reader \ {Root} : life[s] = "none"

ColumnFiles ==
  /\ cols = <<>> \/ cols \in [Feature -> 0..Rows]
  /\ dir \in BOOLEAN
  /\ mode = "col" =>
       \A r \in Reader : life[r] = "inited" => dir /\ cols = [i \in Feature |-> Rows]

OutTyped == out \in [by : Reader, res : {"true", "false", "throw"}]

CsvInv ==
  Settings /\ ReadersSound /\ RootFirst /\ ColumnFiles /\ OutTyped /\ NextFalseIsEof

-----------------------------------------------------------------------------
(* Numbers.                                                                *)

\* A set of numbers that is bounded, and not empty, has a greatest element.
LEMMA Greatest ==
  ASSUME NEW c \in Nat, NEW T \in SUBSET (0 .. c), T # {}
  PROVE  \E x \in T : \A y \in T : x >= y
<1> DEFINE U == {c - x : x \in T}
<1>1. U \in SUBSET Nat /\ U # {}
  <2>1. \A x \in T : c - x \in Nat
    OBVIOUS
  <2>2. PICK x : x \in T
    OBVIOUS
  <2>3. c - x \in U
    BY <2>2
  <2>4. QED
    BY <2>1, <2>3
<1>2. PICK u \in U : \A v \in U : u <= v
  BY <1>1, Least
<1>3. PICK x \in T : u = c - x
  OBVIOUS
<1>4. \A y \in T : c - y \in U
  OBVIOUS
<1> HIDE DEF U
<1>5. \A y \in T : x >= y
  BY <1>2, <1>3, <1>4
<1>6. QED
  BY <1>5

\* Min and Max choose from the set.
LEMMA MinIn ==
  ASSUME NEW T \in SUBSET Nat, T # {}
  PROVE  Min(T) \in T
  BY Least DEF Min

LEMMA MaxIn ==
  ASSUME NEW c \in Nat, NEW T \in SUBSET (0 .. c), T # {}
  PROVE  Max(T) \in T
  BY Greatest DEF Max

\* Of two numbers.
LEMMA MinOf ==
  ASSUME NEW a \in Int, NEW b \in Int
  PROVE  Min({a, b}) = IF a <= b THEN a ELSE b
  BY DEF Min

LEMMA MaxOf ==
  ASSUME NEW a \in Int, NEW b \in Int
  PROVE  Max({a, b}) = IF a <= b THEN b ELSE a
  BY DEF Max

\* The range up to the smaller of two numbers.
LEMMA RangeSize ==
  ASSUME NEW a \in Int, NEW b \in Int
  PROVE  /\ Cardinality(a .. b) = IF a > b THEN 0 ELSE b - a + 1
         /\ a .. b = {} <=> a > b
  BY FS_Interval

-----------------------------------------------------------------------------
(* One reader.                                                             *)

\* Sequences have a length.
LEMMA FileFacts ==
  ASSUME Settings
  PROVE  /\ Len(file.rows) \in Nat /\ Len(selected) \in Nat /\ file.newline \in BOOLEAN
         /\ Rows = Len(file.rows) /\ Lines = LinesOf(file) /\ Lines \in Nat
         /\ file.header \in HeaderKind /\ EvenFile = EvenRows(file)
         /\ file.header = "ok" => Lines = Rows + 1
<1>1. /\ file \in [header : HeaderKind, rows : Seq(RowKind), newline : BOOLEAN]
      /\ selected \in Seq(FeatureKind)
  BY CsvAssumption DEF Settings
<1>2. file.rows \in Seq(RowKind) /\ file.newline \in BOOLEAN /\ file.header \in HeaderKind
  BY <1>1
<1>3. Len(file.rows) \in Nat /\ Len(selected) \in Nat
  BY <1>1, <1>2
<1>4. EvenFile = EvenRows(file)
  BY DEF EvenFile, EvenRows, Uneven, Rows
<1>5. QED
  BY <1>2, <1>3, <1>4 DEF Rows, Lines, LinesOf

\* A stream of file f at position p.
StreamAt(f, s, p) ==
  /\ s \in [pos : 0..LinesOf(f), eof : BOOLEAN]
  /\ s.pos = p
  /\ s.eof => p = LinesOf(f)

\* Where reading, seeking and the end of the file leave a stream.
LEMMA StreamFacts ==
  ASSUME Settings, NEW p \in 0 .. Lines, NEW n \in Nat
  PROVE  /\ StreamAt(file, ReadLines(p, n), IF p + n <= Lines THEN p + n ELSE Lines)
         /\ p + n <= Lines => StreamAt(file, AfterLines(p, n), p + n)
         /\ StreamAt(file, AtEof, Lines)
         /\ StreamAt(file, Seekg(p), p)
<1>1. Lines \in Nat /\ Lines = LinesOf(file)
  BY FileFacts
<1>2. ASSUME p + n <= Lines
      PROVE  StreamAt(file, AfterLines(p, n), p + n)
  <2> DEFINE b == n > 0 /\ p + n = Lines /\ ~file.newline
  <2>1. b \in BOOLEAN /\ (b => p + n = LinesOf(file)) /\ p + n \in 0 .. LinesOf(file)
    BY <1>1, <1>2
  <2>2. AfterLines(p, n) = [pos |-> p + n, eof |-> b]
    BY DEF AfterLines
  <2> HIDE DEF b
  <2>3. QED
    BY <2>1, <2>2 DEF StreamAt
<1>3. StreamAt(file, AtEof, Lines)
  BY <1>1 DEF StreamAt, AtEof
<1>4. StreamAt(file, Seekg(p), p)
  BY <1>1 DEF StreamAt, Seekg
<1>5. QED
  BY <1>2, <1>3, <1>4 DEF ReadLines

\* The map of a reader by rows.
MapSound(f, m) ==
  /\ 0 \in DOMAIN m
  /\ \A k \in DOMAIN m :
       /\ k \in 0 .. Len(f.rows) /\ m[k] \in 1 .. LinesOf(f) /\ k <= m[k] - 1
       /\ EvenRows(f) => k = m[k] - 1

\* An entry is added behind the others or not at all.
LEMMA MapUpdated ==
  ASSUME NEW f, Len(f.rows) \in Nat, f.header = "ok", NEW m, MapSound(f, m),
         NEW j \in Nat, NEW p \in 1 .. LinesOf(f), j <= p - 1, EvenRows(f) => j = p - 1
  PROVE  MapSound(f, UpdateRowMap(m, j, p))
<1>1. LinesOf(f) = Len(f.rows) + 1
  BY DEF LinesOf
<1>2. CASE \E k \in DOMAIN m : k >= j
  BY <1>2 DEF UpdateRowMap
<1>3. CASE ~ \E k \in DOMAIN m : k >= j
  <2> DEFINE w == [k \in DOMAIN m \cup {j} |-> IF k = j THEN p ELSE m[k]]
  <2>1. UpdateRowMap(m, j, p) = w
    BY <1>3 DEF UpdateRowMap
  <2>2. DOMAIN w = DOMAIN m \cup {j}
    OBVIOUS
  <2>3. \A k \in DOMAIN m \cup {j} : w[k] = IF k = j THEN p ELSE m[k]
    OBVIOUS
  <2> HIDE DEF w
  <2>4. QED
    BY <1>1, <2>1, <2>2, <2>3 DEF MapSound
<1>4. QED
  BY <1>2, <1>3

\* The map that a scan over all lines leaves.
LEMMA MapCounted ==
  ASSUME Settings, file.header = "ok"
  PROVE  MapSound(file, CountLinesMap)
<1>1. BatchSize \in Nat /\ BatchSize > 0
  BY CsvAssumption
<1>2. 0 % BatchSize = 0
  BY <1>1
<1>3. /\ DOMAIN CountLinesMap = {i \in 0..Rows : i % BatchSize = 0}
      /\ \A k \in DOMAIN CountLinesMap : CountLinesMap[k] = k + 1
  BY DEF CountLinesMap
<1>4. Rows \in Nat /\ Rows = Len(file.rows) /\ LinesOf(file) = Rows + 1
  BY FileFacts
<1>5. QED
  BY <1>2, <1>3, <1>4 DEF MapSound

\* What a reader by rows needs.
LEMMA RowSound ==
  ASSUME NEW f, Len(f.rows) \in Nat, f.header = "ok", NEW sel, Len(sel) \in Nat,
         NEW md, md # "col", NEW s, NEW i, NEW t, NEW m,
         StreamAt(f, s, s.pos), MapSound(f, m), i \in Nat, i <= s.pos - 1,
         t \in 0 .. Len(f.rows) \cup {Unknown},
         EvenRows(f) => i = s.pos - 1 /\ t \in {Unknown, Len(f.rows)}
  PROVE  Sound(f, md, sel, "inited", s, i, t, m)
<1>1. LinesOf(f) = Len(f.rows) + 1
  BY DEF LinesOf
<1>2. s.pos \in 0 .. LinesOf(f)
  BY DEF StreamAt
<1>3. i \in 0 .. Max({Len(f.rows), Len(sel)})
  <2>1. PICK a \in Nat, b \in Nat : a = Len(f.rows) /\ b = Len(sel)
    OBVIOUS
  <2>2. i \in 0 .. a
    BY <1>1, <1>2, <2>1
  <2>3. Max({a, b}) \in Nat /\ a <= Max({a, b})
    BY MaxOf
  <2>4. i \in 0 .. Max({a, b})
    BY <2>2, <2>3
  <2>5. QED
    BY <2>1, <2>4, Zenon
<1>4. MemberTypes(f, sel, "inited", s, i, t, m)
  BY <1>3 DEF MemberTypes, StreamAt, MapSound
<1>5. Agree(f, s, i, t, m)
  BY DEF Agree, MapSound
<1>6. QED
  BY <1>4, <1>5 DEF Sound

\* And what it has.
LEMMA RowHas ==
  ASSUME NEW f, NEW sel, NEW md, md # "col", NEW s, NEW i, NEW t, NEW m,
         Sound(f, md, sel, "inited", s, i, t, m), Len(f.rows) \in Nat, Len(sel) \in Nat
  PROVE  /\ f.header = "ok" /\ StreamAt(f, s, s.pos) /\ MapSound(f, m)
         /\ i \in Nat /\ i <= s.pos - 1 /\ t \in 0 .. Len(f.rows) \cup {Unknown}
         /\ EvenRows(f) => i = s.pos - 1 /\ t \in {Unknown, Len(f.rows)}
<1>1. MemberTypes(f, sel, "inited", s, i, t, m) /\ Agree(f, s, i, t, m) /\ f.header = "ok"
  BY DEF Sound
<1>2. i \in Nat
  BY <1>1, MaxOf DEF MemberTypes
<1>3. StreamAt(f, s, s.pos)
  BY <1>1 DEF MemberTypes, StreamAt
<1>4. MapSound(f, m)
  BY <1>1 DEF MemberTypes, Agree, MapSound
<1>5. QED
  BY <1>1, <1>2, <1>3, <1>4 DEF MemberTypes, Agree

\* A batch of n rows.
LEMMA BatchSound ==
  ASSUME NEW f, NEW sel, NEW md, NEW s, NEW i, NEW t, NEW m, NEW n \in Nat, NEW q,
         md # "col", Sound(f, md, sel, "inited", s, i, t, m),
         Len(f.rows) \in Nat, Len(sel) \in Nat,
         StreamAt(f, q, IF s.pos + n <= LinesOf(f) THEN s.pos + n ELSE LinesOf(f))
  PROVE  LET c == q.pos - s.pos
         IN  Sound(f, md, sel, "inited", q, i + c, IF q.eof THEN i + c ELSE t,
                   IF c = n THEN UpdateRowMap(m, i + c, q.pos) ELSE m)
<1> DEFINE c == q.pos - s.pos
           u == IF q.eof THEN i + c ELSE t
           w == IF c = n THEN UpdateRowMap(m, i + c, q.pos) ELSE m
<1>1. /\ f.header = "ok" /\ StreamAt(f, s, s.pos) /\ MapSound(f, m)
      /\ i \in Nat /\ i <= s.pos - 1 /\ t \in 0 .. Len(f.rows) \cup {Unknown}
      /\ EvenRows(f) => i = s.pos - 1 /\ t \in {Unknown, Len(f.rows)}
  BY RowHas
<1>2. LinesOf(f) = Len(f.rows) + 1 /\ s.pos \in 0 .. LinesOf(f)
  BY <1>1 DEF LinesOf, StreamAt
<1>3. /\ q.pos = IF s.pos + n <= LinesOf(f) THEN s.pos + n ELSE LinesOf(f)
      /\ StreamAt(f, q, q.pos) /\ q.eof \in BOOLEAN /\ (q.eof => q.pos = LinesOf(f))
  BY DEF StreamAt
<1>4. /\ c \in Nat /\ q.pos \in 1 .. LinesOf(f) /\ i + c \in Nat /\ i + c <= q.pos - 1
      /\ EvenRows(f) => i + c = q.pos - 1
  <2>1. LinesOf(f) \in Nat /\ s.pos \in Nat /\ s.pos >= 1 /\ s.pos <= LinesOf(f)
    BY <1>1, <1>2
  <2>2. q.pos \in Nat /\ q.pos >= s.pos /\ q.pos <= LinesOf(f)
    BY <1>3, <2>1
  <2>3. PICK p \in Nat, o \in Nat, l \in Nat : p = q.pos /\ o = s.pos /\ l = LinesOf(f)
    BY <2>1, <2>2
  <2>4. o >= 1 /\ p >= o /\ p <= l /\ i \in Nat /\ i <= o - 1 /\ (EvenRows(f) => i = o - 1)
    BY <1>1, <2>1, <2>2, <2>3
  <2>5. /\ p - o \in Nat /\ p \in 1 .. l /\ i + (p - o) \in Nat /\ i + (p - o) <= p - 1
        /\ EvenRows(f) => i + (p - o) = p - 1
    BY <2>4
  <2>6. QED
    BY <2>3, <2>5, Zenon
<1>5. u \in 0 .. Len(f.rows) \cup {Unknown} /\ (EvenRows(f) => u \in {Unknown, Len(f.rows)})
  <2> HIDE DEF c
  <2>1. CASE q.eof
    <3>1. PICK p \in Nat, k \in Nat : p = q.pos /\ k = i + c
      BY <1>2, <1>3, <1>4
    <3>2. p = Len(f.rows) + 1 /\ k <= p - 1 /\ (EvenRows(f) => k = p - 1)
      BY <1>2, <1>3, <1>4, <2>1, <3>1
    <3>3. k \in 0 .. Len(f.rows) /\ (EvenRows(f) => k = Len(f.rows))
      BY <3>2
    <3>4. u = k
      BY <2>1, <3>1
    <3>5. QED
      BY <3>3, <3>4
  <2>2. CASE ~q.eof
    BY <1>1, <2>2
  <2>3. QED
    BY <2>1, <2>2
<1>6. MapSound(f, w)
  <2> HIDE DEF c
  <2>1. CASE c = n
    <3> DEFINE y == UpdateRowMap(m, i + c, q.pos)
    <3>1. MapSound(f, y)
      BY <1>1, <1>4, MapUpdated
    <3> HIDE DEF y
    <3>2. w = y
      BY <2>1 DEF y
    <3>3. QED
      BY <3>1, <3>2, Zenon
  <2>2. CASE c # n
    BY <1>1, <2>2, Zenon
  <2>3. QED
    BY <2>1, <2>2, Zenon
<1> HIDE DEF c, u, w
<1>7. Sound(f, md, sel, "inited", q, i + c, u, w)
  BY <1>1, <1>3, <1>4, <1>5, <1>6, RowSound
<1>8. QED
  BY <1>7 DEF c, u, w

\* A batch that stops at a row that does not fit, d rows of it being counted.
LEMMA ThrowSound ==
  ASSUME NEW f, NEW sel, NEW md, NEW s, NEW i, NEW t, NEW m, NEW d \in Nat, NEW q,
         md # "col", Sound(f, md, sel, "inited", s, i, t, m),
         Len(f.rows) \in Nat, Len(sel) \in Nat,
         StreamAt(f, q, q.pos), d <= q.pos - s.pos, EvenRows(f) => d = q.pos - s.pos
  PROVE  Sound(f, md, sel, "inited", q, i + d, t, m)
<1>1. /\ f.header = "ok" /\ StreamAt(f, s, s.pos) /\ MapSound(f, m)
      /\ i \in Nat /\ i <= s.pos - 1 /\ t \in 0 .. Len(f.rows) \cup {Unknown}
      /\ EvenRows(f) => i = s.pos - 1 /\ t \in {Unknown, Len(f.rows)}
  BY RowHas
<1>2. LinesOf(f) \in Nat
  BY <1>1 DEF LinesOf
<1>3. s.pos \in Nat /\ q.pos \in Nat
  BY <1>1, <1>2 DEF StreamAt
<1>4. i + d \in Nat /\ i + d <= q.pos - 1 /\ (EvenRows(f) => i + d = q.pos - 1)
  BY <1>1, <1>3
<1>5. QED
  BY <1>1, <1>4, RowSound

\* A seek to row j from the known row k.
LEMMA SeekSound ==
  ASSUME NEW f, NEW sel, NEW md, NEW s, NEW i, NEW t, NEW m, NEW j \in Nat, NEW k \in Nat, NEW q,
         md # "col", Sound(f, md, sel, "inited", s, i, t, m),
         Len(f.rows) \in Nat, Len(sel) \in Nat, k \in DOMAIN m, k <= j,
         StreamAt(f, q, IF m[k] + (j - k) <= LinesOf(f) THEN m[k] + (j - k) ELSE LinesOf(f))
  PROVE  Sound(f, md, sel, "inited", q, Min({j, k + LinesOf(f) - m[k]}), t, m)
<1> DEFINE x == Min({j, k + LinesOf(f) - m[k]})
<1>1. /\ f.header = "ok" /\ MapSound(f, m) /\ t \in 0 .. Len(f.rows) \cup {Unknown}
      /\ EvenRows(f) => t \in {Unknown, Len(f.rows)}
  BY RowHas
<1>2. LinesOf(f) \in Nat
  BY <1>1 DEF LinesOf
<1>3. m[k] \in Nat /\ m[k] <= LinesOf(f) /\ k <= m[k] - 1 /\ (EvenRows(f) => k = m[k] - 1)
  BY <1>1, <1>2 DEF MapSound
<1>4. q.pos = (IF m[k] + (j - k) <= LinesOf(f) THEN m[k] + (j - k) ELSE LinesOf(f))
  BY DEF StreamAt
<1>5. StreamAt(f, q, q.pos)
  BY DEF StreamAt
<1>6. x = IF j <= k + LinesOf(f) - m[k] THEN j ELSE k + LinesOf(f) - m[k]
  BY <1>2, <1>3, MinOf
<1> HIDE DEF x
<1>7. x \in Nat /\ x <= q.pos - 1 /\ (EvenRows(f) => x = q.pos - 1)
  BY <1>2, <1>3, <1>4, <1>6
<1>8. Sound(f, md, sel, "inited", q, x, t, m)
  BY <1>1, <1>5, <1>7, RowSound
<1>9. QED
  BY <1>8 DEF x

\* A copy whose stream is at the same position.
LEMMA CopySound ==
  ASSUME NEW f, NEW md, NEW sel, NEW s, NEW i, NEW t, NEW m, NEW q,
         Sound(f, md, sel, "inited", s, i, t, m), StreamAt(f, q, s.pos)
  PROVE  Sound(f, md, sel, "inited", q, i, t, m)
<1>1. q.pos = s.pos /\ q \in [pos : 0..LinesOf(f), eof : BOOLEAN] /\ (q.eof => q.pos = LinesOf(f))
  BY DEF StreamAt
<1>2. MemberTypes(f, sel, "inited", q, i, t, m)
  BY <1>1 DEF Sound, MemberTypes
<1>3. QED
  BY <1>1, <1>2 DEF Sound, Agree

\* A reader by columns at column i.
LEMMA ColSound ==
  ASSUME NEW f, NEW sel, NEW s, NEW t, NEW m, NEW i \in Nat, NEW l, NEW j, NEW u,
         Sound(f, "col", sel, l, s, j, u, m), f.header = "ok", NEW q, StreamAt(f, q, q.pos),
         Len(f.rows) \in Nat, Len(sel) \in Nat, i <= Len(sel), t = Len(f.rows)
  PROVE  Sound(f, "col", sel, "inited", q, i, t, m)
<1>1. i \in 0 .. Max({Len(f.rows), Len(sel)})
  BY MaxOf
<1>2. MemberTypes(f, sel, "inited", q, i, t, m)
  BY <1>1 DEF Sound, MemberTypes, StreamAt
<1>3. QED
  BY <1>2 DEF Sound, Columns

\* A reader that is not initialised.
LEMMA IdleSound ==
  ASSUME NEW f, NEW md, NEW sel, NEW l \in {"none", "made", "failed", "gone"},
         NEW q, StreamAt(f, q, q.pos), Len(f.rows) \in Nat, Len(sel) \in Nat,
         NEW t \in 0 .. Len(f.rows) \cup {Unknown},
         NEW m, DOMAIN m \subseteq 0 .. Len(f.rows), \A k \in DOMAIN m : m[k] \in 1 .. LinesOf(f)
  PROVE  Sound(f, md, sel, l, q, 0, t, m)
<1>1. 0 \in 0 .. Max({Len(f.rows), Len(sel)})
  BY MaxOf
<1>2. MemberTypes(f, sel, l, q, 0, t, m)
  BY <1>1 DEF MemberTypes, StreamAt
<1>3. QED
  BY <1>2 DEF Sound

-----------------------------------------------------------------------------
(* All readers.                                                            *)

\* g is f but for r.
Changed(r, f, g) == g = f \/ \E v : g = [f EXCEPT ![r] = v]

LEMMA ChangedFacts ==
  ASSUME NEW r \in Reader, NEW f, NEW g, f = [x \in Reader |-> f[x]], Changed(r, f, g)
  PROVE  g = [x \in Reader |-> g[x]] /\ \A x \in Reader \ {r} : g[x] = f[x]
  BY DEF Changed

\* A step that changes the members of one reader.
LEMMA OneReader ==
  ASSUME ReadersSound, UNCHANGED options, NEW r \in Reader,
         Changed(r, life, life'), Changed(r, in, in'), Changed(r, index, index'),
         Changed(r, total, total'), Changed(r, rowsMap, rowsMap'),
         Sound(file, mode, selected, life'[r], in'[r], index'[r], total'[r], rowsMap'[r])
  PROVE  ReadersSound' /\ \A x \in Reader \ {r} : life'[x] = life[x]
<1>1. file' = file /\ mode' = mode /\ selected' = selected
  BY DEF options
<1>2. /\ life' = [x \in Reader |-> life'[x]] /\ in' = [x \in Reader |-> in'[x]]
      /\ index' = [x \in Reader |-> index'[x]] /\ total' = [x \in Reader |-> total'[x]]
      /\ rowsMap' = [x \in Reader |-> rowsMap'[x]]
  BY ChangedFacts DEF ReadersSound
<1>3. \A x \in Reader \ {r} :
        /\ life'[x] = life[x] /\ in'[x] = in[x] /\ index'[x] = index[x]
        /\ total'[x] = total[x] /\ rowsMap'[x] = rowsMap[x]
  BY ChangedFacts DEF ReadersSound
<1>4. \A x \in Reader :
        Sound(file', mode', selected', life'[x], in'[x], index'[x], total'[x], rowsMap'[x])
  BY <1>1, <1>3 DEF ReadersSound
<1>5. QED
  BY <1>2, <1>3, <1>4 DEF ReadersSound

\* Where NextFalseIsEof puts a reader.
AtEnd(f, md, sel, s, i) == IF md = "col" THEN i = Len(sel) ELSE s.pos = LinesOf(f)

\* A call on an initialised reader that does not touch the files.
LEMMA CallStep ==
  ASSUME CsvInv, UNCHANGED <<options, life, cols, dir>>, NEW r \in Reader, NEW res,
         life[r] = "inited", Changed(r, in, in'), Changed(r, index, index'),
         Changed(r, total, total'), Changed(r, rowsMap, rowsMap'),
         Sound(file, mode, selected, "inited", in'[r], index'[r], total'[r], rowsMap'[r]),
         out' = Outcome(r, res), res \in {"true", "false", "throw"},
         res = "false" => AtEnd(file, mode, selected, in'[r], index'[r])
  PROVE  CsvInv'
<1>1. file' = file /\ mode' = mode /\ selected' = selected
  BY DEF options
<1>2. Changed(r, life, life')
  BY DEF Changed
<1>3. ReadersSound'
  BY <1>2, OneReader DEF CsvInv
<1>4. Settings' /\ RootFirst' /\ ColumnFiles'
  BY <1>1 DEF CsvInv, Settings, RootFirst, ColumnFiles, Feature, Rows
<1>5. OutTyped' /\ out'.by = r /\ out'.res = res
  BY DEF OutTyped, Outcome
<1>6. Lines = LinesOf(file) /\ Lines' = Lines
  BY <1>1 DEF Lines, LinesOf, Rows
<1>7. NextFalseIsEof'
  BY <1>1, <1>5, <1>6 DEF NextFalseIsEof, AtEnd
<1>8. QED
  BY <1>3, <1>4, <1>5, <1>7 DEF CsvInv

\* What an initialised reader by rows has.
LEMMA RowReader ==
  ASSUME CsvInv, NEW r \in Reader, life[r] = "inited", mode # "col"
  PROVE  /\ Sound(file, mode, selected, "inited", in[r], index[r], total[r], rowsMap[r])
         /\ Lines \in Nat /\ Lines = Rows + 1 /\ Rows \in Nat /\ Lines = LinesOf(file)
         /\ Rows = Len(file.rows) /\ Len(selected) \in Nat /\ EvenFile = EvenRows(file)
         /\ in[r].pos \in 1 .. Lines /\ index[r] \in Nat
         /\ (in[r].eof => in[r].pos = Lines)
         /\ MapSound(file, rowsMap[r])
<1>1. Sound(file, mode, selected, "inited", in[r], index[r], total[r], rowsMap[r])
  BY DEF CsvInv, ReadersSound
<1>2. /\ Lines \in Nat /\ Rows = Len(file.rows) /\ Len(selected) \in Nat /\ Rows \in Nat
      /\ EvenFile = EvenRows(file) /\ Lines = LinesOf(file)
      /\ file.header = "ok" => Lines = Rows + 1
  BY FileFacts DEF CsvInv
<1>3. /\ file.header = "ok" /\ StreamAt(file, in[r], in[r].pos) /\ MapSound(file, rowsMap[r])
      /\ index[r] \in Nat /\ index[r] <= in[r].pos - 1
  BY <1>1, <1>2, RowHas
<1>4. in[r].pos \in 0 .. Lines /\ (in[r].eof => in[r].pos = Lines)
  BY <1>2, <1>3 DEF StreamAt
<1>5. in[r].pos \in 1 .. Lines
  BY <1>2, <1>3, <1>4
<1>6. QED
  BY <1>1, <1>2, <1>3, <1>4, <1>5

\* The rows that a batch comes to.
LEMMA AheadFacts ==
  ASSUME NEW r, Lines \in Nat, in[r].pos \in 1 .. Lines, NEW n \in Nat
  PROVE  /\ Cardinality(Ahead(r, n)) =
              (IF in[r].pos + n <= Lines THEN in[r].pos + n ELSE Lines) - in[r].pos
         /\ \A row \in Ahead(r, n) :
              row \in Nat /\ row >= in[r].pos - 1 /\ row + 2 <= Lines
<1> DEFINE p == in[r].pos
           e == IF p + n <= Lines THEN p + n ELSE Lines
<1>1. p \in Nat /\ p >= 1 /\ p <= Lines
  OBVIOUS
<1> HIDE DEF p
<1>2. Min({p + n, Lines}) = e
  BY <1>1, MinOf
<1>3. Ahead(r, n) = p - 1 .. e - 2
  BY <1>2 DEF Ahead, p
<1>4. e \in Nat /\ e >= p /\ e <= Lines
  BY <1>1
<1> HIDE DEF e
<1>5. Cardinality(p - 1 .. e - 2) = e - p
  <2>1. p - 1 \in Int /\ e - 2 \in Int
    BY <1>1, <1>4
  <2>2. Cardinality(p - 1 .. e - 2) = IF p - 1 > e - 2 THEN 0 ELSE e - 2 - (p - 1) + 1
    BY <2>1, RangeSize
  <2>3. QED
    BY <1>1, <1>4, <2>2
<1>6. \A row \in p - 1 .. e - 2 : row \in Nat /\ row >= p - 1 /\ row + 2 <= Lines
  BY <1>1, <1>4
<1>7. QED
  BY <1>3, <1>5, <1>6 DEF p, e

-----------------------------------------------------------------------------
(* The steps of a reader by rows.                                          *)

\* At the end of the stream nothing changes.
LEMMA NextRowAtEofStep ==
  ASSUME CsvInv, NEW r \in Reader, life[r] = "inited", mode # "col", NextRowAtEof(r)
  PROVE  CsvInv'
<1>1. /\ Sound(file, mode, selected, "inited", in[r], index[r], total[r], rowsMap[r])
      /\ in[r].pos = Lines /\ Lines = LinesOf(file)
  BY RowReader DEF NextRowAtEof
<1>2. /\ Changed(r, in, in') /\ Changed(r, index, index') /\ Changed(r, total, total')
      /\ Changed(r, rowsMap, rowsMap') /\ in' = in /\ index' = index
      /\ total' = total /\ rowsMap' = rowsMap
  BY DEF Changed, NextRowAtEof
<1>3. AtEnd(file, mode, selected, in'[r], index'[r])
  BY <1>1, <1>2 DEF AtEnd
<1>4. UNCHANGED <<options, life, cols, dir>> /\ out' = Outcome(r, "false")
  BY DEF NextRowAtEof
<1>5. QED
  BY <1>1, <1>2, <1>3, <1>4, CallStep

\* A batch that fits: the rows it comes to are the lines that the stream moves by.
LEMMA NextRowBatchStep ==
  ASSUME CsvInv, NEW r \in Reader, life[r] = "inited", mode # "col",
         NEW n \in Nat \ {0}, NextRowBatch(r, n)
  PROVE  CsvInv'
<1> DEFINE count == Cardinality(Ahead(r, n))
           q == ReadLines(in[r].pos, n)
           t == IF q.eof THEN index[r] + count ELSE total[r]
           m == IF count = n THEN UpdateRowMap(rowsMap[r], index[r] + count, q.pos)
                ELSE rowsMap[r]
           res == IF count # 0 THEN "true" ELSE "false"
<1>1. /\ Sound(file, mode, selected, "inited", in[r], index[r], total[r], rowsMap[r])
      /\ Lines \in Nat /\ Lines = LinesOf(file) /\ in[r].pos \in 1 .. Lines
      /\ Len(file.rows) \in Nat /\ Len(selected) \in Nat
  BY RowReader
<1>2. /\ in = [x \in Reader |-> in[x]] /\ index = [x \in Reader |-> index[x]]
      /\ total = [x \in Reader |-> total[x]] /\ rowsMap = [x \in Reader |-> rowsMap[x]]
  BY DEF CsvInv, ReadersSound
<1>3. /\ in' = [in EXCEPT ![r] = q] /\ in'[r] = q
      /\ index' = [index EXCEPT ![r] = index[r] + count] /\ index'[r] = index[r] + count
  BY <1>2 DEF NextRowBatch
<1>4. total' = [total EXCEPT ![r] = t] /\ rowsMap' = [rowsMap EXCEPT ![r] = m]
  BY <1>2, <1>3 DEF NextRowBatch
<1>5. total'[r] = t /\ rowsMap'[r] = m
  BY <1>2, <1>4
<1>6. out' = Outcome(r, res) /\ UNCHANGED <<options, life, cols, dir>>
  BY DEF NextRowBatch
<1>7. /\ Changed(r, in, in') /\ Changed(r, index, index') /\ Changed(r, total, total')
      /\ Changed(r, rowsMap, rowsMap')
  BY <1>3, <1>4 DEF Changed
<1>8. StreamAt(file, q, IF in[r].pos + n <= LinesOf(file) THEN in[r].pos + n ELSE LinesOf(file))
  <2>1. Settings /\ Lines = LinesOf(file)
    BY <1>1 DEF CsvInv
  <2>2. PICK p \in 0 .. Lines : p = in[r].pos
    BY <1>1
  <2>3. PICK k \in Nat : k = n
    OBVIOUS
  <2>4. StreamAt(file, ReadLines(p, k), IF p + k <= Lines THEN p + k ELSE Lines)
    BY <2>1, StreamFacts
  <2>5. QED
    BY <2>1, <2>2, <2>3, <2>4, Zenon
<1>9. count = (IF in[r].pos + n <= Lines THEN in[r].pos + n ELSE Lines) - in[r].pos
  BY <1>1, AheadFacts
<1> HIDE DEF count, q
<1>10. q.pos = (IF in[r].pos + n <= Lines THEN in[r].pos + n ELSE Lines)
  BY <1>1, <1>8 DEF StreamAt
<1>11. count = q.pos - in[r].pos
  BY <1>9, <1>10
<1>12. Sound(file, mode, selected, "inited", q, index[r] + count, t, m)
  <2>1. LET c == q.pos - in[r].pos
        IN  Sound(file, mode, selected, "inited", q, index[r] + c,
                  IF q.eof THEN index[r] + c ELSE total[r],
                  IF c = n THEN UpdateRowMap(rowsMap[r], index[r] + c, q.pos) ELSE rowsMap[r])
    BY <1>1, <1>8, BatchSound
  <2>2. QED
    BY <1>11, <2>1
<1>13. res = "false" => q.pos = LinesOf(file)
  BY <1>1, <1>9, <1>10
<1>14. res \in {"true", "false", "throw"}
  OBVIOUS
<1> HIDE DEF t, m, res
<1>15. res = "false" => AtEnd(file, mode, selected, in'[r], index'[r])
  BY <1>3, <1>13 DEF AtEnd
<1>16. Sound(file, mode, selected, "inited", in'[r], index'[r], total'[r], rowsMap'[r])
  BY <1>3, <1>5, <1>12
<1>17. QED
  BY <1>6, <1>7, <1>14, <1>15, <1>16, CallStep

\* A batch with a row that does not fit: that row is one of those ahead.
LEMMA NextRowThrowsStep ==
  ASSUME CsvInv, NEW r \in Reader, life[r] = "inited", mode # "col",
         NEW n \in Nat \ {0}, NextRowThrows(r, n)
  PROVE  CsvInv'
<1> DEFINE row == Min(Misfits(r, n))
           lines == row + 2 - in[r].pos
           q == AfterLines(in[r].pos, lines)
           d == Counted(row, lines)
<1>1. /\ Sound(file, mode, selected, "inited", in[r], index[r], total[r], rowsMap[r])
      /\ Lines \in Nat /\ Lines = LinesOf(file) /\ in[r].pos \in 1 .. Lines
      /\ Len(file.rows) \in Nat /\ Len(selected) \in Nat /\ EvenFile = EvenRows(file)
      /\ Lines = Rows + 1 /\ Rows \in Nat
  BY RowReader
<1>2. in = [x \in Reader |-> in[x]] /\ index = [x \in Reader |-> index[x]]
  BY DEF CsvInv, ReadersSound
<1>3. /\ in' = [in EXCEPT ![r] = q] /\ in'[r] = q
      /\ index' = [index EXCEPT ![r] = index[r] + d] /\ index'[r] = index[r] + d
      /\ total' = total /\ rowsMap' = rowsMap
  BY <1>2 DEF NextRowThrows
<1>4. out' = Outcome(r, "throw") /\ UNCHANGED <<options, life, cols, dir>>
  BY DEF NextRowThrows
<1>5. /\ Changed(r, in, in') /\ Changed(r, index, index') /\ Changed(r, total, total')
      /\ Changed(r, rowsMap, rowsMap')
  BY <1>3 DEF Changed
<1>6. row \in Nat /\ row >= in[r].pos - 1 /\ row + 2 <= Lines
  <2>1. \A x \in Ahead(r, n) : x \in Nat /\ x >= in[r].pos - 1 /\ x + 2 <= Lines
    BY <1>1, AheadFacts
  <2>2. Misfits(r, n) \subseteq Ahead(r, n) /\ Misfits(r, n) # {}
    BY DEF NextRowThrows, Misfits
  <2>3. Misfits(r, n) \in SUBSET Nat
    BY <2>1, <2>2
  <2>4. row \in Misfits(r, n)
    BY <2>2, <2>3, MinIn
  <2>5. QED
    BY <2>1, <2>2, <2>4
<1> HIDE DEF row
<1>7. lines \in Nat /\ lines >= 1 /\ in[r].pos + lines <= Lines
  <2>1. PICK p \in Nat : p = in[r].pos
    BY <1>1
  <2>2. row \in Nat /\ row >= p - 1 /\ row + 2 <= Lines /\ Lines \in Nat
    BY <1>1, <1>6, <2>1
  <2>3. row + 2 - p \in Nat /\ row + 2 - p >= 1 /\ p + (row + 2 - p) <= Lines
    BY <2>2
  <2>4. QED
    BY <2>1, <2>3
<1>8. EvenRows(file) => ~Uneven(row)
  <2>1. row \in 0 .. Rows - 1
    BY <1>1, <1>6
  <2>2. QED
    BY <1>1, <2>1 DEF EvenFile
<1> HIDE DEF lines
<1>9. d \in Nat /\ d <= lines /\ (EvenRows(file) => d = lines)
  BY <1>7, <1>8 DEF Counted
<1>10. StreamAt(file, q, in[r].pos + lines)
  <2>1. Settings
    BY DEF CsvInv
  <2>2. PICK p \in 0 .. Lines : p = in[r].pos
    BY <1>1
  <2>3. PICK k \in Nat : k = lines
    BY <1>7
  <2>4. p + k <= Lines
    BY <1>7, <2>2, <2>3
  <2>5. StreamAt(file, AfterLines(p, k), p + k)
    BY <2>1, <2>4, StreamFacts
  <2>6. QED
    BY <2>2, <2>3, <2>5, Zenon
<1> HIDE DEF q, d
<1>11. q.pos = in[r].pos + lines /\ StreamAt(file, q, q.pos)
  BY <1>10 DEF StreamAt
<1>12. d <= q.pos - in[r].pos /\ (EvenRows(file) => d = q.pos - in[r].pos)
  BY <1>1, <1>7, <1>9, <1>11
<1>13. Sound(file, mode, selected, "inited", q, index[r] + d, total[r], rowsMap[r])
  BY <1>1, <1>9, <1>11, <1>12, ThrowSound
<1>14. Sound(file, mode, selected, "inited", in'[r], index'[r], total'[r], rowsMap'[r])
  BY <1>3, <1>13
<1>15. QED
  BY <1>4, <1>5, <1>14, CallStep

\* A seek by rows: row 0 is known, so that there is a known row to start from.
LEMMA SeekRowStep ==
  ASSUME CsvInv, NEW r \in Reader, life[r] = "inited", NEW i \in Nat, SeekRow(r, i)
  PROVE  CsvInv'
<1> DEFINE k == KnownRow(r, i)
           q == SeekStream(r, rowsMap[r][k], i - k)
           j == Min({i, k + Lines - rowsMap[r][k]})
           res == IF j = i THEN "true" ELSE "throw"
<1>1. /\ Sound(file, mode, selected, "inited", in[r], index[r], total[r], rowsMap[r])
      /\ Lines \in Nat /\ Lines = LinesOf(file) /\ MapSound(file, rowsMap[r])
      /\ Len(file.rows) \in Nat /\ Len(selected) \in Nat /\ mode # "col"
  BY RowReader DEF SeekRow
<1>2. in = [x \in Reader |-> in[x]] /\ index = [x \in Reader |-> index[x]]
  BY DEF CsvInv, ReadersSound
<1>3. /\ in' = [in EXCEPT ![r] = q] /\ in'[r] = q
      /\ index' = [index EXCEPT ![r] = j] /\ index'[r] = j
      /\ total' = total /\ rowsMap' = rowsMap
  BY <1>2 DEF SeekRow
<1>4. out' = Outcome(r, res) /\ UNCHANGED <<options, life, cols, dir>>
  BY <1>3 DEF SeekRow
<1>5. /\ Changed(r, in, in') /\ Changed(r, index, index') /\ Changed(r, total, total')
      /\ Changed(r, rowsMap, rowsMap')
  BY <1>3 DEF Changed
<1>6. k \in DOMAIN rowsMap[r] /\ k \in Nat /\ k <= i
  <2> DEFINE T == {x \in DOMAIN rowsMap[r] : x <= i}
  <2>1. 0 \in T /\ T \in SUBSET (0 .. Len(file.rows))
    BY <1>1 DEF MapSound
  <2>2. k = Max(T)
    BY DEF KnownRow
  <2> HIDE DEF T, k
  <2>3. k \in T
    BY <1>1, <2>1, <2>2, MaxIn
  <2>4. QED
    BY <1>1, <2>1, <2>3 DEF T
<1> HIDE DEF k
<1>7. rowsMap[r][k] \in 0 .. Lines
  BY <1>1, <1>6 DEF MapSound
<1>8. i - k \in Nat
  BY <1>6
<1>9. StreamAt(file, q, IF rowsMap[r][k] + (i - k) <= LinesOf(file)
                        THEN rowsMap[r][k] + (i - k) ELSE LinesOf(file))
  BY <1>1, <1>7, <1>8, StreamFacts DEF CsvInv, SeekStream
<1> HIDE DEF q
<1>10. Sound(file, mode, selected, "inited", q, j, total[r], rowsMap[r])
  <2>1. j = Min({i, k + LinesOf(file) - rowsMap[r][k]})
    BY <1>1
  <2> HIDE DEF j
  <2>2. Sound(file, mode, selected, "inited", q, Min({i, k + LinesOf(file) - rowsMap[r][k]}),
              total[r], rowsMap[r])
    BY <1>1, <1>6, <1>9, SeekSound
  <2>3. QED
    BY <2>1, <2>2
<1> HIDE DEF j
<1>11. res \in {"true", "false", "throw"} /\ res # "false"
  OBVIOUS
<1> HIDE DEF res
<1>12. Sound(file, mode, selected, "inited", in'[r], index'[r], total'[r], rowsMap'[r])
  BY <1>3, <1>10
<1>13. QED
  BY <1>4, <1>5, <1>11, <1>12, CallStep

-----------------------------------------------------------------------------
(* The steps of a reader by columns.                                       *)

\* What an initialised reader by columns has.
LEMMA ColReader ==
  ASSUME CsvInv, NEW r \in Reader, life[r] = "inited", mode = "col"
  PROVE  /\ Sound(file, "col", selected, "inited", in[r], index[r], total[r], rowsMap[r])
         /\ index[r] \in Nat /\ index[r] <= Len(selected) /\ total[r] = Len(file.rows)
         /\ Len(file.rows) \in Nat /\ Len(selected) \in Nat /\ file.header = "ok"
         /\ StreamAt(file, in[r], in[r].pos)
         /\ dir /\ cols = [i \in Feature |-> Rows]
<1>1. Sound(file, "col", selected, "inited", in[r], index[r], total[r], rowsMap[r])
  BY DEF CsvInv, ReadersSound
<1>2. Len(file.rows) \in Nat /\ Len(selected) \in Nat
  BY FileFacts DEF CsvInv
<1>3. /\ file.header = "ok" /\ Columns(file, selected, index[r], total[r])
      /\ MemberTypes(file, selected, "inited", in[r], index[r], total[r], rowsMap[r])
  BY <1>1 DEF Sound
<1>4. index[r] \in Nat /\ StreamAt(file, in[r], in[r].pos)
  BY <1>2, <1>3, MaxOf DEF MemberTypes, StreamAt
<1>5. dir /\ cols = [i \in Feature |-> Rows]
  BY DEF CsvInv, ColumnFiles
<1>6. QED
  BY <1>1, <1>2, <1>3, <1>4, <1>5 DEF Columns

\* A call that moves a reader by columns to column j.
LEMMA ColCallStep ==
  ASSUME CsvInv, NEW r \in Reader, life[r] = "inited", mode = "col", NEW j \in Nat, NEW res,
         UNCHANGED <<options, life, in, total, rowsMap, cols, dir>>,
         index' = [index EXCEPT ![r] = j], j <= Len(selected), out' = Outcome(r, res),
         res \in {"true", "false", "throw"}, res = "false" => j = Len(selected)
  PROVE  CsvInv'
<1>1. /\ Sound(file, "col", selected, "inited", in[r], index[r], total[r], rowsMap[r])
      /\ total[r] = Len(file.rows) /\ StreamAt(file, in[r], in[r].pos)
      /\ Len(file.rows) \in Nat /\ Len(selected) \in Nat /\ file.header = "ok"
  BY ColReader
<1>2. Sound(file, "col", selected, "inited", in[r], j, total[r], rowsMap[r])
  BY <1>1, ColSound
<1>3. index'[r] = j
  BY DEF CsvInv, ReadersSound
<1>4. /\ Changed(r, in, in') /\ Changed(r, index, index') /\ Changed(r, total, total')
      /\ Changed(r, rowsMap, rowsMap')
  BY DEF Changed
<1>5. Sound(file, mode, selected, "inited", in'[r], index'[r], total'[r], rowsMap'[r])
  BY <1>2, <1>3
<1>6. res = "false" => AtEnd(file, mode, selected, in'[r], index'[r])
  BY <1>3 DEF AtEnd
<1>7. QED
  BY <1>4, <1>5, <1>6, CallStep

\* A call for n columns.
LEMMA NextColStep ==
  ASSUME CsvInv, NEW r \in Reader, life[r] = "inited", mode = "col",
         NEW n \in Nat \ {0}, NextCol(r, n)
  PROVE  CsvInv'
<1> DEFINE A == ColsAhead(r, n)
           e == IF index[r] + n <= Len(selected) THEN index[r] + n ELSE Len(selected)
           broken == {i \in A : ~Mappable(r, i)}
<1>1. index[r] \in Nat /\ index[r] <= Len(selected) /\ Len(selected) \in Nat
  BY ColReader
<1>2. A = index[r] + 1 .. e
  BY <1>1, MinOf DEF ColsAhead
<1>3. e \in Nat /\ e >= index[r] /\ e <= Len(selected) /\ (e = index[r] => e = Len(selected))
  BY <1>1
<1>4. UNCHANGED <<options, life, in, total, rowsMap, cols, dir>>
  BY DEF NextCol
<1> HIDE DEF e
<1>5. Cardinality(A) = e - index[r] /\ (A = {} <=> e = index[r])
  <2>1. index[r] + 1 \in Int /\ e \in Int
    BY <1>1, <1>3
  <2>2. /\ Cardinality(index[r] + 1 .. e) = IF index[r] + 1 > e THEN 0 ELSE e - (index[r] + 1) + 1
        /\ index[r] + 1 .. e = {} <=> index[r] + 1 > e
    BY <2>1, RangeSize
  <2>3. QED
    BY <1>1, <1>2, <1>3, <2>2
<1>6. CASE broken = {}
  <2> DEFINE res == IF A # {} THEN "true" ELSE "false"
  <2>1. index' = [index EXCEPT ![r] = index[r] + Cardinality(A)] /\ out' = Outcome(r, res)
    BY <1>6 DEF NextCol
  <2>2. index[r] + Cardinality(A) = e
    BY <1>1, <1>3, <1>5
  <2>3. res \in {"true", "false", "throw"} /\ (res = "false" => e = Len(selected))
    BY <1>3, <1>5
  <2> HIDE DEF res, A
  <2>4. index' = [index EXCEPT ![r] = e]
    BY <2>1, <2>2
  <2>5. QED
    BY <1>3, <1>4, <2>1, <2>3, <2>4, ColCallStep
<1>7. CASE broken # {}
  <2>1. index' = [index EXCEPT ![r] = Min(broken)] /\ out' = Outcome(r, "throw")
    BY <1>7 DEF NextCol
  <2>2. broken \subseteq A
    OBVIOUS
  <2> HIDE DEF broken, A
  <2>3. broken \in SUBSET Nat /\ \A i \in broken : i <= Len(selected)
    BY <1>1, <1>2, <1>3, <2>2
  <2>4. Min(broken) \in broken
    BY <1>7, <2>3, MinIn
  <2>5. Min(broken) \in Nat /\ Min(broken) <= Len(selected)
    BY <2>3, <2>4
  <2>6. QED
    BY <1>4, <2>1, <2>5, ColCallStep
<1>8. QED
  BY <1>6, <1>7

\* A seek by columns.
LEMMA SeekColStep ==
  ASSUME CsvInv, NEW r \in Reader, life[r] = "inited", NEW i \in Nat, SeekCol(r, i)
  PROVE  CsvInv'
<1>1. /\ mode = "col" /\ i < Len(selected) /\ index' = [index EXCEPT ![r] = i]
      /\ UNCHANGED <<options, life, in, total, rowsMap, cols, dir>> /\ out' = Outcome(r, "true")
  BY DEF SeekCol
<1>2. Len(selected) \in Nat
  BY <1>1, ColReader
<1>3. i <= Len(selected)
  BY <1>1, <1>2
<1>4. QED
  BY <1>1, <1>3, ColCallStep

\* A seek that is refused leaves a reader of either kind where it was.
LEMMA SeekRefusedStep ==
  ASSUME CsvInv, NEW r \in Reader, life[r] = "inited", NEW i \in Nat, SeekRefused(r, i)
  PROVE  CsvInv'
<1>1. UNCHANGED <<options, life, in, index, total, rowsMap, cols, dir>> /\ out' = Outcome(r, "throw")
  BY DEF SeekRefused
<1>2. /\ Changed(r, in, in') /\ Changed(r, index, index') /\ Changed(r, total, total')
      /\ Changed(r, rowsMap, rowsMap')
  BY <1>1 DEF Changed
<1>3. Sound(file, mode, selected, "inited", in[r], index[r], total[r], rowsMap[r])
  BY DEF CsvInv, ReadersSound
<1>4. QED
  BY <1>1, <1>2, <1>3, CallStep

-----------------------------------------------------------------------------
(* Init, Spawn and the destructor.                                         *)

\* A step that makes, or unmakes, one reader.
LEMMA LifeStep ==
  ASSUME CsvInv, UNCHANGED options, NEW r \in Reader, NEW by \in Reader, NEW res \in {"true", "throw"},
         Changed(r, life, life'), Changed(r, in, in'), Changed(r, index, index'),
         Changed(r, total, total'), Changed(r, rowsMap, rowsMap'),
         Sound(file, mode, selected, life'[r], in'[r], index'[r], total'[r], rowsMap'[r]),
         RootFirst', ColumnFiles', out' = Outcome(by, res)
  PROVE  CsvInv'
<1>1. ReadersSound'
  BY OneReader DEF CsvInv
<1>2. Settings'
  BY DEF CsvInv, Settings, options
<1>3. OutTyped' /\ NextFalseIsEof'
  BY DEF OutTyped, NextFalseIsEof, Outcome
<1>4. QED
  BY <1>1, <1>2, <1>3 DEF CsvInv

\* The first reader before its Init: there is no other, and nothing is set.
LEMMA MadeFacts ==
  ASSUME CsvInv, life[Root] = "made"
  PROVE  /\ index[Root] = 0 /\ \A s \in Reader \ {Root} : life[s] = "none"
         /\ StreamAt(file, in[Root], in[Root].pos)
         /\ total[Root] \in 0 .. Len(file.rows) \cup {Unknown}
         /\ DOMAIN rowsMap[Root] \subseteq 0 .. Len(file.rows)
         /\ \A k \in DOMAIN rowsMap[Root] : rowsMap[Root][k] \in 1 .. LinesOf(file)
<1>1. Sound(file, mode, selected, "made", in[Root], index[Root], total[Root], rowsMap[Root])
  BY CsvAssumption DEF CsvInv, ReadersSound
<1>2. MemberTypes(file, selected, "made", in[Root], index[Root], total[Root], rowsMap[Root])
  BY <1>1 DEF Sound
<1>3. StreamAt(file, in[Root], in[Root].pos)
  BY <1>2 DEF MemberTypes, StreamAt
<1>4. \A s \in Reader \ {Root} : life[s] = "none"
  BY DEF CsvInv, RootFirst
<1>5. QED
  BY <1>2, <1>3, <1>4 DEF MemberTypes

\* An Init that throws.
LEMMA InitThrowsStep ==
  ASSUME CsvInv, life[Root] = "made", InitThrows, dir' \in BOOLEAN
  PROVE  CsvInv'
<1>1. /\ life' = [life EXCEPT ![Root] = "failed"] /\ out' = Outcome(Root, "throw")
      /\ UNCHANGED <<options, in, index, total, rowsMap, cols>>
  BY DEF InitThrows
<1>2. Root \in Reader
  BY CsvAssumption
<1>3. life'[Root] = "failed" /\ \A x \in Reader \ {Root} : life'[x] = "none"
  BY <1>1, <1>2, MadeFacts DEF CsvInv, ReadersSound
<1>4. /\ Changed(Root, life, life') /\ Changed(Root, in, in') /\ Changed(Root, index, index')
      /\ Changed(Root, total, total') /\ Changed(Root, rowsMap, rowsMap')
  BY <1>1 DEF Changed
<1>5. Len(file.rows) \in Nat /\ Len(selected) \in Nat
  BY FileFacts DEF CsvInv
<1>6. Sound(file, mode, selected, "failed", in[Root], 0, total[Root], rowsMap[Root])
  BY <1>5, MadeFacts, IdleSound
<1>7. Sound(file, mode, selected, life'[Root], in'[Root], index'[Root], total'[Root], rowsMap'[Root])
  BY <1>1, <1>3, <1>6, MadeFacts
<1>8. RootFirst'
  BY <1>3 DEF RootFirst
<1>9. \A x \in Reader : life'[x] # "inited"
  BY <1>3
<1>10. ColumnFiles'
  BY <1>1, <1>9 DEF CsvInv, ColumnFiles, Feature, Rows, options
<1>11. QED
  BY <1>1, <1>2, <1>4, <1>7, <1>8, <1>10, LifeStep

\* Init of a reader by rows.
LEMMA InitRowStep ==
  ASSUME CsvInv, InitRow
  PROVE  CsvInv'
<1> DEFINE m == IF mode = "count" THEN CountLinesMap ELSE UpdateRowMap(<<>>, 0, 1)
           t == IF mode = "count" THEN Rows ELSE Unknown
           q == IF t = 0 THEN AtEof ELSE Seekg(1)
           res == IF t = 0 THEN "throw" ELSE "true"
<1>1. /\ life[Root] = "made" /\ file.header = "ok" /\ mode # "col"
      /\ life' = [life EXCEPT ![Root] = "inited"] /\ UNCHANGED <<options, index, cols, dir>>
  BY DEF InitRow
<1>2. Root \in Reader
  BY CsvAssumption
<1>3. /\ life = [x \in Reader |-> life[x]] /\ in = [x \in Reader |-> in[x]]
      /\ total = [x \in Reader |-> total[x]] /\ rowsMap = [x \in Reader |-> rowsMap[x]]
  BY DEF CsvInv, ReadersSound
<1>4. /\ rowsMap' = [rowsMap EXCEPT ![Root] = m] /\ rowsMap'[Root] = m
      /\ total' = [total EXCEPT ![Root] = t] /\ total'[Root] = t
  BY <1>2, <1>3 DEF InitRow
<1>5. in' = [in EXCEPT ![Root] = q] /\ in'[Root] = q /\ out' = Outcome(Root, res)
  BY <1>2, <1>3, <1>4 DEF InitRow
<1>6. /\ Changed(Root, life, life') /\ Changed(Root, in, in') /\ Changed(Root, index, index')
      /\ Changed(Root, total, total') /\ Changed(Root, rowsMap, rowsMap')
  BY <1>1, <1>4, <1>5 DEF Changed
<1>7. /\ Len(file.rows) \in Nat /\ Len(selected) \in Nat /\ Rows = Len(file.rows)
      /\ Lines = LinesOf(file) /\ Lines \in Nat /\ Lines = Rows + 1
  BY <1>1, FileFacts DEF CsvInv
<1>8. MapSound(file, m)
  <2>1. CASE mode = "count"
    BY <1>1, <2>1, MapCounted DEF CsvInv
  <2>2. CASE mode # "count"
    <3> DEFINE w == [k \in {0} |-> 1]
    <3>1. UpdateRowMap(<<>>, 0, 1) = w
      BY DEF UpdateRowMap
    <3>2. DOMAIN w = {0} /\ w[0] = 1
      OBVIOUS
    <3>3. m = w
      BY <2>2, <3>1
    <3> HIDE DEF w, m
    <3>4. QED
      BY <1>7, <3>2, <3>3 DEF MapSound
  <2>3. QED
    BY <2>1, <2>2
<1>9. StreamAt(file, AtEof, Lines) /\ StreamAt(file, Seekg(1), 1)
  BY <1>7, StreamFacts DEF CsvInv
<1>10. t \in 0 .. Len(file.rows) \cup {Unknown} /\ t \in {Unknown, Len(file.rows)}
  BY <1>7
<1>11. q.pos = 1 /\ StreamAt(file, q, q.pos)
  <2>1. CASE t = 0
    BY <1>7, <1>9, <2>1 DEF StreamAt, Unknown
  <2>2. CASE t # 0
    BY <1>9, <2>2 DEF StreamAt
  <2>3. QED
    BY <2>1, <2>2
<1>12. res \in {"true", "throw"}
  OBVIOUS
<1> HIDE DEF m, t, q, res
<1>13. index[Root] = 0
  BY <1>1, MadeFacts
<1>14. 0 <= q.pos - 1 /\ 0 = q.pos - 1
  BY <1>11
<1>15. Sound(file, mode, selected, "inited", q, 0, t, m)
  BY <1>1, <1>7, <1>8, <1>10, <1>11, <1>14, RowSound
<1>16. life'[Root] = "inited" /\ index'[Root] = 0
  BY <1>1, <1>2, <1>3, <1>13
<1>17. Sound(file, mode, selected, life'[Root], in'[Root], index'[Root], total'[Root], rowsMap'[Root])
  BY <1>4, <1>5, <1>15, <1>16
<1>18. RootFirst'
  BY <1>16 DEF RootFirst
<1>19. ColumnFiles'
  BY <1>1 DEF CsvInv, ColumnFiles, Feature, Rows, options
<1>20. QED
  BY <1>1, <1>2, <1>5, <1>6, <1>12, <1>17, <1>18, <1>19, LifeStep

\* Init of a reader by columns that comes to the end: all files are written in
\* full.
LEMMA InitColDone ==
  ASSUME CsvInv, life[Root] = "made", file.header = "ok", mode = "col", dir' = TRUE,
         BuildMmapFiles({}), life' = [life EXCEPT ![Root] = "inited"],
         total' = [total EXCEPT ![Root] = Rows], in' = [in EXCEPT ![Root] = AtEof],
         out' = Outcome(Root, "true"), UNCHANGED <<options, index, rowsMap>>
  PROVE  CsvInv'
<1>1. Root \in Reader
  BY CsvAssumption
<1>2. /\ life = [x \in Reader |-> life[x]] /\ in = [x \in Reader |-> in[x]]
      /\ total = [x \in Reader |-> total[x]]
  BY DEF CsvInv, ReadersSound
<1>3. life'[Root] = "inited" /\ in'[Root] = AtEof /\ total'[Root] = Rows
  BY <1>1, <1>2
<1>4. /\ Changed(Root, life, life') /\ Changed(Root, in, in') /\ Changed(Root, index, index')
      /\ Changed(Root, total, total') /\ Changed(Root, rowsMap, rowsMap')
  BY DEF Changed
<1>5. /\ Len(file.rows) \in Nat /\ Len(selected) \in Nat /\ Rows = Len(file.rows)
      /\ Lines = LinesOf(file) /\ Lines \in Nat
  BY FileFacts DEF CsvInv
<1>6. StreamAt(file, AtEof, AtEof.pos)
  <2>1. StreamAt(file, AtEof, Lines)
    BY <1>5, StreamFacts DEF CsvInv
  <2>2. QED
    BY <2>1 DEF AtEof
<1>7. Sound(file, "col", selected, "made", in[Root], index[Root], total[Root], rowsMap[Root])
  BY <1>1 DEF CsvInv, ReadersSound
<1>8. 0 <= Len(selected) /\ index[Root] = 0
  BY <1>5, MadeFacts
<1>9. Sound(file, "col", selected, "inited", AtEof, 0, Rows, rowsMap[Root])
  BY <1>5, <1>6, <1>7, <1>8, ColSound
<1>10. Sound(file, mode, selected, life'[Root], in'[Root], index'[Root], total'[Root], rowsMap'[Root])
  BY <1>3, <1>8, <1>9
<1>11. RootFirst'
  BY <1>3 DEF RootFirst
<1>12. cols' = [i \in Feature |-> Rows] /\ Feature' = Feature /\ Rows' = Rows
  BY DEF BuildMmapFiles, Feature, Rows, options
<1>13. cols' \in [Feature -> 0 .. Rows]
  BY <1>5, <1>12
<1>14. ColumnFiles'
  BY <1>12, <1>13 DEF ColumnFiles
<1>15. QED
  BY <1>1, <1>4, <1>10, <1>11, <1>14, LifeStep

\* Init of a reader by columns.
LEMMA InitColStep ==
  ASSUME CsvInv, InitCol
  PROVE  CsvInv'
<1>1. life[Root] = "made" /\ file.header = "ok" /\ mode = "col" /\ dir' = TRUE
  BY DEF InitCol
<1>2. CASE InitThrows
  BY <1>1, <1>2, InitThrowsStep
<1>3. CASE ~InitThrows
  BY <1>1, <1>3, InitColDone DEF InitCol
<1>4. QED
  BY <1>2, <1>3

\* A file that was not written in full is not read.
LEMMA InitColShortStep ==
  ASSUME CsvInv, InitColShort
  PROVE  CsvInv'
<1>1. /\ life[Root] = "made" /\ dir' = TRUE /\ Rows > 0
      /\ life' = [life EXCEPT ![Root] = "failed"] /\ total' = [total EXCEPT ![Root] = Rows]
      /\ in' = [in EXCEPT ![Root] = AtEof] /\ out' = Outcome(Root, "throw")
      /\ UNCHANGED <<options, index, rowsMap>>
  BY DEF InitColShort
<1>2. PICK short \in SUBSET Feature : BuildMmapFiles(short)
  BY DEF InitColShort
<1>3. Root \in Reader
  BY CsvAssumption
<1>4. /\ life = [x \in Reader |-> life[x]] /\ in = [x \in Reader |-> in[x]]
      /\ total = [x \in Reader |-> total[x]]
  BY DEF CsvInv, ReadersSound
<1>5. /\ life'[Root] = "failed" /\ in'[Root] = AtEof /\ total'[Root] = Rows
      /\ \A x \in Reader \ {Root} : life'[x] = "none"
  BY <1>1, <1>3, <1>4, MadeFacts
<1>6. /\ Changed(Root, life, life') /\ Changed(Root, in, in') /\ Changed(Root, index, index')
      /\ Changed(Root, total, total') /\ Changed(Root, rowsMap, rowsMap')
  BY <1>1 DEF Changed
<1>7. /\ Len(file.rows) \in Nat /\ Len(selected) \in Nat /\ Rows = Len(file.rows)
      /\ Lines = LinesOf(file) /\ Lines \in Nat
  BY FileFacts DEF CsvInv
<1>8. StreamAt(file, AtEof, AtEof.pos)
  <2>1. StreamAt(file, AtEof, Lines)
    BY <1>7, StreamFacts DEF CsvInv
  <2>2. QED
    BY <2>1 DEF AtEof
<1>9. Rows \in 0 .. Len(file.rows) \cup {Unknown}
  BY <1>7
<1>10. Sound(file, mode, selected, "failed", AtEof, 0, Rows, rowsMap[Root])
  BY <1>1, <1>7, <1>8, <1>9, MadeFacts, IdleSound
<1>11. Sound(file, mode, selected, life'[Root], in'[Root], index'[Root], total'[Root], rowsMap'[Root])
  BY <1>1, <1>5, <1>10, MadeFacts
<1>12. RootFirst'
  BY <1>5 DEF RootFirst
<1>13. /\ cols' = [i \in Feature |-> IF i \in short THEN Rows - 1 ELSE Rows]
       /\ Feature' = Feature /\ Rows' = Rows
  BY <1>1, <1>2 DEF BuildMmapFiles, Feature, Rows, options
<1>14. cols' \in [Feature -> 0 .. Rows]
  <2>1. Rows - 1 \in 0 .. Rows /\ Rows \in 0 .. Rows
    BY <1>1, <1>7
  <2>2. QED
    BY <1>13, <2>1
<1>15. \A x \in Reader : life'[x] # "inited"
  BY <1>5
<1>16. ColumnFiles'
  BY <1>1, <1>13, <1>14, <1>15 DEF ColumnFiles
<1>17. QED
  BY <1>1, <1>3, <1>6, <1>11, <1>12, <1>16, LifeStep

\* Spawn: the files of a reader that is initialised are there for its copy.
LEMMA SpawnStep ==
  ASSUME CsvInv, NEW r \in Reader, NEW s \in Reader, Spawn(r, s)
  PROVE  CsvInv'
<1>1. /\ life[r] = "inited" /\ life[s] = "none" /\ life' = [life EXCEPT ![s] = "inited"]
      /\ in' = [in EXCEPT ![s] = Seekg(in[r].pos)] /\ index' = [index EXCEPT ![s] = index[r]]
      /\ total' = [total EXCEPT ![s] = total[r]] /\ rowsMap' = [rowsMap EXCEPT ![s] = rowsMap[r]]
      /\ out' = Outcome(r, "true") /\ UNCHANGED <<options, cols, dir>>
  BY DEF Spawn, SpawnStream
<1>2. /\ life = [x \in Reader |-> life[x]] /\ in = [x \in Reader |-> in[x]]
      /\ index = [x \in Reader |-> index[x]] /\ total = [x \in Reader |-> total[x]]
      /\ rowsMap = [x \in Reader |-> rowsMap[x]]
  BY DEF CsvInv, ReadersSound
<1>3. /\ life'[s] = "inited" /\ in'[s] = Seekg(in[r].pos) /\ index'[s] = index[r]
      /\ total'[s] = total[r] /\ rowsMap'[s] = rowsMap[r]
      /\ \A x \in Reader \ {s} : life'[x] = life[x]
  BY <1>1, <1>2
<1>4. /\ Changed(s, life, life') /\ Changed(s, in, in') /\ Changed(s, index, index')
      /\ Changed(s, total, total') /\ Changed(s, rowsMap, rowsMap')
  BY <1>1 DEF Changed
<1>5. Sound(file, mode, selected, "inited", in[r], index[r], total[r], rowsMap[r])
  BY <1>1 DEF CsvInv, ReadersSound
<1>6. in[r].pos \in 0 .. Lines
  <2>1. Lines = LinesOf(file)
    BY FileFacts DEF CsvInv
  <2>2. QED
    BY <1>5, <2>1 DEF Sound, MemberTypes
<1>7. StreamAt(file, Seekg(in[r].pos), in[r].pos)
  BY <1>6, StreamFacts DEF CsvInv
<1>8. Sound(file, mode, selected, life'[s], in'[s], index'[s], total'[s], rowsMap'[s])
  BY <1>3, <1>5, <1>7, CopySound
<1>9. RootFirst'
  BY <1>1, <1>3 DEF CsvInv, RootFirst
<1>10. ColumnFiles'
  BY <1>1, <1>3 DEF CsvInv, ColumnFiles, Feature, Rows, options
<1>11. QED
  BY <1>1, <1>4, <1>8, <1>9, <1>10, LifeStep

\* The destructor: while a reader is initialised, no other is the last one.
LEMMA DestroyStep ==
  ASSUME CsvInv, NEW r \in Reader, DestroyReader(r)
  PROVE  CsvInv'
<1>1. /\ life[r] \in {"made", "inited", "failed"} /\ life' = [life EXCEPT ![r] = "gone"]
      /\ in' = [in EXCEPT ![r] = Seekg(0)] /\ index' = [index EXCEPT ![r] = 0]
      /\ total' = [total EXCEPT ![r] = Unknown] /\ rowsMap' = [rowsMap EXCEPT ![r] = <<>>]
      /\ out' = Outcome(r, "true") /\ UNCHANGED <<options, cols>> /\ dir' = (dir /\ ~LastOne(r))
  BY DEF DestroyReader
<1>2. /\ life = [x \in Reader |-> life[x]] /\ in = [x \in Reader |-> in[x]]
      /\ index = [x \in Reader |-> index[x]] /\ total = [x \in Reader |-> total[x]]
      /\ rowsMap = [x \in Reader |-> rowsMap[x]]
  BY DEF CsvInv, ReadersSound
<1>3. /\ life'[r] = "gone" /\ in'[r] = Seekg(0) /\ index'[r] = 0
      /\ total'[r] = Unknown /\ rowsMap'[r] = <<>>
      /\ \A x \in Reader \ {r} : life'[x] = life[x]
  BY <1>1, <1>2
<1>4. /\ Changed(r, life, life') /\ Changed(r, in, in') /\ Changed(r, index, index')
      /\ Changed(r, total, total') /\ Changed(r, rowsMap, rowsMap')
  BY <1>1 DEF Changed
<1>5. Len(file.rows) \in Nat /\ Len(selected) \in Nat /\ Lines \in Nat
  BY FileFacts DEF CsvInv
<1>6. StreamAt(file, Seekg(0), Seekg(0).pos)
  <2>1. StreamAt(file, Seekg(0), 0)
    BY <1>5, StreamFacts DEF CsvInv
  <2>2. QED
    BY <2>1 DEF Seekg
<1>7. DOMAIN <<>> = {}
  OBVIOUS
<1>8. Sound(file, mode, selected, "gone", Seekg(0), 0, Unknown, <<>>)
  <2>1. PICK e : e = <<>>
    OBVIOUS
  <2>2. Unknown \in 0 .. Len(file.rows) \cup {Unknown} /\ DOMAIN e = {}
    BY <1>7, <2>1
  <2>3. Sound(file, mode, selected, "gone", Seekg(0), 0, Unknown, e)
    BY <1>5, <1>6, <2>2, IdleSound
  <2>4. QED
    BY <2>1, <2>3
<1>9. Sound(file, mode, selected, life'[r], in'[r], index'[r], total'[r], rowsMap'[r])
  BY <1>3, <1>8
<1>10. RootFirst'
  BY <1>1, <1>3, CsvAssumption DEF CsvInv, RootFirst
<1>11. file' = file /\ mode' = mode /\ selected' = selected /\ cols' = cols
  BY <1>1 DEF options
<1>12. \A x \in Reader : life'[x] = "inited" => life[x] = "inited" /\ (dir => dir')
  <2> SUFFICES ASSUME NEW x \in Reader, life'[x] = "inited" 
               PROVE  life[x] = "inited" /\ (dir => dir')
    OBVIOUS
  <2>1. x \in Reader \ {r} /\ life[x] = "inited"
    BY <1>3
  <2>2. ~LastOne(r)
    BY <2>1 DEF LastOne
  <2>3. QED
    BY <1>1, <2>1, <2>2
<1>13. dir' \in BOOLEAN
  BY <1>1
<1>14. ColumnFiles'
  BY <1>11, <1>12, <1>13 DEF CsvInv, ColumnFiles, Feature, Rows
<1>15. QED
  BY <1>1, <1>4, <1>9, <1>10, <1>14, LifeStep

-----------------------------------------------------------------------------
(* The specification.                                                      *)

\* The readers start in a state of the invariant.
LEMMA CsvInitInv == CsvInit => CsvInv
<1> SUFFICES ASSUME CsvInit PROVE CsvInv
  OBVIOUS
<1>1. Settings
  BY DEF CsvInit, Settings
<1>2. Len(file.rows) \in Nat /\ Len(selected) \in Nat /\ Lines \in Nat
  BY <1>1, FileFacts
<1>3. StreamAt(file, Seekg(0), Seekg(0).pos)
  <2>1. StreamAt(file, Seekg(0), 0)
    BY <1>1, <1>2, StreamFacts
  <2>2. QED
    BY <2>1 DEF Seekg
<1>4. PICK e : e = <<>>
  OBVIOUS
<1>5. DOMAIN e = {} /\ Unknown \in 0 .. Len(file.rows) \cup {Unknown}
  BY <1>4
<1>6. \A l \in {"none", "made"} : Sound(file, mode, selected, l, Seekg(0), 0, Unknown, e)
  BY <1>2, <1>3, <1>5, IdleSound
<1>7. \A r \in Reader : /\ life[r] \in {"none", "made"} /\ in[r] = Seekg(0) /\ index[r] = 0
                        /\ total[r] = Unknown /\ rowsMap[r] = e
                        /\ r # Root => life[r] = "none"
  BY <1>4 DEF CsvInit
<1>8. ReadersSound
  <2>1. \A r \in Reader :
          Sound(file, mode, selected, life[r], in[r], index[r], total[r], rowsMap[r])
    BY <1>6, <1>7
  <2>2. QED
    BY <2>1 DEF CsvInit, ReadersSound
<1>9. RootFirst
  BY <1>7 DEF RootFirst
<1>10. ColumnFiles
  <2>1. \A r \in Reader : life[r] # "inited"
    BY <1>7
  <2>2. QED
    BY <2>1 DEF CsvInit, ColumnFiles
<1>11. OutTyped /\ NextFalseIsEof
  BY CsvAssumption DEF CsvInit, OutTyped, NextFalseIsEof
<1>12. QED
  BY <1>1, <1>8, <1>9, <1>10, <1>11 DEF CsvInv

\* Next, with any size.
LEMMA NextCalls ==
  ASSUME CsvInv, NEW r \in Reader, life[r] = "inited", NEW n \in Nat \ {0},
         IF mode = "col" THEN NextCol(r, n) ELSE NextRow(r, n)
  PROVE  CsvInv'
<1>1. CASE mode = "col"
  BY <1>1, NextColStep
<1>2. CASE mode # "col"
  BY <1>2, NextRowAtEofStep, NextRowBatchStep, NextRowThrowsStep DEF NextRow
<1>3. QED
  BY <1>1, <1>2

\* Every step of the readers keeps the invariant.
LEMMA StepInv == CsvInv /\ [Step]_csvVars => CsvInv'
<1> SUFFICES ASSUME CsvInv, [Step]_csvVars PROVE CsvInv'
  OBVIOUS
<1>1. CASE InitBadHeader
  <2>1. life[Root] = "made" /\ InitThrows /\ dir' = dir
    BY <1>1 DEF InitBadHeader
  <2>2. dir' \in BOOLEAN
    BY <2>1 DEF CsvInv, ColumnFiles
  <2>3. QED
    BY <2>1, <2>2, InitThrowsStep
<1>2. CASE InitRow
  BY <1>2, InitRowStep
<1>3. CASE InitCol
  BY <1>3, InitColStep
<1>4. CASE InitColShort
  BY <1>4, InitColShortStep
<1>5. ASSUME NEW r \in Reader, NextData(r) PROVE CsvInv'
  <2>1. life[r] = "inited" /\ BatchSize \in Nat \ {0}
    BY <1>5, CsvAssumption DEF NextData
  <2>2. IF mode = "col" THEN NextCol(r, 1) ELSE NextRow(r, BatchSize)
    BY <1>5 DEF NextData
  <2>3. CASE mode = "col"
    BY <2>1, <2>2, <2>3, NextColStep
  <2>4. CASE mode # "col"
    BY <2>1, <2>2, <2>4, NextCalls
  <2>5. QED
    BY <2>3, <2>4
<1>6. ASSUME NEW r \in Reader, NextSize(r) PROVE CsvInv'
  <2>1. life[r] = "inited"
    BY <1>6 DEF NextSize
  <2>2. PICK n \in Sizes : IF mode = "col" THEN NextCol(r, n) ELSE NextRow(r, n)
    BY <1>6 DEF NextSize
  <2>3. n \in Nat \ {0}
    BY CsvAssumption
  <2>4. QED
    BY <2>1, <2>2, <2>3, NextCalls
<1>7. ASSUME NEW r \in Reader, Seek(r) PROVE CsvInv'
  <2>1. life[r] = "inited"
    BY <1>7 DEF Seek
  <2>2. PICK i \in 0 .. Max({Rows, Len(selected)}) + 1 :
           SeekRefused(r, i) \/ SeekCol(r, i) \/ SeekRow(r, i)
    BY <1>7 DEF Seek
  <2>3. i \in Nat
    <3>1. Rows \in Nat /\ Len(selected) \in Nat
      BY FileFacts DEF CsvInv
    <3>2. Max({Rows, Len(selected)}) \in Nat
      BY <3>1, MaxOf
    <3>3. QED
      BY <3>2
  <2>4. QED
    BY <2>1, <2>2, <2>3, SeekRefusedStep, SeekColStep, SeekRowStep
<1>8. ASSUME NEW r \in Reader, DestroyReader(r) PROVE CsvInv'
  BY <1>8, DestroyStep
<1>9. ASSUME NEW r \in Reader, NEW s \in Reader, Spawn(r, s) PROVE CsvInv'
  BY <1>9, SpawnStep
<1>10. CASE UNCHANGED csvVars
  <2>1. /\ file' = file /\ mode' = mode /\ selected' = selected /\ life' = life /\ in' = in
        /\ index' = index /\ total' = total /\ rowsMap' = rowsMap /\ cols' = cols
        /\ dir' = dir /\ out' = out
    BY <1>10 DEF csvVars
  <2>2. Settings' /\ ReadersSound' /\ RootFirst'
    BY <2>1 DEF CsvInv, Settings, ReadersSound, RootFirst
  <2>3. ColumnFiles' /\ OutTyped' /\ NextFalseIsEof'
    BY <2>1 DEF CsvInv, ColumnFiles, OutTyped, NextFalseIsEof, Feature, Rows, Lines
  <2>4. QED
    BY <2>2, <2>3 DEF CsvInv
<1>11. QED
  BY <1>1, <1>2, <1>3, <1>4, <1>5, <1>6, <1>7, <1>8, <1>9, <1>10 DEF Step

\* The invariant gives the types and the positions of ReaderConsistent.
LEMMA InvConsistent == CsvInv => ReaderConsistent
<1> SUFFICES ASSUME CsvInv PROVE ReaderConsistent
  OBVIOUS
<1>1. /\ Len(file.rows) \in Nat /\ Len(selected) \in Nat /\ Rows = Len(file.rows)
      /\ Lines = LinesOf(file)
  BY FileFacts DEF CsvInv
<1>2. \A r \in Reader : MemberTypes(file, selected, life[r], in[r], index[r], total[r], rowsMap[r])
  BY DEF CsvInv, ReadersSound, Sound
<1>3. \A r \in Reader :
        /\ life[r] \in {"none", "made", "inited", "failed", "gone"}
        /\ in[r] \in [pos : 0..Lines, eof : BOOLEAN]
        /\ index[r] \in 0..Max({Rows, Len(selected)})
        /\ total[r] \in 0..Rows \cup {Unknown}
        /\ DOMAIN rowsMap[r] \subseteq 0..Rows
        /\ \A k \in DOMAIN rowsMap[r] : rowsMap[r][k] \in 1..Lines
  BY <1>1, <1>2 DEF MemberTypes
<1>4. /\ life \in [Reader -> {"none", "made", "inited", "failed", "gone"}]
      /\ in \in [Reader -> [pos : 0..Lines, eof : BOOLEAN]]
      /\ index \in [Reader -> 0..Max({Rows, Len(selected)})]
      /\ total \in [Reader -> 0..Rows \cup {Unknown}]
  <2>1. /\ life = [r \in Reader |-> life[r]] /\ in = [r \in Reader |-> in[r]]
        /\ index = [r \in Reader |-> index[r]] /\ total = [r \in Reader |-> total[r]]
    BY DEF CsvInv, ReadersSound
  <2>2. QED
    BY <1>3, <2>1
<1>5. CsvTypeOK
  BY <1>3, <1>4 DEF CsvTypeOK, CsvInv, Settings, ColumnFiles, OutTyped
<1>6. PositionsAgree
  <2> SUFFICES ASSUME NEW r \in RowReaders
               PROVE  /\ index[r] <= in[r].pos - 1
                      /\ \A k \in DOMAIN rowsMap[r] : k <= rowsMap[r][k] - 1
                      /\ total[r] <= Rows
                      /\ EvenFile =>
                           /\ index[r] = in[r].pos - 1
                           /\ \A k \in DOMAIN rowsMap[r] : k = rowsMap[r][k] - 1
                           /\ total[r] \in {Unknown, Rows}
    BY DEF PositionsAgree
  <2>1. r \in Reader /\ life[r] = "inited" /\ mode # "col"
    BY DEF RowReaders
  <2>2. Sound(file, mode, selected, "inited", in[r], index[r], total[r], rowsMap[r])
    BY <2>1 DEF CsvInv, ReadersSound
  <2>3. Agree(file, in[r], index[r], total[r], rowsMap[r])
    BY <2>1, <2>2 DEF Sound
  <2>4. EvenFile = EvenRows(file)
    BY FileFacts DEF CsvInv
  <2>5. total[r] <= Rows
    BY <1>1, <1>3, <2>1 DEF Unknown
  <2>6. QED
    BY <1>1, <2>3, <2>4, <2>5 DEF Agree
<1>7. QED
  BY <1>5, <1>6 DEF ReaderConsistent

\* The files that a reader by columns is still to map are there.
LEMMA InvColumns == CsvInv => ColumnsReadable
<1> SUFFICES ASSUME CsvInv, mode = "col", Rows > 0, NEW r \in Reader, life[r] = "inited",
                    NEW i \in Feature
             PROVE  Mappable(r, i)
  BY DEF ColumnsReadable
<1>1. dir /\ cols = [j \in Feature |-> Rows] /\ total[r] = Len(file.rows)
  BY ColReader
<1>2. Rows = Len(file.rows)
  BY DEF Rows
<1>3. QED
  BY <1>1, <1>2 DEF Mappable

\* CsvInv holds in every state of any number of readers over any file.
THEOREM CsvInvariance == CsvSpec => []CsvInv
<1>1. QED
  BY CsvInitInv, StepInv, PTL DEF CsvSpec

\* The index, the map, the row count and the stream of every reader agree in files
\* of any length whose rows have the header's width: after any calls Tell() is the
\* row that Next() begins with.  In other files, where rows are read that
\* are not counted, the counted rows are never more than those before the position.
THEOREM PositionsAgreeAlways == CsvSpec => []ReaderConsistent
<1>1. QED
  BY CsvInvariance, InvConsistent, PTL

\* Next() returns false only at the end of what there is to read.
THEOREM FalseOnlyAtEnd == CsvSpec => []NextFalseIsEof
<1>1. CsvInv => NextFalseIsEof
  BY DEF CsvInv
<1>2. QED
  BY <1>1, CsvInvariance, PTL

\* The column files stay readable, in whatever order the readers are destroyed.
THEOREM ColumnsStayReadable == CsvSpec => []ColumnsReadable
<1>1. QED
  BY CsvInvariance, InvColumns, PTL
=============================================================================
