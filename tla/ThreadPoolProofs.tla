---------------------------- MODULE ThreadPoolProofs ----------------------------
(***************************************************************************)
(* What ThreadPool promises, proved for any workers and any tasks.         *)
(***************************************************************************)
EXTENDS ThreadPool, SequenceTheorems, TLAPS

-----------------------------------------------------------------------------
(* Who may still do something                                              *)

\* Where the threads are, given the flag: only a running task or the free
\* owner owes a notification, nobody leaves before the flag is set, nobody
\* waits once the destructor has notified all, and the last to leave has seen
\* an empty queue.
PlaceInv ==
  /\ \A w \in Workers : w \in notify => pc[w] = "run"
  /\ Owner \in notify => owner = "free"
  /\ stop <=> owner # "free"
  /\ \A w \in Workers : pc[w] = "exited" => stop
  /\ owner \in {"joining", "gone"} => \A w \in Workers : pc[w] # "wait"
  /\ owner = "gone" => \A w \in Workers : pc[w] = "exited"
  /\ (\A w \in Workers : pc[w] = "exited") => tasks = <<>>

\* A running worker has a task.
Employed == \A w \in Workers : pc[w] = "run" => doing[w] \in Tasks

\* Every step keeps every variable in its type.
LEMMA TypeStep == TypeOK /\ Employed /\ [Next]_vars => TypeOK' /\ Employed'
<1> SUFFICES ASSUME TypeOK, Employed, [Next]_vars PROVE TypeOK' /\ Employed'
  OBVIOUS
<1> USE DEF TypeOK, Employed
<1>1. CASE UNCHANGED vars
  BY <1>1 DEF vars
<1>2. CASE Destroy
  BY <1>2 DEF Destroy, SetStop, NotifyAll, Join
<1>3. ASSUME NEW p \in Workers \union {Owner}, NotifyOne(p) PROVE TypeOK' /\ Employed'
  <2>1. pc' \in [Workers -> {"check", "wait", "run", "exited"}]
    BY <1>3 DEF NotifyOne
  <2> QED
    BY <1>3, <2>1 DEF NotifyOne
<1>4. ASSUME NEW p \in Workers \union {Owner}, NEW k \in Tasks, Enqueue(p, k) PROVE TypeOK' /\ Employed'
  <2>1. tasks' \in Seq(Tasks)
    BY <1>4 DEF Enqueue
  <2> QED
    BY <1>4, <2>1 DEF Enqueue
<1>5. ASSUME NEW w \in Workers, Wait(w) \/ Exit(w) \/ SpuriousWakeup(w) PROVE TypeOK' /\ Employed'
  BY <1>5 DEF Wait, Exit, SpuriousWakeup
<1>6. ASSUME NEW w \in Workers, Take(w) PROVE TypeOK' /\ Employed'
  <2>1. Head(tasks) \in Tasks /\ tasks' \in Seq(Tasks)
    BY <1>6 DEF Take
  <2> QED
    BY <1>6, <2>1 DEF Take
<1>7. ASSUME NEW w \in Workers, FinishTask(w) PROVE TypeOK' /\ Employed'
  <2>1. done' \subseteq Tasks
    BY <1>7 DEF FinishTask
  <2> QED
    BY <1>7, <2>1 DEF FinishTask
<1> QED
  BY <1>1, <1>2, <1>3, <1>4, <1>5, <1>6, <1>7 DEF Next, Worker

\* Every step leaves the threads where PlaceInv says.
LEMMA PlaceStep == TypeOK /\ PlaceInv /\ [Next]_vars => PlaceInv'
<1> SUFFICES ASSUME TypeOK, PlaceInv, [Next]_vars PROVE PlaceInv'
  OBVIOUS
<1> USE PoolAssumption DEF TypeOK, PlaceInv
<1>1. CASE UNCHANGED vars
  BY <1>1 DEF vars
<1>2. CASE SetStop
  BY <1>2 DEF SetStop
<1>3. CASE NotifyAll
  BY <1>3 DEF NotifyAll
<1>4. CASE Join
  BY <1>4 DEF Join
<1>5. ASSUME NEW p \in Workers \union {Owner}, NotifyOne(p) PROVE PlaceInv'
  <2>1. \/ pc' = pc
        \/ \E w \in Workers : pc[w] = "wait" /\ pc' = [pc EXCEPT ![w] = "check"]
    BY <1>5 DEF NotifyOne
  <2> QED
    BY <1>5, <2>1 DEF NotifyOne
<1>6. ASSUME NEW p \in Workers \union {Owner}, NEW k \in Tasks, Enqueue(p, k) PROVE PlaceInv'
  BY <1>6 DEF Enqueue
<1>7. ASSUME NEW w \in Workers, Wait(w) \/ Exit(w) \/ SpuriousWakeup(w) PROVE PlaceInv'
  BY <1>7 DEF Wait, Exit, SpuriousWakeup
<1>8. ASSUME NEW w \in Workers, Take(w) \/ FinishTask(w) PROVE PlaceInv'
  BY <1>8 DEF Take, FinishTask
<1> QED
  BY <1>1, <1>2, <1>3, <1>4, <1>5, <1>6, <1>7, <1>8 DEF Next, Worker, Destroy

\* While a task is queued, somebody is awake to take it or is about to wake
\* somebody: a worker that waits, or leaves, has seen the queue empty under the
\* mutex, and a notification that finds nobody waiting finds somebody awake.
LEMMA WakeupStep == TypeOK /\ PlaceInv /\ NoLostWakeup /\ [Next]_vars => NoLostWakeup'
<1> SUFFICES ASSUME TypeOK, PlaceInv, NoLostWakeup, [Next]_vars PROVE NoLostWakeup'
  OBVIOUS
<1> USE PoolAssumption DEF TypeOK, PlaceInv, NoLostWakeup
<1>1. CASE UNCHANGED vars
  BY <1>1 DEF vars
<1>2. CASE SetStop \/ Join
  BY <1>2 DEF SetStop, Join
<1>3. CASE NotifyAll
  BY <1>3 DEF NotifyAll
<1>4. ASSUME NEW p \in Workers \union {Owner}, NotifyOne(p) PROVE NoLostWakeup'
  <2>1. CASE \E w \in Workers : pc[w] = "wait" /\ pc' = [pc EXCEPT ![w] = "check"]
    BY <2>1
  <2>2. CASE pc' = pc /\ \A w \in Workers : pc[w] # "wait"
    <3>1. p = Owner => ~stop
      BY <1>4 DEF NotifyOne
    <3>2. p \in Workers => pc[p] = "run"
      BY <1>4 DEF NotifyOne
    <3>3. \E w \in Workers : pc[w] \in {"check", "run"}
      BY <2>2, <3>1, <3>2
    <3> QED
      BY <2>2, <3>3
  <2> QED
    BY <1>4, <2>1, <2>2 DEF NotifyOne
<1>5. ASSUME NEW p \in Workers \union {Owner}, NEW k \in Tasks, Enqueue(p, k)
      PROVE  NoLostWakeup'
  BY <1>5 DEF Enqueue
<1>6. ASSUME NEW w \in Workers, Worker(w) \/ SpuriousWakeup(w) PROVE NoLostWakeup'
  BY <1>6 DEF Worker, Wait, Exit, Take, FinishTask, SpuriousWakeup
<1> QED
  BY <1>1, <1>2, <1>3, <1>4, <1>5, <1>6 DEF Next, Destroy

-----------------------------------------------------------------------------
(* Where the tasks are                                                     *)

\* A task is in one place: once in the queue, with one worker, or done.
TaskInv ==
  /\ \A i, j \in 1..Len(tasks) : tasks[i] = tasks[j] => i = j
  /\ \A v, w \in Workers : pc[v] = "run" /\ pc[w] = "run" /\ doing[v] = doing[w] => v = w
  /\ Queued \intersect Running = {}
  /\ Queued \intersect done = {}
  /\ Running \intersect done = {}

\* The queue after a push and after a pop.
LEMMA QueueAfter ==
  ASSUME tasks \in Seq(Tasks)
  PROVE  /\ \A k \in Tasks : tasks' = Append(tasks, k) => Queued' = Queued \union {k}
         /\ tasks # <<>> /\ tasks' = Tail(tasks) =>
              /\ Head(tasks) \in Queued
              /\ Queued = Queued' \union {Head(tasks)}
<1>1. ASSUME NEW k \in Tasks, tasks' = Append(tasks, k) PROVE Queued' = Queued \union {k}
  <2>1. Len(tasks') = Len(tasks) + 1 /\ Len(tasks) \in Nat
    BY <1>1
  <2>2. \A i \in 1..Len(tasks) : tasks'[i] = tasks[i]
    BY <1>1
  <2>3. tasks'[Len(tasks) + 1] = k
    BY <1>1
  <2> QED
    BY <2>1, <2>2, <2>3 DEF Queued
<1>2. ASSUME tasks # <<>>, tasks' = Tail(tasks)
      PROVE  Head(tasks) \in Queued /\ Queued = Queued' \union {Head(tasks)}
  <2>1. Len(tasks) \in Nat \ {0} /\ Len(tasks') = Len(tasks) - 1 /\ Head(tasks) = tasks[1]
    BY <1>2
  <2>2. \A i \in 1..(Len(tasks) - 1) : tasks'[i] = tasks[i + 1]
    BY <1>2
  <2>3. ASSUME NEW i \in 1..Len(tasks), i # 1 PROVE tasks[i] \in Queued'
    <3>1. i - 1 \in 1..Len(tasks') /\ tasks'[i - 1] = tasks[i]
      BY <2>1, <2>2, <2>3
    <3> QED
      BY <3>1 DEF Queued
  <2>4. ASSUME NEW i \in 1..Len(tasks') PROVE tasks'[i] \in Queued
    <3>1. i + 1 \in 1..Len(tasks) /\ tasks'[i] = tasks[i + 1]
      BY <2>1, <2>2, <2>4
    <3> QED
      BY <3>1 DEF Queued
  <2> QED
    BY <2>1, <2>3, <2>4 DEF Queued
<1> QED
  BY <1>1, <1>2

\* A pop takes the only copy of its task out of the queue.
LEMMA PopTakesTheTask ==
  ASSUME tasks \in Seq(Tasks), TaskInv, tasks # <<>>, tasks' = Tail(tasks)
  PROVE  /\ Queued' = Queued \ {Head(tasks)}
         /\ \A i, j \in 1..Len(tasks') : tasks'[i] = tasks'[j] => i = j
<1>1. Len(tasks) \in Nat \ {0} /\ Len(tasks') = Len(tasks) - 1 /\ Head(tasks) = tasks[1]
  OBVIOUS
<1>2. \A i \in 1..(Len(tasks) - 1) : tasks'[i] = tasks[i + 1] /\ i + 1 \in 1..Len(tasks)
  BY <1>1
<1>3. Head(tasks) \notin Queued'
  <2> SUFFICES ASSUME NEW i \in 1..Len(tasks'), tasks'[i] = tasks[1] PROVE FALSE
    BY <1>1 DEF Queued
  <2>1. tasks[i + 1] = tasks[1] /\ i + 1 \in 1..Len(tasks) /\ 1 \in 1..Len(tasks)
    BY <1>1, <1>2
  <2> QED
    BY <2>1 DEF TaskInv
<1>4. \A i, j \in 1..Len(tasks') : tasks'[i] = tasks'[j] => i = j
  <2> SUFFICES ASSUME NEW i \in 1..Len(tasks'), NEW j \in 1..Len(tasks'), tasks'[i] = tasks'[j]
               PROVE  i = j
    OBVIOUS
  <2>1. tasks[i + 1] = tasks[j + 1] /\ i + 1 \in 1..Len(tasks) /\ j + 1 \in 1..Len(tasks)
    BY <1>1, <1>2
  <2> QED
    BY <2>1 DEF TaskInv
<1> QED
  BY <1>3, <1>4, QueueAfter

\* A step that starts or ends no task leaves them where they are.
LEMMA NothingRuns ==
  ASSUME TypeOK, tasks' = tasks, doing' = doing, done' = done,
         \A w \in Workers : pc'[w] = "run" <=> pc[w] = "run"
  PROVE  Queued' = Queued /\ Running' = Running /\ (TaskInv => TaskInv')
<1>1. Queued' = Queued
  BY DEF Queued
<1>2. Running' = Running
  BY DEF Running
<1> QED
  BY <1>1, <1>2 DEF TaskInv

\* The steps that only move threads are of this kind.
LEMMA QuietSteps ==
  ASSUME TypeOK, [Next]_vars,
         ~\E p \in Workers \union {Owner}, k \in Tasks : Enqueue(p, k),
         ~\E w \in Workers : Take(w) \/ FinishTask(w)
  PROVE  /\ tasks' = tasks /\ doing' = doing /\ done' = done
         /\ \A w \in Workers : pc'[w] = "run" <=> pc[w] = "run"
<1> USE DEF TypeOK
<1>1. CASE UNCHANGED vars
  BY <1>1 DEF vars
<1>2. CASE Destroy
  BY <1>2 DEF Destroy, SetStop, NotifyAll, Join
<1>3. ASSUME NEW p \in Workers \union {Owner}, NotifyOne(p)
      PROVE  /\ tasks' = tasks /\ doing' = doing /\ done' = done
             /\ \A w \in Workers : pc'[w] = "run" <=> pc[w] = "run"
  <2>1. \/ pc' = pc
        \/ \E w \in Workers : pc[w] = "wait" /\ pc' = [pc EXCEPT ![w] = "check"]
    BY <1>3 DEF NotifyOne
  <2> QED
    BY <1>3, <2>1 DEF NotifyOne
<1>4. ASSUME NEW w \in Workers, Wait(w) \/ Exit(w) \/ SpuriousWakeup(w)
      PROVE  /\ tasks' = tasks /\ doing' = doing /\ done' = done
             /\ \A v \in Workers : pc'[v] = "run" <=> pc[v] = "run"
  BY <1>4 DEF Wait, Exit, SpuriousWakeup
<1> QED
  BY <1>1, <1>2, <1>3, <1>4 DEF Next, Worker

\* What the three steps about a task do to where it is.
LEMMA EnqueueMoves ==
  ASSUME TypeOK, TaskInv, NEW p \in Workers \union {Owner}, NEW k \in Tasks, Enqueue(p, k)
  PROVE  /\ k \in New
         /\ Queued' = Queued \union {k} /\ Running' = Running /\ done' = done
         /\ TaskInv'
<1>1. k \in New /\ tasks' = Append(tasks, k) /\ UNCHANGED <<pc, doing, done>>
  BY DEF Enqueue
<1>2. Queued' = Queued \union {k}
  BY <1>1, QueueAfter DEF TypeOK
<1>3. Running' = Running
  BY <1>1 DEF Running
<1>4. \A i, j \in 1..Len(tasks') : tasks'[i] = tasks'[j] => i = j
  <2>1. Len(tasks') = Len(tasks) + 1 /\ Len(tasks) \in Nat
    BY <1>1 DEF TypeOK
  <2>2. tasks'[Len(tasks) + 1] = k /\ \A i \in 1..Len(tasks) : tasks'[i] = tasks[i]
    BY <1>1 DEF TypeOK
  <2>3. \A i \in 1..Len(tasks) : tasks[i] # k
    BY <1>1 DEF New, Queued
  <2> QED
    BY <2>1, <2>2, <2>3 DEF TaskInv
<1> QED
  BY <1>1, <1>2, <1>3, <1>4 DEF New, TaskInv

\* A pop takes a task from the queue to its worker.
LEMMA TakeMoves ==
  ASSUME TypeOK, TaskInv, NEW w \in Workers, Take(w)
  PROVE  /\ Head(tasks) \in Queued
         /\ Queued' = Queued \ {Head(tasks)} /\ Running' = Running \union {Head(tasks)}
         /\ done' = done
         /\ TaskInv'
<1> DEFINE h == Head(tasks)
<1>1. /\ pc[w] = "check" /\ tasks # <<>> /\ tasks' = Tail(tasks)
      /\ doing' = [doing EXCEPT ![w] = h] /\ pc' = [pc EXCEPT ![w] = "run"] /\ done' = done
  BY DEF Take
<1>2. h \in Queued
  BY <1>1, QueueAfter DEF TypeOK
<1>3. /\ Queued' = Queued \ {h}
      /\ \A i, j \in 1..Len(tasks') : tasks'[i] = tasks'[j] => i = j
  BY <1>1, PopTakesTheTask DEF TypeOK
<1> HIDE DEF h
<1>4. Running' = Running \union {h}
  BY <1>1 DEF Running, TypeOK
<1>5. ASSUME NEW u \in Workers, NEW v \in Workers,
             pc'[u] = "run", pc'[v] = "run", doing'[u] = doing'[v]
      PROVE  u = v
  <2>1. h \notin Running
    BY <1>2 DEF TaskInv
  <2> QED
    BY <1>1, <1>5, <2>1 DEF TaskInv, TypeOK, Running
<1> QED
  BY <1>1, <1>2, <1>3, <1>4, <1>5 DEF TaskInv, h

\* A task that ends leaves its worker and is done.
LEMMA FinishMoves ==
  ASSUME TypeOK, TaskInv, NEW w \in Workers, FinishTask(w)
  PROVE  /\ doing[w] \in Running
         /\ Queued' = Queued /\ Running' = Running \ {doing[w]}
         /\ done' = done \union {doing[w]}
         /\ TaskInv'
<1>1. /\ pc[w] = "run" /\ tasks' = tasks /\ done' = done \union {doing[w]}
      /\ doing' = [doing EXCEPT ![w] = NoTask] /\ pc' = [pc EXCEPT ![w] = "check"]
  BY DEF FinishTask
<1>2. doing[w] \in Running
  BY <1>1 DEF Running
<1>3. Queued' = Queued
  BY <1>1 DEF Queued
<1>4. Running' = Running \ {doing[w]}
  BY <1>1 DEF Running, TypeOK, TaskInv
<1>5. ASSUME NEW u \in Workers, NEW v \in Workers,
             pc'[u] = "run", pc'[v] = "run", doing'[u] = doing'[v]
      PROVE  u = v
  BY <1>1, <1>5 DEF TaskInv, TypeOK
<1> QED
  BY <1>1, <1>2, <1>3, <1>4, <1>5 DEF TaskInv

\* So a task is always in one place.
LEMMA TaskStep == TypeOK /\ TaskInv /\ [Next]_vars => TaskInv'
BY QuietSteps, NothingRuns, EnqueueMoves, TakeMoves, FinishMoves

\* The pool starts with all of this.
LEMMA PoolInit == Init => TypeOK /\ Employed /\ PlaceInv /\ NoLostWakeup /\ TaskInv
<1> SUFFICES ASSUME Init PROVE TypeOK /\ Employed /\ PlaceInv /\ NoLostWakeup /\ TaskInv
  OBVIOUS
<1>1. TypeOK
  <2>1. <<>> \in Seq(Tasks)
    OBVIOUS
  <2>2. /\ pc \in [Workers -> {"check", "wait", "run", "exited"}]
        /\ doing \in [Workers -> Tasks \union {NoTask}]
    BY DEF Init
  <2> QED
    BY <2>1, <2>2 DEF Init, TypeOK
<1>2. Employed /\ PlaceInv /\ NoLostWakeup
  BY PoolAssumption DEF Init, Employed, PlaceInv, NoLostWakeup
<1>3. TaskInv
  BY DEF Init, TaskInv, Queued, Running
<1> QED
  BY <1>1, <1>2, <1>3

\* The queue, the flag and the threads keep their types (ThreadPool.hpp:72-77).
THEOREM TypeCorrect == Spec => []TypeOK
BY PoolInit, TypeStep, PTL DEF Spec

\* Employed holds throughout.
LEMMA EmployedCorrect == Spec => []Employed
BY PoolInit, TypeStep, PTL DEF Spec

\* PlaceInv holds throughout.
LEMMA PlaceInvCorrect == Spec => []PlaceInv
BY PoolInit, PlaceStep, TypeCorrect, PTL DEF Spec

\* No wakeup is lost, for any number of workers and tasks, although the
\* notifications come after the mutex has been released (ThreadPool.hpp:14-36,
\* 61-68).
THEOREM NoLostWakeupCorrect == Spec => []NoLostWakeup
BY PoolInit, WakeupStep, PlaceInvCorrect, TypeCorrect, PTL DEF Spec

\* TaskInv holds throughout.
LEMMA TaskInvCorrect == Spec => []TaskInv
BY PoolInit, TaskStep, TypeCorrect, PTL DEF Spec

-----------------------------------------------------------------------------
(* The pool is a TaskExecutor                                              *)

\* The status of a task is the place it is in.
LEMMA StatusNow ==
  ASSUME TaskInv, NEW k \in Tasks
  PROVE  /\ k \in done => Status(k) = "done"
         /\ k \in Running => Status(k) = "running"
         /\ k \in Queued => Status(k) = "queued"
         /\ k \in New => Status(k) = "new"
BY DEF TaskInv, Status, New

\* And so it is after a step.
LEMMA StatusNext ==
  ASSUME TaskInv', NEW k \in Tasks
  PROVE  /\ k \in done' => Status(k)' = "done"
         /\ k \in Running' => Status(k)' = "running"
         /\ k \in Queued' => Status(k)' = "queued"
         /\ k \in New' => Status(k)' = "new"
BY DEF TaskInv, Status, New

\* A task that moves from one place to another makes that step of TaskExecutor,
\* if no other moves and the pool is not gone.
LEMMA OneMoves ==
  ASSUME NEW k \in Tasks, NEW from, NEW to,
         Status(k) = from, Status(k)' = to,
         \A j \in Tasks \ {k} : Status(j)' = Status(j),
         owner # "gone", owner' = owner
  PROVE  Executor!Becomes(k, from, to)
<1>1. [j \in Tasks |-> Status(j)]' = [[j \in Tasks |-> Status(j)] EXCEPT ![k] = to]
  OBVIOUS
<1> QED
  BY <1>1 DEF Executor!Becomes

\* Every step of the pool is a step of TaskExecutor or none.
LEMMA ExecutorStep ==
  TypeOK /\ Employed /\ PlaceInv /\ TaskInv /\ TaskInv' /\ [Next]_vars
    => [Executor!Next]_(Executor!vars)
<1> SUFFICES ASSUME TypeOK, Employed, PlaceInv, TaskInv, TaskInv', [Next]_vars
             PROVE  Executor!Next \/ UNCHANGED Executor!vars
  OBVIOUS
<1>1. ASSUME NEW p \in Workers \union {Owner}, NEW k \in Tasks, Enqueue(p, k)
      PROVE  Executor!Submit(k)
  <2>1. /\ k \in New
        /\ Queued' = Queued \union {k} /\ Running' = Running /\ done' = done
    BY <1>1, EnqueueMoves
  <2>2. Status(k) = "new" /\ Status(k)' = "queued"
    BY <2>1, StatusNow, StatusNext
  <2>3. \A j \in Tasks \ {k} : Status(j)' = Status(j)
    BY <2>1 DEF Status
  <2>4. owner # "gone" /\ owner' = owner
    BY <1>1 DEF Enqueue, PlaceInv
  <2> QED
    BY <2>2, <2>3, <2>4, OneMoves DEF Executor!Submit
<1>2. ASSUME NEW w \in Workers, Take(w) PROVE \E k \in Tasks : Executor!Begin(k)
  <2>1. PICK h \in Tasks : h = Head(tasks)
    BY <1>2 DEF Take, TypeOK
  <2>2. /\ h \in Queued
        /\ Queued' = Queued \ {h} /\ Running' = Running \union {h} /\ done' = done
    BY <1>2, <2>1, TakeMoves
  <2>3. Status(h) = "queued" /\ Status(h)' = "running"
    BY <2>2, <2>1, StatusNow, StatusNext
  <2>4. \A j \in Tasks \ {h} : Status(j)' = Status(j)
    BY <2>2 DEF Status
  <2>5. owner # "gone" /\ owner' = owner
    BY <1>2 DEF Take, PlaceInv
  <2> QED
    BY <2>1, <2>3, <2>4, <2>5, OneMoves DEF Executor!Begin
<1>3. ASSUME NEW w \in Workers, FinishTask(w) PROVE \E k \in Tasks : Executor!End(k)
  <2>1. PICK k \in Tasks : k = doing[w]
    BY <1>3 DEF FinishTask, Employed
  <2>2. /\ k \in Running
        /\ Queued' = Queued /\ Running' = Running \ {k} /\ done' = done \union {k}
    BY <1>3, <2>1, FinishMoves
  <2>3. Status(k) = "running" /\ Status(k)' = "done"
    BY <2>2, <2>1, StatusNow, StatusNext
  <2>4. \A j \in Tasks \ {k} : Status(j)' = Status(j)
    BY <2>2 DEF Status
  <2>5. owner # "gone" /\ owner' = owner
    BY <1>3 DEF FinishTask, PlaceInv
  <2> QED
    BY <2>1, <2>3, <2>4, <2>5, OneMoves DEF Executor!End
<1>4. CASE /\ ~\E p \in Workers \union {Owner}, k \in Tasks : Enqueue(p, k)
           /\ ~\E w \in Workers : Take(w) \/ FinishTask(w)
  <2>1. /\ Queued' = Queued /\ Running' = Running /\ done' = done
        /\ tasks' = tasks
    BY <1>4, QuietSteps, NothingRuns
  <2>2. \A j \in Tasks : Status(j)' = Status(j)
    BY <2>1 DEF Status
  <2>3. [j \in Tasks |-> Status(j)]' = [j \in Tasks |-> Status(j)]
    BY <2>2
  <2>4. CASE Join
    <3>1. owner # "gone" /\ owner' = "gone"
      BY <2>4 DEF Join
    <3>2. tasks = <<>> /\ \A w \in Workers : pc[w] # "run"
      BY <2>4 DEF Join, PlaceInv
    <3>3. Queued = {} /\ Running = {}
      BY <3>2 DEF Queued, Running
    <3>4. \A j \in Tasks : Status(j) \in {"new", "done"}
      BY <3>3, StatusNow DEF New
    <3> QED
      BY <2>3, <3>1, <3>4 DEF Executor!Next, Executor!Close
  <2>5. CASE ~Join
    <3>1. (owner = "gone") = (owner' = "gone")
      BY <1>4, <2>5 DEF Next, vars, Destroy, SetStop, NotifyAll, NotifyOne, Worker,
                        Wait, Exit, SpuriousWakeup
    <3> QED
      BY <2>3, <3>1 DEF Executor!vars
  <2> QED
    BY <2>4, <2>5
<1> QED
  BY <1>1, <1>2, <1>3, <1>4 DEF Executor!Next

\* For any workers and tasks, whoever enqueues them, a task is queued, run and
\* done once, in that order, and the destructor returns only when every task
\* that was enqueued is done (ThreadPool.hpp:12-40, 61-69).
THEOREM ExecutorImplemented == Spec => Executor!SafeSpec
<1>1. Init => Executor!Init
  <2> SUFFICES ASSUME Init PROVE Executor!Init
    OBVIOUS
  <2>1. TaskInv
    BY PoolInit
  <2>2. New = Tasks /\ owner = "free"
    BY DEF Init, New, Queued, Running
  <2>3. \A j \in Tasks : Status(j) = "new"
    BY <2>1, <2>2, StatusNow
  <2> QED
    BY <2>2, <2>3 DEF Executor!Init
<1> QED
  BY <1>1, ExecutorStep, TypeCorrect, EmployedCorrect, PlaceInvCorrect, TaskInvCorrect, PTL
     DEF Spec, Executor!SafeSpec
=============================================================================
