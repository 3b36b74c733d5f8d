------------------------------- MODULE ThreadPool -------------------------------
(***************************************************************************)
(* src/server/ThreadPool.hpp: workers around one queue, one mutex and one  *)
(* condition variable.  Every section under queue_mutex is one step; the   *)
(* notifications happen after the mutex has been released and are steps of *)
(* their own.  Tasks may call enqueue() themselves, also while the         *)
(* destructor is waiting.                                                  *)
(***************************************************************************)
EXTENDS Integers, Sequences

CONSTANTS
  Workers,   \* the threads of `workers'
  Owner,     \* the thread that owns the pool
  Tasks      \* the tasks that may be enqueued, each once

ASSUME PoolAssumption == Owner \notin Workers /\ Workers # {}

Nobody == "nobody"

VARIABLES
  tasks,    \* the queue
  stop,     \* the flag the destructor sets
  pc,       \* the workers: "check" the predicate, "wait", "run" or "exited"
  doing,    \* the task each running worker has taken
  owner,    \* the owner: "free", "stopping" (flag set), "joining" or "gone"
  notify,   \* who has pushed a task and has yet to call notify_one
  done      \* the tasks that have been run

vars == <<tasks, stop, pc, doing, owner, notify, done>>

NoTask == "none"

TypeOK ==
  /\ tasks \in Seq(Tasks)
  /\ stop \in BOOLEAN
  /\ pc \in [Workers -> {"check", "wait", "run", "exited"}]
  /\ doing \in [Workers -> Tasks \union {NoTask}]
  /\ owner \in {"free", "stopping", "joining", "gone"}
  /\ notify \subseteq Workers \union {Owner}
  /\ done \subseteq Tasks

Init ==
  /\ tasks = <<>>
  /\ stop = FALSE
  /\ pc = [w \in Workers |-> "check"]
  /\ doing = [w \in Workers |-> NoTask]
  /\ owner = "free"
  /\ notify = {}
  /\ done = {}

Queued == {tasks[i] : i \in 1..Len(tasks)}
Running == {doing[w] : w \in {v \in Workers : pc[v] = "run"}}
New == Tasks \ (Queued \union Running \union done)

\* slip: the notification is left out
EnqueueSilently(p, k) ==
  /\ IF p = Owner THEN owner = "free" ELSE pc[p] = "run"
  /\ p \notin notify
  /\ k \in New
  /\ tasks' = Append(tasks, k)
  /\ UNCHANGED <<stop, pc, doing, owner, notify, done>>

\* enqueue(), up to the end of its block: by the owner, or by a running task
Enqueue(p, k) ==
  /\ IF p = Owner THEN owner = "free" ELSE pc[p] = "run"
  /\ p \notin notify
  /\ k \in New
  /\ tasks' = Append(tasks, k)
  /\ notify' = notify \union {p}
  /\ UNCHANGED <<stop, pc, doing, owner, done>>

\* condition.notify_one() wakes any one of those that wait, if any do
NotifyOne(p) ==
  /\ p \in notify
  /\ notify' = notify \ {p}
  /\ LET waiting == {w \in Workers : pc[w] = "wait"}
     IN \/ waiting = {} /\ UNCHANGED pc
        \/ \E w \in waiting : pc' = [pc EXCEPT ![w] = "check"]
  /\ UNCHANGED <<tasks, stop, doing, owner, done>>

\* the predicate is false: the worker waits and releases the mutex
Wait(w) ==
  /\ pc[w] = "check"
  /\ ~stop /\ tasks = <<>>
  /\ pc' = [pc EXCEPT ![w] = "wait"]
  /\ UNCHANGED <<tasks, stop, doing, owner, notify, done>>

SpuriousWakeup(w) ==
  /\ pc[w] = "wait"
  /\ pc' = [pc EXCEPT ![w] = "check"]
  /\ UNCHANGED <<tasks, stop, doing, owner, notify, done>>

\* slip: a worker leaves as soon as the flag is set
ExitAtOnce(w) ==
  /\ pc[w] = "check"
  /\ stop
  /\ pc' = [pc EXCEPT ![w] = "exited"]
  /\ UNCHANGED <<tasks, stop, doing, owner, notify, done>>

Exit(w) ==
  /\ pc[w] = "check"
  /\ stop /\ tasks = <<>>
  /\ pc' = [pc EXCEPT ![w] = "exited"]
  /\ UNCHANGED <<tasks, stop, doing, owner, notify, done>>

Take(w) ==
  /\ pc[w] = "check"
  /\ tasks # <<>>
  /\ doing' = [doing EXCEPT ![w] = Head(tasks)]
  /\ tasks' = Tail(tasks)
  /\ pc' = [pc EXCEPT ![w] = "run"]
  /\ UNCHANGED <<stop, owner, notify, done>>

\* slip: a worker that woke for nothing runs the empty function
FinishAnything(w) ==
  /\ pc[w] \in {"check", "run"}
  /\ w \notin notify
  /\ done' = done \union {doing[w]}
  /\ doing' = [doing EXCEPT ![w] = NoTask]
  /\ pc' = [pc EXCEPT ![w] = "check"]
  /\ UNCHANGED <<tasks, stop, owner, notify>>

\* task() returns; a task that throws ends the process and is not modelled
FinishTask(w) ==
  /\ pc[w] = "run"
  /\ w \notin notify
  /\ done' = done \union {doing[w]}
  /\ doing' = [doing EXCEPT ![w] = NoTask]
  /\ pc' = [pc EXCEPT ![w] = "check"]
  /\ UNCHANGED <<tasks, stop, owner, notify>>

\* ~ThreadPool(): the flag under the mutex, notify_all, join
SetStop ==
  /\ owner = "free" /\ Owner \notin notify
  /\ stop' = TRUE
  /\ owner' = "stopping"
  /\ UNCHANGED <<tasks, pc, doing, notify, done>>

\* slip: notify_one() instead of notify_all()
NotifyOnlyOne ==
  /\ owner = "stopping"
  /\ LET waiting == {w \in Workers : pc[w] = "wait"}
     IN \/ waiting = {} /\ UNCHANGED pc
        \/ \E w \in waiting : pc' = [pc EXCEPT ![w] = "check"]
  /\ owner' = "joining"
  /\ UNCHANGED <<tasks, stop, doing, notify, done>>

NotifyAll ==
  /\ owner = "stopping"
  /\ pc' = [w \in Workers |-> IF pc[w] = "wait" THEN "check" ELSE pc[w]]
  /\ owner' = "joining"
  /\ UNCHANGED <<tasks, stop, doing, notify, done>>

Join ==
  /\ owner = "joining"
  /\ \A w \in Workers : pc[w] = "exited"
  /\ owner' = "gone"
  /\ UNCHANGED <<tasks, stop, pc, doing, notify, done>>

Worker(w) == Wait(w) \/ Exit(w) \/ Take(w) \/ FinishTask(w)
Destroy == SetStop \/ NotifyAll \/ Join

Next ==
  \/ Destroy
  \/ \E p \in Workers \union {Owner} : NotifyOne(p) \/ \E k \in Tasks : Enqueue(p, k)
  \/ \E w \in Workers : Worker(w) \/ SpuriousWakeup(w)

\* the threads run on, a call of enqueue() and the destructor once begun go
\* through, every task ends; nobody has to enqueue or destroy
Fairness ==
  /\ \A w \in Workers : WF_vars(Worker(w))
  /\ \A p \in Workers \union {Owner} : WF_vars(NotifyOne(p))
  /\ WF_vars(NotifyAll) /\ WF_vars(Join)

Spec == Init /\ [][Next]_vars /\ Fairness

-----------------------------------------------------------------------------
(* What the pool promises                                                  *)

Status(k) == CASE k \in done -> "done"
               [] k \in Running -> "running"
               [] k \in Queued -> "queued"
               [] OTHER -> "new"

Executor == INSTANCE TaskExecutor WITH status <- [k \in Tasks |-> Status(k)],
                                       closed <- (owner = "gone")

\* The pool is a TaskExecutor: each task enqueued, by the owner or by another
\* task, is run exactly once, none is lost to a missed wakeup, and the
\* destructor returns only when all of them are done.
RunsEveryTaskOnce == Executor!Spec

\* No task is left behind without somebody to run it: while there is one, a
\* worker is awake, or a notification is on its way (condition.wait at 18,
\* notify_one at 67, notify_all at 35).
NoLostWakeup ==
  tasks # <<>> =>
    \/ \E w \in Workers : pc[w] \in {"check", "run"}
    \/ notify # {} \/ owner = "stopping"

\* The destructor returns: it is not left waiting for a worker that sleeps.
DestructorReturns == owner # "free" ~> owner = "gone"

=============================================================================
