------------------------------ MODULE TaskExecutor ------------------------------
(***************************************************************************)
(* What src/server/ThreadPool.hpp promises to its users: a task handed to  *)
(* enqueue() is run, once, and the destructor returns when all are done.   *)
(***************************************************************************)
CONSTANT Tasks

VARIABLES
  status,   \* "new", "queued", "running" or "done", for each task
  closed    \* the destructor has returned

vars == <<status, closed>>

Init == status = [k \in Tasks |-> "new"] /\ closed = FALSE

Becomes(k, from, to) ==
  /\ ~closed
  /\ status[k] = from
  /\ status' = [status EXCEPT ![k] = to]
  /\ UNCHANGED closed

Submit(k) == Becomes(k, "new", "queued")
Begin(k) == Becomes(k, "queued", "running")
End(k) == Becomes(k, "running", "done")

Close ==
  /\ ~closed
  /\ \A k \in Tasks : status[k] \in {"new", "done"}
  /\ closed' = TRUE
  /\ UNCHANGED status

Next == Close \/ \E k \in Tasks : Submit(k) \/ Begin(k) \/ End(k)

SafeSpec == Init /\ [][Next]_vars

\* a task handed in is run to its end
Spec == SafeSpec /\ \A k \in Tasks : WF_vars(Begin(k)) /\ WF_vars(End(k))
=============================================================================
