---------------------------- MODULE ClientRepository ----------------------------
(***************************************************************************)
(* What src/server/Core/IClientRepository.hpp and                          *)
(* IClientConnectionRepository.hpp promise: a call that changes the tables *)
(* takes effect whole and says so, or has no effect and says so.           *)
(***************************************************************************)
CONSTANTS
  Requests,      \* the calls
  NoRequest,     \* no call is being worked on
  Empty,         \* the tables of a new database
  Effect(_, _)   \* the tables after a successful call

VARIABLES
  tables,        \* what is stored
  doing,         \* the call being worked on
  done           \* whether the last call succeeded

vars == <<tables, doing, done>>

Init == tables = Empty /\ doing = NoRequest /\ done = FALSE

Begin(r) ==
  /\ doing = NoRequest
  /\ doing' = r
  /\ done' = FALSE
  /\ UNCHANGED tables

Succeed ==
  /\ doing # NoRequest
  /\ tables' = Effect(tables, doing)
  /\ doing' = NoRequest
  /\ done' = TRUE

\* the call fails, or the process that made it is gone
GiveUp ==
  /\ doing' = NoRequest
  /\ done' = FALSE
  /\ UNCHANGED tables

Next == (\E r \in Requests : Begin(r)) \/ Succeed \/ GiveUp

SafeSpec == Init /\ [][Next]_vars
=============================================================================
