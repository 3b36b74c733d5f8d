----------------------------- MODULE SqliteDatabase -----------------------------
(***************************************************************************)
(* src/server/SqliteDatabase.cpp: clients and their connections in a file, *)
(* each change in a transaction of its own.  One thread calls it.          *)
(*                                                                         *)
(* The statements are prepared by the first connect() and never replaced   *)
(* or finalized before the object goes, so they belong to the handle of    *)
(* that first connect() whatever m_db is later, and keep it open: `work'   *)
(* and `txn' are the view and the transaction of that handle.              *)
(*                                                                         *)
(* SQLite is outside the code modelled: any statement may fail, ROLLBACK   *)
(* included, a failed COMMIT may leave the transaction open (SQLITE_BUSY)  *)
(* or roll it back, foreign keys are not enforced, and a new id is the     *)
(* largest one plus 1.                                                     *)
(***************************************************************************)
EXTENDS Integers, FiniteSets

CONSTANTS
  Ips,         \* the addresses clients come from
  MaxId,       \* bound on the ids of either table
  MaxCount,    \* bound on a client's counters
  Early,       \* bound on the getters called before the first connect()
  NoRequest    \* no call has been made

ASSUME BoundAssumption == MaxId \in Nat /\ MaxCount \in Nat

Ids == 1..MaxId
Client == [ip : Ips, connection_count : 0..MaxCount, event_count : 0..MaxCount]
Partial(S) == UNION {[D -> S] : D \in SUBSET Ids}
Tables == [client : Partial(Client), connection : Partial(Ids)]
NoTables == [client |-> [i \in {} |-> 0], connection |-> [i \in {} |-> 0]]

ByIp == [op : {"add_client"}, arg : Ips]
ById == [op : {"remove_client", "increment_connection_count", "increment_event_count",
               "add_client_connection", "remove_connection",
               "remove_client_connections"}, arg : Ids]
OfAll == [op : {"remove_all_clients", "remove_all_connections"}, arg : {0}]
Requests == ByIp \union ById \union OfAll

OfIp == {"get_client_id_by_ip", "get_client_by_ip"}
OfId == {"get_client_by_id", "get_client_ip_by_id"}
Counting == {"get_client_count", "get_all_clients"}
Getters == OfIp \union OfId \union Counting \union {"get_client_connection_count"}
Queries == [op : OfIp, arg : Ips] \union [op : Counting, arg : {0}]
             \union [op : OfId \union {"get_client_connection_count"}, arg : Ids]
ASSUME RequestAssumption == NoRequest \notin Requests \union Queries

VARIABLES
  disk,      \* the tables as committed
  work,      \* the tables as the statements see them
  txn,       \* a transaction of the statements' handle is open
  slot,      \* m_prepared_statements: "absent", "null" or "live", by name
  db,        \* m_db: "none", "own" (the statements' handle) or "other"
  request,   \* the last call
  at,        \* how far the call is: "idle" when it has returned
  answer     \* what it returned: FALSE for false, -1 and the client of zeros; an
             \* id, also for the columns of that client, or how many there are

vars == <<disk, work, txn, slot, db, request, at, answer>>

\* the statements that calls made before connect() can damage, and the rest
Begin == "begin_transaction"
Slots == {Begin, "others"} \union Getters

NoAnswer == [ok |-> FALSE, id |-> 0]

TypeOK ==
  /\ disk \in Tables /\ work \in Tables
  /\ txn \in BOOLEAN
  /\ slot \in [Slots -> {"absent", "null", "live"}]
  /\ db \in {"none", "own", "other"}
  /\ request \in Requests \union Queries \union {NoRequest}
  /\ at \in {"idle", "begin", "step", "commit", "rollback"}
  /\ at # "idle" => request \in Requests
  /\ answer \in [ok : BOOLEAN, id : 0..MaxId]

NothingPrepared == [s \in Slots |-> "absent"]

Init ==
  /\ disk = NoTables /\ work = NoTables
  /\ txn = FALSE
  /\ slot = NothingPrepared
  /\ db = "none"
  /\ request = NoRequest /\ at = "idle" /\ answer = NoAnswer

-----------------------------------------------------------------------------
(* The statements of sql_queries.hpp                                       *)

With(f, k, v) == [i \in DOMAIN f \union {k} |-> IF i = k THEN v ELSE f[i]]
Without(f, S) == [i \in DOMAIN f \ S |-> f[i]]

LargestId(f) == CHOOSE i \in DOMAIN f \union {0} : \A j \in DOMAIN f : j <= i
NewClient(ip) == [ip |-> ip, connection_count |-> 0, event_count |-> 0]

\* UPDATE of a row that is not there changes nothing and succeeds
Counted(clients, id, counter) ==
  IF id \in DOMAIN clients THEN [clients EXCEPT ![id][counter] = @ + 1] ELSE clients

Effect(tables, r) ==
  LET c == tables.client
      k == tables.connection
      OnClients(f) == [tables EXCEPT !.client = f]
      OnConnections(f) == [tables EXCEPT !.connection = f]
  IN CASE r.op = "add_client" -> OnClients(With(c, LargestId(c) + 1, NewClient(r.arg)))
       [] r.op = "remove_client" -> OnClients(Without(c, {r.arg}))
       [] r.op = "remove_all_clients" -> OnClients(Without(c, DOMAIN c))
       [] r.op = "increment_connection_count" ->
            OnClients(Counted(c, r.arg, "connection_count"))
       [] r.op = "increment_event_count" -> OnClients(Counted(c, r.arg, "event_count"))
       [] r.op = "add_client_connection" -> OnConnections(With(k, LargestId(k) + 1, r.arg))
       [] r.op = "remove_connection" -> OnConnections(Without(k, {r.arg}))
       [] r.op = "remove_client_connections" ->
            OnConnections(Without(k, {i \in DOMAIN k : k[i] = r.arg}))
       [] OTHER -> OnConnections(Without(k, DOMAIN k))

\* slip: ip is not UNIQUE
NoConflict(tables, r) == FALSE

\* ip is UNIQUE
Conflict(tables, r) ==
  r.op = "add_client" /\ \E i \in DOMAIN tables.client : tables.client[i].ip = r.arg

\* the bounds: the call would make no id or counter too large
Fits(tables, r) == Effect(tables, r) \in Tables

-----------------------------------------------------------------------------
(* The object's life                                                       *)

\* connect(path): emplace() fills the names that are absent and keeps the
\* others, null ones included; a file that cannot be opened makes them null
Connect(opens) ==
  /\ at = "idle"
  /\ db = "none"
  /\ slot' = [s \in Slots |-> IF slot[s] # "absent" THEN slot[s]
                              ELSE IF opens THEN "live" ELSE "null"]
  /\ db' = IF opens /\ slot["others"] = "absent" THEN "own" ELSE "other"
  /\ request' = NoRequest
  /\ answer' = NoAnswer
  /\ UNCHANGED <<disk, work, txn, at>>

\* sqlite3_close() refuses while the statements live; m_db is null all the same
Disconnect ==
  /\ at = "idle"
  /\ db # "none"
  /\ db' = "none"
  /\ request' = NoRequest
  /\ answer' = NoAnswer
  /\ UNCHANGED <<disk, work, txn, slot, at>>

\* the process ends, or dies, and starts again: SQLite rolls back
Restart ==
  /\ work' = disk
  /\ txn' = FALSE
  /\ slot' = NothingPrepared
  /\ db' = "none"
  /\ request' = NoRequest /\ at' = "idle" /\ answer' = NoAnswer
  /\ UNCHANGED disk

-----------------------------------------------------------------------------
(* The calls                                                               *)

Return(ok, id) == at' = "idle" /\ answer' = [ok |-> ok, id |-> id]

Call(r) ==
  /\ at = "idle"
  /\ Fits(work, r)
  /\ request' = r
  /\ at' = "begin"
  /\ answer' = NoAnswer
  /\ UNCHANGED <<disk, work, txn, slot, db>>

\* operator[] inserts a null statement for a name that is absent
Touched(s) == [slot EXCEPT ![s] = IF @ = "absent" THEN "null" ELSE @]

\* slip: an open transaction is taken to be one's own
BeginJoins ==
  /\ at = "begin"
  /\ slot' = Touched(Begin)
  /\ \/ slot[Begin] = "live" /\ txn' = TRUE /\ at' = "step" /\ UNCHANGED answer
     \/ Return(FALSE, 0) /\ UNCHANGED txn
  /\ UNCHANGED <<disk, work, db, request>>

\* BEGIN may fail, and does within a transaction; then nothing is rolled back
BeginTransaction ==
  /\ at = "begin"
  /\ slot' = Touched(Begin)
  /\ \/ slot[Begin] = "live" /\ ~txn /\ txn' = TRUE /\ at' = "step" /\ UNCHANGED answer
     \/ Return(FALSE, 0) /\ UNCHANGED txn
  /\ UNCHANGED <<disk, work, db, request>>

\* slip: the result of sqlite3_step() is not looked at
StepUnchecked ==
  /\ at = "step"
  /\ \/ ~Conflict(work, request) /\ work' = Effect(work, request)
     \/ UNCHANGED work
  /\ at' = "commit"
  /\ UNCHANGED <<disk, txn, slot, db, request, answer>>

StepStatement ==
  /\ at = "step"
  /\ \/ ~Conflict(work, request) /\ work' = Effect(work, request) /\ at' = "commit"
     \/ at' = "rollback" /\ UNCHANGED work
  /\ UNCHANGED <<disk, txn, slot, db, request, answer>>

\* sqlite3_last_insert_rowid(m_db): a later handle has inserted nothing, and
\* without a handle the process dies (Restart)
Adds == {"add_client", "add_client_connection"}
\* slip: the row after the last one
RowIdNext == IF request.op = "add_client" THEN LargestId(work.client) + 1 ELSE 0

RowId == CASE request.op \notin Adds \/ db = "other" -> 0
           [] request.op = "add_client" -> LargestId(work.client)
           [] OTHER -> LargestId(work.connection)

\* slip: success is returned although COMMIT has rolled back
CommitUnchecked ==
  /\ at = "commit"
  /\ request.op \in Adds => db # "none"
  /\ disk' \in {disk, work}
  /\ work' = disk'
  /\ txn' = FALSE
  /\ Return(TRUE, RowId)
  /\ UNCHANGED <<slot, db, request>>

CommitTransaction ==
  /\ at = "commit"
  /\ request.op \in Adds => db # "none"
  /\ disk' = work
  /\ txn' = FALSE
  /\ Return(TRUE, RowId)
  /\ UNCHANGED <<work, slot, db, request>>

\* only these go on to rollback_transaction() when the commit fails
RollingBack == {"remove_connection", "remove_client_connections", "remove_all_connections"}

CommitFails ==
  /\ at = "commit"
  /\ request.op \in Adds => db # "none"
  /\ \/ UNCHANGED <<work, txn>>
     \/ work' = disk /\ txn' = FALSE
  /\ IF request.op \in RollingBack THEN at' = "rollback" /\ UNCHANGED answer
                                   ELSE Return(FALSE, 0)
  /\ UNCHANGED <<disk, slot, db, request>>

\* whether ROLLBACK succeeds is not looked at
RollbackTransaction ==
  /\ at = "rollback"
  /\ \/ work' = disk /\ txn' = FALSE
     \/ UNCHANGED <<work, txn>>
  /\ Return(FALSE, 0)
  /\ UNCHANGED <<disk, slot, db, request>>

\* what a getter finds: the row, if there is one, or the number of rows
Found(tables, r) ==
  CASE r.op \in OfIp -> {i \in DOMAIN tables.client : tables.client[i].ip = r.arg}
    [] r.op \in OfId -> {i \in DOMAIN tables.client : i = r.arg}
    [] r.op = "get_client_connection_count" ->
         {Cardinality({k \in DOMAIN tables.connection : tables.connection[k] = r.arg})}
    [] OTHER -> {Cardinality(DOMAIN tables.client)}

\* a getter has no transaction of its own and asks no handle; one that fails
\* says the same as one that finds nothing (get_client_connection_count goes
\* on with a null statement, which SQLite refuses)
Get(r) ==
  /\ at = "idle"
  /\ slot[r.op] = "absent" => r.op \in Early
  /\ request' = r
  /\ slot' = Touched(r.op)
  /\ \/ slot[r.op] = "live" /\ \E i \in Found(work, r) : Return(TRUE, i)
     \/ Return(FALSE, 0)
  /\ UNCHANGED <<disk, work, txn, db>>

-----------------------------------------------------------------------------
Step ==
  \/ BeginTransaction \/ StepStatement \/ CommitTransaction \/ CommitFails
  \/ RollbackTransaction

Next ==
  \/ \E opens \in BOOLEAN : Connect(opens)
  \/ Disconnect \/ Restart
  \/ \E r \in Requests : Call(r)
  \/ \E r \in Queries : Get(r)
  \/ Step

Spec == Init /\ [][Next]_vars

-----------------------------------------------------------------------------
(* What the repositories promise                                           *)

\* A call that changes the tables does so whole and returns success, or not
\* at all: what is committed evolves as ClientRepository says, whichever
\* statement fails, however the object is connected, and over restarts.
Repository == INSTANCE ClientRepository WITH
  Empty <- NoTables,
  tables <- disk,
  doing <- IF at = "idle" THEN NoRequest ELSE request,
  done <- at = "idle" /\ request \in Requests /\ answer.ok

ImplementsRepository == Repository!SafeSpec

\* As long as no transaction is left open, what a getter returns is what is
\* committed (263-409, 615-633), whatever has failed before; and on the handle
\* of the first connect() the id add_client returns is the one a lookup of that
\* client finds there (126-134).
AnswersAreCommitted ==
  at = "idle" /\ answer.ok /\ ~txn =>
    /\ request \in Queries => answer.id \in Found(disk, request)
    /\ request.op = "add_client" /\ db = "own" =>
         answer.id \in Found(disk, [op |-> "get_client_id_by_ip", arg |-> request.arg])

\* No two rows are about the same client, also when ids are used again after
\* removals (sql_queries.hpp:19, SqliteDatabase.cpp:101-164).
OneRowPerClient ==
  \A i, j \in DOMAIN disk.client : disk.client[i].ip = disk.client[j].ip => i = j

\* A transaction that a call leaves open (129-132, 157, 185, 219, 254, 497, or
\* any failed ROLLBACK) can be neither committed nor rolled back by a later
\* one: from then on every change is refused and nothing reaches the file,
\* until a restart.
Stuck == txn /\ at \in {"idle", "begin"}

StuckUntilRestart ==
  [][Stuck => /\ disk' = disk
              /\ Stuck' \/ (~txn' /\ slot'[Begin] = "absent")
              /\ ~(answer'.ok /\ request' \in Requests)]_vars

\* `ON DELETE CASCADE' (sql_queries.hpp:78): a committed removal of clients
\* (SqliteDatabase.cpp:137-191) takes their connections with it.
RemovalCascades ==
  [][\A id \in DOMAIN disk.client \ DOMAIN disk'.client :
       \A k \in DOMAIN disk'.connection : disk'.connection[k] # id]_vars

\* EXPECT_EQ(id, get_id) (SqliteDatabaseTests.cpp:207): the id add_client
\* returns is that of the client it added.
AddReturnsItsClient ==
  at = "idle" /\ answer.ok /\ request.op = "add_client" =>
    answer.id \in DOMAIN disk.client /\ disk.client[answer.id].ip = request.arg

=============================================================================
