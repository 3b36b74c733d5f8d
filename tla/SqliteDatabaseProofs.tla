-------------------------- MODULE SqliteDatabaseProofs --------------------------
(***************************************************************************)
(* What SqliteDatabase promises, proved for any addresses and any bounds.  *)
(***************************************************************************)
EXTENDS SqliteDatabase, FiniteSetTheorems, WellFoundedInduction, TLAPS

-----------------------------------------------------------------------------
(* The state of a call in progress                                         *)

\* What a call at each point of its way has read and written: the view and
\* the committed tables differ by its own change alone.
CallInv ==
  /\ ~txn => work = disk
  /\ at # "idle" => request \in Requests
  /\ at = "begin" /\ ~txn => Fits(disk, request)
  /\ at = "step" => txn /\ work = disk /\ Fits(disk, request)
  /\ at = "commit" => txn /\ ~Conflict(disk, request) /\ Fits(disk, request)
                          /\ work = Effect(disk, request)
  /\ at \in {"idle", "begin", "step", "commit", "rollback"}

\* A lookup is not one of the calls that change the tables.
LEMMA QueriesAreNotRequests == Queries \intersect Requests = {}
BY DEF Queries, OfIp, OfId, Counting, Requests, ByIp, ById, OfAll

\* Nor is any of its kind.
LEMMA GettersAreNotRequests == \A r \in Queries : r.op \in Getters /\ r.op # "add_client"
BY DEF Queries, Getters, OfIp, OfId, Counting

\* A new process has no call in progress.
LEMMA CallInvInit == Init => CallInv
BY DEF Init, CallInv

\* Every step of a call leaves the view one change ahead of the file at most.
LEMMA CallInvStep == CallInv /\ [Next]_vars => CallInv'
<1> SUFFICES ASSUME CallInv, [Next]_vars PROVE CallInv'
  OBVIOUS
<1> USE DEF CallInv
<1>1. CASE UNCHANGED vars
  BY <1>1 DEF vars, Fits, Conflict
<1>2. ASSUME NEW opens \in BOOLEAN, Connect(opens) PROVE CallInv'
  BY <1>2 DEF Connect
<1>3. CASE Disconnect
  BY <1>3 DEF Disconnect
<1>4. CASE Restart
  BY <1>4 DEF Restart
<1>5. ASSUME NEW r \in Requests, Call(r) PROVE CallInv'
  BY <1>5 DEF Call, Fits
<1>6. ASSUME NEW r \in Queries, Get(r) PROVE CallInv'
  BY <1>6 DEF Get, Return
<1>7. CASE BeginTransaction
  BY <1>7 DEF BeginTransaction, Return, Fits
<1>8. CASE StepStatement
  BY <1>8 DEF StepStatement, Fits, Conflict
<1>9. CASE CommitTransaction
  BY <1>9 DEF CommitTransaction, Return
<1>10. CASE CommitFails
  <2>1. txn /\ at' \in {"idle", "rollback"} /\ request' = request /\ disk' = disk
    BY <1>10 DEF CommitFails, Return
  <2>2. txn' = txn \/ work' = disk
    BY <1>10 DEF CommitFails
  <2>3. request \in Requests
    BY <1>10 DEF CommitFails
  <2> QED
    BY <2>1, <2>2, <2>3
<1>11. CASE RollbackTransaction
  <2>1. at' = "idle" /\ disk' = disk
    BY <1>11 DEF RollbackTransaction, Return
  <2>2. (work' = work /\ txn' = txn) \/ work' = disk
    BY <1>11 DEF RollbackTransaction
  <2> QED
    BY <2>1, <2>2
<1> QED
  BY <1>1, <1>2, <1>3, <1>4, <1>5, <1>6, <1>7, <1>8, <1>9, <1>10, <1>11 DEF Next, Step

\* Hence, in every state, the view is at most one change ahead of the file.
LEMMA CallInvCorrect == Spec => []CallInv
BY CallInvInit, CallInvStep, PTL DEF Spec

-----------------------------------------------------------------------------
(* The repository                                                          *)

\* The initial tables are those of an empty repository.
LEMMA RepositoryInit == Init => Repository!Init
BY RequestAssumption DEF Init, Repository!Init

\* Every step of the transactions is a step of the repository or none.
LEMMA RepositoryStep == CallInv /\ [Next]_vars => [Repository!Next]_(Repository!vars)
<1> SUFFICES ASSUME CallInv, [Next]_vars
             PROVE  Repository!Next \/ UNCHANGED Repository!vars
  OBVIOUS
<1> USE RequestAssumption
<1>1. CASE UNCHANGED vars
  BY <1>1 DEF vars, Repository!vars
<1>2. ASSUME NEW opens \in BOOLEAN, Connect(opens) PROVE Repository!GiveUp
  BY <1>2 DEF Connect, Repository!GiveUp
<1>3. CASE Disconnect
  BY <1>3 DEF Disconnect, Repository!Next, Repository!GiveUp
<1>4. CASE Restart
  BY <1>4 DEF Restart, Repository!Next, Repository!GiveUp
<1>5. ASSUME NEW r \in Requests, Call(r) PROVE Repository!Begin(r)
  BY <1>5 DEF Call, Repository!Begin, NoAnswer
<1>6. ASSUME NEW r \in Queries, Get(r) PROVE Repository!GiveUp
  <2>1. request' \notin Requests
    BY <1>6, QueriesAreNotRequests DEF Get
  <2> QED
    BY <1>6, <2>1 DEF Get, Return, Repository!GiveUp
<1>7. CASE BeginTransaction
  BY <1>7 DEF BeginTransaction, Return, Repository!Next, Repository!GiveUp, Repository!vars
<1>8. CASE StepStatement
  BY <1>8 DEF StepStatement, Repository!vars
<1>9. CASE CommitTransaction
  BY <1>9 DEF CallInv, CommitTransaction, Return, Repository!Next, Repository!Succeed
<1>10. CASE CommitFails
  BY <1>10 DEF CommitFails, Return, Repository!Next, Repository!GiveUp, Repository!vars
<1>11. CASE RollbackTransaction
  BY <1>11 DEF RollbackTransaction, Return, Repository!Next, Repository!GiveUp
<1> QED
  BY <1>1, <1>2, <1>3, <1>4, <1>5, <1>6, <1>7, <1>8, <1>9, <1>10, <1>11
     DEF Next, Step, Repository!Next

\* However the statements fail and the object is connected, what is committed
\* evolves by whole calls that say what they did (SqliteDatabase.cpp:101-613).
THEOREM RepositoryImplemented == Spec => ImplementsRepository
BY CallInvCorrect, RepositoryInit, RepositoryStep, PTL
   DEF Spec, ImplementsRepository, Repository!SafeSpec

-----------------------------------------------------------------------------
(* A transaction left open                                                 *)

\* No call gets past BEGIN while a transaction is open, so none commits it or
\* rolls it back (SqliteDatabase.cpp:412-429); the next start of the process does.
THEOREM StuckUntilRestartCorrect == Spec => StuckUntilRestart
<1> DEFINE Kept == Stuck => /\ disk' = disk
                            /\ Stuck' \/ (~txn' /\ slot'[Begin] = "absent")
                            /\ ~(answer'.ok /\ request' \in Requests)
<1>1. Next => Kept
  <2> SUFFICES ASSUME Next, Stuck PROVE Kept
    OBVIOUS
  <2> USE RequestAssumption DEF Stuck, NoAnswer
  <2>1. ASSUME NEW opens \in BOOLEAN, Connect(opens) PROVE Kept
    BY <2>1 DEF Connect
  <2>2. CASE Disconnect
    BY <2>2 DEF Disconnect
  <2>3. CASE Restart
    BY <2>3 DEF Restart, NothingPrepared, Slots
  <2>4. ASSUME NEW r \in Requests, Call(r) PROVE Kept
    BY <2>4 DEF Call
  <2>5. ASSUME NEW r \in Queries, Get(r) PROVE Kept
    <3>1. request' \notin Requests
      BY <2>5, QueriesAreNotRequests DEF Get
    <3>2. slot'[Begin] = slot[Begin]
      <4>1. r.op # Begin
        BY GettersAreNotRequests DEF Getters, OfIp, OfId, Counting, Begin
      <4> QED
        BY <2>5, <4>1 DEF Get, Touched
    <3> QED
      BY <2>5, <3>1, <3>2 DEF Get, Return
  <2>6. CASE BeginTransaction
    <3>1. Return(FALSE, 0) /\ txn' = txn /\ disk' = disk
      BY <2>6 DEF BeginTransaction
    <3> QED
      BY <3>1 DEF Return
  <2>7. ~StepStatement /\ ~CommitTransaction /\ ~CommitFails /\ ~RollbackTransaction
    BY DEF StepStatement, CommitTransaction, CommitFails, RollbackTransaction
  <2> QED
    BY <2>1, <2>2, <2>3, <2>4, <2>5, <2>6, <2>7 DEF Next, Step
<1> QED
  BY <1>1, PTL DEF Spec, StuckUntilRestart

-----------------------------------------------------------------------------
(* Types                                                                   *)

\* Every nonempty set of naturals has a least element.
LEMMA LeastNatural ==
  ASSUME NEW T \in SUBSET Nat, T # {}
  PROVE  \E x \in T : \A y \in T : ~(y < x)
<1>1. \E x \in T : \A y \in T : <<y, x>> \notin OpToRel(<, Nat)
  BY NatLessThanWellFounded, WFMin
<1> QED
  BY <1>1 DEF OpToRel

\* The largest id of a table is an id of it or 0, and bounds its ids
\* (sql_queries.hpp:18: INTEGER PRIMARY KEY).
LEMMA LargestIdBounds ==
  ASSUME NEW f, DOMAIN f \subseteq Ids
  PROVE  /\ LargestId(f) \in DOMAIN f \union {0}
         /\ LargestId(f) \in 0..MaxId
         /\ \A j \in DOMAIN f : j <= LargestId(f)
<1> USE BoundAssumption DEF Ids
<1> DEFINE T == {MaxId - i : i \in DOMAIN f \union {0}}
<1>1. T \in SUBSET Nat /\ T # {}
  OBVIOUS
<1>2. PICK x \in T : \A y \in T : ~(y < x)
  BY <1>1, LeastNatural
<1>3. PICK i \in DOMAIN f \union {0} : x = MaxId - i
  BY <1>2
<1>4. \A j \in DOMAIN f : j <= i
  <2> SUFFICES ASSUME NEW j \in DOMAIN f PROVE j <= i
    OBVIOUS
  <2>1. ~(MaxId - j < MaxId - i)
    BY <1>2, <1>3
  <2> QED
    BY <2>1, <1>3
<1>5. /\ LargestId(f) \in DOMAIN f \union {0}
      /\ \A j \in DOMAIN f : j <= LargestId(f)
  BY <1>3, <1>4 DEF LargestId
<1> QED
  BY <1>5

\* The id of a row just added is the largest one.
LEMMA LargestOfAdded ==
  ASSUME NEW f, NEW v, DOMAIN f \subseteq Ids, LargestId(f) + 1 \in Ids
  PROVE  LargestId(With(f, LargestId(f) + 1, v)) = LargestId(f) + 1
<1> DEFINE k == LargestId(f) + 1
           g == With(f, k, v)
<1>1. DOMAIN g = DOMAIN f \union {k}
  BY DEF With
<1>2. LargestId(f) \in 0..MaxId /\ \A j \in DOMAIN f : j <= LargestId(f)
  BY LargestIdBounds
<1>3. DOMAIN g \subseteq Ids
  BY <1>1
<1>4. LargestId(g) \in DOMAIN g \union {0} /\ \A j \in DOMAIN g : j <= LargestId(g)
  BY <1>3, LargestIdBounds
<1> HIDE DEF g
<1>5. k <= LargestId(g)
  BY <1>1, <1>4
<1>6. LargestId(g) <= k
  BY <1>1, <1>2, <1>4, BoundAssumption DEF Ids
<1>7. LargestId(g) \in Nat
  BY <1>3, <1>4, BoundAssumption DEF Ids
<1> QED
  BY <1>2, <1>5, <1>6, <1>7, BoundAssumption DEF g

\* The ids of a table's rows are Ids.
LEMMA TableDomains ==
  ASSUME NEW t \in Tables
  PROVE  DOMAIN t.client \subseteq Ids /\ DOMAIN t.connection \subseteq Ids
BY DEF Tables, Partial

\* A table has no more rows than there are ids.
LEMMA FewRows == ASSUME NEW D \in SUBSET Ids PROVE Cardinality(D) \in 0..MaxId
<1>1. IsFiniteSet(Ids) /\ Cardinality(Ids) = MaxId
  BY FS_Interval, BoundAssumption DEF Ids
<1>2. IsFiniteSet(D) /\ Cardinality(D) <= MaxId
  BY <1>1, FS_Subset
<1> QED
  BY <1>2, FS_CardinalityType, BoundAssumption

\* What a getter finds is an id or a number of rows (SqliteDatabase.cpp:263-377,
\* 615-633).
LEMMA FoundTypes == \A t \in Tables : \A r : Found(t, r) \subseteq 0..MaxId
<1> SUFFICES ASSUME NEW t \in Tables, NEW r PROVE Found(t, r) \subseteq 0..MaxId
  OBVIOUS
<1>1. DOMAIN t.client \subseteq Ids /\ DOMAIN t.connection \subseteq Ids
  BY TableDomains
<1>2. Ids \subseteq 0..MaxId
  BY BoundAssumption DEF Ids
<1>3. /\ Cardinality(DOMAIN t.client) \in 0..MaxId
      /\ Cardinality({k \in DOMAIN t.connection : t.connection[k] = r.arg}) \in 0..MaxId
  BY <1>1, FewRows
<1> QED
  BY <1>1, <1>2, <1>3 DEF Found

\* A getter that is given an address finds the rows of that address.
LEMMA FoundByIp ==
  ASSUME NEW t, NEW r, r.op \in OfIp
  PROVE  Found(t, r) = {i \in DOMAIN t.client : t.client[i].ip = r.arg}
<1>1. r.op \notin OfId /\ r.op # "get_client_connection_count"
  BY DEF OfIp, OfId
<1> QED
  BY <1>1 DEF Found

\* What a call returns has the type of an answer.
LEMMA ReturnTypes ==
  /\ 0 \in 0..MaxId
  /\ NoAnswer \in [ok : BOOLEAN, id : 0..MaxId]
  /\ \A ok \in BOOLEAN, id \in 0..MaxId :
       Return(ok, id) => answer' \in [ok : BOOLEAN, id : 0..MaxId] /\ at' = "idle"
BY BoundAssumption DEF Return, NoAnswer

\* Every step keeps every variable in its type; the bounds on the ids hold
\* because a call is let in only when its effect keeps them.
LEMMA TypeStep == TypeOK /\ CallInv /\ [Next]_vars => TypeOK'
<1> SUFFICES ASSUME TypeOK, CallInv, [Next]_vars PROVE TypeOK'
  OBVIOUS
<1> USE DEF TypeOK
<1>0. /\ 0 \in 0..MaxId
      /\ NoAnswer \in [ok : BOOLEAN, id : 0..MaxId]
  BY ReturnTypes
<1>1. CASE UNCHANGED vars
  BY <1>1 DEF vars
<1>2. ASSUME NEW opens \in BOOLEAN, Connect(opens) PROVE TypeOK'
  BY <1>0, <1>2 DEF Connect
<1>3. CASE Disconnect
  BY <1>0, <1>3 DEF Disconnect
<1>4. CASE Restart
  BY <1>0, <1>4 DEF Restart, NothingPrepared
<1>5. ASSUME NEW r \in Requests, Call(r) PROVE TypeOK'
  BY <1>0, <1>5 DEF Call
<1>6. ASSUME NEW r \in Queries, Get(r) PROVE TypeOK'
  <2>1. request' \in Queries
    BY <1>6 DEF Get
  <2>2. answer' \in [ok : BOOLEAN, id : 0..MaxId] /\ at' = "idle"
    <3>1. \E ok \in BOOLEAN, i \in 0..MaxId : Return(ok, i)
      BY <1>0, <1>6, FoundTypes DEF Get
    <3> QED
      BY <3>1, ReturnTypes
  <2>3. slot' \in [Slots -> {"absent", "null", "live"}]
    BY <1>6 DEF Get, Touched
  <2> QED
    BY <1>6, <2>1, <2>2, <2>3 DEF Get
<1>7. CASE BeginTransaction
  <2>1. slot' \in [Slots -> {"absent", "null", "live"}]
    BY <1>7 DEF BeginTransaction, Touched
  <2> QED
    BY <1>7, <2>1, ReturnTypes DEF BeginTransaction
<1>8. CASE StepStatement
  BY <1>8 DEF StepStatement, CallInv, Fits
<1>9. CASE CommitTransaction
  <2>1. RowId \in 0..MaxId
    BY <1>0, TableDomains, LargestIdBounds DEF RowId
  <2> QED
    BY <1>9, <2>1, ReturnTypes DEF CommitTransaction
<1>10. CASE CommitFails
  <2>1. answer' \in [ok : BOOLEAN, id : 0..MaxId] /\ at' \in {"idle", "rollback"}
    BY <1>10, ReturnTypes DEF CommitFails
  <2>2. work' \in Tables /\ txn' \in BOOLEAN
    BY <1>10 DEF CommitFails
  <2> QED
    BY <1>10, <2>1, <2>2 DEF CommitFails
<1>11. CASE RollbackTransaction
  BY <1>11, ReturnTypes DEF RollbackTransaction
<1> QED
  BY <1>1, <1>2, <1>3, <1>4, <1>5, <1>6, <1>7, <1>8, <1>9, <1>10, <1>11 DEF Next, Step

\* The tables, the statements and the answers keep their types
\* (SqliteDatabase.hpp:90-93, sql_queries.hpp:16-24, 73-80).
THEOREM TypeCorrect == Spec => []TypeOK
<1>1. Init => TypeOK
  <2>1. NoTables \in Tables
    BY DEF NoTables, Tables, Partial
  <2> QED
    BY <2>1, ReturnTypes DEF Init, TypeOK, NothingPrepared
<1> QED
  BY <1>1, CallInvCorrect, TypeStep, PTL DEF Spec

-----------------------------------------------------------------------------
(* Rows                                                                    *)

\* Every step that returns an answer returns one about what is committed.
LEMMA AnswersStep ==
  TypeOK /\ CallInv /\ AnswersAreCommitted /\ [Next]_vars => AnswersAreCommitted'
<1> SUFFICES ASSUME TypeOK, CallInv, AnswersAreCommitted, [Next]_vars PROVE AnswersAreCommitted'
  OBVIOUS
<1>1. CASE UNCHANGED vars
  BY <1>1 DEF vars, AnswersAreCommitted
<1>2. ASSUME NEW opens \in BOOLEAN, Connect(opens) PROVE AnswersAreCommitted'
  BY <1>2 DEF Connect, NoAnswer, AnswersAreCommitted
<1>3. CASE Disconnect \/ Restart
  BY <1>3 DEF Disconnect, Restart, NoAnswer, AnswersAreCommitted
<1>4. ASSUME NEW r \in Requests, Call(r) PROVE AnswersAreCommitted'
  BY <1>4 DEF Call, AnswersAreCommitted
<1>5. ASSUME NEW r \in Queries, Get(r) PROVE AnswersAreCommitted'
  <2> SUFFICES ASSUME answer'.ok, ~txn' PROVE answer'.id \in Found(disk', r)
    BY <1>5, GettersAreNotRequests DEF AnswersAreCommitted, Get
  <2>1. ~Return(FALSE, 0)
    BY DEF Return
  <2>2. PICK i \in Found(work, r) : Return(TRUE, i)
    BY <1>5, <2>1 DEF Get
  <2>3. disk' = work
    BY <1>5 DEF Get, CallInv
  <2> QED
    BY <2>2, <2>3 DEF Return
<1>6. CASE BeginTransaction
  BY <1>6 DEF BeginTransaction, Return, AnswersAreCommitted
<1>7. CASE StepStatement
  BY <1>7 DEF StepStatement, AnswersAreCommitted
<1>8. CASE CommitTransaction
  <2> DEFINE lookup == [op |-> "get_client_id_by_ip", arg |-> request.arg]
  <2>0. request \in Requests /\ request \notin Queries
    BY <1>8, QueriesAreNotRequests DEF CommitTransaction, CallInv
  <2> SUFFICES ASSUME db = "own", request.op = "add_client"
               PROVE  answer'.id \in Found(disk', lookup)
    BY <1>8, <2>0 DEF CommitTransaction, AnswersAreCommitted
  <2>1. /\ Fits(disk, request)
        /\ work = Effect(disk, request)
        /\ disk' = work
        /\ answer'.id = RowId
    BY <1>8 DEF CommitTransaction, CallInv, Return
  <2> DEFINE c == disk.client
             k == LargestId(c) + 1
  <2>3. work.client = With(c, k, NewClient(request.arg))
    BY <2>1 DEF Effect, TypeOK, Tables
  <2>4. k \in DOMAIN work.client /\ work.client[k].ip = request.arg
    BY <2>3 DEF With, NewClient
  <2>5. DOMAIN c \subseteq Ids /\ k \in Ids
    BY <2>1, <2>4, TableDomains DEF Fits, TypeOK
  <2>6. RowId = k
    BY <2>3, <2>5, LargestOfAdded DEF RowId, Adds
  <2>7. Found(disk', lookup) = {i \in DOMAIN work.client : work.client[i].ip = request.arg}
    <3>1. lookup.op \in OfIp /\ lookup.arg = request.arg
      BY DEF OfIp
    <3>2. Found(work, lookup) = {i \in DOMAIN work.client : work.client[i].ip = lookup.arg}
      BY <3>1, FoundByIp
    <3>3. disk' = work
      BY <2>1
    <3> QED
      BY <3>1, <3>2, <3>3
  <2> QED
    BY <2>1, <2>4, <2>6, <2>7
<1>9. CASE CommitFails
  BY <1>9 DEF CommitFails, Return, AnswersAreCommitted
<1>10. CASE RollbackTransaction
  BY <1>10 DEF RollbackTransaction, Return, AnswersAreCommitted
<1> QED
  BY <1>1, <1>2, <1>3, <1>4, <1>5, <1>6, <1>7, <1>8, <1>9, <1>10 DEF Next, Step

\* What the getters return (SqliteDatabase.cpp:263-409, 615-633), and the id
\* add_client returns (126-134), is about committed rows.
THEOREM AnswersAreCommittedCorrect == Spec => []AnswersAreCommitted
<1>1. Init => AnswersAreCommitted
  BY DEF Init, NoAnswer, AnswersAreCommitted
<1> QED
  BY <1>1, TypeCorrect, CallInvCorrect, AnswersStep, PTL DEF Spec

UniqueIn(clients) ==
  \A i, j \in DOMAIN clients : clients[i].ip = clients[j].ip => i = j

\* No call that does not conflict makes a second row for an address.
LEMMA UniqueEffect ==
  ASSUME NEW t \in Tables, NEW r \in Requests, ~Conflict(t, r), UniqueIn(t.client)
  PROVE  UniqueIn(Effect(t, r).client)
<1> DEFINE c == t.client
<1>1. c \in Partial(Client)
  BY DEF Tables
<1>2. CASE r.op = "add_client"
  <2>1. Effect(t, r).client = With(c, LargestId(c) + 1, NewClient(r.arg))
    BY <1>2 DEF Effect, Tables
  <2>2. \A i \in DOMAIN c : c[i].ip # r.arg
    BY <1>2 DEF Conflict
  <2> QED
    BY <2>1, <2>2 DEF With, NewClient, UniqueIn
<1>3. CASE r.op = "remove_client"
  <2>1. Effect(t, r).client = Without(c, {r.arg})
    BY <1>3 DEF Effect, Tables
  <2> QED
    BY <2>1 DEF Without, UniqueIn
<1>4. CASE r.op = "remove_all_clients"
  <2>1. Effect(t, r).client = Without(c, DOMAIN c)
    BY <1>4 DEF Effect, Tables
  <2> QED
    BY <2>1 DEF Without, UniqueIn
<1>5. ASSUME NEW n \in {"connection_count", "event_count"}
      PROVE  UniqueIn(Counted(c, r.arg, n))
  <2>1. /\ DOMAIN Counted(c, r.arg, n) = DOMAIN c
        /\ \A i \in DOMAIN c : Counted(c, r.arg, n)[i].ip = c[i].ip
    BY <1>1 DEF Counted, Partial, Client
  <2> QED
    BY <2>1 DEF UniqueIn
<1>6. CASE r.op \in {"increment_connection_count", "increment_event_count"}
  <2>1. \E n \in {"connection_count", "event_count"} :
          Effect(t, r).client = Counted(c, r.arg, n)
    BY <1>6 DEF Effect, Tables
  <2> QED
    BY <1>5, <2>1
<1>7. CASE r.op \notin {"add_client", "remove_client", "remove_all_clients",
                        "increment_connection_count", "increment_event_count"}
  <2>1. Effect(t, r).client = c
    BY <1>7 DEF Effect, Tables
  <2> QED
    BY <2>1
<1> QED
  BY <1>2, <1>3, <1>4, <1>6, <1>7

\* Every address has one row at most, also after removals and restarts
\* (sql_queries.hpp:19, SqliteDatabase.cpp:101-191).
THEOREM OneRowPerClientCorrect == Spec => []OneRowPerClient
<1>1. Init => OneRowPerClient
  BY DEF Init, NoTables, OneRowPerClient
<1>2. TypeOK /\ CallInv /\ OneRowPerClient /\ [Next]_vars => OneRowPerClient'
  <2> SUFFICES ASSUME TypeOK, CallInv, OneRowPerClient, [Next]_vars PROVE OneRowPerClient'
    OBVIOUS
  <2>1. disk' = disk \/ CommitTransaction
    BY DEF Next, Step, vars, Connect, Disconnect, Restart, Call, Get,
           BeginTransaction, StepStatement, CommitFails, RollbackTransaction
  <2>2. CASE disk' = disk
    BY <2>2 DEF OneRowPerClient
  <2>3. CASE CommitTransaction
    <3>1. disk' = Effect(disk, request) /\ ~Conflict(disk, request) /\ request \in Requests
      BY <2>3 DEF CommitTransaction, CallInv
    <3>2. UniqueIn(Effect(disk, request).client)
      BY <3>1, UniqueEffect DEF TypeOK, OneRowPerClient, UniqueIn
    <3> QED
      BY <3>1, <3>2 DEF OneRowPerClient, UniqueIn
  <2> QED
    BY <2>1, <2>2, <2>3
<1> QED
  BY <1>1, <1>2, TypeCorrect, CallInvCorrect, PTL DEF Spec
=============================================================================
