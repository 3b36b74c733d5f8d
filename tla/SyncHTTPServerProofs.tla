-------------------------- MODULE SyncHTTPServerProofs --------------------------
(***************************************************************************)
(* What SyncHTTPServer promises, proved for any clients, addresses, stream *)
(* and bounds.  What is known of the database comes from                   *)
(* SqliteDatabaseProofs, whose definitions are those of the server's       *)
(* database under another name.                                            *)
(***************************************************************************)
EXTENDS SyncHTTPServer, ClientStreamProofs, FiniteSetTheorems, SequenceTheorems,
        WellFoundedInduction, TLAPS

DbP == INSTANCE SqliteDatabaseProofs WITH Early <- {}

-----------------------------------------------------------------------------
(* The database                                                            *)

\* The calls that can be made are the same.
LEMMA SameRequests == Db!Requests = DbP!Requests /\ Db!Queries = DbP!Queries
BY Zenon DEF Db!ByIp, DbP!ByIp, Db!ById, DbP!ById, Db!OfAll, DbP!OfAll, Db!Ids, DbP!Ids,
             Db!Requests, DbP!Requests, Db!OfIp, DbP!OfIp, Db!OfId, DbP!OfId, Db!Counting,
             DbP!Counting, Db!Queries, DbP!Queries

\* The tables keep to the same types.
LEMMA SameTypes == Db!TypeOK <=> DbP!TypeOK
BY Zenon DEF Db!TypeOK, DbP!TypeOK, Db!Slots, DbP!Slots, Db!Begin, DbP!Begin, Db!Getters,
             DbP!Getters, Db!Ids, DbP!Ids, Db!Client, DbP!Client, Db!Partial, DbP!Partial,
             Db!Tables, DbP!Tables, Db!NoTables, DbP!NoTables, Db!ByIp, DbP!ByIp, Db!ById,
             DbP!ById, Db!OfAll, DbP!OfAll, Db!Ids, DbP!Ids, Db!Requests, DbP!Requests, Db!OfIp,
             DbP!OfIp, Db!OfId, DbP!OfId, Db!Counting, DbP!Counting, Db!Queries, DbP!Queries

\* The object begins alike.
LEMMA SameInit == Db!Init <=> DbP!Init
BY Zenon DEF Db!Init, DbP!Init, Db!NoTables, DbP!NoTables, Db!NothingPrepared,
             DbP!NothingPrepared, Db!Slots, DbP!Slots, Db!Begin, DbP!Begin, Db!Getters,
             DbP!Getters, Db!OfIp, DbP!OfIp, Db!OfId, DbP!OfId, Db!Counting, DbP!Counting,
             Db!NoAnswer, DbP!NoAnswer

\* The lookup of the server.
LookupOf(p) == [op |-> "get_client_id_by_ip", arg |-> p]

\* What it finds is the same.
LEMMA SameFound ==
  \A t, p : /\ DbP!Found(t, LookupOf(p)) = Db!Found(t, LookupOf(p))
            /\ Db!Found(t, LookupOf(p)) = {i \in DOMAIN t.client : t.client[i].ip = p}
BY DEF LookupOf, Db!Found, DbP!Found, Db!OfIp, DbP!OfIp, Db!OfId, DbP!OfId

\* It does the same.
LEMMA SameGet == \A p : Db!Get(LookupOf(p)) <=> DbP!Get(LookupOf(p))
<1> SUFFICES ASSUME NEW p PROVE Db!Get(LookupOf(p)) <=> DbP!Get(LookupOf(p))
  OBVIOUS
<1> DEFINE r == LookupOf(p)
<1>1. Db!Found(work, r) = DbP!Found(work, r)
  BY SameFound
<1>2. Db!Touched(r.op) = DbP!Touched(r.op)
  BY DEF Db!Touched, DbP!Touched
<1>3. \A ok, i : Db!Return(ok, i) <=> DbP!Return(ok, i)
  BY DEF Db!Return, DbP!Return
<1> HIDE DEF r
<1> QED
  BY <1>1, <1>2, <1>3 DEF Db!Get, DbP!Get, r

\* A call begins alike.
LEMMA SameCall == \A r : Db!Call(r) <=> DbP!Call(r)
BY Zenon DEF Db!Call, DbP!Call, Db!NoAnswer, DbP!NoAnswer, Db!Fits, DbP!Fits, Db!Ids, DbP!Ids,
             Db!Client, DbP!Client, Db!Partial, DbP!Partial, Db!Tables, DbP!Tables, Db!NoTables,
             DbP!NoTables, Db!Effect, DbP!Effect, Db!With, DbP!With, Db!Without, DbP!Without,
             Db!LargestId, DbP!LargestId, Db!NewClient, DbP!NewClient, Db!Counted, DbP!Counted

\* A connection and a restart do the same.
LEMMA SameLife ==
  /\ \A opens : Db!Connect(opens) <=> DbP!Connect(opens)
  /\ Db!Restart <=> DbP!Restart
BY Zenon DEF Db!Connect, DbP!Connect, Db!Restart, DbP!Restart, Db!NoAnswer, DbP!NoAnswer,
             Db!NothingPrepared, DbP!NothingPrepared, Db!Slots, DbP!Slots, Db!Begin, DbP!Begin,
             Db!Getters, DbP!Getters, Db!OfIp, DbP!OfIp, Db!OfId, DbP!OfId, Db!Counting,
             DbP!Counting

\* So do the statements of a call.
LEMMA SameStep == Db!Step <=> DbP!Step
BY Zenon DEF Db!Step, DbP!Step, Db!BeginTransaction, DbP!BeginTransaction, Db!StepStatement,
             DbP!StepStatement, Db!CommitTransaction, DbP!CommitTransaction, Db!CommitFails,
             DbP!CommitFails, Db!RollbackTransaction, DbP!RollbackTransaction, Db!Begin,
             DbP!Begin, Db!Touched, DbP!Touched, Db!Return, DbP!Return, Db!Conflict,
             DbP!Conflict, Db!RollingBack, DbP!RollingBack, Db!Adds, DbP!Adds, Db!RowId,
             DbP!RowId, Db!Effect, DbP!Effect, Db!With, DbP!With, Db!Without, DbP!Without,
             Db!LargestId, DbP!LargestId, Db!NewClient, DbP!NewClient, Db!Counted, DbP!Counted

\* What the theorems of the database rest on.
LEMMA DatabaseAssumed ==
  (MaxId \in Nat /\ MaxCount \in Nat) /\ NoRequest \notin DbP!Requests \union DbP!Queries
BY DatabaseAssumption, SameRequests


-----------------------------------------------------------------------------
(* The thread                                                              *)

\* Only start() makes a thread, and stop() gives control back without it.
LEMMA NoThreadStep == NoThreadOutlivesStop /\ [Next]_vars => NoThreadOutlivesStop'
<1> SUFFICES ASSUME NoThreadOutlivesStop, [Next]_vars PROVE NoThreadOutlivesStop'
  OBVIOUS
<1> USE DEF NoThreadOutlivesStop, ownerVars, threadVars
<1>1. CASE UNCHANGED vars
  BY <1>1 DEF vars
<1>2. CASE Owner \/ Client
  BY <1>2 DEF Owner, Start, StartFails, StopBegin, CloseAcceptor, Join, Destroy, Crash, Boot,
              Client, ClientSend, ClientLeave, ClientConnect
<1>3. CASE DbStep \/ Lookup \/ Found \/ Added \/ Counted \/ Recorded
  BY <1>3 DEF DbStep, Lookup, Found, Added, Counted, Recorded
<1>4. CASE \/ LoopTest \/ AcceptFails \/ AcceptedTest \/ EndpointThrows
           \/ \E c \in Conns : Accept(c)
  BY <1>4 DEF LoopTest, AcceptFails, AcceptedTest, EndpointThrows, Accept, Hangup
<1>5. CASE \/ ServeTest \/ ReadUntil \/ TakeHeader \/ ReadBody \/ ReadFails
           \/ Handle \/ HandlerThrows \/ WriteFails \/ Write
  BY <1>5 DEF ServeTest, ReadUntil, TakeHeader, ReadBody, ReadFails, Handle,
              HandlerThrows, WriteFails, Write, Leave, Hangup
<1> QED
  BY <1>1, <1>2, <1>3, <1>4, <1>5 DEF Next, Thread

\* Whatever the connection thread was doing, it is gone when stop(), configure()
\* or the destructor has returned (SyncHTTPServer.cpp:70-95).
THEOREM NoThreadOutlivesStopCorrect == Spec => []NoThreadOutlivesStop
<1>1. Init => NoThreadOutlivesStop
  BY DEF Init, NoThreadOutlivesStop
<1> QED
  BY <1>1, NoThreadStep, PTL DEF Spec

-----------------------------------------------------------------------------
(* The thread and its calls                                                *)

\* The calls of the thread.
AddOf(p) == [op |-> "add_client", arg |-> p]
CountOf(i) == [op |-> "increment_connection_count", arg |-> i]
RecordOf(i) == [op |-> "add_client_connection", arg |-> i]

\* The thread waits while a call is in progress, and knows which; what it goes
\* on with is a number the tables can have.
CallsInv ==
  /\ at # "idle" => pc \in {"adding", "counting", "recording"}
  /\ pc = "found" => request = LookupOf(ip) /\ (answer.ok => answer.id \in Db!Ids)
  /\ pc = "adding" => /\ request = AddOf(ip)
                      /\ at = "idle" /\ answer.ok => answer.id \in Db!Ids /\ ~txn /\ db = "own"
  /\ pc = "counting" => request = CountOf(id) /\ id \in Db!Ids
  /\ pc = "recording" => request = RecordOf(id) /\ id \in Db!Ids

\* The statements belong to the handle that main has, or to none, and a call
\* that is in a transaction has statements.
HandleInv ==
  /\ owner = "down" => slot = DbP!NothingPrepared /\ db = "none" /\ pc = "none"
  /\ owner # "down" => \/ db = "own"
                       \/ db = "other" /\ \A s \in DbP!Slots : slot[s] # "live"
  /\ at \in {"step", "commit", "rollback"} => slot[DbP!Begin] = "live"

\* The requests of the thread are those of the repositories.
LEMMA ThreadRequests ==
  /\ \A p \in Ips : LookupOf(p) \in DbP!Queries /\ AddOf(p) \in DbP!Requests
  /\ \A i \in Db!Ids : CountOf(i) \in DbP!Requests /\ RecordOf(i) \in DbP!Requests
BY DEF LookupOf, AddOf, CountOf, RecordOf, DbP!Queries, DbP!Requests, DbP!OfIp, DbP!ByIp,
       DbP!ById, DbP!Ids, Db!Ids

\* The steps of a call that is in progress.
LEMMA StepsMoveCalls == Db!Step => at # "idle" /\ UNCHANGED request
BY DEF Db!Step, Db!BeginTransaction, Db!StepStatement, Db!CommitTransaction, Db!CommitFails,
       Db!RollbackTransaction

\* Every step of the server is one of its database, or leaves it alone.
LEMMA DatabaseMoves ==
  TypeOK /\ CallsInv /\ [Next]_vars => [DbP!Next]_(DbP!vars)
<1> SUFFICES ASSUME TypeOK, CallsInv, [Next]_vars
             PROVE  DbP!Next \/ UNCHANGED dbVars
  BY DEF dbVars, DbP!vars
<1> USE DEF TypeOK, CallsInv
<1>1. CASE UNCHANGED vars
  BY <1>1 DEF vars
<1>2. CASE Crash \/ \E opens \in BOOLEAN : Boot(opens)
  BY <1>2, SameLife DEF Crash, Boot, DbP!Next
<1>3. CASE Lookup
  <2>1. ip \in Ips
    BY <1>3 DEF Lookup, Serving, Recording
  <2>2. DbP!Get(LookupOf(ip))
    BY <1>3, SameGet DEF Lookup, LookupOf
  <2> QED
    BY <2>1, <2>2, ThreadRequests DEF DbP!Next
<1>4. CASE Found
  <2>1. CASE answer.ok
    <3>1. Db!Call(CountOf(answer.id)) /\ answer.id \in Db!Ids
      BY <1>4, <2>1 DEF Found, CountConnection, CountOf
    <3> QED
      BY <3>1, SameCall, ThreadRequests DEF DbP!Next
  <2>2. CASE ~answer.ok
    <3>1. Db!Call(AddOf(ip)) /\ ip \in Ips
      BY <1>4, <2>2 DEF Found, AddClient, AddOf, Serving, Recording
    <3> QED
      BY <3>1, SameCall, ThreadRequests DEF DbP!Next
  <2> QED
    BY <2>1, <2>2
<1>5. CASE Added
  <2>1. CASE answer.ok
    <3>1. Db!Call(CountOf(answer.id)) /\ answer.id \in Db!Ids
      BY <1>5, <2>1 DEF Added, CountConnection, CountOf
    <3> QED
      BY <3>1, SameCall, ThreadRequests DEF DbP!Next
  <2> QED
    BY <1>5, <2>1 DEF Added
<1>6. CASE Counted
  <2>1. CASE answer.ok
    <3>1. Db!Call(RecordOf(id)) /\ id \in Db!Ids
      BY <1>6, <2>1 DEF Counted, RecordOf
    <3> QED
      BY <3>1, SameCall, ThreadRequests DEF DbP!Next
  <2> QED
    BY <1>6, <2>1 DEF Counted
<1>7. CASE DbStep
  BY <1>7, SameStep DEF DbStep, DbP!Next
<1>8. CASE \/ Start \/ StartFails \/ StopBegin \/ CloseAcceptor \/ Join \/ Destroy \/ Client
  BY <1>8 DEF Start, StartFails, StopBegin, CloseAcceptor, Join, Destroy, Client, ClientSend,
              ClientLeave, ClientConnect
<1>9. CASE \/ LoopTest \/ AcceptFails \/ AcceptedTest \/ EndpointThrows
           \/ \E c \in Conns : Accept(c)
  BY <1>9 DEF LoopTest, AcceptFails, AcceptedTest, EndpointThrows, Accept, Hangup
<1>10. CASE \/ Recorded \/ ServeTest \/ ReadUntil \/ TakeHeader \/ ReadBody \/ ReadFails
            \/ Handle \/ HandlerThrows \/ WriteFails \/ Write
  BY <1>10 DEF Recorded, ServeTest, ReadUntil, TakeHeader, ReadBody, ReadFails, Handle,
               HandlerThrows, WriteFails, Write, Leave, Hangup
<1> QED
  BY <1>1, <1>2, <1>3, <1>4, <1>5, <1>6, <1>7, <1>8, <1>9, <1>10 DEF Next, Owner, Thread

\* What SqliteDatabaseProofs says of its steps, of the server's.
LEMMA DatabaseSteps ==
  TypeOK /\ CallsInv /\ DbP!CallInv /\ DbP!AnswersAreCommitted /\ [Next]_vars
    => Db!TypeOK' /\ DbP!CallInv' /\ DbP!AnswersAreCommitted'
<1>0. (Db!TypeOK <=> DbP!TypeOK)'
  BY SameTypes, PTL
<1> SUFFICES ASSUME TypeOK, CallsInv, DbP!CallInv, DbP!AnswersAreCommitted, [Next]_vars
             PROVE  DbP!TypeOK' /\ DbP!CallInv' /\ DbP!AnswersAreCommitted'
  BY <1>0
<1>1. [DbP!Next]_(DbP!vars) /\ DbP!TypeOK
  BY DatabaseMoves, SameTypes DEF TypeOK
<1>2. DbP!CallInv'
  BY <1>1, DatabaseAssumed, DbP!CallInvStep, Zenon
<1>3. DbP!TypeOK'
  BY <1>1, DatabaseAssumed, DbP!TypeStep, Zenon
<1>4. DbP!AnswersAreCommitted'
  BY <1>1, DatabaseAssumed, DbP!AnswersStep, Zenon
<1> QED
  BY <1>2, <1>3, <1>4

\* The statements stay those of the handle main has.
LEMMA HandleStep == TypeOK /\ CallsInv /\ HandleInv /\ [Next]_vars => HandleInv'
<1> SUFFICES ASSUME TypeOK, CallsInv, HandleInv, [Next]_vars PROVE HandleInv'
  OBVIOUS
<1> USE DEF HandleInv
<1>1. CASE UNCHANGED vars
  BY <1>1 DEF vars, dbVars, ownerVars, threadVars
<1>2. CASE Crash
  BY <1>2, SameLife DEF Crash, DbP!Restart
<1>3. ASSUME NEW opens \in BOOLEAN, Boot(opens) PROVE HandleInv'
  <2>1. DbP!Connect(opens)
    BY <1>3, SameLife DEF Boot
  <2>2. "others" \in DbP!Slots /\ slot["others"] = "absent" /\ \A s \in DbP!Slots : slot[s] = "absent"
    BY <1>3 DEF Boot, DbP!Slots, DbP!NothingPrepared
  <2>3. at' = "idle" /\ owner' # "down"
    BY <1>3, <2>1 DEF Boot, DbP!Connect
  <2> QED
    BY <2>1, <2>2, <2>3 DEF DbP!Connect
<1>4. CASE Lookup
  <2>1. DbP!Get(LookupOf(ip)) /\ owner' = owner /\ pc' = "found"
    BY <1>4, SameGet DEF Lookup, LookupOf, ownerVars
  <2>2. at' = "idle" /\ db' = db
    BY <2>1 DEF DbP!Get, DbP!Return
  <2>3. \A s \in DbP!Slots : slot[s] # "live" => slot'[s] # "live"
    BY <2>1 DEF DbP!Get, DbP!Touched, TypeOK, Db!TypeOK
  <2>4. owner # "down"
    BY <1>4 DEF Lookup
  <2> QED
    BY <2>1, <2>2, <2>3, <2>4
<1>5. CASE Found \/ Added \/ Counted
  <2>1. CASE \E r : DbP!Call(r)
    BY <1>5, <2>1 DEF DbP!Call, Found, Added, Counted, ownerVars
  <2>2. CASE UNCHANGED dbVars
    BY <1>5, <2>2 DEF Found, Added, Counted, ownerVars, dbVars
  <2>3. (\E r : Db!Call(r)) \/ UNCHANGED dbVars
    BY <1>5 DEF Found, Added, Counted, CountConnection, AddClient
  <2> QED
    BY <2>1, <2>2, <2>3, SameCall
<1>6. CASE DbStep
  <2>1. DbP!Step /\ UNCHANGED <<owner, pc>>
    BY <1>6, SameStep DEF DbStep, ownerVars, threadVars
  <2>2. owner # "down"
    BY <1>6, StepsMoveCalls DEF DbStep, CallsInv
  <2>3. CASE DbP!BeginTransaction
    BY <2>1, <2>2, <2>3 DEF DbP!BeginTransaction, DbP!Return, DbP!Touched, TypeOK, Db!TypeOK
  <2>4. CASE \/ DbP!StepStatement \/ DbP!CommitTransaction \/ DbP!CommitFails
             \/ DbP!RollbackTransaction
    BY <2>1, <2>2, <2>4 DEF DbP!StepStatement, DbP!CommitTransaction, DbP!CommitFails,
                            DbP!RollbackTransaction, DbP!Return
  <2> QED
    BY <2>1, <2>3, <2>4 DEF DbP!Step
<1>7. CASE \/ Start \/ StartFails \/ StopBegin \/ CloseAcceptor \/ Join \/ Destroy \/ Client
  BY <1>7 DEF Start, StartFails, StopBegin, CloseAcceptor, Join, Destroy, Client, ClientSend,
              ClientLeave, ClientConnect, dbVars, ownerVars, threadVars
<1>8. CASE \/ LoopTest \/ AcceptFails \/ AcceptedTest \/ EndpointThrows
           \/ \E c \in Conns : Accept(c)
  BY <1>8 DEF LoopTest, AcceptFails, AcceptedTest, EndpointThrows, Accept, Hangup, dbVars,
              ownerVars
<1>9. CASE \/ Recorded \/ ServeTest \/ ReadUntil \/ TakeHeader \/ ReadBody \/ ReadFails
           \/ Handle \/ HandlerThrows \/ WriteFails \/ Write
  BY <1>9 DEF Recorded, ServeTest, ReadUntil, TakeHeader, ReadBody, ReadFails, Handle,
              HandlerThrows, WriteFails, Write, Leave, Hangup, dbVars, ownerVars
<1> QED
  BY <1>1, <1>2, <1>3, <1>4, <1>5, <1>6, <1>7, <1>8, <1>9 DEF Next, Owner, Thread

\* The thread and its calls stay in step.
LEMMA CallsStep ==
  /\ TypeOK /\ NoThreadOutlivesStop /\ CallsInv /\ HandleInv
  /\ DbP!CallInv /\ DbP!AnswersAreCommitted /\ [Next]_vars
  => CallsInv'
<1> SUFFICES ASSUME TypeOK, NoThreadOutlivesStop, CallsInv, HandleInv, DbP!CallInv,
                    DbP!AnswersAreCommitted, [Next]_vars
             PROVE  CallsInv'
  OBVIOUS
<1> USE DEF CallsInv
<1>0. Db!TypeOK' /\ DbP!AnswersAreCommitted'
  BY DatabaseSteps
<1>1. CASE UNCHANGED vars
  BY <1>1 DEF vars, dbVars, threadVars, peerVars
<1>2. CASE Crash \/ \E opens \in BOOLEAN : Boot(opens)
  <2>1. CASE Crash
    BY <2>1, SameLife DEF Crash, DbP!Restart
  <2>2. ASSUME NEW opens \in BOOLEAN, Boot(opens) PROVE CallsInv'
    BY <2>2, SameLife DEF Boot, DbP!Connect, HandleInv, threadVars, peerVars
  <2> QED
    BY <1>2, <2>1, <2>2
<1>3. CASE Lookup
  <2>1. DbP!Get(LookupOf(ip)) /\ pc' = "found" /\ ip' = ip
    BY <1>3, SameGet DEF Lookup, LookupOf, peerVars
  <2>2. request' = LookupOf(ip) /\ at' = "idle"
    BY <2>1 DEF DbP!Get, DbP!Return
  <2>3. answer'.ok => answer'.id \in Db!Ids
    <3> SUFFICES ASSUME answer'.ok PROVE answer'.id \in Db!Ids
      OBVIOUS
    <3>1. PICK i \in DbP!Found(work, LookupOf(ip)) : DbP!Return(TRUE, i)
      BY <2>1 DEF DbP!Get, DbP!Return
    <3>2. i \in DOMAIN work.client
      BY <3>1, SameFound
    <3>3. DOMAIN work.client \subseteq Db!Ids
      BY DEF TypeOK, Db!TypeOK, Db!Tables, Db!Partial
    <3> QED
      BY <3>1, <3>2, <3>3 DEF DbP!Return
  <2> QED
    BY <2>1, <2>2, <2>3
<1>4. CASE Found \/ Added \/ Counted
  <2>1. ip' = ip
    BY <1>4 DEF Found, Added, Counted, peerVars
  <2>2. CASE Found
    BY <2>1, <2>2, SameCall
       DEF Found, CountConnection, AddClient, CountOf, AddOf, DbP!Call
  <2>3. CASE Added
    BY <2>1, <2>3, SameCall DEF Added, CountConnection, CountOf, DbP!Call, dbVars
  <2>4. CASE Counted
    BY <2>1, <2>4, SameCall DEF Counted, RecordOf, DbP!Call, dbVars
  <2> QED
    BY <1>4, <2>2, <2>3, <2>4
<1>5. CASE DbStep
  <2>1. at # "idle" /\ request' = request /\ UNCHANGED <<pc, id, ip>>
    BY <1>5, StepsMoveCalls DEF DbStep, threadVars, peerVars
  <2>2. at' = "idle" /\ answer'.ok => DbP!CommitTransaction
    BY <1>5, SameStep DEF DbStep, DbP!Step, DbP!BeginTransaction, DbP!StepStatement,
                          DbP!CommitFails, DbP!RollbackTransaction, DbP!Return
  <2>3. ASSUME pc = "adding", DbP!CommitTransaction, answer'.ok, at' = "idle"
        PROVE  answer'.id \in Db!Ids /\ ~txn' /\ db' = "own"
    <3>1. ~txn' /\ db' = db /\ at = "commit" /\ disk' = work
      BY <2>3 DEF DbP!CommitTransaction
    <3>2. db = "own"
      <4>1. slot[DbP!Begin] = "live" /\ DbP!Begin \in DbP!Slots /\ owner # "down"
        BY <2>3, <3>1 DEF HandleInv, DbP!Slots
      <4> QED
        BY <4>1 DEF HandleInv
    <3>3. request'.op = "add_client" /\ request'.arg = ip
      BY <2>1, <2>3 DEF AddOf
    <3>4. answer'.id \in DbP!Found(disk', LookupOf(ip))
      BY <1>0, <2>3, <3>1, <3>2, <3>3 DEF DbP!AnswersAreCommitted, LookupOf
    <3>5. answer'.id \in DOMAIN disk'.client
      BY <3>4, SameFound
    <3>6. DOMAIN disk'.client \subseteq Db!Ids
      BY <1>0 DEF Db!TypeOK, Db!Tables, Db!Partial
    <3> QED
      BY <3>1, <3>2, <3>5, <3>6
  <2> QED
    BY <2>1, <2>2, <2>3
<1>6. CASE \/ Start \/ StartFails \/ StopBegin \/ CloseAcceptor \/ Join \/ Destroy \/ Client
  <2>1. UNCHANGED <<dbVars, id, ip>>
    BY <1>6 DEF Start, StartFails, StopBegin, CloseAcceptor, Join, Destroy, Client, ClientSend,
                ClientLeave, ClientConnect, threadVars, peerVars
  <2>2. pc' = pc \/ (pc \in {"none", "ended"} /\ pc' \in {"none", "loop"})
    BY <1>6 DEF Start, StartFails, StopBegin, CloseAcceptor, Join, Destroy, Client, ClientSend,
                ClientLeave, ClientConnect, threadVars, NoThreadOutlivesStop
  <2> QED
    BY <2>1, <2>2 DEF dbVars
<1>7. CASE \/ LoopTest \/ AcceptFails \/ AcceptedTest \/ EndpointThrows
           \/ \E c \in Conns : Accept(c)
  BY <1>7 DEF LoopTest, AcceptFails, AcceptedTest, EndpointThrows, Accept, Hangup, dbVars,
              peerVars
<1>8. CASE \/ Recorded \/ ServeTest \/ ReadUntil \/ TakeHeader \/ ReadBody \/ ReadFails
           \/ Handle \/ HandlerThrows \/ WriteFails \/ Write
  BY <1>8 DEF Recorded, ServeTest, ReadUntil, TakeHeader, ReadBody, ReadFails, Handle,
              HandlerThrows, WriteFails, Write, Leave, Hangup, dbVars, peerVars
<1> QED
  BY <1>1, <1>2, <1>3, <1>4, <1>5, <1>6, <1>7, <1>8 DEF Next, Owner, Thread

-----------------------------------------------------------------------------
(* What is read                                                            *)

Bytes == Conns \X (1..Len(Stream))

\* Every nonempty set of naturals has a least element.
LEMMA LeastNatural ==
  ASSUME NEW T \in SUBSET Nat, T # {}
  PROVE  \E x \in T : \A y \in T : ~(y < x)
<1>1. \E x \in T : \A y \in T : <<y, x>> \notin OpToRel(<, Nat)
  BY NatLessThanWellFounded, WFMin, Zenon
<1> QED
  BY <1>1 DEF OpToRel

HasEnd(s) == \E i \in 1..Len(s) : Part(s[i]) = "end"

\* A header that has come ends at its first empty line.
LEMMA HeaderEndFound ==
  ASSUME NEW s \in Seq(Bytes), HasEnd(s)
  PROVE  /\ HeaderEnd(s) \in 1..Len(s)
         /\ Part(s[HeaderEnd(s)]) = "end"
         /\ \A j \in 1..(HeaderEnd(s) - 1) : Part(s[j]) # "end"
<1> DEFINE T == {i \in 1..Len(s) : Part(s[i]) = "end"}
<1>1. T \in SUBSET Nat /\ T # {}
  BY DEF HasEnd
<1>2. PICK x \in T : \A y \in T : ~(y < x)
  BY <1>1, LeastNatural
<1>3. /\ x \in 1..Len(s) /\ Part(s[x]) = "end"
      /\ \A j \in 1..(x - 1) : Part(s[j]) # "end"
  BY <1>2
<1> QED
  BY <1>3 DEF HeaderEnd

\* Every byte is of a request.
LEMMA RequestOfByte ==
  ASSUME NEW h \in Seq(Bytes), NEW i \in 1..Len(h)
  PROVE  Stream[h[i][2]].request \in 1..N
<1>1. h[i] \in Bytes
  OBVIOUS
<1>2. h[i][2] \in 1..Len(Stream)
  BY <1>1 DEF Bytes
<1> QED
  BY <1>2, PieceTypes

\* What a header says of its body is a number.
LEMMA ContentLengthType ==
  ASSUME NEW h \in Seq(Bytes)
  PROVE  ContentLength(h) \in Nat
<1> DEFINE with == {i \in 1..Len(h) : /\ Part(h[i]) = "head"
                                      /\ BodyLength[Stream[h[i][2]].request] > 0}
<1>1. CASE with = {}
  BY <1>1, Zenon DEF ContentLength
<1>2. CASE with # {}
  <2>1. with \in SUBSET Nat
    OBVIOUS
  <2>2. PICK x \in with : \A y \in with : ~(y < x)
    BY <1>2, <2>1, LeastNatural, Zenon
  <2> DEFINE first == CHOOSE i \in with : \A j \in with : i <= j
  <2>3. \A j \in with : x <= j
    BY <2>1, <2>2
  <2>4. first \in with
    BY <2>3, Zenon
  <2>5. first \in 1..Len(h)
    BY <2>4, Zenon
  <2>6. ContentLength(h) = BodyLength[Stream[h[first][2]].request]
    BY <1>2, Zenon DEF ContentLength
  <2> HIDE DEF first
  <2>7. Stream[h[first][2]].request \in 1..N
    BY <2>5, RequestOfByte
  <2> QED
    BY <2>6, <2>7, BodyLengthType
<1> QED
  BY <1>1, <1>2, Zenon

\* And what is missing of it.
LEMMA MissingType ==
  ASSUME NEW s \in Seq(Bytes), HasEnd(s)
  PROVE  Missing(s) \in Nat
<1>1. HeaderEnd(s) \in 1..Len(s) /\ Len(s) \in Nat
  BY HeaderEndFound
<1>2. SubSeq(s, 1, HeaderEnd(s)) \in Seq(Bytes)
  BY <1>1
<1>3. ContentLength(SubSeq(s, 1, HeaderEnd(s))) \in Nat
  BY <1>2, ContentLengthType
<1> QED
  BY <1>1, <1>3 DEF Missing

\* A request that is past its header has one.
ReadInv == pc \in {"body", "handle", "write"} => HasEnd(data)

\* The bytes that have been sent but not read are the client's next ones.
LEMMA UnreadBytes ==
  ASSUME TypeOK, cur \in Conns, NEW n \in received..sent
  PROVE  /\ Unread(n) \in Seq(Bytes) /\ Len(Unread(n)) = n - received
         /\ \A i \in 1..(n - received) : Unread(n)[i] = <<cur, received + i>>
<1>1. n - received \in Nat /\ received \in Nat /\ n <= Len(Stream) /\ Len(Stream) \in Nat
  BY StreamAssumption DEF TypeOK
<1>2. \A i \in 1..(n - received) : received + i \in 1..Len(Stream)
  BY <1>1
<1>3. \A i \in 1..(n - received) : <<cur, received + i>> \in Bytes
  BY <1>2 DEF Bytes
<1> QED
  BY <1>1, <1>3 DEF Unread

\* What the thread reads and how far, in the step that reads.
LEMMA ReadTypes ==
  ASSUME TypeOK, ReadInv, ReadUntil \/ TakeHeader \/ ReadBody
  PROVE  /\ buffer' \in Seq(Bytes) /\ data' \in Seq(Bytes)
         /\ received' \in 0..Len(Stream) /\ sent \in received'..Len(Stream)
         /\ pc' \in {"read", "body", "handle"}
         /\ UNCHANGED <<dbVars, ownerVars, cur, id, conn, peerVars, historyVars>>
         /\ pc' \in {"body", "handle", "write"} => HasEnd(data)'
<1>0. /\ buffer \in Seq(Bytes) /\ data \in Seq(Bytes)
      /\ received \in Nat /\ sent \in Nat /\ received <= sent /\ sent <= Len(Stream)
      /\ Len(Stream) \in Nat
  BY StreamAssumption DEF TypeOK, Bytes
<1>a. cur \in Conns
  BY DEF TypeOK, ReadUntil, TakeHeader, ReadBody, Serving
<1>1. CASE ReadUntil
  <2>1. PICK n \in (received + 1)..sent : buffer' = buffer \o Unread(n) /\ received' = n
    BY <1>1 DEF ReadUntil
  <2>2. n \in received..sent
    BY <1>0, <2>1
  <2>3. Unread(n) \in Seq(Bytes)
    BY <1>a, <2>2, UnreadBytes
  <2>4. buffer' \in Seq(Bytes)
    BY <1>0, <2>1, <2>3
  <2>5. received' \in 0..Len(Stream) /\ sent \in received'..Len(Stream)
    BY <1>0, <2>1, <2>2
  <2> QED
    BY <1>0, <1>1, <2>4, <2>5 DEF ReadUntil
<1>2. CASE TakeHeader
  <2>1. HasEnd(buffer)
    BY <1>2 DEF TakeHeader, Ends, HasEnd
  <2> DEFINE e == HeaderEnd(buffer)
  <2>2. e \in 1..Len(buffer) /\ Part(buffer[e]) = "end"
    BY <1>0, <2>1, HeaderEndFound
  <2> HIDE DEF e
  <2>3. \/ data' = buffer /\ buffer' = <<>>
        \/ data' = SubSeq(buffer, 1, e) /\ buffer' = SubSeq(buffer, e + 1, Len(buffer))
    BY <1>2 DEF TakeHeader, e
  <2>4. /\ SubSeq(buffer, 1, e) \in Seq(Bytes) /\ Len(SubSeq(buffer, 1, e)) = e
        /\ SubSeq(buffer, e + 1, Len(buffer)) \in Seq(Bytes)
        /\ SubSeq(buffer, 1, e)[e] = buffer[e]
    BY <1>0, <2>2
  <2>5. buffer' \in Seq(Bytes) /\ data' \in Seq(Bytes)
    <3>1. <<>> \in Seq(Bytes)
      OBVIOUS
    <3>2. CASE data' = buffer /\ buffer' = <<>>
      BY <1>0, <3>1, <3>2
    <3>3. CASE data' = SubSeq(buffer, 1, e) /\ buffer' = SubSeq(buffer, e + 1, Len(buffer))
      BY <2>4, <3>3
    <3> QED
      BY <2>3, <3>2, <3>3
  <2>6. HasEnd(data)'
    <3>1. CASE data' = buffer
      BY <2>1, <3>1 DEF HasEnd, Part
    <3>2. CASE data' = SubSeq(buffer, 1, e)
      <4>1. e \in 1..Len(data') /\ Part(data'[e]) = "end"
        BY <2>2, <2>4, <3>2
      <4> QED
        BY <4>1 DEF HasEnd, Part
    <3> QED
      BY <2>3, <3>1, <3>2
  <2>7. /\ received' = received /\ pc' \in {"body", "handle"}
        /\ UNCHANGED <<dbVars, ownerVars, cur, id, conn, peerVars, historyVars>>
    BY <1>2 DEF TakeHeader
  <2> QED
    BY <1>0, <2>5, <2>6, <2>7
<1>3. CASE ReadBody
  <2>1. HasEnd(data)
    BY <1>3 DEF ReadBody, ReadInv
  <2>2. Missing(data) \in Nat
    BY <1>0, <2>1, MissingType
  <2> DEFINE n == received + Missing(data)
  <2>3. n \in received..sent /\ n \in Nat
    BY <1>0, <1>3, <2>2 DEF ReadBody
  <2>4. Unread(n) \in Seq(Bytes)
    BY <1>a, <2>3, UnreadBytes
  <2>5. data' = data \o Unread(n) /\ received' = n /\ buffer' = buffer
    BY <1>3 DEF ReadBody
  <2> HIDE DEF n
  <2>6. /\ data' \in Seq(Bytes) /\ Len(data') >= Len(data)
        /\ \A i \in 1..Len(data) : data'[i] = data[i]
    BY <1>0, <2>4, <2>5
  <2>7. HasEnd(data)'
    BY <1>0, <2>1, <2>6 DEF HasEnd, Part
  <2>8. received' \in 0..Len(Stream) /\ sent \in received'..Len(Stream)
    BY <1>0, <2>3, <2>5
  <2> QED
    BY <1>0, <1>3, <2>5, <2>6, <2>7, <2>8 DEF ReadBody
<1> QED
  BY <1>1, <1>2, <1>3

\* The steps of the owner and the clients.
LEMMA TypeOutside ==
  ASSUME TypeOK, Db!TypeOK', NoThreadOutlivesStop, ReadInv, Owner \/ Client
  PROVE  TypeOK' /\ ReadInv'
<1> USE DEF TypeOK, ReadInv, Serving, Recording
<1>0. <<>> \in Seq(Conns \X (1..Len(Stream))) /\ <<>> \in Seq(0..N) /\ Len(Stream) \in Nat
  BY StreamAssumption
<1>1. CASE Start \/ StartFails \/ StopBegin \/ CloseAcceptor \/ Join \/ Destroy
  <2>1. /\ UNCHANGED <<cur, id, readVars, peerVars, historyVars>>
        /\ running' \in BOOLEAN /\ acceptor' \in {"closed", "open", "listening"}
        /\ owner' \in {"down", "idle", "closing", "joining", "gone"}
        /\ conn' \in [Conns -> {"none", "backlog", "open", "closed"}]
    BY <1>1 DEF Start, StartFails, StopBegin, CloseAcceptor, Join, Destroy, threadVars
  <2>2. pc' = pc \/ (pc \in {"none", "ended"} /\ pc' \in {"none", "loop"})
    BY <1>1 DEF Start, StartFails, StopBegin, CloseAcceptor, Join, Destroy, threadVars,
                NoThreadOutlivesStop
  <2> QED
    BY <2>1, <2>2 DEF readVars, peerVars, historyVars, HasEnd, Part
<1>2. CASE Crash
  <2>1. id' = 0 /\ received' = 0 /\ sent' = 0
    BY <1>2 DEF Crash, NoPeer
  <2>2. id' \in 0..MaxId /\ received' \in 0..Len(Stream) /\ sent' \in received'..Len(Stream)
    BY <1>0, <2>1, DatabaseAssumption
  <2>3. cur' = NoConn /\ cur' \notin Conns /\ pc' = "none"
    BY <1>2, ConnAssumption DEF Crash
  <2>4. conn' \in [Conns -> {"none", "backlog", "open", "closed"}]
    BY <1>2 DEF Crash
  <2>5. buffer' = <<>> /\ data' = <<>> /\ answers' = <<>>
    BY <1>2 DEF Crash, NoPeer
  <2> QED
    BY <1>0, <1>2, <2>2, <2>3, <2>4, <2>5 DEF Crash, NoPeer
<1>3. ASSUME NEW opens \in BOOLEAN, Boot(opens) PROVE TypeOK' /\ ReadInv'
  BY <1>3 DEF Boot, threadVars, readVars, peerVars, historyVars, HasEnd, Part
<1>4. CASE Client
  <2>1. /\ UNCHANGED <<ownerVars, threadVars, ip, historyVars>>
        /\ conn' \in [Conns -> {"none", "backlog", "open", "closed"}]
    BY <1>4 DEF Client, ClientConnect, ClientSend, ClientLeave, peerVars
  <2>2. gone' \in BOOLEAN /\ eager' \in BOOLEAN /\ sent' \in received..Len(Stream)
    <3>1. CASE ClientLeave \/ \E c \in Conns : ClientConnect(c)
      BY <3>1 DEF ClientLeave, ClientConnect, peerVars
    <3>2. CASE ClientSend
      <4>1. gone' = gone /\ eager' \in BOOLEAN
        BY <3>2 DEF ClientSend
      <4>2. sent < Len(Stream) /\ sent' = sent + 1
        BY <3>2 DEF ClientSend
      <4> QED
        BY <1>0, <4>1, <4>2
    <3> QED
      BY <1>4, <3>1, <3>2 DEF Client
  <2> QED
    BY <2>1, <2>2 DEF ownerVars, threadVars, readVars, historyVars, HasEnd, Part
<1> QED
  BY <1>1, <1>2, <1>3, <1>4 DEF Owner

\* The thread, when it hangs up.
LEMMA TypeHangup ==
  ASSUME TypeOK, ReadInv, Hangup, pc' \in {"loop", "ended"}, cur \in Conns
  PROVE  TypeOK' /\ ReadInv'
<1> USE DEF TypeOK, ReadInv, Serving, Recording
<1>0. <<>> \in Seq(Conns \X (1..Len(Stream))) /\ <<>> \in Seq(0..N) /\ Len(Stream) \in Nat
  BY StreamAssumption
<1>1. id' = 0 /\ received' = 0 /\ sent' = 0
  BY DEF Hangup, NoPeer
<1>2. id' \in 0..MaxId /\ received' \in 0..Len(Stream) /\ sent' \in received'..Len(Stream)
  BY <1>0, <1>1, DatabaseAssumption
<1>3. cur' = NoConn /\ cur' \notin Conns
  BY ConnAssumption DEF Hangup
<1>4. Db!TypeOK'
  BY DEF Hangup, dbVars, Db!TypeOK
<1>5. conn' \in [Conns -> {"none", "backlog", "open", "closed"}]
  BY DEF Hangup
<1>6. data' = <<>> /\ answers' = <<>> /\ buffer' = buffer
  BY DEF Hangup, NoPeer
<1> QED
  BY <1>0, <1>2, <1>3, <1>4, <1>5, <1>6 DEF Hangup, NoPeer, ownerVars

\* The steps of the thread.
LEMMA TypeThread ==
  ASSUME TypeOK, Db!TypeOK', CallsInv, ReadInv, Thread \/ Write
  PROVE  TypeOK' /\ ReadInv'
<1> USE DEF ReadInv, Serving, Recording
<1>0. <<>> \in Seq(Conns \X (1..Len(Stream))) /\ <<>> \in Seq(0..N) /\ Len(Stream) \in Nat
  BY StreamAssumption
<1>1. CASE LoopTest \/ AcceptFails
  BY <1>1 DEF LoopTest, AcceptFails, TypeOK, ownerVars, readVars, peerVars, historyVars
<1>2. ASSUME NEW c \in Conns, Accept(c) PROVE TypeOK' /\ ReadInv'
  <2>1. ip' \in Ips /\ met' = [met EXCEPT ![ip'] = @ + 1]
    BY <1>2, ConnAssumption DEF Accept
  <2>2. met' \in [Ips -> Nat]
    BY <2>1 DEF TypeOK
  <2>3. conn' \in [Conns -> {"none", "backlog", "open", "closed"}] /\ c # NoConn
    BY <1>2, ConnAssumption DEF Accept, TypeOK
  <2> QED
    BY <1>2, <2>1, <2>2, <2>3 DEF Accept, TypeOK, ownerVars, readVars
<1>3. CASE Hangup /\ (EndpointThrows \/ AcceptedTest \/ ServeTest \/ ReadFails
                        \/ HandlerThrows \/ WriteFails)
  <2>1. pc \in Serving /\ pc' \in {"loop", "ended"}
    BY <1>3 DEF EndpointThrows, AcceptedTest, ServeTest, ReadFails, HandlerThrows, WriteFails,
                Leave, Hangup, TypeOK
  <2>2. cur \in Conns
    BY <2>1 DEF TypeOK
  <2> QED
    BY <1>3, <2>1, <2>2, TypeHangup DEF ReadInv
<1>4. CASE ~Hangup /\ AcceptedTest
  BY <1>4 DEF AcceptedTest, TypeOK, ownerVars, readVars, peerVars, historyVars
<1>5. CASE \/ Lookup \/ DbStep \/ Found \/ Added \/ Counted \/ Recorded
  <2>1. /\ UNCHANGED <<ownerVars, cur, readVars, conn, peerVars, historyVars>>
    BY <1>5 DEF Lookup, DbStep, Found, Added, Counted, Recorded, threadVars
  <2>2. /\ pc \in Serving
        /\ pc' \in {"found", "adding", "counting", "recording", "serve"}
    BY <1>5, StepsMoveCalls DEF Lookup, DbStep, Found, Added, Counted, Recorded, threadVars,
                CountConnection, AddClient, CallsInv
  <2>3. id' \in 0..MaxId
    <3>1. id' = id \/ id' \in Db!Ids
      BY <1>5 DEF Lookup, DbStep, Found, Added, Counted, Recorded, threadVars,
                  CountConnection, AddClient, CallsInv
    <3> QED
      BY <3>1, DatabaseAssumption DEF TypeOK, Db!Ids
  <2> QED
    BY <2>1, <2>2, <2>3 DEF TypeOK, ownerVars, readVars, peerVars, historyVars
<1>6. CASE ~Hangup /\ ServeTest
  BY <1>0, <1>6 DEF ServeTest, Leave, TypeOK, ownerVars, peerVars, historyVars
<1>7. CASE ReadUntil \/ TakeHeader \/ ReadBody
  <2>1. pc \in {"read", "body"}
    BY <1>7 DEF ReadUntil, TakeHeader, ReadBody
  <2>2. /\ buffer' \in Seq(Bytes) /\ data' \in Seq(Bytes)
        /\ received' \in 0..Len(Stream) /\ sent \in received'..Len(Stream)
        /\ pc' \in {"read", "body", "handle"}
        /\ UNCHANGED <<dbVars, ownerVars, cur, id, conn, peerVars, historyVars>>
        /\ pc' \in {"body", "handle", "write"} => HasEnd(data)'
    BY <1>7, ReadTypes DEF ReadInv
  <2> QED
    BY <2>1, <2>2 DEF TypeOK, Bytes, ownerVars, peerVars, historyVars
<1>8. CASE Handle
  BY <1>8 DEF Handle, TypeOK, ownerVars, readVars, peerVars, historyVars, HasEnd, Part
<1>9. CASE Write
  <2>1. Parsed \in 0..N
    <3>0. data \in Seq(Bytes)
      BY DEF TypeOK, Bytes
    <3>1. 1 \in 1..Len(data)
      <4>1. HasEnd(data) /\ Len(data) \in Nat
        BY <1>9, <3>0 DEF Write
      <4>2. 1..Len(data) # {}
        BY <4>1 DEF HasEnd
      <4> QED
        BY <4>1, <4>2
    <3>3. Stream[data[1][2]].request \in 1..N
      BY <3>0, <3>1, RequestOfByte
    <3> QED
      BY <3>3, StreamAssumption DEF Parsed, NotFound
  <2>2. answers' \in Seq(0..N)
    BY <1>9, <2>1 DEF Write, TypeOK
  <2> QED
    BY <1>9, <2>2 DEF Write, TypeOK, ownerVars, readVars, peerVars
<1> QED
  BY <1>1, <1>2, <1>3, <1>4, <1>5, <1>6, <1>7, <1>8, <1>9
     DEF Thread, EndpointThrows, ReadFails, HandlerThrows, WriteFails, Leave

\* What all of this holds together.
ServerInv ==
  /\ TypeOK /\ NoThreadOutlivesStop /\ ReadInv /\ CallsInv /\ HandleInv
  /\ DbP!CallInv /\ DbP!AnswersAreCommitted

\* Every step keeps it.
LEMMA ServerStep == ServerInv /\ [Next]_vars => ServerInv'
<1> SUFFICES ASSUME ServerInv, [Next]_vars PROVE ServerInv'
  OBVIOUS
<1> USE DEF ServerInv
<1>1. Db!TypeOK' /\ DbP!CallInv' /\ DbP!AnswersAreCommitted'
  BY DatabaseSteps
<1>2. NoThreadOutlivesStop' /\ CallsInv' /\ HandleInv'
  BY NoThreadStep, CallsStep, HandleStep
<1>3. TypeOK' /\ ReadInv'
  <2>1. CASE UNCHANGED vars
    BY <2>1 DEF vars, dbVars, ownerVars, threadVars, readVars, peerVars, historyVars, TypeOK,
                Db!TypeOK, ReadInv, HasEnd, Part
  <2> QED
    BY <1>1, <2>1, TypeOutside, TypeThread DEF Next
<1> QED
  BY <1>1, <1>2, <1>3

\* It holds in every state.
LEMMA ServerInvCorrect == Spec => []ServerInv
<1>1. Init => ServerInv
  <2> SUFFICES ASSUME Init PROVE ServerInv
    OBVIOUS
  <2>0. DbP!Init /\ Db!Init
    BY SameInit DEF Init
  <2>1. TypeOK
    <3>1. Db!TypeOK
      <4>1. Db!NoTables \in Db!Tables
        <5>1. \A S : [i \in {} |-> 0] \in [{} -> S]
          OBVIOUS
        <5>2. \A S : [i \in {} |-> 0] \in Db!Partial(S)
          BY <5>1 DEF Db!Partial
        <5> QED
          BY <5>2 DEF Db!NoTables, Db!Tables
      <4>2. 0 \in 0..MaxId
        BY DatabaseAssumption
      <4>3. /\ slot \in [Db!Slots -> {"absent", "null", "live"}]
            /\ answer \in [ok : BOOLEAN, id : 0..MaxId]
        BY <2>0, <4>2 DEF Db!Init, Db!NothingPrepared, Db!NoAnswer
      <4> QED
        BY <2>0, <4>1, <4>3 DEF Db!Init, Db!TypeOK
    <3>2. /\ buffer \in Seq(Conns \X (1..Len(Stream))) /\ data \in Seq(Conns \X (1..Len(Stream)))
          /\ answers \in Seq(0..N)
      BY DEF Init
    <3>3. /\ received \in 0..Len(Stream) /\ sent \in received..Len(Stream) /\ id \in 0..MaxId
          /\ cur = NoConn /\ cur \notin Conns
      BY ConnAssumption, StreamAssumption, DatabaseAssumption DEF Init
    <3> QED
      BY <3>1, <3>2, <3>3 DEF Init, TypeOK, Serving, Recording
  <2>2. NoThreadOutlivesStop /\ ReadInv
    BY DEF Init, NoThreadOutlivesStop, ReadInv
  <2>3. CallsInv /\ HandleInv
    BY <2>0 DEF Init, CallsInv, HandleInv, DbP!Init, DbP!NoAnswer
  <2>4. DbP!CallInv /\ DbP!AnswersAreCommitted
    BY <2>0 DEF DbP!Init, DbP!CallInv, DbP!AnswersAreCommitted, DbP!NoAnswer
  <2> QED
    BY <2>1, <2>2, <2>3, <2>4 DEF ServerInv
<1> QED
  BY <1>1, ServerStep, PTL DEF Spec

\* The server's own state and that of its database keep their types
\* (SyncHTTPServer.hpp:20-46).
THEOREM TypeCorrect == Spec => []TypeOK
BY ServerInvCorrect, PTL DEF ServerInv

-----------------------------------------------------------------------------
(* The bytes of one client                                                 *)

\* What is being read, and the request read so far, is of the client served.
OwnInv ==
  /\ cur = NoConn => data = <<>>
  /\ \A i \in 1..Len(data) : data[i][1] = cur
  /\ pc \in {"read", "body"} => \A i \in 1..Len(buffer) : buffer[i][1] = cur

\* No step lets the bytes of a former client into a request.
LEMMA OwnStep == ServerInv /\ OwnInv /\ [Next]_vars => OwnInv'
<1> SUFFICES ASSUME ServerInv, OwnInv, [Next]_vars PROVE OwnInv'
  OBVIOUS
<1> USE DEF OwnInv
<1>0. /\ buffer \in Seq(Bytes) /\ data \in Seq(Bytes) /\ received \in Nat /\ sent \in Nat
      /\ pc \in {"read", "body"} => cur \in Conns /\ cur # NoConn
  BY StreamAssumption DEF ServerInv, TypeOK, Bytes, Serving
<1>1. CASE UNCHANGED <<data, cur, buffer>> /\ (pc' \in {"read", "body"} => pc' = pc)
  BY <1>1
<1>2. CASE data' = <<>> /\ (pc' \in {"read", "body"} => buffer' = <<>>)
  BY <1>2
<1>3. CASE ReadUntil
  <2>1. PICK n \in (received + 1)..sent : buffer' = buffer \o Unread(n)
    BY <1>3 DEF ReadUntil
  <2>2. n \in received..sent /\ cur \in Conns /\ n - received \in Nat
    BY <1>0, <1>3, <2>1 DEF ReadUntil
  <2>3. /\ Unread(n) \in Seq(Bytes) /\ Len(Unread(n)) = n - received
        /\ \A i \in 1..(n - received) : Unread(n)[i] = <<cur, received + i>>
    BY <2>2, UnreadBytes DEF ServerInv
  <2>4. \A i \in 1..Len(buffer') : buffer'[i][1] = cur
    BY <1>0, <1>3, <2>1, <2>2, <2>3 DEF ReadUntil
  <2> QED
    BY <1>3, <2>4 DEF ReadUntil
<1>4. CASE TakeHeader
  <2>1. HasEnd(buffer)
    BY <1>4 DEF TakeHeader, Ends, HasEnd
  <2> DEFINE e == HeaderEnd(buffer)
  <2>2. e \in 1..Len(buffer)
    BY <1>0, <2>1, HeaderEndFound
  <2>3. \/ data' = buffer /\ buffer' = <<>>
        \/ data' = SubSeq(buffer, 1, e) /\ pc' = "handle"
    BY <1>4 DEF TakeHeader
  <2> HIDE DEF e
  <2>4. /\ Len(SubSeq(buffer, 1, e)) = e
        /\ \A i \in 1..e : SubSeq(buffer, 1, e)[i] = buffer[i]
    BY <1>0, <2>2
  <2>5. cur' = cur /\ cur # NoConn /\ \A i \in 1..Len(buffer) : buffer[i][1] = cur
    BY <1>0, <1>4 DEF TakeHeader
  <2> QED
    BY <1>0, <2>2, <2>3, <2>4, <2>5
<1>5. CASE ReadBody
  <2>1. Missing(data) \in Nat
    BY <1>0, <1>5, MissingType DEF ReadBody, ServerInv, ReadInv
  <2> DEFINE n == received + Missing(data)
  <2>2. n \in received..sent /\ cur \in Conns /\ n - received \in Nat
    BY <1>0, <1>5, <2>1 DEF ReadBody
  <2>3. data' = data \o Unread(n) /\ buffer' = buffer /\ cur' = cur /\ pc' = "handle"
    BY <1>5 DEF ReadBody
  <2> HIDE DEF n
  <2>4. /\ Unread(n) \in Seq(Bytes) /\ Len(Unread(n)) = n - received
        /\ \A i \in 1..(n - received) : Unread(n)[i] = <<cur, received + i>>
    BY <2>2, UnreadBytes DEF ServerInv
  <2>5. \A i \in 1..Len(data') : data'[i][1] = cur
    BY <1>0, <2>2, <2>3, <2>4
  <2>6. cur' = cur /\ cur # NoConn /\ pc' = "handle"
    BY <1>0, <1>5, <2>3 DEF ReadBody
  <2> QED
    BY <2>5, <2>6
<1>6. CASE UNCHANGED vars \/ Owner \/ Client
  <2>1. CASE UNCHANGED vars \/ Client
    BY <1>1, <2>1 DEF vars, threadVars, readVars, Client, ClientConnect, ClientSend, ClientLeave
  <2>2. CASE Crash
    BY <1>2, <2>2 DEF Crash
  <2>3. CASE Owner /\ ~Crash
    BY <1>1, <2>3 DEF Owner, Start, StartFails, StopBegin, CloseAcceptor, Join, Destroy, Boot,
                      threadVars, readVars
  <2> QED
    BY <1>6, <2>1, <2>2, <2>3
<1>7. CASE Write \/ (Thread /\ ~ReadUntil /\ ~TakeHeader /\ ~ReadBody)
  <2>1. CASE Hangup /\ (EndpointThrows \/ AcceptedTest \/ ServeTest \/ ReadFails
                          \/ HandlerThrows \/ WriteFails)
    BY <1>2, <2>1 DEF EndpointThrows, AcceptedTest, ServeTest, ReadFails, HandlerThrows,
                      WriteFails, Leave, Hangup
  <2>2. CASE ~Hangup /\ (AcceptedTest \/ ServeTest)
    BY <1>1, <1>2, <2>2 DEF AcceptedTest, ServeTest, Leave, readVars
  <2>3. CASE LoopTest \/ AcceptFails \/ \E c \in Conns : Accept(c)
    <3>1. \A c \in Conns : Accept(c) => data = <<>>
      BY DEF Accept, ServerInv, TypeOK, Serving, Recording
    <3> QED
      BY <1>1, <1>2, <2>3, <3>1 DEF LoopTest, AcceptFails, Accept, readVars
  <2>4. CASE Lookup \/ DbStep \/ Found \/ Added \/ Counted \/ Recorded \/ Handle \/ Write
    BY <1>1, <2>4 DEF Lookup, DbStep, Found, Added, Counted, Recorded, Handle, Write, threadVars,
                      readVars, CountConnection, AddClient
  <2> QED
    BY <1>7, <2>1, <2>2, <2>3, <2>4 DEF Thread, EndpointThrows, ReadFails, HandlerThrows,
                                        WriteFails, Leave
<1> QED
  BY <1>3, <1>4, <1>5, <1>6, <1>7 DEF Next

\* The streambuf outlives the connections (SyncHTTPServer.cpp:24), yet what is
\* read for a request is of the client it is answered to (98-139).
THEOREM OnlyOwnBytesCorrect == Spec => []OnlyOwnBytes
<1>1. Init => OwnInv
  BY DEF Init, OwnInv
<1>2. OwnInv => OnlyOwnBytes
  BY DEF OwnInv, OnlyOwnBytes
<1> QED
  BY <1>1, <1>2, ServerInvCorrect, OwnStep, PTL DEF Spec

-----------------------------------------------------------------------------
(* The clients in the database                                             *)

\* The number of recorded connections of a client.
RowsOf(t, i) == Cardinality({k \in DOMAIN t.connection : t.connection[k] = i})

\* An id that no row has comes next.
LEMMA NextIdIsNew ==
  ASSUME NEW f, DOMAIN f \subseteq Db!Ids
  PROVE  DbP!LargestId(f) + 1 \notin DOMAIN f
<1>1. DOMAIN f \subseteq DbP!Ids
  BY DEF Db!Ids, DbP!Ids
<1>2. /\ DbP!LargestId(f) \in 0..MaxId
      /\ \A j \in DOMAIN f : j <= DbP!LargestId(f)
  BY <1>1, DatabaseAssumed, DbP!LargestIdBounds, Zenon
<1> QED
  BY <1>2, DatabaseAssumption

\* The types of a row and of a table.
LEMMA RowTypes ==
  ASSUME NEW t \in Db!Tables
  PROVE  /\ DOMAIN t.client \subseteq Db!Ids /\ DOMAIN t.connection \subseteq Db!Ids
         /\ \A i \in DOMAIN t.client : t.client[i].ip \in Ips /\ t.client[i].connection_count \in Nat
         /\ \A i : RowsOf(t, i) \in Nat
         /\ \A i : IsFiniteSet({k \in DOMAIN t.connection : t.connection[k] = i})
<1>1. DOMAIN t.client \subseteq Db!Ids /\ DOMAIN t.connection \subseteq Db!Ids
  BY DEF Db!Tables, Db!Partial
<1>2. \A i \in DOMAIN t.client : t.client[i] \in Db!Client
  BY DEF Db!Tables, Db!Partial
<1>3. IsFiniteSet(Db!Ids)
  BY FS_Interval, DatabaseAssumption DEF Db!Ids
<1>4. \A i : {k \in DOMAIN t.connection : t.connection[k] = i} \subseteq Db!Ids
  BY <1>1
<1>5. \A i : IsFiniteSet({k \in DOMAIN t.connection : t.connection[k] = i})
  BY <1>3, <1>4, FS_Subset
<1>6. \A i : RowsOf(t, i) \in Nat
  BY <1>5, FS_CardinalityType DEF RowsOf
<1>7. \A i \in DOMAIN t.client : t.client[i].ip \in Ips /\ t.client[i].connection_count \in Nat
  BY <1>2, DatabaseAssumption DEF Db!Client
<1> QED
  BY <1>1, <1>5, <1>6, <1>7, Zenon

\* add_client inserts a row without connections (SqliteDatabase.cpp:101-134).
LEMMA AddEffect ==
  ASSUME NEW t \in Db!Tables, NEW p \in Ips, NEW u, u = DbP!Effect(t, AddOf(p))
  PROVE  /\ u.connection = t.connection
         /\ \E k : /\ k \notin DOMAIN t.client
                   /\ DOMAIN u.client = DOMAIN t.client \union {k}
                   /\ u.client[k].ip = p /\ u.client[k].connection_count = 0
                   /\ \A i \in DOMAIN t.client : u.client[i] = t.client[i]
<1> DEFINE k == DbP!LargestId(t.client) + 1
<1>1. k \notin DOMAIN t.client
  BY RowTypes, NextIdIsNew
<1>2. /\ u.connection = t.connection
      /\ u.client = DbP!With(t.client, k, DbP!NewClient(p))
  BY DEF AddOf, DbP!Effect, Db!Tables
<1> HIDE DEF k
<1>3. /\ DOMAIN u.client = DOMAIN t.client \union {k}
      /\ u.client[k] = DbP!NewClient(p)
      /\ \A i \in DOMAIN t.client : u.client[i] = t.client[i]
  BY <1>1, <1>2 DEF DbP!With
<1>4. u.client[k].ip = p /\ u.client[k].connection_count = 0
  BY <1>3 DEF DbP!NewClient
<1> QED
  BY <1>1, <1>2, <1>3, <1>4

\* increment_connection_count counts one row up (193-224).
LEMMA CountEffect ==
  ASSUME NEW t \in Db!Tables, NEW i \in DOMAIN t.client, NEW u, u = DbP!Effect(t, CountOf(i))
  PROVE  /\ u.connection = t.connection
         /\ DOMAIN u.client = DOMAIN t.client
         /\ u.client[i].ip = t.client[i].ip
         /\ u.client[i].connection_count = t.client[i].connection_count + 1
         /\ \A j \in DOMAIN t.client \ {i} : u.client[j] = t.client[j]
<1>1. u.connection = t.connection /\ u.client = DbP!Counted(t.client, i, "connection_count")
  BY DEF CountOf, DbP!Effect, Db!Tables
<1>2. t.client \in Db!Partial(Db!Client)
  BY DEF Db!Tables
<1>3. t.client = [j \in DOMAIN t.client |-> t.client[j]] /\ t.client[i] \in Db!Client
  BY <1>2 DEF Db!Partial
<1> QED
  BY <1>1, <1>3 DEF DbP!Counted, Db!Client

\* add_client_connection inserts a row of that client (472-502).
LEMMA RecordEffect ==
  ASSUME NEW t \in Db!Tables, NEW i \in Db!Ids, NEW u, u = DbP!Effect(t, RecordOf(i))
  PROVE  /\ u.client = t.client
         /\ \A k \in DOMAIN u.connection : u.connection[k] = i
                                         \/ \E l \in DOMAIN t.connection : u.connection[k] = t.connection[l]
         /\ RowsOf(u, i) = RowsOf(t, i) + 1
         /\ \A j : j # i => RowsOf(u, j) = RowsOf(t, j)
<1> DEFINE k == DbP!LargestId(t.connection) + 1
<1>1. k \notin DOMAIN t.connection
  BY RowTypes, NextIdIsNew
<1>2. /\ u.client = t.client
      /\ u.connection = DbP!With(t.connection, k, i)
  BY DEF RecordOf, DbP!Effect, Db!Tables
<1> HIDE DEF k
<1>3. /\ DOMAIN u.connection = DOMAIN t.connection \union {k}
      /\ u.connection[k] = i
      /\ \A l \in DOMAIN t.connection : u.connection[l] = t.connection[l]
  BY <1>1, <1>2 DEF DbP!With
<1> DEFINE Of(v, j) == {l \in DOMAIN v.connection : v.connection[l] = j}
<1>4. Of(u, i) = Of(t, i) \union {k} /\ k \notin Of(t, i) /\ IsFiniteSet(Of(t, i))
  BY <1>1, <1>3, RowTypes
<1>5. \A j : j # i => Of(u, j) = Of(t, j)
  BY <1>3
<1>6. RowsOf(u, i) = RowsOf(t, i) + 1
  BY <1>4, FS_AddElement DEF RowsOf
<1>7. \A j : j # i => RowsOf(u, j) = RowsOf(t, j)
  BY <1>5 DEF RowsOf
<1> QED
  BY <1>2, <1>3, <1>6, <1>7

\* The row the thread goes on with is that of the address it serves.
Known(i) == i \in DOMAIN disk.client /\ disk.client[i].ip = ip

\* the client has been accepted but not counted
Uncounted ==
  pc \in {"accepted", "lookup", "found", "adding"} \/ (pc = "counting" /\ at # "idle")

\* the client has been counted but not recorded
Unrecorded == (pc = "counting" /\ at = "idle" /\ answer.ok) \/ (pc = "recording" /\ at # "idle")

CountInv ==
  /\ \A k \in DOMAIN disk.connection : disk.connection[k] \in DOMAIN disk.client
  /\ \A i \in DOMAIN disk.client :
       /\ RowsOf(disk, i) <= disk.client[i].connection_count
       /\ disk.client[i].connection_count <= met[disk.client[i].ip]
  /\ Uncounted => /\ met[ip] >= 1
                  /\ \A i \in DOMAIN disk.client :
                       disk.client[i].ip = ip => disk.client[i].connection_count + 1 <= met[ip]
  /\ pc = "counting" /\ (at = "begin" => ~txn) /\ at \in {"begin", "step", "commit"}
       => Known(id)
  /\ Unrecorded => /\ id \in DOMAIN disk.client
                   /\ RowsOf(disk, id) + 1 <= disk.client[id].connection_count

\* A committed row keeps what is known of the rows.
LEMMA CommitCounts ==
  ServerInv /\ CountInv /\ DbStep /\ DbP!CommitTransaction => CountInv'
<1> SUFFICES ASSUME ServerInv, CountInv, DbStep, DbP!CommitTransaction PROVE CountInv'
  OBVIOUS
<1>1. /\ at = "commit" /\ at' = "idle" /\ disk' = DbP!Effect(disk, request)
      /\ UNCHANGED <<pc, id, ip, met>>
      /\ pc \in {"adding", "counting", "recording"}
  BY DEF DbStep, threadVars, peerVars, historyVars, DbP!CommitTransaction, DbP!Return,
         ServerInv, CallsInv, DbP!CallInv
<1>2. disk \in Db!Tables /\ ip \in Ips /\ met \in [Ips -> Nat]
  BY <1>1 DEF ServerInv, TypeOK, Db!TypeOK, Serving, Recording
<1>3. /\ \A i \in DOMAIN disk.client :
           disk.client[i].ip \in Ips /\ disk.client[i].connection_count \in Nat
      /\ \A i : RowsOf(disk, i) \in Nat
  BY <1>2, RowTypes
<1>4. CASE pc = "adding"
  <2>1. disk' = DbP!Effect(disk, AddOf(ip))
    BY <1>1, <1>4 DEF ServerInv, CallsInv
  <2>2. /\ disk'.connection = disk.connection
        /\ \E k : /\ k \notin DOMAIN disk.client
                  /\ DOMAIN disk'.client = DOMAIN disk.client \union {k}
                  /\ disk'.client[k].ip = ip /\ disk'.client[k].connection_count = 0
                  /\ \A i \in DOMAIN disk.client : disk'.client[i] = disk.client[i]
    BY <1>2, <2>1, AddEffect
  <2>3. PICK k : /\ k \notin DOMAIN disk.client
                 /\ DOMAIN disk'.client = DOMAIN disk.client \union {k}
                 /\ disk'.client[k].ip = ip /\ disk'.client[k].connection_count = 0
                 /\ \A i \in DOMAIN disk.client : disk'.client[i] = disk.client[i]
    BY <2>2
  <2>4. RowsOf(disk', k) = 0 /\ \A i : RowsOf(disk', i) = RowsOf(disk, i)
    <3>1. {l \in DOMAIN disk.connection : disk.connection[l] = k} = {}
      BY <2>3 DEF CountInv
    <3>2. \A i : RowsOf(disk', i) = RowsOf(disk, i)
      BY <2>2 DEF RowsOf
    <3>3. RowsOf(disk, k) = 0
      BY <3>1, FS_EmptySet DEF RowsOf
    <3> QED
      BY <3>2, <3>3
  <2>5. met[ip] >= 1 /\ met[ip] \in Nat
    BY <1>2, <1>4 DEF CountInv, Uncounted
  <2> QED
    BY <1>1, <1>2, <1>3, <1>4, <2>2, <2>3, <2>4, <2>5
       DEF CountInv, Uncounted, Unrecorded, Known
<1>5. CASE pc = "counting"
  <2>1. disk' = DbP!Effect(disk, CountOf(id)) /\ id \in DOMAIN disk.client /\ disk.client[id].ip = ip
    BY <1>1, <1>5 DEF ServerInv, CallsInv, CountInv, Known
  <2>2. /\ disk'.connection = disk.connection
        /\ DOMAIN disk'.client = DOMAIN disk.client
        /\ disk'.client[id].ip = disk.client[id].ip
        /\ disk'.client[id].connection_count = disk.client[id].connection_count + 1
        /\ \A j \in DOMAIN disk.client \ {id} : disk'.client[j] = disk.client[j]
    BY <1>2, <2>1, CountEffect
  <2>3. \A i : RowsOf(disk', i) = RowsOf(disk, i)
    BY <2>2 DEF RowsOf
  <2>4. disk.client[id].connection_count + 1 <= met[ip] /\ met[ip] \in Nat
    BY <1>1, <1>2, <1>5, <2>1 DEF CountInv, Uncounted
  <2>5. RowsOf(disk, id) <= disk.client[id].connection_count
    BY <2>1 DEF CountInv
  <2>6. \A i \in DOMAIN disk'.client :
          /\ RowsOf(disk', i) <= disk'.client[i].connection_count
          /\ disk'.client[i].connection_count <= met[disk'.client[i].ip]
    BY <1>3, <2>1, <2>2, <2>3, <2>4, <2>5 DEF CountInv
  <2>7. RowsOf(disk', id) + 1 <= disk'.client[id].connection_count
    BY <1>3, <2>1, <2>2, <2>3, <2>5
  <2> QED
    BY <1>1, <1>5, <2>1, <2>2, <2>6, <2>7 DEF CountInv, Uncounted, Unrecorded, Known
<1>6. CASE pc = "recording"
  <2>1. /\ disk' = DbP!Effect(disk, RecordOf(id)) /\ id \in Db!Ids
        /\ id \in DOMAIN disk.client /\ RowsOf(disk, id) + 1 <= disk.client[id].connection_count
    BY <1>1, <1>6 DEF ServerInv, CallsInv, CountInv, Unrecorded
  <2>2. /\ disk'.client = disk.client
        /\ \A k \in DOMAIN disk'.connection :
             \/ disk'.connection[k] = id
             \/ \E l \in DOMAIN disk.connection : disk'.connection[k] = disk.connection[l]
        /\ RowsOf(disk', id) = RowsOf(disk, id) + 1
        /\ \A j : j # id => RowsOf(disk', j) = RowsOf(disk, j)
    BY <1>2, <2>1, RecordEffect
  <2> QED
    BY <1>1, <1>6, <2>1, <2>2 DEF CountInv, Uncounted, Unrecorded, Known
<1> QED
  BY <1>1, <1>4, <1>5, <1>6

\* Every step keeps it.
LEMMA CountStep == ServerInv /\ CountInv /\ [Next]_vars => CountInv'
<1> SUFFICES ASSUME ServerInv, CountInv, [Next]_vars PROVE CountInv'
  OBVIOUS
<1>1. CASE UNCHANGED <<disk, met>> /\ pc' \notin Recording \union {"accepted"}
  BY <1>1 DEF CountInv, Uncounted, Unrecorded, Recording
<1>2. CASE UNCHANGED <<dbVars, met, ip, id, pc>>
  BY <1>2 DEF CountInv, Uncounted, Unrecorded, Known, dbVars
<1>3. CASE UNCHANGED <<disk, met, ip>> /\ Uncounted /\ pc' \in {"lookup", "found", "adding"}
  BY <1>3 DEF CountInv, Uncounted, Unrecorded
<1>4. CASE UNCHANGED vars \/ Client
  BY <1>2, <1>4 DEF vars, Client, ClientConnect, ClientSend, ClientLeave, threadVars, peerVars,
                    historyVars
<1>5. CASE Owner
  <2>1. CASE Crash
    BY <1>1, <2>1, SameLife DEF Crash, DbP!Restart, Recording
  <2>2. ASSUME NEW opens \in BOOLEAN, Boot(opens) PROVE CountInv'
    BY <1>1, <2>2, SameLife DEF Boot, DbP!Connect, threadVars, historyVars, ServerInv, HandleInv,
                                Recording
  <2>3. CASE StartFails \/ StopBegin \/ CloseAcceptor \/ Destroy
    BY <1>2, <2>3 DEF StartFails, StopBegin, CloseAcceptor, Destroy, threadVars, peerVars,
                      historyVars
  <2>4. CASE Start \/ Join
    BY <1>1, <2>4 DEF Start, Join, dbVars, historyVars, Recording
  <2> QED
    BY <1>5, <2>1, <2>2, <2>3, <2>4 DEF Owner
<1>6. ASSUME NEW c \in Conns, Accept(c) PROVE CountInv'
  <2>1. /\ ip' \in Ips /\ met' = [met EXCEPT ![ip'] = @ + 1] /\ met \in [Ips -> Nat]
        /\ pc' = "accepted" /\ UNCHANGED dbVars
    BY <1>6, ConnAssumption DEF Accept, ServerInv, TypeOK
  <2>2. met'[ip'] = met[ip'] + 1 /\ \A p \in Ips : met[p] \in Nat /\ met'[p] \in Nat /\ met[p] <= met'[p]
    BY <2>1
  <2>3. disk' = disk /\ disk \in Db!Tables
    BY <2>1 DEF dbVars, ServerInv, TypeOK, Db!TypeOK
  <2>4. \A i \in DOMAIN disk.client :
          disk.client[i].ip \in Ips /\ disk.client[i].connection_count \in Nat
    BY <2>3, RowTypes
  <2>5. \A i \in DOMAIN disk.client :
          /\ disk.client[i].connection_count <= met'[disk.client[i].ip]
          /\ disk.client[i].ip = ip' => disk.client[i].connection_count + 1 <= met'[ip']
    BY <2>1, <2>2, <2>4 DEF CountInv
  <2> QED
    BY <2>1, <2>2, <2>3, <2>5 DEF CountInv, Uncounted, Unrecorded
<1>7. CASE LoopTest \/ AcceptFails \/ AcceptedTest \/ EndpointThrows
  <2>1. CASE pc' # "lookup"
    BY <1>1, <1>7, <2>1 DEF Hangup, LoopTest, AcceptFails, AcceptedTest, EndpointThrows, dbVars,
                            historyVars, Recording
  <2>2. CASE pc' = "lookup"
    BY <1>3, <1>7, <2>2 DEF LoopTest, AcceptFails, AcceptedTest, EndpointThrows, dbVars, peerVars,
                            historyVars, Uncounted
  <2> QED
    BY <2>1, <2>2
<1>8. CASE Lookup
  <2>1. UNCHANGED <<disk, met, ip>> /\ Uncounted /\ pc' = "found"
    BY <1>8, SameGet DEF Lookup, DbP!Get, LookupOf, peerVars, historyVars, Uncounted
  <2> QED
    BY <1>3, <2>1
<1>9. CASE Found \/ Added
  <2>1. CASE pc' = "serve"
    BY <1>1, <1>9, <2>1 DEF Found, Added, CountConnection, AddClient, dbVars, historyVars, Recording
  <2>2. CASE Found /\ ~answer.ok
    <3>1. DbP!Call(AddOf(ip)) /\ pc = "found" /\ pc' = "adding" /\ UNCHANGED <<ip, met>>
      BY <2>2, SameCall DEF Found, AddClient, AddOf, peerVars, historyVars
    <3> QED
      BY <1>3, <3>1 DEF DbP!Call, Uncounted
  <2>3. CASE CountConnection(answer.id) /\ answer.ok
    <3>1. /\ at = "idle" /\ at' = "begin" /\ UNCHANGED <<disk, txn, ip, met>>
          /\ id' = answer.id /\ pc' = "counting"
      BY <1>9, <2>3, SameCall DEF Found, Added, CountConnection, CountOf, DbP!Call, peerVars,
                                  historyVars
    <3>2. Uncounted
      BY <1>9 DEF Found, Added, Uncounted
    <3>3. ~txn => Known(answer.id)
      <4>1. CASE Found
        <5>1. request = LookupOf(ip) /\ LookupOf(ip) \in DbP!Queries
          BY <4>1, ThreadRequests DEF Found, ServerInv, CallsInv, TypeOK, Serving, Recording
        <5>2. ~txn => answer.id \in DbP!Found(disk, LookupOf(ip))
          BY <2>3, <3>1, <5>1 DEF ServerInv, DbP!AnswersAreCommitted
        <5> QED
          BY <5>2, SameFound DEF Known
      <4>2. CASE Added
        <5>1. request = AddOf(ip) /\ ~txn /\ db = "own"
          BY <2>3, <4>2 DEF Added, ServerInv, CallsInv
        <5>2. answer.id \in DbP!Found(disk, LookupOf(ip))
          BY <2>3, <3>1, <5>1 DEF ServerInv, DbP!AnswersAreCommitted, AddOf, LookupOf
        <5> QED
          BY <5>2, SameFound DEF Known
      <4> QED
        BY <1>9, <4>1, <4>2
    <3> QED
      BY <3>1, <3>2, <3>3 DEF CountInv, Uncounted, Unrecorded, Known
  <2> QED
    BY <1>9, <2>1, <2>2, <2>3 DEF Found, Added
<1>10. CASE Counted
  <2>1. CASE pc' = "serve"
    BY <1>1, <1>10, <2>1 DEF Counted, dbVars, historyVars, Recording
  <2>2. CASE answer.ok
    <3>1. /\ at' = "begin" /\ UNCHANGED <<disk, met, id>> /\ pc' = "recording" /\ Unrecorded
      BY <1>10, <2>2, SameCall DEF Counted, RecordOf, DbP!Call, historyVars, Unrecorded
    <3> QED
      BY <3>1 DEF CountInv, Uncounted, Unrecorded
  <2> QED
    BY <1>10, <2>1, <2>2 DEF Counted
<1>11. CASE DbStep
  <2>1. CASE DbP!CommitTransaction
    BY <1>11, <2>1, CommitCounts
  <2>2. CASE ~DbP!CommitTransaction
    <3>1. at # "idle" /\ UNCHANGED <<pc, id, ip, met>>
      BY <1>11, StepsMoveCalls DEF DbStep, threadVars, peerVars, historyVars
    <3>2. /\ disk' = disk /\ ~(at' = "idle" /\ answer'.ok)
          /\ at' = "step" => at = "begin" /\ ~txn
          /\ at' = "commit" => at = "step"
          /\ at' # "begin"
      BY <1>11, <2>2, SameStep DEF DbStep, DbP!Step, DbP!BeginTransaction, DbP!StepStatement,
                                   DbP!CommitFails, DbP!RollbackTransaction, DbP!Return
    <3> QED
      BY <3>1, <3>2 DEF CountInv, Uncounted, Unrecorded, Known
  <2> QED
    BY <2>1, <2>2
<1>12. CASE \/ Recorded \/ ServeTest \/ ReadUntil \/ TakeHeader \/ ReadBody \/ ReadFails
            \/ Handle \/ HandlerThrows \/ WriteFails \/ Write
  BY <1>1, <1>12 DEF Recorded, ServeTest, ReadUntil, TakeHeader, ReadBody, ReadFails, Handle,
                     HandlerThrows, WriteFails, Write, Leave, Hangup, dbVars, historyVars, Recording
<1> QED
  BY <1>4, <1>5, <1>6, <1>7, <1>8, <1>9, <1>10, <1>11, <1>12 DEF Next, Thread

\* However the three transactions of a client fail, and wherever the process
\* dies, a recorded connection is counted and its client known, and no more are
\* counted than have been accepted (SyncHTTPServer.cpp:142-171).
THEOREM CountedOncePerConnectionCorrect == Spec => []CountedOncePerConnection
<1>1. Init => CountInv
  BY SameInit DEF Init, DbP!Init, DbP!NoTables, CountInv, Uncounted, Unrecorded
<1>2. CountInv => CountedOncePerConnection
  BY DEF CountInv, CountedOncePerConnection, RowsOf
<1> QED
  BY <1>1, <1>2, ServerInvCorrect, CountStep, PTL DEF Spec

-----------------------------------------------------------------------------
(* Where the request at hand begins                                        *)

\* The number of the last piece before the request at hand: before what is in
\* the buffer, or before what read_full_request() has returned.
Front == IF pc = "read" THEN received - Len(buffer)
         ELSE IF pc \in {"body", "handle", "write"} THEN data[1][2] - 1
         ELSE received

\* What has been read for a request is the client's pieces up to the last one.
PlaceInv ==
  /\ pc = "read" => /\ received - Len(buffer) >= 0
                    /\ \A k \in 1..Len(buffer) : buffer[k][2] = received - Len(buffer) + k
  /\ pc = "body" => /\ received - Len(data) >= 0
                    /\ \A k \in 1..Len(data) : data[k][2] = received - Len(data) + k
  /\ pc \in {"body", "handle", "write"} => data[1][2] <= received

\* The types the reading of requests goes by.
LEMMA ReadingTypes ==
  ASSUME ServerInv
  PROVE  /\ buffer \in Seq(Bytes) /\ data \in Seq(Bytes)
         /\ received \in Nat /\ sent \in Nat /\ received <= sent /\ sent <= Len(Stream)
         /\ Len(Stream) \in Nat /\ N \in Nat /\ Len(buffer) \in Nat /\ Len(data) \in Nat
         /\ answers \in Seq(0..N) /\ Len(answers) \in Nat
         /\ pc \in {"read", "body"} => cur \in Conns
         /\ pc \in {"body", "handle", "write"} => HasEnd(data)
BY StreamAssumption DEF ServerInv, TypeOK, ReadInv, Bytes, Serving

\* A sequence with the end of a header in it begins somewhere.
LEMMA HasFront ==
  ASSUME NEW s \in Seq(Bytes), HasEnd(s)
  PROVE  1 \in 1..Len(s) /\ s[1] \in Bytes
<1>1. 1..Len(s) # {} /\ Len(s) \in Nat
  BY DEF HasEnd
<1> QED
  BY <1>1

\* What a read appends to the buffer or to the request goes on where that ends.
LEMMA ReadOn ==
  ASSUME ServerInv, cur \in Conns, NEW s \in Seq(Bytes), NEW n \in received..sent,
         received - Len(s) >= 0, \A k \in 1..Len(s) : s[k][2] = received - Len(s) + k
  PROVE  \E s1 \in Seq(Bytes) :
           /\ s1 = s \o Unread(n)
           /\ Len(s1) = Len(s) + (n - received) /\ n - Len(s1) = received - Len(s)
           /\ \A k \in 1..Len(s) : s1[k] = s[k]
           /\ \A k \in 1..Len(s1) : s1[k][2] = n - Len(s1) + k
<1>1. /\ Unread(n) \in Seq(Bytes) /\ Len(Unread(n)) = n - received
      /\ \A i \in 1..(n - received) : Unread(n)[i] = <<cur, received + i>>
  BY UnreadBytes DEF ServerInv
<1>2. received \in Nat /\ n \in Nat /\ received <= n /\ Len(s) \in Nat
  BY ReadingTypes
<1> DEFINE u == Unread(n)
           s1 == s \o u
<1> HIDE DEF u
<1>3. /\ Len(s1) = Len(s) + (n - received) /\ s1 \in Seq(Bytes)
      /\ \A k \in 1..Len(s) : s1[k] = s[k]
      /\ \A k \in (Len(s) + 1)..Len(s1) : s1[k] = <<cur, received + k - Len(s)>>
  <2>1. u \in Seq(Bytes) /\ Len(u) = n - received /\ n - received \in Nat
    BY <1>1, <1>2 DEF u
  <2>2. /\ Len(s1) = Len(s) + Len(u) /\ s1 \in Seq(Bytes)
        /\ \A k \in 1..Len(s) : s1[k] = s[k]
        /\ \A k \in (Len(s) + 1)..Len(s1) : s1[k] = u[k - Len(s)]
    <3>1. Len(s1) = Len(s) + Len(u) /\ s1 \in Seq(Bytes)
      BY <2>1
    <3>2. ASSUME NEW k \in 1..Len(s) PROVE s1[k] = s[k]
      BY <2>1, <3>2
    <3>3. ASSUME NEW k \in (Len(s) + 1)..Len(s1) PROVE s1[k] = u[k - Len(s)]
      BY <2>1, <3>3
    <3> HIDE DEF s1
    <3> QED
      BY <3>1, <3>2, <3>3
  <2>3. \A k \in 1..(n - received) : u[k] = <<cur, received + k>>
    BY <1>1 DEF u
  <2> HIDE DEF s1
  <2>4. ASSUME NEW k \in (Len(s) + 1)..Len(s1) PROVE s1[k] = <<cur, received + k - Len(s)>>
    <3>1. k - Len(s) \in 1..(n - received)
      BY <2>1, <2>2, <1>2
    <3>2. u[k - Len(s)] = <<cur, received + (k - Len(s))>>
      BY <2>3, <3>1
    <3>3. received + (k - Len(s)) = received + k - Len(s)
      BY <3>1, <1>2, <2>1, <2>2
    <3> QED
      BY <2>2, <3>2, <3>3
  <2> QED
    BY <2>1, <2>2, <2>4
<1> HIDE DEF s1
<1>4. ASSUME NEW k \in 1..Len(s1) PROVE s1[k][2] = n - Len(s1) + k
  <2>1. CASE k <= Len(s)
    BY <1>2, <1>3, <2>1
  <2>2. CASE k > Len(s)
    BY <1>2, <1>3, <2>2
  <2> QED
    BY <1>2, <1>3, <2>1, <2>2
<1>5. s1 = s \o Unread(n)
  BY DEF s1, u
<1>6. n - Len(s1) = received - Len(s)
  BY <1>2, <1>3
<1> QED
  BY <1>3, <1>4, <1>5, <1>6

\* The header that has come, with what else there is in the buffer.
LEMMA HeaderTaken ==
  ASSUME ServerInv, PlaceInv, TakeHeader
  PROVE  /\ HasEnd(buffer) /\ 1 \in 1..Len(buffer) /\ buffer[1][2] = received - Len(buffer) + 1
         /\ data'[1] = buffer[1]
         /\ pc' \in {"body", "handle"}
         /\ pc' = "body" => data' = buffer
         /\ pc' = "handle" => Missing(buffer) = 0
<1>1. /\ buffer \in Seq(Bytes) /\ Len(buffer) \in Nat
  BY ReadingTypes
<1>2. HasEnd(buffer) /\ pc = "read"
  BY DEF TakeHeader, Ends, HasEnd
<1>3. HeaderEnd(buffer) \in 1..Len(buffer)
  BY <1>1, <1>2, HeaderEndFound
<1>4. 1 \in 1..Len(buffer) /\ buffer[1][2] = received - Len(buffer) + 1
  BY <1>1, <1>2, HasFront DEF PlaceInv
<1> DEFINE e == HeaderEnd(buffer)
           length == ContentLength(SubSeq(buffer, 1, e))
<1>5. SubSeq(buffer, 1, e) \in Seq(Bytes) /\ SubSeq(buffer, 1, e)[1] = buffer[1]
  BY <1>1, <1>3
<1>6. length \in Nat /\ Missing(buffer) \in Nat
  BY <1>1, <1>2, <1>5, ContentLengthType, MissingType
<1>7. ~(length > 0) => Missing(buffer) = 0
  <2> HIDE DEF e
  <2>1. Missing(buffer) = IF length > Len(buffer) - e THEN length - (Len(buffer) - e) ELSE 0
    BY DEF Missing, e
  <2> QED
    BY <1>1, <1>3, <1>6, <2>1 DEF e
<1>8. \/ length > 0 /\ data' = buffer /\ pc' = IF Missing(buffer) > 0 THEN "body" ELSE "handle"
      \/ ~(length > 0) /\ data' = SubSeq(buffer, 1, e) /\ pc' = "handle"
  BY DEF TakeHeader
<1> HIDE DEF e, length
<1>9. data'[1] = buffer[1]
  BY <1>5, <1>8 DEF e
<1>10. /\ pc' \in {"body", "handle"}
       /\ pc' = "body" => data' = buffer
       /\ pc' = "handle" => Missing(buffer) = 0
  BY <1>6, <1>7, <1>8
<1> QED
  BY <1>2, <1>4, <1>9, <1>10

\* Every step keeps to the order of the bytes.
LEMMA PlaceStep == ServerInv /\ PlaceInv /\ [Next]_vars => PlaceInv'
<1> SUFFICES ASSUME ServerInv, PlaceInv, [Next]_vars PROVE PlaceInv'
  OBVIOUS
<1>1. CASE pc' \notin {"read", "body", "handle", "write"}
  BY <1>1 DEF PlaceInv
<1>2. CASE pc' = pc /\ UNCHANGED readVars
  BY <1>2 DEF PlaceInv, readVars
<1>3. CASE ServeTest /\ pc' = "read"
  <2>1. buffer' = <<>> /\ received' = received /\ received \in Nat
    BY <1>3, ReadingTypes DEF ServeTest, Leave
  <2> QED
    BY <1>3, <2>1 DEF PlaceInv
<1>4. CASE ReadUntil
  <2>1. PICK n \in (received + 1)..sent : buffer' = buffer \o Unread(n) /\ received' = n
    BY <1>4 DEF ReadUntil
  <2>2. /\ pc = "read" /\ pc' = "read" /\ cur \in Conns /\ buffer \in Seq(Bytes)
        /\ n \in received..sent
    BY <1>4, ReadingTypes DEF ReadUntil
  <2>3. received - Len(buffer) >= 0
        /\ \A k \in 1..Len(buffer) : buffer[k][2] = received - Len(buffer) + k
    BY <2>2 DEF PlaceInv
  <2>4. PICK s1 \in Seq(Bytes) : /\ s1 = buffer \o Unread(n)
                                /\ n - Len(s1) = received - Len(buffer)
                                /\ \A k \in 1..Len(s1) : s1[k][2] = n - Len(s1) + k
    BY <2>2, <2>3, ReadOn
  <2>5. buffer' = s1
    BY <2>1, <2>4
  <2> QED
    BY <2>1, <2>2, <2>3, <2>4, <2>5 DEF PlaceInv
<1>5. CASE TakeHeader
  <2>1. /\ received' = received /\ pc = "read" /\ received \in Nat /\ Len(buffer) \in Nat
    BY <1>5, ReadingTypes DEF TakeHeader
  <2>2. data'[1][2] <= received'
    BY <1>5, <2>1, HeaderTaken
  <2>3. pc' \in {"body", "handle"} /\ (pc' = "body" => data' = buffer)
    BY <1>5, HeaderTaken
  <2> QED
    BY <2>1, <2>2, <2>3 DEF PlaceInv
<1>6. CASE ReadBody
  <2> DEFINE n == received + Missing(data)
  <2>1. /\ data' = data \o Unread(n) /\ received' = n /\ pc = "body" /\ pc' = "handle" /\ n <= sent
    BY <1>6 DEF ReadBody
  <2>2. data \in Seq(Bytes) /\ HasEnd(data) /\ cur \in Conns /\ Missing(data) \in Nat
    BY <2>1, ReadingTypes, MissingType
  <2>3. n \in received..sent /\ received \in Nat /\ n \in Nat
    BY <2>1, <2>2, ReadingTypes
  <2>4. received - Len(data) >= 0 /\ \A k \in 1..Len(data) : data[k][2] = received - Len(data) + k
    BY <2>1 DEF PlaceInv
  <2> HIDE DEF n
  <2>5. data'[1] = data[1]
    BY <2>1, <2>2, <2>3, <2>4, ReadOn, HasFront
  <2>6. data[1][2] <= received /\ data[1][2] \in Nat
    <3>1. data[1] \in Bytes
      BY <2>2, HasFront
    <3> QED
      BY <2>1, <3>1, ReadingTypes DEF PlaceInv, Bytes
  <2> QED
    BY <2>1, <2>3, <2>5, <2>6 DEF PlaceInv
<1>7. CASE Handle
  BY <1>7 DEF Handle, PlaceInv, readVars
<1>8. CASE UNCHANGED vars \/ Owner \/ Client
  <2>1. CASE UNCHANGED vars \/ Client
    BY <1>2, <2>1 DEF vars, threadVars, Client, ClientConnect, ClientSend, ClientLeave
  <2>2. CASE Crash \/ Start \/ Join
    BY <1>1, <2>2 DEF Crash, Start, Join
  <2>3. CASE StartFails \/ StopBegin \/ CloseAcceptor \/ Destroy \/ \E opens \in BOOLEAN : Boot(opens)
    BY <1>2, <2>3 DEF StartFails, StopBegin, CloseAcceptor, Destroy, Boot, threadVars
  <2> QED
    BY <1>8, <2>1, <2>2, <2>3 DEF Owner
<1>9. CASE \/ LoopTest \/ AcceptFails \/ AcceptedTest \/ EndpointThrows \/ \E c \in Conns : Accept(c)
           \/ Lookup \/ DbStep \/ Found \/ Added \/ Counted \/ Recorded
           \/ ReadFails \/ HandlerThrows \/ WriteFails \/ Write
  <2>1. CASE DbStep
    BY <1>2, <2>1 DEF DbStep, threadVars
  <2> QED
    BY <1>1, <1>9, <2>1
       DEF LoopTest, AcceptFails, AcceptedTest, EndpointThrows, Accept, Lookup, Found, Added,
           Counted, Recorded, ReadFails, HandlerThrows, WriteFails, Write, Leave,
           CountConnection, AddClient
<1>10. CASE ServeTest /\ pc' # "read"
  BY <1>1, <1>10 DEF ServeTest, Leave
<1> QED
  BY <1>3, <1>4, <1>5, <1>6, <1>7, <1>8, <1>9, <1>10 DEF Next, Thread

\* What read_full_request() finds missing behind the beginning of a request is
\* the rest of it.
LEMMA MissingIsRest ==
  ASSUME NEW s \in Seq(Bytes), HasEnd(s), NEW q \in 1..N, NEW B \in Nat,
         \A k \in 1..Len(s) : s[k][2] = B + k /\ Stream[B + k].request = q,
         \A i \in 1..Len(Stream) : Stream[i].request = q => i > B
  PROVE  \A i \in 1..Len(Stream) : Stream[i].request = q => i <= B + Len(s) + Missing(s)
<1> DEFINE e == HeaderEnd(s)
           header == SubSeq(s, 1, e)
           with == {i \in 1..Len(header) : /\ Part(header[i]) = "head"
                                           /\ BodyLength[Stream[header[i][2]].request] > 0}
<1>1. PICK first, last \in 1..Len(Stream) :
        /\ {i \in 1..Len(Stream) : Stream[i].request = q} = first..last
        /\ first < last
        /\ Stream[first].part = "head" /\ Stream[first + 1].part = "end"
        /\ \A i \in (first + 2)..last : Stream[i].part = "body"
  BY StreamOrder
<1>2. /\ Len(Stream) \in Nat /\ first \in Nat /\ last \in Nat /\ Len(s) \in Nat
      /\ BodyLength[q] = last - first - 1
  <2>1. BodyLength[q] = last - first - 1
    BY <1>1, BodyLengthOf
  <2> QED
    BY <2>1, PieceTypes
<1>3. e \in 1..Len(s) /\ Part(s[e]) = "end" /\ \A j \in 1..(e - 1) : Part(s[j]) # "end"
  BY HeaderEndFound
<1> HIDE DEF e
<1>4. \A k \in 1..Len(s) : Part(s[k]) = Stream[B + k].part /\ B + k \in 1..Len(Stream)
  <2> SUFFICES ASSUME NEW k \in 1..Len(s)
               PROVE  Part(s[k]) = Stream[B + k].part /\ B + k \in 1..Len(Stream)
    OBVIOUS
  <2>1. s[k] \in Bytes /\ s[k][2] = B + k
    OBVIOUS
  <2> QED
    BY <2>1 DEF Part, Bytes
<1>5. first = B + 1
  <2>1. first \in first..last /\ 1 \in 1..Len(s)
    BY <1>1, <1>2, <1>3
  <2>2. first > B
    BY <1>1, <2>1
  <2>3. B + 1 \in first..last
    BY <1>1, <1>4, <2>1
  <2> QED
    BY <1>2, <2>2, <2>3
<1>6. e = 2 /\ 2 \in 1..Len(s)
  <2>1. 1 \in 1..Len(s) /\ Part(s[1]) = "head"
    BY <1>1, <1>2, <1>3, <1>4, <1>5
  <2>2. e # 1 /\ 2 \in 1..Len(s)
    BY <1>2, <1>3, <2>1
  <2>3. Part(s[2]) = "end"
    BY <1>1, <1>4, <1>5, <2>2
  <2>4. 2 \notin 1..(e - 1)
    BY <1>3, <2>3
  <2> QED
    BY <1>2, <1>3, <2>2, <2>4
<1>7. ContentLength(header) = BodyLength[q]
  <2>1. Len(header) = 2 /\ header[1] = s[1] /\ header[2] = s[2]
    BY <1>6
  <2>2. /\ Part(s[1]) = "head" /\ Part(s[2]) = "end"
        /\ Stream[s[1][2]].request = q
    BY <1>1, <1>4, <1>5, <1>6
  <2> HIDE DEF header
  <2>3. BodyLength[q] \in Nat
    BY BodyLengthType
  <2>4. CASE BodyLength[q] > 0
    <3>1. with = {1}
      <4>1. Part(header[1]) = "head" /\ BodyLength[Stream[header[1][2]].request] > 0
        BY <2>1, <2>2, <2>4, Zenon
      <4>2. Part(header[2]) # "head"
        BY <2>1, <2>2
      <4>3. 1..Len(header) = {1, 2}
        BY <2>1
      <4> QED
        BY <4>1, <4>2, <4>3, Zenon
    <3> DEFINE i1 == CHOOSE i \in with : \A j \in with : i <= j
    <3>2. ContentLength(header) = BodyLength[Stream[header[i1][2]].request]
      BY <3>1, Zenon DEF ContentLength
    <3>3. i1 = 1
      BY <3>1
    <3> HIDE DEF i1
    <3> QED
      BY <2>1, <2>2, <3>2, <3>3
  <2>5. CASE ~(BodyLength[q] > 0)
    <3>1. with = {}
      <4>1. ~(BodyLength[Stream[header[1][2]].request] > 0)
        BY <2>1, <2>2, <2>5, Zenon
      <4>2. Part(header[2]) # "head"
        BY <2>1, <2>2
      <4>3. 1..Len(header) = {1, 2}
        BY <2>1
      <4> QED
        BY <4>1, <4>2, <4>3, Zenon
    <3>2. ContentLength(header) = 0
      BY <3>1, Zenon DEF ContentLength
    <3> QED
      BY <2>3, <2>5, <3>2
  <2> QED
    BY <2>4, <2>5
<1>8. Missing(s) = IF BodyLength[q] > Len(s) - 2 THEN BodyLength[q] - (Len(s) - 2) ELSE 0
  BY <1>6, <1>7 DEF Missing, e
<1>9. Missing(s) \in Nat
  BY MissingType
<1> DEFINE m == Missing(s)
           length == BodyLength[q]
<1> HIDE DEF m, length
<1>10. m \in Nat /\ m = IF length > Len(s) - 2 THEN length - (Len(s) - 2) ELSE 0
  BY <1>8, <1>9 DEF m, length
<1>11. length = last - first - 1
  BY <1>2 DEF length
<1>12. last <= B + Len(s) + m
  <2>1. B \in Nat /\ Len(s) \in Nat /\ last \in Nat /\ length \in Int /\ last = B + length + 2
    BY <1>2, <1>5, <1>11
  <2>2. m >= length - (Len(s) - 2)
    BY <1>10, <2>1
  <2>3. \A b, n, l, k \in Int : k >= l - (n - 2) => b + l + 2 <= b + n + k
    OBVIOUS
  <2>4. B + length + 2 <= B + Len(s) + m
    <3>1. B \in Int /\ Len(s) \in Int /\ m \in Int
      BY <1>10, <2>1
    <3> QED
      BY <2>1, <2>2, <2>3, <3>1
  <2> QED
    BY <2>1, <2>4
<1>13. \A i \in first..last : i <= B + Len(s) + m
  BY <1>2, <1>10, <1>12
<1> QED
  BY <1>1, <1>13 DEF m

-----------------------------------------------------------------------------
(* The order of the answers                                                *)

\* Whatever a client sends ahead, no answer is given out of turn, and the heads
\* that are left are of requests after all that were answered.
OrderInv ==
  /\ \A i, j \in 1..Len(answers) :
       i < j /\ answers[i] # NotFound /\ answers[j] # NotFound => answers[i] < answers[j]
  /\ \A i \in 1..Len(Stream), j \in 1..Len(answers) :
       Stream[i].part = "head" /\ i > Front => answers[j] < Stream[i].request

\* A client that waits for each answer has sent nothing behind the request
\* whose turn it is; all that was answered is behind the front, and nothing else.
WaitInv ==
  ~eager =>
    /\ \A i \in 1..Len(answers) : answers[i] = i
    /\ \A i \in 1..sent : Stream[i].request <= Len(answers) + 1
    /\ \A i \in 1..Len(Stream) : i <= Front <=> Stream[i].request <= Len(answers)
    /\ pc \in {"handle", "write"} =>
         /\ Len(answers) + 1 \in 1..N
         /\ \A i \in 1..Len(Stream) : i <= received <=> Stream[i].request <= Len(answers) + 1

\* A connection that ends leaves nothing behind, and only a response moves the
\* front and adds an answer.
LEMMA FrontStep ==
  ASSUME ServerInv, PlaceInv, [Next]_vars
  PROVE  \/ /\ Front' = Front /\ answers' = answers
            /\ ClientSend \/ UNCHANGED <<eager, sent>>
         \/ /\ Front' = 0 /\ answers' = <<>> /\ sent' = 0
            /\ pc' \notin {"read", "body", "handle", "write"}
         \/ Write
<1> DEFINE Kept == Front' = Front /\ answers' = answers /\ UNCHANGED <<eager, sent>>
           Reading == {"read", "body", "handle", "write"}
<1>1. ASSUME Hangup, pc' \notin Reading
      PROVE  Front' = 0 /\ answers' = <<>> /\ sent' = 0
  BY <1>1 DEF Hangup, NoPeer, Front
<1>2. ASSUME UNCHANGED <<received, answers, eager, sent>>, pc \notin Reading, pc' \notin Reading PROVE Kept
  BY <1>2 DEF Front
<1>3. ASSUME UNCHANGED <<pc, readVars, answers, eager, sent>> PROVE Kept
  BY <1>3 DEF Front, readVars
<1>4. CASE UNCHANGED vars \/ Client
  <2>1. CASE ClientSend
    BY <2>1 DEF ClientSend, Front, threadVars, readVars, peerVars, historyVars
  <2> QED
    BY <1>3, <1>4, <2>1 DEF vars, threadVars, peerVars, peerVars, historyVars, Client, ClientConnect, ClientLeave
<1>5. CASE Owner
  <2>1. CASE Crash
    BY <2>1 DEF Crash, NoPeer, Front
  <2>2. CASE Start \/ Join
    <3>1. pc' \notin Reading /\ UNCHANGED <<received, answers, eager, sent>>
      BY <2>2 DEF Start, Join, readVars, peerVars, historyVars
    <3>2. pc \notin Reading
      BY <2>2 DEF Start, Join, ServerInv, NoThreadOutlivesStop
    <3> QED
      BY <1>2, <3>1, <3>2
  <2>3. CASE StartFails \/ StopBegin \/ CloseAcceptor \/ Destroy \/ \E opens \in BOOLEAN : Boot(opens)
    BY <1>3, <2>3 DEF StartFails, StopBegin, CloseAcceptor, Destroy, Boot, threadVars, peerVars, historyVars
  <2> QED
    BY <1>5, <2>1, <2>2, <2>3 DEF Owner
<1>6. CASE \/ LoopTest \/ AcceptFails \/ \E c \in Conns : Accept(c)
           \/ Lookup \/ Found \/ Added \/ Counted \/ Recorded
  <2>1. pc \notin Reading /\ pc' \notin Reading
    BY <1>6 DEF LoopTest, AcceptFails, Accept, Lookup, Found, Added, Counted, Recorded,
                CountConnection, AddClient
  <2>2. UNCHANGED <<received, answers, eager, sent>>
    BY <1>6 DEF LoopTest, AcceptFails, Accept, Lookup, Found, Added, Counted, Recorded,
                readVars, peerVars, historyVars
  <2> QED
    BY <1>2, <2>1, <2>2
<1>7. CASE DbStep
  BY <1>3, <1>7 DEF DbStep, threadVars, peerVars, historyVars
<1>8. CASE AcceptedTest /\ pc' = "lookup"
  BY <1>2, <1>8 DEF AcceptedTest, readVars, peerVars, historyVars
<1>9. CASE AcceptedTest /\ pc' # "lookup"
  BY <1>1, <1>9 DEF AcceptedTest
<1>10. CASE EndpointThrows \/ ReadFails \/ HandlerThrows \/ WriteFails
  BY <1>1, <1>10 DEF EndpointThrows, ReadFails, HandlerThrows, WriteFails, Leave
<1>11. CASE ServeTest /\ pc' = "read"
  <2>1. /\ pc = "serve" /\ buffer' = <<>> /\ received' = received /\ received \in Nat
        /\ UNCHANGED <<answers, eager, sent>>
    BY <1>11, ReadingTypes DEF ServeTest, Leave, peerVars, historyVars
  <2>2. Len(buffer') = 0
    BY <2>1
  <2> QED
    BY <1>11, <2>1, <2>2 DEF Front
<1>12. CASE ServeTest /\ pc' # "read"
  BY <1>1, <1>12 DEF ServeTest, Leave
<1>13. CASE ReadUntil
  <2>1. PICK n \in (received + 1)..sent : buffer' = buffer \o Unread(n) /\ received' = n
    BY <1>13 DEF ReadUntil
  <2>2. /\ pc = "read" /\ pc' = "read" /\ cur \in Conns /\ buffer \in Seq(Bytes)
        /\ n \in received..sent /\ UNCHANGED <<answers, eager, sent>>
    BY <1>13, ReadingTypes DEF ReadUntil, peerVars, historyVars
  <2>3. received - Len(buffer) >= 0
        /\ \A k \in 1..Len(buffer) : buffer[k][2] = received - Len(buffer) + k
    BY <2>2 DEF PlaceInv
  <2>4. PICK s1 \in Seq(Bytes) : s1 = buffer \o Unread(n) /\ n - Len(s1) = received - Len(buffer)
    BY <2>2, <2>3, ReadOn
  <2>5. received' - Len(buffer') = received - Len(buffer)
    BY <2>1, <2>4
  <2> QED
    BY <2>2, <2>5 DEF Front
<1>14. CASE TakeHeader
  <2>1. pc = "read" /\ received \in Nat /\ Len(buffer) \in Nat /\ UNCHANGED <<answers, eager, sent>>
    BY <1>14, ReadingTypes DEF TakeHeader, peerVars, historyVars
  <2>2. /\ buffer[1][2] = received - Len(buffer) + 1
        /\ data'[1] = buffer[1]
        /\ pc' \in {"body", "handle"}
    BY <1>14, HeaderTaken
  <2>3. data'[1][2] - 1 = received - Len(buffer)
    BY <2>1, <2>2
  <2> QED
    BY <2>1, <2>2, <2>3 DEF Front
<1>15. CASE ReadBody
  <2> DEFINE n == received + Missing(data)
  <2>1. /\ data' = data \o Unread(n) /\ pc = "body" /\ pc' = "handle" /\ n <= sent
        /\ UNCHANGED <<answers, eager, sent>>
    BY <1>15 DEF ReadBody, peerVars, historyVars
  <2>2. data \in Seq(Bytes) /\ HasEnd(data) /\ cur \in Conns /\ Missing(data) \in Nat
    BY <2>1, ReadingTypes, MissingType
  <2>3. n \in received..sent
    BY <2>1, <2>2, ReadingTypes
  <2>4. received - Len(data) >= 0 /\ \A k \in 1..Len(data) : data[k][2] = received - Len(data) + k
    BY <2>1 DEF PlaceInv
  <2> HIDE DEF n
  <2>5. data'[1] = data[1]
    BY <2>1, <2>2, <2>3, <2>4, ReadOn, HasFront
  <2> QED
    BY <2>1, <2>5 DEF Front
<1>16. CASE Handle
  BY <1>16 DEF Handle, Front, readVars, peerVars, historyVars
<1> QED
  BY <1>4, <1>5, <1>6, <1>7, <1>8, <1>9, <1>10, <1>11, <1>12, <1>13, <1>14, <1>15, <1>16
     DEF Next, Thread

\* The request at hand begins behind the front.
LEMMA FrontPiece ==
  ASSUME ServerInv, PlaceInv, pc \in {"body", "handle", "write"}
  PROVE  /\ data[1][2] = Front + 1 /\ Front + 1 \in 1..Len(Stream) /\ Front + 1 <= received
         /\ Front \in Nat
         /\ Parsed \in 0..N
         /\ Parsed # NotFound => /\ Stream[Front + 1].part = "head"
                                 /\ Parsed = Stream[Front + 1].request
         /\ Stream[Front + 1].part = "head" => Parsed = Stream[Front + 1].request
<1>1. data \in Seq(Bytes) /\ HasEnd(data)
  BY ReadingTypes
<1>2. data[1] \in Bytes /\ data[1][2] <= received
  BY <1>1, HasFront DEF PlaceInv
<1>3. data[1][2] \in 1..Len(Stream) /\ Front = data[1][2] - 1
  BY <1>2 DEF Bytes, Front
<1>4. data[1][2] = Front + 1 /\ Front \in Nat
  BY <1>3, PieceTypes
<1>5. Stream[data[1][2]].request \in 1..N
  BY <1>3, PieceTypes
<1> QED
  BY <1>2, <1>3, <1>4, <1>5, PieceTypes DEF Parsed, Part, NotFound

\* A response takes all that has been read.
LEMMA WriteMovesFront ==
  ASSUME ServerInv, Write
  PROVE  /\ pc = "write" /\ pc' = "serve" /\ Front' = received
         /\ answers' = Append(answers, Parsed) /\ UNCHANGED <<received, sent, eager>>
BY DEF Write, Front, readVars, peerVars

\* A response is to the request behind the front, and there is none behind the
\* front that has been answered.
LEMMA OrderStep == ServerInv /\ PlaceInv /\ OrderInv /\ [Next]_vars => OrderInv'
<1> SUFFICES ASSUME ServerInv, PlaceInv, OrderInv, [Next]_vars PROVE OrderInv'
  OBVIOUS
<1>1. CASE Front' = Front /\ answers' = answers
  BY <1>1 DEF OrderInv
<1>2. CASE answers' = <<>>
  <2>1. 1..Len(answers') = {}
    BY <1>2
  <2> QED
    BY <2>1 DEF OrderInv
<1>3. CASE Write
  <2>1. /\ pc = "write" /\ answers' = Append(answers, Parsed) /\ Front' = received
    BY <1>3, WriteMovesFront
  <2>2. /\ received \in Nat /\ received <= Len(Stream) /\ Len(Stream) \in Nat
        /\ answers \in Seq(0..N) /\ Len(answers) \in Nat /\ N \in Nat
    BY ReadingTypes
  <2>3. /\ Front + 1 \in 1..Len(Stream) /\ Front + 1 <= received /\ Front \in Nat
        /\ Parsed \in 0..N
        /\ Parsed # NotFound => /\ Stream[Front + 1].part = "head"
                                /\ Parsed = Stream[Front + 1].request
    BY <2>1, FrontPiece
  <2>4. PICK f \in Nat : f = Front
    BY <2>3
  <2>5. /\ \A i, j \in 1..Len(answers) :
             i < j /\ answers[i] # NotFound /\ answers[j] # NotFound => answers[i] < answers[j]
        /\ \A i \in 1..Len(Stream), j \in 1..Len(answers) :
             Stream[i].part = "head" /\ i > f => answers[j] < Stream[i].request
    BY <2>4 DEF OrderInv
  <2>6. /\ Len(answers') = Len(answers) + 1 /\ answers'[Len(answers) + 1] = Parsed
        /\ \A i \in 1..Len(answers) : answers'[i] = answers[i]
    BY <2>1, <2>2, <2>3
  <2>7. Parsed # NotFound => \A i \in 1..Len(answers) : answers[i] < Parsed
    BY <2>3, <2>4, <2>5
  <2>8. \A i \in 1..Len(Stream) : Stream[i].part = "head" /\ i > received => Parsed < Stream[i].request
    <3> SUFFICES ASSUME NEW i \in 1..Len(Stream), Stream[i].part = "head", i > received
                 PROVE  Parsed < Stream[i].request
      OBVIOUS
    <3>1. CASE Parsed = NotFound
      BY <3>1, PieceTypes DEF NotFound
    <3>2. CASE Parsed # NotFound
      BY <2>2, <2>3, <3>2, HeadsIncrease
    <3> QED
      BY <3>1, <3>2
  <2>9. \A i, j \in 1..Len(answers') :
          i < j /\ answers'[i] # NotFound /\ answers'[j] # NotFound => answers'[i] < answers'[j]
    <3> SUFFICES ASSUME NEW i \in 1..Len(answers'), NEW j \in 1..Len(answers'), i < j,
                        answers'[i] # NotFound, answers'[j] # NotFound
                 PROVE  answers'[i] < answers'[j]
      OBVIOUS
    <3>1. i \in 1..Len(answers) /\ (j \in 1..Len(answers) \/ j = Len(answers) + 1)
      <4>1. Len(answers) \in Nat /\ Len(answers') = Len(answers) + 1
        BY <2>2, <2>6
      <4> QED
        BY <4>1
    <3>2. CASE j \in 1..Len(answers)
      BY <2>5, <2>6, <3>1, <3>2
    <3>3. CASE j = Len(answers) + 1
      BY <2>6, <2>7, <3>1, <3>3
    <3> QED
      BY <3>1, <3>2, <3>3
  <2>10. \A i \in 1..Len(Stream), j \in 1..Len(answers') :
           Stream[i].part = "head" /\ i > received => answers'[j] < Stream[i].request
    <3> SUFFICES ASSUME NEW i \in 1..Len(Stream), NEW j \in 1..Len(answers'),
                        Stream[i].part = "head", i > received
                 PROVE  answers'[j] < Stream[i].request
      OBVIOUS
    <3>1. j \in 1..Len(answers) \/ j = Len(answers) + 1
      <4>1. Len(answers) \in Nat /\ Len(answers') = Len(answers) + 1
        BY <2>2, <2>6
      <4> QED
        BY <4>1
    <3>2. i > f
      BY <2>2, <2>3, <2>4
    <3>3. CASE j \in 1..Len(answers)
      BY <2>5, <2>6, <3>2, <3>3
    <3>4. CASE j = Len(answers) + 1
      BY <2>6, <2>8, <3>4
    <3> QED
      BY <3>1, <3>3, <3>4
  <2> QED
    BY <2>1, <2>9, <2>10 DEF OrderInv
<1> QED
  BY <1>1, <1>2, <1>3, FrontStep

-----------------------------------------------------------------------------
(* A client that waits                                                     *)

\* What comes first behind the front of a client that waits is the head of the
\* next request.
LEMMA FrontIsNext ==
  ASSUME ServerInv, PlaceInv, WaitInv, ~eager, pc \in {"handle", "write"}
  PROVE  Parsed = Len(answers) + 1
<1> DEFINE q == Len(answers) + 1
<1>1. /\ Front + 1 \in 1..Len(Stream) /\ Front + 1 <= received /\ Front \in Nat
      /\ received \in Nat /\ Len(Stream) \in Nat /\ Len(answers) \in Nat
      /\ Stream[Front + 1].part = "head" => Parsed = Stream[Front + 1].request
  BY FrontPiece, ReadingTypes
<1>2. PICK f \in Nat : f = Front
  BY <1>1
<1>3. /\ \A i \in 1..Len(Stream) : i <= received <=> Stream[i].request <= q
      /\ \A i \in 1..Len(Stream) : i <= f <=> Stream[i].request <= Len(answers)
  BY <1>2 DEF WaitInv
<1>4. Stream[f + 1].request = q
  BY <1>1, <1>2, <1>3, PieceTypes
<1>5. Stream[f + 1].part = "head"
  <2> SUFFICES ASSUME Stream[f + 1].part # "head" PROVE FALSE
    OBVIOUS
  <2>1. f + 1 - 1 \in 1..Len(Stream) /\ Stream[f + 1 - 1].request = q
    BY <1>1, <1>2, <1>4, Continued
  <2>2. f \in 1..Len(Stream) /\ Stream[f].request = q
    BY <1>2, <2>1
  <2> QED
    BY <1>1, <1>2, <1>3, <2>2
<1> QED
  BY <1>1, <1>2, <1>4, <1>5

\* What read_full_request() returns of a client that waits is the next request,
\* whole: s is what of it has come, with what is missing.
LEMMA NextIsWhole ==
  ASSUME ServerInv, PlaceInv, WaitInv, ~eager, NEW s \in Seq(Bytes), HasEnd(s),
         received - Len(s) = Front, \A k \in 1..Len(s) : s[k][2] = Front + k,
         received + Missing(s) <= sent
  PROVE  /\ Len(answers) + 1 \in 1..N
         /\ \A i \in 1..Len(Stream) :
              i <= received + Missing(s) <=> Stream[i].request <= Len(answers) + 1
<1> DEFINE q == Len(answers) + 1
<1>1. PICK a \in Nat : a = Len(answers)
  BY ReadingTypes
<1>2. 1 \in 1..Len(s) /\ s[1] \in Bytes /\ Missing(s) \in Nat
  BY HasFront, MissingType
<1>3. PICK f \in Nat : f = Front
  <2>1. s[1][2] = Front + 1 /\ s[1][2] \in 1..Len(Stream)
    BY <1>2 DEF Bytes
  <2>2. Front = s[1][2] - 1
    <3>1. received - Len(s) \in Int
      BY ReadingTypes
    <3> QED
      BY <2>1, <3>1
  <2> QED
    BY <2>1, <2>2, PieceTypes
<1>4. /\ received \in Nat /\ sent \in Nat /\ sent <= Len(Stream) /\ Len(Stream) \in Nat
      /\ Len(s) \in Nat /\ received = f + Len(s)
  BY <1>3, ReadingTypes
<1>5. /\ \A i \in 1..sent : Stream[i].request <= a + 1
      /\ \A i \in 1..Len(Stream) : i <= f <=> Stream[i].request <= a
  BY <1>1, <1>3 DEF WaitInv
<1>6. \A k \in 1..Len(s) : f + k \in 1..Len(Stream) /\ f + k \in 1..sent /\ f + k > f
  BY <1>2, <1>4
<1>7. \A k \in 1..Len(s) : Stream[f + k].request = a + 1
  BY <1>5, <1>6, PieceTypes
<1>8. a + 1 \in 1..N
  BY <1>2, <1>6, <1>7, PieceTypes
<1>9. \A i \in 1..Len(Stream) : Stream[i].request = a + 1 => i > f
  BY <1>4, <1>5
<1>10. \A i \in 1..Len(Stream) : Stream[i].request = a + 1 => i <= f + Len(s) + Missing(s)
  BY <1>3, <1>7, <1>8, <1>9, MissingIsRest
<1>11. PICK m \in Nat : m = received + Missing(s)
  BY <1>2, <1>4
<1>12. m = f + Len(s) + Missing(s) /\ f <= m /\ m <= sent
  BY <1>2, <1>4, <1>11
<1>13. \A i \in 1..Len(Stream) : i <= m => Stream[i].request <= a + 1
  BY <1>4, <1>5, <1>12
<1>14. \A i \in 1..Len(Stream) : Stream[i].request <= a + 1 => i <= m
  BY <1>5, <1>10, <1>12, PieceTypes
<1> QED
  BY <1>1, <1>8, <1>11, <1>13, <1>14

\* A request comes to be handled when its header, or its body, has come, and
\* from then on nothing is read.
LEMMA HandledWhole ==
  ASSUME [Next]_vars, pc' \in {"handle", "write"}
  PROVE  \/ pc \in {"handle", "write"} /\ received' = received
         \/ TakeHeader \/ ReadBody
<1>1. CASE UNCHANGED vars \/ Owner \/ Client
  BY <1>1 DEF vars, threadVars, readVars, Owner, Crash, Start, StartFails, StopBegin, CloseAcceptor,
              Join, Destroy, Boot, Client, ClientConnect, ClientSend, ClientLeave
<1>2. CASE DbStep \/ Handle
  BY <1>2 DEF DbStep, Handle, threadVars, readVars
<1>3. ~ \/ LoopTest \/ AcceptFails \/ AcceptedTest \/ EndpointThrows \/ \E c \in Conns : Accept(c)
        \/ Lookup \/ Found \/ Added \/ Counted \/ Recorded
        \/ ServeTest \/ ReadUntil \/ ReadFails \/ HandlerThrows \/ WriteFails \/ Write
  BY DEF LoopTest, AcceptFails, AcceptedTest, EndpointThrows, Accept, Lookup, Found, Added, Counted,
         Recorded, ServeTest, ReadUntil, ReadFails, HandlerThrows, WriteFails, Write, Leave,
         CountConnection, AddClient
<1> QED
  BY <1>1, <1>2, <1>3 DEF Next, Thread

\* Every step keeps a waiting client's turn.
LEMMA WaitStep == ServerInv /\ PlaceInv /\ WaitInv /\ [Next]_vars => WaitInv'
<1> SUFFICES ASSUME ServerInv, PlaceInv, WaitInv, [Next]_vars, ~eager' PROVE WaitInv'
  BY DEF WaitInv
<1>1. /\ received \in Nat /\ sent \in Nat /\ received <= sent /\ sent <= Len(Stream)
      /\ Len(Stream) \in Nat /\ Len(answers) \in Nat /\ answers \in Seq(0..N)
  BY ReadingTypes
<1>2. CASE Front' = 0 /\ answers' = <<>> /\ sent' = 0 /\ pc' \notin {"handle", "write"}
  <2>1. Len(answers') = 0 /\ 1..Len(answers') = {} /\ 1..sent' = {}
    BY <1>2
  <2>2. \A i \in 1..Len(Stream) : ~(i <= 0) /\ ~(Stream[i].request <= 0)
    BY PieceTypes
  <2> QED
    BY <1>2, <2>1, <2>2 DEF WaitInv
<1>3. CASE Write
  <2>1. /\ pc = "write" /\ pc' = "serve" /\ Front' = received /\ ~eager
        /\ answers' = Append(answers, Parsed) /\ UNCHANGED <<received, sent>>
    BY <1>3, WriteMovesFront
  <2>2. Parsed = Len(answers) + 1
    BY <2>1, FrontIsNext
  <2>3. /\ \A i \in 1..Len(answers) : answers[i] = i
        /\ \A i \in 1..sent : Stream[i].request <= Len(answers) + 1
        /\ Len(answers) + 1 \in 1..N
        /\ \A i \in 1..Len(Stream) : i <= received <=> Stream[i].request <= Len(answers) + 1
    BY <2>1 DEF WaitInv
  <2>4. Len(answers') = Len(answers) + 1 /\ \A i \in 1..Len(answers') : answers'[i] = i
    BY <1>1, <2>1, <2>2, <2>3
  <2>5. \A i \in 1..sent : Stream[i].request <= Len(answers) + 1 + 1
    BY <1>1, <2>3, PieceTypes
  <2> QED
    BY <2>1, <2>3, <2>4, <2>5 DEF WaitInv
<1>4. CASE ClientSend /\ Front' = Front /\ answers' = answers
  <2>1. /\ UNCHANGED <<received, pc>> /\ sent' = sent + 1 /\ sent < Len(Stream) /\ ~eager
        /\ Stream[sent + 1].part = "head" => ~(Len(answers) < Stream[sent + 1].request - 1)
    BY <1>4 DEF ClientSend, threadVars, readVars
  <2>2. sent + 1 \in 1..Len(Stream) /\ Stream[sent + 1].request \in 1..N /\ N \in Nat
    BY <1>1, <2>1, PieceTypes
  <2>3. Stream[sent + 1].request <= Len(answers) + 1
    <3>1. CASE Stream[sent + 1].part = "head"
      BY <1>1, <2>1, <2>2, <3>1
    <3>2. CASE Stream[sent + 1].part # "head"
      <4>1. sent \in 1..Len(Stream) /\ Stream[sent].request = Stream[sent + 1].request
        BY <1>1, <2>2, <3>2, Continued
      <4> QED
        BY <1>1, <2>1, <4>1 DEF WaitInv
    <3> QED
      BY <3>1, <3>2
  <2>4. \A i \in 1..sent' : Stream[i].request <= Len(answers) + 1
    BY <1>1, <2>1, <2>3 DEF WaitInv
  <2> QED
    BY <1>4, <2>1, <2>4 DEF WaitInv
<1>5. CASE /\ Front' = Front /\ answers' = answers /\ UNCHANGED <<eager, sent>>
           /\ pc' \in {"handle", "write"} => pc \in {"handle", "write"} /\ received' = received
  BY <1>5 DEF WaitInv
<1>6. CASE /\ Front' = Front /\ answers' = answers /\ UNCHANGED <<eager, sent>>
           /\ TakeHeader \/ ReadBody
           /\ pc' \in {"handle", "write"}
  <2>1. /\ Len(answers) + 1 \in 1..N
        /\ \A i \in 1..Len(Stream) : i <= received' <=> Stream[i].request <= Len(answers) + 1
    <3>1. CASE TakeHeader
      <4>1. /\ HasEnd(buffer) /\ Missing(buffer) = 0
            /\ pc = "read" /\ received' = received /\ buffer \in Seq(Bytes)
        BY <1>6, <3>1, HeaderTaken, ReadingTypes DEF TakeHeader
      <4>2. received - Len(buffer) = Front /\ \A k \in 1..Len(buffer) : buffer[k][2] = Front + k
        BY <4>1 DEF PlaceInv, Front
      <4>3. received + Missing(buffer) = received
        BY <1>1, <4>1
      <4> QED
        BY <1>1, <1>6, <4>1, <4>2, <4>3, NextIsWhole
    <3>2. CASE ReadBody
      <4>1. /\ pc = "body" /\ received' = received + Missing(data) /\ received + Missing(data) <= sent
        BY <3>2 DEF ReadBody
      <4>2. data \in Seq(Bytes) /\ HasEnd(data) /\ Len(data) \in Nat
        BY <4>1, ReadingTypes
      <4>3. received - Len(data) >= 0 /\ \A k \in 1..Len(data) : data[k][2] = received - Len(data) + k
        BY <4>1 DEF PlaceInv
      <4>4. Front = received - Len(data)
        <5>1. 1 \in 1..Len(data)
          BY <4>2, HasFront
        <5>2. data[1][2] = received - Len(data) + 1
          BY <4>3, <5>1
        <5> QED
          BY <1>1, <4>1, <4>2, <5>2 DEF Front
      <4> QED
        BY <1>6, <4>1, <4>2, <4>3, <4>4, NextIsWhole
    <3> QED
      BY <1>6, <3>1, <3>2
  <2> QED
    BY <1>6, <2>1 DEF WaitInv
<1> QED
  BY <1>2, <1>3, <1>4, <1>5, <1>6, FrontStep, HandledWhole

\* A client that waits gets the answers of its requests in order, and one that
\* does not may lose requests but is answered none of them twice, or out of turn
\* (SyncHTTPServer.cpp:97-140, 173-236).
THEOREM AnswersInOrderCorrect == Spec => []AnswersInOrder
<1>1. Init => PlaceInv /\ OrderInv /\ WaitInv
  <2> SUFFICES ASSUME Init PROVE PlaceInv /\ OrderInv /\ WaitInv
    OBVIOUS
  <2>1. pc = "none" /\ received = 0 /\ sent = 0 /\ answers = <<>>
    BY DEF Init
  <2>2. Front = 0 /\ Len(answers) = 0 /\ 1..Len(answers) = {} /\ 1..sent = {}
    BY <2>1 DEF Front
  <2>3. \A i \in 1..Len(Stream) : ~(i <= 0) /\ ~(Stream[i].request <= 0)
    BY PieceTypes
  <2> QED
    BY <2>1, <2>2, <2>3 DEF PlaceInv, OrderInv, WaitInv
<1>2. OrderInv /\ WaitInv => AnswersInOrder
  BY DEF OrderInv, WaitInv, AnswersInOrder
<1> QED
  BY <1>1, <1>2, ServerInvCorrect, PlaceStep, OrderStep, WaitStep, PTL DEF Spec
=============================================================================
