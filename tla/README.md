# A verification project for the C++ HTTP server

The program is a Windows/MSVC C++20 HTTP server: an asio server with several IO
threads, an in-memory user store filled by `POST /users` and read by five `GET`
endpoints, and an SQLite-backed record of clients and connections. This directory
holds TLA+ models of its stateful parts, TLC runs on small instances, and proofs
checked by TLAPS.

Shorthand: `RH` = `src/server/RequestHandlers.hpp`, `AC` =
`src/server/AsyncClientHandler.hpp`, `MT` = `src/server/MultiThreadHTTPServer.cpp`,
`TP` = `src/server/ThreadPool.hpp`, `SD` = `src/server/SqliteDatabase.cpp`, `SS` =
`src/server/SyncHTTPServer.cpp`, `MB` = `src/server/MultipartBodyParser.hpp`.

## 1. Inventory

What `main` (`server.cpp:19-57`) does: read the configuration, open the database,
register the routes, build and start a `MultiThreadHTTPServer`, sleep, destroy it.

| Component | State | Operations | Hard behaviour |
|---|---|---|---|
| `UserHandler` (`RH`) | vector `users`, `m_mutex` | `handlePOSTUsers`, the `GET` handlers, `handleGetEvaluation` | `GET`s walk the vector without the mutex; `try_lock`/`unlock` paired by hand; the parser may throw with the mutex held; four `std::async` tasks refer to a frame; the reports have limits, ties and shares |
| `AsyncClientHandler` (`AC`) | `m_requestData`, `m_socket`, `m_keepAlive` | `readData`, `handleRead`, `processRequest`, `sendResponse`, `handleWrite`, `stop` | completion handlers on any IO thread, no strand; `clear()` after `async_write` has been started; pipelined and split requests |
| `MultiThreadHTTPServer` (`MT`) | `m_server_running`, acceptor, work guard, `io_context`, thread pool | `start`, `stop`, `configure`, destructor, `startAccept`, `handleAccept`, `handleClient` | `stop()` against a running accept chain; exceptions that end an IO thread; a second `start()` |
| `ThreadPool` (`TP`) | queue, mutex, condition variable, stop flag | constructor, `enqueue`, destructor | notifications outside the mutex; tasks that enqueue; destruction with queued tasks |
| `SqliteDatabase` (`SD`) | `m_db`, `m_prepared_statements`, the file | `connect`, `disconnect`, the calls and getters of the client and connection repositories | failed statements and commits, a transaction left open, reconnections, crashes, ids used again |
| `SyncHTTPServer` (`SS`) | one thread that accepts and serves, acceptor, `m_server_running`, a `streambuf` for all connections | `start`, `stop`, `configure`, destructor, `read_full_request`, `handle_client` | blocking calls against `stop()`, three transactions per client of which any may fail, bytes behind a request, crashes between statements |
| messages, router, body parser | none that outlives a call, but the one `MultipartBodyParser` keeps its parts | `RequestFactory::parse`, `HttpRequest`, `handleRequest` of the router, `MultipartBodyParser::parse`, `getValue` | delimiters and line ends that are easily one off |
| configuration, logging, void classes | read once, or none | - | - |

Interactions: the accept chain of `MultiThreadHTTPServer` posts a `handleClient`,
which makes an `AsyncClientHandler`; this lives on the `io_context` and calls, on
whichever IO thread runs it, the router and so `UserHandler`. An exception a handler
does not catch leaves `io_context::run()` and ends that IO thread (`MT:63-76`), which
is how a malformed upload reaches the server. `SqliteDatabase` is called from
`SyncHTTPServer` only, by one thread (`SS:155-171`); `ThreadPool` is a member of the server to which
nothing is enqueued. `main` builds
the `MultiThreadHTTPServer`; `SyncHTTPServer` is compiled with it and takes its place by
a change of one line (`server.cpp:49`). `AsyncHTTPServer.cpp` and `EventLogger.*` are in no build target.
asio, SQLite and simdjson are vendored under `src/`.

What makes each correct: the store holds one upload whole, and one writer at a time
works on it; a connection has one outstanding operation or one thread about to start
one, and its answers are those of its requests in order; the server waits for the
next client as long as it runs, and no thread survives `stop()`; the pool runs every
task once; the database changes by whole calls that say what they did; the blocking server
answers a client from its own bytes and counts each connection it records once; an
upload is answered, and reported on, for what the client has put into its form.

## 2. Modules

| Module | Models | Main correspondences |
|---|---|---|
| `UserHandler` | `RH:71-367`, simdjson's reader of arrays | one action per step visible to another thread: `PostUsers`/`RefuseUpload` (`try_lock`), `ParseBody`, `ClearUsers`, `EmplaceUser` + `FillUser` (an element is emplaced, then read in place), `AcceptUpload`, `RejectUpload`, `ThrowParseError`, `Unlock`; `StartReads`, `BeginScan`, `ReadUser`, `EndScan`, `FinishReads` for the walks |
| `UserStore` | what the store promises those who do not look while it is being written | abstract specification, implemented by `UserHandler` |
| `AsyncClientHandler` | `AC`, `RequestFactory` | `HandleRead`, `CheckComplete`, `SetKeepAlive`, `ParseAndHandle`, `SendResponse`, `ClearRequestData`, `HandleWrite` are the pieces of `handleRead`, `processRequest` and `handleWrite` between which another thread may run; `HandleReadError`, `HandleWriteError`, `HandlerThrows` the error paths |
| `ClientStream` | the bytes a client sends, cut into heads, ends of headers and units of body; `BodyLength`, what a header says of its body | both connection modules extend it: `m_requestData` and the `streambuf` hold its pieces |
| `MultiThreadHTTPServer` | `MT`, its header, `SimpleThreadPool.hpp` and asio's completion queue | owner: `Start`, `StartFails`, `StopBegin`, `CloseAcceptor`, `ResetWorkGuard`, `StopIoContext`, `JoinAll`, `Destroy`; IO threads: `Dispatch`, `ThreadExits`, `AcceptConnection`, `AcceptRefused`, `AcceptThrows`, `AcceptError`, `StartAccept`, `HandleClient`, `HandleIo`, `HandlerThrows` |
| `ThreadPool` | `TP` | sections under `queue_mutex` are steps; the notifications are steps of their own |
| `UserQueries` | `RH:153-299` | each report as an operator on the vector of users: `Superusers`, `TopCountries` (a set: ties are in no order), `TeamInsights`, `ActiveUsers`; `SuperusersRight`, ... say the same by counting |
| `HttpMessages` | `RequestFactory.hpp`, `HttpRequest.cpp`, `RequestRouter.hpp`, the routes of `server.cpp` | `Parse` and `Route` on sequences of tokens |
| `MultipartBodyParser` | `MB` | `Parts`, `ParsePart`, `GetValue` on the same tokens |
| `UserRequests` | `RH:113-151`, `RH:347-367` on the bytes of a request | composes the four: each upload of `UserHandler` is a form, written as a request, and its outcome and size are what the parsers find there |
| `TaskExecutor` | what the pool promises | abstract specification, implemented by `ThreadPool` |
| `SqliteDatabase` | `SD`, its header, `sql_queries.hpp` | `Connect`, `Disconnect`, `Restart`; `Call`, `BeginTransaction`, `StepStatement`, `CommitTransaction`, `CommitFails`, `RollbackTransaction` are the stations of each changing call; `Get` is any getter, and `Found` what it finds |
| `SyncHTTPServer` | `SS`, its header, on an INSTANCE of `SqliteDatabase` | owner: `Boot`, `Start`, `StartFails`, `StopBegin`, `CloseAcceptor`, `Join`, `Destroy`, `Crash`; thread: `LoopTest`, `Accept`, `AcceptFails`, `AcceptedTest`, `EndpointThrows`; `Lookup`, `DbStep`, `Found`, `Added`, `Counted`, `Recorded` for the three transactions; `ServeTest`, `ReadUntil`, `TakeHeader`, `ReadBody`, `ReadFails`, `Handle`, `HandlerThrows`, `Write`, `WriteFails` |
| `ClientRepository` | what the repository interfaces promise | abstract specification, implemented by `SqliteDatabase` |
| `*MC` | small instances for TLC | values of the structured constants |
| `UserHandlerProofs`, `AsyncClientHandlerProofs`, `ClientStreamProofs`, `MultiThreadHTTPServerProofs`, `SqliteDatabaseProofs`, `SyncHTTPServerProofs`, `ThreadPoolProofs`, `UserRequestsProofs` | - | theorems and lemmas |

Operators marked `slip:` in the component modules are plausible mistakes in the code
next to them (a forgotten `clear()`, an unchecked `try_lock`, `notify_one` for
`notify_all`). No specification uses them. Each property is shown to notice one of
them: put in the place of the definition it is a slip of, it makes the property fail.

Abstractions. In `UserHandler` a user is the upload it came with, and `Torn` stands for an element
under construction or read through an iterator that a writer has invalidated;
`UserRequests` looks up the users such elements stand for. For the parsers a text is a
sequence of tokens: the characters the code looks for, and stretches in which it looks for
nothing. For the two connection modules a request is a head, an end of headers and units
of body. A connection, for `MultiThreadHTTPServer`, is whether an operation of it is
outstanding. A share of active members is the pair of numbers it is computed from. The
layout of responses is left out. The parser object
keeps its parts between uploads, but `RH:128` has them read only after a `parse()` that has
cleared and filled them, so it is a function of the request here and nothing is claimed
about kept parts. The unsynchronised accesses to the acceptor's descriptor (`MT:25` against
`startAccept`) are reduced to the orders they may take. Undefined behaviour
(reading the vector while it is changed, `append` racing with `clear`) is a choice
among the values or orders the build can produce; a crash of the process from it is not
modelled.

SQLite. The prepared statements belong to the handle of the first `connect()` and
keep it open, since `sqlite3_close` refuses while statements live; `work` is that
handle's view and `txn` whether it has a transaction open. Any statement may fail,
`ROLLBACK` included, whose result nobody looks at; a failed `COMMIT` may leave the
transaction open or roll it back. A getter reads `work`, open transaction and all, and a
failure of it says the same as no row. Before the first `connect()` its statement is null;
`Early` bounds which getters are then called, as they all answer the same.

Clients. A client of `SyncHTTPServer` sends only while it is read from, and leaves only
where the thread asks its socket for something: the thread can notice nothing else, and
what has been sent is in the socket's buffer. It may come from any address in `From`, wait
for its answers or send ahead (`eager`), stop sending in the middle of a request, or stop
reading.

## 3. Runs

| Run | Instance | Shows |
|---|---|---|
| `user_handler` | 2 threads, 2 endpoints, 5 forms: a quoted boundary, no field `users`, a number for an array, a good user before a bad one, 2 good users behind another field | `TypeOK`, `OneWriter`, `StoreIsOneUpload`, `LostThreadFreezesStore`, `AcceptedCountExact`, `QuietReadsExact`, `TasksEndWithTheirRequest`, `EveryRequestEnds`, `ImplementsUserStore`, `AnsweredForTheFormSent`, `QuietReportsAreExact` |
| `user_handler_rejected` | 1 endpoint | an upload answered with `user_count` 0 has stored users (finding) |
| `user_handler_busy` | 1 endpoint | an upload refused as concurrent when nothing is being processed (finding) |
| `connection` | 3 threads, 3 requests of 2 or 4 pieces, a client that waits or sends ahead, closes or makes a handler throw | `TypeOK`, `OneDriver`, `AnswersInOrder`, `CloseAfterLastAnswer`, `RequestsAreAnswered` |
| `connection_repeat` | 2 threads, 2 requests | a request answered twice (finding) |
| `server` | 2 IO threads, 2 clients, backlog 1, 2 lives | `TypeOK`, `NoThreadOutlivesStop`, `OneAcceptChain`, `OneTaskPerConnection`, `StopReturns`, `ClientsAreServed` |
| `server_restart` | as `server` | a second `start()` runs without IO threads (finding) |
| `thread_pool` | 2 workers, 3 tasks | `TypeOK`, `NoLostWakeup`, `RunsEveryTaskOnce`, `DestructorReturns` |
| `database` | 2 addresses, ids to 2, counters to 1, every getter | `TypeOK`, `AnswersAreCommitted`, `OneRowPerClient`, `ImplementsRepository`, `StuckUntilRestart` |
| `database_cascade` | ids to 1 | a committed `remove_client` leaves the client's connection (finding) |
| `database_reconnect` | as `database` | `add_client` returns 0 for a client it stored (finding) |
| `sync_server` | 2 clients of one or two addresses, 2 requests, the first with a body, ids and counters to 2; stops, restarts and crashes without bound | `TypeOK`, `OnlyOwnBytes`, `AnswersInOrder`, `CountedOncePerConnection`, `NoThreadOutlivesStop`, `StopReturns`, `ClientsAreServed`, `RequestsAreAnswered` |

Two facts about operators are assumptions that TLC evaluates with the run `user_handler`:
`RoutesAgree` (6 methods, every registered path and one that is not, with and without a
query: the factory, the router and `UserHandler` agree on where a request goes) and
`PartsAreTheFields` (forms of up to two fields with contents that are empty, hold empty
lines, dashes or another form's delimiter: the parser finds the fields, whole and in
order). Both are proved for every request and every form (`EveryRequestRouted`,
`FieldsFound`); TLC found the statements to be right before they were proved.
`OutcomeAssumption` ties the inputs of `UserHandler` to the parsers.

Why the bounds are enough for what is asked. Two threads give every interleaving of a
writer with a reader and of two writers, and a third thread on a connection lets a read
overtake a `clear()` while a further one is being handled. A body of two users is the
smallest whose half-stored form differs from none and from all. Three requests show a
request in the first, a middle and the last place on its connection. Two lives of the
server are the smallest number in which something of the first can disturb the second;
two clients with a backlog of one make one wait for the other. Three tasks for two
workers make a task wait in the queue. Two ids are enough for an id to be used again
after a removal while another row exists. On the blocking server a second client meets what
the first has left in the buffer, the database and the flags; a request with a body before
one without shows both sides of `SS:117-139`, and two addresses of which the clients may
share one show a client that is known and one that is not. The five forms are one for each
outcome of the parsers; their three users differ in every field a report looks at, tie for
a place and meet the limit of `MaxCountries` = 1. Every bound is a constant of its module:
`MaxStarts`, `Backlog`, `N`, `MaxId`, `MaxCount`, `Early`, `MaxCountries` (5 in the code),
and the sizes of the sets.

Deadlock. `UserHandler` and `SqliteDatabase` are checked for it. A connection that is
closed, servers that are destroyed and a pool that is gone have really stopped, so the
other runs do not look for it; what must not stop early is stated by `OneDriver`,
`StopReturns`, `ClientsAreServed` and `DestructorReturns`.

Fairness. Weak fairness of what the operating system schedules and of nothing a client
decides: a thread inside a handler and an async task go on (`UserHandler`); IO threads
run the completion handlers that are ready (`AsyncClientHandler`,
`MultiThreadHTTPServer`); an accept completes when a client waits for it, and whoever
has called `stop()` goes through with it; workers run, a call of `enqueue()` and a
destructor once begun go on, and tasks end (`ThreadPool`); the connection thread and a
`stop()` once begun go on (`SyncHTTPServer`), a `Write` only if the client reads, which is
assumed of nobody: `StopReturns`, `ClientsAreServed` and `RequestsAreAnswered` of that
module except the thread that waits for one client for ever, as the code does (there is no
timeout), and nothing else. That a request, a byte or a
call arrives is never assumed. `SqliteDatabase` has safety properties only.

## 4. What the runs found

Each finding is a run that TLC ends with a counterexample.

* `user_handler_rejected` (`RH:141`): the store is cleared before the array is read and
  keeps the users before the malformed one, while the response says 0 users.
* `user_handler_busy` (`RH:353`): a body the JSON parser throws at leaves `m_mutex`
  locked and ends the IO thread; every later upload is told that another request is
  being processed.
* `connection_repeat` (`AC:154`): `clear()` comes after `async_write` was started, so
  another thread may complete the write and the next read before it, and the answered
  request, still at the front, is answered again.
* `server_restart` (`MT:68`): nothing calls `io_context::restart()`.
* `database_cascade` (`sql_queries.hpp:78`): foreign keys are never switched on, so a
  client that is stored, recorded with a connection and removed leaves that connection
  behind (`RemovalCascades`). A new id is the largest one plus 1, so when the client
  removed was the last one the next to be added gets its id, and the connection with it.
* `database_reconnect` (`SD:126`): after a reconnection the row id is asked of a handle
  that has inserted nothing.

The models also show, without a run of their own: the same race lets `clear()` drop the
start of the next request, and without any race it drops pipelined requests that arrived
with the answered one (`AC:154`); `configure()` leaves a running server stopped
(`MultiThreadHTTPServer.hpp:79-83`); `connect()` returns true although the file could not
be opened (`SD:79-86`); a disconnected object still changes the file (`SD:89-98`); a getter
sees what a failed commit left in the open transaction (`SD:263-351`), and its failure reads
as no row; a second `connect()` while connected does nothing and returns true. When `bind`
or `listen` throws in `start()` of either server, the acceptor stays open and no later
`start()` succeeds (`MT:49`, `SS:20`); `SyncHTTPServer::start` sets its flag before it makes
the thread, so it runs without one if that throws. Its loop consumes the bytes of a request
that came with the one before (`SS:99`, `SS:135`), waits for a client after answering it
with `Connection: close` (`SS:173`), and logs an error when a connection was recorded
(`SS:166`). A form without a field `users` gives the JSON parser an empty text and is one
way to lose the thread with the mutex; a quoted boundary or a `content-type` in lower case,
both legal, are refused with 400; the parser finds `name="` inside `filename="` (`MB:94`).

## 5. Proofs

The theorems hold for every value of the constants under the named assumptions of the
modules, which TLC evaluates in the runs.

**`UserHandlerProofs`** (`UploadAssumption`, `ThreadAssumption`): `TypeCorrect`,
`OneWriterCorrect`, `StoreIsOneUploadCorrect`, `LostThreadFreezesStoreCorrect`,
`AtMostOneThreadLost`, `AcceptedCountExactCorrect`, `QuietReadsExactCorrect`,
`TasksEndWithTheirRequestCorrect`, `ParsersDecideCorrect`, `UserStoreImplemented`. The inductive invariant is `Inv ==
TypeOK /\ OneWriter /\ StoreInv`. `OneWriter` is inductive given the types.
`StoreIsOneUpload` is not: when an upload ends one must know that the number of users in
the vector is the number of elements read so far, so `FillInv` counts them (`taken`) and
says which user each is, and `RestInv` says that the store is whole when nobody is
filling it. A response's count is exact because its upload has read all its elements when it
answers. `QuietReadsExact` needs `QuietInv`: a walk no writer has disturbed has read a
prefix of the vector as it is, which nobody is filling. For the refinement, a step of a writer maps to the step of `UserStore` that
its place in the handler says, and all other steps to stuttering. Only the safety part
of `UserStore` is proved. `TasksEndWithTheirRequestCorrect` says that nothing refers to the frame of
`handleGetEvaluation` once it has returned: it is inductive given the types, as the four
futures are waited for before the thread goes on. `ParsersDecideCorrect` says that every
answer to an upload is the refusal, or what the parsers' outcome for that very form asks
for, whatever other uploads do meanwhile; for the form whose element cannot be read it needs
`FillInv`, which says that such an upload has reached that element. It is the half of
`AnsweredForTheFormSent` that is about interleavings.

**`AsyncClientHandlerProofs`** (`StreamAssumption`, `StreamOrder`, `ClientAssumption`):
`TypeCorrect`, `OneDriverCorrect`, `AnswersInOrderCorrect`, `CloseAfterLastAnswerCorrect`.
`OneDriver` is inductive given the types: it says where the right to
touch `m_requestData` is, in the outstanding operation or in one thread, and every
handler passes it on or closes the socket. No strand is needed for that, and the one
statement after the hand-over, `clear()`, is the one `connection_repeat` is about. The
order of the answers is claimed as long as no read has completed before the `clear()` of an
earlier request; the write may. `HandOver` says what may happen while a thread is before
`clear()`, and `Taken` is how much of the stream can no longer be
parsed once that thread has gone on. `OrderInv`: the heads after `Taken` are of requests after
all that were answered. `WaitInv`, for a client that waits: the pieces up to `Taken` are
exactly those of the answered requests, so the next request to be answered is the
next one (`FrontIsNext`), whole (`NextIsWhole`). `CloseInv` ties `m_keepAlive` to the request
it was read from: once the answer to `Connection: close` is given nothing is read or
answered.

**`ClientStreamProofs`** (`StreamAssumption`, `StreamOrder`) holds what both connections
rest on: a later piece is of the same or a later request, the heads are of increasing
requests (`HeadsIncrease`), a request goes on to its last piece (`Continued`), and
`BodyLength` is its pieces without head and end (`BodyLengthOf`).

**`MultiThreadHTTPServerProofs`** (`ServerAssumption`): `TypeCorrect`,
`NoThreadOutlivesStopCorrect`, `OneTaskPerConnectionCorrect`, `OneAcceptChainCorrect`. That no
thread is left needs to know that a running server's owner is in no call
(`RunningInv`). The other two count packets, in the queue and in the threads' hands
(`Held`); the lemmas `CountPush`, `CountPop`, `CountAborted`, `HeldDispatch` and `HeldMoves` say
what each way of moving a packet does to such a count. `OneAcceptChain` is strengthened to
`ChainInv`: the links that will be followed by another one are counted apart, since the
`operation_aborted` of a closed acceptor is a link and has no successor.

**`UserRequestsProofs`** (`UploadAssumption`, `ThreadAssumption`, `LimitAssumption`,
`PeopleAssumption`, `FormAssumption`, `OutcomeAssumption`): `WrittenFieldFound`,
`FieldsFound`, `RequestUnderstood`, `EveryRequestRouted`,
`AnsweredForTheFormSentCorrect`, `QuietReportsAreExactCorrect`. The last two are what a
client sees; the way to each is a part about data, which holds in every state, and one
about interleavings, which `UserHandlerProofs` has.

*From the form to the answer.* A request, a form and a field are sequences made of
sequences, so the first lemmas say where each piece begins and that no place is left
over (`WrittenForm`, `WrittenRequest`). `WrittenFieldFound`: wherever a written field
stands between two delimiters of a body, `PartAt` cuts it out and `ParsePart` finds its
name and its whole content, with or without a file name, for every content without the
delimiter, empty lines and dashes included. As the delimiters of a form stand exactly
where its fields begin, and behind the last, `Opening` is these places in their order
and `FieldsFound` follows for any number of fields. `RequestUnderstood` says that
`ParseHttp` cuts a request where the client put its pieces: the first empty line is the
end of the headers, as no header line is empty. `EveryRequestRouted` is `RoutesAgree`
for every path, header and body. Together they give, for each form, what `OutcomeOf` and
`SizeOf` are (`OutcomeOfForm`): a boundary in quotes or a header in lower case is found
to have no parts, the field `users` that is used is the last of that name, and the text
of it is what the client has put in. `ParsersDecide` says that the answer is the one of
the outcome, whatever other uploads do, and `AnsweredForTheFormSent` follows.

*From the store to the reports.* `QuietReadsExact` says that a walk no upload disturbed
has read the elements of one upload in order, so the users read are those of one form up
to the first malformed one, or nobody. It is left that each report of any sequence of
users is what counting one thing at a time says. The loops of the handlers are folds;
for each there is a lemma that says what it holds after k users (`SuperusersSteps`,
`CountriesSteps`, `TeamsSteps`, `LoginsByDaySteps`, `LoginsOfSteps`), and what it holds
is shown by going from k to k + 1: of the map of countries, that it has the countries
met and, for each, how many of the users met are from there. `CountriesExact` also
covers the sort: every list that orders the entries by their counts, cut at the limit,
leaves out nobody with more users than one it lists, whatever the order of ties.
Projects and logins are a sum of numbers per user; `Layers` counts pairs instead, layer
by layer.

The assumptions are about what clients write. `FormAssumption`: no field is without a
name, contents do not hold the delimiter (a client has to choose a boundary of which
that is true, RFC 2046), and a field `users` is nothing, no JSON, JSON that is no array,
or an array of users, good and bad. `PeopleAssumption`: a user has the types of
`UserInfo.hpp`'s members. `LimitAssumption`: 5 and 900 are numbers. `OutcomeAssumption`
is no restriction: it says that what `UserHandler` is told of an upload is what the
parsers find in its bytes.

Induction here is over a set, not over a predicate: `UpTo` says that a set with 0, and
with k + 1 for every k in it, holds all numbers to a bound, and is a consequence of the
naturals being well-founded. `FoldExists` makes a fold the last value of a function on
0..n that is built the same way, so that `FoldLeft` of the community modules can be
reasoned about although its recursion is not the prover's.

**`SqliteDatabaseProofs`** (`BoundAssumption`, `RequestAssumption`): `TypeCorrect`,
`RepositoryImplemented`, `StuckUntilRestartCorrect`, `AnswersAreCommittedCorrect`,
`OneRowPerClientCorrect`. The invariant is `CallInv`: without an open transaction the
handle's view is the file, and a call that has taken its step is exactly its own effect
ahead of it. So a commit is `Succeed` of `ClientRepository`, and every failure, restart
or reconnection is `GiveUp`. `AnswersAreCommitted` also needs that the id of an added row is
the largest (`LargestOfAdded`), which exists because the naturals are well-founded, and
that what a getter finds in a view without an open transaction is in the file.

**`SyncHTTPServerProofs`** (`ConnAssumption`, `DatabaseAssumption`, `StreamAssumption`,
`StreamOrder`): `TypeCorrect`, `NoThreadOutlivesStopCorrect`, `OnlyOwnBytesCorrect`,
`CountedOncePerConnectionCorrect`, `AnswersInOrderCorrect`. It cites the theorems about the
database through an instance of `SqliteDatabaseProofs`: every step of the server is one
of the database's or leaves the database alone, so `CallInv` holds on. `ServerInv`
joins that to the types and to which call is made where (`CallsInv`, `HandleInv`). `OwnInv`: what
is being read is of the client served, as the buffer is emptied between clients.
`CountInv` bounds, for each row, the recorded connections by its counter and the counter by
the times its address has been met, with one to spare while a connection is met but
not counted (`Uncounted`) or counted but not recorded (`Unrecorded`): a transaction that fails
or a crash leaves the margin unused, never negative. For the order of the answers
`PlaceInv` says that the bytes read are consecutive ones of the stream (`Front` is where the
request at hand begins), `MissingIsRest` that what the second read asks for is what the
first has left of the request, and `OrderInv` and `WaitInv` are as for the asynchronous
connection.

**`ThreadPoolProofs`** (`PoolAssumption`): `TypeCorrect`, `NoLostWakeupCorrect`,
`ExecutorImplemented`. `NoLostWakeup` is inductive given `PlaceInv`, which says where the
threads are for each value of the flag: only a running worker or the free owner owes a
notification, so one that finds nobody waiting leaves somebody awake, and nobody waits once
the destructor has notified all. For the refinement `TaskInv` says that a task is in one
place (once in the queue, with one worker, or done), so every section under `queue_mutex`
moves one task one place on, and `PlaceInv` that the queue is empty when the last worker
leaves. Only the safety part of `TaskExecutor` is proved.

Only model-checked: everything about liveness and fairness (`EveryRequestEnds`,
`RequestsAreAnswered`, `StopReturns`, `ClientsAreServed`, `DestructorReturns`, the
fairness of `UserStore`, `TaskExecutor` and with it the part of `ImplementsUserStore` and
`RunsEveryTaskOnce` that says that things happen), which is beyond TLAPS. Every invariant of a
run that passes, every action property and the safety part of every refinement is a
theorem. The counterexamples of section 4 are TLC's alone.

## 6. Not modelled

Query parameters, which no handler asks for, and the writing of responses. Text that is
not what a client writes for a form or a request: a header line without a colon, a part
without an empty line. `ThreadPool`'s move operations, which nothing calls. The rows
`get_all_clients` lists are reduced to their number. `main`, but for its routes and the
life of the server: the order in which it builds the objects. Configuration, logging,
interfaces and void classes: no state that changes. `AsyncHTTPServer` and
`EventLogger`: in no build. There is no timeout in the code (`ServerConfig::timeout` is
not read), so none in the models. The vendored libraries, 99 of 100 lines under `src/`,
are modelled as far as the components rest on them: asio's queue and stopped flag,
simdjson's way of filling a vector, SQLite's transactions.

## 7. Plan

1. Done: the stateful components, each against its abstract specification where it has one;
   the blocking server on top of the database; parsers, router and reports on top of the
   user store; a theorem for every safety property that a run checks.
2. A composition of `MultiThreadHTTPServer`, connections and the user store. An exception of
   a handler that ends the thread is in the server module now (`HandlerThrows`), for any
   handler at any time; the composition would say which uploads do it.
3. Query parameters and the writing of responses, once a handler asks for the former.
