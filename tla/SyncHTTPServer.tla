----------------------------- MODULE SyncHTTPServer -----------------------------
(***************************************************************************)
(* The blocking server of src/server/SyncHTTPServer.cpp: the owner (main)  *)
(* starts and stops it, one connection thread accepts a client, records    *)
(* it, and reads and answers its requests until the client goes or the     *)
(* server stops; then it accepts the next one.                             *)
(*                                                                         *)
(* The calls of the repositories are those of SqliteDatabase, statement by *)
(* statement, on the database that main has connected.  Nobody else makes  *)
(* any.                                                                    *)
(*                                                                         *)
(* The bytes a client sends are the pieces of ClientStream; the pair       *)
(* <<c, i>> is the i-th piece from client c.                               *)
(* What a client does is modelled where the thread can notice it: it sends *)
(* while it is read from, and leaves while its socket is asked for it.     *)
(* A read waits for a client that does not write, a write for one that     *)
(* does not read.                                                          *)
(***************************************************************************)
EXTENDS Integers, Sequences, FiniteSets, ClientStream

CONSTANTS
  Conns,       \* the connections clients may open, each once
  NoConn,      \* no client is being served
  From,        \* the addresses each connection may come from
  Ips, MaxId, MaxCount, NoRequest     \* as in SqliteDatabase

ASSUME ConnAssumption ==
  /\ NoConn \notin Conns
  /\ From \in [Conns -> SUBSET Ips]

NoIp == "none"

VARIABLES
  disk, work, txn, slot, db, request, at, answer,   \* as in SqliteDatabase
  running,    \* m_server_running
  acceptor,   \* acceptor_: "closed", "open" (not listening) or "listening"
  owner,      \* where main is: "down" before connect(), "idle" between calls
  pc,         \* where the connection thread is, "none" without a thread
  cur,        \* the client handle_client() serves
  id,         \* client_id, 0 for -1
  buffer,     \* asio_buffer, which outlives the connections
  received,   \* how many pieces have been read from the client
  data,       \* request_data
  conn,       \* the connections: "none", "backlog", "open" or "closed"
  ip,         \* the address of cur
  eager,      \* cur has not waited for an answer before it went on
  gone,       \* cur has left
  sent,       \* how many pieces cur has sent
  answers,    \* the requests of cur that have been answered, in order
  met         \* how many clients of each address have been accepted

Db == INSTANCE SqliteDatabase WITH Early <- {}

ASSUME DatabaseAssumption ==
  /\ MaxId \in Nat /\ MaxCount \in Nat
  /\ NoRequest \notin Db!Requests \union Db!Queries

dbVars == <<disk, work, txn, slot, db, request, at, answer>>
ownerVars == <<running, acceptor, owner>>
readVars == <<buffer, received, data>>
threadVars == <<pc, cur, id, readVars>>
peerVars == <<ip, eager, gone, sent>>
historyVars == <<answers, met>>
vars == <<dbVars, ownerVars, threadVars, conn, peerVars, historyVars>>

\* the thread waits for the repositories, or is in handle_client()
Recording == {"lookup", "found", "adding", "counting", "recording"}
Serving == Recording \union {"accepted", "serve", "read", "body", "handle", "write"}

TypeOK ==
  /\ Db!TypeOK
  /\ running \in BOOLEAN
  /\ acceptor \in {"closed", "open", "listening"}
  /\ owner \in {"down", "idle", "closing", "joining", "gone"}
  /\ pc \in Serving \union {"none", "loop", "accept", "ended"}
  /\ cur \in Conns \union {NoConn}
  /\ cur # NoConn <=> pc \in Serving
  /\ id \in 0..MaxId
  /\ buffer \in Seq(Conns \X (1..Len(Stream))) /\ data \in Seq(Conns \X (1..Len(Stream)))
  /\ received \in 0..Len(Stream)
  /\ conn \in [Conns -> {"none", "backlog", "open", "closed"}]
  /\ cur \in Conns => ip \in Ips
  /\ eager \in BOOLEAN /\ gone \in BOOLEAN
  /\ sent \in received..Len(Stream)
  /\ answers \in Seq(0..N)
  /\ met \in [Ips -> Nat]

Init ==
  /\ Db!Init
  /\ running = FALSE /\ acceptor = "closed"
  /\ owner = "down"
  /\ pc = "none" /\ cur = NoConn /\ id = 0
  /\ buffer = <<>> /\ received = 0 /\ data = <<>>
  /\ conn = [c \in Conns |-> "none"]
  /\ ip = NoIp /\ eager = FALSE /\ gone = FALSE /\ sent = 0
  /\ answers = <<>>
  /\ met = [p \in Ips |-> 0]

-----------------------------------------------------------------------------
(* main                                                                    *)

\* the database is connected, whether or not its file can be opened
Boot(opens) ==
  /\ owner = "down"
  /\ Db!Connect(opens)
  /\ owner' = "idle"
  /\ UNCHANGED <<running, acceptor, threadVars, conn, peerVars, historyVars>>

\* nothing is asked any more about a client that is no longer served
NoPeer == ip' = NoIp /\ eager' = FALSE /\ gone' = FALSE /\ sent' = 0 /\ answers' = <<>>

\* the process dies, and every connection with it
Crash ==
  /\ owner # "down"
  /\ Db!Restart
  /\ owner' = "down"
  /\ running' = FALSE /\ acceptor' = "closed"
  /\ pc' = "none" /\ cur' = NoConn /\ id' = 0
  /\ buffer' = <<>> /\ received' = 0 /\ data' = <<>>
  /\ conn' = [c \in Conns |-> IF conn[c] = "none" THEN "none" ELSE "closed"]
  /\ NoPeer
  /\ UNCHANGED met

\* open, bind and listen succeed; the thread is made after the flag is set,
\* and when it cannot be made the flag stays
Start ==
  /\ owner = "idle" /\ ~running
  /\ acceptor = "closed"
  /\ acceptor' = "listening"
  /\ running' = TRUE
  /\ pc' \in {"loop", "none"}
  /\ UNCHANGED <<dbVars, owner, cur, id, readVars, conn, peerVars, historyVars>>

\* bind or listen throws: the acceptor stays open, and open() refuses it
\* from then on
StartFails ==
  /\ owner = "idle" /\ ~running
  /\ acceptor = "closed"
  /\ acceptor' = "open"
  /\ UNCHANGED <<dbVars, running, owner, threadVars, conn, peerVars, historyVars>>

\* stop(), which configure() and the destructor call too
StopBegin ==
  /\ owner = "idle" /\ running
  /\ running' = FALSE
  /\ owner' = "closing"
  /\ UNCHANGED <<dbVars, acceptor, threadVars, conn, peerVars, historyVars>>

\* slip: the flag alone is to stop the thread
CloseAcceptorKeeps ==
  /\ owner = "closing"
  /\ owner' = "joining"
  /\ UNCHANGED <<dbVars, running, acceptor, threadVars, conn, peerVars, historyVars>>

\* closing the listening socket resets those who wait for accept()
CloseAcceptor ==
  /\ owner = "closing"
  /\ acceptor' = "closed"
  /\ conn' = [c \in Conns |-> IF conn[c] = "backlog" THEN "closed" ELSE conn[c]]
  /\ owner' = "joining"
  /\ UNCHANGED <<dbVars, running, threadVars, peerVars, historyVars>>

\* slip: the thread is detached
JoinDetaches ==
  /\ owner = "joining"
  /\ owner' = "idle"
  /\ UNCHANGED <<dbVars, running, acceptor, threadVars, conn, peerVars, historyVars>>

\* m_WaitConnection_thread.join(), if there is a thread
Join ==
  /\ owner = "joining"
  /\ pc \in {"none", "ended"}
  /\ pc' = "none"
  /\ owner' = "idle"
  /\ UNCHANGED <<dbVars, running, acceptor, cur, id, readVars, conn, peerVars,
                 historyVars>>

\* the destructor, once stop() has returned
Destroy ==
  /\ owner = "idle" /\ ~running
  /\ owner' = "gone"
  /\ acceptor' = "closed"
  /\ UNCHANGED <<dbVars, running, threadVars, conn, peerVars, historyVars>>

-----------------------------------------------------------------------------
(* The clients                                                             *)

ClientConnect(c) ==
  /\ conn[c] = "none"
  /\ acceptor = "listening"
  /\ conn' = [conn EXCEPT ![c] = "backlog"]
  /\ UNCHANGED <<dbVars, ownerVars, threadVars, peerVars, historyVars>>

ClientSend ==
  /\ pc \in {"read", "body"} /\ ~gone
  /\ sent < Len(Stream)
  /\ LET p == Stream[sent + 1]
     IN eager' = (eager \/ (p.part = "head" /\ Len(answers) < p.request - 1))
  /\ sent' = sent + 1
  /\ UNCHANGED <<dbVars, ownerVars, threadVars, conn, ip, gone, historyVars>>

ClientLeave ==
  /\ pc \in {"accepted", "lookup", "read", "body", "write"} /\ ~gone
  /\ gone' = TRUE
  /\ UNCHANGED <<dbVars, ownerVars, threadVars, conn, ip, eager, sent, historyVars>>

-----------------------------------------------------------------------------
(* The connection thread accepts                                           *)

\* while (m_server_running)
LoopTest ==
  /\ pc = "loop"
  /\ pc' = IF running THEN "accept" ELSE "ended"
  /\ UNCHANGED <<dbVars, ownerVars, cur, id, readVars, conn, peerVars, historyVars>>

Accept(c) ==
  /\ pc = "accept"
  /\ conn[c] = "backlog"
  /\ conn' = [conn EXCEPT ![c] = "open"]
  /\ cur' = c
  /\ ip' \in From[c]
  /\ met' = [met EXCEPT ![ip'] = @ + 1]
  /\ pc' = "accepted"
  /\ UNCHANGED <<dbVars, ownerVars, id, readVars, eager, gone, sent, answers>>

\* the acceptor has been closed under accept(), or before it
AcceptFails ==
  /\ pc = "accept"
  /\ acceptor # "listening"
  /\ pc' = "loop"
  /\ UNCHANGED <<dbVars, ownerVars, cur, id, readVars, conn, peerVars, historyVars>>

\* the socket goes out of scope; asio_buffer does not
Hangup ==
  /\ conn' = [conn EXCEPT ![cur] = "closed"]
  /\ cur' = NoConn /\ id' = 0
  /\ received' = 0 /\ data' = <<>>
  /\ NoPeer
  /\ UNCHANGED <<dbVars, ownerVars, buffer, met>>

\* a client accepted after stop() is let go
AcceptedTest ==
  /\ pc = "accepted"
  /\ \/ running /\ pc' = "lookup"
        /\ UNCHANGED <<dbVars, ownerVars, cur, id, readVars, conn, peerVars, historyVars>>
     \/ ~running /\ pc' = "ended" /\ Hangup

\* remote_endpoint() throws when the client is gone already
EndpointThrows ==
  /\ pc \in {"accepted", "lookup"}
  /\ gone
  /\ pc = "accepted" => running
  /\ pc' = "loop"
  /\ Hangup

-----------------------------------------------------------------------------
(* handle_client records the client                                        *)

Lookup ==
  /\ pc = "lookup"
  /\ Db!Get([op |-> "get_client_id_by_ip", arg |-> ip])
  /\ pc' = "found"
  /\ UNCHANGED <<ownerVars, cur, id, readVars, conn, peerVars, historyVars>>

\* one statement of a call, or its last
DbStep ==
  /\ Db!Step
  /\ UNCHANGED <<ownerVars, threadVars, conn, peerVars, historyVars>>

AddClient == Db!Call([op |-> "add_client", arg |-> ip]) /\ pc' = "adding" /\ UNCHANGED id

CountConnection(i) ==
  /\ Db!Call([op |-> "increment_connection_count", arg |-> i])
  /\ id' = i
  /\ pc' = "counting"

\* every failure of the lookup, and not only a missing row, is -1
Found ==
  /\ pc = "found"
  /\ IF answer.ok THEN CountConnection(answer.id) ELSE AddClient
  /\ UNCHANGED <<ownerVars, cur, readVars, conn, peerVars, historyVars>>

\* without an id nothing is counted, and the client is served all the same
Added ==
  /\ pc = "adding" /\ at = "idle"
  /\ \/ answer.ok /\ CountConnection(answer.id)
     \/ ~answer.ok /\ pc' = "serve" /\ UNCHANGED <<dbVars, id>>
  /\ UNCHANGED <<ownerVars, cur, readVars, conn, peerVars, historyVars>>

\* slip: the connection is recorded whether or not it could be counted
CountedUnchecked ==
  /\ pc = "counting" /\ at = "idle"
  /\ Db!Call([op |-> "add_client_connection", arg |-> id])
  /\ pc' = "recording"
  /\ UNCHANGED <<ownerVars, cur, id, readVars, conn, peerVars, historyVars>>

\* a connection that could not be counted is not recorded either
Counted ==
  /\ pc = "counting" /\ at = "idle"
  /\ \/ /\ answer.ok
        /\ Db!Call([op |-> "add_client_connection", arg |-> id])
        /\ pc' = "recording"
     \/ ~answer.ok /\ pc' = "serve" /\ UNCHANGED dbVars
  /\ UNCHANGED <<ownerVars, cur, id, readVars, conn, peerVars, historyVars>>

\* the result only decides what is logged
Recorded ==
  /\ pc = "recording" /\ at = "idle"
  /\ pc' = "serve"
  /\ UNCHANGED <<dbVars, ownerVars, cur, id, readVars, conn, peerVars, historyVars>>

-----------------------------------------------------------------------------
(* read_full_request                                                       *)

Part(p) == Stream[p[2]].part
Ends == {i \in 1..Len(buffer) : Part(buffer[i]) = "end"}
HeaderEnd(s) == CHOOSE i \in 1..Len(s) : /\ Part(s[i]) = "end"
                                        /\ \A j \in 1..(i - 1) : Part(s[j]) # "end"

\* the first `Content-Length:' of the header, 0 without one
ContentLength(header) ==
  LET with == {i \in 1..Len(header) : /\ Part(header[i]) = "head"
                                      /\ BodyLength[Stream[header[i][2]].request] > 0}
  IN IF with = {} THEN 0
     ELSE LET i == CHOOSE i \in with : \A j \in with : i <= j
          IN BodyLength[Stream[header[i][2]].request]

\* slip: the body is taken to have come with the header
MissingNothing(s) == 0

\* slip: what is in the buffer already is asked for again
MissingAll(s) == ContentLength(SubSeq(s, 1, HeaderEnd(s)))

\* the units of body that are still on their way
Missing(s) ==
  LET e == HeaderEnd(s)
      length == ContentLength(SubSeq(s, 1, e))
  IN IF length > Len(s) - e THEN length - (Len(s) - e) ELSE 0

\* the pieces of the client up to the n-th that have not been read
Unread(n) == [i \in 1..(n - received) |-> <<cur, received + i>>]

\* slip: the socket is that of the thread, not of the turn
LeaveOpen ==
  /\ pc' = "loop"
  /\ UNCHANGED <<dbVars, ownerVars, cur, id, readVars, conn, peerVars, historyVars>>

\* slip: an error ends the thread
LeaveEnds == pc' = "ended" /\ Hangup

\* handle_client returns, or the thread leaves its loop over the requests
Leave == pc' = "loop" /\ Hangup

\* slip: what is left of the last request, or connection, is kept
ServeTestKeeps ==
  /\ pc = "serve"
  /\ \/ /\ running
        /\ data' = <<>>
        /\ pc' = "read"
        /\ UNCHANGED <<dbVars, ownerVars, cur, id, buffer, received, conn, peerVars, historyVars>>
     \/ ~running /\ Leave

\* buffer.consume(buffer.size()), request_data.clear()
ServeTest ==
  /\ pc = "serve"
  /\ \/ /\ running
        /\ buffer' = <<>> /\ data' = <<>>
        /\ pc' = "read"
        /\ UNCHANGED <<dbVars, ownerVars, cur, id, received, conn, peerVars, historyVars>>
     \/ ~running /\ Leave

\* read_until: any number of the bytes that are there, until an empty line
ReadUntil ==
  /\ pc = "read"
  /\ Ends = {}
  /\ \E n \in (received + 1)..sent : buffer' = buffer \o Unread(n) /\ received' = n
  /\ UNCHANGED <<dbVars, ownerVars, pc, cur, id, data, conn, peerVars, historyVars>>

\* with a body all that is in the buffer is taken for it, without one it stays
TakeHeader ==
  /\ pc = "read"
  /\ Ends # {}
  /\ LET e == HeaderEnd(buffer)
     IN IF ContentLength(SubSeq(buffer, 1, e)) > 0
          THEN /\ data' = buffer /\ buffer' = <<>>
               /\ pc' = IF Missing(buffer) > 0 THEN "body" ELSE "handle"
          ELSE /\ data' = SubSeq(buffer, 1, e)
               /\ buffer' = SubSeq(buffer, e + 1, Len(buffer))
               /\ pc' = "handle"
  /\ UNCHANGED <<dbVars, ownerVars, cur, id, received, conn, peerVars, historyVars>>

\* asio::read: exactly what is missing
ReadBody ==
  /\ pc = "body"
  /\ received + Missing(data) <= sent
  /\ data' = data \o Unread(received + Missing(data))
  /\ received' = received + Missing(data)
  /\ pc' = "handle"
  /\ UNCHANGED <<dbVars, ownerVars, cur, id, buffer, conn, peerVars, historyVars>>

\* eof or an error
ReadFails ==
  /\ pc \in {"read", "body"}
  /\ gone
  /\ Leave

-----------------------------------------------------------------------------
(* The request is handled                                                  *)

\* RequestFactory::parse looks at the front of the data only
Parsed == IF Part(data[1]) = "head" THEN Stream[data[1][2]].request ELSE NotFound

Handle ==
  /\ pc = "handle"
  /\ pc' = "write"
  /\ UNCHANGED <<dbVars, ownerVars, cur, id, readVars, conn, peerVars, historyVars>>

\* an exception of the handler ends the connection, not the thread
HandlerThrows ==
  /\ pc = "handle"
  /\ Parsed # NotFound
  /\ Leave

\* the connection stays open, `Connection: close' or not
Write ==
  /\ pc = "write"
  /\ answers' = Append(answers, Parsed)
  /\ pc' = "serve"
  /\ UNCHANGED <<dbVars, ownerVars, cur, id, readVars, conn, peerVars, met>>

WriteFails ==
  /\ pc = "write"
  /\ gone
  /\ Leave

-----------------------------------------------------------------------------
(* Who takes steps                                                         *)

Owner ==
  \/ Start \/ StartFails \/ StopBegin \/ CloseAcceptor \/ Join \/ Destroy
  \/ Crash \/ \E opens \in BOOLEAN : Boot(opens)

Client == ClientSend \/ ClientLeave \/ \E c \in Conns : ClientConnect(c)

\* what the thread does by itself, or with bytes or clients that are there
Thread ==
  \/ LoopTest \/ AcceptFails \/ AcceptedTest \/ EndpointThrows \/ \E c \in Conns : Accept(c)
  \/ Lookup \/ DbStep \/ Found \/ Added \/ Counted \/ Recorded
  \/ ServeTest \/ ReadUntil \/ TakeHeader \/ ReadBody \/ ReadFails
  \/ Handle \/ HandlerThrows \/ WriteFails

Next == Owner \/ Thread \/ Write \/ Client

\* the thread is scheduled, and whoever called stop() goes through with it;
\* clients owe nothing, not even to read what is written
Fairness == WF_vars(Thread) /\ WF_vars(CloseAcceptor) /\ WF_vars(Join)

Spec == Init /\ [][Next]_vars /\ Fairness

-----------------------------------------------------------------------------
(* Properties                                                              *)

\* The streambuf is one for all connections (24): what is read for a request
\* is of the client it is answered to, and nothing a former client has sent.
OnlyOwnBytes ==
  /\ \A i \in 1..Len(data) : data[i][1] = cur
  /\ pc = "read" => \A i \in 1..Len(buffer) : buffer[i][1] = cur

\* A client that waits for its answers gets those of its requests in order.
\* One that does not may lose requests, whose bytes are consumed with those
\* before them (99, 135), but none of them is answered twice.
AnswersInOrder ==
  /\ ~eager => \A i \in 1..Len(answers) : answers[i] = i
  /\ \A i, j \in 1..Len(answers) :
       i < j /\ answers[i] # NotFound /\ answers[j] # NotFound => answers[i] < answers[j]

\* The three transactions of a new client (155-171) may fail one by one, and
\* the process may die between them: a recorded connection is of a known
\* client and has been counted, and what is counted has been accepted.
CountedOncePerConnection ==
  /\ \A k \in DOMAIN disk.connection : disk.connection[k] \in DOMAIN disk.client
  /\ \A i \in DOMAIN disk.client :
       LET c == disk.client[i]
       IN /\ Cardinality({k \in DOMAIN disk.connection : disk.connection[k] = i})
               <= c.connection_count
          /\ c.connection_count <= met[c.ip]

\* A server that has been stopped, by stop(), configure() or the destructor,
\* has no thread that still uses it (70-95).
NoThreadOutlivesStop ==
  ~running /\ owner \in {"down", "idle", "gone"} => pc = "none"

\* the thread is in a blocking call that only its client can end
Waiting == pc \in {"read", "body", "write"} /\ ~gone

\* stop() returns (86-89), unless the thread waits for a silent client for
\* ever: nothing closes the socket it reads from or writes to.
StopReturns ==
  owner \in {"closing", "joining"} ~> (owner \in {"down", "idle"} \/ []Waiting)

\* A client that has connected is accepted (26-60), whatever became of those
\* before it, unless the server stops, has got no thread, or waits for one
\* client for ever, as it does for one that keeps its connection open after
\* `Connection: close' (173).
ClientsAreServed ==
  \A c \in Conns :
    conn[c] = "backlog" ~> (conn[c] # "backlog" \/ ~running \/ pc = "none" \/ []Waiting)

\* the client waits for the answer to its k-th request, which it has sent whole
Asked(k) ==
  /\ cur # NoConn /\ ~eager
  /\ \A i \in 1..Len(Stream) : Stream[i].request = k => i <= sent
  /\ Len(answers) < k

\* A request sent whole by a client that waits for its answers is answered,
\* or its connection ends, or the client does not read the answer (173-236).
RequestsAreAnswered ==
  \A k \in 1..N : Asked(k) ~> (~Asked(k) \/ [](pc = "write" /\ ~gone))

=============================================================================
