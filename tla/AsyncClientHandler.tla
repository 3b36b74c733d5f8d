--------------------------- MODULE AsyncClientHandler ---------------------------
(***************************************************************************)
(* One client connection of src/server/AsyncClientHandler.hpp: a chain of  *)
(* async_read_some / async_write operations whose completion handlers any  *)
(* IO thread may run, and no strand around them.                           *)
(*                                                                         *)
(* The bytes of the connection are those of ClientStream.  m_requestData   *)
(* is always a window of them, because append() takes the bytes in order   *)
(* and clear() drops everything: the pieces dropped+1 .. received.         *)
(*                                                                         *)
(* append() racing with clear() on the std::string is undefined; the two   *)
(* orders of the calls are modelled, a crash is not.                       *)
(***************************************************************************)
EXTENDS Integers, Sequences, ClientStream

CONSTANTS
  Threads,     \* the IO threads
  Clients      \* what the clients may be like: whether they send a request
               \* before they have all answers, which requests say
               \* `Connection: close' and which make their handler throw

ASSUME ClientAssumption ==
  Clients \subseteq [pipelines : BOOLEAN, closing : SUBSET (1..N), throwing : SUBSET (1..N)]

VARIABLES
  client,     \* the one of Clients that has connected
  sent,       \* pieces the client has sent
  peer,       \* "open", or "gone" once the client has left
  received,   \* pieces read from the socket
  dropped,    \* pieces removed from m_requestData by clear()
  sock,       \* m_socket: "open" or "closed"
  op,         \* the outstanding operation: "none", "read" or "write"
  keep,       \* m_keepAlive
  pc,         \* where each thread is in handleRead / processRequest
  cur,        \* the request a thread has parsed
  answers,    \* the requests answered, in the order of sendResponse
  overtaken   \* some read completed before the clear() of an earlier request

clientVars == <<client, sent, peer>>
vars == <<client, sent, peer, received, dropped, sock, op, keep, pc, cur, answers, overtaken>>

\* the thread is about to read m_requestData or to start the next operation
Driving == {"check", "keep", "parse", "send"}

TypeOK ==
  /\ client \in Clients
  /\ sent \in 0..Len(Stream) /\ received \in 0..sent /\ dropped \in 0..received
  /\ peer \in {"open", "gone"}
  /\ sock \in {"open", "closed"}
  /\ op \in {"none", "read", "write"}
  /\ keep \in BOOLEAN
  /\ pc \in [Threads -> Driving \union {"idle", "clear", "dead"}]
  /\ cur \in [Threads -> 0..N]
  /\ answers \in Seq(0..N)
  /\ overtaken \in BOOLEAN

\* start() has called readData()
Init ==
  /\ client \in Clients
  /\ sent = 0 /\ received = 0 /\ dropped = 0
  /\ peer = "open"
  /\ sock = "open"
  /\ op = "read"
  /\ keep = FALSE
  /\ pc = [t \in Threads |-> "idle"]
  /\ cur = [t \in Threads |-> NotFound]
  /\ answers = <<>>
  /\ overtaken = FALSE

-----------------------------------------------------------------------------
(* m_requestData and what the handler reads off it                         *)

Window == (dropped + 1)..received
Heads == {i \in Window : Stream[i].part = "head"}
Ends == {i \in Window : Stream[i].part = "end"}
First(S) == CHOOSE i \in S : \A j \in S : i <= j

\* getContentLength: the first `Content-Length: ' anywhere in the data
ContentLength ==
  LET S == {i \in Heads : BodyLength[Stream[i].request] > 0}
  IN IF S = {} THEN 0 ELSE BodyLength[Stream[First(S)].request]

\* isCompleteRequest: all that follows the first empty line counts as body
Complete == Ends # {} /\ received - First(Ends) >= ContentLength

\* slip: the search for `Connection: close' is forgotten
AlwaysKeepAlive == Heads # {}

\* shouldKeepAlive: both texts are searched in all of the data
KeepAlive == Heads # {} /\ \A i \in Heads : Stream[i].request \notin client.closing

\* RequestFactory::parse looks at the front of the data only
Parsed == IF dropped + 1 \in Heads THEN Stream[dropped + 1].request ELSE NotFound

-----------------------------------------------------------------------------
(* The client                                                              *)

\* a client that does not pipeline waits for as many answers as requests
ClientSend ==
  /\ peer = "open"
  /\ sent < Len(Stream)
  /\ LET p == Stream[sent + 1]
     IN p.part = "head" /\ ~client.pipelines => Len(answers) >= p.request - 1
  /\ sent' = sent + 1
  /\ UNCHANGED <<client, peer, received, dropped, sock, op, keep, pc, cur, answers, overtaken>>

ClientLeave ==
  /\ peer = "open"
  /\ peer' = "gone"
  /\ UNCHANGED <<client, sent, received, dropped, sock, op, keep, pc, cur, answers, overtaken>>

-----------------------------------------------------------------------------
(* The completion handlers and processRequest                              *)

Goto(t, where) == pc' = [pc EXCEPT ![t] = where]

\* handleRead without error: any number of the bytes that are there
HandleRead(t) ==
  /\ pc[t] = "idle"
  /\ op = "read"
  /\ \E n \in (received + 1)..sent : received' = n
  /\ op' = "none"
  /\ overtaken' = (overtaken \/ \E s \in Threads : pc[s] = "clear")
  /\ Goto(t, "check")
  /\ UNCHANGED <<clientVars, dropped, sock, keep, cur, answers>>

\* eof or an error: stop()
HandleReadError(t) ==
  /\ pc[t] = "idle"
  /\ op = "read"
  /\ peer = "gone"
  /\ op' = "none"
  /\ sock' = "closed"
  /\ UNCHANGED <<clientVars, received, dropped, keep, pc, cur, answers, overtaken>>

\* slip: readData() whatever isCompleteRequest() says
CheckAndRead(t) ==
  /\ pc[t] = "check"
  /\ op' = "read"
  /\ Goto(t, IF Complete THEN "keep" ELSE "idle")
  /\ UNCHANGED <<clientVars, received, dropped, sock, keep, cur, answers, overtaken>>

CheckComplete(t) ==
  /\ pc[t] = "check"
  /\ \/ Complete /\ Goto(t, "keep") /\ UNCHANGED op
     \/ ~Complete /\ Goto(t, "idle") /\ op' = "read"
  /\ UNCHANGED <<clientVars, received, dropped, sock, keep, cur, answers, overtaken>>

SetKeepAlive(t) ==
  /\ pc[t] = "keep"
  /\ keep' = KeepAlive
  /\ Goto(t, "parse")
  /\ UNCHANGED <<clientVars, received, dropped, sock, op, cur, answers, overtaken>>

\* parse and handleRequest
ParseAndHandle(t) ==
  /\ pc[t] = "parse"
  /\ Parsed \notin client.throwing
  /\ cur' = [cur EXCEPT ![t] = Parsed]
  /\ Goto(t, "send")
  /\ UNCHANGED <<clientVars, received, dropped, sock, op, keep, answers, overtaken>>

\* the exception ends the IO thread; the last reference to the handler goes
\* with it and ~AsyncClientHandler closes the socket
HandlerThrows(t) ==
  /\ pc[t] = "parse"
  /\ Parsed \in client.throwing
  /\ sock' = "closed"
  /\ Goto(t, "dead")
  /\ UNCHANGED <<clientVars, received, dropped, op, keep, cur, answers, overtaken>>

\* sendResponse starts async_write: another thread may complete it at once
SendResponse(t) ==
  /\ pc[t] = "send"
  /\ op' = "write"
  /\ answers' = Append(answers, cur[t])
  /\ cur' = [cur EXCEPT ![t] = NotFound]
  /\ Goto(t, "clear")
  /\ UNCHANGED <<clientVars, received, dropped, sock, keep, overtaken>>

\* slip: m_requestData is not cleared
KeepRequestData(t) ==
  /\ pc[t] = "clear"
  /\ Goto(t, "idle")
  /\ UNCHANGED <<clientVars, received, dropped, sock, op, keep, cur, answers, overtaken>>

\* slip: one byte too many is erased
ClearOneMore(t) ==
  /\ pc[t] = "clear"
  /\ dropped' = received + 1
  /\ Goto(t, "idle")
  /\ UNCHANGED <<clientVars, received, sock, op, keep, cur, answers, overtaken>>

\* m_requestData.clear(), the last statement of processRequest
ClearRequestData(t) ==
  /\ pc[t] = "clear"
  /\ dropped' = received
  /\ Goto(t, "idle")
  /\ UNCHANGED <<clientVars, received, sock, op, keep, cur, answers, overtaken>>

\* slip: nothing is read after the response
HandleWriteOnly(t) ==
  /\ pc[t] = "idle"
  /\ op = "write"
  /\ op' = "none"
  /\ sock' = IF keep THEN sock ELSE "closed"
  /\ UNCHANGED <<clientVars, received, dropped, keep, pc, cur, answers, overtaken>>

HandleWrite(t) ==
  /\ pc[t] = "idle"
  /\ op = "write"
  /\ \/ keep /\ op' = "read" /\ UNCHANGED sock
     \/ ~keep /\ op' = "none" /\ sock' = "closed"
  /\ UNCHANGED <<clientVars, received, dropped, keep, pc, cur, answers, overtaken>>

HandleWriteError(t) ==
  /\ pc[t] = "idle"
  /\ op = "write"
  /\ peer = "gone"
  /\ op' = "none"
  /\ sock' = "closed"
  /\ UNCHANGED <<clientVars, received, dropped, keep, pc, cur, answers, overtaken>>

-----------------------------------------------------------------------------
Client == ClientSend \/ ClientLeave

Step(t) ==
  \/ HandleRead(t) \/ HandleReadError(t) \/ HandleWrite(t) \/ HandleWriteError(t)
  \/ CheckComplete(t) \/ SetKeepAlive(t) \/ ParseAndHandle(t) \/ HandlerThrows(t)
  \/ SendResponse(t) \/ ClearRequestData(t)

Next == Client \/ \E t \in Threads : Step(t)

\* the IO threads keep running; the client may stop sending at any point
Fairness == \A t \in Threads : WF_vars(Step(t))

Spec == Init /\ [][Next]_vars /\ Fairness

-----------------------------------------------------------------------------
(* What a connection promises                                              *)

\* Without a strand only the chain itself keeps two threads apart: an open
\* connection has one outstanding operation or one thread that will start
\* the next, never both, never two of either, and never neither (which
\* would leave it open and deaf for good); a closed one has none.
OneDriver ==
  /\ op # "none" => \A t \in Threads : pc[t] \notin Driving
  /\ \A s, t \in Threads : pc[s] \in Driving /\ pc[t] \in Driving => s = t
  /\ sock = "open" <=> (op # "none" \/ \E t \in Threads : pc[t] \in Driving)

\* As long as no read overtook the clear() that follows sendResponse
\* (151-154), a client that waits for each answer gets the answers to its
\* requests one for one and in order.  One that packs requests into one segment
\* may have pieces of them dropped, but no request of it is answered twice and
\* no answer is given out of turn.
AnswersInOrder ==
  ~overtaken =>
    /\ ~client.pipelines => \A i \in 1..Len(answers) : answers[i] = i
    /\ \A i, j \in 1..Len(answers) :
         i < j /\ answers[i] # NotFound /\ answers[j] # NotFound => answers[i] < answers[j]

\* After the answer to `Connection: close' nothing more is answered (157-173,
\* 211-220).
CloseAfterLastAnswer ==
  ~client.pipelines /\ ~overtaken =>
    \A i \in 1..(Len(answers) - 1) : answers[i] \notin client.closing

\* A request sent whole by a client that waits for its answers is answered,
\* unless the connection ends or a read overtook a clear() before that.
RequestsAreAnswered ==
  \A q \in 1..N :
    ~client.pipelines /\ (\A i \in 1..Len(Stream) : Stream[i].request = q => i <= sent)
      ~> \/ \E i \in 1..Len(answers) : answers[i] = q
         \/ sock = "closed" \/ overtaken

\* `Continue reading for next request' (213): what was answered is not
\* answered again.
NextRequestIsNew ==
  \A i, j \in 1..Len(answers) : i # j => answers[i] # answers[j]

=============================================================================
