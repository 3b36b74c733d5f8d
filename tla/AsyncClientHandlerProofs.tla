------------------------ MODULE AsyncClientHandlerProofs ------------------------
(***************************************************************************)
(* The chain of operations of a connection keeps its handlers apart, for   *)
(* any number of IO threads and any requests.                              *)
(***************************************************************************)
EXTENDS AsyncClientHandler, ClientStreamProofs, TLAPS

\* What the parser sees of m_requestData is one of the client's requests or none.
LEMMA ParsedType == ASSUME TypeOK PROVE Parsed \in 0..N
<1>1. CASE dropped + 1 \in Heads
  <2>1. dropped + 1 \in 1..Len(Stream)
    BY <1>1 DEF Heads, Window, TypeOK
  <2>2. Stream[dropped + 1] \in Pieces
    BY <2>1, StreamAssumption
  <2> QED
    BY <1>1, <2>2, StreamAssumption DEF Parsed, Pieces
<1>2. CASE dropped + 1 \notin Heads
  BY <1>2, StreamAssumption DEF Parsed, NotFound
<1> QED
  BY <1>1, <1>2

\* Every completion handler keeps every variable in its type.
LEMMA TypeStep == TypeOK /\ [Next]_vars => TypeOK'
<1> SUFFICES ASSUME TypeOK, [Next]_vars PROVE TypeOK'
  OBVIOUS
<1> USE StreamAssumption DEF TypeOK, Goto, Driving
<1>1. CASE UNCHANGED vars
  BY <1>1 DEF vars
<1>2. CASE Client
  BY <1>2 DEF Client, ClientSend, ClientLeave
<1>3. ASSUME NEW t \in Threads, Step(t) PROVE TypeOK'
  <2>1. CASE HandleRead(t)
    BY <2>1 DEF HandleRead, clientVars
  <2>2. CASE HandleReadError(t)
    BY <2>2 DEF HandleReadError, clientVars
  <2>3. CASE HandleWrite(t)
    BY <2>3 DEF HandleWrite, clientVars
  <2>4. CASE HandleWriteError(t)
    BY <2>4 DEF HandleWriteError, clientVars
  <2>5. CASE CheckComplete(t)
    BY <2>5 DEF CheckComplete, clientVars
  <2>6. CASE SetKeepAlive(t)
    BY <2>6 DEF SetKeepAlive, KeepAlive, clientVars
  <2>7. CASE ParseAndHandle(t)
    BY <2>7, ParsedType DEF ParseAndHandle, clientVars
  <2>8. CASE HandlerThrows(t)
    BY <2>8 DEF HandlerThrows, clientVars
  <2>9. CASE SendResponse(t)
    BY <2>9 DEF SendResponse, NotFound, clientVars
  <2>10. CASE ClearRequestData(t)
    BY <2>10 DEF ClearRequestData, clientVars
  <2> QED
    BY <1>3, <2>1, <2>2, <2>3, <2>4, <2>5, <2>6, <2>7, <2>8, <2>9, <2>10 DEF Step
<1> QED
  BY <1>1, <1>2, <1>3 DEF Next

\* A new connection is well-typed.
LEMMA TypeInit == Init => TypeOK
<1>1. Len(Stream) \in Nat /\ N \in Nat
  BY StreamAssumption
<1>2. Init => answers \in Seq(0..N) /\ cur \in [Threads -> 0..N]
  BY <1>1 DEF Init, NotFound
<1>3. Init => sent \in 0..Len(Stream) /\ received \in 0..sent /\ dropped \in 0..received
  BY <1>1 DEF Init
<1> QED
  BY <1>2, <1>3 DEF Init, TypeOK, Driving

\* The buffer, the stream and the threads of a connection keep their types
\* whichever threads run its completion handlers (AsyncClientHandler.hpp:12-35).
THEOREM TypeCorrect == Spec => []TypeOK
BY TypeInit, TypeStep, PTL DEF Spec

-----------------------------------------------------------------------------
\* Each step hands the connection on: from the operation that has completed
\* to the thread that completed it, from that thread to the operation it
\* starts, or to nobody when the socket is closed.
LEMMA OneDriverStep == TypeOK /\ OneDriver /\ [Next]_vars => OneDriver'
<1> SUFFICES ASSUME TypeOK, OneDriver, [Next]_vars PROVE OneDriver'
  OBVIOUS
<1> USE DEF TypeOK, OneDriver, Goto, Driving
<1>1. CASE UNCHANGED vars
  BY <1>1 DEF vars
<1>2. CASE Client
  BY <1>2 DEF Client, ClientSend, ClientLeave
<1>3. ASSUME NEW t \in Threads, Step(t) PROVE OneDriver'
  <2>1. CASE HandleRead(t)
    BY <2>1 DEF HandleRead
  <2>2. CASE HandleReadError(t)
    BY <2>2 DEF HandleReadError
  <2>3. CASE HandleWrite(t)
    BY <2>3 DEF HandleWrite
  <2>4. CASE HandleWriteError(t)
    BY <2>4 DEF HandleWriteError
  <2>5. CASE CheckComplete(t)
    BY <2>5 DEF CheckComplete
  <2>6. CASE SetKeepAlive(t)
    BY <2>6 DEF SetKeepAlive
  <2>7. CASE ParseAndHandle(t)
    BY <2>7 DEF ParseAndHandle
  <2>8. CASE HandlerThrows(t)
    BY <2>8 DEF HandlerThrows
  <2>9. CASE SendResponse(t)
    BY <2>9 DEF SendResponse
  <2>10. CASE ClearRequestData(t)
    BY <2>10 DEF ClearRequestData
  <2> QED
    BY <1>3, <2>1, <2>2, <2>3, <2>4, <2>5, <2>6, <2>7, <2>8, <2>9, <2>10 DEF Step
<1> QED
  BY <1>1, <1>2, <1>3 DEF Next

\* At most one thread drives the connection, and only while no operation of
\* it is outstanding; an open connection is never left without either.
THEOREM OneDriverCorrect == Spec => []OneDriver
<1>1. Init => OneDriver
  BY DEF Init, OneDriver, Driving
<1> QED
  BY <1>1, TypeCorrect, OneDriverStep, PTL DEF Spec

-----------------------------------------------------------------------------
(* Completeness                                                            *)

\* When all the data is of one request, of which nothing has been dropped,
\* isCompleteRequest() says that the request is there whole (97-115).
LEMMA CompleteIsWhole ==
  ASSUME TypeOK, Complete, NEW q \in 1..N,
         \A i \in Window : Stream[i].request = q,
         \A i \in 1..Len(Stream) : Stream[i].request = q => i > dropped
  PROVE  \A i \in 1..Len(Stream) : Stream[i].request = q => i <= received
<1>1. PICK first, last \in 1..Len(Stream) :
        /\ {i \in 1..Len(Stream) : Stream[i].request = q} = first..last
        /\ first < last
        /\ Stream[first].part = "head" /\ Stream[first + 1].part = "end"
        /\ \A i \in (first + 2)..last : Stream[i].part = "body"
  BY StreamOrder
<1>2. /\ Len(Stream) \in Nat /\ received \in Nat /\ dropped \in Nat
      /\ received <= Len(Stream) /\ first \in Nat /\ last \in Nat
  BY PieceTypes DEF TypeOK
<1>3. \A i \in Window : i \in 1..Len(Stream) /\ i \in first..last
  <2>1. \A i \in Window : i \in 1..Len(Stream)
    BY <1>2 DEF Window
  <2> QED
    BY <1>1, <2>1
<1>4. \A i \in Ends : i = first + 1
  <2> SUFFICES ASSUME NEW i \in Ends PROVE i = first + 1
    OBVIOUS
  <2>1. i \in first..last /\ Stream[i].part = "end"
    BY <1>3 DEF Ends
  <2>2. i # first /\ i \notin (first + 2)..last
    BY <1>1, <2>1
  <2> QED
    BY <1>2, <2>1, <2>2
<1>5. Ends = {first + 1}
  BY <1>4 DEF Complete
<1>6. First(Ends) = first + 1
  BY <1>2, <1>5 DEF First
<1>7. first + 1 <= received /\ first > dropped
  BY <1>1, <1>2, <1>5 DEF Ends, Window
<1>8. Heads = {first}
  <2>1. first \in Heads
    BY <1>1, <1>2, <1>7 DEF Heads, Window
  <2>2. ASSUME NEW i \in Heads PROVE i = first
    <3>1. i \in first..last /\ Stream[i].part = "head"
      BY <1>3 DEF Heads
    <3>2. i # first + 1 /\ i \notin (first + 2)..last
      BY <1>1, <3>1
    <3> QED
      BY <1>2, <3>1, <3>2
  <2> QED
    BY <2>1, <2>2
<1>9. Stream[first].request = q
  BY <1>1, <1>2
<1>10. BodyLength[q] = last - first - 1
  BY <1>1, BodyLengthOf
<1>11. ContentLength = last - first - 1
  <2> DEFINE S == {i \in Heads : BodyLength[Stream[i].request] > 0}
  <2>1. CASE BodyLength[q] > 0
    <3>1. S = {first}
      BY <1>8, <1>9, <2>1
    <3>2. First(S) = first
      BY <1>2, <3>1 DEF First
    <3> QED
      BY <1>9, <1>10, <3>1, <3>2 DEF ContentLength
  <2>2. CASE ~(BodyLength[q] > 0)
    <3>1. S = {}
      BY <1>8, <1>9, <2>2
    <3> QED
      BY <1>1, <1>2, <1>10, <2>2, <3>1 DEF ContentLength
  <2> QED
    BY <2>1, <2>2
<1>12. last <= received
  BY <1>2, <1>6, <1>11 DEF Complete
<1> QED
  BY <1>1, <1>2, <1>12

-----------------------------------------------------------------------------
(* Handing over                                                            *)

\* some thread has started a write and not cleared the data yet
Clearing == \E t \in Threads : pc[t] = "clear"

\* the pieces that are dropped, or are about to be
Taken == IF Clearing THEN received ELSE dropped

\* As long as no read overtakes a clear(), one thread at most is at it, none
\* while another drives, and the request at hand is the one at the front.
HandOver ==
  ~overtaken =>
    /\ \A s, t \in Threads : pc[s] = "clear" /\ pc[t] = "clear" => s = t
    /\ \A s, t \in Threads : pc[s] \in Driving => pc[t] # "clear"
    /\ \A t \in Threads : pc[t] = "send" => cur[t] = Parsed

\* Every step hands over so.
LEMMA HandOverStep == TypeOK /\ OneDriver /\ HandOver /\ [Next]_vars => HandOver'
<1> SUFFICES ASSUME TypeOK, OneDriver, HandOver, [Next]_vars PROVE HandOver'
  OBVIOUS
<1> USE DEF TypeOK, OneDriver, HandOver, Goto, Driving, Parsed, Heads, Window
<1>1. CASE UNCHANGED vars
  BY <1>1 DEF vars
<1>2. CASE Client
  BY <1>2 DEF Client, ClientSend, ClientLeave
<1>3. ASSUME NEW t \in Threads, Step(t) PROVE HandOver'
  <2>1. CASE HandleRead(t)
    BY <2>1 DEF HandleRead
  <2>2. CASE HandleReadError(t)
    BY <2>2 DEF HandleReadError
  <2>3. CASE HandleWrite(t)
    BY <2>3 DEF HandleWrite
  <2>4. CASE HandleWriteError(t)
    BY <2>4 DEF HandleWriteError
  <2>5. CASE CheckComplete(t)
    BY <2>5 DEF CheckComplete
  <2>6. CASE SetKeepAlive(t)
    BY <2>6 DEF SetKeepAlive
  <2>7. CASE ParseAndHandle(t)
    BY <2>7 DEF ParseAndHandle
  <2>8. CASE HandlerThrows(t)
    BY <2>8 DEF HandlerThrows
  <2>9. CASE SendResponse(t)
    BY <2>9 DEF SendResponse
  <2>10. CASE ClearRequestData(t)
    BY <2>10 DEF ClearRequestData
  <2> QED
    BY <1>3, <2>1, <2>2, <2>3, <2>4, <2>5, <2>6, <2>7, <2>8, <2>9, <2>10 DEF Step
<1> QED
  BY <1>1, <1>2, <1>3 DEF Next

\* Only a response takes pieces and adds an answer.
LEMMA OnlyResponsesTake ==
  ASSUME TypeOK, HandOver, [Next]_vars, ~overtaken'
  PROVE  /\ ~overtaken /\ client' = client
         /\ \/ Taken' = Taken /\ answers' = answers
            \/ \E t \in Threads : SendResponse(t)
<1> USE DEF TypeOK, HandOver, Goto, Driving, Taken, Clearing
<1>1. CASE UNCHANGED vars
  BY <1>1 DEF vars
<1>2. CASE Client
  BY <1>2 DEF Client, ClientSend, ClientLeave
<1>3. ASSUME NEW t \in Threads, Step(t)
      PROVE  /\ ~overtaken /\ client' = client
             /\ \/ Taken' = Taken /\ answers' = answers
                \/ SendResponse(t)
  <2>1. CASE HandleRead(t)
    BY <2>1 DEF HandleRead, clientVars
  <2>2. CASE HandleReadError(t) \/ HandleWrite(t) \/ HandleWriteError(t)
    BY <2>2 DEF HandleReadError, HandleWrite, HandleWriteError, clientVars
  <2>3. CASE CheckComplete(t) \/ SetKeepAlive(t) \/ ParseAndHandle(t) \/ HandlerThrows(t)
    BY <2>3 DEF CheckComplete, SetKeepAlive, ParseAndHandle, HandlerThrows, clientVars
  <2>4. CASE SendResponse(t)
    BY <2>4 DEF SendResponse, clientVars
  <2>5. CASE ClearRequestData(t)
    BY <2>5 DEF ClearRequestData, clientVars
  <2> QED
    BY <1>3, <2>1, <2>2, <2>3, <2>4, <2>5 DEF Step
<1> QED
  BY <1>1, <1>2, <1>3 DEF Next

-----------------------------------------------------------------------------
(* The order of the answers                                                *)

\* Whatever a client sends ahead, no answer is given out of turn, and the heads
\* that are left are of requests after all that were answered.
OrderInv ==
  ~overtaken =>
    /\ \A i, j \in 1..Len(answers) :
         i < j /\ answers[i] # NotFound /\ answers[j] # NotFound => answers[i] < answers[j]
    /\ \A i \in 1..Len(Stream), j \in 1..Len(answers) :
         Stream[i].part = "head" /\ i > Taken => answers[j] < Stream[i].request

\* A response is to the request at the front, and there is none at the front
\* that has been answered.
LEMMA OrderStep == TypeOK /\ OneDriver /\ HandOver /\ OrderInv /\ [Next]_vars => OrderInv'
<1> SUFFICES ASSUME TypeOK, OneDriver, HandOver, OrderInv, [Next]_vars, ~overtaken'
             PROVE  OrderInv'
  BY DEF OrderInv
<1>1. ~overtaken /\ (\/ Taken' = Taken /\ answers' = answers
                     \/ \E t \in Threads : SendResponse(t))
  BY OnlyResponsesTake
<1>2. CASE Taken' = Taken /\ answers' = answers
  BY <1>1, <1>2 DEF OrderInv
<1>3. ASSUME NEW t \in Threads, SendResponse(t) PROVE OrderInv'
  <2>1. /\ pc[t] = "send" /\ cur[t] = Parsed /\ ~Clearing /\ Clearing'
        /\ answers' = Append(answers, Parsed) /\ received' = received
    BY <1>1, <1>3 DEF SendResponse, HandOver, Driving, Clearing, Goto, TypeOK
  <2>2. Taken = dropped /\ Taken' = received
    BY <2>1 DEF Taken
  <2>3. /\ received \in Nat /\ dropped \in Nat /\ dropped <= received /\ received <= Len(Stream)
        /\ Len(Stream) \in Nat /\ answers \in Seq(0..N) /\ Parsed \in 0..N /\ N \in Nat
    BY PieceTypes, ParsedType DEF TypeOK
  <2>4. Parsed # NotFound => /\ dropped + 1 \in 1..Len(Stream) /\ dropped + 1 <= received
                             /\ Stream[dropped + 1].part = "head"
                             /\ Parsed = Stream[dropped + 1].request
    BY <2>3 DEF Parsed, Heads, Window
  <2>5. /\ \A i, j \in 1..Len(answers) :
             i < j /\ answers[i] # NotFound /\ answers[j] # NotFound => answers[i] < answers[j]
        /\ \A i \in 1..Len(Stream), j \in 1..Len(answers) :
             Stream[i].part = "head" /\ i > dropped => answers[j] < Stream[i].request
    BY <1>1, <2>2 DEF OrderInv
  <2>6. /\ Len(answers') = Len(answers) + 1 /\ answers'[Len(answers) + 1] = Parsed
        /\ \A i \in 1..Len(answers) : answers'[i] = answers[i]
        /\ Len(answers) \in Nat
    BY <2>1, <2>3
  <2>7. Parsed # NotFound => \A i \in 1..Len(answers) : answers[i] < Parsed
    BY <2>3, <2>4, <2>5
  <2>8. \A i \in 1..Len(Stream) : Stream[i].part = "head" /\ i > received => Parsed < Stream[i].request
    <3> SUFFICES ASSUME NEW i \in 1..Len(Stream), Stream[i].part = "head", i > received
                 PROVE  Parsed < Stream[i].request
      OBVIOUS
    <3>1. CASE Parsed = NotFound
      BY <3>1, PieceTypes DEF NotFound
    <3>2. CASE Parsed # NotFound
      BY <2>3, <2>4, <3>2, HeadsIncrease
    <3> QED
      BY <3>1, <3>2
  <2>9. \A i, j \in 1..Len(answers') :
          i < j /\ answers'[i] # NotFound /\ answers'[j] # NotFound => answers'[i] < answers'[j]
    BY <2>5, <2>6, <2>7
  <2>10. \A i \in 1..Len(Stream), j \in 1..Len(answers') :
           Stream[i].part = "head" /\ i > received => answers'[j] < Stream[i].request
    BY <2>3, <2>5, <2>6, <2>8
  <2> QED
    BY <2>2, <2>9, <2>10 DEF OrderInv
<1> QED
  BY <1>1, <1>2, <1>3

-----------------------------------------------------------------------------
(* A client that waits                                                     *)

\* A client that waits for each answer has sent nothing behind the request
\* whose turn it is; all that was answered is dropped, and nothing else.
WaitInv ==
  ~overtaken /\ ~client.pipelines =>
    /\ \A i \in 1..Len(answers) : answers[i] = i
    /\ \A i \in 1..sent : Stream[i].request <= Len(answers) + 1
    /\ \A i \in 1..Len(Stream) : i <= Taken <=> Stream[i].request <= Len(answers)
    /\ \A t \in Threads :
         pc[t] \in {"keep", "parse", "send"} =>
           /\ Len(answers) + 1 \in 1..N
           /\ \A i \in 1..Len(Stream) : i <= received <=> Stream[i].request <= Len(answers) + 1

\* The request at hand is the next one.
LEMMA FrontIsNext ==
  ASSUME TypeOK, HandOver, WaitInv, ~overtaken, ~client.pipelines,
         NEW t \in Threads, pc[t] \in {"keep", "parse", "send"}
  PROVE  /\ dropped + 1 \in Heads
         /\ Stream[dropped + 1].request = Len(answers) + 1
         /\ Parsed = Len(answers) + 1
<1> DEFINE q == Len(answers) + 1
<1>1. /\ received \in Nat /\ dropped \in Nat /\ dropped <= received /\ received <= Len(Stream)
      /\ Len(Stream) \in Nat /\ Len(answers) \in Nat
  BY PieceTypes DEF TypeOK
<1>2. Taken = dropped
  BY DEF HandOver, Driving, Taken, Clearing
<1>3. /\ q \in 1..N
      /\ \A i \in 1..Len(Stream) : i <= received <=> Stream[i].request <= q
      /\ \A i \in 1..Len(Stream) : i <= dropped <=> Stream[i].request <= Len(answers)
  BY <1>2 DEF WaitInv
<1>4. PICK i \in 1..Len(Stream) : Stream[i].request = q
  <2>1. PICK first, last \in 1..Len(Stream) :
          /\ {i \in 1..Len(Stream) : Stream[i].request = q} = first..last
          /\ first < last
    BY <1>3, StreamOrder
  <2>2. first \in first..last
    BY <1>1, <2>1
  <2> QED
    BY <2>1, <2>2
<1>5. i <= received /\ i > dropped
  BY <1>1, <1>3, <1>4
<1>6. dropped + 1 \in 1..Len(Stream) /\ dropped + 1 <= received
  BY <1>1, <1>5
<1>7. Stream[dropped + 1].request = q
  BY <1>1, <1>3, <1>6, PieceTypes
<1>8. Stream[dropped + 1].part = "head"
  <2> SUFFICES ASSUME Stream[dropped + 1].part # "head" PROVE FALSE
    OBVIOUS
  <2>1. dropped \in 1..Len(Stream) /\ Stream[dropped].request = q
    BY <1>1, <1>6, <1>7, Continued
  <2> QED
    BY <1>1, <1>3, <2>1
<1> QED
  BY <1>1, <1>6, <1>7, <1>8 DEF Parsed, Heads, Window

\* What isCompleteRequest() accepts is the next request, whole.
LEMMA NextIsWhole ==
  ASSUME TypeOK, HandOver, WaitInv, ~overtaken, ~client.pipelines,
         NEW t \in Threads, pc[t] = "check", Complete
  PROVE  /\ Len(answers) + 1 \in 1..N
         /\ \A i \in 1..Len(Stream) : i <= received <=> Stream[i].request <= Len(answers) + 1
<1> DEFINE q == Len(answers) + 1
<1>1. /\ received \in Nat /\ dropped \in Nat /\ sent \in Nat /\ received <= sent
      /\ dropped <= received /\ sent <= Len(Stream)
      /\ Len(Stream) \in Nat /\ Len(answers) \in Nat
      /\ \A i \in 1..Len(Stream) : Stream[i].request \in 1..N
  BY PieceTypes DEF TypeOK
<1>2. Taken = dropped
  BY DEF HandOver, Driving, Taken, Clearing
<1>3. /\ \A i \in 1..sent : Stream[i].request <= q
      /\ \A i \in 1..Len(Stream) : i <= dropped <=> Stream[i].request <= Len(answers)
  BY <1>2 DEF WaitInv
<1>4. \A i \in Window : i \in 1..Len(Stream) /\ i \in 1..sent /\ i > dropped
  BY <1>1 DEF Window
<1>5. \A i \in Window : Stream[i].request = q
  BY <1>1, <1>3, <1>4
<1>6. q \in 1..N
  <2>1. PICK e \in Ends : TRUE
    BY DEF Complete
  <2>2. e \in Window
    BY <2>1 DEF Ends
  <2> QED
    BY <1>1, <1>4, <1>5, <2>2
<1>7. \A i \in 1..Len(Stream) : Stream[i].request = q => i > dropped
  BY <1>1, <1>3
<1>8. \A i \in 1..Len(Stream) : Stream[i].request = q => i <= received
  BY <1>5, <1>6, <1>7, CompleteIsWhole
<1>9. \A i \in 1..Len(Stream) : i <= received => Stream[i].request <= q
  BY <1>1, <1>3
<1>10. \A i \in 1..Len(Stream) : Stream[i].request <= q => i <= received
  BY <1>1, <1>3, <1>8
<1> QED
  BY <1>6, <1>9, <1>10

\* Every step keeps a waiting client's turn.
LEMMA WaitStep == TypeOK /\ OneDriver /\ HandOver /\ WaitInv /\ [Next]_vars => WaitInv'
<1> SUFFICES ASSUME TypeOK, OneDriver, HandOver, WaitInv, [Next]_vars,
                    ~overtaken', ~client'.pipelines
             PROVE  WaitInv'
  BY DEF WaitInv
<1>1. /\ ~overtaken /\ client' = client
      /\ (\/ Taken' = Taken /\ answers' = answers
          \/ \E t \in Threads : SendResponse(t))
  BY OnlyResponsesTake
<1>2. ASSUME Taken' = Taken, answers' = answers, sent' = sent,
             \A t \in Threads : pc'[t] \in {"keep", "parse", "send"} =>
                                  received' = received /\ pc[t] \in {"keep", "parse", "send"}
      PROVE  WaitInv'
  BY <1>1, <1>2 DEF WaitInv
<1>3. CASE UNCHANGED vars
  BY <1>1, <1>2, <1>3 DEF vars, SendResponse
<1>4. CASE ClientSend
  <2>1. /\ Taken' = Taken /\ answers' = answers /\ UNCHANGED <<received, pc>> /\ sent' = sent + 1
        /\ sent < Len(Stream)
    BY <1>4 DEF ClientSend, Taken, Clearing
  <2>2. Len(answers) \in Nat /\ sent \in Nat /\ Len(Stream) \in Nat
    BY PieceTypes DEF TypeOK
  <2>3. sent + 1 \in 1..Len(Stream) /\ Stream[sent + 1].request \in 1..N /\ N \in Nat
    BY <2>1, <2>2, PieceTypes
  <2>4. Stream[sent + 1].request <= Len(answers) + 1
    <3>1. CASE Stream[sent + 1].part = "head"
      BY <1>1, <1>4, <2>2, <2>3, <3>1 DEF ClientSend
    <3>2. CASE Stream[sent + 1].part # "head"
      <4>1. sent \in 1..Len(Stream) /\ Stream[sent].request = Stream[sent + 1].request
        BY <2>2, <2>3, <3>2, Continued
      <4> QED
        BY <1>1, <2>2, <4>1 DEF WaitInv
    <3> QED
      BY <3>1, <3>2
  <2>5. \A i \in 1..sent' : Stream[i].request <= Len(answers) + 1
    <3>1. \A i \in 1..sent : Stream[i].request <= Len(answers) + 1
      BY <1>1, <2>1 DEF WaitInv
    <3> QED
      BY <2>1, <2>2, <2>4, <3>1
  <2> QED
    BY <1>1, <2>1, <2>5 DEF WaitInv
<1>5. CASE ClientLeave
  BY <1>1, <1>2, <1>5 DEF ClientLeave, Taken, Clearing
<1>6. ASSUME NEW t \in Threads, Step(t) PROVE WaitInv'
  <2> USE DEF Goto, TypeOK
  <2>1. CASE \/ HandleRead(t) \/ HandleReadError(t) \/ HandleWrite(t) \/ HandleWriteError(t)
             \/ SetKeepAlive(t) \/ ParseAndHandle(t) \/ HandlerThrows(t) \/ ClearRequestData(t)
    <3>1. answers' = answers /\ sent' = sent
      BY <2>1 DEF HandleRead, HandleReadError, HandleWrite, HandleWriteError, SetKeepAlive,
                  ParseAndHandle, HandlerThrows, ClearRequestData, clientVars
    <3>2. Taken' = Taken
      BY <1>1, <2>1, <3>1 DEF SendResponse
    <3>3. \A s \in Threads : pc'[s] \in {"keep", "parse", "send"} =>
                               received' = received /\ pc[s] \in {"keep", "parse", "send"}
      BY <2>1 DEF HandleRead, HandleReadError, HandleWrite, HandleWriteError, SetKeepAlive,
                  ParseAndHandle, HandlerThrows, ClearRequestData, OneDriver, Driving
    <3> QED
      BY <1>2, <3>1, <3>2, <3>3
  <2>2. CASE CheckComplete(t) /\ ~Complete
    BY <1>2, <2>2 DEF CheckComplete, Taken, Clearing, clientVars
  <2>3. CASE CheckComplete(t) /\ Complete
    <3>1. /\ Taken' = Taken /\ UNCHANGED <<answers, sent, received>>
          /\ \A s \in Threads \ {t} : pc'[s] = pc[s]
      BY <2>3 DEF CheckComplete, Taken, Clearing, clientVars
    <3>2. /\ Len(answers) + 1 \in 1..N
          /\ \A i \in 1..Len(Stream) : i <= received <=> Stream[i].request <= Len(answers) + 1
      BY <1>1, <2>3, NextIsWhole DEF CheckComplete
    <3> QED
      BY <1>1, <3>1, <3>2 DEF WaitInv
  <2>4. CASE SendResponse(t)
    <3>1. /\ pc[t] = "send" /\ cur[t] = Parsed /\ Clearing'
          /\ answers' = Append(answers, Parsed) /\ UNCHANGED <<received, sent>>
          /\ \A s \in Threads : pc'[s] \notin {"keep", "parse", "send"}
      BY <1>1, <2>4 DEF SendResponse, HandOver, OneDriver, Driving, Clearing, clientVars
    <3>2. Parsed = Len(answers) + 1 /\ Len(answers) \in Nat /\ answers \in Seq(0..N)
      BY <1>1, <3>1, FrontIsNext
    <3>3. /\ Len(answers') = Len(answers) + 1
          /\ \A i \in 1..Len(answers') : answers'[i] = i
      BY <1>1, <3>1, <3>2 DEF WaitInv
    <3>4. Taken' = received
      BY <3>1 DEF Taken
    <3>5. \A i \in 1..Len(Stream) : i <= received <=> Stream[i].request <= Len(answers) + 1
      BY <1>1, <3>1 DEF WaitInv
    <3>6. \A i \in 1..sent : Stream[i].request <= Len(answers) + 1 + 1
      <4>1. \A i \in 1..sent : i \in 1..Len(Stream)
        BY PieceTypes
      <4> QED
        BY <1>1, <3>2, <4>1, PieceTypes DEF WaitInv
    <3> QED
      BY <3>1, <3>3, <3>4, <3>5, <3>6 DEF WaitInv
  <2> QED
    BY <1>6, <2>1, <2>2, <2>3, <2>4 DEF Step
<1> QED
  BY <1>3, <1>4, <1>5, <1>6 DEF Next, Client

\* What the connection keeps to together.
ConnectionInv == TypeOK /\ OneDriver /\ HandOver /\ OrderInv /\ WaitInv

\* It does so in every state.
LEMMA ConnectionInvCorrect == Spec => []ConnectionInv
<1>1. Init => ConnectionInv
  <2> SUFFICES ASSUME Init PROVE ConnectionInv
    OBVIOUS
  <2>1. /\ answers = <<>> /\ Len(answers) = 0 /\ sent = 0 /\ received = 0 /\ dropped = 0
        /\ op = "read" /\ sock = "open" /\ \A t \in Threads : pc[t] = "idle"
    BY DEF Init
  <2>2. Taken = 0
    BY <2>1 DEF Taken
  <2>3. \A i \in 1..Len(Stream) : ~(i <= 0) /\ ~(Stream[i].request <= 0)
    BY PieceTypes
  <2>4. TypeOK /\ OneDriver
    BY <2>1, TypeInit DEF OneDriver, Driving
  <2>5. HandOver /\ OrderInv
    BY <2>1 DEF HandOver, OrderInv, Driving
  <2>6. WaitInv
    <3>1. 1..Len(answers) = {} /\ 1..sent = {}
      BY <2>1
    <3>2. \A i \in 1..Len(Stream) : i <= Taken <=> Stream[i].request <= Len(answers)
      BY <2>1, <2>2, <2>3
    <3> QED
      BY <2>1, <3>1, <3>2 DEF WaitInv
  <2> QED
    BY <2>4, <2>5, <2>6 DEF ConnectionInv
<1>2. ConnectionInv /\ [Next]_vars => ConnectionInv'
  BY TypeStep, OneDriverStep, HandOverStep, OrderStep, WaitStep DEF ConnectionInv
<1> QED
  BY <1>1, <1>2, PTL DEF Spec

\* As long as no read overtakes a clear(), a client that waits is answered its
\* requests one for one, and no client is answered one of them twice or out of
\* turn (AsyncClientHandler.hpp:68-95, 137-155, 203-222).
THEOREM AnswersInOrderCorrect == Spec => []AnswersInOrder
<1>1. ConnectionInv => AnswersInOrder
  BY DEF ConnectionInv, OrderInv, WaitInv, AnswersInOrder
<1> QED
  BY <1>1, ConnectionInvCorrect, PTL

-----------------------------------------------------------------------------
(* The last answer                                                         *)

\* Nobody goes on reading or answering after the answer to a request that asked
\* to close, and the write that follows it will close.
CloseInv ==
  ~overtaken /\ ~client.pipelines =>
    /\ \A i \in 1..(Len(answers) - 1) : answers[i] \notin client.closing
    /\ op = "read" \/ (\E t \in Threads : pc[t] \in Driving) =>
         \A i \in 1..Len(answers) : answers[i] \notin client.closing
    /\ op = "write" /\ keep => answers[Len(answers)] \notin client.closing
    /\ \A t \in Threads :
         pc[t] \in {"parse", "send"} /\ keep => Len(answers) + 1 \notin client.closing

\* Every step keeps to it.
LEMMA CloseStep == ConnectionInv /\ CloseInv /\ [Next]_vars => CloseInv'
<1> SUFFICES ASSUME ConnectionInv, CloseInv, [Next]_vars, ~overtaken', ~client'.pipelines
             PROVE  CloseInv'
  BY DEF CloseInv
<1> USE DEF ConnectionInv
<1>1. ~overtaken /\ ~client.pipelines /\ client' = client
  BY OnlyResponsesTake
<1>2. Len(answers) \in Nat /\ answers \in Seq(0..N)
  BY DEF TypeOK
<1>3. CASE UNCHANGED vars \/ Client
  BY <1>1, <1>3 DEF vars, Client, ClientSend, ClientLeave, CloseInv
<1>4. ASSUME NEW t \in Threads, Step(t) PROVE CloseInv'
  <2> USE <1>1, <1>2 DEF Goto, TypeOK, Driving
  <2>1. CASE HandleRead(t)
    BY <2>1 DEF HandleRead, CloseInv
  <2>2. CASE HandleReadError(t) \/ HandleWriteError(t)
    BY <2>2 DEF HandleReadError, HandleWriteError, CloseInv
  <2>3. CASE HandleWrite(t)
    <3>1. /\ op = "write" /\ op' = (IF keep THEN "read" ELSE "none")
          /\ UNCHANGED <<keep, pc, answers>>
      BY <2>3 DEF HandleWrite
    <3>2. \A s \in Threads : pc[s] \notin Driving
      BY <3>1 DEF OneDriver
    <3>3. \A i \in 1..(Len(answers) - 1) : answers[i] \notin client.closing
      BY DEF CloseInv
    <3>4. keep => \A i \in 1..Len(answers) : answers[i] \notin client.closing
      <4>1. keep => answers[Len(answers)] \notin client.closing
        BY <3>1 DEF CloseInv
      <4> QED
        BY <3>3, <4>1
    <3> QED
      BY <3>1, <3>2, <3>3, <3>4 DEF CloseInv
  <2>4. CASE CheckComplete(t)
    BY <2>4 DEF CheckComplete, CloseInv
  <2>5. CASE SetKeepAlive(t)
    <3>1. pc[t] = "keep" /\ keep' = KeepAlive /\ UNCHANGED <<answers, op>>
          /\ \A s \in Threads : pc'[s] \in Driving => s = t
      BY <2>5 DEF SetKeepAlive, OneDriver
    <3>2. keep' => Len(answers) + 1 \notin client.closing
      BY <3>1, FrontIsNext DEF KeepAlive
    <3>3. op # "write" /\ \A i \in 1..Len(answers) : answers[i] \notin client.closing
      BY <3>1 DEF CloseInv, OneDriver
    <3> QED
      BY <3>1, <3>2, <3>3 DEF CloseInv
  <2>6. CASE ParseAndHandle(t) \/ HandlerThrows(t)
    BY <2>6 DEF ParseAndHandle, HandlerThrows, CloseInv
  <2>7. CASE SendResponse(t)
    <3>1. /\ pc[t] = "send" /\ cur[t] = Parsed /\ op' = "write" /\ keep' = keep
          /\ answers' = Append(answers, Parsed)
          /\ \A s \in Threads : pc'[s] \notin Driving
      BY <2>7 DEF SendResponse, HandOver, OneDriver
    <3>2. Parsed = Len(answers) + 1
      BY <3>1, FrontIsNext
    <3>3. /\ \A i \in 1..Len(answers) : answers[i] \notin client.closing
          /\ keep => Len(answers) + 1 \notin client.closing
      BY <3>1 DEF CloseInv
    <3>4. /\ Len(answers') = Len(answers) + 1
          /\ \A i \in 1..Len(answers) : answers'[i] = answers[i]
          /\ answers'[Len(answers')] = Len(answers) + 1
      BY <3>1, <3>2
    <3>5. \A i \in 1..(Len(answers') - 1) : answers'[i] \notin client.closing
      BY <3>3, <3>4
    <3> QED
      BY <3>1, <3>3, <3>4, <3>5 DEF CloseInv
  <2>8. CASE ClearRequestData(t)
    BY <2>8 DEF ClearRequestData, CloseInv
  <2> QED
    BY <1>4, <2>1, <2>2, <2>3, <2>4, <2>5, <2>6, <2>7, <2>8 DEF Step
<1> QED
  BY <1>3, <1>4 DEF Next

\* A client that waits gets nothing after the answer to the request in which it
\* asked to close (157-173, 211-220), as long as no read overtakes a clear().
THEOREM CloseAfterLastAnswerCorrect == Spec => []CloseAfterLastAnswer
<1>1. Init => CloseInv
  BY DEF Init, CloseInv, Driving
<1>2. CloseInv => CloseAfterLastAnswer
  BY DEF CloseInv, CloseAfterLastAnswer
<1> QED
  BY <1>1, <1>2, ConnectionInvCorrect, CloseStep, PTL DEF Spec
=============================================================================
