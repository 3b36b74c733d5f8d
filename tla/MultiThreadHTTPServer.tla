------------------------- MODULE MultiThreadHTTPServer -------------------------
(***************************************************************************)
(* The life of the server of src/server/MultiThreadHTTPServer.cpp: the     *)
(* owner thread (main) starts, stops, reconfigures and destroys it; a pool *)
(* of IO threads runs io_context_.run(); the accept chain hands each new   *)
(* connection to a posted handleClient.                                    *)
(*                                                                         *)
(* asio is outside the code modelled: its completion queue is a FIFO of    *)
(* packets, stop() posts one Stop packet, each thread that takes it posts  *)
(* it again and leaves run(), and nothing ever resets the stopped flag.    *)
(* A connection is reduced to whether an operation of it is outstanding;   *)
(* AsyncClientHandler models what its completion handlers do.              *)
(***************************************************************************)
EXTENDS Integers, Sequences, FiniteSets

CONSTANTS
  Threads,    \* the IO threads of one start()
  Conns,      \* the connections clients may open
  NoConn,     \* a packet that is about no connection
  Backlog,    \* m_serverconfig.max_connections, the argument of listen()
  MaxStarts   \* bound on the number of successful calls of start()

ASSUME ServerAssumption ==
  /\ NoConn \notin Conns
  /\ IsFiniteSet(Threads)    \* hardware_concurrency()
  /\ Backlog \in Nat
  /\ MaxStarts \in Nat

\* what the completion queue holds and what a thread is running: a finished
\* async_accept (or its failure), a posted handleClient, an operation of a
\* connection; "rearm" is handleAccept on its way to startAccept()
Packets == [kind : {"accepted", "client", "io"}, conn : Conns]
             \union [kind : {"aborted", "badfd", "stop"}, conn : {NoConn}]
Packet(kind, c) == [kind |-> kind, conn |-> c]
Stop == Packet("stop", NoConn)
NoJob == Packet("none", NoConn)
Rearm == Packet("rearm", NoConn)

VARIABLES
  running,    \* m_server_running
  acceptor,   \* acceptor_: "closed", "open" (not listening) or "listening"
  guard,      \* m_work_guard holds work
  stopped,    \* io_context_.stop() has been called
  owner,      \* where the owner thread is in stop()
  call,       \* the owner's last call that found the server running
  starts,     \* how often start() has succeeded
  th,         \* the threads of ioThreadPool
  job,        \* the packet each thread is handling
  ready,      \* the completion queue of io_context_
  pending,    \* outstanding async_accept operations
  conn,       \* the connections
  left,       \* the connections whose client has gone away
  chainLost,  \* an exception has ended handleAccept before startAccept()
  thrown      \* a request handler has thrown (it can do so only once)

ownerVars == <<running, guard, owner, call, starts>>
clientVars == <<left, thrown>>
vars == <<running, acceptor, guard, stopped, owner, call, starts, th, job,
          ready, pending, conn, left, chainLost, thrown>>

TypeOK ==
  /\ running \in BOOLEAN /\ guard \in BOOLEAN /\ stopped \in BOOLEAN
  /\ acceptor \in {"closed", "open", "listening"}
  /\ owner \in {"idle", "closing", "releasing", "stopping", "joining", "destroyed"}
  /\ call \in {"none", "start", "stop", "configure", "destroy"}
  /\ starts \in 0..MaxStarts
  /\ th \in [Threads -> {"absent", "run", "exited", "died"}]
  /\ job \in [Threads -> Packets \union {NoJob, Rearm}]
  /\ ready \in Seq(Packets)
  /\ pending \in Nat
  /\ conn \in [Conns -> {"none", "backlog", "taken", "serving", "ready", "closed"}]
  /\ left \subseteq Conns
  /\ chainLost \in BOOLEAN /\ thrown \in BOOLEAN

Init ==
  /\ running = FALSE /\ guard = FALSE /\ stopped = FALSE
  /\ acceptor = "closed"
  /\ owner = "idle"
  /\ call = "none"
  /\ starts = 0
  /\ th = [t \in Threads |-> "absent"]
  /\ job = [t \in Threads |-> NoJob]
  /\ ready = <<>>
  /\ pending = 0
  /\ conn = [c \in Conns |-> "none"]
  /\ left = {}
  /\ chainLost = FALSE /\ thrown = FALSE

-----------------------------------------------------------------------------
(* The owner                                                               *)

\* open, bind and listen succeed; startAccept(); the threads are spawned
Start ==
  /\ owner = "idle" /\ ~running
  /\ acceptor = "closed"
  /\ starts < MaxStarts
  /\ acceptor' = "listening"
  /\ running' = TRUE
  /\ guard' = TRUE
  /\ starts' = starts + 1
  /\ call' = "start"
  /\ pending' = pending + 1
  /\ th' = [t \in Threads |-> "run"]
  /\ job' = [t \in Threads |-> NoJob]
  /\ UNCHANGED <<stopped, owner, ready, conn, chainLost, clientVars>>

\* bind or listen throws: the acceptor stays open, and open() refuses it
\* from then on
StartFails ==
  /\ owner = "idle" /\ ~running
  /\ acceptor = "closed"
  /\ starts < MaxStarts
  /\ acceptor' = "open"
  /\ UNCHANGED <<ownerVars, stopped, th, job, ready, pending, conn, chainLost, clientVars>>

\* stop(), which configure() and the destructor call too
StopBegin(who) ==
  /\ owner = "idle" /\ running
  /\ running' = FALSE
  /\ call' = who
  /\ owner' = "closing"
  /\ UNCHANGED <<acceptor, guard, stopped, starts, th, job, ready, pending,
                 conn, chainLost, clientVars>>

\* slip: one accept more is taken to have been aborted than was outstanding
CloseAbortsOneMore ==
  /\ owner = "closing"
  /\ acceptor' = "closed"
  /\ ready' = Append(ready, Packet("aborted", NoConn))
  /\ pending' = pending - 1
  /\ conn' = [c \in Conns |-> IF conn[c] = "backlog" THEN "closed" ELSE conn[c]]
  /\ owner' = "releasing"
  /\ UNCHANGED <<running, guard, stopped, call, starts, th, job, chainLost, clientVars>>

\* closing the listening socket aborts the accept and resets the backlog
CloseAcceptor ==
  /\ owner = "closing"
  /\ acceptor' = "closed"
  /\ ready' = ready \o [i \in 1..pending |-> Packet("aborted", NoConn)]
  /\ pending' = 0
  /\ conn' = [c \in Conns |-> IF conn[c] = "backlog" THEN "closed" ELSE conn[c]]
  /\ owner' = "releasing"
  /\ UNCHANGED <<running, guard, stopped, call, starts, th, job, chainLost, clientVars>>

ResetWorkGuard ==
  /\ owner = "releasing"
  /\ guard' = FALSE
  /\ owner' = "stopping"
  /\ UNCHANGED <<running, acceptor, stopped, call, starts, th, job, ready,
                 pending, conn, chainLost, clientVars>>

\* io_context::stop() posts its packet the first time only
StopContext ==
  /\ stopped' = TRUE
  /\ ready' = IF stopped THEN ready ELSE Append(ready, Stop)

\* slip: io_context_.stop() is left to the work guard
ForgetStop ==
  /\ owner = "stopping"
  /\ owner' = "joining"
  /\ UNCHANGED <<running, acceptor, guard, stopped, call, starts, th, job, ready,
                 pending, conn, chainLost, clientVars>>

StopIoContext ==
  /\ owner = "stopping"
  /\ StopContext
  /\ owner' = "joining"
  /\ UNCHANGED <<running, acceptor, guard, call, starts, th, job, pending,
                 conn, chainLost, clientVars>>

\* slip: stop() returns without join_all()
ForgetJoin ==
  /\ owner = "joining"
  /\ owner' = IF call = "destroy" THEN "destroyed" ELSE "idle"
  /\ UNCHANGED <<running, acceptor, guard, stopped, call, starts, th, job, ready,
                 pending, conn, chainLost, clientVars>>

\* ioThreadPool.join_all(), then the caller goes on
JoinAll ==
  /\ owner = "joining"
  /\ \A t \in Threads : th[t] # "run"
  /\ th' = [t \in Threads |-> "absent"]
  /\ owner' = IF call = "destroy" THEN "destroyed" ELSE "idle"
  /\ UNCHANGED <<running, acceptor, guard, stopped, call, starts, job, ready,
                 pending, conn, chainLost, clientVars>>

\* the destructor of a server that is not running: stop() returns at once,
\* the members close what is open
Destroy ==
  /\ owner = "idle" /\ ~running
  /\ owner' = "destroyed"
  /\ acceptor' = "closed"
  /\ UNCHANGED <<running, guard, stopped, call, starts, th, job, ready, pending,
                 conn, chainLost, clientVars>>

-----------------------------------------------------------------------------
(* The clients and the network stack                                       *)

ClientConnect(c) ==
  /\ conn[c] = "none"
  /\ acceptor = "listening"
  /\ Cardinality({d \in Conns : conn[d] = "backlog"}) < Backlog
  /\ conn' = [conn EXCEPT ![c] = "backlog"]
  /\ UNCHANGED <<ownerVars, acceptor, stopped, th, job, ready, pending, chainLost, clientVars>>

ClientLeave(c) ==
  /\ conn[c] \notin {"none", "closed"}
  /\ left' = left \union {c}
  /\ UNCHANGED <<ownerVars, acceptor, stopped, th, job, ready, pending, conn, chainLost, thrown>>

AcceptCompletes(c) ==
  /\ conn[c] = "backlog"
  /\ pending > 0
  /\ pending' = pending - 1
  /\ conn' = [conn EXCEPT ![c] = "taken"]
  /\ ready' = Append(ready, Packet("accepted", c))
  /\ UNCHANGED <<ownerVars, acceptor, stopped, th, job, chainLost, clientVars>>

IoCompletes(c) ==
  /\ conn[c] = "serving"
  /\ conn' = [conn EXCEPT ![c] = "ready"]
  /\ ready' = Append(ready, Packet("io", c))
  /\ UNCHANGED <<ownerVars, acceptor, stopped, th, job, pending, chainLost, clientVars>>

-----------------------------------------------------------------------------
(* The IO threads                                                          *)

Handling(t, kinds) == th[t] = "run" /\ job[t].kind \in kinds
HandlerDone(t) == job' = [job EXCEPT ![t] = NoJob]
\* an exception leaves run(): the thread logs it and ends
ThreadDies(t) == th' = [th EXCEPT ![t] = "died"] /\ HandlerDone(t)

Dispatch(t) ==
  /\ th[t] = "run" /\ job[t] = NoJob
  /\ ready # <<>> /\ Head(ready) # Stop
  /\ job' = [job EXCEPT ![t] = Head(ready)]
  /\ ready' = Tail(ready)
  /\ UNCHANGED <<ownerVars, acceptor, stopped, th, pending, conn, chainLost, clientVars>>

\* the packet is passed on to the next thread
ThreadExits(t) ==
  /\ th[t] = "run" /\ job[t] = NoJob
  /\ ready # <<>> /\ Head(ready) = Stop
  /\ ready' = Append(Tail(ready), Stop)
  /\ th' = [th EXCEPT ![t] = "exited"]
  /\ UNCHANGED <<ownerVars, acceptor, stopped, job, pending, conn, chainLost, clientVars>>

\* the last of the work is gone: asio calls stop() itself
OutOfWork ==
  /\ ~guard /\ ~stopped
  /\ \E t \in Threads : th[t] = "run"
  /\ pending = 0 /\ ready = <<>>
  /\ \A t \in Threads : job[t] = NoJob
  /\ \A c \in Conns : conn[c] # "serving"
  /\ StopContext
  /\ UNCHANGED <<ownerVars, acceptor, th, job, pending, conn, chainLost, clientVars>>

\* handleAccept after stop(): the socket goes with the handler
AcceptRefused(t) ==
  /\ Handling(t, {"accepted", "aborted", "badfd"})
  /\ ~running
  /\ conn' = [c \in Conns |-> IF c = job[t].conn THEN "closed" ELSE conn[c]]
  /\ HandlerDone(t)
  /\ UNCHANGED <<ownerVars, acceptor, stopped, th, ready, pending, chainLost, clientVars>>

\* slip: the next accept is started before the client is posted, and after it
AcceptTwice(t) ==
  /\ Handling(t, {"accepted"})
  /\ running
  /\ ready' = Append(ready, Packet("client", job[t].conn))
  /\ pending' = pending + 1
  /\ job' = [job EXCEPT ![t] = Rearm]
  /\ UNCHANGED <<ownerVars, acceptor, stopped, th, conn, chainLost, clientVars>>

\* slip: handleClient is both called and posted
AcceptServesTwice(t) ==
  /\ Handling(t, {"accepted"})
  /\ running
  /\ ready' = Append(ready, Packet("client", job[t].conn))
  /\ conn' = [conn EXCEPT ![job[t].conn] = "serving"]
  /\ job' = [job EXCEPT ![t] = Rearm]
  /\ UNCHANGED <<ownerVars, acceptor, stopped, th, pending, chainLost, clientVars>>

\* handleAccept posts handleClient and goes on to startAccept()
AcceptConnection(t) ==
  /\ Handling(t, {"accepted"})
  /\ running
  /\ ready' = Append(ready, Packet("client", job[t].conn))
  /\ job' = [job EXCEPT ![t] = Rearm]
  /\ UNCHANGED <<ownerVars, acceptor, stopped, th, pending, conn, chainLost, clientVars>>

\* remote_endpoint() throws when the client is gone already
AcceptThrows(t) ==
  /\ Handling(t, {"accepted"})
  /\ running
  /\ job[t].conn \in left
  /\ conn' = [conn EXCEPT ![job[t].conn] = "closed"]
  /\ chainLost' = TRUE
  /\ ThreadDies(t)
  /\ UNCHANGED <<ownerVars, acceptor, stopped, ready, pending, clientVars>>

\* operation_aborted ends the chain, any other error goes on to startAccept()
AcceptError(t) ==
  /\ Handling(t, {"aborted", "badfd"})
  /\ running
  /\ job' = [job EXCEPT ![t] = IF job[t].kind = "aborted" THEN NoJob ELSE Rearm]
  /\ UNCHANGED <<ownerVars, acceptor, stopped, th, ready, pending, conn, chainLost, clientVars>>

\* on a socket that is not listening async_accept fails through the queue
StartAccept(t) ==
  /\ Handling(t, {"rearm"})
  /\ \/ acceptor = "listening" /\ pending' = pending + 1 /\ UNCHANGED ready
     \/ /\ acceptor # "listening"
        /\ ready' = Append(ready, Packet("badfd", NoConn))
        /\ UNCHANGED pending
  /\ HandlerDone(t)
  /\ UNCHANGED <<ownerVars, acceptor, stopped, th, conn, chainLost, clientVars>>

\* slip: the client handler is made but not started
HandleClientIdle(t) ==
  /\ Handling(t, {"client"})
  /\ HandlerDone(t)
  /\ UNCHANGED <<ownerVars, acceptor, stopped, th, ready, pending, conn, chainLost, clientVars>>

\* AsyncClientHandler::start() puts the first read of the connection out
HandleClient(t) ==
  /\ Handling(t, {"client"})
  /\ conn' = [conn EXCEPT ![job[t].conn] = "serving"]
  /\ HandlerDone(t)
  /\ UNCHANGED <<ownerVars, acceptor, stopped, th, ready, pending, chainLost, clientVars>>

\* the handler starts the next operation or closes the connection
HandleIo(t) ==
  /\ Handling(t, {"io"})
  /\ \E next \in {"closed"} \union (IF job[t].conn \in left THEN {} ELSE {"serving"}) :
       conn' = [conn EXCEPT ![job[t].conn] = next]
  /\ HandlerDone(t)
  /\ UNCHANGED <<ownerVars, acceptor, stopped, th, ready, pending, chainLost, clientVars>>

\* a request handler throws; UserHandler can do so once (its mutex stays locked)
HandlerThrows(t) ==
  /\ Handling(t, {"io"})
  /\ ~thrown
  /\ thrown' = TRUE
  /\ conn' = [conn EXCEPT ![job[t].conn] = "closed"]
  /\ ThreadDies(t)
  /\ UNCHANGED <<ownerVars, acceptor, stopped, ready, pending, chainLost, left>>

-----------------------------------------------------------------------------
Stopping == CloseAcceptor \/ ResetWorkGuard \/ StopIoContext \/ JoinAll

Owner ==
  \/ Start \/ StartFails \/ Stopping \/ Destroy
  \/ \E who \in {"stop", "configure", "destroy"} : StopBegin(who)

Client(c) == ClientConnect(c) \/ ClientLeave(c)

Kernel(c) == AcceptCompletes(c) \/ IoCompletes(c)

Io(t) ==
  \/ Dispatch(t) \/ ThreadExits(t)
  \/ AcceptRefused(t) \/ AcceptConnection(t) \/ AcceptThrows(t) \/ AcceptError(t)
  \/ StartAccept(t) \/ HandleClient(t) \/ HandleIo(t) \/ HandlerThrows(t)

Next ==
  \/ Owner \/ OutOfWork
  \/ \E c \in Conns : Client(c) \/ Kernel(c)
  \/ \E t \in Threads : Io(t)

\* threads are scheduled, an accept completes once there is a client for it
\* and whoever called stop() goes through with it; clients owe nothing
Fairness ==
  /\ WF_vars(Stopping)
  /\ \A t \in Threads : WF_vars(Io(t))
  /\ \A c \in Conns : WF_vars(AcceptCompletes(c))

Spec == Init /\ [][Next]_vars /\ Fairness

-----------------------------------------------------------------------------
(* What the server promises                                                *)

InQueue(kinds) == Cardinality({i \in 1..Len(ready) : ready[i].kind \in kinds})
InHand(kinds) == Cardinality({t \in Threads : Handling(t, kinds)})

\* Each link of the accept chain is an outstanding async_accept, its packet,
\* or the handleAccept on the way to the next startAccept().
AcceptLinks == pending + InQueue({"accepted", "aborted", "badfd"})
                 + InHand({"accepted", "aborted", "badfd", "rearm"})

\* When stop() has returned, or the object is gone, no IO thread is left that
\* could run a handler on its members (cpp:33, hpp:64-67).
NoThreadOutlivesStop ==
  ~running /\ owner \in {"idle", "destroyed"} => \A t \in Threads : th[t] = "absent"

\* One start() makes one accept chain, and while the server runs the chain is
\* unbroken: there are never two async_accepts outstanding in a server started
\* once, and the server waits for the next client, or is about to, unless
\* handleAccept died before its startAccept() (119-146).
OneAcceptChain ==
  /\ AcceptLinks <= starts
  /\ running /\ ~chainLost => AcceptLinks >= 1

\* A connection is never looked after twice: at most one packet or running
\* handler is about it, and only when no operation of it is outstanding.
OneTaskPerConnection ==
  \A c \in Conns :
    Cardinality({i \in 1..Len(ready) : ready[i].conn = c})
      + Cardinality({t \in Threads : th[t] = "run" /\ job[t].conn = c})
      <= (IF conn[c] \in {"taken", "ready"} THEN 1 ELSE 0)

\* Whoever calls stop(), configure() or the destructor of a running server
\* gets control back: every IO thread leaves run(), busy or not (17-34).
StopReturns ==
  owner \in {"closing", "releasing", "stopping", "joining"} ~> owner \in {"idle", "destroyed"}

\* In the first life of the server a client that connects is served, unless
\* the server stops, the chain is lost or every thread has died.
ClientsAreServed ==
  \A c \in Conns :
    conn[c] = "backlog" ~>
      \/ conn[c] \in {"serving", "ready", "closed"}
      \/ ~running \/ starts > 1 \/ chainLost
      \/ \A t \in Threads : th[t] # "run"

\* `Server started with {} IO threads' (cpp:78): a server that is running and
\* has lost no thread to an exception has a thread in run().
StartedWithIoThreads ==
  running /\ owner = "idle" /\ ~chainLost /\ ~thrown =>
    \E t \in Threads : th[t] = "run"

=============================================================================
