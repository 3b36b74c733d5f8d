----------------------- MODULE MultiThreadHTTPServerProofs -----------------------
(***************************************************************************)
(* What MultiThreadHTTPServer promises, proved for any number of IO        *)
(* threads, connections and starts.                                        *)
(***************************************************************************)
EXTENDS MultiThreadHTTPServer, FiniteSetTheorems, SequenceTheorems, TLAPS

-----------------------------------------------------------------------------
(* Types                                                                   *)

\* What the queue holds after a push, a pop, and a number of pushes.
LEMMA QueueTypes ==
  /\ Stop \in Packets /\ Packet("aborted", NoConn) \in Packets /\ Packet("badfd", NoConn) \in Packets
  /\ \A c \in Conns : /\ Packet("accepted", c) \in Packets
                      /\ Packet("client", c) \in Packets
                      /\ Packet("io", c) \in Packets
  /\ Rearm \notin Packets /\ NoJob \notin Packets
BY DEF Packets, Packet, Stop, Rearm, NoJob

\* A packet about a connection says which.
LEMMA PacketConn ==
  ASSUME NEW p \in Packets \union {NoJob, Rearm}, p.kind \in {"accepted", "client", "io"}
  PROVE  p.conn \in Conns
BY DEF Packets, Packet, Rearm, NoJob

\* What closing the acceptor puts into the queue.
Aborted(n) == [i \in 1..n |-> Packet("aborted", NoConn)]

\* Aborted accepts, one behind the other, are packets.
LEMMA AbortedPackets ==
  ASSUME NEW n \in Nat
  PROVE  Aborted(n) \in Seq(Packets)
BY QueueTypes DEF Aborted

\* What the owner does keeps every variable in its type.
LEMMA TypeOwner == TypeOK /\ Owner => TypeOK'
<1> SUFFICES ASSUME TypeOK, Owner PROVE TypeOK'
  OBVIOUS
<1> USE ServerAssumption DEF TypeOK, clientVars
<1>1. CASE Start
  <2>1. job' \in [Threads -> Packets \union {NoJob, Rearm}]
    BY <1>1 DEF Start
  <2> QED
    BY <1>1, <2>1 DEF Start
<1>2. CASE StartFails
  BY <1>2 DEF StartFails, ownerVars
<1>3. ASSUME NEW who \in {"stop", "configure", "destroy"}, StopBegin(who) PROVE TypeOK'
  BY <1>3 DEF StopBegin
<1>4. CASE CloseAcceptor
  <2>1. Aborted(pending) \in Seq(Packets) /\ ready' = ready \o Aborted(pending)
    BY <1>4, AbortedPackets DEF CloseAcceptor, Aborted
  <2>2. ready' \in Seq(Packets)
    BY <2>1
  <2> QED
    BY <1>4, <2>2 DEF CloseAcceptor
<1>5. CASE ResetWorkGuard
  BY <1>5 DEF ResetWorkGuard
<1>6. CASE StopIoContext
  <2>1. ready' \in Seq(Packets)
    BY <1>6, QueueTypes DEF StopIoContext, StopContext
  <2> QED
    BY <1>6, <2>1 DEF StopIoContext, StopContext
<1>7. CASE JoinAll
  BY <1>7 DEF JoinAll
<1>8. CASE Destroy
  BY <1>8 DEF Destroy
<1> QED
  BY <1>1, <1>2, <1>3, <1>4, <1>5, <1>6, <1>7, <1>8 DEF Owner, Stopping

\* So does what the clients and the network stack do.
LEMMA TypeConn == \A c \in Conns : TypeOK /\ (Client(c) \/ Kernel(c)) => TypeOK'
<1> SUFFICES ASSUME NEW c \in Conns, TypeOK, Client(c) \/ Kernel(c) PROVE TypeOK'
  OBVIOUS
<1> USE DEF TypeOK, clientVars, ownerVars
<1>1. CASE Client(c)
  BY <1>1 DEF Client, ClientConnect, ClientLeave
<1>2. CASE AcceptCompletes(c)
  <2>1. ready' \in Seq(Packets)
    BY <1>2, QueueTypes DEF AcceptCompletes
  <2> QED
    BY <1>2, <2>1 DEF AcceptCompletes
<1>3. CASE IoCompletes(c)
  <2>1. ready' \in Seq(Packets)
    BY <1>3, QueueTypes DEF IoCompletes
  <2> QED
    BY <1>3, <2>1 DEF IoCompletes
<1> QED
  BY <1>1, <1>2, <1>3 DEF Kernel

\* So does what an IO thread does.
LEMMA TypeIo == \A t \in Threads : TypeOK /\ Io(t) => TypeOK'
<1> SUFFICES ASSUME NEW t \in Threads, TypeOK, Io(t) PROVE TypeOK'
  OBVIOUS
<1> USE DEF TypeOK, clientVars, ownerVars
<1>1. CASE Dispatch(t)
  <2>1. Head(ready) \in Packets /\ ready' \in Seq(Packets)
    BY <1>1 DEF Dispatch
  <2> QED
    BY <1>1, <2>1 DEF Dispatch
<1>2. CASE ThreadExits(t)
  <2>1. ready' \in Seq(Packets)
    BY <1>2, QueueTypes DEF ThreadExits
  <2> QED
    BY <1>2, <2>1 DEF ThreadExits
<1>3. CASE AcceptRefused(t)
  BY <1>3 DEF AcceptRefused, HandlerDone
<1>4. CASE AcceptConnection(t)
  <2>1. ready' \in Seq(Packets)
    BY <1>4, QueueTypes, PacketConn DEF AcceptConnection, Handling
  <2> QED
    BY <1>4, <2>1 DEF AcceptConnection
<1>5. CASE AcceptThrows(t)
  BY <1>5 DEF AcceptThrows, ThreadDies, HandlerDone
<1>6. CASE AcceptError(t)
  BY <1>6 DEF AcceptError
<1>7. CASE StartAccept(t)
  <2>1. ready' \in Seq(Packets)
    BY <1>7, QueueTypes DEF StartAccept
  <2> QED
    BY <1>7, <2>1 DEF StartAccept, HandlerDone
<1>8. CASE HandleClient(t)
  BY <1>8 DEF HandleClient, HandlerDone
<1>9. CASE HandleIo(t)
  <2>1. conn' \in [Conns -> {"none", "backlog", "taken", "serving", "ready", "closed"}]
    BY <1>9 DEF HandleIo
  <2> QED
    BY <1>9, <2>1 DEF HandleIo, HandlerDone
<1>10. CASE HandlerThrows(t)
  BY <1>10 DEF HandlerThrows, ThreadDies, HandlerDone
<1> QED
  BY <1>1, <1>2, <1>3, <1>4, <1>5, <1>6, <1>7, <1>8, <1>9, <1>10 DEF Io

\* Every step keeps every variable in its type.
LEMMA TypeStep == TypeOK /\ [Next]_vars => TypeOK'
<1> SUFFICES ASSUME TypeOK, [Next]_vars PROVE TypeOK'
  OBVIOUS
<1>1. CASE UNCHANGED vars
  BY <1>1 DEF vars, TypeOK
<1>2. CASE OutOfWork
  <2>1. ready' \in Seq(Packets)
    BY <1>2, QueueTypes DEF OutOfWork, StopContext, TypeOK
  <2> QED
    BY <1>2, <2>1 DEF OutOfWork, StopContext, TypeOK, ownerVars, clientVars
<1> QED
  BY <1>1, <1>2, TypeOwner, TypeConn, TypeIo DEF Next

\* The queue, the threads and the connections keep their types
\* (MultiThreadHTTPServer.hpp:86-103).
THEOREM TypeCorrect == Spec => []TypeOK
<1>1. Init => TypeOK
  <2> SUFFICES ASSUME Init PROVE TypeOK
    OBVIOUS
  <2>1. ready \in Seq(Packets)
    BY DEF Init
  <2>2. starts \in 0..MaxStarts /\ pending \in Nat
    BY ServerAssumption DEF Init
  <2>3. /\ job \in [Threads -> Packets \union {NoJob, Rearm}]
        /\ th \in [Threads -> {"absent", "run", "exited", "died"}]
        /\ conn \in [Conns -> {"none", "backlog", "taken", "serving", "ready", "closed"}]
    BY DEF Init
  <2> QED
    BY <2>1, <2>2, <2>3 DEF Init, TypeOK
<1> QED
  BY <1>1, TypeStep, PTL DEF Spec

-----------------------------------------------------------------------------
(* The life of the server                                                  *)

\* A server that is running is not being stopped.
RunningInv == running => owner = "idle"

\* The owner clears the flag before it stops anything.
LEMMA RunningStep == RunningInv /\ [Next]_vars => RunningInv'
<1> SUFFICES ASSUME RunningInv, [Next]_vars PROVE RunningInv'
  OBVIOUS
<1> USE DEF RunningInv, ownerVars
<1>1. CASE UNCHANGED vars \/ OutOfWork
  BY <1>1 DEF vars, OutOfWork
<1>2. CASE Owner
  BY <1>2 DEF Owner, Stopping, Start, StartFails, StopBegin, CloseAcceptor,
              ResetWorkGuard, StopIoContext, JoinAll, Destroy
<1>3. ASSUME NEW c \in Conns, Client(c) \/ Kernel(c) PROVE RunningInv'
  BY <1>3 DEF Client, Kernel, ClientConnect, ClientLeave, AcceptCompletes, IoCompletes
<1>4. ASSUME NEW t \in Threads, Io(t) PROVE RunningInv'
  BY <1>4 DEF Io, Dispatch, ThreadExits, AcceptRefused, AcceptConnection, AcceptThrows,
              AcceptError, StartAccept, HandleClient, HandleIo, HandlerThrows
<1> QED
  BY <1>1, <1>2, <1>3, <1>4 DEF Next

\* RunningInv holds throughout.
LEMMA RunningInvCorrect == Spec => []RunningInv
<1>1. Init => RunningInv
  BY DEF Init, RunningInv
<1> QED
  BY <1>1, RunningStep, PTL DEF Spec

\* Only start() makes threads, and stop() gives control back without them.
LEMMA NoThreadStep ==
  TypeOK /\ NoThreadOutlivesStop /\ [Next]_vars => NoThreadOutlivesStop'
<1> SUFFICES ASSUME TypeOK, NoThreadOutlivesStop, [Next]_vars PROVE NoThreadOutlivesStop'
  OBVIOUS
<1> USE DEF TypeOK, NoThreadOutlivesStop, ownerVars
<1>1. CASE UNCHANGED vars \/ OutOfWork
  BY <1>1 DEF vars, OutOfWork
<1>2. CASE Owner
  BY <1>2 DEF Owner, Stopping, Start, StartFails, StopBegin, CloseAcceptor,
              ResetWorkGuard, StopIoContext, JoinAll, Destroy
<1>3. ASSUME NEW c \in Conns, Client(c) \/ Kernel(c) PROVE NoThreadOutlivesStop'
  BY <1>3 DEF Client, Kernel, ClientConnect, ClientLeave, AcceptCompletes, IoCompletes
<1>4. ASSUME NEW t \in Threads, Io(t) PROVE NoThreadOutlivesStop'
  BY <1>4 DEF Io, Handling, ThreadDies, Dispatch, ThreadExits, AcceptRefused,
              AcceptConnection, AcceptThrows, AcceptError, StartAccept, HandleClient,
              HandleIo, HandlerThrows
<1> QED
  BY <1>1, <1>2, <1>3, <1>4 DEF Next

\* Whatever the IO threads were doing, none of them is left when stop(),
\* configure() or the destructor has returned (MultiThreadHTTPServer.cpp:17-34,
\* MultiThreadHTTPServer.hpp:64-67).
THEOREM NoThreadOutlivesStopCorrect == Spec => []NoThreadOutlivesStop
<1>1. Init => NoThreadOutlivesStop
  BY DEF Init, NoThreadOutlivesStop
<1> QED
  BY <1>1, NoThreadStep, TypeCorrect, PTL DEF Spec

-----------------------------------------------------------------------------
(* Counting packets                                                        *)

\* Where in a queue the packets of a kind are, and which threads have one.
Places(s, K) == {i \in 1..Len(s) : s[i] \in K}
Hands(K) == {t \in Threads : th[t] = "run" /\ job[t] \in K}

One(p, K) == IF p \in K THEN 1 ELSE 0

\* How many there are.
Held(K) == Cardinality(Places(ready, K)) + Cardinality(Hands(K))

\* A queue has finitely many places, and there are finitely many threads.
LEMMA CountsFinite ==
  ASSUME NEW K
  PROVE  /\ \A s \in Seq(Packets) : /\ IsFiniteSet(Places(s, K))
                                    /\ Cardinality(Places(s, K)) \in Nat
         /\ IsFiniteSet(Hands(K)) /\ Cardinality(Hands(K)) \in Nat
<1>1. ASSUME NEW s \in Seq(Packets)
      PROVE  IsFiniteSet(Places(s, K)) /\ Cardinality(Places(s, K)) \in Nat
  <2>1. IsFiniteSet(1..Len(s))
    BY FS_Interval
  <2>2. Places(s, K) \in SUBSET (1..Len(s))
    BY DEF Places
  <2> QED
    BY <2>1, <2>2, FS_Subset, FS_CardinalityType
<1>2. Hands(K) \in SUBSET Threads
  BY DEF Hands
<1> QED
  BY <1>1, <1>2, ServerAssumption, FS_Subset, FS_CardinalityType

\* A push adds the packet, if it is of the kind.
LEMMA CountPush ==
  ASSUME NEW K, NEW s \in Seq(Packets), NEW p \in Packets
  PROVE  Cardinality(Places(Append(s, p), K)) = Cardinality(Places(s, K)) + One(p, K)
<1> DEFINE s2 == Append(s, p)
<1>0. IsFiniteSet(Places(s, K)) /\ Cardinality(Places(s, K)) \in Nat
  BY CountsFinite
<1>1. Len(s2) = Len(s) + 1 /\ Len(s) \in Nat /\ s2[Len(s) + 1] = p
  OBVIOUS
<1>2. \A i \in 1..Len(s) : s2[i] = s[i]
  OBVIOUS
<1> HIDE DEF s2
<1>3. CASE p \in K
  <2>1. Places(s2, K) = Places(s, K) \union {Len(s) + 1}
    BY <1>1, <1>2, <1>3 DEF Places
  <2>2. Len(s) + 1 \notin Places(s, K)
    BY <1>1 DEF Places
  <2>3. Cardinality(Places(s, K) \union {Len(s) + 1}) = Cardinality(Places(s, K)) + 1
    BY <1>0, <2>2, FS_AddElement
  <2> QED
    BY <1>3, <2>1, <2>3 DEF One, s2
<1>4. CASE p \notin K
  <2>1. Places(s2, K) = Places(s, K)
    BY <1>1, <1>2, <1>4 DEF Places
  <2> QED
    BY <1>0, <1>4, <2>1 DEF One, s2
<1> QED
  BY <1>3, <1>4

\* A pop takes the first packet and moves the others.
LEMMA CountPop ==
  ASSUME NEW K, NEW s \in Seq(Packets), s # <<>>
  PROVE  Cardinality(Places(s, K)) = Cardinality(Places(Tail(s), K)) + One(Head(s), K)
<1> DEFINE r == Tail(s)
<1>1. /\ Len(s) \in Nat \ {0} /\ Len(r) = Len(s) - 1 /\ Head(s) = s[1]
      /\ r \in Seq(Packets)
  OBVIOUS
<1>2. \A i \in 1..(Len(s) - 1) : r[i] = s[i + 1]
  OBVIOUS
<1> HIDE DEF r
<1> DEFINE S == Places(s, K) \ {1}
           R == Places(r, K)
           f == [i \in S |-> i - 1]
<1>3. Places(s, K) \in SUBSET Nat /\ R \in SUBSET Nat
  BY DEF Places
<1>4. f \in Bijection(S, R)
  <2>1. \A i \in S : i - 1 \in R
    BY <1>1, <1>2 DEF Places
  <2>2. \A j \in R : j + 1 \in S /\ (j + 1) - 1 = j
    BY <1>1, <1>2 DEF Places
  <2>3. f \in Injection(S, R)
    BY <2>1, <1>3 DEF Injection, IsInjective
  <2>4. f \in Surjection(S, R)
    BY <2>1, <2>2 DEF Surjection
  <2> QED
    BY <2>3, <2>4 DEF Bijection
<1>5. Cardinality(S) = Cardinality(R)
  <2>1. IsFiniteSet(S)
    BY CountsFinite, FS_RemoveElement
  <2>2. ExistsBijection(S, R)
    BY <1>4 DEF ExistsBijection
  <2> HIDE DEF S, R, f
  <2> QED
    BY <2>1, <2>2, FS_Bijection
<1>6. Cardinality(S) = IF 1 \in Places(s, K) THEN Cardinality(Places(s, K)) - 1
                                             ELSE Cardinality(Places(s, K))
  BY CountsFinite, FS_RemoveElement
<1>7. 1 \in Places(s, K) <=> Head(s) \in K
  BY <1>1 DEF Places
<1>8. Cardinality(Places(s, K)) \in Nat
  BY CountsFinite
<1> QED
  BY <1>5, <1>6, <1>7, <1>8 DEF One, r

\* Aborted accepts, one behind the other, are as many packets.
LEMMA CountAborted ==
  ASSUME NEW K, NEW s \in Seq(Packets), NEW n \in Nat
  PROVE  Cardinality(Places(s \o Aborted(n), K)) =
           Cardinality(Places(s, K)) + IF Packet("aborted", NoConn) \in K THEN n ELSE 0
<1> DEFINE a == Packet("aborted", NoConn)
           s2 == s \o Aborted(n)
<1>0. IsFiniteSet(Places(s, K)) /\ Cardinality(Places(s, K)) \in Nat
  BY CountsFinite
<1>1. /\ Aborted(n) \in Seq(Packets) /\ Len(Aborted(n)) = n
      /\ \A i \in 1..n : Aborted(n)[i] = a
  BY AbortedPackets DEF Aborted
<1>2. /\ s2 \in Seq(Packets) /\ Len(s2) = Len(s) + Len(Aborted(n))
      /\ \A i \in 1..(Len(s) + Len(Aborted(n))) :
           s2[i] = IF i <= Len(s) THEN s[i] ELSE Aborted(n)[i - Len(s)]
  <2>1. Aborted(n) \in Seq(Packets)
    BY <1>1
  <2> QED
    BY <2>1, ConcatProperties, Zenon
<1> HIDE DEF a, s2
<1>3. Len(s) \in Nat /\ \A i \in 1..Len(s) : s2[i] = s[i]
  BY <1>1, <1>2
<1>4. \A i \in (Len(s) + 1)..(Len(s) + n) : s2[i] = a
  BY <1>1, <1>2
<1>5. CASE a \in K
  <2> DEFINE N == (Len(s) + 1)..(Len(s) + n)
  <2>1. Places(s2, K) = Places(s, K) \union N
    BY <1>1, <1>2, <1>3, <1>4, <1>5 DEF Places
  <2>2. Places(s, K) \intersect N = {}
    BY <1>3 DEF Places
  <2>3. IsFiniteSet(N) /\ Cardinality(N) = n
    <3>1. Len(s) + 1 \in Int /\ Len(s) + n \in Int
      BY <1>3
    <3> DEFINE lo == Len(s) + 1
               hi == Len(s) + n
    <3>2. lo \in Int /\ hi \in Int
      BY <3>1
    <3> HIDE DEF lo, hi
    <3>3. IsFiniteSet(lo..hi) /\ Cardinality(lo..hi) = IF lo > hi THEN 0 ELSE hi - lo + 1
      BY <3>2, FS_Interval
    <3> QED
      BY <1>3, <3>3 DEF lo, hi
  <2> HIDE DEF N
  <2>4. Cardinality(Places(s, K) \union N)
          = Cardinality(Places(s, K)) + Cardinality(N) - Cardinality(Places(s, K) \intersect N)
    BY <1>0, <2>3, FS_Union
  <2>5. Cardinality(Places(s, K) \intersect N) = 0
    BY <2>2, FS_EmptySet
  <2>6. Cardinality(Places(s, K) \union N) = Cardinality(Places(s, K)) + n
    BY <1>0, <2>3, <2>4, <2>5
  <2> QED
    BY <1>5, <2>1, <2>6 DEF s2, a
<1>6. CASE a \notin K
  <2>1. Places(s2, K) = Places(s, K)
    BY <1>1, <1>2, <1>3, <1>4, <1>6 DEF Places
  <2> QED
    BY <1>0, <1>6, <2>1 DEF s2, a
<1> QED
  BY <1>5, <1>6

\* A step of one thread changes what that thread has in hand.
LEMMA CountHands ==
  ASSUME TypeOK, NEW K, NEW t \in Threads,
         \A u \in Threads \ {t} : th'[u] = th[u] /\ job'[u] = job[u]
  PROVE  /\ Cardinality(Hands(K)) \in Nat /\ Cardinality(Hands(K)') \in Nat
         /\ Cardinality(Hands(K)') + (IF t \in Hands(K) THEN 1 ELSE 0)
              = Cardinality(Hands(K)) + (IF t \in Hands(K)' THEN 1 ELSE 0)
<1>1. Hands(K)' \ {t} = Hands(K) \ {t}
  BY DEF Hands
<1>2. /\ IsFiniteSet(Hands(K)) /\ Cardinality(Hands(K)) \in Nat
      /\ IsFiniteSet(Hands(K)') /\ Cardinality(Hands(K)') \in Nat
  <2>1. Hands(K) \in SUBSET Threads /\ Hands(K)' \in SUBSET Threads
    BY DEF Hands
  <2> QED
    BY <2>1, ServerAssumption, FS_Subset, FS_CardinalityType
<1>3. Cardinality(Hands(K) \ {t}) = IF t \in Hands(K) THEN Cardinality(Hands(K)) - 1
                                                      ELSE Cardinality(Hands(K))
  BY <1>2, FS_RemoveElement
<1>4. Cardinality(Hands(K)' \ {t}) = IF t \in Hands(K)' THEN Cardinality(Hands(K)') - 1
                                                        ELSE Cardinality(Hands(K)')
  BY <1>2, FS_RemoveElement
<1> QED
  BY <1>1, <1>2, <1>3, <1>4

\* Both counts are numbers.
LEMMA HeldTypes ==
  ASSUME TypeOK, NEW K
  PROVE  /\ Cardinality(Places(ready, K)) \in Nat /\ Cardinality(Hands(K)) \in Nat
         /\ Held(K) \in Nat
BY CountsFinite DEF TypeOK, Held

\* A thread that ends its packet, alive or not, has it no more.
LEMMA HeldDone ==
  ASSUME TypeOK, TypeOK', NEW K, NoJob \notin K, NEW t \in Threads,
         th[t] = "run", HandlerDone(t),
         UNCHANGED th \/ th' = [th EXCEPT ![t] = "died"],
         ready' = ready
  PROVE  Held(K)' = Held(K) - One(job[t], K)
<1>1. /\ Cardinality(Hands(K)) \in Nat /\ Cardinality(Hands(K)') \in Nat
      /\ Cardinality(Hands(K)') + (IF t \in Hands(K) THEN 1 ELSE 0)
           = Cardinality(Hands(K)) + (IF t \in Hands(K)' THEN 1 ELSE 0)
  BY CountHands DEF TypeOK, HandlerDone
<1>2. t \notin Hands(K)' /\ (t \in Hands(K) <=> job[t] \in K)
  BY DEF Hands, HandlerDone, TypeOK
<1>3. Cardinality(Places(ready, K)) \in Nat /\ Places(ready, K)' = Places(ready, K)
  BY HeldTypes DEF Places
<1> QED
  BY <1>1, <1>2, <1>3 DEF Held, One

\* The owner's steps: only closing the acceptor adds anything, the accepts it
\* aborts; a start finds no thread and gives none a packet.
LEMMA HeldOwner ==
  ASSUME TypeOK, TypeOK', NoThreadOutlivesStop, NEW K, NoJob \notin K, Stop \notin K, Owner
  PROVE  Held(K)' = Held(K) + IF CloseAcceptor /\ Packet("aborted", NoConn) \in K
                              THEN pending ELSE 0
<1>0. Held(K) \in Nat /\ Cardinality(Places(ready, K)) \in Nat /\ Cardinality(Hands(K)) \in Nat
  BY HeldTypes
<1>1. CASE Start
  <2>1. Hands(K) = {}
    BY <1>1 DEF Start, NoThreadOutlivesStop, Hands
  <2>2. Hands(K)' = {}
    BY <1>1 DEF Start, Hands
  <2>3. Places(ready, K)' = Places(ready, K) /\ ~CloseAcceptor
    BY <1>1 DEF Start, CloseAcceptor, Places
  <2> QED
    BY <1>0, <2>1, <2>2, <2>3 DEF Held
<1>2. CASE CloseAcceptor
  <2>1. Hands(K)' = Hands(K)
    BY <1>2 DEF CloseAcceptor, Hands
  <2>2. pending \in Nat /\ ready \in Seq(Packets)
    BY DEF TypeOK
  <2>3. Places(ready, K)' = Places(ready \o Aborted(pending), K)
    BY <1>2 DEF CloseAcceptor, Places, Aborted
  <2> QED
    BY <1>0, <1>2, <2>1, <2>2, <2>3, CountAborted DEF Held
<1>3. CASE StopIoContext
  <2>1. Hands(K)' = Hands(K) /\ ~CloseAcceptor
    BY <1>3 DEF StopIoContext, CloseAcceptor, Hands
  <2>2. Cardinality(Places(Append(ready, Stop), K)) = Cardinality(Places(ready, K)) + 0
    BY CountPush, QueueTypes DEF One, TypeOK
  <2>3. ready' = ready \/ ready' = Append(ready, Stop)
    BY <1>3 DEF StopIoContext, StopContext
  <2>4. Places(ready, K)' = Places(ready, K) \/ Places(ready, K)' = Places(Append(ready, Stop), K)
    BY <2>3 DEF Places
  <2> QED
    BY <1>0, <2>1, <2>2, <2>4 DEF Held
<1>4. CASE JoinAll
  <2>1. Hands(K) = {} /\ Hands(K)' = {}
    BY <1>4 DEF JoinAll, Hands
  <2>2. Places(ready, K)' = Places(ready, K) /\ ~CloseAcceptor
    BY <1>4 DEF JoinAll, CloseAcceptor, Places
  <2> QED
    BY <1>0, <2>1, <2>2 DEF Held
<1>5. CASE \/ StartFails \/ ResetWorkGuard \/ Destroy
           \/ \E who \in {"stop", "configure", "destroy"} : StopBegin(who)
  <2>1. ready' = ready /\ th' = th /\ job' = job /\ ~CloseAcceptor
    BY <1>5 DEF StartFails, ResetWorkGuard, Destroy, StopBegin, CloseAcceptor, ownerVars
  <2>2. Hands(K)' = Hands(K) /\ Places(ready, K)' = Places(ready, K)
    BY <2>1 DEF Hands, Places
  <2> QED
    BY <1>0, <2>1, <2>2 DEF Held
<1> QED
  BY <1>1, <1>2, <1>3, <1>4, <1>5 DEF Owner, Stopping

\* The steps outside the threads add one packet or none.
LEMMA HeldPushed ==
  ASSUME TypeOK, NEW K, NEW p \in Packets, ready' = Append(ready, p), UNCHANGED <<th, job>>
  PROVE  Held(K)' = Held(K) + One(p, K)
<1>1. Hands(K)' = Hands(K)
  BY DEF Hands
<1>2. Cardinality(Places(Append(ready, p), K)) = Cardinality(Places(ready, K)) + One(p, K)
  BY CountPush DEF TypeOK
<1>3. Places(ready, K)' = Places(Append(ready, p), K)
  BY DEF Places
<1>4. Cardinality(Places(ready, K)) \in Nat /\ Cardinality(Hands(K)) \in Nat
  BY HeldTypes
<1> QED
  BY <1>1, <1>2, <1>3, <1>4 DEF Held, One

\* A packet that is dispatched moves from the queue to the thread, and Stop
\* goes round.
LEMMA HeldDispatch ==
  ASSUME TypeOK, TypeOK', NEW K, NoJob \notin K, Stop \notin K, NEW t \in Threads,
         Dispatch(t) \/ ThreadExits(t)
  PROVE  Held(K)' = Held(K)
<1> DEFINE h == Head(ready)
           r == Tail(ready)
<1>1. h \in Packets /\ r \in Seq(Packets) /\ ready # <<>> /\ ready \in Seq(Packets)
  BY DEF TypeOK, Dispatch, ThreadExits
<1>2. Cardinality(Places(ready, K)) = Cardinality(Places(r, K)) + One(h, K)
  BY <1>1, CountPop
<1>3. Cardinality(Places(r, K)) \in Nat
  BY <1>1, CountsFinite
<1>4. /\ Cardinality(Hands(K)) \in Nat /\ Cardinality(Hands(K)') \in Nat
      /\ Cardinality(Hands(K)') + (IF t \in Hands(K) THEN 1 ELSE 0)
           = Cardinality(Hands(K)) + (IF t \in Hands(K)' THEN 1 ELSE 0)
  BY CountHands DEF TypeOK, Dispatch, ThreadExits
<1>5. CASE Dispatch(t)
  <2>1. Places(ready, K)' = Places(r, K)
    BY <1>5 DEF Dispatch, Places
  <2>2. t \notin Hands(K) /\ (t \in Hands(K)' <=> h \in K)
    BY <1>5 DEF Dispatch, Hands, TypeOK
  <2> QED
    BY <1>2, <1>3, <1>4, <2>1, <2>2 DEF Held, One
<1>6. CASE ThreadExits(t)
  <2>1. Cardinality(Places(Append(r, Stop), K)) = Cardinality(Places(r, K)) + 0
    BY <1>1, CountPush, QueueTypes DEF One
  <2>2. ready' = Append(r, Stop) /\ h = Stop
    BY <1>6 DEF ThreadExits
  <2>3. Places(ready, K)' = Places(Append(r, Stop), K)
    BY <2>2 DEF Places
  <2>4. t \notin Hands(K) /\ t \notin Hands(K)'
    BY <1>6 DEF ThreadExits, Hands, TypeOK
  <2> QED
    BY <1>2, <1>3, <1>4, <2>1, <2>2, <2>3, <2>4 DEF Held, One
<1> QED
  BY <1>5, <1>6

\* An IO thread goes on with another packet in hand, and n packets are pushed.
Goes(t, j) == th[t] = "run" /\ th' = th /\ job' = [job EXCEPT ![t] = j]
Pushes(n, p) == ready' = IF n = 1 THEN Append(ready, p) ELSE ready

\* An IO thread that goes on, with another packet in hand and one pushed or none.
LEMMA HeldMoves ==
  ASSUME TypeOK, NEW K, NoJob \notin K, NEW t \in Threads, NEW j, Goes(t, j),
         NEW n \in 0..1, NEW p \in Packets, Pushes(n, p)
  PROVE  Held(K)' = Held(K) - One(job[t], K) + One(j, K) + n * One(p, K)
<1>1. /\ Cardinality(Hands(K)) \in Nat /\ Cardinality(Hands(K)') \in Nat
      /\ Cardinality(Hands(K)') + (IF t \in Hands(K) THEN 1 ELSE 0)
           = Cardinality(Hands(K)) + (IF t \in Hands(K)' THEN 1 ELSE 0)
  BY CountHands DEF TypeOK, Goes
<1>2. (t \in Hands(K) <=> job[t] \in K) /\ (t \in Hands(K)' <=> j \in K)
  BY DEF Hands, TypeOK, Goes
<1>3. Cardinality(Places(ready, K)) \in Nat
  BY HeldTypes
<1>4. CASE n = 0
  <2>1. Places(ready, K)' = Places(ready, K)
    BY <1>4 DEF Places, Pushes
  <2> QED
    BY <1>1, <1>2, <1>3, <1>4, <2>1 DEF Held, One
<1>5. CASE n = 1
  <2>1. Cardinality(Places(Append(ready, p), K)) = Cardinality(Places(ready, K)) + One(p, K)
    BY CountPush DEF TypeOK
  <2>2. Places(ready, K)' = Places(Append(ready, p), K)
    BY <1>5 DEF Places, Pushes
  <2> QED
    BY <1>1, <1>2, <1>3, <1>5, <2>1, <2>2 DEF Held, One
<1> QED
  BY <1>4, <1>5

-----------------------------------------------------------------------------
(* One task per connection                                                 *)

\* The packets that are about a connection, and how many of them it may have.
Of(c) == {p \in Packets : p.conn = c}
Tasks(c) == IF conn[c] \in {"taken", "ready"} THEN 1 ELSE 0

\* The property counts what the lemmas count.
LEMMA TasksHeld ==
  TypeOK => (OneTaskPerConnection <=> \A c \in Conns : Held(Of(c)) <= Tasks(c))
<1> SUFFICES ASSUME TypeOK, NEW c \in Conns
             PROVE  /\ Places(ready, Of(c)) = {i \in 1..Len(ready) : ready[i].conn = c}
                    /\ Hands(Of(c)) = {t \in Threads : th[t] = "run" /\ job[t].conn = c}
  BY DEF OneTaskPerConnection, Held, Tasks
<1>1. \A i \in 1..Len(ready) : ready[i] \in Packets
  BY DEF TypeOK
<1>2. \A t \in Threads : job[t] \in Of(c) <=> job[t].conn = c
  BY ServerAssumption DEF TypeOK, Of, NoJob, Rearm, Packet
<1> QED
  BY <1>1, <1>2 DEF Places, Hands, Of

\* What each packet is about.
LEMMA OfConn ==
  ASSUME NEW c \in Conns
  PROVE  /\ NoJob \notin Of(c) /\ Rearm \notin Of(c) /\ Stop \notin Of(c)
         /\ Packet("aborted", NoConn) \notin Of(c) /\ Packet("badfd", NoConn) \notin Of(c)
         /\ \A d \in Conns, k \in {"accepted", "client", "io"} : Packet(k, d) \in Of(c) <=> d = c
         /\ \A p \in Packets \union {NoJob, Rearm} : p \in Of(c) <=> p.conn = c
BY ServerAssumption DEF Of, Packets, Packet, NoJob, Rearm, Stop

\* An IO thread takes a task over or ends it.
LEMMA TaskIo ==
  ASSUME TypeOK, TypeOK', NEW c \in Conns, Held(Of(c)) <= Tasks(c), NEW t \in Threads, Io(t)
  PROVE  Held(Of(c))' <= Tasks(c)'
<1> DEFINE K == Of(c)
<1>0. /\ Held(K) \in Nat /\ Held(K) <= Tasks(c)
      /\ NoJob \notin K /\ Rearm \notin K /\ Stop \notin K
      /\ Packet("aborted", NoConn) \notin K /\ Packet("badfd", NoConn) \notin K
      /\ \A d \in Conns, k \in {"accepted", "client", "io"} : Packet(k, d) \in K <=> d = c
      /\ job[t] \in K <=> job[t].conn = c
  BY HeldTypes, OfConn DEF TypeOK
<1> HIDE DEF K
<1> USE DEF Tasks
<1>1. CASE Dispatch(t) \/ ThreadExits(t)
  <2>1. Held(K)' = Held(K)
    BY <1>0, <1>1, HeldDispatch
  <2>2. conn' = conn
    BY <1>1 DEF Dispatch, ThreadExits
  <2> QED
    BY <1>0, <2>1, <2>2 DEF K
<1>2. CASE AcceptConnection(t)
  <2>1. job[t].conn \in Conns /\ job[t].conn = c <=> Packet("client", job[t].conn) \in K
    BY <1>0, <1>2, PacketConn DEF AcceptConnection, Handling, TypeOK
  <2> DEFINE p == Packet("client", job[t].conn)
  <2>2. p \in Packets /\ ready' = Append(ready, p) /\ job' = [job EXCEPT ![t] = Rearm]
    BY <1>2, QueueTypes, PacketConn DEF AcceptConnection, Handling, TypeOK
  <2>3. th[t] = "run" /\ th' = th /\ conn' = conn
    BY <1>2 DEF AcceptConnection, Handling
  <2> HIDE DEF p
  <2>4. p \in Packets /\ 1 \in 0..1 /\ Goes(t, Rearm) /\ Pushes(1, p)
    BY <2>2, <2>3 DEF Goes, Pushes
  <2>5. Held(K)' = Held(K) - One(job[t], K) + One(Rearm, K) + 1 * One(p, K)
    BY <1>0, <2>4, HeldMoves
  <2> QED
    BY <1>0, <2>1, <2>3, <2>5 DEF K, One, p
<1>3. CASE AcceptError(t) \/ StartAccept(t)
  <2> DEFINE j == job'[t]
             n == IF ready' = ready THEN 0 ELSE 1
             p == Packet("badfd", NoConn)
  <2>1. /\ th[t] = "run" /\ th' = th /\ conn' = conn
        /\ j \in {NoJob, Rearm} /\ job' = [job EXCEPT ![t] = j]
        /\ ready' = IF n = 1 THEN Append(ready, p) ELSE ready
    BY <1>3 DEF AcceptError, StartAccept, Handling, HandlerDone, TypeOK
  <2>2. p \in Packets /\ n \in 0..1
    BY QueueTypes
  <2> HIDE DEF j, n, p
  <2>3. Goes(t, j) /\ Pushes(n, p)
    BY <2>1 DEF Goes, Pushes
  <2>4. Held(K)' = Held(K) - One(job[t], K) + One(j, K) + n * One(p, K)
    BY <1>0, <2>2, <2>3, HeldMoves
  <2> QED
    BY <1>0, <2>1, <2>2, <2>4 DEF K, One, p
<1>4. CASE AcceptRefused(t) \/ AcceptThrows(t) \/ HandleClient(t) \/ HandleIo(t) \/ HandlerThrows(t)
  <2>1. /\ th[t] = "run" /\ HandlerDone(t) /\ ready' = ready
        /\ UNCHANGED th \/ th' = [th EXCEPT ![t] = "died"]
    BY <1>4 DEF AcceptRefused, AcceptThrows, HandleClient, HandleIo, HandlerThrows,
                Handling, ThreadDies
  <2>2. Held(K)' = Held(K) - One(job[t], K)
    BY <1>0, <2>1, HeldDone
  <2>3. \/ job[t].conn # c /\ conn'[c] = conn[c]
        \/ job[t].conn = c
    BY <1>4 DEF AcceptRefused, AcceptThrows, HandleClient, HandleIo, HandlerThrows, TypeOK
  <2> QED
    BY <1>0, <2>2, <2>3 DEF K, One
<1> QED
  BY <1>1, <1>2, <1>3, <1>4 DEF Io

\* The network stack makes one task, for a connection that has none.
LEMMA TaskKernel ==
  ASSUME TypeOK, TypeOK', NEW c \in Conns, Held(Of(c)) <= Tasks(c),
         NEW d \in Conns, Client(d) \/ Kernel(d)
  PROVE  Held(Of(c))' <= Tasks(c)'
<1> DEFINE K == Of(c)
<1>0. Held(K) \in Nat /\ Held(K) <= Tasks(c)
  BY HeldTypes
<1>1. \A k \in {"accepted", "client", "io"} : Packet(k, d) \in K <=> d = c
  BY OfConn
<1> HIDE DEF K
<1> USE DEF Tasks
<1>2. CASE Client(d)
  <2>1. ready' = ready /\ th' = th /\ job' = job
    BY <1>2 DEF Client, ClientConnect, ClientLeave
  <2>2. Held(K)' = Held(K)
    BY <2>1 DEF Held, Places, Hands
  <2>3. conn'[c] = conn[c] \/ (conn[c] = "none" /\ conn'[c] = "backlog")
    BY <1>2 DEF Client, ClientConnect, ClientLeave, TypeOK
  <2> QED
    BY <1>0, <2>2, <2>3 DEF K
<1>3. CASE Kernel(d)
  <2>1. PICK k \in {"accepted", "io"} :
          /\ ready' = Append(ready, Packet(k, d)) /\ UNCHANGED <<th, job>>
          /\ conn[d] \in {"backlog", "serving"} /\ conn'[d] \in {"taken", "ready"}
          /\ d # c => conn'[c] = conn[c]
    BY <1>3 DEF Kernel, AcceptCompletes, IoCompletes, TypeOK
  <2>2. Packet(k, d) \in Packets
    BY QueueTypes
  <2>3. Held(K)' = Held(K) + One(Packet(k, d), K)
    BY <2>1, <2>2, HeldPushed
  <2> QED
    BY <1>0, <1>1, <2>1, <2>3 DEF K, One
<1> QED
  BY <1>2, <1>3

\* No step gives a connection a second task.
LEMMA TaskStep ==
  TypeOK /\ NoThreadOutlivesStop /\ OneTaskPerConnection /\ [Next]_vars => OneTaskPerConnection'
<1>1. TypeOK' => (OneTaskPerConnection <=> \A c \in Conns : Held(Of(c)) <= Tasks(c))'
  BY TasksHeld, PTL
<1> SUFFICES ASSUME TypeOK, NoThreadOutlivesStop, OneTaskPerConnection, [Next]_vars
             PROVE  OneTaskPerConnection'
  OBVIOUS
<1>2. TypeOK'
  BY TypeStep
<1> SUFFICES ASSUME NEW c \in Conns PROVE Held(Of(c))' <= Tasks(c)'
  BY <1>1, <1>2
<1>3. Held(Of(c)) <= Tasks(c)
  BY TasksHeld
<1>4. Held(Of(c)) \in Nat
  BY HeldTypes
<1>5. CASE UNCHANGED vars
  <2>1. Held(Of(c))' = Held(Of(c)) /\ Tasks(c)' = Tasks(c)
    BY <1>5 DEF vars, Held, Places, Hands, Tasks
  <2> QED
    BY <1>3, <2>1
<1>6. CASE OutOfWork
  <2>1. /\ ready' = Append(ready, Stop) /\ UNCHANGED <<th, job>> /\ conn' = conn
    BY <1>6 DEF OutOfWork, StopContext
  <2>2. Held(Of(c))' = Held(Of(c)) + One(Stop, Of(c))
    BY <2>1, HeldPushed, QueueTypes
  <2> QED
    BY <1>3, <1>4, <2>1, <2>2, OfConn DEF One, Tasks
<1>7. CASE Owner
  <2>1. Held(Of(c))' = Held(Of(c)) + 0
    BY <1>2, <1>7, HeldOwner, OfConn
  <2>2. Tasks(c)' = Tasks(c)
    BY <1>7 DEF Owner, Stopping, Start, StartFails, StopBegin, CloseAcceptor, ResetWorkGuard,
                StopIoContext, JoinAll, Destroy, Tasks, TypeOK
  <2> QED
    BY <1>3, <1>4, <2>1, <2>2
<1> QED
  BY <1>2, <1>3, <1>5, <1>6, <1>7, TaskIo, TaskKernel DEF Next

\* However the pool's threads interleave, and however often the server is
\* stopped in the middle of it, a connection is never looked after by two
\* handlers, nor by one while an operation of it is outstanding
\* (MultiThreadHTTPServer.cpp:119-157).
THEOREM OneTaskPerConnectionCorrect == Spec => []OneTaskPerConnection
<1>1. Init => OneTaskPerConnection
  <2> SUFFICES ASSUME Init PROVE OneTaskPerConnection
    OBVIOUS
  <2>1. \A c \in Conns : /\ {i \in 1..Len(ready) : ready[i].conn = c} = {}
                         /\ {t \in Threads : th[t] = "run" /\ job[t].conn = c} = {}
    BY DEF Init
  <2>2. Cardinality({}) = 0
    BY FS_EmptySet
  <2>3. \A c \in Conns : 0 + 0 <= (IF conn[c] \in {"taken", "ready"} THEN 1 ELSE 0)
    OBVIOUS
  <2> QED
    BY <2>1, <2>2, <2>3, Zenon DEF OneTaskPerConnection
<1> QED
  BY <1>1, TaskStep, TypeCorrect, NoThreadOutlivesStopCorrect, PTL DEF Spec

-----------------------------------------------------------------------------
(* One accept chain                                                        *)

\* The packets that are a link of the chain, and those that will be followed by
\* another one while the server runs.
Chain == {p \in Packets \union {Rearm} : p.kind \in {"accepted", "aborted", "badfd", "rearm"}}
Live == {p \in Packets \union {Rearm} : p.kind \in {"accepted", "badfd", "rearm"}}
Links(K) == pending + Held(K)

\* The chain has no more links than the server has had starts, and while it runs
\* and has not been lost one link is there that is not the end of it.
ChainInv ==
  /\ Links(Chain) <= starts
  /\ running /\ ~chainLost => Links(Live) >= 1

\* What each packet is to the chain.
LEMMA ChainPackets ==
  ASSUME NEW K \in {Chain, Live}
  PROVE  /\ NoJob \notin K /\ Rearm \in K /\ Stop \notin K
         /\ Packet("badfd", NoConn) \in K
         /\ Packet("aborted", NoConn) \in K <=> K = Chain
         /\ Packet("aborted", NoConn) \notin Live
         /\ \A c \in Conns : /\ Packet("accepted", c) \in K
                             /\ Packet("client", c) \notin K /\ Packet("io", c) \notin K
         /\ \A p \in Packets \union {Rearm} :
              /\ p.kind \in {"accepted", "badfd", "rearm"} => p \in K
              /\ p.kind \in {"client", "io", "stop"} => p \notin K
              /\ p.kind = "aborted" => p \notin Live
BY DEF Chain, Live, Packets, Packet, NoJob, Rearm, Stop

\* The property counts the links, and the ones that will be followed are among
\* them.
LEMMA LinksCounted ==
  ASSUME TypeOK
  PROVE  AcceptLinks = Links(Chain) /\ Links(Live) <= Links(Chain)
<1>1. \A i \in 1..Len(ready) : ready[i] \in Packets
  BY DEF TypeOK
<1>2. \A t \in Threads : job[t] \in Packets \union {NoJob, Rearm}
  BY DEF TypeOK
<1>3. /\ Places(ready, Chain) =
           {i \in 1..Len(ready) : ready[i].kind \in {"accepted", "aborted", "badfd"}}
      /\ Places(ready, Live) \in SUBSET Places(ready, Chain)
  BY <1>1 DEF Places, Chain, Live, Packets
<1>4. /\ Hands(Chain) =
           {t \in Threads : Handling(t, {"accepted", "aborted", "badfd", "rearm"})}
      /\ Hands(Live) \in SUBSET Hands(Chain)
  BY <1>2 DEF Hands, Chain, Live, Handling, NoJob, Packet
<1>5. /\ IsFiniteSet(Places(ready, Chain)) /\ Cardinality(Places(ready, Chain)) \in Nat
      /\ IsFiniteSet(Hands(Chain)) /\ Cardinality(Hands(Chain)) \in Nat
  BY CountsFinite DEF TypeOK
<1>6. Cardinality(Places(ready, Live)) <= Cardinality(Places(ready, Chain))
  BY <1>3, <1>5, FS_Subset
<1>7. Cardinality(Hands(Live)) <= Cardinality(Hands(Chain))
  BY <1>4, <1>5, FS_Subset
<1>8. /\ Cardinality(Places(ready, Live)) \in Nat /\ Cardinality(Hands(Live)) \in Nat
      /\ pending \in Nat
  BY HeldTypes DEF TypeOK
<1>9. AcceptLinks = Links(Chain)
  BY <1>3, <1>4, <1>5, <1>8 DEF AcceptLinks, InQueue, InHand, Links, Held
<1> QED
  BY <1>5, <1>6, <1>7, <1>8, <1>9 DEF Links, Held

\* An IO thread adds no link, and takes one off the live chain only when the
\* server is not running or handleAccept dies.
LEMMA LinksIo ==
  ASSUME TypeOK, TypeOK', NEW K \in {Chain, Live}, NEW t \in Threads, Io(t)
  PROVE  /\ Links(K)' <= Links(K)
         /\ K = Live /\ running /\ ~chainLost' => Links(K)' = Links(K)
<1>0. /\ Held(K) \in Nat /\ pending \in Nat
      /\ NoJob \notin K /\ Rearm \in K /\ Stop \notin K
      /\ Packet("badfd", NoConn) \in K
      /\ job[t] \in Packets \union {NoJob, Rearm}
  BY HeldTypes, ChainPackets DEF TypeOK
<1>1. CASE Dispatch(t) \/ ThreadExits(t)
  <2>1. Held(K)' = Held(K)
    BY <1>0, <1>1, HeldDispatch
  <2>2. pending' = pending
    BY <1>1 DEF Dispatch, ThreadExits
  <2> QED
    BY <1>0, <2>1, <2>2 DEF Links
<1>2. CASE AcceptConnection(t)
  <2> DEFINE p == Packet("client", job[t].conn)
  <2>1. /\ p \in Packets /\ ready' = Append(ready, p) /\ job' = [job EXCEPT ![t] = Rearm]
        /\ p \notin K
    BY <1>2, QueueTypes, PacketConn, ChainPackets DEF AcceptConnection, Handling, TypeOK
  <2>2. th[t] = "run" /\ th' = th /\ pending' = pending /\ job[t].kind = "accepted"
    BY <1>2 DEF AcceptConnection, Handling
  <2>3. job[t] \in K
    BY <1>0, <2>2, ChainPackets DEF NoJob, Packet
  <2> HIDE DEF p
  <2>4. p \in Packets /\ 1 \in 0..1 /\ Goes(t, Rearm) /\ Pushes(1, p)
    BY <2>1, <2>2 DEF Goes, Pushes
  <2>5. Held(K)' = Held(K) - One(job[t], K) + One(Rearm, K) + 1 * One(p, K)
    BY <1>0, <2>4, HeldMoves
  <2> QED
    BY <1>0, <2>1, <2>2, <2>3, <2>5 DEF Links, One
<1>3. CASE AcceptError(t)
  <2> DEFINE j == IF job[t].kind = "aborted" THEN NoJob ELSE Rearm
             n == 0
             p == Packet("badfd", NoConn)
  <2>1. /\ th[t] = "run" /\ th' = th /\ pending' = pending /\ running
        /\ job' = [job EXCEPT ![t] = j] /\ job[t].kind \in {"aborted", "badfd"}
        /\ n \in 0..1 /\ ready' = IF n = 1 THEN Append(ready, p) ELSE ready
    BY <1>3 DEF AcceptError, Handling
  <2>2. p \in Packets
    BY QueueTypes
  <2>3. /\ job[t].kind = "aborted" => j = NoJob /\ (K = Live => job[t] \notin K)
        /\ job[t].kind = "badfd" => j = Rearm /\ job[t] \in K
    BY <1>0, ChainPackets DEF NoJob, Packet
  <2> HIDE DEF j, n, p
  <2>4. n \in 0..1 /\ Goes(t, j) /\ Pushes(n, p)
    BY <2>1 DEF Goes, Pushes
  <2>5. Held(K)' = Held(K) - One(job[t], K) + One(j, K) + n * One(p, K)
    BY <1>0, <2>2, <2>4, HeldMoves
  <2> QED
    BY <1>0, <2>1, <2>3, <2>5 DEF Links, One, n
<1>4. CASE StartAccept(t)
  <2> DEFINE j == NoJob
             p == Packet("badfd", NoConn)
  <2>1. /\ th[t] = "run" /\ th' = th /\ job[t].kind = "rearm"
        /\ job' = [job EXCEPT ![t] = j]
    BY <1>4 DEF StartAccept, Handling, HandlerDone
  <2>2. PICK n \in 0..1 : /\ ready' = IF n = 1 THEN Append(ready, p) ELSE ready
                          /\ pending' = pending + 1 - n
    <3>1. CASE ready' = ready /\ pending' = pending + 1
      <4>1. /\ ready' = IF 0 = 1 THEN Append(ready, p) ELSE ready
            /\ pending' = pending + 1 - 0
        BY <1>0, <3>1
      <4> QED
        BY <4>1
    <3>2. CASE ready' = Append(ready, p) /\ pending' = pending
      <4>1. /\ ready' = IF 1 = 1 THEN Append(ready, p) ELSE ready
            /\ pending' = pending + 1 - 1
        BY <1>0, <3>2
      <4> QED
        BY <4>1
    <3> QED
      BY <1>4, <3>1, <3>2 DEF StartAccept
  <2>3. p \in Packets /\ p \in K
    BY <1>0, QueueTypes
  <2>4. job[t] \in K
    BY <1>0, <2>1, ChainPackets DEF NoJob, Packet
  <2> HIDE DEF j, p
  <2>a. p \in Packets /\ Goes(t, j) /\ Pushes(n, p)
    BY <2>1, <2>2, <2>3 DEF Goes, Pushes
  <2>5. Held(K)' = Held(K) - One(job[t], K) + One(j, K) + n * One(p, K)
    BY <1>0, <2>a, HeldMoves
  <2>6. One(job[t], K) = 1 /\ One(j, K) = 0 /\ n * One(p, K) = n
    BY <1>0, <2>3, <2>4 DEF One, j
  <2> QED
    BY <1>0, <2>2, <2>5, <2>6 DEF Links
<1>5. CASE AcceptRefused(t) \/ AcceptThrows(t) \/ HandleClient(t) \/ HandleIo(t) \/ HandlerThrows(t)
  <2>1. /\ th[t] = "run" /\ HandlerDone(t) /\ ready' = ready /\ pending' = pending
        /\ UNCHANGED th \/ th' = [th EXCEPT ![t] = "died"]
    BY <1>5 DEF AcceptRefused, AcceptThrows, HandleClient, HandleIo, HandlerThrows,
                Handling, ThreadDies
  <2>2. Held(K)' = Held(K) - One(job[t], K)
    BY <1>0, <2>1, HeldDone
  <2>3. ~running \/ chainLost' \/ job[t].kind \in {"client", "io"}
    BY <1>5 DEF AcceptRefused, AcceptThrows, HandleClient, HandleIo, HandlerThrows, Handling
  <2>4. job[t].kind \in {"client", "io"} => job[t] \notin K
    BY <1>0, ChainPackets
  <2> QED
    BY <1>0, <2>1, <2>2, <2>3, <2>4 DEF Links, One
<1> QED
  BY <1>1, <1>2, <1>3, <1>4, <1>5 DEF Io

\* Outside the threads, start() adds a link and nothing else adds or removes one.
LEMMA LinksOutside ==
  ASSUME TypeOK, TypeOK', RunningInv, NoThreadOutlivesStop, NEW K \in {Chain, Live},
         \/ Owner \/ OutOfWork
         \/ \E c \in Conns : Client(c) \/ Kernel(c)
  PROVE  /\ Start => Links(K)' = Links(K) + 1
         /\ ~Start => \/ Links(K)' = Links(K)
                      \/ K = Live /\ ~running'
<1>0. /\ Held(K) \in Nat /\ pending \in Nat
      /\ NoJob \notin K /\ Stop \notin K
      /\ Packet("aborted", NoConn) \in K <=> K = Chain
      /\ \A c \in Conns : Packet("accepted", c) \in K /\ Packet("io", c) \notin K
  BY HeldTypes, ChainPackets DEF TypeOK
<1>1. CASE Owner
  <2>1. Held(K)' = Held(K) + IF CloseAcceptor /\ Packet("aborted", NoConn) \in K
                             THEN pending ELSE 0
    BY <1>0, <1>1, HeldOwner
  <2>2. CASE Start
    <3>1. pending' = pending + 1 /\ ~CloseAcceptor
      BY <2>2 DEF Start, CloseAcceptor
    <3> QED
      BY <1>0, <2>1, <2>2, <3>1 DEF Links
  <2>3. CASE CloseAcceptor
    <3>1. pending' = 0 /\ ~running' /\ ~Start
      BY <2>3 DEF Start, CloseAcceptor, RunningInv
    <3> QED
      BY <1>0, <2>1, <2>3, <3>1 DEF Links
  <2>4. CASE ~Start /\ ~CloseAcceptor
    <3>1. pending' = pending
      BY <1>1, <2>4 DEF Owner, Stopping, StartFails, StopBegin, ResetWorkGuard, StopIoContext,
                        JoinAll, Destroy
    <3> QED
      BY <1>0, <2>1, <2>4, <3>1 DEF Links
  <2> QED
    BY <2>2, <2>3, <2>4
<1>2. CASE OutOfWork
  <2>1. /\ ready' = Append(ready, Stop) /\ UNCHANGED <<th, job>> /\ pending' = pending /\ ~Start
    BY <1>2 DEF OutOfWork, StopContext, Start, ownerVars
  <2>2. Held(K)' = Held(K) + One(Stop, K)
    BY <2>1, HeldPushed, QueueTypes
  <2> QED
    BY <1>0, <2>1, <2>2 DEF Links, One
<1>3. ASSUME NEW c \in Conns, Client(c)
      PROVE  ~Start /\ Links(K)' = Links(K)
  BY <1>3 DEF Client, ClientConnect, ClientLeave, ownerVars, Start, Links, Held, Places, Hands
<1>4. ASSUME NEW c \in Conns, AcceptCompletes(c)
      PROVE  ~Start /\ Links(K)' = Links(K)
  <2>1. /\ ready' = Append(ready, Packet("accepted", c)) /\ UNCHANGED <<th, job>>
        /\ pending' = pending - 1 /\ ~Start
    BY <1>4 DEF AcceptCompletes, Start, ownerVars
  <2>2. Held(K)' = Held(K) + One(Packet("accepted", c), K)
    BY <2>1, HeldPushed, QueueTypes
  <2> QED
    BY <1>0, <2>1, <2>2 DEF Links, One
<1>5. ASSUME NEW c \in Conns, IoCompletes(c)
      PROVE  ~Start /\ Links(K)' = Links(K)
  <2>1. /\ ready' = Append(ready, Packet("io", c)) /\ UNCHANGED <<th, job>>
        /\ pending' = pending /\ ~Start
    BY <1>5 DEF IoCompletes, Start, ownerVars
  <2>2. Held(K)' = Held(K) + One(Packet("io", c), K)
    BY <2>1, HeldPushed, QueueTypes
  <2> QED
    BY <1>0, <2>1, <2>2 DEF Links, One
<1> QED
  BY <1>1, <1>2, <1>3, <1>4, <1>5 DEF Kernel

\* No step breaks the chain or starts a second one.
LEMMA ChainStep ==
  TypeOK /\ RunningInv /\ NoThreadOutlivesStop /\ ChainInv /\ [Next]_vars => ChainInv'
<1>a. TypeOK => Links(Chain) \in Nat
  BY HeldTypes DEF Links, TypeOK
<1>b. TypeOK' => (Links(Chain) \in Nat)'
  BY <1>a, PTL
<1> SUFFICES ASSUME TypeOK, RunningInv, NoThreadOutlivesStop, ChainInv, [Next]_vars
             PROVE  ChainInv'
  OBVIOUS
<1>0. TypeOK'
  BY TypeStep
<1>1. \A K \in {Chain, Live} : Links(K) \in Nat
  BY HeldTypes DEF Links, TypeOK
<1>2. starts \in Nat /\ starts' \in Nat
  BY <1>0, ServerAssumption DEF TypeOK
<1>3. CASE UNCHANGED vars
  BY <1>3 DEF vars, ChainInv, Links, Held, Places, Hands
<1>4. ASSUME NEW t \in Threads, Io(t) PROVE ChainInv'
  <2>1. /\ Links(Chain)' <= Links(Chain)
        /\ running /\ ~chainLost' => Links(Live)' = Links(Live)
    BY <1>0, <1>4, LinksIo
  <2>2. Links(Chain)' \in Nat
    BY <1>0, <1>b
  <2>3. starts' = starts /\ running' = running /\ (chainLost => chainLost')
    BY <1>4 DEF Io, ownerVars, Dispatch, ThreadExits, AcceptRefused, AcceptConnection,
                AcceptThrows, AcceptError, StartAccept, HandleClient, HandleIo, HandlerThrows
  <2> QED
    BY <1>1, <1>2, <2>1, <2>2, <2>3 DEF ChainInv
<1>5. CASE \/ Owner \/ OutOfWork
           \/ \E c \in Conns : Client(c) \/ Kernel(c)
  <2>1. \A K \in {Chain, Live} :
          /\ Start => Links(K)' = Links(K) + 1
          /\ ~Start => \/ Links(K)' = Links(K)
                       \/ K = Live /\ ~running'
    BY <1>0, <1>5, LinksOutside
  <2>2. CASE Start
    <3>1. starts' = starts + 1 /\ ~running
      BY <2>2 DEF Start
    <3>2. Links(Chain)' = Links(Chain) + 1 /\ Links(Live)' = Links(Live) + 1
      BY <2>1, <2>2
    <3>3. Links(Chain) \in Nat /\ Links(Live) \in Nat
      BY <1>1
    <3> QED
      BY <1>2, <3>1, <3>2, <3>3 DEF ChainInv
  <2>3. CASE ~Start
    <3>1. starts' = starts /\ chainLost' = chainLost /\ (running' => running)
      <4>1. CASE Owner
        <5>1. CASE StartFails \/ Destroy \/ \E who \in {"stop", "configure", "destroy"} : StopBegin(who)
          BY <5>1 DEF StartFails, StopBegin, Destroy, ownerVars
        <5>2. CASE CloseAcceptor \/ ResetWorkGuard
          BY <5>2 DEF CloseAcceptor, ResetWorkGuard
        <5>3. CASE StopIoContext \/ JoinAll
          BY <5>3 DEF StopIoContext, JoinAll
        <5> QED
          BY <2>3, <4>1, <5>1, <5>2, <5>3 DEF Owner, Stopping
      <4>2. CASE OutOfWork \/ \E c \in Conns : Client(c) \/ Kernel(c)
        <5>1. CASE OutOfWork
          BY <5>1 DEF OutOfWork, ownerVars
        <5>2. ASSUME NEW c \in Conns, Client(c)
              PROVE  starts' = starts /\ chainLost' = chainLost /\ (running' => running)
          BY <5>2 DEF Client, ClientConnect, ClientLeave, ownerVars
        <5>3. ASSUME NEW c \in Conns, Kernel(c)
              PROVE  starts' = starts /\ chainLost' = chainLost /\ (running' => running)
          BY <5>3 DEF Kernel, AcceptCompletes, IoCompletes, ownerVars
        <5> QED
          BY <4>2, <5>1, <5>2, <5>3
      <4> QED
        BY <1>5, <4>1, <4>2
    <3>2. Chain # Live
      BY ChainPackets
    <3> QED
      BY <1>1, <1>2, <2>1, <2>3, <3>1, <3>2 DEF ChainInv
  <2> QED
    BY <2>2, <2>3
<1> QED
  BY <1>3, <1>4, <1>5 DEF Next

\* Every start() makes one accept chain and nothing doubles it, and as long as
\* the server runs the chain goes on unless handleAccept has died
\* (MultiThreadHTTPServer.cpp:105-146).
THEOREM OneAcceptChainCorrect == Spec => []OneAcceptChain
<1>1. Init => ChainInv
  <2> SUFFICES ASSUME Init PROVE ChainInv
    OBVIOUS
  <2>1. Places(ready, Chain) = {} /\ Hands(Chain) = {}
    BY DEF Init, Places, Hands
  <2>2. Cardinality({}) = 0
    BY FS_EmptySet
  <2>3. Held(Chain) = 0 + 0 /\ pending = 0
    BY <2>1, <2>2, Zenon DEF Init, Held
  <2>4. Links(Chain) = 0
    BY <2>3 DEF Links
  <2> QED
    BY <2>4 DEF Init, ChainInv
<1>2. TypeOK /\ ChainInv => OneAcceptChain
  <2> SUFFICES ASSUME TypeOK, ChainInv PROVE OneAcceptChain
    OBVIOUS
  <2>1. AcceptLinks = Links(Chain) /\ Links(Live) <= Links(Chain)
    BY LinksCounted
  <2>2. Links(Chain) \in Nat /\ Links(Live) \in Nat
    BY HeldTypes DEF Links, TypeOK
  <2> QED
    BY <2>1, <2>2 DEF ChainInv, OneAcceptChain
<1> QED
  BY <1>1, <1>2, ChainStep, TypeCorrect, RunningInvCorrect, NoThreadOutlivesStopCorrect, PTL DEF Spec
=============================================================================
