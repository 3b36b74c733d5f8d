--------------------------- MODULE UserHandlerProofs ---------------------------
(***************************************************************************)
(* What UserHandler promises, proved for any threads, endpoints and bodies.*)
(***************************************************************************)
EXTENDS UserHandler, SequenceTheorems, TLAPS

\* A step of a thread or of a walk, in the form the proofs split on.
LEMMA NextCases ==
  ASSUME Next, NEW P,
    \A t \in Threads, u \in Uploads : PostUsers(t, u) => P,
    \A t \in Threads, u \in Uploads : RefuseUpload(t, u) => P,
    \A t \in Threads, E \in SUBSET Endpoints : StartReads(t, E) => P,
    \A t \in Threads : ParseBody(t) => P,
    \A t \in Threads : ClearUsers(t) => P,
    \A t \in Threads : ThrowParseError(t) => P,
    \A t \in Threads : EmplaceUser(t) => P,
    \A t \in Threads : FillUser(t) => P,
    \A t \in Threads : AcceptUpload(t) => P,
    \A t \in Threads : RejectUpload(t) => P,
    \A t \in Threads : Unlock(t) => P,
    \A t \in Threads : FinishReads(t) => P,
    \A r \in Readers : Reading(r) => P
  PROVE P
<1>1. CASE \E t \in Threads : Requests(t)
  <2>1. PICK t \in Threads : Requests(t)
    BY <1>1
  <2>2. \/ \E u \in Uploads : PostUsers(t, u) \/ RefuseUpload(t, u)
        \/ \E E \in SUBSET Endpoints : StartReads(t, E)
    BY <2>1 DEF Requests
  <2> QED
    BY <2>2
<1>2. CASE \E t \in Threads : Posting(t)
  BY <1>2 DEF Posting
<1>3. QED
  BY <1>1, <1>2 DEF Next

-----------------------------------------------------------------------------
(* Types                                                                   *)

\* Every response of POST /users is an answer.
LEMMA AnswerTypes ==
  /\ NoAnswer \in Answers /\ BusyAnswer \in Answers /\ Rejected \in Answers
  /\ \A n \in Nat : Accepted(n) \in Answers
BY DEF NoAnswer, BusyAnswer, Rejected, Accepted, Answers

\* Replacing an element never leads out of the sequences.
LEMMA ReplaceInSeq ==
  ASSUME NEW S, NEW s \in Seq(S), NEW i, NEW v \in S
  PROVE  [s EXCEPT ![i] = v] \in Seq(S)
<1>1. s \in [1..Len(s) -> S] /\ Len(s) \in Nat
  OBVIOUS
<1>2. [s EXCEPT ![i] = v] \in [1..Len(s) -> S]
  BY <1>1, Zenon
<1> QED
  BY <1>1, <1>2, SeqDef, Zenon

\* Every step keeps every variable in its type.
LEMMA TypeStep == TypeOK /\ [Next]_vars => TypeOK'
<1> SUFFICES ASSUME TypeOK, [Next]_vars PROVE TypeOK'
  OBVIOUS
<1> USE UploadAssumption, ThreadAssumption, AnswerTypes DEF TypeOK, Goto, Writing
<1>1. CASE UNCHANGED vars
  BY <1>1 DEF vars
<1>2. ASSUME NEW t \in Threads, NEW u \in Uploads, PostUsers(t, u) PROVE TypeOK'
  BY <1>2 DEF PostUsers, readVars
<1>3. ASSUME NEW t \in Threads, NEW u \in Uploads, RefuseUpload(t, u) PROVE TypeOK'
  BY <1>3 DEF RefuseUpload, readVars
<1>4. ASSUME NEW t \in Threads, NEW E \in SUBSET Endpoints, StartReads(t, E) PROVE TypeOK'
  BY <1>4 DEF StartReads
<1>5. ASSUME NEW t \in Threads, ParseBody(t) PROVE TypeOK'
  <2>1. answer' \in [Threads -> Answers]
    BY <1>5 DEF ParseBody
  <2>2. pc' \in [Threads -> Writing \union {"idle", "read", "dead"}]
    <3>1. pc' = [pc EXCEPT ![t] = "unlock"] \/ pc' = [pc EXCEPT ![t] = "clear"]
      BY <1>5, Zenon DEF ParseBody
    <3> QED
      BY <3>1
  <2> QED
    BY <1>5, <2>1, <2>2 DEF ParseBody, readVars
<1>6. ASSUME NEW t \in Threads, ClearUsers(t) PROVE TypeOK'
  BY <1>6 DEF ClearUsers, Mutate
<1>7. ASSUME NEW t \in Threads, ThrowParseError(t) PROVE TypeOK'
  BY <1>7 DEF ThrowParseError, readVars, postVars
<1>8. ASSUME NEW t \in Threads, EmplaceUser(t) PROVE TypeOK'
  BY <1>8 DEF EmplaceUser, Mutate
<1>9. ASSUME NEW t \in Threads, FillUser(t) PROVE TypeOK'
  <2>1. upload[t] \in Uploads
    BY <1>9 DEF FillUser
  <2>2. users' = [users EXCEPT ![Len(users)] = upload[t]]
    BY <1>9 DEF FillUser, Mutate
  <2>3. users' \in Seq(Uploads \union {Torn})
    BY <2>1, <2>2, ReplaceInSeq
  <2>4. overlapped' \in [Readers -> BOOLEAN]
    BY <1>9 DEF FillUser, Mutate
  <2> QED
    BY <1>9, <2>3, <2>4 DEF FillUser, Mutate
<1>10. ASSUME NEW t \in Threads, AcceptUpload(t) PROVE TypeOK'
  BY <1>10 DEF AcceptUpload, readVars
<1>11. ASSUME NEW t \in Threads, RejectUpload(t) PROVE TypeOK'
  <2>1. CASE Mutate(SubSeq(users, 1, Len(users) - 1))
    <3>1. SubSeq(users, 1, Len(users) - 1) \in Seq(Uploads \union {Torn})
      OBVIOUS
    <3> QED
      BY <1>11, <2>1, <3>1 DEF RejectUpload, Mutate
  <2>2. CASE UNCHANGED <<users, readVars>>
    BY <1>11, <2>2 DEF RejectUpload, readVars
  <2> QED
    BY <1>11, <2>1, <2>2 DEF RejectUpload
<1>12. ASSUME NEW t \in Threads, Unlock(t) PROVE TypeOK'
  BY <1>12 DEF Unlock, readVars
<1>13. ASSUME NEW t \in Threads, FinishReads(t) PROVE TypeOK'
  BY <1>13 DEF FinishReads, postVars
<1>14. ASSUME NEW r \in Readers, Reading(r) PROVE TypeOK'
  <2>1. CASE BeginScan(r)
    BY <2>1 DEF BeginScan, Filling, postVars
  <2>2. CASE ReadUser(r)
    BY <2>2 DEF ReadUser, Readable, postVars
  <2>3. CASE EndScan(r)
    BY <2>3 DEF EndScan, postVars
  <2> QED
    BY <1>14, <2>1, <2>2, <2>3 DEF Reading
<1>15. QED
  BY <1>1, <1>2, <1>3, <1>4, <1>5, <1>6, <1>7, <1>8, <1>9, <1>10, <1>11, <1>12,
     <1>13, <1>14, NextCases

\* The store, the mutex, the requests and the walks keep their types
\* (RequestHandlers.hpp:107-111).
THEOREM TypeCorrect == Spec => []TypeOK
<1>1. Init => TypeOK
  BY AnswerTypes, UploadAssumption, ThreadAssumption DEF Init, TypeOK, Writing
<1> QED
  BY <1>1, TypeStep, PTL DEF Spec

-----------------------------------------------------------------------------
(* The mutex                                                               *)

\* Only try_lock and unlock change who holds the mutex, and they change
\* where the thread is accordingly.
LEMMA OneWriterStep == TypeOK /\ OneWriter /\ [Next]_vars => OneWriter'
<1> SUFFICES ASSUME TypeOK, OneWriter, [Next]_vars PROVE OneWriter'
  OBVIOUS
<1> USE ThreadAssumption DEF TypeOK, OneWriter, Goto, Writing
<1>1. CASE UNCHANGED vars
  BY <1>1 DEF vars
<1>2. ASSUME NEW t \in Threads, NEW u \in Uploads, PostUsers(t, u) PROVE OneWriter'
  BY <1>2 DEF PostUsers
<1>3. ASSUME NEW t \in Threads, NEW u \in Uploads, RefuseUpload(t, u) PROVE OneWriter'
  BY <1>3 DEF RefuseUpload
<1>4. ASSUME NEW t \in Threads, NEW E \in SUBSET Endpoints, StartReads(t, E) PROVE OneWriter'
  BY <1>4 DEF StartReads
<1>5. ASSUME NEW t \in Threads, ParseBody(t) PROVE OneWriter'
  BY <1>5 DEF ParseBody
<1>6. ASSUME NEW t \in Threads, ClearUsers(t) PROVE OneWriter'
  BY <1>6 DEF ClearUsers
<1>7. ASSUME NEW t \in Threads, ThrowParseError(t) PROVE OneWriter'
  BY <1>7 DEF ThrowParseError, postVars
<1>8. ASSUME NEW t \in Threads, EmplaceUser(t) PROVE OneWriter'
  BY <1>8 DEF EmplaceUser
<1>9. ASSUME NEW t \in Threads, FillUser(t) PROVE OneWriter'
  BY <1>9 DEF FillUser
<1>10. ASSUME NEW t \in Threads, AcceptUpload(t) PROVE OneWriter'
  BY <1>10 DEF AcceptUpload
<1>11. ASSUME NEW t \in Threads, RejectUpload(t) PROVE OneWriter'
  BY <1>11 DEF RejectUpload
<1>12. ASSUME NEW t \in Threads, Unlock(t) PROVE OneWriter'
  BY <1>12 DEF Unlock
<1>13. ASSUME NEW t \in Threads, FinishReads(t) PROVE OneWriter'
  BY <1>13 DEF FinishReads, postVars
<1>14. ASSUME NEW r \in Readers, Reading(r) PROVE OneWriter'
  BY <1>14 DEF Reading, BeginScan, ReadUser, EndScan, postVars
<1>15. QED
  BY <1>1, <1>2, <1>3, <1>4, <1>5, <1>6, <1>7, <1>8, <1>9, <1>10, <1>11, <1>12,
     <1>13, <1>14, NextCases

\* The vector has one writer at a time.
THEOREM OneWriterCorrect == Spec => []OneWriter
<1>1. Init => OneWriter
  BY ThreadAssumption DEF Init, OneWriter, Writing
<1> QED
  BY <1>1, TypeCorrect, OneWriterStep, PTL DEF Spec

-----------------------------------------------------------------------------
(* The store                                                               *)

Busy == {"fill", "build"}

\* What a thread that is storing an upload has put into the store so far.
FillInv ==
  \A t \in Threads :
    /\ pc[t] \notin Busy => taken[t] = 0
    /\ pc[t] = "build" => taken[t] > 0
    /\ pc[t] \in Busy =>
         /\ Len(users) = taken[t]
         /\ taken[t] <= Started(upload[t])
         /\ \A i \in 1..Len(users) :
              users[i] = (IF pc[t] = "build" /\ i = Len(users) THEN Torn ELSE upload[t])

\* What the store holds otherwise.
RestInv == ~Filling => users = <<>> \/ \E u \in Bodies : users = Whole(u)

StoreInv == FillInv /\ RestInv /\ LostThreadFreezesStore

\* The elements a parser starts with are counted by a natural number.
LEMMA StartedType == \A u \in Uploads : Started(u) \in Nat
BY UploadAssumption DEF Started, Outcomes

\* As many users of one upload as its body holds are that upload whole.
LEMMA WholeUpload ==
  ASSUME NEW u \in Bodies, NEW s \in Seq(Uploads \union {Torn}),
         Len(s) = Size[u], \A i \in 1..Len(s) : s[i] = u
  PROVE  s = Whole(u)
BY UploadAssumption DEF Whole, Bodies

\* Steps that leave the store alone, and nobody starts or stops storing.
LEMMA StoreKept ==
  ASSUME TypeOK, TypeOK', StoreInv, UNCHANGED <<users, taken>>,
         \A t \in Threads : pc'[t] \in Busy => pc'[t] = pc[t] /\ upload'[t] = upload[t],
         \A t \in Threads : pc[t] \in Busy => pc'[t] = pc[t],
         \A t \in Threads : pc'[t] = "dead" => pc[t] = "dead" /\ lock' = lock
  PROVE  StoreInv'
<1>1. FillInv'
  BY DEF StoreInv, FillInv, Busy
<1>2. RestInv'
  BY DEF StoreInv, RestInv, Filling, Busy
<1>3. LostThreadFreezesStore'
  BY DEF StoreInv, LostThreadFreezesStore
<1> QED
  BY <1>1, <1>2, <1>3 DEF StoreInv

\* A body without elements puts nothing into the store.
LEMMA NothingStarted ==
  ASSUME TypeOK, StoreInv, NEW t \in Threads, pc[t] = "fill",
         Outcome[upload[t]] \in {"throws", "notarray"}
  PROVE  users = <<>> /\ taken[t] = 0
<1>1. Started(upload[t]) = 0
  BY DEF Started
<1>2. Len(users) <= 0 /\ Len(users) = taken[t]
  BY <1>1 DEF StoreInv, FillInv, Busy
<1> QED
  BY <1>2 DEF TypeOK

\* Every step leaves the store one upload, or the part of it written so far.
LEMMA StoreStep ==
  TypeOK /\ TypeOK' /\ OneWriter /\ OneWriter' /\ StoreInv /\ [Next]_vars => StoreInv'
<1> SUFFICES ASSUME TypeOK, TypeOK', OneWriter, OneWriter', StoreInv, [Next]_vars
             PROVE StoreInv'
  OBVIOUS
<1>a. \A s, t \in Threads : pc[s] \in Busy /\ pc[t] \in Busy \union {"dead"} => s = t
  BY ThreadAssumption DEF OneWriter, Writing, Busy
<1>b. \A s, t \in Threads : pc'[s] \in Busy /\ pc'[t] \in Busy \union {"dead"} => s = t
  BY ThreadAssumption DEF OneWriter, Writing, Busy
<1>1. CASE UNCHANGED vars
  BY <1>1, StoreKept DEF vars
<1>2. ASSUME NEW t \in Threads, NEW u \in Uploads, PostUsers(t, u) PROVE StoreInv'
  <2>1. pc'[t] = "locked" /\ \A s \in Threads \ {t} : pc'[s] = pc[s] /\ upload'[s] = upload[s]
    BY <1>2 DEF PostUsers, Goto, TypeOK
  <2>2. pc[t] = "idle" /\ \A s \in Threads : pc[s] # "dead"
    BY <1>2, ThreadAssumption DEF PostUsers, OneWriter, Writing
  <2> QED
    BY <1>2, <2>1, <2>2, StoreKept DEF PostUsers, Busy
<1>3. ASSUME NEW t \in Threads, NEW u \in Uploads, RefuseUpload(t, u) PROVE StoreInv'
  <2>1. pc[t] = "idle" /\ \A s \in Threads \ {t} : upload'[s] = upload[s]
    BY <1>3 DEF RefuseUpload, TypeOK
  <2> QED
    BY <1>3, <2>1, StoreKept DEF RefuseUpload, Busy
<1>4. ASSUME NEW t \in Threads, NEW E \in SUBSET Endpoints, StartReads(t, E) PROVE StoreInv'
  <2>1. pc'[t] = "read" /\ \A s \in Threads \ {t} : pc'[s] = pc[s] /\ upload'[s] = upload[s]
    BY <1>4 DEF StartReads, Goto, TypeOK
  <2>2. pc[t] = "idle"
    BY <1>4 DEF StartReads
  <2> QED
    BY <1>4, <2>1, <2>2, StoreKept DEF StartReads, Busy
<1>5. ASSUME NEW t \in Threads, ParseBody(t) PROVE StoreInv'
  <2>1. pc'[t] \in {"unlock", "clear"} /\ \A s \in Threads \ {t} : pc'[s] = pc[s]
    BY <1>5 DEF ParseBody, Goto, TypeOK
  <2>2. pc[t] = "locked"
    BY <1>5 DEF ParseBody
  <2> QED
    BY <1>5, <2>1, <2>2, StoreKept DEF ParseBody, Busy
<1>6. ASSUME NEW t \in Threads, ClearUsers(t) PROVE StoreInv'
  <2>1. /\ pc[t] = "clear" /\ pc'[t] = "fill" /\ users' = <<>>
        /\ UNCHANGED <<lock, upload, taken>>
        /\ \A s \in Threads \ {t} : pc'[s] = pc[s]
    BY <1>6 DEF ClearUsers, Mutate, Goto, TypeOK
  <2>2. \A s \in Threads : pc'[s] \in Busy \union {"dead"} => s = t
    BY <1>b, <2>1 DEF Busy
  <2>3. upload[t] \in Uploads /\ Len(users') = 0
    BY <1>6, <2>1 DEF ClearUsers, TypeOK, Writing
  <2>4. \A s \in Threads : taken'[s] = 0
    BY <2>1, <2>2 DEF StoreInv, FillInv, Busy
  <2>5. Started(upload[t]) \in Nat
    BY <2>3, StartedType
  <2>6. FillInv'
    BY <2>1, <2>2, <2>3, <2>4, <2>5 DEF FillInv, Started, Busy
  <2>7. RestInv'
    BY <2>1 DEF RestInv
  <2>8. LostThreadFreezesStore'
    BY <2>1, <2>2 DEF LostThreadFreezesStore
  <2> QED
    BY <2>6, <2>7, <2>8 DEF StoreInv
<1>7. ASSUME NEW t \in Threads, ThrowParseError(t) PROVE StoreInv'
  <2>1. /\ pc[t] = "fill" /\ Outcome[upload[t]] = "throws"
        /\ pc' = [pc EXCEPT ![t] = "dead"] /\ UNCHANGED <<users, lock, upload, taken>>
    BY <1>7 DEF ThrowParseError, Goto, postVars
  <2>2. users = <<>> /\ taken[t] = 0
    BY <2>1, NothingStarted
  <2>3. lock = t
    BY <2>1 DEF OneWriter, Writing
  <2>4. \A s \in Threads : pc'[s] = "dead" => s = t
    BY <1>a, <2>1 DEF TypeOK, Busy
  <2>5. \A s \in Threads : pc'[s] \notin Busy
    BY <1>a, <2>1 DEF TypeOK, Busy
  <2>6. \A s \in Threads : taken[s] = 0
    BY <1>a, <2>1, <2>2 DEF StoreInv, FillInv, Busy
  <2>7. FillInv'
    BY <2>1, <2>5, <2>6 DEF FillInv, Busy
  <2> QED
    BY <2>1, <2>2, <2>3, <2>4, <2>7 DEF StoreInv, RestInv, LostThreadFreezesStore
<1>8. ASSUME NEW t \in Threads, EmplaceUser(t) PROVE StoreInv'
  <2>1. /\ pc[t] = "fill" /\ taken[t] < Started(upload[t])
        /\ pc' = [pc EXCEPT ![t] = "build"] /\ taken' = [taken EXCEPT ![t] = @ + 1]
        /\ users' = Append(users, Torn) /\ UNCHANGED <<lock, upload>>
    BY <1>8 DEF EmplaceUser, Mutate, Goto
  <2>2. pc'[t] = "build" /\ taken'[t] = taken[t] + 1
        /\ \A s \in Threads \ {t} : pc'[s] = pc[s] /\ taken'[s] = taken[s]
    BY <2>1 DEF TypeOK
  <2>3. \A s \in Threads : pc'[s] \in Busy \union {"dead"} => s = t
    BY <1>b, <2>2 DEF Busy
  <2>4. \A i \in 1..Len(users) : users[i] = upload[t]
    BY <2>1 DEF StoreInv, FillInv, Busy
  <2>5. /\ Len(users') = Len(users) + 1
        /\ \A i \in 1..Len(users') : users'[i] = IF i = Len(users') THEN Torn ELSE users[i]
    BY <2>1 DEF TypeOK
  <2>6. Len(users) = taken[t] /\ taken[t] \in Nat
    BY <2>1 DEF StoreInv, FillInv, Busy, TypeOK
  <2>7. Started(upload'[t]) = Started(upload[t]) /\ Started(upload[t]) \in Nat
    BY <2>1, StartedType DEF TypeOK, Writing
  <2>8. FillInv'
    BY <2>1, <2>2, <2>3, <2>4, <2>5, <2>6, <2>7 DEF StoreInv, FillInv, Busy
  <2> QED
    BY <2>2, <2>3, <2>8 DEF StoreInv, RestInv, LostThreadFreezesStore, Filling
<1>9. ASSUME NEW t \in Threads, FillUser(t) PROVE StoreInv'
  <2>1. /\ pc[t] = "build" /\ pc' = [pc EXCEPT ![t] = "fill"]
        /\ users' = [users EXCEPT ![Len(users)] = upload[t]]
        /\ UNCHANGED <<lock, upload, taken>>
    BY <1>9 DEF FillUser, Mutate, Goto
  <2>2. pc'[t] = "fill" /\ \A s \in Threads \ {t} : pc'[s] = pc[s]
    BY <2>1 DEF TypeOK
  <2>3. \A s \in Threads : pc'[s] \in Busy \union {"dead"} => s = t
    BY <1>b, <2>2 DEF Busy
  <2>4. users \in Seq(Uploads \union {Torn}) /\ Len(users) \in 1..Len(users)
    BY <2>1 DEF StoreInv, FillInv, Busy, TypeOK
  <2>5. upload[t] \in Uploads
    BY <2>1 DEF TypeOK, Writing
  <2>6. /\ Len(users') = Len(users)
        /\ \A i \in 1..Len(users) : users'[i] = IF i = Len(users) THEN upload[t] ELSE users[i]
    BY <2>1, <2>4, <2>5, ExceptSeq
  <2>a. \A i \in 1..(Len(users) - 1) : users[i] = upload[t]
    BY <2>1 DEF StoreInv, FillInv, Busy
  <2>7. \A i \in 1..Len(users') : users'[i] = upload[t]
    <3> SUFFICES ASSUME NEW i \in 1..Len(users') PROVE users'[i] = upload[t]
      OBVIOUS
    <3>1. i \in 1..Len(users) /\ (i = Len(users) \/ i \in 1..(Len(users) - 1))
      <4>1. i \in 1..Len(users)
        BY <2>6, Zenon
      <4>2. Len(users) \in Nat
        BY <2>4
      <4> QED
        BY <4>1, <4>2
    <3>2. users'[i] = IF i = Len(users) THEN upload[t] ELSE users[i]
      BY <2>6, <3>1, Zenon
    <3> QED
      BY <2>a, <3>1, <3>2, Zenon
  <2>8. Started(upload'[t]) = Started(upload[t])
    <3>1. upload'[t] = upload[t]
      BY <2>1
    <3> QED
      BY <3>1, Zenon
  <2>9. FillInv'
    BY <2>1, <2>2, <2>3, <2>6, <2>7, <2>8 DEF StoreInv, FillInv, Busy
  <2> QED
    BY <2>2, <2>3, <2>9 DEF StoreInv, RestInv, LostThreadFreezesStore, Filling
<1>10. ASSUME NEW t \in Threads, AcceptUpload(t) PROVE StoreInv'
  <2>1. /\ pc[t] = "fill" /\ Outcome[upload[t]] = "ok" /\ taken[t] = Size[upload[t]]
        /\ UNCHANGED <<users, lock, upload>>
        /\ pc' = [pc EXCEPT ![t] = "unlock"] /\ taken' = [taken EXCEPT ![t] = 0]
    BY <1>10 DEF AcceptUpload, Goto
  <2>2. \A s \in Threads : pc'[s] \notin Busy \union {"dead"}
    BY <1>a, <2>1 DEF TypeOK, Busy
  <2>3. upload[t] \in Bodies
    BY <2>1 DEF TypeOK, Writing, Bodies
  <2>4. Len(users) = Size[upload[t]] /\ \A i \in 1..Len(users) : users[i] = upload[t]
    BY <2>1 DEF StoreInv, FillInv, Busy
  <2>5. users = Whole(upload[t])
    BY <2>3, <2>4, WholeUpload DEF TypeOK
  <2>6. RestInv'
    BY <2>1, <2>3, <2>5 DEF RestInv, Whole
  <2>7. \A s \in Threads : taken'[s] = 0
    BY <1>a, <2>1 DEF StoreInv, FillInv, Busy, TypeOK
  <2> QED
    BY <2>2, <2>6, <2>7 DEF StoreInv, FillInv, LostThreadFreezesStore, Busy
<1>11. ASSUME NEW t \in Threads, RejectUpload(t) PROVE StoreInv'
  <2>1. /\ pc[t] \in Busy /\ pc' = [pc EXCEPT ![t] = "unlock"]
        /\ taken' = [taken EXCEPT ![t] = 0] /\ UNCHANGED upload
    BY <1>11 DEF RejectUpload, Goto, Busy
  <2>2. \A s \in Threads : pc'[s] \notin Busy \union {"dead"}
    BY <1>a, <2>1 DEF TypeOK, Busy
  <2>3. upload[t] \in Uploads
    BY <2>1 DEF TypeOK, Writing, Busy
  <2>4. RestInv'
    <3>1. CASE pc[t] = "build" /\ taken[t] > Size[upload[t]]
                 /\ users' = SubSeq(users, 1, Len(users) - 1)
      <4>1. Len(users) = taken[t] /\ taken[t] \in Nat /\ taken[t] <= Started(upload[t])
        BY <3>1 DEF StoreInv, FillInv, Busy, TypeOK
      <4>2. Size[upload[t]] \in Nat
        BY <2>3, UploadAssumption
      <4>3. Outcome[upload[t]] = "partial" /\ Started(upload[t]) = Size[upload[t]] + 1
        BY <3>1, <4>1, <4>2 DEF Started
      <4>4. upload[t] \in Bodies /\ Len(users) = Size[upload[t]] + 1
        BY <2>3, <3>1, <4>1, <4>2, <4>3 DEF Bodies
      <4>5. \A i \in 1..Size[upload[t]] : users[i] = upload[t]
        BY <3>1, <4>2, <4>4 DEF StoreInv, FillInv, Busy
      <4>6. Len(users') = Size[upload[t]] /\ \A i \in 1..Len(users') : users'[i] = users[i]
        BY <3>1, <4>2, <4>4 DEF TypeOK
      <4>7. users' = Whole(upload[t])
        BY <4>4, <4>5, <4>6, WholeUpload DEF TypeOK
      <4> QED
        BY <4>4, <4>7 DEF RestInv, Whole
    <3>2. CASE pc[t] = "fill" /\ Outcome[upload[t]] = "notarray" /\ UNCHANGED users
      BY <3>2, NothingStarted DEF RestInv
    <3> QED
      BY <1>11, <3>1, <3>2 DEF RejectUpload, Mutate
  <2>5. \A s \in Threads : taken'[s] = 0
    BY <1>a, <2>1 DEF StoreInv, FillInv, Busy, TypeOK
  <2> QED
    BY <2>2, <2>4, <2>5 DEF StoreInv, FillInv, LostThreadFreezesStore, Busy
<1>12. ASSUME NEW t \in Threads, Unlock(t) PROVE StoreInv'
  <2>1. pc[t] = "unlock" /\ pc'[t] = "idle" /\ \A s \in Threads \ {t} : pc'[s] = pc[s]
    BY <1>12 DEF Unlock, Goto, TypeOK
  <2>2. \A s \in Threads : pc[s] # "dead"
    BY <2>1, ThreadAssumption DEF OneWriter, Writing
  <2> QED
    BY <1>12, <2>1, <2>2, StoreKept DEF Unlock, Busy
<1>13. ASSUME NEW t \in Threads, FinishReads(t) PROVE StoreInv'
  <2>1. pc[t] = "read" /\ pc'[t] = "idle" /\ \A s \in Threads \ {t} : pc'[s] = pc[s]
    BY <1>13 DEF FinishReads, Goto, TypeOK
  <2> QED
    BY <1>13, <2>1, StoreKept DEF FinishReads, postVars, Busy
<1>14. ASSUME NEW r \in Readers, Reading(r) PROVE StoreInv'
  BY <1>14, StoreKept DEF Reading, BeginScan, ReadUser, EndScan, postVars
<1>15. QED
  BY <1>1, <1>2, <1>3, <1>4, <1>5, <1>6, <1>7, <1>8, <1>9, <1>10, <1>11, <1>12,
     <1>13, <1>14, NextCases

Inv == TypeOK /\ OneWriter /\ StoreInv

\* The handler starts with no thread inside it and no user.
LEMMA InvInit == Init => Inv
<1> SUFFICES ASSUME Init PROVE Inv
  OBVIOUS
<1>1. TypeOK
  BY AnswerTypes, UploadAssumption, ThreadAssumption DEF Init, TypeOK, Writing
<1>2. OneWriter
  BY ThreadAssumption DEF Init, OneWriter, Writing
<1>3. StoreInv
  BY DEF Init, StoreInv, FillInv, RestInv, LostThreadFreezesStore, Busy
<1> QED
  BY <1>1, <1>2, <1>3 DEF Inv

\* The invariant is inductive.
LEMMA InvStep == Inv /\ [Next]_vars => Inv'
BY TypeStep, OneWriterStep, StoreStep DEF Inv

\* Hence it holds in every state.
LEMMA Invariance == Spec => []Inv
BY InvInit, InvStep, PTL DEF Spec

\* The store is empty, whole, or visibly being replaced by one upload.
THEOREM StoreIsOneUploadCorrect == Spec => []StoreIsOneUpload
<1>1. Inv => StoreIsOneUpload
  BY DEF Inv, StoreInv, FillInv, RestInv, Filling, StoreIsOneUpload, Busy
<1> QED
  BY <1>1, Invariance, PTL

\* A thread lost to the parser freezes the store empty ...
THEOREM LostThreadFreezesStoreCorrect == Spec => []LostThreadFreezesStore
<1>1. Inv => LostThreadFreezesStore
  BY DEF Inv, StoreInv
<1> QED
  BY <1>1, Invariance, PTL

\* ... and it is the only one: the parser costs the server one IO thread at
\* most, however many malformed bodies are posted (353).
THEOREM AtMostOneThreadLost ==
  Spec => [](\A s, t \in Threads : pc[s] = "dead" /\ pc[t] = "dead" => s = t)
<1>1. Inv => \A s, t \in Threads : pc[s] = "dead" /\ pc[t] = "dead" => s = t
  BY DEF Inv, StoreInv, LostThreadFreezesStore
<1> QED
  BY <1>1, Invariance, PTL

-----------------------------------------------------------------------------
(* What the responses say                                                  *)

\* The count in a response is that of the body it answers.
LEMMA CountStep == Inv /\ AcceptedCountExact /\ [Next]_vars => AcceptedCountExact'
<1> SUFFICES ASSUME Inv, AcceptedCountExact, [Next]_vars PROVE AcceptedCountExact'
  OBVIOUS
<1>t. TypeOK
  BY DEF Inv
<1>c. NoAnswer.code # 200 /\ BusyAnswer.code # 200 /\ Rejected.code # 200
  BY DEF NoAnswer, BusyAnswer, Rejected
<1>k. ASSUME UNCHANGED <<upload, answer>> PROVE AcceptedCountExact'
  BY <1>k DEF AcceptedCountExact
<1>r. ASSUME NEW t \in Threads, NEW a \in Answers, a.code # 200,
             answer' = [answer EXCEPT ![t] = a],
             \A s \in Threads \ {t} : upload'[s] = upload[s]
      PROVE  AcceptedCountExact'
  BY <1>t, <1>r DEF TypeOK, AcceptedCountExact
<1>1. CASE UNCHANGED vars
  BY <1>1, <1>k DEF vars
<1>2. ASSUME NEW t \in Threads, NEW u \in Uploads, PostUsers(t, u) \/ RefuseUpload(t, u)
      PROVE  AcceptedCountExact'
  <2>1. PICK a \in {NoAnswer, BusyAnswer} : answer' = [answer EXCEPT ![t] = a]
    BY <1>2 DEF PostUsers, RefuseUpload
  <2>2. \A s \in Threads \ {t} : upload'[s] = upload[s]
    BY <1>t, <1>2 DEF PostUsers, RefuseUpload, TypeOK
  <2>3. a \in Answers /\ a.code # 200
    BY <1>c, AnswerTypes
  <2> QED
    BY <1>r, <2>1, <2>2, <2>3
<1>3. ASSUME NEW t \in Threads, NEW E \in SUBSET Endpoints, StartReads(t, E)
      PROVE  AcceptedCountExact'
  <2>1. \A s \in Threads \ {t} : upload'[s] = upload[s]
    BY <1>t, <1>3 DEF StartReads, TypeOK
  <2> QED
    BY <1>c, <1>3, <1>r, <2>1, AnswerTypes DEF StartReads
<1>4. ASSUME NEW t \in Threads, ParseBody(t) PROVE AcceptedCountExact'
  <2>1. upload' = upload /\ (answer' = answer \/ answer' = [answer EXCEPT ![t] = Rejected])
    BY <1>4 DEF ParseBody
  <2> QED
    BY <1>c, <1>k, <1>r, <2>1, AnswerTypes
<1>5. ASSUME NEW t \in Threads, RejectUpload(t) PROVE AcceptedCountExact'
  BY <1>c, <1>5, <1>r, AnswerTypes DEF RejectUpload
<1>6. ASSUME NEW t \in Threads, AcceptUpload(t) PROVE AcceptedCountExact'
  <2>1. /\ answer' = [answer EXCEPT ![t] = Accepted(Len(users))]
        /\ upload' = upload
        /\ Len(users) = Size[upload[t]]
    BY <1>6 DEF AcceptUpload, Inv, StoreInv, FillInv, Busy
  <2>2. answer'[t].count = Size[upload'[t]]
    BY <1>t, <2>1 DEF TypeOK, Accepted
  <2>3. \A s \in Threads \ {t} : answer'[s] = answer[s]
    BY <1>t, <2>1 DEF TypeOK
  <2> QED
    BY <2>1, <2>2, <2>3 DEF AcceptedCountExact
<1>7. ASSUME NEW t \in Threads,
             \/ ClearUsers(t) \/ ThrowParseError(t) \/ EmplaceUser(t) \/ FillUser(t)
             \/ Unlock(t) \/ FinishReads(t)
      PROVE  AcceptedCountExact'
  BY <1>7, <1>k
     DEF ClearUsers, ThrowParseError, EmplaceUser, FillUser, Unlock, FinishReads, postVars
<1>8. ASSUME NEW r \in Readers, Reading(r) PROVE AcceptedCountExact'
  BY <1>8, <1>k DEF Reading, BeginScan, ReadUser, EndScan, postVars
<1> QED
  BY <1>1, <1>2, <1>3, <1>4, <1>5, <1>6, <1>7, <1>8, NextCases

\* 200 tells how many users the posted body holds, whatever else is posted
\* at the same time (134-136).
THEOREM AcceptedCountExactCorrect == Spec => []AcceptedCountExact
<1>1. Init => AcceptedCountExact
  BY DEF Init, AcceptedCountExact, NoAnswer
<1> QED
  BY <1>1, Invariance, CountStep, PTL DEF Spec

-----------------------------------------------------------------------------
(* The walks                                                               *)

\* A walk that no writer has disturbed has read a prefix of the store as it is.
QuietInv ==
  \A r \in Readers : ~overlapped[r] =>
    /\ scan[r] = "reading" =>
         /\ ~Filling
         /\ limit[r] = Len(users)
         /\ Len(seen[r]) <= limit[r]
         /\ \A i \in 1..Len(seen[r]) : seen[r][i] = users[i]
    /\ scan[r] = "done" => seen[r] = <<>> \/ \E u \in Bodies : seen[r] = Whole(u)

\* Steps that leave the store and the walks alone, and start no storing.
LEMMA QuietKept ==
  ASSUME QuietInv, UNCHANGED <<users, scan, limit, seen, overlapped>>,
         \A t \in Threads : pc'[t] \in Busy => pc[t] \in Busy
  PROVE  QuietInv'
BY DEF QuietInv, Filling, Busy

\* A change of the store disturbs every walk under way.
LEMMA QuietMutated ==
  ASSUME TypeOK, QuietInv, NEW new, Mutate(new)
  PROVE  QuietInv'
BY DEF QuietInv, Mutate, TypeOK

\* No step gives an undisturbed walk anything but the store as it is.
LEMMA QuietStep == Inv /\ Inv' /\ QuietInv /\ [Next]_vars => QuietInv'
<1> SUFFICES ASSUME Inv, Inv', QuietInv, [Next]_vars PROVE QuietInv'
  OBVIOUS
<1>t. TypeOK /\ TypeOK'
  BY DEF Inv
<1>p. ASSUME NEW t \in Threads, NEW to, Goto(t, to), to \notin Busy
      PROVE  \A s \in Threads : pc'[s] \in Busy => pc[s] \in Busy
  BY <1>p, <1>t DEF Goto, TypeOK
<1>1. CASE UNCHANGED vars
  BY <1>1, QuietKept DEF vars
<1>2. ASSUME NEW t \in Threads, NEW u \in Uploads, PostUsers(t, u) \/ RefuseUpload(t, u)
      PROVE  QuietInv'
  BY <1>2, <1>p, QuietKept DEF PostUsers, RefuseUpload, readVars, Busy
<1>3. ASSUME NEW t \in Threads, NEW E \in SUBSET Endpoints, StartReads(t, E) PROVE QuietInv'
  <2>1. \A s \in Threads : pc'[s] \in Busy => pc[s] \in Busy
    BY <1>3, <1>p DEF StartReads, Busy
  <2>2. \A r \in Readers : scan'[r] = scan[r] \/ scan'[r] = "asked"
    BY <1>3 DEF StartReads
  <2> QED
    BY <1>3, <2>1, <2>2 DEF StartReads, QuietInv, Filling, Busy
<1>4. ASSUME NEW t \in Threads, ParseBody(t) \/ ThrowParseError(t) \/ AcceptUpload(t) \/ Unlock(t)
      PROVE  QuietInv'
  BY <1>4, <1>p, QuietKept
     DEF ParseBody, ThrowParseError, AcceptUpload, Unlock, readVars, postVars, Busy
<1>5. ASSUME NEW t \in Threads, ClearUsers(t) \/ EmplaceUser(t) \/ FillUser(t)
      PROVE  QuietInv'
  BY <1>5, <1>t, QuietMutated DEF ClearUsers, EmplaceUser, FillUser
<1>6. ASSUME NEW t \in Threads, RejectUpload(t) PROVE QuietInv'
  <2>1. CASE \E new : Mutate(new)
    BY <1>t, <2>1, QuietMutated
  <2>2. CASE UNCHANGED <<users, readVars>>
    BY <1>6, <2>2, <1>p, QuietKept DEF RejectUpload, readVars, Busy
  <2> QED
    BY <1>6, <2>1, <2>2 DEF RejectUpload
<1>7. ASSUME NEW t \in Threads, FinishReads(t) PROVE QuietInv'
  <2>1. \A s \in Threads : pc'[s] \in Busy => pc[s] \in Busy
    BY <1>7, <1>p DEF FinishReads, Busy
  <2>2. \A r \in Readers : \/ scan'[r] = "none"
                           \/ /\ scan'[r] = scan[r] /\ limit'[r] = limit[r]
                              /\ seen'[r] = seen[r] /\ overlapped'[r] = overlapped[r]
    BY <1>7, <1>t DEF FinishReads, TypeOK
  <2> QED
    BY <1>7, <2>1, <2>2 DEF FinishReads, postVars, QuietInv, Filling, Busy
<1>8. ASSUME NEW r \in Readers, Reading(r) PROVE QuietInv'
  <2>1. UNCHANGED <<users, pc>> /\ (Filling' <=> Filling)
    BY <1>8 DEF Reading, BeginScan, ReadUser, EndScan, postVars, Filling
  <2>2. \A q \in Readers \ {r} : /\ scan'[q] = scan[q] /\ limit'[q] = limit[q]
                                 /\ seen'[q] = seen[q] /\ overlapped'[q] = overlapped[q]
    BY <1>8, <1>t DEF Reading, BeginScan, ReadUser, EndScan, TypeOK
  <2>3. CASE BeginScan(r)
    BY <2>1, <2>2, <2>3, <1>t DEF BeginScan, QuietInv, TypeOK
  <2>4. CASE ReadUser(r)
    <3>1. PICK v \in Readable(r) : seen' = [seen EXCEPT ![r] = Append(@, v)]
      BY <2>4 DEF ReadUser
    <3> SUFFICES ASSUME ~overlapped[r], scan[r] = "reading"
                 PROVE  /\ Len(seen'[r]) <= limit[r]
                        /\ \A i \in 1..Len(seen'[r]) : seen'[r][i] = users[i]
      BY <2>1, <2>2, <2>4, <1>t DEF ReadUser, QuietInv, TypeOK
    <3>2. Len(seen[r]) < limit[r] /\ limit[r] = Len(users)
          /\ \A i \in 1..Len(seen[r]) : seen[r][i] = users[i]
      BY <2>4 DEF ReadUser, QuietInv
    <3>3. v = users[Len(seen[r]) + 1]
      BY <3>1, <3>2 DEF Readable
    <3>4. seen'[r] = Append(seen[r], v) /\ seen[r] \in Seq(Uploads \union {Torn})
      BY <3>1, <1>t DEF TypeOK
    <3> QED
      BY <3>2, <3>3, <3>4, <1>t DEF TypeOK
  <2>5. CASE EndScan(r)
    <3> SUFFICES ASSUME ~overlapped[r]
                 PROVE  seen[r] = <<>> \/ \E u \in Bodies : seen[r] = Whole(u)
      BY <2>1, <2>2, <2>5, <1>t DEF EndScan, QuietInv, TypeOK
    <3>1. ~Filling /\ Len(seen[r]) = Len(users)
          /\ \A i \in 1..Len(seen[r]) : seen[r][i] = users[i]
      BY <2>5 DEF EndScan, QuietInv
    <3>2. seen[r] \in Seq(Uploads \union {Torn}) /\ users \in Seq(Uploads \union {Torn})
      BY <1>t DEF TypeOK
    <3>3. seen[r] = users
      BY <3>1, <3>2
    <3> QED
      BY <3>1, <3>3 DEF Inv, StoreInv, RestInv
  <2> QED
    BY <1>8, <2>3, <2>4, <2>5 DEF Reading
<1> QED
  BY <1>1, <1>2, <1>3, <1>4, <1>5, <1>6, <1>7, <1>8, NextCases

\* A GET that no upload disturbs answers from one upload, whole, although it
\* takes no lock (163, 188, 238, 276).
THEOREM QuietReadsExactCorrect == Spec => []QuietReadsExact
<1>1. Init => QuietInv
  BY DEF Init, QuietInv
<1>2. QuietInv => QuietReadsExact
  BY DEF QuietInv, QuietReadsExact
<1> QED
  BY <1>1, <1>2, Invariance, QuietStep, PTL DEF Spec

-----------------------------------------------------------------------------
(* The handler implements UserStore                                        *)

\* Where the threads that post are decides what step of the store is seen.
LEMMA StoreStutters ==
  ASSUME UNCHANGED users,
         \A t \in Threads : pc'[t] \in Busy \union {"dead"} <=> pc[t] \in Busy \union {"dead"},
         \A t \in Threads : pc'[t] = "dead" <=> pc[t] = "dead"
  PROVE  UNCHANGED <<Content, Mode>>
BY DEF Content, Mode, Filling, Busy

\* Every step of the handler is one of the store or none.
LEMMA StoreRefined == Inv /\ Inv' /\ [Next]_vars => [Store!Next]_(Store!vars)
<1> SUFFICES ASSUME Inv, Inv', [Next]_vars PROVE [Store!Next]_(Store!vars)
  OBVIOUS
<1> DEFINE P == [Store!Next]_(Store!vars)
<1>s. ASSUME UNCHANGED <<Content, Mode>> PROVE P
  BY <1>s DEF Store!vars
<1>a. \A s, t \in Threads : pc[s] \in Busy /\ pc[t] \in Busy \union {"dead"} => s = t
  BY ThreadAssumption DEF Inv, OneWriter, Writing, Busy
<1>b. \A s, t \in Threads : pc'[s] \in Busy /\ pc'[t] \in Busy \union {"dead"} => s = t
  BY ThreadAssumption DEF Inv, OneWriter, Writing, Busy
<1>c. ASSUME NEW t \in Threads, NEW from, NEW to, pc[t] = from, Goto(t, to),
             from \notin Busy \union {"dead"}, to \notin Busy \union {"dead"}, UNCHANGED users
      PROVE  P
  <2>1. pc'[t] = to /\ \A s \in Threads \ {t} : pc'[s] = pc[s]
    BY <1>c DEF Goto, Inv, TypeOK
  <2> QED
    BY <1>c, <2>1, <1>s, StoreStutters
<1> HIDE DEF P
<1>1. ASSUME UNCHANGED vars PROVE P
  BY <1>1, <1>s, StoreStutters DEF vars
<1>2. ASSUME NEW t \in Threads, NEW u \in Uploads, PostUsers(t, u) PROVE P
  BY <1>2, <1>c DEF PostUsers, Busy
<1>3. ASSUME NEW t \in Threads, NEW u \in Uploads, RefuseUpload(t, u) PROVE P
  BY <1>3, <1>s, StoreStutters DEF RefuseUpload
<1>4. ASSUME NEW t \in Threads, NEW E \in SUBSET Endpoints, StartReads(t, E) PROVE P
  BY <1>4, <1>c DEF StartReads, Busy
<1>5. ASSUME NEW t \in Threads, ParseBody(t) PROVE P
  BY <1>5, <1>c DEF ParseBody, Busy
<1>6. ASSUME NEW t \in Threads, ClearUsers(t) PROVE P
  <2>1. pc[t] = "clear" /\ pc'[t] = "fill" /\ \A s \in Threads \ {t} : pc'[s] = pc[s]
    BY <1>6 DEF ClearUsers, Goto, Inv, TypeOK
  <2>2. \A s \in Threads : pc[s] \notin Busy \union {"dead"}
    BY <2>1, ThreadAssumption DEF Inv, OneWriter, Writing, Busy
  <2>3. \A s \in Threads : pc'[s] # "dead"
    BY <2>1, <2>2 DEF Busy
  <2>4. Mode = "open" /\ Mode' = "replacing" /\ Content' = <<>>
    BY <2>1, <2>2, <2>3 DEF Mode, Content, Filling, Busy
  <2> QED
    BY <2>4 DEF P, Store!Next, Store!BeginReplacement
<1>7. ASSUME NEW t \in Threads, ThrowParseError(t) PROVE P
  <2>1. pc[t] = "fill" /\ pc'[t] = "dead" /\ UNCHANGED users
        /\ \A s \in Threads \ {t} : pc'[s] = pc[s]
    BY <1>7 DEF ThrowParseError, Goto, Inv, TypeOK, postVars
  <2>2. (\A s \in Threads : pc[s] # "dead") /\ \A s \in Threads : pc'[s] \notin Busy
    BY <1>a, <1>b, <2>1 DEF Busy
  <2>3. users' = <<>>
    BY <2>1 DEF Inv, StoreInv, LostThreadFreezesStore
  <2>4. Mode = "replacing" /\ Mode' = "stuck" /\ Content = <<>> /\ Content' = <<>>
    BY <2>1, <2>2, <2>3 DEF Mode, Content, Filling, Busy
  <2> QED
    BY <2>4 DEF P, Store!Next, Store!GetStuck
<1>8. ASSUME NEW t \in Threads, EmplaceUser(t) \/ FillUser(t) PROVE P
  <2>1. pc[t] \in Busy /\ pc'[t] \in Busy /\ \A s \in Threads \ {t} : pc'[s] = pc[s]
    BY <1>8 DEF EmplaceUser, FillUser, Goto, Busy, Inv, TypeOK
  <2>2. UNCHANGED <<Content, Mode>>
    BY <2>1 DEF Content, Mode, Filling, Busy
  <2> QED
    BY <2>2, <1>s
<1>9. ASSUME NEW t \in Threads, AcceptUpload(t) \/ RejectUpload(t) PROVE P
  <2>1. pc[t] \in Busy /\ pc'[t] = "unlock" /\ \A s \in Threads \ {t} : pc'[s] = pc[s]
    BY <1>9 DEF AcceptUpload, RejectUpload, Goto, Busy, Inv, TypeOK
  <2>2. (\A s \in Threads : pc[s] # "dead")
        /\ \A s \in Threads : pc'[s] \notin Busy \union {"dead"}
    BY <1>a, <2>1 DEF Busy
  <2>3. users' = <<>> \/ \E u \in Bodies : users' = Whole(u)
    BY <2>2 DEF Inv, StoreInv, RestInv, Filling, Busy
  <2>4. Mode = "replacing" /\ Mode' = "open" /\ Content' = users'
    BY <2>1, <2>2 DEF Mode, Content, Filling, Busy
  <2>5. Content' \in {<<>>} \union {Whole(u) : u \in Bodies}
    BY <2>3, <2>4
  <2> QED
    BY <2>4, <2>5 DEF P, Store!Next, Store!Replace
<1>12. ASSUME NEW t \in Threads, Unlock(t) PROVE P
  BY <1>12, <1>c DEF Unlock, Busy
<1>13. ASSUME NEW t \in Threads, FinishReads(t) PROVE P
  BY <1>13, <1>c DEF FinishReads, postVars, Busy
<1>14. ASSUME NEW r \in Readers, Reading(r) PROVE P
  BY <1>14, <1>s, StoreStutters DEF Reading, BeginScan, ReadUser, EndScan, postVars
<1>15. P
  BY <1>1, <1>2, <1>3, <1>4, <1>5, <1>6, <1>7, <1>8, <1>9, <1>12, <1>13, <1>14, NextCases
<1> QED
  BY <1>15 DEF P

\* Leaving liveness aside, which the runs check, the handler implements the
\* store: an upload replaces it in one step, or freezes it empty.
THEOREM UserStoreImplemented == Spec => Store!SafeSpec
<1>1. Init => Store!Init
  BY DEF Init, Store!Init, Content, Mode, Filling
<1> QED
  BY <1>1, Invariance, StoreRefined, PTL DEF Spec, Store!SafeSpec

-----------------------------------------------------------------------------
(* The tasks of a request                                                  *)

\* Every step leaves the walks with the request they are made for.
LEMMA TasksStep ==
  TypeOK /\ TasksEndWithTheirRequest /\ [Next]_vars => TasksEndWithTheirRequest'
<1> SUFFICES ASSUME TypeOK, TasksEndWithTheirRequest, [Next]_vars
             PROVE TasksEndWithTheirRequest'
  OBVIOUS
<1>k. ASSUME UNCHANGED <<asked, scan>>, \A t \in Threads : pc[t] = "read" => pc'[t] = "read"
      PROVE  TasksEndWithTheirRequest'
  BY <1>k DEF TasksEndWithTheirRequest
<1>g. ASSUME NEW t \in Threads, NEW to, pc[t] # "read", Goto(t, to)
      PROVE  \A s \in Threads : pc[s] = "read" => pc'[s] = "read"
  BY <1>g DEF Goto, TypeOK
<1>1. CASE UNCHANGED vars
  BY <1>1, <1>k DEF vars
<1>2. ASSUME NEW t \in Threads, NEW u \in Uploads, PostUsers(t, u) \/ RefuseUpload(t, u)
      PROVE  TasksEndWithTheirRequest'
  BY <1>2, <1>k, <1>g DEF PostUsers, RefuseUpload, readVars
<1>3. ASSUME NEW t \in Threads, NEW E \in SUBSET Endpoints, StartReads(t, E)
      PROVE  TasksEndWithTheirRequest'
  <2>1. /\ pc[t] = "idle" /\ pc'[t] = "read" /\ asked'[t] = E
        /\ \A s \in Threads \ {t} : pc'[s] = pc[s] /\ asked'[s] = asked[s]
    BY <1>3 DEF StartReads, Goto, TypeOK
  <2>2. \A s \in Threads, e \in Endpoints :
          scan'[<<s, e>>] = IF s = t /\ e \in E THEN "asked" ELSE scan[<<s, e>>]
    BY <1>3 DEF StartReads, Readers
  <2>3. \A e \in Endpoints : scan[<<t, e>>] = "none"
    BY <2>1 DEF TasksEndWithTheirRequest
  <2> QED
    BY <2>1, <2>2, <2>3 DEF TasksEndWithTheirRequest
<1>4. ASSUME NEW t \in Threads, Posting(t) PROVE TasksEndWithTheirRequest'
  <2>1. pc[t] # "read" /\ UNCHANGED <<asked, scan>> /\ \E to : Goto(t, to)
    BY <1>4 DEF Posting, ParseBody, ClearUsers, ThrowParseError, EmplaceUser, FillUser, AcceptUpload,
                RejectUpload, Unlock, Mutate, readVars
  <2> QED
    BY <1>k, <1>g, <2>1
<1>5. ASSUME NEW t \in Threads, FinishReads(t) PROVE TasksEndWithTheirRequest'
  <2>1. \A s \in Threads \ {t} : pc'[s] = pc[s] /\ asked'[s] = asked[s]
    BY <1>5 DEF FinishReads, Goto, TypeOK
  <2>2. \A s \in Threads, e \in Endpoints :
          scan'[<<s, e>>] = IF s = t /\ e \in asked[t] THEN "none" ELSE scan[<<s, e>>]
    BY <1>5 DEF FinishReads, Readers
  <2> QED
    BY <2>1, <2>2 DEF TasksEndWithTheirRequest
<1>6. ASSUME NEW r \in Readers, Reading(r) PROVE TasksEndWithTheirRequest'
  <2>1. UNCHANGED <<pc, asked>> /\ \A q \in Readers : scan'[q] # "none" => scan[q] # "none"
    BY <1>6 DEF Reading, BeginScan, ReadUser, EndScan, TypeOK
  <2> QED
    BY <2>1 DEF TasksEndWithTheirRequest, Readers
<1> QED
  BY <1>1, <1>2, <1>3, <1>4, <1>5, <1>6, NextCases DEF Posting

\* However many requests are evaluated at once, none of them leaves its frame
\* while one of its tasks, which refer to it, is still walking the store
\* (301-338).
THEOREM TasksEndWithTheirRequestCorrect == Spec => []TasksEndWithTheirRequest
<1>1. Init => TasksEndWithTheirRequest
  BY DEF Init, TasksEndWithTheirRequest, Readers
<1> QED
  BY <1>1, TypeCorrect, TasksStep, PTL DEF Spec

-----------------------------------------------------------------------------
(* What the responses depend on                                            *)

\* what the parsers make of a body, as an answer
RejectedFor(u, a) == u \in Uploads /\ a = Rejected /\ Outcome[u] \in {"unparsed", "notarray", "partial"}
AcceptedFor(u, a) == u \in Uploads /\ a = Accepted(Size[u]) /\ Outcome[u] = "ok"

\* A thread has given no response, has turned its upload away, or has given the
\* one that the parsers make of its body.
ParsersDecide ==
  \A t \in Threads :
    \/ answer[t] \in {NoAnswer, BusyAnswer}
    \/ RejectedFor(upload[t], answer[t])
    \/ AcceptedFor(upload[t], answer[t])

\* An element that cannot be read is the one after the good ones of its body.
LEMMA RejectedElement ==
  ASSUME Inv, NEW t \in Threads, pc[t] = "build", taken[t] > Size[upload[t]]
  PROVE  Outcome[upload[t]] = "partial"
<1>1. upload[t] \in Uploads /\ taken[t] \in Nat
  BY DEF Inv, TypeOK, Writing
<1>2. taken[t] <= Started(upload[t]) /\ taken[t] > 0
  BY DEF Inv, StoreInv, FillInv, Busy
<1> QED
  BY <1>1, <1>2, UploadAssumption DEF Started, Outcomes

\* Every step leaves the answers to the parsers.
LEMMA ParsersStep == Inv /\ ParsersDecide /\ [Next]_vars => ParsersDecide'
<1> SUFFICES ASSUME Inv, ParsersDecide, [Next]_vars PROVE ParsersDecide'
  OBVIOUS
<1>t. TypeOK
  BY DEF Inv
<1>k. ASSUME UNCHANGED <<upload, answer>> PROVE ParsersDecide'
  BY <1>k DEF ParsersDecide
<1>r. ASSUME NEW t \in Threads, NEW a, answer' = [answer EXCEPT ![t] = a],
             \A s \in Threads \ {t} : upload'[s] = upload[s],
             \/ a \in {NoAnswer, BusyAnswer}
             \/ RejectedFor(upload'[t], a)
             \/ AcceptedFor(upload'[t], a)
      PROVE  ParsersDecide'
  <2>1. answer'[t] = a /\ \A s \in Threads \ {t} : answer'[s] = answer[s]
    BY <1>t, <1>r DEF TypeOK
  <2> QED
    BY <1>r, <2>1 DEF ParsersDecide
<1>1. CASE UNCHANGED vars
  BY <1>1, <1>k DEF vars
<1>2. ASSUME NEW t \in Threads, NEW u \in Uploads, PostUsers(t, u) \/ RefuseUpload(t, u)
      PROVE  ParsersDecide'
  <2>1. PICK a \in {NoAnswer, BusyAnswer} : answer' = [answer EXCEPT ![t] = a]
    BY <1>2 DEF PostUsers, RefuseUpload
  <2>2. \A s \in Threads \ {t} : upload'[s] = upload[s]
    BY <1>t, <1>2 DEF PostUsers, RefuseUpload, TypeOK
  <2> QED
    BY <1>r, <2>1, <2>2
<1>3. ASSUME NEW t \in Threads, NEW E \in SUBSET Endpoints, StartReads(t, E) PROVE ParsersDecide'
  <2>1. /\ answer' = [answer EXCEPT ![t] = NoAnswer]
        /\ \A s \in Threads \ {t} : upload'[s] = upload[s]
    BY <1>t, <1>3 DEF StartReads, TypeOK
  <2> QED
    BY <1>r, <2>1
<1>4. ASSUME NEW t \in Threads, ParseBody(t) \/ RejectUpload(t) PROVE ParsersDecide'
  <2>1. /\ upload' = upload
        /\ \/ answer' = answer
           \/ /\ answer' = [answer EXCEPT ![t] = Rejected]
              /\ Outcome[upload[t]] \in {"unparsed", "notarray", "partial"}
    BY <1>4, RejectedElement DEF ParseBody, RejectUpload
  <2>2. upload[t] \in Uploads
    BY <1>4, <1>t DEF ParseBody, RejectUpload, TypeOK, Writing
  <2>3. answer' = [answer EXCEPT ![t] = Rejected] => RejectedFor(upload'[t], Rejected) \/ answer' = answer
    BY <2>1, <2>2 DEF RejectedFor
  <2> QED
    BY <1>k, <1>r, <2>1, <2>3
<1>5. ASSUME NEW t \in Threads, AcceptUpload(t) PROVE ParsersDecide'
  <2>1. /\ upload' = upload /\ answer' = [answer EXCEPT ![t] = Accepted(Len(users))]
        /\ Outcome[upload[t]] = "ok" /\ Len(users) = Size[upload[t]]
    BY <1>5 DEF AcceptUpload, Inv, StoreInv, FillInv, Busy
  <2>2. upload[t] \in Uploads
    BY <1>5, <1>t DEF AcceptUpload, TypeOK, Writing
  <2>3. AcceptedFor(upload'[t], Accepted(Len(users)))
    BY <2>1, <2>2 DEF AcceptedFor
  <2> QED
    BY <1>r, <2>1, <2>3
<1>6. ASSUME NEW t \in Threads,
             \/ ClearUsers(t) \/ ThrowParseError(t) \/ EmplaceUser(t) \/ FillUser(t)
             \/ Unlock(t) \/ FinishReads(t)
      PROVE  ParsersDecide'
  BY <1>6, <1>k
     DEF ClearUsers, ThrowParseError, EmplaceUser, FillUser, Unlock, FinishReads, postVars
<1>7. ASSUME NEW r \in Readers, Reading(r) PROVE ParsersDecide'
  BY <1>7, <1>k DEF Reading, BeginScan, ReadUser, EndScan, postVars
<1> QED
  BY <1>1, <1>2, <1>3, <1>4, <1>5, <1>6, <1>7, NextCases

\* What is answered depends on the body and on nothing that other threads do
\* meanwhile, but for the refusal that says so: 200 for a body read to its end,
\* 400 for one without parts, without an array or with a malformed user
\* (120-142).
THEOREM ParsersDecideCorrect == Spec => []ParsersDecide
<1>1. Init => ParsersDecide
  <2>1. Init => \A t \in Threads : answer[t] = NoAnswer
    BY DEF Init
  <2> QED
    BY <2>1 DEF ParsersDecide
<1> QED
  BY <1>1, Invariance, ParsersStep, PTL DEF Spec
=============================================================================
