------------------------------ MODULE UserHandler ------------------------------
(***************************************************************************)
(* The in-memory user store of src/server/RequestHandlers.hpp (class       *)
(* UserHandler) and the IO threads that call into it at the same time.     *)
(*                                                                         *)
(* POST /users takes m_mutex with try_lock, parses the multipart body,     *)
(* clears the vector `users' and appends the parsed users to it one by     *)
(* one.  The GET handlers walk the same vector without the mutex, and      *)
(* GET /evaluation runs all of them at once in std::async tasks.           *)
(*                                                                         *)
(* A user of the store is represented by the upload it came with, or by    *)
(* Torn: an element under construction, or what is read through an         *)
(* iterator that a writer has invalidated.  The process crash such a read  *)
(* may end in is not modelled.                                             *)
(***************************************************************************)
EXTENDS Integers, Sequences

CONSTANTS
  Threads,    \* the IO threads, each inside at most one handleRequest
  NoThread,   \* the mutex is free
  Endpoints,  \* the GET handlers that walk the store
  Uploads,    \* the bodies POST /users may carry
  NoUpload,   \* a thread that has not posted yet
  Outcome,    \* what the parsers make of each body
  Size,       \* how many well-formed users each body starts with
  Torn        \* not a user of any upload

Outcomes == {"unparsed",  \* no usable multipart part: parse() returns false
             "throws",    \* `document doc = parser.iterate(...)' throws
             "notarray",  \* get() fails before any element
             "partial",   \* get() fails at the element after Size[u] good ones
             "ok"}

ASSUME UploadAssumption ==
  /\ Outcome \in [Uploads -> Outcomes]
  /\ Size \in [Uploads -> Nat]
  /\ Torn \notin Uploads
  /\ NoUpload \notin Uploads
ASSUME ThreadAssumption == NoThread \notin Threads

Readers == Threads \X Endpoints     \* a walk over the store made for a thread

Bodies == {u \in Uploads : Outcome[u] \in {"partial", "ok"}}
Whole(u) == [i \in 1..Size[u] |-> u]
Answers == [code : {0, 200, 400}, count : Nat, busy : BOOLEAN]
NoAnswer == [code |-> 0, count |-> 0, busy |-> FALSE]
BusyAnswer == [code |-> 400, count |-> 0, busy |-> TRUE]
Rejected == [code |-> 400, count |-> 0, busy |-> FALSE]
Accepted(n) == [code |-> 200, count |-> n, busy |-> FALSE]

VARIABLES
  users,      \* UserHandler::users
  lock,       \* UserHandler::m_mutex
  pc,         \* where each thread is in its handler
  upload,     \* the body a thread last posted
  taken,      \* how many elements of its body a thread has started to read
  answer,     \* the response a thread last gave to POST /users
  asked,      \* the endpoints a reading thread walks the store for
  scan,       \* progress of each walk
  limit,      \* the end() a walk started with, as a count
  seen,       \* what a walk has read
  overlapped  \* a writer has changed the vector under a walk

postVars == <<users, lock, upload, taken, answer>>
readVars == <<asked, scan, limit, seen, overlapped>>
vars == <<users, lock, pc, upload, taken, answer, asked, scan, limit, seen, overlapped>>

Writing == {"locked", "clear", "fill", "build", "unlock"}

TypeOK ==
  /\ users \in Seq(Uploads \union {Torn})
  /\ lock \in Threads \union {NoThread}
  /\ pc \in [Threads -> Writing \union {"idle", "read", "dead"}]
  /\ upload \in [Threads -> Uploads \union {NoUpload}]
  /\ \A t \in Threads : pc[t] \in Writing \union {"dead"} => upload[t] \in Uploads
  /\ taken \in [Threads -> Nat]
  /\ answer \in [Threads -> Answers]
  /\ asked \in [Threads -> SUBSET Endpoints]
  /\ scan \in [Readers -> {"none", "asked", "reading", "done"}]
  /\ limit \in [Readers -> Nat]
  /\ seen \in [Readers -> Seq(Uploads \union {Torn})]
  /\ overlapped \in [Readers -> BOOLEAN]

Init ==
  /\ users = <<>>
  /\ lock = NoThread
  /\ pc = [t \in Threads |-> "idle"]
  /\ upload = [t \in Threads |-> NoUpload]
  /\ taken = [t \in Threads |-> 0]
  /\ answer = [t \in Threads |-> NoAnswer]
  /\ asked = [t \in Threads |-> {}]
  /\ scan = [r \in Readers |-> "none"]
  /\ limit = [r \in Readers |-> 0]
  /\ seen = [r \in Readers |-> <<>>]
  /\ overlapped = [r \in Readers |-> FALSE]

Goto(t, where) == pc' = [pc EXCEPT ![t] = where]

-----------------------------------------------------------------------------
(* POST /users                                                             *)

\* slip: the result of try_lock() is not looked at
PostUsersUnlocked(t, u) ==
  /\ pc[t] = "idle"
  /\ lock' = t
  /\ upload' = [upload EXCEPT ![t] = u]
  /\ answer' = [answer EXCEPT ![t] = NoAnswer]
  /\ Goto(t, "locked")
  /\ UNCHANGED <<users, taken, readVars>>

\* m_mutex.try_lock() succeeds
PostUsers(t, u) ==
  /\ pc[t] = "idle"
  /\ lock = NoThread
  /\ lock' = t
  /\ upload' = [upload EXCEPT ![t] = u]
  /\ answer' = [answer EXCEPT ![t] = NoAnswer]
  /\ Goto(t, "locked")
  /\ UNCHANGED <<users, taken, readVars>>

\* try_lock() fails: 400, "Another request is being processed"
RefuseUpload(t, u) ==
  /\ pc[t] = "idle"
  /\ lock # NoThread
  /\ upload' = [upload EXCEPT ![t] = u]
  /\ answer' = [answer EXCEPT ![t] = BusyAnswer]
  /\ UNCHANGED <<users, lock, pc, taken, readVars>>

\* some thread is between clear() and the end of get()
Filling == \E t \in Threads : pc[t] \in {"fill", "build"}

\* m_bodyParser->parse(): FALSE leaves the store as it is and answers 400
ParseBody(t) ==
  /\ pc[t] = "locked"
  /\ \/ /\ Outcome[upload[t]] = "unparsed"
        /\ answer' = [answer EXCEPT ![t] = Rejected]
        /\ Goto(t, "unlock")
     \/ /\ Outcome[upload[t]] # "unparsed"
        /\ Goto(t, "clear")
        /\ UNCHANGED answer
  /\ UNCHANGED <<users, lock, upload, taken, readVars>>

\* a change of the vector reaches every walk that holds iterators into it
Mutate(newUsers) ==
  /\ users' = newUsers
  /\ overlapped' = [r \in Readers |-> overlapped[r] \/ scan[r] = "reading"]
  /\ UNCHANGED <<asked, scan, limit, seen>>

\* slip: get() is trusted to empty the vector
ForgetClear(t) ==
  /\ pc[t] = "clear"
  /\ Mutate(users)
  /\ Goto(t, "fill")
  /\ UNCHANGED <<lock, upload, taken, answer>>

ClearUsers(t) ==
  /\ pc[t] = "clear"
  /\ Mutate(<<>>)
  /\ Goto(t, "fill")
  /\ UNCHANGED <<lock, upload, taken, answer>>

\* iterate() refuses the text and the conversion to `document' throws: the
\* exception leaves io_context.run() and ends the thread, mutex still held
ThrowParseError(t) ==
  /\ pc[t] = "fill"
  /\ Outcome[upload[t]] = "throws"
  /\ Goto(t, "dead")
  /\ UNCHANGED <<postVars, readVars>>

\* how many elements get() starts: it also starts the one it fails at
Started(u) == CASE Outcome[u] = "ok" -> Size[u]
                [] Outcome[u] = "partial" -> Size[u] + 1
                [] OTHER -> 0

\* get<std::vector<User>>: an element is added empty, then read in place
EmplaceUser(t) ==
  /\ pc[t] = "fill"
  /\ taken[t] < Started(upload[t])
  /\ Mutate(Append(users, Torn))
  /\ taken' = [taken EXCEPT ![t] = @ + 1]
  /\ Goto(t, "build")
  /\ UNCHANGED <<lock, upload, answer>>

FillUser(t) ==
  /\ pc[t] = "build"
  /\ taken[t] <= Size[upload[t]]
  /\ Mutate([users EXCEPT ![Len(users)] = upload[t]])
  /\ Goto(t, "fill")
  /\ UNCHANGED <<lock, upload, taken, answer>>

\* all elements read: 200 and users.size()
AcceptUpload(t) ==
  /\ pc[t] = "fill"
  /\ Outcome[upload[t]] = "ok"
  /\ taken[t] = Size[upload[t]]
  /\ taken' = [taken EXCEPT ![t] = 0]
  /\ answer' = [answer EXCEPT ![t] = Accepted(Len(users))]
  /\ Goto(t, "unlock")
  /\ UNCHANGED <<users, lock, upload, readVars>>

\* slip: the element that could not be read stays in the vector
RejectKeepsElement(t) ==
  /\ \/ pc[t] = "build" /\ taken[t] > Size[upload[t]]
     \/ pc[t] = "fill" /\ Outcome[upload[t]] = "notarray"
  /\ taken' = [taken EXCEPT ![t] = 0]
  /\ answer' = [answer EXCEPT ![t] = Rejected]
  /\ Goto(t, "unlock")
  /\ UNCHANGED <<users, lock, upload, readVars>>

\* an element cannot be read (it is popped) or the text is no array: 400, 0
RejectUpload(t) ==
  /\ \/ /\ pc[t] = "build"
        /\ taken[t] > Size[upload[t]]
        /\ Mutate(SubSeq(users, 1, Len(users) - 1))
     \/ /\ pc[t] = "fill"
        /\ Outcome[upload[t]] = "notarray"
        /\ UNCHANGED <<users, readVars>>
  /\ taken' = [taken EXCEPT ![t] = 0]
  /\ answer' = [answer EXCEPT ![t] = Rejected]
  /\ Goto(t, "unlock")
  /\ UNCHANGED <<lock, upload>>

Unlock(t) ==
  /\ pc[t] = "unlock"
  /\ lock' = NoThread
  /\ Goto(t, "idle")
  /\ UNCHANGED <<users, upload, taken, answer, readVars>>

-----------------------------------------------------------------------------
(* The GET handlers and GET /evaluation                                    *)

\* E is one endpoint for its own handler, all of them for GET /evaluation,
\* which starts one std::async task for each
StartReads(t, E) ==
  /\ pc[t] = "idle"
  /\ asked' = [asked EXCEPT ![t] = E]
  /\ scan' = [r \in Readers |-> IF r \in {t} \X E THEN "asked" ELSE scan[r]]
  /\ upload' = [upload EXCEPT ![t] = NoUpload]
  /\ answer' = [answer EXCEPT ![t] = NoAnswer]
  /\ Goto(t, "read")
  /\ UNCHANGED <<users, lock, taken, limit, seen, overlapped>>

\* slip: the walk ends one element before end()
BeginScanShort(r) ==
  /\ scan[r] = "asked"
  /\ scan' = [scan EXCEPT ![r] = "reading"]
  /\ limit' = [limit EXCEPT ![r] = Len(users) - 1]
  /\ seen' = [seen EXCEPT ![r] = <<>>]
  /\ overlapped' = [overlapped EXCEPT ![r] = Filling]
  /\ UNCHANGED <<postVars, pc, asked>>

\* for (auto user : users) takes begin() and end() of the vector as it is
BeginScan(r) ==
  /\ scan[r] = "asked"
  /\ scan' = [scan EXCEPT ![r] = "reading"]
  /\ limit' = [limit EXCEPT ![r] = Len(users)]
  /\ seen' = [seen EXCEPT ![r] = <<>>]
  /\ overlapped' = [overlapped EXCEPT ![r] = Filling]
  /\ UNCHANGED <<postVars, pc, asked>>

\* once a writer has been there the element may be anything that occupies,
\* or occupied, the place the iterator points to
Readable(r) ==
  LET i == Len(seen[r]) + 1
  IN (IF i <= Len(users) THEN {users[i]} ELSE {})
       \union (IF overlapped[r] THEN {Torn} ELSE {})

ReadUser(r) ==
  /\ scan[r] = "reading"
  /\ Len(seen[r]) < limit[r]
  /\ \E v \in Readable(r) : seen' = [seen EXCEPT ![r] = Append(@, v)]
  /\ UNCHANGED <<postVars, pc, asked, scan, limit, overlapped>>

EndScan(r) ==
  /\ scan[r] = "reading"
  /\ Len(seen[r]) = limit[r]
  /\ scan' = [scan EXCEPT ![r] = "done"]
  /\ UNCHANGED <<postVars, pc, asked, limit, seen, overlapped>>

\* slip: the response is built when the first future is ready
FinishAfterFirst(t) ==
  /\ pc[t] = "read"
  /\ LET done == {e \in asked[t] : scan[<<t, e>>] = "done"}
     IN /\ done # {}
        /\ scan' = [r \in Readers |-> IF r \in {t} \X done THEN "none" ELSE scan[r]]
  /\ asked' = [asked EXCEPT ![t] = {}]
  /\ Goto(t, "idle")
  /\ UNCHANGED <<postVars, limit, seen, overlapped>>

\* slip: a request for one endpoint waits for all of them
FinishWaitsForAll(t) ==
  /\ pc[t] = "read"
  /\ \A e \in Endpoints : scan[<<t, e>>] = "done"
  /\ asked' = [asked EXCEPT ![t] = {}]
  /\ scan' = [r \in Readers |-> IF r[1] = t THEN "none" ELSE scan[r]]
  /\ limit' = [r \in Readers |-> IF r[1] = t THEN 0 ELSE limit[r]]
  /\ seen' = [r \in Readers |-> IF r[1] = t THEN <<>> ELSE seen[r]]
  /\ overlapped' = [r \in Readers |-> r[1] # t /\ overlapped[r]]
  /\ Goto(t, "idle")
  /\ UNCHANGED postVars

\* fut.get() for every task, then the response; the walks' locals go
FinishReads(t) ==
  /\ pc[t] = "read"
  /\ \A e \in asked[t] : scan[<<t, e>>] = "done"
  /\ asked' = [asked EXCEPT ![t] = {}]
  /\ scan' = [r \in Readers |-> IF r \in {t} \X asked[t] THEN "none" ELSE scan[r]]
  /\ limit' = [r \in Readers |-> IF r \in {t} \X asked[t] THEN 0 ELSE limit[r]]
  /\ seen' = [r \in Readers |-> IF r \in {t} \X asked[t] THEN <<>> ELSE seen[r]]
  /\ overlapped' = [r \in Readers |-> r \notin {t} \X asked[t] /\ overlapped[r]]
  /\ Goto(t, "idle")
  /\ UNCHANGED postVars

-----------------------------------------------------------------------------
Requests(t) ==
  \/ \E u \in Uploads : PostUsers(t, u) \/ RefuseUpload(t, u)
  \/ \E e \in Endpoints : StartReads(t, {e})
  \/ StartReads(t, Endpoints)

Posting(t) ==
  \/ ParseBody(t) \/ ClearUsers(t) \/ ThrowParseError(t)
  \/ EmplaceUser(t) \/ FillUser(t) \/ AcceptUpload(t) \/ RejectUpload(t)
  \/ Unlock(t)

Reading(r) == BeginScan(r) \/ ReadUser(r) \/ EndScan(r)

Next ==
  \/ \E t \in Threads : Requests(t) \/ Posting(t) \/ FinishReads(t)
  \/ \E r \in Readers : Reading(r)

\* a thread inside a handler, or an async task, is run by the system; that a
\* request arrives is up to the clients
Fairness ==
  /\ \A t \in Threads : WF_vars(Posting(t) \/ FinishReads(t))
  /\ \A r \in Readers : WF_vars(Reading(r))

Spec == Init /\ [][Next]_vars /\ Fairness

-----------------------------------------------------------------------------
(* What the store promises                                                 *)

\* At most one thread is between try_lock and unlock, dead ones included:
\* the vector has one writer although no guard object pairs the two calls
\* (RequestHandlers.hpp:120-144).
OneWriter ==
  \A t \in Threads : (pc[t] \in Writing \union {"dead"}) <=> (lock = t)

\* Unless an upload is being stored, the store is empty or holds one upload
\* whole, up to its first malformed user.  While one is being stored it
\* holds users of that upload only, the last of them perhaps unfinished:
\* clear() precedes each upload and nobody else gets in between (131-143).
StoreIsOneUpload ==
  \/ users = <<>>
  \/ \E u \in Bodies : users = Whole(u)
  \/ \E t \in Threads :
       /\ pc[t] \in {"fill", "build"}
       /\ \A i \in 1..Len(users) :
            users[i] = (IF pc[t] = "build" /\ i = Len(users) THEN Torn ELSE upload[t])

\* A thread lost to a parser exception left the store empty and the mutex
\* locked: from then on the store stays empty, and since every later upload
\* is refused no second thread can be lost that way (353).
LostThreadFreezesStore ==
  \A t \in Threads : pc[t] = "dead" => users = <<>> /\ lock = t

\* 200 reports the number of users the posted body holds (134-136), however
\* many other uploads were tried meanwhile.
AcceptedCountExact ==
  \A t \in Threads : answer[t].code = 200 => answer[t].count = Size[upload[t]]

\* A GET during which no upload touched the vector answers from all of one
\* upload, or from the empty store: an upload is never seen half stored
\* by a request that did not race with it (163, 188, 238, 276).
QuietReadsExact ==
  \A r \in Readers : scan[r] = "done" /\ ~overlapped[r] =>
    seen[r] = <<>> \/ \E u \in Bodies : seen[r] = Whole(u)

\* GET /evaluation leaves its frame, which its tasks refer to, only when
\* every task has finished (335-338).
TasksEndWithTheirRequest ==
  \A t \in Threads, e \in Endpoints :
    scan[<<t, e>>] # "none" => pc[t] = "read" /\ e \in asked[t]

\* Apart from those who look while it happens, an upload replaces the store
\* in one step: the handler implements UserStore, in which a refused upload
\* changes nothing and a lost thread leaves the store empty for good.
Content == IF Filling THEN <<>> ELSE users

Mode == IF \E t \in Threads : pc[t] = "dead" THEN "stuck"
        ELSE IF Filling THEN "replacing" ELSE "open"

Store == INSTANCE UserStore WITH
  Contents <- {<<>>} \union {Whole(u) : u \in Bodies},
  Empty <- <<>>,
  content <- Content,
  mode <- Mode

ImplementsUserStore == Store!Spec

\* Every request is answered, or its thread is lost: nobody waits for the
\* mutex, not even for one that is never released (120-125).
EveryRequestEnds ==
  \A t \in Threads : pc[t] # "idle" ~> pc[t] \in {"idle", "dead"}

\* `Another request is being processed, please try again later.' (122-123):
\* an upload is refused only while another thread is working on one.
BusyMeansInProgress ==
  [][\A t \in Threads : answer'[t] = BusyAnswer /\ answer[t] # BusyAnswer =>
       \E s \in Threads \ {t} : pc[s] \in Writing]_vars

\* `user_count' = 0 (141): an upload answered with 0 users has stored none.
RejectedUploadStoresNothing ==
  \A t \in Threads :
    pc[t] = "unlock" /\ answer[t].count = 0
      /\ Outcome[upload[t]] \in {"notarray", "partial"} => users = <<>>

=============================================================================
