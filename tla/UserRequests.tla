------------------------------ MODULE UserRequests ------------------------------
(***************************************************************************)
(* UserHandler fed with the bytes clients send: each upload is a form,     *)
(* written as an HTTP request, and what the handler makes of it is what    *)
(* HttpRequest and MultipartBodyParser find in those bytes.                *)
(***************************************************************************)
EXTENDS UserHandler, MultipartBodyParser, UserQueries

CONSTANTS
  Forms,     \* the form behind each upload
  People     \* the users in them

\* the JSON in a field: an array of users, good and bad, or something else
Array(elements) == <<Word("[")>> \o elements \o <<Word("]")>>
Good(user) == Token("user", user)
Bad == Word("bad")
Junk == Word("junk")      \* no JSON at all
Number == Word("1")       \* JSON, but no array

\* a form: the name and the boundary its Content-Type header is written with
\* (`Content-Type' and "b" by browsers, other case and quotes by others), and
\* its fields
Request(form) ==
  Written("POST", <<Word("/users")>>,
          <<Header("Host", "h"), Header(form.header, ContentType(TRUE, form.boundary))>>,
          Form(form.fields, "b"))

\* the parts parse() finds in a request
PartsOf(raw) ==
  LET request == Parse(raw)
  IN Parts(request.body, ValueIn(request.lines, "Content-Type", ContentType(FALSE, "")))

\* padded_string(...): JSON does not mind the line end behind the field
UsersText(raw) ==
  LET value == GetValue(PartsOf(raw), "users")
  IN At(value, {i \in 1..Len(value) : value[i] # Crlf})

\* simdjson: nothing, or no JSON, makes iterate() fail, and the use of its
\* result throw
Verdict(parts, text) ==
  IF parts = <<>> THEN "unparsed"
  ELSE IF text = <<>> \/ Contains(text, Junk) THEN "throws"
  ELSE IF Head(text) # Word("[") THEN "notarray"
  ELSE IF Contains(text, Bad) THEN "partial" ELSE "ok"
OutcomeOf(raw) == Verdict(PartsOf(raw), UsersText(raw))

\* the users before the first malformed one
UsersBeforeBad(text) ==
  LET bad == SelectInSeq(text, LAMBDA x : x = Bad)
  IN At(text, {i \in 1..Len(text) : text[i].is = "user" /\ (bad = 0 \/ i < bad)})
SizeOf(raw) == Len(UsersBeforeBad(UsersText(raw)))

\* a sequence of whatever it holds
IsSequence(s) == s \in Seq(ToSet(s))

ASSUME PeopleAssumption ==
  \A p \in People :
    /\ p.active \in BOOLEAN /\ p.score \in Int
    /\ p.team.leader \in BOOLEAN /\ p.team.completed \in Nat
    /\ IsSequence(p.logs)

\* the texts clients put into `users'
IsJson(text) ==
  \/ text \in {<<>>, <<Junk>>, <<Number>>}
  \/ LET elements == SubSeq(text, 2, Len(text) - 1)
     IN /\ Len(text) >= 2
        /\ elements \in Seq({Good(p) : p \in People} \union {Bad})
        /\ text = Array(elements)

\* No field is without a name, and none holds the delimiter its form is written
\* with, or the one its header announces.
ASSUME FormAssumption ==
  /\ DOMAIN Forms = Uploads
  /\ \A u \in Uploads :
       /\ DOMAIN Forms[u] = {"header", "boundary", "fields"}
       /\ IsSequence(Forms[u].fields)
       /\ \A i \in 1..Len(Forms[u].fields) :
            LET f == Forms[u].fields[i]
            IN /\ f.name # "" /\ IsSequence(f.content)
               /\ f.name = "users" => IsJson(f.content)
               /\ \A b \in {"b", Forms[u].boundary} : ~Contains(f.content, Delimiter(b))

\* Each of them is an upload for the router, and what UserHandler is told of it
\* is what the parsers find in its request.
ASSUME OutcomeAssumption ==
  \A u \in Uploads :
    LET raw == Request(Forms[u])
    IN Endpoint(raw) = <<"POST", "/users">> /\ Outcome[u] = OutcomeOf(raw) /\ Size[u] = SizeOf(raw)

-----------------------------------------------------------------------------
(* Properties                                                              *)

\* what the client knows of its form
UsersIn(form) ==
  LET i == SelectLastInSeq(form.fields, LAMBDA f : f.name = "users")
  IN IF i = 0 THEN <<>> ELSE form.fields[i].content
Plain(form) == form.header = "Content-Type" /\ form.boundary = "b" /\ form.fields # <<>>
Sent(form) == Cardinality({i \in 1..Len(UsersIn(form)) : UsersIn(form)[i].is = "user"})
WellFormed(form) ==
  /\ Plain(form)
  /\ UsersIn(form) # <<>> /\ Head(UsersIn(form)) = Word("[") /\ ~Contains(UsersIn(form), Bad)

\* the users in a form, up to the first malformed one
Users(form) ==
  [i \in 1..Len(UsersBeforeBad(UsersIn(form))) |-> UsersBeforeBad(UsersIn(form))[i].of]

\* Whoever else uploads at the same time, a client whose form is well formed,
\* and which is not told to come back, is answered 200 with the number of users
\* it has put into its form; nobody else is (RequestHandlers.hpp:113-151 on
\* MultipartBodyParser.hpp and HttpRequest.cpp).
AnsweredForTheFormSent ==
  \A t \in Threads :
    LET form == Forms[upload[t]]
    IN /\ answer[t].code = 200 => WellFormed(form) /\ answer[t].count = Sent(form)
       /\ answer[t].code = 400 /\ ~answer[t].busy => ~WellFormed(form)

\* A report that no upload raced with, whichever of the four it is, is about
\* the users of one form, up to the first malformed one, or about nobody, and
\* is what counting them one thing at a time says (RequestHandlers.hpp:153-299
\* on what 113-151 has stored): no user is counted twice or left out, ties and
\* limits included, and no share is taken of an empty team.
QuietReportsAreExact ==
  \A r \in Readers : scan[r] = "done" /\ ~overlapped[r] =>
    LET read == [i \in 1..Len(seen[r]) |-> Users(Forms[seen[r][i]])[i]]
    IN \E sent \in {<<>>} \union {Users(Forms[u]) : u \in Bodies} :
         /\ SuperusersRight(Superusers(read), sent)
         /\ \A list \in TopCountries(read) : CountriesRight(list, sent)
         /\ TeamsRight(TeamInsights(read), sent)
         /\ LoginsRight(ActiveUsers(read), sent)
=============================================================================
