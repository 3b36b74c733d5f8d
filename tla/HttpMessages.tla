------------------------------ MODULE HttpMessages ------------------------------
(***************************************************************************)
(* From the bytes of a request to the handler that answers it:             *)
(* RequestFactory.hpp, HttpRequest.cpp, RequestRouter.hpp with the routes  *)
(* of server.cpp, and the switch of UserHandler::handleRequest.            *)
(*                                                                         *)
(* A text is a sequence of tokens.  A token stands for the characters the  *)
(* code looks for, or for a stretch in which it looks for nothing; `is'    *)
(* says which and `of' what it holds.                                      *)
(***************************************************************************)
EXTENDS Integers, SequencesExt

Token(is, of) == [is |-> is, of |-> of]
Word(w) == Token("word", w)
Space == Token(" ", "")
Crlf == Token("crlf", "")
Question == Token("?", "")
Header(key, value) == Token("header", <<key, value>>)    \* a line with a colon

\* find(): the first place of t in the text, or 0 for npos
Find(text, t, from) == SelectInSubSeq(text, from, Len(text), LAMBDA x : x = t)

\* the text between two places
Between(text, i, j) == SubSeq(text, i + 1, j - 1)

\* what a stretch without separators says
Said(text) == IF text = <<>> THEN "" ELSE Head(text).of

-----------------------------------------------------------------------------
(* RequestFactory and HttpRequest                                          *)

HttpMethods == {"GET", "POST", "PUT", "DELETE", "HEAD", "OPTIONS", "PATCH"}

\* the text starts with a method, in capitals, and a space
IsHttp(raw) ==
  Len(raw) >= 2 /\ raw[1].is = "word" /\ raw[1].of \in HttpMethods /\ raw[2] = Space

\* what is before the `?'
PathOf(target) ==
  LET q == Find(target, Question, 1)
  IN Said(IF q = 0 THEN target ELSE SubSeq(target, 1, q - 1))

\* slip: any line may be the empty one
EndAtAnyLine(raw, first) == Find(raw, Crlf, first + 1)

\* the header lines end at the first empty line, or where no line ends
EndOfHeaders(raw, first) ==
  SelectInSubSeq([i \in 1..Len(raw) |-> i], first + 1, Len(raw),
                 LAMBDA i : raw[i] = Crlf /\ raw[i - 1] = Crlf)

\* of two headers with one name the later stays; getHeader() of a name that is
\* not there is ""
ValueIn(lines, key, none) ==
  LET i == SelectLastInSeq(lines, LAMBDA x : x.is = "header" /\ x.of[1] = key)
  IN IF i = 0 THEN none ELSE lines[i].of[2]

NoRequestParsed == [method |-> "", uri |-> "", lines |-> <<>>, body |-> <<>>]

ParseHttp(raw) ==
  LET first == Find(raw, Crlf, 1)
      line == SubSeq(raw, 1, first - 1)
      space1 == Find(line, Space, 1)
      space2 == Find(line, Space, space1 + 1)
      end == EndOfHeaders(raw, first)
  IN IF first = 0 THEN NoRequestParsed
     ELSE [method |-> Said(IF space1 = 0 THEN line ELSE SubSeq(line, 1, space1 - 1)),
           uri |-> IF space1 = 0 THEN ""
                   ELSE PathOf(Between(line, space1, IF space2 = 0 THEN Len(line) + 1 ELSE space2)),
           lines |-> Between(raw, first, IF end = 0 THEN Len(raw) + 1 ELSE end),
           body |-> IF end = 0 THEN <<>> ELSE SubSeq(raw, end + 1, Len(raw))]

\* a CommandRequest answers every question with ""
Parse(raw) == IF IsHttp(raw) THEN ParseHttp(raw) ELSE NoRequestParsed

-----------------------------------------------------------------------------
(* The router and the handlers                                             *)

ToUpper(word) == CASE word = "get" -> "GET" [] word = "post" -> "POST" [] OTHER -> word

UserEndpoints ==
  {<<"POST", "/users">>, <<"GET", "/superusers">>, <<"GET", "/top-countries">>,
   <<"GET", "/team-insights">>, <<"GET", "/active-users-per-day">>, <<"GET", "/evaluation">>}
Routes == {<<"GET", "/hello">>} \union UserEndpoints

DefaultHandler == <<"", "404">>
MethodNotAllowed == <<"", "405">>

\* UserHandler::handleRequest compares the method as it was sent
UserHandlerAnswers(request) ==
  LET asked == <<request.method, request.uri>>
  IN IF asked \in UserEndpoints THEN asked ELSE MethodNotAllowed

\* the router compares it in capitals
Route(request) ==
  LET asked == <<ToUpper(request.method), request.uri>>
  IN IF asked \in UserEndpoints THEN UserHandlerAnswers(request)
     ELSE IF asked \in Routes THEN asked ELSE DefaultHandler

Endpoint(raw) == Route(Parse(raw))

-----------------------------------------------------------------------------
(* What clients write, and where it goes                                   *)

\* the request a client writes for a method and a target
Written(method, target, lines, body) ==
  <<Word(method), Space>> \o target \o <<Space, Word("HTTP/1.1"), Crlf>>
    \o FlattenSeq([i \in 1..Len(lines) |-> <<lines[i], Crlf>>]) \o <<Crlf>> \o body

\* some of the requests a client may write
Methods == {"GET", "POST", "PUT", "get", "post", "BREW"}
Targets == {<<Word(r[2])>> : r \in Routes} \union {<<Word("/")>>}
WithQuery(target) == {target, target \o <<Question, Word("a=b")>>}

\* A request reaches the endpoint registered for its method and path, whatever
\* its query, and every other one the default handler: the factory, the router
\* and UserHandler each have their own idea of the method, and together they
\* never answer 405 (RequestFactory.hpp:21, RequestRouter.hpp:33,
\* RequestHandlers.hpp:74-98).
ASSUME RoutesAgree ==
  \A method \in Methods, plain \in Targets : \A target \in WithQuery(plain) :
    LET asked == <<method, Said(plain)>>
    IN Endpoint(Written(method, target, <<>>, <<>>)) =
         IF asked \in Routes THEN asked ELSE DefaultHandler
=============================================================================
