-------------------------- MODULE MultipartBodyParser --------------------------
(***************************************************************************)
(* MultipartBodyParser.hpp: the parts of a multipart/form-data body by     *)
(* name.  UserHandler asks its only instance under m_mutex, and only after *)
(* parse() has said TRUE, which it does for freshly filled parts only.     *)
(***************************************************************************)
EXTENDS HttpMessages

\* "--" and the boundary, "--", and the parameters of a Content-Disposition
Delimiter(boundary) == Token("delimiter", boundary)
Dashes == Token("--", "")
Disposition == Token("Content-Disposition:", "")
Name(n) == Token("name=", n)
FileName(n) == Token("filename=", n)

\* a value of Content-Type: whether it says multipart/form-data, and what
\* follows `boundary=', to the end of the line, quotes and all
ContentType(multipart, boundary) == [multipart |-> multipart, boundary |-> boundary]

\* `name="' is found in `filename="' as well
NameAt(headers, from) ==
  SelectInSubSeq(headers, from, Len(headers), LAMBDA x : x.is \in {"name=", "filename="})

\* parsePart: the name, "" without one, and what follows the empty line
ParsePart(part) ==
  LET end == SelectInSeq([i \in 1..Len(part) |-> i],
                         LAMBDA i : i > 1 /\ part[i] = Crlf /\ part[i - 1] = Crlf)
      headers == SubSeq(part, 1, end - 2)
      disposition == Find(headers, Disposition, 1)
      name == NameAt(headers, disposition)
  IN [name |-> IF end = 0 \/ disposition = 0 \/ name = 0 THEN "" ELSE headers[name].of,
      content |-> SubSeq(part, end + 1, Len(part))]

\* the delimiters that open a part: all before the closing one, or the last
Opening(body, delimiter) ==
  LET all == {i \in 1..Len(body) : body[i] = delimiter}
  IN {i \in all : /\ \E j \in all : j > i
                  /\ \A j \in all : j <= i => body[j + 1] # Dashes}

\* a part goes up to the next delimiter, without the line end after its own
PartAt(body, delimiter, i) ==
  LET start == IF body[i + 1] = Crlf THEN i + 2 ELSE i + 1
  IN SubSeq(body, start, Find(body, delimiter, start) - 1)

\* what stands at some of the places of a text, in order
At(text, places) ==
  [k \in 1..Cardinality(places) |->
     text[CHOOSE i \in places : Cardinality({j \in places : j <= i}) = k]]

\* m_parts, in the order of the body; parse() says whether there are any
Parts(body, contentType) ==
  LET delimiter == Delimiter(contentType.boundary)
      opening == At([i \in 1..Len(body) |-> i], Opening(body, delimiter))
      parts == [k \in 1..Len(opening) |-> ParsePart(PartAt(body, delimiter, opening[k]))]
  IN IF ~contentType.multipart \/ contentType.boundary = "" THEN <<>>
     ELSE At(parts, {k \in 1..Len(parts) : parts[k].name # ""})

\* getValue: of two parts with one name the later stays
GetValue(parts, key) ==
  LET i == SelectLastInSeq(parts, LAMBDA p : p.name = key)
  IN IF i = 0 THEN <<>> ELSE parts[i].content

-----------------------------------------------------------------------------
(* What clients write, and what is found in it                             *)

\* the body a client writes for the fields of a form, with its own boundary
Field(f) ==
  <<Crlf, Disposition, Name(f.name)>> \o (IF f.file THEN <<FileName("f")>> ELSE <<>>)
    \o <<Crlf, Crlf>> \o f.content \o <<Crlf>>
Form(fields, boundary) ==
  FlattenSeq([i \in 1..Len(fields) |-> <<Delimiter(boundary)>> \o Field(fields[i])])
    \o <<Delimiter(boundary), Dashes, Crlf>>

\* forms of up to two fields, with a content that has empty lines, dashes or
\* the delimiter of another form in it
Contents == {<<>>, <<Word("x")>>, <<Crlf, Crlf, Word("y")>>, <<Dashes>>,
             <<Delimiter("other"), Crlf, Disposition, Name("z"), Crlf, Crlf>>}
Fields == [name : {"users", "note"}, file : BOOLEAN, content : Contents]

\* Whatever a form holds, its fields are found, whole and in order, and nothing
\* else is (MultipartBodyParser.hpp:19-42): a loop over find() is easily one
\* delimiter or one line end off.
ASSUME PartsAreTheFields ==
  \A fields \in BoundedSeq(Fields, 2) :
    Parts(Form(fields, "b"), ContentType(TRUE, "b")) =
      [i \in 1..Len(fields) |-> [name |-> fields[i].name,
                                 content |-> fields[i].content \o <<Crlf>>]]
=============================================================================
