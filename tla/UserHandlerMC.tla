----------------------------- MODULE UserHandlerMC -----------------------------
(***************************************************************************)
(* Small instances of UserHandler for TLC: one form for each thing the     *)
(* parsers may make of it, with at most two users.                         *)
(***************************************************************************)
EXTENDS UserRequests, TLC

CONSTANTS quoted, noUsers, number, half, good

FieldOf(name, content) == [name |-> name, file |-> name = "users", content |-> content]
FormOf(boundary, fields) ==
  [header |-> "Content-Type", boundary |-> boundary, fields |-> fields]

\* users that differ in what the reports look at
Log(date, action) == [date |-> date, action |-> action]
Somebody(n, active, score, country, team, leader, completed, logs) ==
  [name |-> n, active |-> active, score |-> score, country |-> country,
   team |-> [name |-> team, leader |-> leader, completed |-> completed], logs |-> logs]
Ann == Somebody("ann", TRUE, TopScore, "br", "red", TRUE, 2, <<Log(1, "login"), Log(1, "logout")>>)
Cat == Somebody("cat", FALSE, TopScore, "pt", "red", FALSE, 1, <<Log(2, "login"), Log(1, "login")>>)
Dan == Somebody("dan", TRUE, TopScore - 1, "br", "blue", FALSE, 0, <<>>)
MCPeople == {Ann, Cat, Dan}

Note == FieldOf("note", <<Junk>>)

MCUploads == {quoted, noUsers, number, half, good}
MCForms ==
  quoted :> FormOf("\"b\"", <<FieldOf("users", Array(<<Good(Ann)>>))>>)
  @@ noUsers :> FormOf("b", <<Note>>)
  @@ number :> FormOf("b", <<FieldOf("users", <<Number>>), Note>>)
  @@ half :> FormOf("b", <<FieldOf("users", Array(<<Good(Dan), Bad, Good(Ann)>>))>>)
  @@ good :> FormOf("b", <<Note, FieldOf("users", Array(<<Good(Ann), Good(Cat)>>))>>)

\* what the parsers make of these, in definitions of their own that TLC
\* evaluates once
OutcomesOfForms == [u \in MCUploads |-> OutcomeOf(Request(MCForms[u]))]
SizesOfForms == [u \in MCUploads |-> SizeOf(Request(MCForms[u]))]
MCOutcome == OutcomesOfForms
MCSize == SizesOfForms
=============================================================================
