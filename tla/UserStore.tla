------------------------------- MODULE UserStore -------------------------------
(***************************************************************************)
(* The store of src/server/RequestHandlers.hpp as its clients may see it:  *)
(* an upload empties it and then puts one complete content in its place,   *)
(* or gets stuck on the way, after which nothing changes any more.         *)
(***************************************************************************)
CONSTANTS
  Contents,   \* what the store may hold
  Empty       \* the content of an empty store

VARIABLES
  content,    \* what the store holds
  mode        \* "open", "replacing" or "stuck"

vars == <<content, mode>>

Init == content = Empty /\ mode = "open"

BeginReplacement ==
  /\ mode = "open"
  /\ content' = Empty
  /\ mode' = "replacing"

Replace ==
  /\ mode = "replacing"
  /\ content' \in Contents
  /\ mode' = "open"

GetStuck ==
  /\ mode = "replacing"
  /\ mode' = "stuck"
  /\ UNCHANGED content

Next == BeginReplacement \/ Replace \/ GetStuck

SafeSpec == Init /\ [][Next]_vars

\* a replacement that has begun comes to an end
Spec == SafeSpec /\ WF_vars(Replace \/ GetStuck)
=============================================================================
