------------------------- MODULE AsyncClientHandlerMC -------------------------
(***************************************************************************)
(* A small instance of AsyncClientHandler: three requests, the first and   *)
(* the last with a body, from clients that wait or pipeline, ask to close  *)
(* or make a handler throw.                                                *)
(***************************************************************************)
EXTENDS AsyncClientHandler, TLC

Piece(q, p) == [request |-> q, part |-> p]
Get(q) == <<Piece(q, "head"), Piece(q, "end")>>
Post(q) == Get(q) \o <<Piece(q, "body"), Piece(q, "body")>>

MCStream == Post(1) \o Get(2) \o Post(3)
MCClients ==
  [pipelines : BOOLEAN, closing : {{2}}, throwing : {{}}]
    \union [pipelines : BOOLEAN, closing : {{}}, throwing : {{3}}]

\* two requests and nothing special, for the counterexample
ShortStream == Get(1) \o Get(2)
PlainClient == {[pipelines |-> FALSE, closing |-> {}, throwing |-> {}]}
=============================================================================
