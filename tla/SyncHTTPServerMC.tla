---------------------------- MODULE SyncHTTPServerMC ----------------------------
(***************************************************************************)
(* A small instance of SyncHTTPServer: two clients, of the same address or *)
(* of two, with a request that has a body and one that has none.           *)
(***************************************************************************)
EXTENDS SyncHTTPServer, TLC

CONSTANTS c1, c2, p1, p2

\* which address the first one has makes no difference
MCFrom == (c1 :> {p1}) @@ (c2 :> {p1, p2})

Piece(q, p) == [request |-> q, part |-> p]
MCStream == <<Piece(1, "head"), Piece(1, "end"), Piece(1, "body"), Piece(2, "head"), Piece(2, "end")>>
=============================================================================
