------------------------------ MODULE ClientStream ------------------------------
(***************************************************************************)
(* The bytes that a client sends over one connection, for either server:   *)
(* the pieces of its requests, one request after the other.  "head" is a   *)
(* request line with its headers, "end" the empty line behind them, "body" *)
(* one unit of body.                                                       *)
(***************************************************************************)
EXTENDS Integers, Sequences, FiniteSets

CONSTANTS
  N,           \* how many requests the client sends
  Stream       \* the pieces of requests 1..N

Pieces == [request : 1..N, part : {"head", "end", "body"}]

ASSUME StreamAssumption == N \in Nat /\ Stream \in Seq(Pieces)

\* a request is a head, its end and what there is of a body
ASSUME StreamOrder ==
  /\ \A q \in 1..N : \E first, last \in 1..Len(Stream) :
       /\ {i \in 1..Len(Stream) : Stream[i].request = q} = first..last
       /\ first < last
       /\ Stream[first].part = "head" /\ Stream[first + 1].part = "end"
       /\ \A i \in (first + 2)..last : Stream[i].part = "body"
  /\ \A i, j \in 1..Len(Stream) : i < j => Stream[i].request <= Stream[j].request

NotFound == 0    \* what the default handler answers to bytes that are no HTTP

\* what the header of a request says of its body, 0 without one
BodyLength == [q \in 1..N |-> Cardinality({i \in 1..Len(Stream) : /\ Stream[i].request = q
                                                                  /\ Stream[i].part = "body"})]
=============================================================================
