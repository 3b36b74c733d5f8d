--------------------------- MODULE ClientStreamProofs ---------------------------
(***************************************************************************)
(* What follows from the shape of a client's requests, for the proofs      *)
(* about either server.                                                    *)
(***************************************************************************)
EXTENDS ClientStream, FiniteSetTheorems, TLAPS

\* Every piece is of a request.
LEMMA PieceTypes ==
  /\ Len(Stream) \in Nat /\ N \in Nat
  /\ \A i \in 1..Len(Stream) : Stream[i].request \in 1..N
<1>1. \A i \in 1..Len(Stream) : Stream[i] \in Pieces
  BY StreamAssumption
<1> QED
  BY <1>1, StreamAssumption DEF Pieces

\* What is not a head goes on with the request of the piece before it.
LEMMA Continued ==
  ASSUME NEW i \in 1..Len(Stream), Stream[i].part # "head"
  PROVE  i - 1 \in 1..Len(Stream) /\ Stream[i - 1].request = Stream[i].request
<1> DEFINE q == Stream[i].request
<1>1. q \in 1..N /\ Len(Stream) \in Nat
  BY PieceTypes
<1>2. PICK first, last \in 1..Len(Stream) :
        /\ {k \in 1..Len(Stream) : Stream[k].request = q} = first..last
        /\ Stream[first].part = "head"
  BY <1>1, StreamOrder
<1>3. i \in first..last /\ i # first
  BY <1>2
<1>4. i - 1 \in first..last
  BY <1>1, <1>3
<1> QED
  BY <1>2, <1>4

\* A request has one head, and heads come in the order of their requests.
LEMMA HeadsIncrease ==
  ASSUME NEW i \in 1..Len(Stream), NEW j \in 1..Len(Stream), i < j,
         Stream[i].part = "head", Stream[j].part = "head"
  PROVE  Stream[i].request < Stream[j].request
<1>1. Stream[j].request \in 1..N /\ Stream[i].request \in 1..N /\ Len(Stream) \in Nat /\ N \in Nat
  BY PieceTypes
<1>2. Stream[i].request <= Stream[j].request
  BY StreamOrder
<1>3. ASSUME NEW q \in 1..N, Stream[i].request = q, Stream[j].request = q PROVE FALSE
  <2>1. PICK first, last \in 1..Len(Stream) :
          /\ {k \in 1..Len(Stream) : Stream[k].request = q} = first..last
          /\ Stream[first + 1].part = "end"
          /\ \A k \in (first + 2)..last : Stream[k].part = "body"
    BY StreamOrder
  <2>2. i \in first..last /\ j \in first..last
    BY <1>3, <2>1
  <2>3. j # first + 1 /\ j \notin (first + 2)..last
    BY <2>1
  <2> QED
    BY <1>1, <2>2, <2>3
<1> QED
  BY <1>1, <1>2, <1>3

\* The length of a body is the number of pieces behind the end of the head.
LEMMA BodyLengthOf ==
  ASSUME NEW q \in 1..N, NEW first \in 1..Len(Stream), NEW last \in 1..Len(Stream),
         {i \in 1..Len(Stream) : Stream[i].request = q} = first..last,
         first < last, Stream[first].part = "head", Stream[first + 1].part = "end",
         \A i \in (first + 2)..last : Stream[i].part = "body"
  PROVE  BodyLength[q] = last - first - 1
<1> DEFINE S == {i \in 1..Len(Stream) : Stream[i].request = q /\ Stream[i].part = "body"}
           low == first + 2
<1>1. first \in Nat /\ last \in Nat /\ low \in Nat /\ Len(Stream) \in Nat
  BY PieceTypes
<1>2. S \subseteq low..last
  <2> SUFFICES ASSUME NEW i \in S PROVE i \in low..last
    OBVIOUS
  <2>1. i \in first..last /\ i # first /\ i # first + 1
    OBVIOUS
  <2> QED
    BY <1>1, <2>1
<1>3. low..last \subseteq S
  <2> SUFFICES ASSUME NEW i \in low..last PROVE i \in S
    OBVIOUS
  <2>1. i \in first..last /\ Stream[i].part = "body"
    BY <1>1
  <2> QED
    BY <2>1
<1>4. S = low..last
  BY <1>2, <1>3
<1>5. BodyLength[q] = Cardinality(low..last)
  BY <1>4 DEF BodyLength
<1> HIDE DEF low
<1>6. Cardinality(low..last) = IF low > last THEN 0 ELSE last - low + 1
  BY <1>1, FS_Interval
<1> QED
  BY <1>1, <1>5, <1>6 DEF low

\* The lengths of the bodies are numbers.
LEMMA BodyLengthType == \A q \in 1..N : BodyLength[q] \in Nat
<1> SUFFICES ASSUME NEW q \in 1..N PROVE BodyLength[q] \in Nat
  OBVIOUS
<1> DEFINE S == {i \in 1..Len(Stream) : Stream[i].request = q /\ Stream[i].part = "body"}
<1>1. Len(Stream) \in Nat
  BY StreamAssumption
<1>2. IsFiniteSet(1..Len(Stream)) /\ S \in SUBSET (1..Len(Stream))
  BY <1>1, FS_Interval
<1>3. Cardinality(S) \in Nat
  BY <1>2, FS_Subset, FS_CardinalityType
<1> QED
  BY <1>3 DEF BodyLength
=============================================================================
