-------------------------- MODULE UserRequestsProofs --------------------------
(***************************************************************************)
(* What the parsers find in any form that a client writes, how a request   *)
(* is routed, and what the reports count, for any number of fields and     *)
(* users: with UserHandlerProofs, what a client is answered, and told.     *)
(***************************************************************************)
EXTENDS UserRequests, UserHandlerProofs, SequenceTheorems, FiniteSetTheorems, FunctionTheorems, WellFoundedInduction

\* Every nonempty set of naturals has a least element.
LEMMA LeastNatural ==
  ASSUME NEW T \in SUBSET Nat, T # {}
  PROVE  \E x \in T : \A y \in T : ~(y < x)
<1>1. \E x \in T : \A y \in T : <<y, x>> \notin OpToRel(<, Nat)
  BY NatLessThanWellFounded, WFMin
<1> QED
  BY <1>1 DEF OpToRel

\* Induction up to a bound, about a set instead of a predicate.
LEMMA UpTo ==
  ASSUME NEW n \in Nat, NEW T, 0 \in T, \A k \in 0..(n - 1) : k \in T => k + 1 \in T
  PROVE  \A k \in 0..n : k \in T
<1> DEFINE Others == {k \in 0..n : k \notin T}
<1> SUFFICES ASSUME Others # {} PROVE FALSE
  OBVIOUS
<1>1. Others \in SUBSET Nat
  OBVIOUS
<1>2. PICK k \in Others : \A j \in Others : ~(j < k)
  <2> HIDE DEF Others
  <2> QED
    BY <1>1, LeastNatural
<1>3. k - 1 \in 0..(n - 1) /\ k - 1 \in T
  BY <1>2
<1> QED
  BY <1>2, <1>3

-----------------------------------------------------------------------------
(* The elements of a set of naturals in order                              *)

\* p lists the members of I in order
Lists(p, n, I) ==
  /\ p \in [1..n -> I]
  /\ \A i \in I : \E k \in 1..n : p[k] = i
  /\ \A j, k \in 1..n : j < k => p[j] < p[k]

\* Such a list is in order.
LEMMA ListOrder ==
  ASSUME NEW n \in Nat, NEW I \in SUBSET Int, NEW p, Lists(p, n, I)
  PROVE  \A j, k \in 1..n : p[j] \in Int /\ (p[j] <= p[k] <=> j <= k)
<1> SUFFICES ASSUME NEW j \in 1..n, NEW k \in 1..n
             PROVE  p[j] \in Int /\ (p[j] <= p[k] <=> j <= k)
  OBVIOUS
<1>1. p[j] \in Int /\ p[k] \in Int
  BY DEF Lists
<1>2. (j < k => p[j] < p[k]) /\ (k < j => p[k] < p[j])
  BY DEF Lists
<1>3. j < k \/ j = k \/ k < j
  OBVIOUS
<1> QED
  BY <1>1, <1>2, <1>3

\* Counting up to a member of a list finds its place.
LEMMA PlaceInList ==
  ASSUME NEW n \in Nat, NEW I \in SUBSET Int, NEW p, Lists(p, n, I), NEW k \in 1..n
  PROVE  Cardinality({j \in I : j <= p[k]}) = k
<1> DEFINE J == {j \in I : j <= p[k]}
           f == [j \in 1..k |-> p[j]]
<1>1. \A j \in 1..n : p[j] \in Int /\ (p[j] <= p[k] <=> j <= k)
  BY ListOrder
<1>2. f \in Bijection(1..k, J)
  <2>1. f \in [1..k -> J]
    BY <1>1 DEF Lists
  <2>2. \A i, j \in 1..k : f[i] = f[j] => i = j
    BY <1>1 DEF Lists
  <2>3. \A i \in J : \E j \in 1..k : f[j] = i
    BY <1>1 DEF Lists
  <2> QED
    BY <2>1, <2>2, <2>3 DEF Bijection, Injection, Surjection, IsInjective
<1>3. IsFiniteSet(1..k) /\ Cardinality(1..k) = k
  BY FS_Interval
<1> QED
  <2>1. ExistsBijection(1..k, J)
    BY <1>2, Zenon DEF ExistsBijection
  <2> QED
    BY <1>3, <2>1, FS_Bijection, Zenon

\* Such a set has as many members as the list.
LEMMA ListLength ==
  ASSUME NEW n \in Nat, NEW I \in SUBSET Int, NEW p, Lists(p, n, I)
  PROVE  IsFiniteSet(I) /\ Cardinality(I) = n
<1>1. p \in Bijection(1..n, I)
  <2>1. \A i, j \in 1..n : p[i] = p[j] => i = j
    <3> SUFFICES ASSUME NEW i \in 1..n, NEW j \in 1..n, p[i] = p[j] PROVE i = j
      OBVIOUS
    <3>1. p[i] \in Int /\ (p[i] <= p[j] <=> i <= j) /\ (p[j] <= p[i] <=> j <= i)
      BY ListOrder
    <3> QED
      BY <3>1
  <2> QED
    BY <2>1 DEF Lists, Bijection, Injection, Surjection, IsInjective
<1>2. IsFiniteSet(1..n) /\ Cardinality(1..n) = n
  BY FS_Interval
<1> QED
  <2>1. ExistsBijection(1..n, I)
    BY <1>1, Zenon DEF ExistsBijection
  <2> QED
    BY <1>2, <2>1, FS_Bijection, Zenon

\* At takes the places in that order.
LEMMA AtList ==
  ASSUME NEW n \in Nat, NEW I \in SUBSET Int, NEW p, Lists(p, n, I), NEW text
  PROVE  At(text, I) = [k \in 1..n |-> text[p[k]]]
<1>1. Cardinality(I) = n
  BY ListLength
<1>2. ASSUME NEW k \in 1..n
      PROVE  (CHOOSE i \in I : Cardinality({j \in I : j <= i}) = k) = p[k]
  <2>1. p[k] \in I /\ Cardinality({j \in I : j <= p[k]}) = k
    BY PlaceInList DEF Lists
  <2>2. \A i \in I : Cardinality({j \in I : j <= i}) = k => i = p[k]
    <3> SUFFICES ASSUME NEW i \in I, Cardinality({j \in I : j <= i}) = k PROVE i = p[k]
      OBVIOUS
    <3>1. PICK m \in 1..n : p[m] = i
      BY DEF Lists
    <3>2. Cardinality({j \in I : j <= p[m]}) = m
      BY PlaceInList
    <3> QED
      BY <3>1, <3>2
  <2> QED
    BY <2>1, <2>2
<1> DEFINE place(k) == CHOOSE i \in I : Cardinality({j \in I : j <= i}) = k
<1>3. At(text, I) = [k \in 1..n |-> text[place(k)]]
  BY <1>1, Zenon DEF At
<1>4. \A k \in 1..n : place(k) = p[k]
  BY <1>2, Zenon
<1> HIDE DEF place
<1> QED
  BY <1>3, <1>4

\* All the places in order.
LEMMA AtAll ==
  ASSUME NEW S, NEW s \in Seq(S), NEW I, I = 1..Len(s)
  PROVE  At(s, I) = s
<1> DEFINE n == Len(s)
           p == [k \in 1..n |-> k]
<1>1. n \in Nat /\ I \in SUBSET Int
  OBVIOUS
<1>2. Lists(p, n, I)
  BY <1>1 DEF Lists
<1>3. At(s, I) = [k \in 1..n |-> s[p[k]]]
  <2> HIDE DEF p, n
  <2> QED
    BY <1>1, <1>2, AtList
<1> QED
  BY <1>3

-----------------------------------------------------------------------------
(* Recursion                                                               *)

\* where n steps lead from b, one after the other
Walks(n, X, b, G) ==
  {h \in [0..n -> X] : h[0] = b /\ \A k \in 1..n : h[k] = G[k][h[k - 1]]}

\* Steps taken one after the other, each by its own function, lead somewhere.
LEMMA StepsLead ==
  ASSUME NEW n \in Nat, NEW X, NEW b \in X, NEW G \in [1..n -> [X -> X]]
  PROVE  Walks(n, X, b, G) # {}
<1> DEFINE Upto(k) == {h \in [0..k -> X] : h[0] = b /\ \A i \in 1..k : h[i] = G[i][h[i - 1]]}
           T == {k \in 0..n : Upto(k) # {}}
<1>1. 0 \in T
  <2>1. [i \in 0..0 |-> b] \in Upto(0)
    OBVIOUS
  <2> QED
    BY <2>1
<1>2. ASSUME NEW k \in 0..(n - 1), k \in T PROVE k + 1 \in T
  <2>1. PICK h \in [0..k -> X] : h[0] = b /\ \A i \in 1..k : h[i] = G[i][h[i - 1]]
    BY <1>2
  <2> DEFINE g == [i \in 0..(k + 1) |-> IF i = k + 1 THEN G[k + 1][h[k]] ELSE h[i]]
  <2>2. G[k + 1][h[k]] \in X
    BY <2>1
  <2>3. g \in [0..(k + 1) -> X] /\ g[0] = b
    BY <2>1, <2>2
  <2>4. \A i \in 1..(k + 1) : g[i] = G[i][g[i - 1]]
    <3> SUFFICES ASSUME NEW i \in 1..(k + 1) PROVE g[i] = G[i][g[i - 1]]
      OBVIOUS
    <3>1. i - 1 \in 0..(k + 1) /\ g[i - 1] = h[i - 1]
      OBVIOUS
    <3>2. CASE i = k + 1
      BY <3>1, <3>2
    <3>3. CASE i \in 1..k
      BY <2>1, <3>1, <3>3
    <3> QED
      BY <3>2, <3>3
  <2> HIDE DEF g
  <2>5. g \in Upto(k + 1)
    BY <2>3, <2>4
  <2>6. k + 1 \in 0..n
    OBVIOUS
  <2> HIDE DEF Upto
  <2> QED
    BY <2>5, <2>6
<1>3. n \in T
  <2>1. n \in 0..n
    OBVIOUS
  <2>2. \A k \in 0..n : k \in T
    <3> HIDE DEF T
    <3> QED
      BY <1>1, <1>2, UpTo, Zenon
  <2> QED
    BY <2>1, <2>2, Zenon
<1> QED
  BY <1>3 DEF Walks

\* FlattenSeq appends the sequences one after the other.
LEMMA Flattened ==
  ASSUME NEW T, NEW n \in Nat, NEW seqs \in [1..n -> Seq(T)]
  PROVE  \E h \in [0..n -> Seq(T)] :
           /\ h[0] = <<>>
           /\ \A k \in 1..n : h[k] = h[k - 1] \o seqs[k]
           /\ FlattenSeq(seqs) = h[n]
<1> DEFINE G == [k \in 1..n |-> [s \in Seq(T) |-> s \o seqs[k]]]
<1>1. PICK h \in [0..n -> Seq(T)] : h[0] = <<>> /\ \A k \in 1..n : h[k] = h[k - 1] \o seqs[k]
  <2>1. <<>> \in Seq(T) /\ G \in [1..n -> [Seq(T) -> Seq(T)]]
    OBVIOUS
  <2>2. \A k \in 1..n : \A s \in Seq(T) : G[k][s] = s \o seqs[k]
    OBVIOUS
  <2> HIDE DEF G
  <2>3. PICK h \in [0..n -> Seq(T)] : h[0] = <<>> /\ \A k \in 1..n : h[k] = G[k][h[k - 1]]
    <3> DEFINE X == Seq(T)
               b == <<>>
    <3>1. b \in X /\ G \in [1..n -> [X -> X]]
      BY <2>1
    <3> HIDE DEF X, b
    <3>2. Walks(n, X, b, G) # {}
      BY <3>1, StepsLead
    <3> QED
      BY <3>2 DEF X, b, Walks
  <2>4. \A k \in 1..n : h[k - 1] \in Seq(T)
    OBVIOUS
  <2> QED
    BY <2>2, <2>3, <2>4, Zenon
<1>a. seqs \in Seq(Seq(T)) /\ Len(seqs) = n
  OBVIOUS
<1>2. CASE n = 0
  <2>1. FlattenSeq(seqs) = seqs
    BY <1>a, <1>2 DEF FlattenSeq
  <2>2. seqs = <<>>
    BY <1>a, <1>2
  <2> QED
    BY <1>1, <1>2, <2>1, <2>2
<1>3. CASE n > 0
  <2> DEFINE Is(f) == f = [i \in 1..n |-> IF i = 1 THEN seqs[i] ELSE f[i - 1] \o seqs[i]]
             flatten == CHOOSE f : Is(f)
             g == [i \in 1..n |-> h[i]]
  <2>1. FlattenSeq(seqs) = flatten[n]
    BY <1>a, <1>3 DEF FlattenSeq
  <2>a. h[1] = seqs[1]
    <3>1. 1 \in 1..n /\ 1 - 1 = 0
      BY <1>3
    <3>2. h[1] = <<>> \o seqs[1] /\ seqs[1] \in Seq(T)
      BY <1>1, <3>1
    <3> QED
      BY <3>2
  <2>2. Is(g)
    <3>1. ASSUME NEW i \in 1..n PROVE g[i] = IF i = 1 THEN seqs[i] ELSE g[i - 1] \o seqs[i]
      <4>1. g[i] = h[i] /\ (i # 1 => g[i - 1] = h[i - 1])
        OBVIOUS
      <4> HIDE DEF g
      <4> QED
        BY <1>1, <2>a, <4>1
    <3> QED
      BY <3>1, Zenon DEF g
  <2>3. Is(flatten)
    <3> HIDE DEF Is
    <3> QED
      BY <2>2
  <2>4. \A i \in 1..n : flatten[i] = IF i = 1 THEN seqs[i] ELSE flatten[i - 1] \o seqs[i]
    <3> HIDE DEF flatten
    <3> QED
      BY <2>3
  <2> HIDE DEF flatten, Is, g
  <2> DEFINE U == {k \in 0..n : k = 0 \/ flatten[k] = h[k]}
  <2>5. 0 \in U
    OBVIOUS
  <2>6. ASSUME NEW k \in 0..(n - 1), k \in U PROVE k + 1 \in U
    <3> DEFINE m == k + 1
    <3>1. m \in 1..n /\ m - 1 = k /\ m \in 0..n
      OBVIOUS
    <3>2. flatten[k] = h[k] \/ m = 1
      BY <2>6
    <3> HIDE DEF m
    <3>3. flatten[m] = IF m = 1 THEN seqs[m] ELSE flatten[k] \o seqs[m]
      BY <2>4, <3>1, Zenon
    <3>4. h[m] = h[k] \o seqs[m]
      BY <1>1, <3>1, Zenon
    <3>5. flatten[m] = h[m]
      BY <2>a, <3>2, <3>3, <3>4, Zenon
    <3>6. m \in U
      BY <3>1, <3>5
    <3> QED
      BY <3>6 DEF m
  <2>7. \A k \in 0..n : k \in U
    <3> HIDE DEF U
    <3> QED
      BY <2>5, <2>6, UpTo, Zenon
  <2>8. flatten[n] = h[n]
    BY <1>3, <2>7
  <2> QED
    BY <1>1, <2>1, <2>8
<1>4. n = 0 \/ n > 0
  OBVIOUS
<1> QED
  BY <1>2, <1>3, <1>4, Zenon

\* What is where in two texts one after the other.
Joins(u, s, t) ==
  /\ Len(u) = Len(s) + Len(t)
  /\ \A i \in 1..Len(s) : u[i] = s[i]
  /\ \A i \in 1..Len(t) : u[Len(s) + i] = t[i]

\* A text behind another.
LEMMA Joined ==
  ASSUME NEW T, NEW s \in Seq(T), NEW t \in Seq(T)
  PROVE  s \o t \in Seq(T) /\ Joins(s \o t, s, t)
BY DEF Joins

\* what is where in sequences laid one after the other: the k-th ends at ends[k]
Laid(n, seqs, text, ends) ==
  /\ ends \in [0..n -> Nat] /\ ends[0] = 0 /\ ends[n] = Len(text)
  /\ \A k \in 1..n : ends[k] = ends[k - 1] + Len(seqs[k])
  /\ \A j, k \in 0..n : j <= k => ends[j] <= ends[k]
  /\ \A k \in 1..n : \A j \in 1..Len(seqs[k]) : text[ends[k - 1] + j] = seqs[k][j]
  /\ \A p \in 1..Len(text) : \E k \in 1..n : \E j \in 1..Len(seqs[k]) : p = ends[k - 1] + j

\* One number more.
LEMMA OneMore ==
  ASSUME NEW n \in Nat, NEW m \in 0..(n - 1), NEW q, q = m + 1
  PROVE  /\ m \in 0..n /\ q \in 0..n /\ q \in 1..n /\ q - 1 = m
         /\ 1..q = 1..m \union {q} /\ 0..q = 0..m \union {q} /\ 1..m \subseteq 1..n
<1>1. /\ m \in 0..n /\ q \in 0..n /\ q \in 1..n /\ q - 1 = m
  OBVIOUS
<1>2. 1..q = 1..m \union {q}
  OBVIOUS
<1>3. 0..q = 0..m \union {q}
  OBVIOUS
<1>4. 1..m \subseteq 1..n
  OBVIOUS
<1> QED
  BY <1>1, <1>2, <1>3, <1>4, Zenon

\* what Laid says of the first m of them
GrownTo(m, ends) == \A k \in 0..m : ends[k] <= ends[m]

\* the m sequences are found where they end,
FoundIn(m, seqs, text, ends) ==
  \A k \in 1..m : \A j \in 1..Len(seqs[k]) : text[ends[k - 1] + j] = seqs[k][j]

\* and no place is left over
CoveredBy(m, seqs, ends) ==
  \A p \in 1..ends[m] : \E k \in 1..m : \E j \in 1..Len(seqs[k]) : p = ends[k - 1] + j

\* One sequence more.
LEMMA LaidOneMore ==
  ASSUME NEW n \in Nat, NEW seqs, NEW ends, NEW text, NEW longer, NEW m \in 0..(n - 1), NEW q, q = m + 1,
         \A k \in 0..n : ends[k] \in Nat,
         \A k \in 1..n : Len(seqs[k]) \in Nat /\ ends[k] = ends[k - 1] + Len(seqs[k]),
         ends[m] = Len(text), Joins(longer, text, seqs[q]),
         GrownTo(m, ends), FoundIn(m, seqs, text, ends), CoveredBy(m, seqs, ends)
  PROVE  GrownTo(q, ends) /\ FoundIn(q, seqs, longer, ends) /\ CoveredBy(q, seqs, ends)
<1>1. /\ m \in 0..n /\ q \in 0..n /\ q \in 1..n /\ q - 1 = m
      /\ 1..q = 1..m \union {q} /\ 0..q = 0..m \union {q} /\ 1..m \subseteq 1..n
  BY OneMore
<1>2. ends[q] = ends[m] + Len(seqs[q]) /\ ends[m] \in Nat /\ Len(seqs[q]) \in Nat
  BY <1>1
<1>3. GrownTo(q, ends)
  <2> SUFFICES ASSUME NEW k \in 0..q PROVE ends[k] <= ends[q]
    BY DEF GrownTo
  <2>1. CASE k = q
    BY <1>1, <2>1
  <2>2. CASE k \in 0..m
    <3>1. ends[k] <= ends[m] /\ k \in 0..n
      BY <2>2 DEF GrownTo
    <3>2. ends[k] \in Nat
      BY <3>1
    <3> QED
      BY <1>2, <3>1, <3>2
  <2> QED
    BY <1>1, <2>1, <2>2
<1>4. FoundIn(q, seqs, longer, ends)
  <2> SUFFICES ASSUME NEW k \in 1..q, NEW j \in 1..Len(seqs[k])
               PROVE  longer[ends[k - 1] + j] = seqs[k][j]
    BY DEF FoundIn
  <2>1. CASE k = q
    <3>1. longer[Len(text) + j] = seqs[q][j]
      BY <2>1 DEF Joins
    <3> QED
      BY <1>1, <2>1, <3>1
  <2>2. CASE k \in 1..m
    <3>1. text[ends[k - 1] + j] = seqs[k][j]
      BY <2>2 DEF FoundIn
    <3>2. k \in 1..n /\ k - 1 \in 0..n /\ k \in 0..m
      BY <2>2
    <3>3. ends[k] = ends[k - 1] + Len(seqs[k]) /\ ends[k - 1] \in Nat /\ Len(seqs[k]) \in Nat
      BY <3>2
    <3>4. ends[k] <= ends[m]
      BY <3>2 DEF GrownTo
    <3>5. ends[k - 1] + j \in 1..ends[m]
      <4>1. \A e, d, z, i \in Nat : i \in 1..d /\ e + d <= z => e + i \in 1..z
        OBVIOUS
      <4>2. ends[k - 1] + Len(seqs[k]) <= ends[m]
        BY ONLY <3>3, <3>4
      <4> QED
        BY ONLY <1>2, <3>3, <4>1, <4>2, j \in 1..Len(seqs[k]), j \in Nat
    <3> QED
      BY <3>1, <3>5 DEF Joins
  <2> QED
    BY <1>1, <2>1, <2>2
<1>5. CoveredBy(q, seqs, ends)
  <2> SUFFICES ASSUME NEW p \in 1..ends[q]
               PROVE  \E k \in 1..q : \E j \in 1..Len(seqs[k]) : p = ends[k - 1] + j
    BY DEF CoveredBy
  <2>1. CASE p \in 1..ends[m]
    <3>1. PICK k \in 1..m : \E j \in 1..Len(seqs[k]) : p = ends[k - 1] + j
      BY <2>1 DEF CoveredBy
    <3>2. k \in 1..q
      BY <1>1
    <3> QED
      BY <3>1, <3>2, Zenon
  <2>2. CASE p - ends[m] \in 1..Len(seqs[q])
    <3>1. p = ends[m] + (p - ends[m])
      BY <1>2
    <3>2. q \in 1..q
      BY <1>1
    <3> QED
      BY <1>1, <2>2, <3>1, <3>2, Zenon
  <2>3. p \in 1..ends[m] \/ p - ends[m] \in 1..Len(seqs[q])
    BY <1>2
  <2> QED
    BY <2>1, <2>2, <2>3
<1> QED
  BY <1>3, <1>4, <1>5

\* FlattenSeq lays sequences one after the other.
LEMMA FlattenedIsLaid ==
  ASSUME NEW T, NEW n \in Nat, NEW seqs \in [1..n -> Seq(T)]
  PROVE  /\ FlattenSeq(seqs) \in Seq(T)
         /\ \E ends : Laid(n, seqs, FlattenSeq(seqs), ends)
<1>1. PICK h \in [0..n -> Seq(T)] :
        /\ h[0] = <<>>
        /\ \A k \in 1..n : h[k] = h[k - 1] \o seqs[k]
        /\ FlattenSeq(seqs) = h[n]
  BY Flattened
<1> DEFINE ends == [k \in 0..n |-> Len(h[k])]
           text == FlattenSeq(seqs)
<1>2. /\ ends \in [0..n -> Nat] /\ ends[0] = 0 /\ text = h[n] /\ text \in Seq(T)
      /\ n \in 0..n
  BY <1>1
<1>3. \A k \in 0..n : ends[k] = Len(h[k]) /\ ends[k] \in Nat
  OBVIOUS
<1>4. \A k \in 1..n : Joins(h[k], h[k - 1], seqs[k]) /\ Len(seqs[k]) \in Nat /\ k - 1 \in 0..n /\ k \in 0..n
  <2> SUFFICES ASSUME NEW k \in 1..n PROVE Joins(h[k], h[k - 1], seqs[k]) /\ Len(seqs[k]) \in Nat
    OBVIOUS
  <2>1. h[k] = h[k - 1] \o seqs[k]
    BY <1>1, Zenon
  <2>a. k - 1 \in 0..n
    OBVIOUS
  <2>b. h[k - 1] \in Seq(T) /\ seqs[k] \in Seq(T)
    BY <2>a
  <2>2. Joins(h[k - 1] \o seqs[k], h[k - 1], seqs[k])
    BY <2>b, Joined
  <2> QED
    BY <2>1, <2>2, <2>b
<1>5. \A k \in 1..n : Len(seqs[k]) \in Nat /\ ends[k] = ends[k - 1] + Len(seqs[k])
  <2> SUFFICES ASSUME NEW k \in 1..n PROVE Len(seqs[k]) \in Nat /\ ends[k] = ends[k - 1] + Len(seqs[k])
    OBVIOUS
  <2>1. Len(h[k]) = Len(h[k - 1]) + Len(seqs[k]) /\ Len(seqs[k]) \in Nat
    BY <1>4 DEF Joins
  <2>2. ends[k] = Len(h[k]) /\ ends[k - 1] = Len(h[k - 1])
    BY <1>3, <1>4
  <2> QED
    BY <2>1, <2>2
<1> HIDE DEF ends, text
<1> DEFINE U == {m \in 0..n : /\ GrownTo(m, ends)
                              /\ FoundIn(m, seqs, h[m], ends)
                              /\ CoveredBy(m, seqs, ends)}
<1>6. 0 \in U
  BY <1>2 DEF GrownTo, FoundIn, CoveredBy
<1>7. ASSUME NEW m \in 0..(n - 1), m \in U PROVE m + 1 \in U
  <2> DEFINE q == m + 1
  <2>1. m \in 0..n /\ q \in 0..n /\ q \in 1..n /\ q - 1 = m
    OBVIOUS
  <2>2. q = m + 1
    OBVIOUS
  <2> HIDE DEF q
  <2>3. ends[m] = Len(h[m]) /\ Joins(h[q], h[m], seqs[q])
    BY <1>3, <1>4, <2>1
  <2>4. GrownTo(m, ends) /\ FoundIn(m, seqs, h[m], ends) /\ CoveredBy(m, seqs, ends)
    BY <1>7
  <2>5. GrownTo(q, ends) /\ FoundIn(q, seqs, h[q], ends) /\ CoveredBy(q, seqs, ends)
    <3>1. \A k \in 0..n : ends[k] \in Nat
      BY <1>3
    <3> QED
      BY <1>5, <2>2, <2>3, <2>4, <3>1, LaidOneMore
  <2> QED
    BY <2>1, <2>5 DEF q
<1>8. \A m \in 0..n : m \in U
  <2> HIDE DEF U
  <2> QED
    BY <1>6, <1>7, UpTo, Zenon
<1>9. \A j, k \in 0..n : j <= k => ends[j] <= ends[k]
  <2> SUFFICES ASSUME NEW j \in 0..n, NEW k \in 0..n, j <= k PROVE ends[j] <= ends[k]
    OBVIOUS
  <2>1. j \in 0..k /\ GrownTo(k, ends)
    BY <1>8
  <2> QED
    BY <2>1 DEF GrownTo
<1>10. FoundIn(n, seqs, text, ends) /\ CoveredBy(n, seqs, ends) /\ ends[n] = Len(text)
  BY <1>2, <1>3, <1>8
<1>11. Laid(n, seqs, text, ends)
  BY <1>2, <1>5, <1>9, <1>10 DEF Laid, FoundIn, CoveredBy
<1> QED
  BY <1>2, <1>11 DEF text

\* Min, as it is used by the searches, is the least member.
LEMMA LeastOf ==
  ASSUME NEW I \in SUBSET Nat, NEW m \in I, \A i \in I : m <= i
  PROVE  Min(I) = m
<1>1. \A x \in I : (\A y \in I : x <= y) => x = m
  <2> TAKE x \in I
  <2> HAVE \A y \in I : x <= y
  <2>1. x <= m /\ m <= x
    OBVIOUS
  <2> QED
    BY <2>1
<1> QED
  BY <1>1 DEF Min

\* find() stops at the first place.
LEMMA FoundFirst ==
  ASSUME NEW text, NEW t, NEW from \in Nat, NEW m \in from..Len(text), Len(text) \in Nat,
         text[m] = t, \A i \in from..(m - 1) : text[i] # t
  PROVE  Find(text, t, from) = m
<1> DEFINE I == {i \in from..Len(text) : text[i] = t}
<1>1. I \in SUBSET Nat /\ m \in I /\ \A i \in I : m <= i
  OBVIOUS
<1>2. Min(I) = m
  <2> HIDE DEF I
  <2> QED
    BY <1>1, LeastOf
<1> QED
  BY <1>1, <1>2 DEF Find, SelectInSubSeq

-----------------------------------------------------------------------------
(* A written field                                                         *)

\* how many tokens of a field come between its line end and the empty line
HeaderLength(f) == IF f.file THEN 3 ELSE 2

\* What is where in a field.
LEMMA FieldTokens ==
  ASSUME NEW S, NEW f, f.content \in Seq(S)
  PROVE  /\ Len(Field(f)) = HeaderLength(f) + 4 + Len(f.content)
         /\ Field(f)[1] = Crlf /\ Field(f)[2] = Disposition /\ Field(f)[3] = Name(f.name)
         /\ f.file => Field(f)[4] = FileName("f")
         /\ Field(f)[HeaderLength(f) + 2] = Crlf /\ Field(f)[HeaderLength(f) + 3] = Crlf
         /\ \A k \in 1..Len(f.content) : Field(f)[HeaderLength(f) + 3 + k] = f.content[k]
         /\ Field(f)[Len(Field(f))] = Crlf
         /\ Field(f) \in Seq(S \union {Crlf, Disposition, Name(f.name), FileName("f")})
<1> DEFINE T == S \union {Crlf, Disposition, Name(f.name), FileName("f")}
           opening == <<Crlf, Disposition, Name(f.name)>>
           file == IF f.file THEN <<FileName("f")>> ELSE <<>>
           empty == <<Crlf, Crlf>>
           close == <<Crlf>>
           head == opening \o file
           heads == head \o empty
           most == heads \o f.content
<1>1. Field(f) = most \o close
  BY DEF Field
<1>2. Crlf \in T /\ Disposition \in T /\ Name(f.name) \in T /\ FileName("f") \in T /\ f.content \in Seq(T)
  OBVIOUS
<1> HIDE DEF T
<1>3. /\ opening \in Seq(T) /\ Len(opening) = 3
      /\ opening[1] = Crlf /\ opening[2] = Disposition /\ opening[3] = Name(f.name)
  BY <1>2
<1>4. /\ file \in Seq(T) /\ Len(file) = HeaderLength(f) - 2
      /\ f.file => file[1] = FileName("f")
  BY <1>2 DEF HeaderLength
<1>5. /\ empty \in Seq(T) /\ Len(empty) = 2 /\ empty[1] = Crlf /\ empty[2] = Crlf
      /\ close \in Seq(T) /\ Len(close) = 1 /\ close[1] = Crlf
  BY <1>2
<1> HIDE DEF opening, file, empty, close
<1>6. HeaderLength(f) = IF f.file THEN 3 ELSE 2
  BY DEF HeaderLength
<1>7. /\ head \in Seq(T) /\ Len(head) = HeaderLength(f) + 1
      /\ head[1] = Crlf /\ head[2] = Disposition /\ head[3] = Name(f.name)
      /\ f.file => head[4] = FileName("f")
  <2>1. head \in Seq(T) /\ Joins(head, opening, file)
    <3>1. opening \in Seq(T) /\ file \in Seq(T)
      BY <1>3, <1>4
    <3> QED
      BY <3>1, Joined
  <2> QED
    BY <2>1, <1>6, <1>3, <1>4 DEF Joins
<1> HIDE DEF head
<1>8. /\ heads \in Seq(T) /\ Len(heads) = HeaderLength(f) + 3
      /\ \A i \in 1..(HeaderLength(f) + 1) : heads[i] = head[i]
      /\ heads[HeaderLength(f) + 2] = Crlf /\ heads[HeaderLength(f) + 3] = Crlf
  <2>1. heads \in Seq(T) /\ Joins(heads, head, empty)
    <3>1. head \in Seq(T) /\ empty \in Seq(T)
      BY <1>5, <1>7
    <3> QED
      BY <3>1, Joined
  <2>2. heads[Len(head) + 1] = Crlf /\ heads[Len(head) + 2] = Crlf
    BY <2>1, <1>5 DEF Joins
  <2> QED
    BY <2>1, <2>2, <1>6, <1>5, <1>7 DEF Joins
<1> HIDE DEF heads
<1>9. /\ most \in Seq(T) /\ Len(most) = HeaderLength(f) + 3 + Len(f.content)
      /\ \A i \in 1..(HeaderLength(f) + 3) : most[i] = heads[i]
      /\ \A k \in 1..Len(f.content) : most[HeaderLength(f) + 3 + k] = f.content[k]
  <2>1. most \in Seq(T) /\ Joins(most, heads, f.content)
    BY <1>2, <1>8, Joined
  <2> QED
    BY <2>1, <1>6, <1>2, <1>8 DEF Joins
<1> HIDE DEF most
<1>10. /\ Field(f) \in Seq(T) /\ Len(Field(f)) = Len(most) + 1
       /\ \A i \in 1..Len(most) : Field(f)[i] = most[i]
       /\ Field(f)[Len(most) + 1] = Crlf
  <2>1. Field(f) \in Seq(T) /\ Joins(Field(f), most, close)
    <3>1. most \in Seq(T) /\ close \in Seq(T)
      BY <1>5, <1>9
    <3> QED
      BY <1>1, <3>1, Joined
  <2>2. Field(f)[Len(most) + 1] = Crlf
    BY <2>1, <1>5 DEF Joins
  <2> QED
    BY <2>1, <2>2, <1>5, <1>6, <1>9 DEF Joins
<1>a. Len(f.content) \in Nat /\ HeaderLength(f) \in {2, 3}
  BY <1>2, <1>6
<1>11. \A i \in 1..(HeaderLength(f) + 3) : Field(f)[i] = heads[i]
  BY <1>a, <1>9, <1>10
<1>12. \A i \in 1..(HeaderLength(f) + 1) : Field(f)[i] = head[i]
  BY <1>6, <1>8, <1>11
<1>13. /\ Field(f)[1] = Crlf /\ Field(f)[2] = Disposition /\ Field(f)[3] = Name(f.name)
       /\ f.file => Field(f)[4] = FileName("f")
  BY <1>6, <1>7, <1>12
<1>14. Field(f)[HeaderLength(f) + 2] = Crlf /\ Field(f)[HeaderLength(f) + 3] = Crlf
  BY <1>6, <1>8, <1>11
<1>15. \A k \in 1..Len(f.content) : Field(f)[HeaderLength(f) + 3 + k] = f.content[k]
  BY <1>a, <1>9, <1>10
<1> QED
  BY <1>a, <1>9, <1>10, <1>13, <1>14, <1>15 DEF T

\* The part of a field is the field without its first line end.
PartOf(f) == SubSeq(Field(f), 2, Len(Field(f)))

\* What is where in a part.
LEMMA PartTokens ==
  ASSUME NEW S, NEW f, f.content \in Seq(S)
  PROVE  /\ Len(PartOf(f)) = HeaderLength(f) + 3 + Len(f.content)
         /\ PartOf(f)[1] = Disposition /\ PartOf(f)[2] = Name(f.name)
         /\ f.file => PartOf(f)[3] = FileName("f")
         /\ PartOf(f)[HeaderLength(f) + 1] = Crlf /\ PartOf(f)[HeaderLength(f) + 2] = Crlf
         /\ \A k \in 1..Len(f.content) : PartOf(f)[HeaderLength(f) + 2 + k] = f.content[k]
         /\ PartOf(f)[Len(PartOf(f))] = Crlf
         /\ PartOf(f) \in Seq(S \union {Crlf, Disposition, Name(f.name), FileName("f")})
<1> DEFINE T == S \union {Crlf, Disposition, Name(f.name), FileName("f")}
           F == Field(f)
           H == HeaderLength(f)
           n == Len(f.content)
           P == SubSeq(F, 2, Len(F))
<1>1. H \in {2, 3} /\ n \in Nat /\ (f.file => H = 3)
  BY DEF HeaderLength
<1>2. /\ Len(F) = H + 4 + n
      /\ F[1] = Crlf /\ F[2] = Disposition /\ F[3] = Name(f.name)
      /\ f.file => F[4] = FileName("f")
      /\ F[H + 2] = Crlf /\ F[H + 3] = Crlf
      /\ \A k \in 1..n : F[H + 3 + k] = f.content[k]
      /\ F[Len(F)] = Crlf
      /\ F \in Seq(T)
  BY FieldTokens, Zenon
<1>3. PartOf(f) = P
  BY DEF PartOf
<1> HIDE DEF T, F, H, n
<1>4. F \in Seq(T) /\ Len(F) = H + 4 + n
  BY <1>2, Zenon
<1>5. Len(F) \in Nat /\ Len(F) >= 2 /\ \A i \in 2..Len(F) : F[i] \in T
  BY <1>1, <1>4
<1>6. /\ P \in Seq(T) /\ Len(P) = Len(F) - 1
      /\ \A k \in 1..(Len(F) - 1) : P[k] = F[k + 1]
  <2>1. /\ P \in Seq(T) /\ Len(P) = IF 2 <= Len(F) THEN Len(F) - 2 + 1 ELSE 0
        /\ \A k \in 1..(Len(F) - 2 + 1) : P[k] = F[2 + k - 1]
    BY <1>5, SubSeqProperties
  <2> HIDE DEF P
  <2> QED
    BY <1>5, <2>1
<1> HIDE DEF P
<1>7. P \in Seq(T) /\ Len(P) = H + 3 + n /\ \A k \in 1..(H + 3 + n) : P[k] = F[k + 1]
  BY <1>1, <1>4, <1>6
<1>8. P[1] = F[2] /\ P[2] = F[3] /\ P[H + 1] = F[H + 2] /\ P[H + 2] = F[H + 3] /\ P[3] = F[4]
      /\ P[Len(P)] = F[Len(F)]
  BY <1>1, <1>4, <1>7
<1>9. \A k \in 1..n : P[H + 2 + k] = F[H + 3 + k]
  BY <1>1, <1>7
<1>10. \A k \in 1..n : P[H + 2 + k] = f.content[k]
  BY <1>2, <1>9, Zenon
<1>11. /\ P[1] = Disposition /\ P[2] = Name(f.name)
       /\ f.file => P[3] = FileName("f")
       /\ P[H + 1] = Crlf /\ P[H + 2] = Crlf /\ P[Len(P)] = Crlf
  BY <1>2, <1>8, Zenon
<1> QED
  BY <1>3, <1>7, <1>10, <1>11, Zenon DEF T, H, n

\* What the code looks for can be told apart.
LEMMA TokensDiffer ==
  /\ Crlf.is = "crlf" /\ Disposition.is = "Content-Disposition:"
  /\ \A n : Name(n).is = "name=" /\ Name(n).of = n
  /\ \A n : FileName(n).is = "filename="
  /\ \A b : Delimiter(b).is = "delimiter"
BY DEF Crlf, Disposition, Name, FileName, Delimiter, Token

\* Whatever a part holds, parsePart() finds its name and all of its content,
\* empty lines in the content and a second name="" in its headers included
\* (MultipartBodyParser.hpp:79-119).
LEMMA PartParsed ==
  ASSUME NEW S, NEW f, f.content \in Seq(S)
  PROVE  ParsePart(PartOf(f)) = [name |-> f.name, content |-> f.content \o <<Crlf>>]
<1> DEFINE P == PartOf(f)
           H == HeaderLength(f)
           n == Len(f.content)
           T == S \union {Crlf, Disposition, Name(f.name), FileName("f")}
<1>1. H \in {2, 3} /\ n \in Nat /\ f.content \in Seq(S) /\ (H = 3 => f.file)
  BY DEF HeaderLength
<1>2. /\ Len(P) = H + 3 + n
      /\ P[1] = Disposition /\ P[2] = Name(f.name)
      /\ f.file => P[3] = FileName("f")
      /\ P[H + 1] = Crlf /\ P[H + 2] = Crlf
      /\ \A k \in 1..n : P[H + 2 + k] = f.content[k]
      /\ P[Len(P)] = Crlf
      /\ P \in Seq(T)
  BY PartTokens, Zenon
<1> HIDE DEF P, H, n, T
<1>3. P \in Seq(T) /\ Len(P) = H + 3 + n /\ H \in Nat /\ H >= 2
  <2>1. P \in Seq(T) /\ Len(P) = H + 3 + n
    BY <1>2, Zenon
  <2> QED
    BY <1>1, <2>1
<1>4. \A i \in 1..H : P[i] # Crlf
  <2>1. P[1] # Crlf /\ P[2] # Crlf
    BY <1>2, TokensDiffer, Zenon
  <2>2. H = 3 => P[3] # Crlf
    BY <1>1, <1>2, TokensDiffer, Zenon
  <2> QED
    BY <1>1, <2>1, <2>2

<1> DEFINE places == [i \in 1..Len(P) |-> i]
           end == SelectInSeq(places, LAMBDA i : i > 1 /\ P[i] = Crlf /\ P[i - 1] = Crlf)
           headers == SubSeq(P, 1, end - 2)
<1>5. end = H + 2
  <2> DEFINE I == {i \in 1..Len(P) : i > 1 /\ P[i] = Crlf /\ P[i - 1] = Crlf}
  <2>1. I \in SUBSET Nat /\ H + 2 \in I
    <3>1. Len(P) \in Nat /\ H + 2 \in 1..Len(P) /\ H + 2 > 1 /\ (H + 2) - 1 = H + 1
      BY <1>1, <1>3
    <3> QED
      BY <1>2, <3>1
  <2>2. \A i \in I : H + 2 <= i
    <3> SUFFICES ASSUME NEW i \in 1..Len(P), i > 1, P[i - 1] = Crlf PROVE H + 2 <= i
      OBVIOUS
    <3>1. i - 1 \notin 1..H
      BY <1>4
    <3>2. Len(P) \in Nat
      BY <1>3
    <3> QED
      BY <1>3, <3>1, <3>2
  <2>3. Min(I) = H + 2
    <3>1. H + 2 \in I
      BY <2>1
    <3> HIDE DEF I
    <3> QED
      BY <2>1, <2>2, <3>1, LeastOf
  <2>4. end = IF I # {} THEN Min(I) ELSE 0
    <3>1. Len(places) = Len(P) /\ \A i \in 1..Len(P) : places[i] = i
      BY <1>3
    <3> HIDE DEF places
    <3>2. {i \in 1..Len(places) :
             places[i] > 1 /\ P[places[i]] = Crlf /\ P[places[i] - 1] = Crlf} = I
      BY <3>1
    <3> QED
      BY <3>2 DEF SelectInSeq
  <2> QED
    BY <2>1, <2>3, <2>4
<1> HIDE DEF end
<1>6. Len(headers) = H /\ headers[1] = Disposition /\ headers[2] = Name(f.name)
  <2>1. end - 2 = H /\ H \in Int /\ \A i \in 1..H : P[i] \in T
    BY <1>1, <1>3, <1>5
  <2>2. /\ Len(SubSeq(P, 1, H)) = IF 1 <= H THEN H - 1 + 1 ELSE 0
        /\ \A k \in 1..(H - 1 + 1) : SubSeq(P, 1, H)[k] = P[1 + k - 1]
    BY <2>1, SubSeqProperties
  <2>3. headers = SubSeq(P, 1, H)
    BY <2>1
  <2> HIDE DEF headers
  <2>4. Len(headers) = H /\ headers[1] = P[1] /\ headers[2] = P[2]
    BY <1>1, <2>2, <2>3
  <2> QED
    BY <1>2, <2>4, Zenon
<1> HIDE DEF headers
<1>7. Find(headers, Disposition, 1) = 1
  <2>1. 1 \in 1..Len(headers) /\ Len(headers) \in Nat /\ 1..(1 - 1) = {}
    BY <1>3, <1>6
  <2> QED
    BY <1>6, <2>1, FoundFirst
<1>8. NameAt(headers, 1) = 2
  <2> DEFINE I == {i \in 1..Len(headers) : headers[i].is \in {"name=", "filename="}}
  <2>1. headers[1].is = "Content-Disposition:" /\ headers[2].is = "name="
    BY <1>6, TokensDiffer, Zenon
  <2>2. I \in SUBSET Nat /\ 2 \in I /\ \A i \in I : 2 <= i
    BY <1>3, <1>6, <2>1
  <2>3. Min(I) = 2
    <3> HIDE DEF I
    <3> QED
      BY <2>2, LeastOf
  <2> QED
    BY <2>2, <2>3 DEF NameAt, SelectInSubSeq
<1>9. SubSeq(P, end + 1, Len(P)) = f.content \o <<Crlf>>
  <2>1. /\ \A i \in (H + 3)..Len(P) : P[i] \in T
        /\ H + 3 \in Int /\ Len(P) \in Int /\ end + 1 = H + 3
    BY <1>1, <1>3, <1>5
  <2> DEFINE s == SubSeq(P, H + 3, Len(P))
             c == f.content \o <<Crlf>>
  <2>2. /\ s \in Seq(T)
        /\ Len(s) = IF H + 3 <= Len(P) THEN Len(P) - (H + 3) + 1 ELSE 0
        /\ \A k \in 1..(Len(P) - (H + 3) + 1) : s[k] = P[H + 3 + k - 1]
    BY <2>1, SubSeqProperties
  <2>3. /\ c \in Seq(S \union {Crlf}) /\ Len(c) = n + 1 /\ c[n + 1] = Crlf
        /\ \A k \in 1..n : c[k] = f.content[k]
    BY <1>1 DEF n
  <2>4. SubSeq(P, end + 1, Len(P)) = s
    BY <2>1
  <2> HIDE DEF s, c
  <2>5. Len(s) = n + 1 /\ \A k \in 1..(n + 1) : s[k] = P[H + 2 + k]
    <3>1. Len(P) - (H + 3) + 1 = n + 1 /\ H + 3 <= Len(P)
      BY <1>1, <1>3
    <3>2. \A k \in 1..(n + 1) : H + 3 + k - 1 = H + 2 + k
      BY <1>1
    <3>3. Len(s) = n + 1 /\ \A k \in 1..(n + 1) : s[k] = P[H + 3 + k - 1]
      BY <2>2, <3>1, Zenon
    <3> QED
      BY <3>2, <3>3, Zenon
  <2>6. s[n + 1] = Crlf
    <3>1. H + 2 + (n + 1) = Len(P) /\ n + 1 \in 1..(n + 1)
      BY <1>1, <1>3
    <3> QED
      BY <1>2, <2>5, <3>1, Zenon
  <2>7. \A k \in 1..n : s[k] = c[k]
    <3> SUFFICES ASSUME NEW k \in 1..n PROVE s[k] = c[k]
      OBVIOUS
    <3>1. k \in 1..(n + 1)
      BY <1>1
    <3> QED
      BY <1>2, <2>3, <2>5, <3>1, Zenon
  <2>8. \A k \in 1..(n + 1) : s[k] = c[k]
    BY <1>1, <2>3, <2>6, <2>7
  <2>9. s = c
    BY <1>1, <2>2, <2>3, <2>5, <2>8
  <2> QED
    BY <2>4, <2>9 DEF c
<1> QED
  <2>1. H # 0 /\ end # 0
    BY <1>1, <1>5
  <2>2. headers[2].of = f.name
    BY <1>6, TokensDiffer, Zenon
  <2> QED
    <3> DEFINE disposition == Find(headers, Disposition, 1)
               name == NameAt(headers, disposition)
    <3>1. ParsePart(P) =
            [name |-> IF end = 0 \/ disposition = 0 \/ name = 0 THEN "" ELSE headers[name].of,
             content |-> SubSeq(P, end + 1, Len(P))]
      BY Zenon DEF ParsePart, headers, end
    <3>2. disposition = 1 /\ name = 2
      BY <1>7, <1>8, Zenon
    <3> HIDE DEF disposition, name
    <3>3. (IF end = 0 \/ disposition = 0 \/ name = 0 THEN "" ELSE headers[name].of) = f.name
      <4>1. disposition # 0 /\ name # 0
        BY <3>2
      <4> QED
        BY <2>1, <2>2, <3>2, <4>1, Zenon
    <3>4. ParsePart(P) = [name |-> f.name, content |-> f.content \o <<Crlf>>]
      BY <1>9, <3>1, <3>3, Zenon
    <3> QED
      BY <3>4 DEF P

\* No token of a field is a delimiter, unless one of its content is.
LEMMA NoDelimiter ==
  ASSUME NEW S, NEW f, f.content \in Seq(S), NEW b,
         \A k \in 1..Len(f.content) : f.content[k] # Delimiter(b)
  PROVE  \A k \in 1..Len(Field(f)) : Field(f)[k] # Delimiter(b)
<1> DEFINE F == Field(f)
           H == HeaderLength(f)
           n == Len(f.content)
<1>1. H \in {2, 3} /\ n \in Nat /\ (H = 3 => f.file)
  BY DEF HeaderLength
<1>2. /\ Len(F) = H + 4 + n
      /\ F[1] = Crlf /\ F[2] = Disposition /\ F[3] = Name(f.name)
      /\ f.file => F[4] = FileName("f")
      /\ F[H + 2] = Crlf /\ F[H + 3] = Crlf
      /\ \A k \in 1..n : F[H + 3 + k] = f.content[k]
      /\ F[Len(F)] = Crlf
      /\ F \in Seq(S \union {Crlf, Disposition, Name(f.name), FileName("f")})
  BY FieldTokens, Zenon
<1>3. \A k \in 1..n : f.content[k] # Delimiter(b)
  OBVIOUS
<1> HIDE DEF F, H, n
<1>4. /\ Crlf # Delimiter(b) /\ Disposition # Delimiter(b) /\ Name(f.name) # Delimiter(b)
      /\ FileName("f") # Delimiter(b)
  <2>1. /\ Delimiter(b).is = "delimiter" /\ Crlf.is = "crlf"
        /\ Disposition.is = "Content-Disposition:" /\ Name(f.name).is = "name="
        /\ FileName("f").is = "filename="
    BY TokensDiffer, Zenon
  <2> QED
    BY <2>1, Zenon
<1>5. /\ F[1] # Delimiter(b) /\ F[2] # Delimiter(b) /\ F[3] # Delimiter(b)
      /\ f.file => F[4] # Delimiter(b)
      /\ F[H + 2] # Delimiter(b) /\ F[H + 3] # Delimiter(b) /\ F[Len(F)] # Delimiter(b)
  BY <1>2, <1>4, Zenon
<1> SUFFICES ASSUME NEW k \in 1..Len(F) PROVE F[k] # Delimiter(b)
  BY DEF F
<1>6. Len(F) = H + 4 + n
  BY <1>2, Zenon
<1>7. \/ k \in {1, 2, 3} \/ (H = 3 /\ k = 4) \/ k = H + 2 \/ k = H + 3 \/ k = Len(F)
      \/ k - (H + 3) \in 1..n /\ k = H + 3 + (k - (H + 3))
  BY <1>1, <1>6
<1>8. CASE k - (H + 3) \in 1..n /\ k = H + 3 + (k - (H + 3))
  BY <1>2, <1>3, <1>8, Zenon
<1>9. CASE k \in {1, 2, 3} \/ (H = 3 /\ k = 4) \/ k = H + 2 \/ k = H + 3 \/ k = Len(F)
  BY <1>1, <1>5, <1>9, Zenon
<1> QED
  BY <1>7, <1>8, <1>9, Zenon

\* the content of the field has no delimiter in it
Avoids(f, b) == \A k \in 1..Len(f.content) : f.content[k] # Delimiter(b)

\* the field stands between two delimiters, of which the first is at i
StandsAt(body, b, i, f) ==
  /\ i + Len(Field(f)) + 1 <= Len(body)
  /\ body[i] = Delimiter(b) /\ body[i + Len(Field(f)) + 1] = Delimiter(b)
  /\ \A k \in 1..Len(Field(f)) : body[i + k] = Field(f)[k]

\* what parsePart finds in it
AsFound(f) == [name |-> f.name, content |-> f.content \o <<Crlf>>]

\* Wherever a client's field stands between two delimiters of a body, parse()
\* cuts it out and parsePart() finds its name and its whole content, with the
\* line end that closes it, whatever the content is but for the delimiter
\* (MultipartBodyParser.hpp:39-48, 79-119).
THEOREM WrittenFieldFound ==
  ASSUME NEW S, NEW f, f.content \in Seq(S), NEW b, Avoids(f, b),
         NEW body \in Seq(S), NEW i \in 1..Len(body), StandsAt(body, b, i, f)
  PROVE  ParsePart(PartAt(body, Delimiter(b), i)) = AsFound(f)
<1> DEFINE F == Field(f)
           l == Len(F)
           d == Delimiter(b)
           H == HeaderLength(f)
           n == Len(f.content)
           T == S \union {Crlf, Disposition, Name(f.name), FileName("f")}
<1>1. /\ Len(F) = H + 4 + n
      /\ F[1] = Crlf /\ F[2] = Disposition /\ F[3] = Name(f.name)
      /\ f.file => F[4] = FileName("f")
      /\ F[H + 2] = Crlf /\ F[H + 3] = Crlf
      /\ \A k \in 1..n : F[H + 3 + k] = f.content[k]
      /\ F[Len(F)] = Crlf
      /\ F \in Seq(T)
  BY FieldTokens, Zenon
<1>2. l \in Nat /\ l >= 4 /\ F[1] = Crlf /\ F \in Seq(T) /\ l = Len(F)
  <2>1. Len(F) = H + 4 + n /\ F[1] = Crlf /\ F \in Seq(T)
    BY <1>1, Zenon
  <2>2. H \in {2, 3} /\ n \in Nat
    BY DEF HeaderLength
  <2> HIDE DEF F, H, n, T
  <2> QED
    BY <2>1, <2>2
<1>3. \A k \in 1..l : F[k] # d
  BY NoDelimiter, Zenon DEF Avoids
<1>4. /\ \A k \in 1..l : body[i + k] = F[k]
      /\ body[i + l + 1] = d /\ i + l + 1 <= Len(body)
  BY DEF StandsAt
<1>a. i \in Nat /\ Len(body) \in Nat /\ i >= 1
  OBVIOUS
<1> HIDE DEF F, l, d, T, H, n
<1>5. body[i + 1] = Crlf
  <2>1. 1 \in 1..l
    BY <1>2
  <2> QED
    BY <1>2, <1>4, <2>1, Zenon
<1>6. Find(body, d, i + 2) = i + l + 1
  <2>1. \A j \in (i + 2)..(i + l) : body[j] # d
    <3> SUFFICES ASSUME NEW j \in (i + 2)..(i + l) PROVE body[j] # d
      OBVIOUS
    <3>1. j - i \in 1..l /\ i + (j - i) = j
      BY <1>2, <1>a
    <3>2. body[i + (j - i)] = F[j - i] /\ F[j - i] # d
      BY <1>3, <1>4, <3>1, Zenon
    <3> QED
      BY <3>1, <3>2
  <2>2. i + l + 1 \in (i + 2)..Len(body) /\ i + 2 \in Nat
    <3>1. l \in Nat /\ l >= 4 /\ i + l + 1 <= Len(body)
      BY <1>2, <1>4
    <3> QED
      BY <1>a, <3>1
  <2> QED
    <3> DEFINE m == i + l + 1
               from == i + 2
    <3>1. body[m] = d /\ m \in from..Len(body) /\ from \in Nat /\ Len(body) \in Nat
      <4>1. body[i + l + 1] = d
        BY <1>4, Zenon
      <4> QED
        BY <1>a, <2>2, <4>1
    <3>2. \A j \in from..(m - 1) : body[j] # d
      <4>1. m - 1 = i + l
        BY <1>2, <1>a
      <4> HIDE DEF m
      <4> QED
        BY <2>1, <4>1, Zenon
    <3> HIDE DEF m, from
    <3>3. Find(body, d, from) = m
      BY <3>1, <3>2, FoundFirst
    <3> QED
      BY <3>3 DEF m, from
<1>7. PartAt(body, d, i) = SubSeq(body, i + 2, i + l)
  <2> DEFINE start == IF body[i + 1] = Crlf THEN i + 2 ELSE i + 1
             end == Find(body, d, start) - 1
  <2>1. PartAt(body, d, i) = SubSeq(body, start, end)
    BY Zenon DEF PartAt
  <2>2. start = i + 2
    BY <1>5, Zenon
  <2> HIDE DEF start
  <2>3. end = i + l
    <3>1. Find(body, d, start) = i + l + 1
      BY <1>6, <2>2, Zenon
    <3>2. \A x : x = i + l + 1 => x - 1 = i + l
      BY <1>2, <1>a
    <3> QED
      BY <3>1, <3>2, Zenon
  <2> HIDE DEF end
  <2> QED
    BY <2>1, <2>2, <2>3
<1>8. SubSeq(body, i + 2, i + l) = SubSeq(F, 2, l)
  <2> DEFINE s == SubSeq(body, i + 2, i + l)
             p == SubSeq(F, 2, l)
  <2>1. /\ i + 2 \in Int /\ i + l \in Int /\ 2 \in Int /\ l \in Int
        /\ \A k \in (i + 2)..(i + l) : body[k] \in T
        /\ \A k \in 2..l : F[k] \in T
    <3>1. \A k \in 2..l : F[k] \in T
      BY <1>2
    <3>2. l \in Nat /\ i + l + 1 <= Len(body)
      BY <1>2, <1>4
    <3>3. \A k \in (i + 2)..(i + l) : body[k] \in S
      BY <1>a, <3>2
    <3> QED
      BY <1>a, <3>1, <3>2, <3>3 DEF T
  <2>2. /\ s \in Seq(T) /\ Len(s) = IF i + 2 <= i + l THEN i + l - (i + 2) + 1 ELSE 0
        /\ \A k \in 1..(i + l - (i + 2) + 1) : s[k] = body[i + 2 + k - 1]
    BY <2>1, SubSeqProperties
  <2>3. /\ p \in Seq(T) /\ Len(p) = IF 2 <= l THEN l - 2 + 1 ELSE 0
        /\ \A k \in 1..(l - 2 + 1) : p[k] = F[2 + k - 1]
    BY <2>1, SubSeqProperties
  <2> HIDE DEF s, p
  <2>4. /\ i + l - (i + 2) + 1 = l - 1 /\ i + 2 <= i + l /\ l - 2 + 1 = l - 1 /\ 2 <= l
        /\ \A k \in 1..(l - 1) : /\ i + 2 + k - 1 = i + (k + 1) /\ 2 + k - 1 = k + 1
                                 /\ k + 1 \in 1..l
    BY <1>2, <1>a
  <2>5. /\ Len(s) = l - 1 /\ \A k \in 1..(l - 1) : s[k] = body[i + (k + 1)]
        /\ Len(p) = l - 1 /\ \A k \in 1..(l - 1) : p[k] = F[k + 1]
    BY <2>2, <2>3, <2>4, Zenon
  <2>6. \A k \in 1..Len(s) : s[k] = p[k]
    <3> SUFFICES ASSUME NEW k \in 1..(l - 1) PROVE s[k] = p[k]
      BY <2>5
    <3>1. k + 1 \in 1..l
      BY <2>4, Zenon
    <3>2. body[i + (k + 1)] = F[k + 1]
      BY <1>4, <3>1, Zenon
    <3> QED
      BY <2>5, <3>2, Zenon
  <2>7. s = p
    <3>1. s \in Seq(T) /\ p \in Seq(T) /\ Len(s) = Len(p)
      BY <2>2, <2>3, <2>5, Zenon
    <3> QED
      BY <2>6, <3>1, SeqEqual
  <2> QED
    BY <2>7 DEF s, p
<1>9. PartAt(body, d, i) = PartOf(f)
  BY <1>7, <1>8 DEF PartOf, F, l
<1> QED
  BY <1>9, PartParsed DEF d, AsFound

-----------------------------------------------------------------------------
(* A written form                                                          *)

\* how a client's form lies in its body: the k-th field ends at ends[k]
FormLaid(n, fields, b, body, ends) ==
  /\ ends \in [0..n -> Nat] /\ ends[0] = 0
  /\ Len(body) = ends[n] + 3
  /\ body[ends[n] + 1] = Delimiter(b) /\ body[ends[n] + 2] = Dashes /\ body[ends[n] + 3] = Crlf
  /\ \A k \in 1..n : Len(Field(fields[k])) \in Nat /\ ends[k] = ends[k - 1] + 1 + Len(Field(fields[k]))
  /\ \A j, k \in 0..n : j <= k => ends[j] <= ends[k]
  /\ \A k \in 1..n : body[ends[k - 1] + 1] = Delimiter(b)
  /\ \A k \in 1..n : \A j \in 1..Len(Field(fields[k])) :
       body[ends[k - 1] + 1 + j] = Field(fields[k])[j]
  /\ \A p \in 1..ends[n] : \E k \in 1..n :
       \/ p = ends[k - 1] + 1
       \/ \E j \in 1..Len(Field(fields[k])) : p = ends[k - 1] + 1 + j

\* all a form may hold
FormTokens(S, n, fields, b) ==
  S \union {Crlf, Disposition, Dashes, Delimiter(b), FileName("f")}
    \union {Name(fields[k].name) : k \in 1..n}

\* the contents are texts, and have no delimiter c
Holds(S, n, fields) == \A k \in 1..n : fields[k].content \in Seq(S)

\* none of n fields holds the delimiter of c
AllAvoid(n, fields, c) == \A k \in 1..n : Avoids(fields[k], c)

\* How the body of a form is laid.
LEMMA WrittenForm ==
  ASSUME NEW S, NEW n \in Nat, NEW fields, NEW b, Len(fields) = n, Holds(S, n, fields)
  PROVE  /\ Form(fields, b) \in Seq(FormTokens(S, n, fields, b))
         /\ \E ends : FormLaid(n, fields, b, Form(fields, b), ends)
<1> DEFINE T == FormTokens(S, n, fields, b)
           d == Delimiter(b)
           seqs == [k \in 1..n |-> <<d>> \o Field(fields[k])]
           flat == FlattenSeq(seqs)
           close == <<d, Dashes, Crlf>>
           body == Form(fields, b)
<1>1. body = flat \o close
  BY DEF Form
<1>2. d \in T /\ Dashes \in T /\ Crlf \in T
  BY DEF FormTokens
<1>3. \A k \in 1..n : Field(fields[k]) \in Seq(T)
  <2> SUFFICES ASSUME NEW k \in 1..n PROVE Field(fields[k]) \in Seq(T)
    OBVIOUS
  <2> DEFINE R == S \union {Crlf, Disposition, Name(fields[k].name), FileName("f")}
  <2>1. Field(fields[k]) \in Seq(R)
    BY FieldTokens DEF Holds
  <2>2. R \subseteq T
    BY DEF FormTokens
  <2> HIDE DEF R, T
  <2> QED
    BY <2>1, <2>2
<1> HIDE DEF T, d
<1>4. \A k \in 1..n : /\ seqs[k] \in Seq(T) /\ Len(seqs[k]) = 1 + Len(Field(fields[k]))
                      /\ Len(Field(fields[k])) \in Nat
                      /\ seqs[k][1] = d
                      /\ \A j \in 1..Len(Field(fields[k])) : seqs[k][1 + j] = Field(fields[k])[j]
  <2> SUFFICES ASSUME NEW k \in 1..n
               PROVE  /\ seqs[k] \in Seq(T) /\ Len(seqs[k]) = 1 + Len(Field(fields[k]))
                      /\ Len(Field(fields[k])) \in Nat
                      /\ seqs[k][1] = d
                      /\ \A j \in 1..Len(Field(fields[k])) : seqs[k][1 + j] = Field(fields[k])[j]
    OBVIOUS
  <2> DEFINE F == Field(fields[k])
             one == <<d>>
  <2>1. F \in Seq(T) /\ one \in Seq(T) /\ Len(one) = 1 /\ one[1] = d
    BY <1>2, <1>3
  <2>2. seqs[k] = one \o F
    OBVIOUS
  <2> HIDE DEF F, one, seqs
  <2>3. seqs[k] \in Seq(T) /\ Joins(seqs[k], one, F)
    BY <2>1, <2>2, Joined
  <2>4. Len(F) \in Nat
    BY <2>1
  <2> QED
    BY <2>1, <2>3, <2>4 DEF Joins, F
<1>5. seqs \in [1..n -> Seq(T)]
  BY <1>4
<1> HIDE DEF seqs, flat
<1>6. flat \in Seq(T) /\ \E ends : Laid(n, seqs, flat, ends)
  BY <1>5, FlattenedIsLaid DEF flat
<1>7. PICK ends : Laid(n, seqs, flat, ends)
  BY <1>6
<1>8. close \in Seq(T) /\ Len(close) = 3 /\ close[1] = d /\ close[2] = Dashes /\ close[3] = Crlf
  BY <1>2
<1> HIDE DEF close, body
<1>9. body \in Seq(T) /\ Joins(body, flat, close)
  BY <1>1, <1>6, <1>8, Joined
<1>10. /\ ends \in [0..n -> Nat] /\ ends[0] = 0 /\ ends[n] = Len(flat) /\ ends[n] \in Nat
       /\ \A j, k \in 0..n : j <= k => ends[j] <= ends[k]
       /\ \A k \in 1..n : ends[k] = ends[k - 1] + Len(seqs[k])
  BY <1>7 DEF Laid
<1>11. \A k \in 1..n : \A j \in 1..Len(seqs[k]) : body[ends[k - 1] + j] = seqs[k][j]
  <2> SUFFICES ASSUME NEW k \in 1..n, NEW j \in 1..Len(seqs[k])
               PROVE  body[ends[k - 1] + j] = seqs[k][j]
    OBVIOUS
  <2>1. flat[ends[k - 1] + j] = seqs[k][j]
    BY <1>7 DEF Laid
  <2>2. ends[k - 1] \in Nat /\ ends[k] <= ends[n] /\ ends[k] = ends[k - 1] + Len(seqs[k])
        /\ Len(seqs[k]) \in Nat
    <3>1. k - 1 \in 0..n /\ k \in 0..n /\ n \in 0..n /\ k <= n
      OBVIOUS
    <3>2. Len(seqs[k]) \in Nat
      BY <1>4
    <3> QED
      BY <1>10, <3>1, <3>2
  <2>3. ends[k - 1] + j \in 1..Len(flat)
    BY <1>10, <2>2
  <2> QED
    BY <1>9, <2>1, <2>3 DEF Joins
<1>12. \A k \in 1..n : body[ends[k - 1] + 1] = d
  <2> SUFFICES ASSUME NEW k \in 1..n PROVE body[ends[k - 1] + 1] = d
    OBVIOUS
  <2>1. 1 \in 1..Len(seqs[k])
    BY <1>4
  <2> QED
    BY <1>4, <1>11, <2>1, Zenon
<1>13. \A k \in 1..n : \A j \in 1..Len(Field(fields[k])) :
         body[ends[k - 1] + 1 + j] = Field(fields[k])[j]
  <2> SUFFICES ASSUME NEW k \in 1..n, NEW j \in 1..Len(Field(fields[k]))
               PROVE  body[ends[k - 1] + 1 + j] = Field(fields[k])[j]
    OBVIOUS
  <2>1. Len(Field(fields[k])) \in Nat /\ Len(seqs[k]) = 1 + Len(Field(fields[k]))
    BY <1>4
  <2>2. 1 + j \in 1..Len(seqs[k])
    BY <2>1
  <2>3. body[ends[k - 1] + (1 + j)] = seqs[k][1 + j]
    BY <1>11, <2>2
  <2>4. k - 1 \in 0..n
    OBVIOUS
  <2>a. ends[k - 1] \in Nat
    BY <1>10, <2>4
  <2>5. ends[k - 1] + (1 + j) = ends[k - 1] + 1 + j
    <3>1. \A e, i \in Nat : e + (1 + i) = e + 1 + i
      OBVIOUS
    <3>2. j \in Nat
      BY <2>1
    <3> QED
      BY <2>a, <3>1, <3>2, Zenon
  <2> QED
    BY <1>4, <2>3, <2>5
<1>14. \A p \in 1..ends[n] : \E k \in 1..n :
         \/ p = ends[k - 1] + 1
         \/ \E j \in 1..Len(Field(fields[k])) : p = ends[k - 1] + 1 + j
  <2> SUFFICES ASSUME NEW p \in 1..ends[n]
               PROVE  \E k \in 1..n : \/ p = ends[k - 1] + 1
                                      \/ \E j \in 1..Len(Field(fields[k])) : p = ends[k - 1] + 1 + j
    OBVIOUS
  <2>1. PICK k \in 1..n : \E j \in 1..Len(seqs[k]) : p = ends[k - 1] + j
    BY <1>7, <1>10 DEF Laid
  <2>2. PICK j \in 1..Len(seqs[k]) : p = ends[k - 1] + j
    BY <2>1
  <2>3. Len(Field(fields[k])) \in Nat /\ Len(seqs[k]) = 1 + Len(Field(fields[k]))
    BY <1>4
  <2>4. k - 1 \in 0..n
    OBVIOUS
  <2>5. ends[k - 1] \in Nat
    BY <1>10, <2>4
  <2>6. j = 1 \/ (j - 1 \in 1..Len(Field(fields[k])) /\ p = ends[k - 1] + 1 + (j - 1))
    BY <2>2, <2>3, <2>5
  <2> QED
    BY <2>2, <2>6, Zenon
<1>15. FormLaid(n, fields, b, body, ends)
  <2>1. /\ Len(body) = ends[n] + 3
        /\ body[ends[n] + 1] = d /\ body[ends[n] + 2] = Dashes /\ body[ends[n] + 3] = Crlf
    BY <1>8, <1>9, <1>10 DEF Joins
  <2>2. \A k \in 1..n : Len(Field(fields[k])) \in Nat /\ ends[k] = ends[k - 1] + 1 + Len(Field(fields[k]))
    <3> SUFFICES ASSUME NEW k \in 1..n
                 PROVE  /\ Len(Field(fields[k])) \in Nat
                        /\ ends[k] = ends[k - 1] + 1 + Len(Field(fields[k]))
      OBVIOUS
    <3>1. k - 1 \in 0..n
      OBVIOUS
    <3>2. ends[k - 1] \in Nat /\ ends[k] = ends[k - 1] + Len(seqs[k])
      BY <1>10, <3>1
    <3>3. Len(seqs[k]) = 1 + Len(Field(fields[k])) /\ Len(Field(fields[k])) \in Nat
      BY <1>4, Zenon
    <3>4. \A e, l \in Nat : e + (1 + l) = e + 1 + l
      OBVIOUS
    <3> QED
      BY <3>2, <3>3, <3>4, Zenon
  <2> QED
    BY <1>10, <1>12, <1>13, <1>14, <2>1, <2>2, Zenon DEF FormLaid, d
<1> QED
  BY <1>9, <1>15 DEF body, T

\* each field, with its own delimiter, is at least two tokens long
InTurn(n, fields, body, ends) ==
  \A k \in 1..n : /\ ends[k - 1] \in Nat /\ ends[k] \in Nat /\ ends[n] \in Nat
                   /\ ends[k - 1] + 2 <= ends[k] /\ ends[k] <= ends[n]
                   /\ ends[k] = ends[k - 1] + 1 + Len(Field(fields[k]))
                   /\ body[ends[k - 1] + 2] = Crlf

\* The fields of a form follow each other so.
LEMMA FieldsFollow ==
  ASSUME NEW S, NEW n \in Nat, NEW fields, NEW b, NEW body, NEW ends,
         Holds(S, n, fields), FormLaid(n, fields, b, body, ends)
  PROVE  InTurn(n, fields, body, ends)
<1> SUFFICES ASSUME NEW k \in 1..n
             PROVE  /\ ends[k - 1] \in Nat /\ ends[k] \in Nat /\ ends[n] \in Nat
                    /\ ends[k - 1] + 2 <= ends[k] /\ ends[k] <= ends[n]
                    /\ ends[k] = ends[k - 1] + 1 + Len(Field(fields[k]))
                    /\ body[ends[k - 1] + 2] = Crlf
  BY DEF InTurn
<1> DEFINE F == Field(fields[k])
<1>1. k - 1 \in 0..n /\ k \in 0..n /\ n \in 0..n /\ k <= n
  OBVIOUS
<1>2. /\ ends \in [0..n -> Nat] /\ \A i, j \in 0..n : i <= j => ends[i] <= ends[j]
      /\ Len(F) \in Nat /\ ends[k] = ends[k - 1] + 1 + Len(F)
      /\ \A j \in 1..Len(F) : body[ends[k - 1] + 1 + j] = F[j]
  BY DEF FormLaid
<1>3. Len(F) >= 1 /\ F[1] = Crlf
  <2>1. Len(F) = HeaderLength(fields[k]) + 4 + Len(fields[k].content) /\ F[1] = Crlf
    BY FieldTokens, Zenon DEF Holds
  <2>2. HeaderLength(fields[k]) \in {2, 3} /\ Len(fields[k].content) \in Nat
    BY DEF HeaderLength, Holds
  <2> HIDE DEF F
  <2> QED
    BY <2>1, <2>2
<1> HIDE DEF F
<1>4. ends[k - 1] \in Nat /\ ends[k] \in Nat /\ ends[n] \in Nat /\ ends[k] <= ends[n]
  BY <1>1, <1>2
<1>5. body[ends[k - 1] + 1 + 1] = Crlf
  <2>1. 1 \in 1..Len(F)
    BY <1>2, <1>3
  <2> QED
    BY <1>2, <1>3, <2>1, Zenon
<1>6. ends[k - 1] + 1 + 1 = ends[k - 1] + 2 /\ ends[k - 1] + 2 <= ends[k]
  BY <1>2, <1>3, <1>4
<1> QED
  BY <1>2, <1>4, <1>5, <1>6 DEF F

\* where the delimiters are in the body of a form: before each field, and behind
\* the last
DelimitersAt(n, b, body, ends, c) ==
  \A i \in 1..Len(body) :
    body[i] = Delimiter(c) <=> Delimiter(c) = Delimiter(b) /\ \E k \in 0..n : i = ends[k] + 1

\* Where its header says so.
LEMMA DelimitersOfForm ==
  ASSUME NEW S, NEW n \in Nat, NEW fields, NEW b, NEW body, NEW ends,
         Holds(S, n, fields), FormLaid(n, fields, b, body, ends),
         NEW c, AllAvoid(n, fields, c)
  PROVE  DelimitersAt(n, b, body, ends, c)
<1> SUFFICES ASSUME NEW i \in 1..Len(body)
             PROVE  body[i] = Delimiter(c) <=>
                      Delimiter(c) = Delimiter(b) /\ \E k \in 0..n : i = ends[k] + 1
  BY DEF DelimitersAt
<1> DEFINE d == Delimiter(c)
<1>1. Dashes # d /\ Crlf # d
  BY DEF Dashes, Crlf, Delimiter, Token
<1>2. \A k \in 1..n : \A j \in 1..Len(Field(fields[k])) : Field(fields[k])[j] # d
  BY NoDelimiter DEF Holds, AllAvoid, Avoids
<1>3. /\ ends \in [0..n -> Nat] /\ Len(body) = ends[n] + 3
      /\ body[ends[n] + 1] = Delimiter(b) /\ body[ends[n] + 2] = Dashes /\ body[ends[n] + 3] = Crlf
      /\ \A k \in 1..n : body[ends[k - 1] + 1] = Delimiter(b)
      /\ \A k \in 1..n : \A j \in 1..Len(Field(fields[k])) :
           body[ends[k - 1] + 1 + j] = Field(fields[k])[j]
      /\ \A p \in 1..ends[n] : \E k \in 1..n :
           \/ p = ends[k - 1] + 1
           \/ \E j \in 1..Len(Field(fields[k])) : p = ends[k - 1] + 1 + j
  BY DEF FormLaid
<1>4. \A k \in 0..n : body[ends[k] + 1] = Delimiter(b)
  <2> SUFFICES ASSUME NEW k \in 0..n, k # n PROVE body[ends[k] + 1] = Delimiter(b)
    BY <1>3
  <2> DEFINE m == k + 1
  <2>1. m \in 1..n /\ m - 1 = k
    OBVIOUS
  <2> HIDE DEF m
  <2> QED
    BY <1>3, <2>1
<1> HIDE DEF d
<1>5. ASSUME body[i] = d PROVE d = Delimiter(b) /\ \E k \in 0..n : i = ends[k] + 1
  <2>1. CASE i \in 1..ends[n]
    <3>1. PICK k \in 1..n : \/ i = ends[k - 1] + 1
                            \/ \E j \in 1..Len(Field(fields[k])) : i = ends[k - 1] + 1 + j
      BY <1>3, <2>1
    <3>2. i = ends[k - 1] + 1
      BY <1>2, <1>3, <1>5, <3>1, Zenon
    <3>3. k - 1 \in 0..n
      OBVIOUS
    <3> QED
      BY <1>3, <1>5, <3>2, <3>3
  <2>2. CASE i = ends[n] + 1
    <3>1. n \in 0..n
      OBVIOUS
    <3> QED
      BY <1>3, <1>5, <2>2, <3>1
  <2>3. CASE i = ends[n] + 2 \/ i = ends[n] + 3
    BY <1>1, <1>3, <1>5, <2>3
  <2>4. ends[n] \in Nat /\ i \in 1..(ends[n] + 3)
    BY <1>3
  <2>5. i \in 1..ends[n] \/ i = ends[n] + 1 \/ i = ends[n] + 2 \/ i = ends[n] + 3
    BY <2>4
  <2> QED
    BY <2>1, <2>2, <2>3, <2>5
<1> QED
  BY <1>4, <1>5 DEF d

\* All of them but the last open a part.
LEMMA OpeningOfForm ==
  ASSUME NEW S, NEW n \in Nat, NEW fields, NEW b, NEW body, NEW ends,
         Holds(S, n, fields), FormLaid(n, fields, b, body, ends),
         AllAvoid(n, fields, b)
  PROVE  Lists([k \in 1..n |-> ends[k - 1] + 1], n, Opening(body, Delimiter(b)))
<1> DEFINE d == Delimiter(b)
           all == {i \in 1..Len(body) : body[i] = d}
           p == [k \in 1..n |-> ends[k - 1] + 1]
<1>1. \A i \in 1..Len(body) : body[i] = d <=> \E k \in 0..n : i = ends[k] + 1
  <2>1. DelimitersAt(n, b, body, ends, b)
    BY DelimitersOfForm
  <2> QED
    BY <2>1, Zenon DEF DelimitersAt
<1>2. /\ ends \in [0..n -> Nat] /\ Len(body) = ends[n] + 3
      /\ \A j, k \in 0..n : j <= k => ends[j] <= ends[k]
  BY DEF FormLaid
<1>3. \A k \in 1..n : /\ ends[k - 1] \in Nat /\ ends[k] \in Nat /\ ends[n] \in Nat
                      /\ ends[k - 1] + 2 <= ends[k] /\ ends[k] <= ends[n]
                      /\ body[ends[k - 1] + 2] = Crlf
  <2>1. InTurn(n, fields, body, ends)
    BY FieldsFollow
  <2> QED
    BY <2>1, Zenon DEF InTurn
<1>4. Crlf # Dashes
  BY DEF Crlf, Dashes, Token
<1>5. Opening(body, d) = {i \in all : /\ \E j \in all : j > i
                                      /\ \A j \in all : j <= i => body[j + 1] # Dashes}
  BY DEF Opening
<1>6. \A k \in 0..n : ends[k] + 1 \in all
  <2> SUFFICES ASSUME NEW k \in 0..n PROVE ends[k] + 1 \in all
    OBVIOUS
  <2>1. ends[k] \in Nat /\ ends[n] \in Nat /\ ends[k] <= ends[n]
    BY <1>2
  <2>2. ends[k] + 1 \in 1..Len(body)
    BY <1>2, <2>1
  <2> QED
    BY <1>1, <2>2
<1>7. \A i \in all : \E k \in 0..n : i = ends[k] + 1
  BY <1>1
<1> HIDE DEF all, d
<1>8. \A k \in 1..n : p[k] \in Opening(body, d)
  <2> SUFFICES ASSUME NEW k \in 1..n PROVE ends[k - 1] + 1 \in Opening(body, d)
    OBVIOUS
  <2>1. k - 1 \in 0..n /\ n \in 0..n
    OBVIOUS
  <2>2. ends[k - 1] + 1 \in all /\ ends[n] + 1 \in all
    BY <1>6, <2>1
  <2>3. ends[n] + 1 > ends[k - 1] + 1
    <3>1. /\ ends[k - 1] \in Nat /\ ends[k] \in Nat /\ ends[n] \in Nat
          /\ ends[k - 1] + 2 <= ends[k] /\ ends[k] <= ends[n]
      BY <1>3, Zenon
    <3> QED
      BY <3>1
  <2>4. ASSUME NEW j \in all, j <= ends[k - 1] + 1 PROVE body[j + 1] # Dashes
    <3>1. PICK m \in 0..n : j = ends[m] + 1
      BY <1>7
    <3>2. ends[m] \in Nat /\ ends[k - 1] \in Nat /\ ends[n] \in Nat
      BY <1>2, <2>1
    <3>3. m # n
      BY <2>3, <2>4, <3>1, <3>2
    <3> DEFINE q == m + 1
    <3>4. q \in 1..n /\ q - 1 = m
      BY <3>3
    <3> HIDE DEF q
    <3>5. body[ends[m] + 2] = Crlf
      BY <1>3, <3>4
    <3>6. j + 1 = ends[m] + 2
      BY <3>1, <3>2
    <3> QED
      BY <1>4, <3>5, <3>6
  <2> QED
    BY <1>5, <2>2, <2>3, <2>4
<1>9. \A i \in Opening(body, d) : \E k \in 1..n : p[k] = i
  <2> SUFFICES ASSUME NEW i \in Opening(body, d) PROVE \E k \in 1..n : p[k] = i
    OBVIOUS
  <2>1. i \in all /\ \E j \in all : j > i
    BY <1>5
  <2>2. PICK m \in 0..n : i = ends[m] + 1
    BY <1>7, <2>1
  <2>3. PICK j \in all : j > i
    BY <2>1
  <2>4. PICK l \in 0..n : j = ends[l] + 1
    BY <1>7
  <2>5. ends[l] <= ends[n] /\ ends[l] \in Nat /\ ends[m] \in Nat /\ ends[n] \in Nat
    BY <1>2
  <2>6. m # n
    BY <2>2, <2>3, <2>4, <2>5
  <2> DEFINE q == m + 1
  <2>7. q \in 1..n /\ q - 1 = m
    BY <2>6
  <2> HIDE DEF q
  <2> QED
    BY <2>2, <2>7
<1>10. \A j, k \in 1..n : j < k => p[j] < p[k]
  <2> SUFFICES ASSUME NEW j \in 1..n, NEW k \in 1..n, j < k PROVE ends[j - 1] + 1 < ends[k - 1] + 1
    OBVIOUS
  <2>1. j \in 0..n /\ k - 1 \in 0..n /\ j <= k - 1
    OBVIOUS
  <2>2. ends[j] <= ends[k - 1]
    BY <1>2, <2>1
  <2> QED
    BY <1>3, <2>2
<1>11. p \in [1..n -> Opening(body, d)]
  BY <1>8
<1> QED
  BY <1>9, <1>10, <1>11 DEF Lists, d

\* No place, no text.
LEMMA AtNone ==
  ASSUME NEW text, NEW I, I = {}
  PROVE  At(text, I) = <<>>
<1>1. Cardinality(I) = 0
  BY FS_EmptySet
<1>2. At(text, I) = [k \in 1..0 |-> text[CHOOSE i \in I : Cardinality({j \in I : j <= i}) = k]]
  BY <1>1, Zenon DEF At
<1> QED
  BY <1>2

\* Each field is found where it lies.
LEMMA FieldOfForm ==
  ASSUME NEW S, NEW n \in Nat, NEW fields, NEW b, NEW ends,
         NEW body \in Seq(FormTokens(S, n, fields, b)),
         Holds(S, n, fields), FormLaid(n, fields, b, body, ends), AllAvoid(n, fields, b),
         NEW k \in 1..n
  PROVE  ParsePart(PartAt(body, Delimiter(b), ends[k - 1] + 1)) = AsFound(fields[k])
<1> DEFINE T == FormTokens(S, n, fields, b)
           f == fields[k]
           F == Field(f)
           i == ends[k - 1] + 1
<1>1. f.content \in Seq(T)
  <2>1. S \subseteq T /\ f.content \in Seq(S)
    BY DEF FormTokens, Holds
  <2> HIDE DEF f, T
  <2> QED
    BY <2>1
<1>2. body \in Seq(T) /\ Avoids(f, b)
  BY DEF AllAvoid
<1>3. /\ ends[k - 1] \in Nat /\ ends[k] \in Nat /\ ends[n] \in Nat
      /\ ends[k] <= ends[n] /\ ends[k] = ends[k - 1] + 1 + Len(F)
  <2>1. InTurn(n, fields, body, ends)
    BY FieldsFollow
  <2> QED
    BY <2>1, Zenon DEF InTurn
<1>4. /\ Len(body) = ends[n] + 3
      /\ body[ends[n] + 1] = Delimiter(b)
      /\ \A m \in 1..n : body[ends[m - 1] + 1] = Delimiter(b)
      /\ Len(F) \in Nat
      /\ \A j \in 1..Len(F) : body[ends[k - 1] + 1 + j] = F[j]
  BY DEF FormLaid
<1>5. i \in 1..Len(body) /\ i + Len(F) + 1 = ends[k] + 1 /\ i + Len(F) + 1 <= Len(body)
  <2>1. \A e, g, h, l, m \in Nat :
          g <= h /\ g = e + 1 + l /\ m = h + 3 => e + 1 \in 1..m /\ e + 1 + l + 1 = g + 1 /\ e + 1 + l + 1 <= m
    OBVIOUS
  <2>2. Len(body) \in Nat /\ Len(F) \in Nat /\ Len(body) = ends[n] + 3
    <3>1. Len(body) \in Nat
      OBVIOUS
    <3> QED
      BY <1>4, <3>1, Zenon
  <2> HIDE DEF F
  <2> QED
    BY <1>3, <2>1, <2>2, Zenon
<1>6. body[ends[k] + 1] = Delimiter(b)
  <2>1. CASE k = n
    BY <1>4, <2>1
  <2>2. CASE k # n
    <3> DEFINE m == k + 1
    <3>1. m \in 1..n /\ m - 1 = k
      BY <2>2
    <3> HIDE DEF m
    <3> QED
      BY <1>4, <3>1
  <2> QED
    BY <2>1, <2>2
<1>7. StandsAt(body, b, i, f)
  BY <1>4, <1>5, <1>6, Zenon DEF StandsAt
<1> HIDE DEF T, f, i
<1>8. ParsePart(PartAt(body, Delimiter(b), i)) = AsFound(f)
  BY <1>1, <1>2, <1>5, <1>7, WrittenFieldFound
<1> QED
  BY <1>8 DEF f, i

\* what is found in all of the fields
AllFound(n, fields) == [i \in 1..n |-> AsFound(fields[i])]

\* the fields have names, and the header a boundary
Named(n, fields) == \A k \in 1..n : fields[k].name # ""

\* a header has a boundary
Announced(b) == b # ""

\* Whatever a form holds, and however many fields, parse() finds each field under
\* its name, whole and in the order of the form, and nothing else, unless a field
\* holds the delimiter or has no name (MultipartBodyParser.hpp:19-48, 79-119).
THEOREM FieldsFound ==
  ASSUME NEW S, NEW n \in Nat, NEW fields, NEW b, Len(fields) = n,
         Holds(S, n, fields), AllAvoid(n, fields, b), Named(n, fields), Announced(b)
  PROVE  Parts(Form(fields, b), ContentType(TRUE, b)) =
           AllFound(n, fields)
<1> DEFINE T == FormTokens(S, n, fields, b)
           body == Form(fields, b)
           d == Delimiter(b)
           O == Opening(body, d)
           all == [i \in 1..Len(body) |-> i]
           opening == At(all, O)
           parts == [k \in 1..Len(opening) |-> ParsePart(PartAt(body, d, opening[k]))]
           found == [k \in 1..n |-> AsFound(fields[k])]
<1>1. body \in Seq(T) /\ \E ends : FormLaid(n, fields, b, body, ends)
  BY WrittenForm
<1>2. PICK ends : FormLaid(n, fields, b, body, ends)
  BY <1>1
<1> DEFINE p == [k \in 1..n |-> ends[k - 1] + 1]
<1>4. O \in SUBSET (1..Len(body)) /\ Len(body) \in Nat
  <2>1. body \in Seq(T)
    BY <1>1
  <2> HIDE DEF body, T, d
  <2>2. Len(body) \in Nat
    BY <2>1
  <2>3. \A i \in O : i \in 1..Len(body)
    BY Zenon DEF Opening
  <2> HIDE DEF O
  <2> QED
    BY <2>2, <2>3
<1>5. \A k \in 1..n : ParsePart(PartAt(body, d, p[k])) = AsFound(fields[k])
  <2> SUFFICES ASSUME NEW k \in 1..n
               PROVE  ParsePart(PartAt(body, d, ends[k - 1] + 1)) = AsFound(fields[k])
    OBVIOUS
  <2> HIDE DEF body
  <2> QED
    BY <1>1, <1>2, FieldOfForm
<1>6. Lists(p, n, O)
  <2> HIDE DEF body
  <2> QED
    BY <1>2, OpeningOfForm
<1> HIDE DEF T, body, d, O, p
<1>7. opening = p
  <2>1. opening = [k \in 1..n |-> all[p[k]]]
    <3> HIDE DEF all
    <3>1. O \in SUBSET Int
      BY <1>4
    <3> QED
      BY <1>6, <3>1, AtList
  <2>2. p \in [1..n -> O] /\ \A k \in 1..n : p[k] \in 1..Len(body)
    BY <1>4, <1>6 DEF Lists
  <2>3. \A k \in 1..n : all[p[k]] = p[k]
    BY <2>2
  <2> HIDE DEF all, opening
  <2> QED
    BY <2>1, <2>2, <2>3
<1> HIDE DEF opening, all
<1>8. parts = found
  <2>1. Len(opening) = n
    <3>1. p \in [1..n -> O]
      BY <1>6 DEF Lists
    <3> QED
      BY <1>7, <3>1
  <2>2. \A k \in 1..n : ParsePart(PartAt(body, d, opening[k])) = AsFound(fields[k])
    BY <1>5, <1>7
  <2> QED
    BY <2>1, <2>2, Zenon
<1>9. /\ Len(found) = n /\ found \in Seq({AsFound(fields[k]) : k \in 1..n})
      /\ Named(n, found)
  <2>1. \A k \in 1..n : AsFound(fields[k]).name = fields[k].name
    BY DEF AsFound
  <2>2. \A k \in 1..n : found[k].name = fields[k].name
    <3> HIDE DEF AsFound
    <3> QED
      BY <2>1
  <2>3. Named(n, found)
    BY <2>2, Zenon DEF Named
  <2> QED
    BY <2>3
<1> HIDE DEF parts, found
<1>10. {k \in 1..Len(parts) : parts[k].name # ""} = 1..Len(found)
  BY <1>8, <1>9, Zenon DEF Named
<1>11. At(parts, {k \in 1..Len(parts) : parts[k].name # ""}) = found
  BY <1>8, <1>9, <1>10, AtAll
<1>12. Parts(body, ContentType(TRUE, b)) = At(parts, {k \in 1..Len(parts) : parts[k].name # ""})
  <2>1. ContentType(TRUE, b).multipart = TRUE /\ ContentType(TRUE, b).boundary = b
    BY DEF ContentType
  <2> QED
    BY <2>1, Zenon DEF Parts, parts, opening, all, O, d, Announced
<1> QED
  BY <1>11, <1>12 DEF found, body, AllFound

\* With another boundary than the form is written with, parse() finds nothing.
LEMMA NothingFound ==
  ASSUME NEW S, NEW n \in Nat, NEW fields, NEW b, NEW c, b # c, Len(fields) = n,
         Holds(S, n, fields), AllAvoid(n, fields, c)
  PROVE  Parts(Form(fields, b), ContentType(TRUE, c)) = <<>>
<1> DEFINE body == Form(fields, b)
           d == Delimiter(c)
           O == Opening(body, d)
           all == [i \in 1..Len(body) |-> i]
           opening == At(all, O)
           parts == [k \in 1..Len(opening) |-> ParsePart(PartAt(body, d, opening[k]))]
           named == {k \in 1..Len(parts) : parts[k].name # ""}
<1>1. PICK ends : FormLaid(n, fields, b, body, ends)
  BY WrittenForm
<1>2. d # Delimiter(b)
  BY DEF Delimiter, Token
<1>3. \A i \in 1..Len(body) : body[i] # d
  <2> HIDE DEF body
  <2> SUFFICES ASSUME NEW i \in 1..Len(body) PROVE body[i] # d
    OBVIOUS
  <2>4. DelimitersAt(n, b, body, ends, c)
    BY <1>1, DelimitersOfForm
  <2> QED
    BY <1>2, <2>4 DEF d, DelimitersAt
<1>4. O = {}
  BY <1>3 DEF Opening
<1> HIDE DEF body, d, O
<1>5. opening = <<>>
  BY <1>4, AtNone, Zenon
<1>a. Len(opening) = 0
  BY <1>5
<1> HIDE DEF opening
<1>6. named = {}
  <2>1. Len(parts) = 0
    BY <1>a
  <2> HIDE DEF parts
  <2> QED
    BY <2>1
<1>7. At(parts, named) = <<>>
  <2> HIDE DEF named, parts
  <2> QED
    BY <1>6, AtNone
<1>8. ContentType(TRUE, c).multipart = TRUE /\ ContentType(TRUE, c).boundary = c
  BY DEF ContentType
<1>9. Parts(body, ContentType(TRUE, c)) = IF ~Announced(c) THEN <<>> ELSE At(parts, named)
  BY <1>8, Zenon DEF Parts, parts, named, opening, all, O, d, Announced
<1> QED
  BY <1>7, <1>9 DEF body

\* Without the type, or without a boundary, it does not look.
LEMMA NotLookedFor ==
  ASSUME NEW body, NEW type, ~type.multipart \/ type.boundary = ""
  PROVE  Parts(body, type) = <<>>
BY Zenon DEF Parts

-----------------------------------------------------------------------------
(* A written request                                                       *)

\* the part of the text that starts behind place i
Stands(text, i, part) ==
  /\ i + Len(part) <= Len(text)
  /\ \A k \in 1..Len(part) : text[i + k] = part[k]

\* SubSeq takes it out.
LEMMA Sliced ==
  ASSUME NEW T, NEW text \in Seq(T), NEW U, NEW part \in Seq(U), NEW i \in Nat, Stands(text, i, part)
  PROVE  SubSeq(text, i + 1, i + Len(part)) = part
<1> DEFINE n == Len(part)
           from == i + 1
           to == i + n
           s == SubSeq(text, from, to)
<1>1. n \in Nat /\ Len(text) \in Nat /\ i + n <= Len(text) /\ \A k \in 1..n : text[i + k] = part[k]
  BY DEF Stands
<1> HIDE DEF n
<1>2. \A k \in from..to : text[k] \in T
  BY <1>1 DEF n
<1>3. from \in Int /\ to \in Int
  BY <1>1 DEF n
<1>4. /\ s \in Seq(T) /\ Len(s) = IF from <= to THEN to - from + 1 ELSE 0
      /\ \A k \in 1..(to - from + 1) : s[k] = text[from + k - 1]
  BY <1>2, <1>3, SubSeqProperties
<1> HIDE DEF s
<1>5. to - from + 1 = n
  BY <1>1 DEF n
<1>6. Len(s) = n
  <2>1. from <= to \/ n = 0
    BY <1>1 DEF n
  <2>2. n = 0 => ~(from <= to)
    BY <1>1 DEF n
  <2> QED
    BY <1>4, <1>5, <2>1, <2>2
<1>7. \A k \in 1..n : s[k] = part[k]
  <2> SUFFICES ASSUME NEW k \in 1..n PROVE s[k] = part[k]
    OBVIOUS
  <2>1. s[k] = text[from + k - 1]
    BY <1>4, <1>5
  <2>2. from + k - 1 = i + k
    OBVIOUS
  <2> QED
    BY <1>1, <2>1, <2>2
<1>8. s \in Seq(T \union U) /\ part \in Seq(T \union U)
  BY <1>4
<1>9. s = part
  BY <1>6, <1>7, <1>8, SeqEqual DEF n
<1> QED
  BY <1>9 DEF s, n

\* the header lines of a request, with their line ends
HeaderText(lines) == FlattenSeq([i \in 1..Len(lines) |-> <<lines[i], Crlf>>])

\* line after line, the k-th ends at ends[k]
LinesLaid(n, lines, text, ends) ==
  /\ ends \in [0..n -> Nat] /\ ends[0] = 0 /\ ends[n] = Len(text)
  /\ \A k \in 1..n : ends[k] = ends[k - 1] + 2
  /\ \A j, k \in 0..n : j <= k => ends[j] <= ends[k]
  /\ \A k \in 1..n : text[ends[k - 1] + 1] = lines[k] /\ text[ends[k - 1] + 2] = Crlf
  /\ \A p \in 1..Len(text) : \E k \in 1..n : p = ends[k - 1] + 1 \/ p = ends[k - 1] + 2

\* They are laid so.
LEMMA WrittenLines ==
  ASSUME NEW S, NEW n \in Nat, NEW lines \in Seq(S), Len(lines) = n
  PROVE  /\ HeaderText(lines) \in Seq(S \union {Crlf})
         /\ \E ends : LinesLaid(n, lines, HeaderText(lines), ends)
<1> DEFINE T == S \union {Crlf}
           seqs == [k \in 1..n |-> <<lines[k], Crlf>>]
           text == HeaderText(lines)
<1>1. \A k \in 1..n : seqs[k] \in Seq(T) /\ Len(seqs[k]) = 2 /\ seqs[k][1] = lines[k] /\ seqs[k][2] = Crlf
  OBVIOUS
<1>2. seqs \in [1..n -> Seq(T)]
  BY <1>1
<1>3. text = FlattenSeq(seqs)
  BY DEF HeaderText
<1> HIDE DEF seqs, text, T
<1>4. text \in Seq(T) /\ \E ends : Laid(n, seqs, text, ends)
  BY <1>2, <1>3, FlattenedIsLaid
<1>5. PICK ends : Laid(n, seqs, text, ends)
  BY <1>4
<1>6. LinesLaid(n, lines, text, ends)
  <2>1. /\ ends \in [0..n -> Nat] /\ ends[0] = 0 /\ ends[n] = Len(text)
        /\ \A k \in 1..n : ends[k] = ends[k - 1] + Len(seqs[k])
        /\ \A j, k \in 0..n : j <= k => ends[j] <= ends[k]
        /\ \A k \in 1..n : \A j \in 1..Len(seqs[k]) : text[ends[k - 1] + j] = seqs[k][j]
        /\ \A p \in 1..Len(text) : \E k \in 1..n : \E j \in 1..Len(seqs[k]) : p = ends[k - 1] + j
    BY <1>5 DEF Laid
  <2>2. \A k \in 1..n : text[ends[k - 1] + 1] = lines[k] /\ text[ends[k - 1] + 2] = Crlf
    <3> SUFFICES ASSUME NEW k \in 1..n
                 PROVE  text[ends[k - 1] + 1] = lines[k] /\ text[ends[k - 1] + 2] = Crlf
      OBVIOUS
    <3>1. 1 \in 1..Len(seqs[k]) /\ 2 \in 1..Len(seqs[k])
      BY <1>1
    <3>2. text[ends[k - 1] + 1] = seqs[k][1] /\ text[ends[k - 1] + 2] = seqs[k][2]
      BY <2>1, <3>1, Zenon
    <3> QED
      BY <1>1, <3>2, Zenon
  <2>3. \A p \in 1..Len(text) : \E k \in 1..n : p = ends[k - 1] + 1 \/ p = ends[k - 1] + 2
    <3> SUFFICES ASSUME NEW p \in 1..Len(text)
                 PROVE  \E k \in 1..n : p = ends[k - 1] + 1 \/ p = ends[k - 1] + 2
      OBVIOUS
    <3>1. PICK k \in 1..n : \E j \in 1..Len(seqs[k]) : p = ends[k - 1] + j
      BY <2>1
    <3>2. PICK j \in 1..2 : p = ends[k - 1] + j
      BY <1>1, <3>1
    <3>3. j = 1 \/ j = 2
      OBVIOUS
    <3> QED
      BY <3>2, <3>3
  <2>4. \A k \in 1..n : ends[k] = ends[k - 1] + 2
    BY <1>1, <2>1
  <2> QED
    BY <2>1, <2>2, <2>3, <2>4, Zenon DEF LinesLaid
<1> QED
  BY <1>4, <1>6 DEF T, text

\* No header line is empty, and the last line end is one of theirs.
LEMMA NoEmptyLine ==
  ASSUME NEW n \in Nat, NEW lines, NEW ends, NEW text, LinesLaid(n, lines, text, ends), Len(text) \in Nat,
         \A k \in 1..n : lines[k] # Crlf
  PROVE  /\ \A p \in 1..Len(text) : text[p] = Crlf => p > 1 /\ text[p - 1] # Crlf
         /\ Len(text) > 0 => text[Len(text)] = Crlf
<1>1. /\ ends \in [0..n -> Nat] /\ ends[0] = 0 /\ ends[n] = Len(text)
      /\ \A k \in 1..n : ends[k] = ends[k - 1] + 2
      /\ \A k \in 1..n : text[ends[k - 1] + 1] = lines[k] /\ text[ends[k - 1] + 2] = Crlf
      /\ \A p \in 1..Len(text) : \E k \in 1..n : p = ends[k - 1] + 1 \/ p = ends[k - 1] + 2
  BY DEF LinesLaid
<1>2. ASSUME NEW p \in 1..Len(text), text[p] = Crlf PROVE p > 1 /\ text[p - 1] # Crlf
  <2>1. PICK k \in 1..n : p = ends[k - 1] + 1 \/ p = ends[k - 1] + 2
    BY <1>1
  <2>2. p = ends[k - 1] + 2
    BY <1>1, <1>2, <2>1
  <2>3. k - 1 \in 0..n
    OBVIOUS
  <2>4. ends[k - 1] \in Nat
    BY <1>1, <2>3
  <2>5. p - 1 = ends[k - 1] + 1 /\ p > 1
    BY <2>2, <2>4
  <2>6. text[p - 1] = lines[k]
    BY <1>1, <2>5, Zenon
  <2> QED
    BY <2>5, <2>6
<1>3. ASSUME Len(text) > 0 PROVE text[Len(text)] = Crlf
  <2>1. n \in 1..n
    BY <1>1, <1>3
  <2>2. ends[n] = ends[n - 1] + 2
    BY <1>1, <2>1
  <2> QED
    BY <1>1, <2>1, <2>2
<1> QED
  BY <1>2, <1>3

\* what is where in a request
RequestLaid(raw, method, target, text, body) ==
  LET l == Len(target)
      m == Len(text)
  IN /\ Len(raw) = l + m + 6 + Len(body)
     /\ raw[1] = Word(method) /\ raw[2] = Space
     /\ Stands(raw, 2, target)
     /\ raw[l + 3] = Space /\ raw[l + 4] = Word("HTTP/1.1") /\ raw[l + 5] = Crlf
     /\ Stands(raw, l + 5, text)
     /\ raw[l + m + 6] = Crlf
     /\ Stands(raw, l + m + 6, body)

\* It is laid so.
LEMMA WrittenRequest ==
  ASSUME NEW S, NEW method, NEW target \in Seq(S), NEW lines \in Seq(S), NEW body \in Seq(S)
  PROVE  /\ Written(method, target, lines, body)
               \in Seq(S \union {Word(method), Space, Word("HTTP/1.1"), Crlf})
         /\ RequestLaid(Written(method, target, lines, body), method, target, HeaderText(lines), body)
<1> DEFINE T == S \union {Word(method), Space, Word("HTTP/1.1"), Crlf}
           text == HeaderText(lines)
           a == <<Word(method), Space>>
           b == <<Space, Word("HTTP/1.1"), Crlf>>
           c == <<Crlf>>
           r1 == a \o target
           r2 == r1 \o b
           r3 == r2 \o text
           r4 == r3 \o c
           raw == r4 \o body
<1>1. Written(method, target, lines, body) = raw
  BY DEF Written, HeaderText
<1>2. Word(method) \in T /\ Space \in T /\ Word("HTTP/1.1") \in T /\ Crlf \in T
  OBVIOUS
<1>3. target \in Seq(T) /\ body \in Seq(T)
  OBVIOUS
<1>4. text \in Seq(T)
  <2>1. text \in Seq(S \union {Crlf})
    BY WrittenLines
  <2> HIDE DEF text
  <2> QED
    BY <2>1
<1> DEFINE l == Len(target)
           m == Len(text)
           k == Len(body)
           w == Word(method)
           v == Word("HTTP/1.1")
<1> HIDE DEF T, w, v
<1>5. /\ a \in Seq(T) /\ Len(a) = 2 /\ a[1] = w /\ a[2] = Space
      /\ b \in Seq(T) /\ Len(b) = 3 /\ b[1] = Space /\ b[2] = v /\ b[3] = Crlf
      /\ c \in Seq(T) /\ Len(c) = 1 /\ c[1] = Crlf
  BY <1>2 DEF w, v
<1> HIDE DEF a, b, c, text
<1>6. l \in Nat /\ m \in Nat /\ k \in Nat
  BY <1>3, <1>4
<1>7. r1 \in Seq(T) /\ Joins(r1, a, target)
  BY <1>3, <1>5, Joined
<1>8. r1 \in Seq(T) /\ Len(r1) = l + 2 /\ r1[1] = w /\ r1[2] = Space /\ \A i \in 1..l : r1[2 + i] = target[i]
  BY <1>5, <1>6, <1>7 DEF Joins
<1> HIDE DEF r1
<1>9. r2 \in Seq(T) /\ Joins(r2, r1, b)
  BY <1>5, <1>8, Joined
<1>10. /\ Len(r2) = l + 5 /\ \A i \in 1..(l + 2) : r2[i] = r1[i]
       /\ r2[l + 3] = Space /\ r2[l + 4] = v /\ r2[l + 5] = Crlf
  <2>1. r2[l + 2 + 1] = b[1] /\ r2[l + 2 + 2] = b[2] /\ r2[l + 2 + 3] = b[3]
    BY <1>5, <1>8, <1>9 DEF Joins
  <2>2. l + 2 + 1 = l + 3 /\ l + 2 + 2 = l + 4 /\ l + 2 + 3 = l + 5
    BY <1>6
  <2> QED
    BY <1>5, <1>6, <1>8, <1>9, <2>1, <2>2 DEF Joins
<1> HIDE DEF r2
<1>11. r3 \in Seq(T) /\ Joins(r3, r2, text)
  BY <1>4, <1>9, Joined
<1>12. /\ Len(r3) = l + 5 + m /\ \A i \in 1..(l + 5) : r3[i] = r2[i]
       /\ \A i \in 1..m : r3[l + 5 + i] = text[i]
  BY <1>10, <1>11, Zenon DEF Joins
<1> HIDE DEF r3
<1>13. r4 \in Seq(T) /\ Joins(r4, r3, c)
  BY <1>5, <1>11, Joined
<1>14. /\ Len(r4) = l + m + 6 /\ \A i \in 1..(l + 5 + m) : r4[i] = r3[i]
       /\ r4[l + m + 6] = Crlf
  <2>1. Len(r4) = l + 5 + m + 1 /\ \A i \in 1..(l + 5 + m) : r4[i] = r3[i]
    BY <1>5, <1>12, <1>13, Zenon DEF Joins
  <2>2. l + 5 + m + 1 = l + m + 6
    BY <1>6
  <2>3. r4[l + 5 + m + 1] = Crlf
    BY <1>5, <1>12, <1>13 DEF Joins
  <2> QED
    BY <2>1, <2>2, <2>3
<1> HIDE DEF r4
<1>15. raw \in Seq(T) /\ Joins(raw, r4, body)
  BY <1>3, <1>13, Joined
<1>16. /\ Len(raw) = l + m + 6 + k /\ \A i \in 1..(l + m + 6) : raw[i] = r4[i]
       /\ \A i \in 1..k : raw[l + m + 6 + i] = body[i]
  BY <1>14, <1>15, Zenon DEF Joins
<1> HIDE DEF raw
<1>17. \A i \in 1..(l + 5 + m) : raw[i] = r3[i]
  BY <1>6, <1>14, <1>16
<1>18. \A i \in 1..(l + 5) : raw[i] = r2[i]
  BY <1>6, <1>12, <1>17
<1>19. \A i \in 1..(l + 2) : raw[i] = r1[i]
  BY <1>6, <1>10, <1>18
<1> HIDE DEF l, m, k
<1>20. raw[1] = w /\ raw[2] = Space /\ \A i \in 1..l : raw[2 + i] = target[i]
  BY <1>6, <1>8, <1>19
<1>21. raw[l + 3] = Space /\ raw[l + 4] = v /\ raw[l + 5] = Crlf
  BY <1>6, <1>10, <1>18
<1>22. \A i \in 1..m : raw[l + 5 + i] = text[i]
  BY <1>6, <1>12, <1>17
<1>23. raw[l + m + 6] = Crlf
  BY <1>6, <1>14, <1>16
<1>24. Stands(raw, 2, target) /\ Stands(raw, l + 5, text) /\ Stands(raw, l + m + 6, body)
  <2>1. 2 + l <= Len(raw) /\ l + 5 + m <= Len(raw) /\ l + m + 6 + k <= Len(raw)
    BY <1>6, <1>16
  <2> QED
    BY <1>16, <1>20, <1>22, <2>1, Zenon DEF Stands, l, m, k
<1>25. RequestLaid(raw, method, target, text, body)
  BY <1>16, <1>20, <1>21, <1>23, <1>24, Zenon DEF RequestLaid, l, m, k, w, v
<1> QED
  BY <1>1, <1>15, <1>25 DEF T, text

\* what a client does not write into a target, or into its headers
NoSeparator(target) == \A k \in 1..Len(target) : target[k] # Space /\ target[k] # Crlf

\* no line end in a text
NoLineEnd(lines) == \A k \in 1..Len(lines) : lines[k] # Crlf

\* a method is HTTP's for the factory
IsMethod(method) == method \in HttpMethods

\* no header line is empty, and the last line end is one of theirs
NoneEmpty(text) ==
  /\ \A p \in 1..Len(text) : text[p] = Crlf => p > 1 /\ text[p - 1] # Crlf
  /\ Len(text) > 0 => text[Len(text)] = Crlf

\* The first line end closes the request line.
LEMMA LineFound ==
  ASSUME NEW T, NEW raw \in Seq(T), NEW target \in Seq(T), NEW text \in Seq(T), NEW body \in Seq(T), NEW method,
         RequestLaid(raw, method, target, text, body), NoSeparator(target)
  PROVE  Find(raw, Crlf, 1) = Len(target) + 5
<1> DEFINE l == Len(target)
           m == l + 5
<1>1. /\ Len(raw) = l + Len(text) + 6 + Len(body) /\ raw[1] = Word(method) /\ raw[2] = Space
      /\ \A k \in 1..l : raw[2 + k] = target[k]
      /\ raw[l + 3] = Space /\ raw[l + 4] = Word("HTTP/1.1") /\ raw[l + 5] = Crlf
  BY DEF RequestLaid, Stands
<1>2. l \in Nat /\ Len(text) \in Nat /\ Len(body) \in Nat
  OBVIOUS
<1>3. Word(method) # Crlf /\ Space # Crlf /\ Word("HTTP/1.1") # Crlf
  BY DEF Word, Space, Crlf, Token
<1>4. \A k \in 1..l : target[k] # Crlf
  BY DEF NoSeparator
<1> HIDE DEF l
<1>5. \A i \in 1..(m - 1) : raw[i] # Crlf
  <2> SUFFICES ASSUME NEW i \in 1..(l + 4) PROVE raw[i] # Crlf
    BY <1>2
  <2>1. i = 1 \/ i = 2 \/ i = l + 3 \/ i = l + 4 \/ (i - 2 \in 1..l /\ 2 + (i - 2) = i)
    BY <1>2
  <2>2. i - 2 \in 1..l /\ 2 + (i - 2) = i => raw[i] = target[i - 2]
    BY <1>1
  <2> QED
    BY <1>1, <1>3, <1>4, <2>1, <2>2
<1>6. m \in 1..Len(raw) /\ Len(raw) \in Nat /\ 1 \in Nat
  BY <1>1, <1>2
<1>7. raw[m] = Crlf
  BY <1>1
<1> HIDE DEF m
<1>8. Find(raw, Crlf, 1) = m
  BY <1>5, <1>6, <1>7, FoundFirst
<1> QED
  BY <1>8 DEF m, l

\* The empty line behind the headers is the first one.
LEMMA HeadersEnd ==
  ASSUME NEW T, NEW raw \in Seq(T), NEW target \in Seq(T), NEW text \in Seq(T), NEW body \in Seq(T), NEW method,
         RequestLaid(raw, method, target, text, body), NoneEmpty(text)
  PROVE  EndOfHeaders(raw, Len(target) + 5) = Len(target) + Len(text) + 6
<1> DEFINE l == Len(target)
           n == Len(text)
           e == l + n + 6
           places == [i \in 1..Len(raw) |-> i]
           I == {i \in (l + 5 + 1)..Len(raw) : raw[places[i]] = Crlf /\ raw[places[i] - 1] = Crlf}
<1>1. /\ Len(raw) = l + n + 6 + Len(body) /\ raw[l + 5] = Crlf /\ raw[l + n + 6] = Crlf
      /\ \A k \in 1..n : raw[l + 5 + k] = text[k]
  BY DEF RequestLaid, Stands
<1>2. l \in Nat /\ n \in Nat /\ Len(body) \in Nat
  OBVIOUS
<1>3. /\ \A p \in 1..n : text[p] = Crlf => p > 1 /\ text[p - 1] # Crlf
      /\ n > 0 => text[n] = Crlf
  BY DEF NoneEmpty
<1> HIDE DEF l, n
<1>4. \A i \in (l + 5 + 1)..Len(raw) : places[i] = i
  BY <1>1, <1>2
<1>5. I \in SUBSET Nat
  BY <1>2
<1>6. e \in I
  <2>1. e \in (l + 5 + 1)..Len(raw)
    BY <1>1, <1>2
  <2>2. raw[e - 1] = Crlf
    <3>1. CASE n = 0
      <4>1. e - 1 = l + 5
        BY <1>2, <3>1
      <4> QED
        BY <1>1, <4>1
    <3>2. CASE n > 0
      <4>1. e - 1 = l + 5 + n /\ n \in 1..n
        BY <1>2, <3>2
      <4> QED
        BY <1>1, <1>3, <3>2, <4>1
    <3> QED
      BY <1>2, <3>1, <3>2
  <2>3. raw[e] = Crlf /\ places[e] = e
    BY <1>1, <1>4, <2>1
  <2> QED
    BY <2>1, <2>2, <2>3
<1>7. \A i \in I : e <= i
  <2> SUFFICES ASSUME NEW i \in (l + 5 + 1)..Len(raw), raw[i] = Crlf, raw[i - 1] = Crlf, i < e
               PROVE  FALSE
    BY <1>1, <1>2, <1>4
  <2> DEFINE p == i - (l + 5)
  <2>1. p \in 1..n /\ i = l + 5 + p
    <3>1. i \in (l + 6)..(l + 5 + n)
      BY <1>1, <1>2
    <3> QED
      BY ONLY <1>2, <3>1
  <2>2. text[p] = Crlf
    BY <1>1, <2>1
  <2>3. p > 1 /\ text[p - 1] # Crlf
    BY <1>3, <2>1, <2>2
  <2>4. i - 1 = l + 5 + (p - 1) /\ p - 1 \in 1..n
    BY <1>2, <2>1, <2>3
  <2>5. raw[i - 1] = text[p - 1]
    BY <1>1, <2>4
  <2> QED
    BY <2>3, <2>5
<1>8. Min(I) = e
  <2> HIDE DEF I, e
  <2> QED
    BY <1>5, <1>6, <1>7, LeastOf
<1>9. EndOfHeaders(raw, l + 5) = IF I # {} THEN Min(I) ELSE 0
  BY Zenon DEF EndOfHeaders, SelectInSubSeq
<1> QED
  BY <1>6, <1>8, <1>9 DEF l, n

\* what the searches find in the first line
LineIs(line, method, target) ==
  /\ Find(line, Space, 1) = 2 /\ Find(line, Space, 3) = Len(target) + 3
  /\ Said(SubSeq(line, 1, 1)) = method
  /\ SubSeq(line, 3, Len(target) + 2) = target

\* The first line falls into method, target and version.
LEMMA LineParsed ==
  ASSUME NEW T, NEW raw \in Seq(T), NEW target \in Seq(T), NEW text \in Seq(T), NEW body \in Seq(T), NEW method,
         RequestLaid(raw, method, target, text, body), NoSeparator(target),
         NEW line, line = SubSeq(raw, 1, Len(target) + 4)
  PROVE  LineIs(line, method, target)
<1> DEFINE l == Len(target)
           s == l + 3
           two == 2
           three == 3
<1>1. /\ Len(raw) = l + Len(text) + 6 + Len(body) /\ raw[1] = Word(method) /\ raw[2] = Space
      /\ \A k \in 1..l : raw[2 + k] = target[k]
      /\ raw[l + 3] = Space /\ raw[l + 4] = Word("HTTP/1.1") /\ raw[l + 5] = Crlf
  BY DEF RequestLaid, Stands
<1>2. l \in Nat /\ Len(text) \in Nat /\ Len(body) \in Nat
  OBVIOUS
<1>3. Word(method) # Space
  BY DEF Word, Space, Token
<1>4. \A k \in 1..l : target[k] # Space
  BY DEF NoSeparator
<1>5. line \in Seq(T) /\ Len(line) = l + 4 /\ \A k \in 1..(l + 4) : line[k] = raw[k]
  <2>1. l + 4 \in Int /\ 1 \in Int /\ \A k \in 1..(l + 4) : raw[k] \in T
    BY <1>1, <1>2
  <2> DEFINE sub == SubSeq(raw, 1, l + 4)
  <2>2. /\ sub \in Seq(T) /\ Len(sub) = IF 1 <= l + 4 THEN l + 4 - 1 + 1 ELSE 0
        /\ \A k \in 1..(l + 4 - 1 + 1) : sub[k] = raw[1 + k - 1]
    BY <2>1, SubSeqProperties
  <2>3. line = sub
    OBVIOUS
  <2> HIDE DEF sub, l
  <2>4. l + 4 - 1 + 1 = l + 4 /\ 1 <= l + 4 /\ \A k \in 1..(l + 4) : 1 + k - 1 = k
    BY <1>2
  <2> QED
    BY <2>2, <2>3, <2>4
<1> HIDE DEF l
<1>6. /\ line[1] = Word(method) /\ line[2] = Space /\ line[s] = Space
      /\ \A k \in 1..l : line[2 + k] = target[k]
  BY <1>1, <1>2, <1>5
<1>7. Find(line, Space, 1) = 2
  <2>1. two \in 1..Len(line) /\ Len(line) \in Nat /\ \A i \in 1..(two - 1) : line[i] # Space
    BY <1>2, <1>3, <1>5, <1>6
  <2>2. line[two] = Space /\ 1 \in Nat
    BY <1>6
  <2> HIDE DEF two
  <2>3. Find(line, Space, 1) = two
    BY <2>1, <2>2, FoundFirst
  <2> QED
    BY <2>3 DEF two
<1>8. Find(line, Space, 3) = s
  <2>1. \A i \in three..(s - 1) : line[i] # Space
    <3>a. s - 1 = l + 2
      BY <1>2
    <3> SUFFICES ASSUME NEW i \in 3..(l + 2) PROVE line[i] # Space
      BY <3>a, Zenon
    <3>1. i - 2 \in 1..l /\ 2 + (i - 2) = i
      BY <1>2
    <3>2. line[2 + (i - 2)] = target[i - 2]
      BY <1>6, <3>1
    <3> QED
      BY <1>4, <3>1, <3>2
  <2>2. s \in three..Len(line) /\ Len(line) \in Nat /\ three \in Nat /\ line[s] = Space
    BY <1>2, <1>5, <1>6
  <2> HIDE DEF s, three
  <2>3. Find(line, Space, three) = s
    BY <2>1, <2>2, FoundFirst
  <2> QED
    BY <2>3 DEF three
<1>9. Said(SubSeq(line, 1, 1)) = method
  <2>1. Stands(line, 0, <<Word(method)>>)
    BY <1>2, <1>5, <1>6 DEF Stands
  <2> DEFINE word == <<Word(method)>>
             i == 0
             one == 1
  <2>2. word \in Seq({Word(method)}) /\ i \in Nat /\ one = i + 1 /\ one = i + Len(word)
    OBVIOUS
  <2>a. Stands(line, i, word)
    BY <2>1
  <2> HIDE DEF word, i, one
  <2>b. SubSeq(line, i + 1, i + Len(word)) = word
    BY <1>5, <2>2, <2>a, Sliced
  <2>3. SubSeq(line, one, one) = word
    BY <2>2, <2>b
  <2>4. word # <<>> /\ Head(word).of = method
    BY DEF word, Word, Token
  <2> QED
    BY <2>3, <2>4, Zenon DEF Said, one
<1>10. SubSeq(line, 3, l + 2) = target
  <2>1. Stands(line, two, target)
    BY <1>2, <1>5, <1>6 DEF Stands, l
  <2> DEFINE e == l + 2
  <2>2. two \in Nat /\ three = two + 1 /\ e = two + Len(target)
    BY <1>2 DEF l
  <2> HIDE DEF two, three, e
  <2>a. SubSeq(line, two + 1, two + Len(target)) = target
    BY <1>5, <2>1, <2>2, Sliced
  <2>3. SubSeq(line, three, e) = target
    BY <2>2, <2>a
  <2> QED
    BY <2>3 DEF three, e
<1> QED
  BY <1>7, <1>8, <1>9, <1>10 DEF l, s, LineIs

\* The factory and the request take out of it what the client has put in.
LEMMA RequestTaken ==
  ASSUME NEW T, NEW raw \in Seq(T), NEW target \in Seq(T), NEW text \in Seq(T), NEW body \in Seq(T),
         NEW method, IsMethod(method),
         RequestLaid(raw, method, target, text, body), NoSeparator(target), NoneEmpty(text)
  PROVE  Parse(raw) = [method |-> method, uri |-> PathOf(target), lines |-> text, body |-> body]
<1> DEFINE l == Len(target)
           n == Len(text)
           first == Find(raw, Crlf, 1)
           line == SubSeq(raw, 1, first - 1)
           space1 == Find(line, Space, 1)
           space2 == Find(line, Space, space1 + 1)
           end == EndOfHeaders(raw, first)
<1>1. first = l + 5
  BY LineFound
<1>2. l \in Nat /\ n \in Nat /\ Len(raw) = l + n + 6 + Len(body) /\ Len(body) \in Nat
      /\ raw[1] = Word(method) /\ raw[2] = Space
      /\ Stands(raw, l + 5, text) /\ Stands(raw, l + n + 6, body)
  BY DEF RequestLaid
<1>3. EndOfHeaders(raw, l + 5) = l + n + 6
  BY HeadersEnd
<1> HIDE DEF first
<1>4. end = l + n + 6
  BY <1>1, <1>3
<1> HIDE DEF end
<1>5. first - 1 = l + 4
  BY <1>1, <1>2
<1>6. /\ Find(line, Space, 1) = 2 /\ Find(line, Space, 3) = l + 3
      /\ Said(SubSeq(line, 1, 1)) = method /\ SubSeq(line, 3, l + 2) = target
  <2>1. line = SubSeq(raw, 1, Len(target) + 4)
    BY <1>5
  <2> HIDE DEF line
  <2>2. LineIs(line, method, target)
    BY <2>1, LineParsed
  <2> QED
    BY <2>2 DEF LineIs
<1> HIDE DEF line
<1>7. space1 = 2
  BY <1>6
<1> HIDE DEF space1
<1>8. space2 = l + 3
  <2>1. space1 + 1 = 3
    BY <1>7
  <2> QED
    BY <1>6, <2>1
<1> HIDE DEF space2
<1>9. (IF space1 = 0 THEN line ELSE SubSeq(line, 1, space1 - 1)) = SubSeq(line, 1, 1)
  <2>1. space1 # 0 /\ space1 - 1 = 1
    BY <1>7
  <2> QED
    BY <2>1
<1>10. Between(line, space1, IF space2 = 0 THEN Len(line) + 1 ELSE space2) = target
  <2>1. space2 # 0 /\ space1 + 1 = 3 /\ space2 - 1 = l + 2
    BY <1>2, <1>7, <1>8
  <2>2. (IF space2 = 0 THEN Len(line) + 1 ELSE space2) = space2
    BY <2>1
  <2> QED
    BY <1>6, <2>1, <2>2, Zenon DEF Between
<1>11. Between(raw, first, IF end = 0 THEN Len(raw) + 1 ELSE end) = text
  <2> DEFINE i == l + 5
             from == l + 6
             to == l + n + 5
  <2>1. end # 0 /\ first + 1 = from /\ end - 1 = to
    BY <1>1, <1>2, <1>4
  <2>2. i \in Nat /\ from = i + 1 /\ to = i + Len(text) /\ Stands(raw, i, text)
    BY <1>2
  <2> HIDE DEF i, from, to
  <2>a. SubSeq(raw, i + 1, i + Len(text)) = text
    BY <2>2, Sliced
  <2>3. SubSeq(raw, from, to) = text
    BY <2>2, <2>a
  <2> QED
    BY <2>1, <2>3, Zenon DEF Between
<1>12. (IF end = 0 THEN <<>> ELSE SubSeq(raw, end + 1, Len(raw))) = body
  <2> DEFINE i == l + n + 6
             from == i + 1
             to == Len(raw)
  <2>1. end # 0 /\ end + 1 = from
    BY <1>2, <1>4
  <2>2. i \in Nat /\ from = i + 1 /\ to = i + Len(body) /\ Stands(raw, i, body)
    BY <1>2
  <2> HIDE DEF i, from, to
  <2>a. SubSeq(raw, i + 1, i + Len(body)) = body
    BY <2>2, Sliced
  <2>3. SubSeq(raw, from, to) = body
    BY <2>2, <2>a
  <2> QED
    BY <2>1, <2>3, Zenon DEF to
<1>13. IsHttp(raw)
  <2>1. Len(raw) >= 2
    BY <1>2
  <2>2. raw[1].is = "word" /\ raw[1].of = method
    BY <1>2 DEF Word, Token
  <2> QED
    BY <1>2, <2>1, <2>2, Zenon DEF IsHttp, IsMethod
<1>14. first # 0 /\ space1 # 0
  BY <1>1, <1>2, <1>7
<1>15. ParseHttp(raw) =
         [method |-> Said(IF space1 = 0 THEN line ELSE SubSeq(line, 1, space1 - 1)),
          uri |-> PathOf(Between(line, space1, IF space2 = 0 THEN Len(line) + 1 ELSE space2)),
          lines |-> Between(raw, first, IF end = 0 THEN Len(raw) + 1 ELSE end),
          body |-> IF end = 0 THEN <<>> ELSE SubSeq(raw, end + 1, Len(raw))]
  BY <1>14, Zenon DEF ParseHttp, first, line, space1, space2, end
<1>16. Parse(raw) = ParseHttp(raw)
  BY <1>13, Zenon DEF Parse
<1> QED
  BY <1>6, <1>9, <1>10, <1>11, <1>12, <1>15, <1>16, Zenon

\* Whatever the method, the target, the headers and the body, HttpRequest finds
\* them as the client has written them, a body with empty lines in it included
\* (HttpRequest.cpp, RequestFactory.hpp:21).
THEOREM RequestUnderstood ==
  ASSUME NEW S, NEW method, IsMethod(method), NEW target \in Seq(S), NEW lines \in Seq(S),
         NEW body \in Seq(S), NoSeparator(target), NoLineEnd(lines)
  PROVE  Parse(Written(method, target, lines, body)) =
           [method |-> method, uri |-> PathOf(target), lines |-> HeaderText(lines), body |-> body]
<1> DEFINE T == S \union {Word(method), Space, Word("HTTP/1.1"), Crlf}
           raw == Written(method, target, lines, body)
           text == HeaderText(lines)
           n == Len(lines)
<1>1. raw \in Seq(T) /\ RequestLaid(raw, method, target, text, body)
  BY WrittenRequest
<1>2. text \in Seq(S \union {Crlf}) /\ \E ends : LinesLaid(n, lines, text, ends)
  <2>1. n \in Nat
    OBVIOUS
  <2> HIDE DEF text, n
  <2> QED
    BY <2>1, WrittenLines DEF text, n
<1> HIDE DEF text
<1>3. NoneEmpty(text)
  <2>1. PICK ends : LinesLaid(n, lines, text, ends)
    BY <1>2
  <2>2. n \in Nat /\ Len(text) \in Nat /\ \A k \in 1..n : lines[k] # Crlf
    BY <1>2 DEF NoLineEnd
  <2> HIDE DEF n
  <2> QED
    BY <2>1, <2>2, NoEmptyLine DEF NoneEmpty
<1>4. target \in Seq(T) /\ text \in Seq(T) /\ body \in Seq(T)
  <2>1. S \union {Crlf} \subseteq T
    OBVIOUS
  <2> HIDE DEF T
  <2>2. S \subseteq T
    BY <2>1
  <2> QED
    BY <1>2, <2>1, <2>2
<1> HIDE DEF T, raw
<1>5. Parse(raw) = [method |-> method, uri |-> PathOf(target), lines |-> text, body |-> body]
  BY <1>1, <1>3, <1>4, RequestTaken
<1> QED
  BY <1>5 DEF raw, text

\* the targets a client writes for a path
TargetsFor(path) ==
  {<<Word(path)>>} \union {<<Word(path), Question, Word(query)>> : query \in STRING}

\* The query is cut off.
LEMMA PathFound ==
  ASSUME NEW path, NEW target \in TargetsFor(path)
  PROVE  PathOf(target) = path
<1> DEFINE I == {i \in 1..Len(target) : target[i] = Question}
           q == Find(target, Question, 1)
<1>1. Question # Word(path) /\ Word(path).of = path
  BY DEF Question, Word, Token
<1>2. q = IF I # {} THEN Min(I) ELSE 0
  BY Zenon DEF Find, SelectInSubSeq
<1>3. PathOf(target) = Said(IF q = 0 THEN target ELSE SubSeq(target, 1, q - 1))
  BY Zenon DEF PathOf
<1>4. CASE target = <<Word(path)>>
  <2>1. Len(target) = 1 /\ target[1] = Word(path)
    BY <1>4
  <2>2. I = {}
    BY <1>1, <2>1
  <2> HIDE DEF I
  <2>3. q = 0
    BY <1>2, <2>2
  <2> HIDE DEF q
  <2>4. PathOf(target) = Said(target)
    BY <1>3, <2>3, Zenon
  <2>5. target # <<>> /\ Head(target) = Word(path)
    BY <1>4
  <2> QED
    BY <1>1, <2>4, <2>5, Zenon DEF Said
<1>5. ASSUME NEW query \in STRING, target = <<Word(path), Question, Word(query)>>
      PROVE  PathOf(target) = path
  <2>1. Len(target) = 3 /\ target[1] = Word(path) /\ target[2] = Question
    BY <1>5
  <2>2. I \in SUBSET Nat /\ 2 \in I /\ \A i \in I : 2 <= i
    BY <1>1, <2>1
  <2> HIDE DEF I
  <2>3. Min(I) = 2
    BY <2>2, LeastOf
  <2>4. q = 2
    BY <1>2, <2>2, <2>3, Zenon
  <2> HIDE DEF q
  <2>5. PathOf(target) = Said(SubSeq(target, 1, 1))
    <3>1. q # 0 /\ q - 1 = 1
      BY <2>4
    <3> QED
      BY <1>3, <3>1, Zenon
  <2> DEFINE word == <<Word(path)>>
             i == 0
             one == 1
             T == {Word(path), Question, Word(query)}
  <2>6. /\ word \in Seq({Word(path)}) /\ i \in Nat /\ one = i + 1 /\ one = i + Len(word)
        /\ target \in Seq(T)
    BY <1>5
  <2>7. Stands(target, i, word)
    BY <2>1 DEF Stands
  <2> HIDE DEF word, i, one, T
  <2>8. SubSeq(target, i + 1, i + Len(word)) = word
    BY <2>6, <2>7, Sliced
  <2>9. SubSeq(target, one, one) = word
    BY <2>6, <2>8
  <2>10. word # <<>> /\ Head(word) = Word(path)
    BY DEF word
  <2> QED
    BY <1>1, <2>5, <2>9, <2>10, Zenon DEF Said, one
<1> QED
  BY <1>4, <1>5, Zenon DEF TargetsFor

\* The router takes a method of HTTP as it is.
LEMMA RouteOfMethod ==
  ASSUME NEW method, IsMethod(method), NEW request, request.method = method
  PROVE  Route(request) = IF <<method, request.uri>> \in Routes THEN <<method, request.uri>>
                          ELSE DefaultHandler
<1>1. ToUpper(method) = method
  <2>1. method # "get" /\ method # "post"
    BY DEF IsMethod, HttpMethods
  <2> QED
    BY <2>1, Zenon DEF ToUpper
<1>2. UserEndpoints \subseteq Routes
  BY Zenon DEF Routes
<1> QED
  BY <1>1, <1>2, Zenon DEF Route, UserHandlerAnswers

\* Another is none of the routes'.
LEMMA RouteOfOther ==
  ASSUME NEW method, ~IsMethod(method), NEW path
  PROVE  <<method, path>> \notin Routes
<1>1. \A r \in Routes : IsMethod(r[1])
  BY DEF Routes, UserEndpoints, IsMethod, HttpMethods
<1>2. <<method, path>>[1] = method
  OBVIOUS
<1> QED
  BY <1>1, <1>2, Zenon

\* What RoutesAgree says of some requests holds of all: whatever method, path,
\* query, headers and body a request is written with, it reaches the endpoint
\* registered for its method and path, or the default handler, and never a 405
\* (RequestFactory.hpp:21, RequestRouter.hpp:33, RequestHandlers.hpp:74-98).
THEOREM EveryRequestRouted ==
  ASSUME NEW S, NEW method, NEW path, NEW target \in TargetsFor(path),
         NEW lines \in Seq(S), NEW body \in Seq(S), NoLineEnd(lines)
  PROVE  Endpoint(Written(method, target, lines, body)) =
           IF <<method, path>> \in Routes THEN <<method, path>> ELSE DefaultHandler
<1> DEFINE raw == Written(method, target, lines, body)
           T == {Word(path), Question} \union {Word(query) : query \in STRING}
           U == S \union T
<1>1. target \in Seq(U) /\ lines \in Seq(U) /\ body \in Seq(U)
  <2>1. target \in Seq(T)
    <3>1. CASE target = <<Word(path)>>
      BY <3>1
    <3>2. ASSUME NEW query \in STRING, target = <<Word(path), Question, Word(query)>>
          PROVE  target \in Seq(T)
      <4>1. Word(path) \in T /\ Question \in T /\ Word(query) \in T
        OBVIOUS
      <4> HIDE DEF T
      <4>2. \A a, b, c \in T : <<a, b, c>> \in Seq(T)
        OBVIOUS
      <4> QED
        BY <3>2, <4>1, <4>2, Zenon
    <3> QED
      BY <3>1, <3>2, Zenon DEF TargetsFor
  <2> HIDE DEF T
  <2>2. target \in Seq(U)
    BY <2>1
  <2> QED
    BY <2>2
<1> HIDE DEF U
<1>2. CASE IsMethod(method)
  <2>1. NoSeparator(target)
    <3>1. \A word : Word(word) # Space /\ Word(word) # Crlf
      BY DEF Word, Space, Crlf, Token
    <3>2. Question # Space /\ Question # Crlf
      BY DEF Question, Space, Crlf, Token
    <3>3. \A k \in 1..Len(target) : target[k] \in T
      BY DEF TargetsFor
    <3>4. \A t \in T : t # Space /\ t # Crlf
      BY <3>1, <3>2, Zenon
    <3> QED
      BY <3>3, <3>4, Zenon DEF NoSeparator
  <2>2. Parse(raw) = [method |-> method, uri |-> PathOf(target), lines |-> HeaderText(lines), body |-> body]
    BY <1>1, <1>2, <2>1, RequestUnderstood
  <2>3. PathOf(target) = path
    BY PathFound
  <2>4. Parse(raw).method = method /\ Parse(raw).uri = path
    BY <2>2, <2>3
  <2> HIDE DEF raw
  <2>5. Route(Parse(raw)) = IF <<method, Parse(raw).uri>> \in Routes THEN <<method, Parse(raw).uri>>
                            ELSE DefaultHandler
    BY <1>2, <2>4, RouteOfMethod
  <2> QED
    BY <2>4, <2>5, Zenon DEF Endpoint, raw
<1>3. CASE ~IsMethod(method)
  <2>1. <<method, path>> \notin Routes
    BY <1>3, RouteOfOther
  <2>2. raw[1] = Word(method) /\ Word(method).of = method
    <3>1. RequestLaid(raw, method, target, HeaderText(lines), body)
      BY <1>1, WrittenRequest
    <3> HIDE DEF raw
    <3> QED
      BY <3>1 DEF RequestLaid, Word, Token
  <2>3. ~IsHttp(raw)
    BY <1>3, <2>2, Zenon DEF IsHttp, IsMethod
  <2>4. Parse(raw).method = "" /\ Parse(raw).uri = ""
    BY <2>3 DEF Parse, NoRequestParsed
  <2>5. Route(Parse(raw)) = DefaultHandler
    <3>1. ToUpper("") = ""
      BY DEF ToUpper
    <3>2. <<"", "">> \notin Routes /\ <<"", "">> \notin UserEndpoints
      BY DEF Routes, UserEndpoints
    <3> HIDE DEF raw
    <3> QED
      BY <2>4, <3>1, <3>2, Zenon DEF Route
  <2> QED
    BY <2>1, <2>5, Zenon DEF Endpoint
<1> QED
  BY <1>2, <1>3

-----------------------------------------------------------------------------
(* The requests of the forms                                               *)

\* the tokens of the contents of a form
TokensOf(form) == UNION {ToSet(form.fields[i].content) : i \in 1..Len(form.fields)}

\* what the proofs need of a form
Sendable(form) ==
  /\ Len(form.fields) \in Nat
  /\ Holds(TokensOf(form), Len(form.fields), form.fields)
  /\ Named(Len(form.fields), form.fields)
  /\ AllAvoid(Len(form.fields), form.fields, "b")
  /\ AllAvoid(Len(form.fields), form.fields, form.boundary)

\* the content of a field called `users' is JSON, or no JSON at all
UsersAreJson(form) ==
  \A i \in 1..Len(form.fields) : form.fields[i].name = "users" => IsJson(form.fields[i].content)

\* Clients send such forms.
LEMMA FormsSendable ==
  ASSUME NEW u \in Uploads
  PROVE  Sendable(Forms[u]) /\ UsersAreJson(Forms[u])
<1> DEFINE form == Forms[u]
           fields == form.fields
           n == Len(fields)
           S == TokensOf(form)
<1>1. /\ IsSequence(fields)
      /\ \A i \in 1..n :
           /\ fields[i].name # "" /\ IsSequence(fields[i].content)
           /\ fields[i].name = "users" => IsJson(fields[i].content)
           /\ \A b \in {"b", form.boundary} : ~Contains(fields[i].content, Delimiter(b))
  BY FormAssumption, Zenon
<1>2. n \in Nat
  <2>1. fields \in Seq(ToSet(fields))
    BY <1>1, Zenon DEF IsSequence
  <2> HIDE DEF fields
  <2> QED
    BY <2>1
<1> HIDE DEF n, fields, form
<1>3. \A i \in 1..n : fields[i].content \in Seq(S)
  <2> SUFFICES ASSUME NEW i \in 1..n PROVE fields[i].content \in Seq(S)
    OBVIOUS
  <2> DEFINE c == fields[i].content
  <2>1. c \in Seq(ToSet(c))
    BY <1>1, Zenon DEF IsSequence
  <2>2. ToSet(c) \subseteq S
    BY DEF TokensOf, n, fields
  <2> HIDE DEF c, S
  <2> QED
    BY <2>1, <2>2 DEF c
<1>4. Holds(S, n, fields)
  BY <1>3, Zenon DEF Holds
<1>5. Named(n, fields)
  BY <1>1, Zenon DEF Named
<1>6. ASSUME NEW b \in {"b", form.boundary} PROVE AllAvoid(n, fields, b)
  BY <1>1, <1>6, Zenon DEF AllAvoid, Avoids, Contains
<1>7. UsersAreJson(form)
  BY <1>1, Zenon DEF UsersAreJson, n, fields
<1> QED
  BY <1>2, <1>4, <1>5, <1>6, <1>7, Zenon DEF Sendable, n, fields, form

\* the headers of a request
HeadersOf(form) ==
  <<Header("Host", "h"), Header(form.header, ContentType(TRUE, form.boundary))>>

\* A pair is a sequence of two.
LEMMA PairIsSeq ==
  ASSUME NEW a, NEW b
  PROVE  /\ <<a, b>> \in Seq({a, b})
         /\ a # Crlf /\ b # Crlf => NoLineEnd(<<a, b>>)
<1>1. <<a, b>> \in Seq({a, b}) /\ Len(<<a, b>>) = 2 /\ <<a, b>>[1] = a /\ <<a, b>>[2] = b
  OBVIOUS
<1>2. 1..2 = {1, 2}
  OBVIOUS
<1> QED
  BY <1>1, <1>2, Zenon DEF NoLineEnd

\* what the request is parsed to
LEMMA RequestOfForm ==
  ASSUME NEW form, Sendable(form)
  PROVE  /\ Parse(Request(form)).body = Form(form.fields, "b")
         /\ Parse(Request(form)).lines = HeaderText(HeadersOf(form))
         /\ Endpoint(Request(form)) = <<"POST", "/users">>
<1> DEFINE n == Len(form.fields)
           body == Form(form.fields, "b")
           T == FormTokens(TokensOf(form), n, form.fields, "b")
           target == <<Word("/users")>>
           lines == HeadersOf(form)
           L == {Header("Host", "h"), Header(form.header, ContentType(TRUE, form.boundary))}
           S == T \union L \union {Word("/users")}
<1>1. body \in Seq(T)
  BY WrittenForm DEF Sendable
<1>2. target \in Seq({Word("/users")})
  OBVIOUS
<1>a. lines \in Seq(L)
  BY PairIsSeq, Zenon DEF HeadersOf
<1>b. \A k, v : Header(k, v) # Crlf
  BY DEF Header, Crlf, Token
<1>3. NoLineEnd(lines)
  <2> DEFINE a == Header("Host", "h")
             b == Header(form.header, ContentType(TRUE, form.boundary))
  <2>1. a # Crlf /\ b # Crlf
    BY <1>b, Zenon
  <2>2. lines = <<a, b>>
    BY Zenon DEF HeadersOf
  <2> HIDE DEF a, b, lines
  <2>3. NoLineEnd(<<a, b>>)
    BY <2>1, PairIsSeq, Zenon
  <2> QED
    BY <2>2, <2>3, Zenon
<1>4. NoSeparator(target)
  <2>1. \A w : Word(w) # Space /\ Word(w) # Crlf
    BY DEF Word, Space, Crlf, Token
  <2>2. \A t : Len(<<t>>) = 1 /\ <<t>>[1] = t /\ 1..1 = {1}
    OBVIOUS
  <2> QED
    BY <2>1, <2>2, Zenon DEF NoSeparator
<1>5. target \in TargetsFor("/users")
  BY DEF TargetsFor
<1>6. IsMethod("POST")
  BY DEF IsMethod, HttpMethods
<1>7. Request(form) = Written("POST", target, lines, body)
  BY Zenon DEF Request, HeadersOf
<1> HIDE DEF body, T, target, lines, L
<1>8. target \in Seq(S) /\ lines \in Seq(S) /\ body \in Seq(S)
  BY <1>1, <1>2, <1>a
<1> HIDE DEF S
<1>9. Parse(Request(form)) =
        [method |-> "POST", uri |-> PathOf(target), lines |-> HeaderText(lines), body |-> body]
  BY <1>3, <1>4, <1>6, <1>7, <1>8, RequestUnderstood
<1>10. Endpoint(Request(form)) = <<"POST", "/users">>
  <2>1. Endpoint(Request(form)) =
          IF <<"POST", "/users">> \in Routes THEN <<"POST", "/users">> ELSE DefaultHandler
    BY <1>3, <1>5, <1>7, <1>8, EveryRequestRouted
  <2>2. <<"POST", "/users">> \in Routes
    BY DEF Routes, UserEndpoints
  <2> QED
    BY <2>1, <2>2, Zenon
<1> QED
  BY <1>9, <1>10 DEF body, lines

\* Two header lines, and what is where in their text.
LEMMA TwoLines ==
  ASSUME NEW a, NEW b, NEW text, text = HeaderText(<<a, b>>)
  PROVE  Len(text) = 4 /\ text[1] = a /\ text[2] = Crlf /\ text[3] = b /\ text[4] = Crlf
<1> DEFINE lines == <<a, b>>
           n == 2
<1>1. lines \in Seq({a, b}) /\ Len(lines) = n /\ n \in Nat /\ lines[1] = a /\ lines[2] = b
  OBVIOUS
<1> HIDE DEF lines, n
<1>2. \E ends : LinesLaid(n, lines, text, ends)
  BY <1>1, WrittenLines DEF lines
<1>3. PICK ends : LinesLaid(n, lines, text, ends)
  BY <1>2
<1>4. /\ ends[0] = 0 /\ ends[n] = Len(text)
      /\ \A k \in 1..n : ends[k] = ends[k - 1] + 2
      /\ \A k \in 1..n : text[ends[k - 1] + 1] = lines[k] /\ text[ends[k - 1] + 2] = Crlf
  BY <1>3 DEF LinesLaid
<1>5. 1 \in 1..n /\ 2 \in 1..n /\ 1 - 1 = 0 /\ 2 - 1 = 1
  BY DEF n
<1>6. ends[1] = 2 /\ ends[2] = 4
  BY <1>4, <1>5
<1>7. text[ends[0] + 1] = lines[1] /\ text[ends[0] + 2] = Crlf
  BY <1>4, <1>5
<1>8. text[ends[1] + 1] = lines[2] /\ text[ends[1] + 2] = Crlf
  BY <1>4, <1>5
<1>9. ends[0] + 1 = 1 /\ ends[0] + 2 = 2 /\ ends[1] + 1 = 3 /\ ends[1] + 2 = 4
  BY <1>4, <1>6
<1>10. ends[n] = 4
  BY <1>6 DEF n
<1> QED
  BY <1>1, <1>4, <1>7, <1>8, <1>9, <1>10, Zenon

\* Max, as it is used by the searches, is the greatest member.
LEMMA GreatestOf ==
  ASSUME NEW I \in SUBSET Nat, NEW m \in I, \A i \in I : m >= i
  PROVE  Max(I) = m
<1>1. \A x \in I : (\A y \in I : x >= y) => x = m
  <2> TAKE x \in I
  <2> HAVE \A y \in I : x >= y
  <2>1. x <= m /\ m <= x
    OBVIOUS
  <2> QED
    BY <2>1
<1> QED
  BY <1>1 DEF Max

\* getHeader() finds the second of two headers by its name.
LEMMA SecondHeader ==
  ASSUME NEW key, NEW k1, NEW v1, NEW k2, NEW v2, NEW none, k1 # key
  PROVE  ValueIn(HeaderText(<<Header(k1, v1), Header(k2, v2)>>), key, none) =
           IF k2 = key THEN v2 ELSE none
<1> DEFINE a == Header(k1, v1)
           b == Header(k2, v2)
           text == HeaderText(<<a, b>>)
           I == {i \in 1..Len(text) : text[i].is = "header" /\ text[i].of[1] = key}
           last == IF I # {} THEN Max(I) ELSE 0
<1>1. /\ a.is = "header" /\ a.of[1] = k1 /\ b.is = "header" /\ b.of[1] = k2 /\ b.of[2] = v2
      /\ Crlf.is = "crlf"
  BY DEF Header, Token, Crlf
<1>2. ValueIn(text, key, none) = IF last = 0 THEN none ELSE text[last].of[2]
  BY Zenon DEF ValueIn, SelectLastInSeq
<1> HIDE DEF a, b
<1>3. Len(text) = 4 /\ text[1] = a /\ text[2] = Crlf /\ text[3] = b /\ text[4] = Crlf
  BY TwoLines
<1> HIDE DEF text
<1>a. "crlf" # "header"
  OBVIOUS
<1>b. 1..4 = {1, 2, 3, 4}
  OBVIOUS
<1>4. \A i \in I : i = 3 /\ k2 = key
  BY <1>1, <1>3, <1>a, <1>b, Zenon
<1>5. k2 = key => 3 \in I
  BY <1>1, <1>3, <1>a, <1>b, Zenon
<1>6. CASE k2 = key
  <2>1. I = {3}
    BY <1>4, <1>5, <1>6
  <2>2. Max({3}) = 3
    BY DEF Max
  <2>3. last = 3
    BY <2>1, <2>2
  <2> HIDE DEF last
  <2>4. last # 0
    BY <2>3
  <2> QED
    BY <1>1, <1>2, <1>3, <1>6, <2>3, <2>4, Zenon DEF text, a, b
<1>7. CASE k2 # key
  <2>1. I = {}
    BY <1>4, <1>7
  <2> QED
    BY <1>2, <1>7, <2>1, Zenon DEF text, a, b
<1> QED
  BY <1>6, <1>7

\* the header names the parts by a boundary
Typed(form) == form.header = "Content-Type"

\* What a form's header says is found if it has the name the code asks for.
LEMMA TypeFound ==
  ASSUME NEW form
  PROVE  ValueIn(HeaderText(HeadersOf(form)), "Content-Type", ContentType(FALSE, "")) =
           IF Typed(form) THEN ContentType(TRUE, form.boundary) ELSE ContentType(FALSE, "")
<1> DEFINE key == "Content-Type"
           k1 == "Host"
           v1 == "h"
           k2 == form.header
           v2 == ContentType(TRUE, form.boundary)
           none == ContentType(FALSE, "")
<1>1. k1 # key
  OBVIOUS
<1> HIDE DEF key, k1, v1, k2, v2, none
<1>2. ValueIn(HeaderText(<<Header(k1, v1), Header(k2, v2)>>), key, none) = IF k2 = key THEN v2 ELSE none
  BY <1>1, SecondHeader
<1> QED
  BY <1>2, Zenon DEF HeadersOf, Typed, key, k1, v1, k2, v2, none

\* its boundary is the one the form is written with
Bounded(form) == form.boundary = "b"

\* What parse() finds in the request of a form: its fields, or nothing.
LEMMA PartsOfRequest ==
  ASSUME NEW form, Sendable(form)
  PROVE  PartsOf(Request(form)) =
           IF Typed(form) /\ Bounded(form)
           THEN AllFound(Len(form.fields), form.fields) ELSE <<>>
<1> DEFINE n == Len(form.fields)
           fields == form.fields
           request == Parse(Request(form))
           type == IF Typed(form) THEN ContentType(TRUE, form.boundary) ELSE ContentType(FALSE, "")
           b == "b"
           body == Form(fields, b)
           c == form.boundary
           S == TokensOf(form)
<1>1. /\ n \in Nat /\ Holds(S, n, fields) /\ Named(n, fields)
      /\ AllAvoid(n, fields, b) /\ AllAvoid(n, fields, c)
  BY Zenon DEF Sendable
<1>2. request.body = body /\ request.lines = HeaderText(HeadersOf(form))
  BY RequestOfForm
<1>3. PartsOf(Request(form)) = Parts(body, type)
  BY <1>2, TypeFound, Zenon DEF PartsOf
<1>4. Announced(b)
  BY DEF Announced
<1>5. Bounded(form) <=> c = b
  BY Zenon DEF Bounded
<1>n. Len(fields) = n
  OBVIOUS
<1> HIDE DEF request, n, fields, b, S, c
<1>6. CASE Typed(form) /\ c = b
  <2>1. type = ContentType(TRUE, b)
    BY <1>5, <1>6, Zenon DEF c, Bounded
  <2>2. Parts(Form(fields, b), ContentType(TRUE, b)) =
          AllFound(n, fields)
    BY <1>1, <1>4, <1>n, FieldsFound
  <2> QED
    BY <1>3, <1>5, <1>6, <2>1, <2>2, Zenon DEF n, fields
<1>7. CASE Typed(form) /\ b # c
  <2>1. type = ContentType(TRUE, c)
    BY <1>7, Zenon DEF c
  <2>2. Parts(Form(fields, b), ContentType(TRUE, c)) = <<>>
    BY <1>1, <1>7, <1>n, NothingFound
  <2> QED
    BY <1>3, <1>5, <1>7, <2>1, <2>2, Zenon
<1>8. CASE ~Typed(form)
  <2>1. type = ContentType(FALSE, "")
    BY <1>8, Zenon
  <2>2. ~ContentType(FALSE, "").multipart
    BY DEF ContentType
  <2>3. Parts(body, ContentType(FALSE, "")) = <<>>
    BY <2>2, NotLookedFor, Zenon
  <2> QED
    BY <1>3, <1>8, <2>1, <2>3, Zenon
<1> QED
  BY <1>6, <1>7, <1>8, Zenon

\* A set of places has a greatest.
LEMMA GreatestPlace ==
  ASSUME NEW n \in Nat, NEW I \in SUBSET (1..n), I # {}
  PROVE  Max(I) \in I /\ \A i \in I : i <= Max(I)
<1> DEFINE T == {k \in Nat : \A i \in I : i <= k}
<1>1. T \in SUBSET Nat /\ n \in T
  OBVIOUS
<1>2. PICK k \in T : \A y \in T : ~(y < k)
  <2> HIDE DEF T
  <2> QED
    BY <1>1, LeastNatural
<1>3. k \in I
  <2> SUFFICES ASSUME k \notin I PROVE FALSE
    OBVIOUS
  <2>a. PICK i \in I : TRUE
    OBVIOUS
  <2>b. i >= 1 /\ i <= k /\ i \in Nat
    BY <1>2, <2>a
  <2>1. k > 0
    BY <1>2, <2>b
  <2>2. \A j \in I : j <= k - 1
    BY <1>2
  <2>3. k - 1 \in T
    BY <1>2, <2>1, <2>2
  <2> QED
    BY <1>2, <2>3
<1>4. I \in SUBSET Nat /\ \A i \in I : k >= i
  BY <1>2
<1> HIDE DEF T
<1>5. Max(I) = k
  BY <1>3, <1>4, GreatestOf
<1> QED
  BY <1>3, <1>4, <1>5

\* The tokens of JSON texts.
JsonTokens == {Good(p) : p \in People} \union {Bad, Junk, Number, Word("["), Word("]")}

\* They can be told apart.
LEMMA JsonTokensDiffer ==
  /\ \A t \in JsonTokens : t # Crlf
  /\ \A t \in {Good(p) : p \in People} \union {Bad} : t # Junk /\ t # Word("[") /\ t # Word("]")
  /\ Junk # Word("[") /\ Junk # Word("]") /\ Number # Word("[")
<1>1. Crlf.is = "crlf" /\ \A w : Word(w).is = "word" /\ Word(w).of = w
  BY DEF Crlf, Word, Token
<1>2. \A p : Good(p).is = "user"
  BY DEF Good, Token
<1>3. Bad = Word("bad") /\ Junk = Word("junk") /\ Number = Word("1")
  BY Zenon DEF Bad, Junk, Number
<1> QED
  BY <1>1, <1>2, <1>3, Zenon DEF JsonTokens

\* opens an array, or is no JSON at all
Opens(text) == text # <<>> /\ Head(text) = Word("[")

\* What is in a text that clients send for JSON, and what is not.
LEMMA JsonText ==
  ASSUME NEW text, IsJson(text)
  PROVE  /\ text \in Seq(JsonTokens)
         /\ Opens(text) => ~Contains(text, Junk)
<1> DEFINE E == {Good(p) : p \in People} \union {Bad}
           elements == SubSeq(text, 2, Len(text) - 1)
           a == Word("[")
           z == Word("]")
<1>1. E \subseteq JsonTokens /\ a \in JsonTokens /\ z \in JsonTokens /\ Junk \in JsonTokens /\ Number \in JsonTokens
  BY DEF JsonTokens
<1>2. CASE text = <<>>
  BY <1>2 DEF Opens
<1>3. ASSUME NEW t, t \in {Junk, Number}, text = <<t>> PROVE text \in Seq(JsonTokens) /\ ~Opens(text)
  <2>1. t \in JsonTokens /\ t # a
    BY <1>1, <1>3, JsonTokensDiffer
  <2> HIDE DEF a
  <2>2. text \in Seq(JsonTokens) /\ Head(text) = t
    BY <1>3, <2>1
  <2> QED
    BY <2>1, <2>2, Zenon DEF Opens, a
<1>4. CASE /\ Len(text) >= 2
           /\ elements \in Seq(E)
           /\ text = Array(elements)
  <2> HIDE DEF elements
  <2> DEFINE R == E \union {a, z}
             one == <<a>>
             last == <<z>>
  <2>1. text = (one \o elements) \o last
    BY <1>4 DEF Array
  <2>2. \A t \in R : t # Junk
    BY JsonTokensDiffer, Zenon
  <2>3. R \subseteq JsonTokens
    BY <1>1
  <2>4. a \in R /\ z \in R /\ E \subseteq R
    OBVIOUS
  <2> HIDE DEF R, a, z, E
  <2>5. text \in Seq(R)
    BY <1>4, <2>1, <2>4
  <2>6. \A i \in 1..Len(text) : text[i] \in R
    BY <2>5
  <2>7. ~Contains(text, Junk)
    BY <2>2, <2>6, Zenon DEF Contains
  <2>8. text \in Seq(JsonTokens)
    BY <2>3, <2>5
  <2> QED
    BY <2>7, <2>8
<1> QED
  BY <1>2, <1>3, <1>4, Zenon DEF IsJson

\* the first elements of a text
First(n, text) == [k \in 1..n |-> text[k]]

\* The first places of a text, in order.
LEMMA AtFirst ==
  ASSUME NEW n \in Nat, NEW text
  PROVE  At(text, 1..n) = First(n, text)
<1> DEFINE I == 1..n
           p == [k \in 1..n |-> k]
<1>1. I \in SUBSET Int
  OBVIOUS
<1>2. Lists(p, n, I)
  BY DEF Lists
<1>3. At(text, I) = [k \in 1..n |-> text[p[k]]]
  <2> HIDE DEF p, I
  <2> QED
    BY <1>1, <1>2, AtList
<1>4. \A k \in 1..n : p[k] = k
  OBVIOUS
<1> HIDE DEF p
<1> QED
  BY <1>3, <1>4 DEF First

\* A line end behind a text is left out again.
LEMMA LineEndLeftOut ==
  ASSUME NEW T, NEW text \in Seq(T), \A t \in T : t # Crlf, NEW value, value = text \o <<Crlf>>
  PROVE  At(value, {i \in 1..Len(value) : value[i] # Crlf}) = text
<1> DEFINE n == Len(text)
           I == {i \in 1..Len(value) : value[i] # Crlf}
<1>1. n \in Nat /\ Len(value) = n + 1 /\ value[n + 1] = Crlf /\ \A i \in 1..n : value[i] = text[i]
  OBVIOUS
<1>2. \A i \in 1..n : text[i] # Crlf
  OBVIOUS
<1>3. I = 1..n
  <2> HIDE DEF n
  <2> QED
    BY <1>1, <1>2
<1> HIDE DEF I, n
<1>a. n \in Nat
  BY <1>1
<1>4. At(value, 1..n) = First(n, value)
  BY <1>a, AtFirst, Zenon
<1>5. text = First(n, text)
  BY DEF n, First
<1>6. First(n, value) = First(n, text)
  BY <1>1 DEF First
<1> QED
  BY <1>3, <1>4, <1>5, <1>6, Zenon DEF I

\* the last field of a name
LastNamed(fields, key) == SelectLastInSeq(fields, LAMBDA f : f.name = key)

\* Of the fields called `users' the last is found, by the code as by the client.
LEMMA SameLast ==
  ASSUME NEW n \in Nat, NEW fields, Len(fields) = n, NEW key
  PROVE  GetValue(AllFound(n, fields), key) =
           IF LastNamed(fields, key) = 0 THEN <<>> ELSE AsFound(fields[LastNamed(fields, key)]).content
<1> DEFINE parts == AllFound(n, fields)
           I == {i \in 1..Len(fields) : fields[i].name = key}
           J == {i \in 1..Len(parts) : parts[i].name = key}
           last == IF I # {} THEN Max(I) ELSE 0
<1>1. Len(parts) = n /\ \A j \in 1..n : parts[j] = AsFound(fields[j])
  BY DEF AllFound
<1>2. \A j \in 1..n : parts[j].name = fields[j].name
  BY <1>1 DEF AsFound
<1> HIDE DEF parts
<1>3. J = I
  BY <1>1, <1>2
<1>4. GetValue(parts, key) = IF last = 0 THEN <<>> ELSE parts[last].content
  BY <1>3, Zenon DEF GetValue, SelectLastInSeq
<1>5. last # 0 => last \in 1..n
  BY GreatestPlace
<1>6. LastNamed(fields, key) = last
  BY Zenon DEF SelectLastInSeq, LastNamed
<1> HIDE DEF last
<1> QED
  BY <1>1, <1>4, <1>5, <1>6, Zenon DEF parts

\* What the client has put into `users' is what the code reads from it.
LEMMA UsersFound ==
  ASSUME NEW form, Sendable(form), UsersAreJson(form), Typed(form), Bounded(form)
  PROVE  UsersText(Request(form)) = UsersIn(form) /\ IsJson(UsersIn(form))
<1> DEFINE fields == form.fields
           n == Len(fields)
           key == "users"
           I == {i \in 1..Len(fields) : fields[i].name = key}
           last == IF I # {} THEN Max(I) ELSE 0
           value == GetValue(AllFound(n, fields), key)
           text == fields[last].content
<1>1. PartsOf(Request(form)) = AllFound(n, fields)
  BY PartsOfRequest, Zenon
<1>2. UsersText(Request(form)) = At(value, {j \in 1..Len(value) : value[j] # Crlf})
  BY <1>1, Zenon DEF UsersText
<1>3. LastNamed(fields, key) = last
  BY Zenon DEF SelectLastInSeq, LastNamed
<1>4. UsersIn(form) = IF last = 0 THEN <<>> ELSE text
  BY <1>3, Zenon DEF UsersIn, LastNamed
<1>5. n \in Nat
  BY DEF Sendable
<1>a. \A j \in I : IsJson(fields[j].content)
  BY Zenon DEF UsersAreJson
<1>n. Len(fields) = n
  OBVIOUS
<1>b. I \subseteq 1..n
  OBVIOUS
<1> HIDE DEF key, n, fields, I
<1>6. value = IF last = 0 THEN <<>> ELSE AsFound(fields[last]).content
  BY <1>3, <1>5, <1>n, SameLast
<1>7. last # 0 => last \in I
  BY <1>5, <1>b, GreatestPlace
<1> HIDE DEF last, value, text
<1>8. CASE last = 0
  <2>1. value = <<>>
    BY <1>6, <1>8
  <2>2. {j \in 1..Len(value) : value[j] # Crlf} = {}
    BY <2>1
  <2>3. UsersText(Request(form)) = <<>>
    BY <1>2, <2>2, AtNone
  <2>4. IsJson(<<>>)
    BY Zenon DEF IsJson
  <2> QED
    BY <1>4, <1>8, <2>3, <2>4, Zenon
<1>9. CASE last # 0
  <2>1. IsJson(text)
    BY <1>7, <1>9, <1>a, Zenon DEF text
  <2>2. text \in Seq(JsonTokens) /\ \A t \in JsonTokens : t # Crlf
    BY <2>1, JsonText, JsonTokensDiffer
  <2>3. value = text \o <<Crlf>>
    BY <1>6, <1>9 DEF AsFound, text
  <2>4. UsersText(Request(form)) = text
    BY <1>2, <2>2, <2>3, LineEndLeftOut, Zenon
  <2> QED
    BY <1>4, <1>9, <2>1, <2>4, Zenon
<1> QED
  BY <1>8, <1>9

-----------------------------------------------------------------------------
(* What the parsers make of a form                                         *)

\* Without a malformed user all users of a text come before the first one.
LEMMA AllUsers ==
  ASSUME NEW text, Len(text) \in Nat, ~Contains(text, Bad)
  PROVE  Len(UsersBeforeBad(text)) = Cardinality({i \in 1..Len(text) : text[i].is = "user"})
<1> DEFINE I == {i \in 1..Len(text) : text[i] = Bad}
           bad == IF I # {} THEN Min(I) ELSE 0
           U == {i \in 1..Len(text) : text[i].is = "user"}
           B == {i \in 1..Len(text) : text[i].is = "user" /\ (bad = 0 \/ i < bad)}
<1>1. bad = 0
  BY DEF Contains
<1>2. UsersBeforeBad(text) = At(text, B)
  BY Zenon DEF UsersBeforeBad, SelectInSeq
<1> HIDE DEF bad
<1>3. B = U
  BY <1>1
<1> DEFINE n == Len(text)
<1>a. U \subseteq 1..n /\ n \in Nat
  OBVIOUS
<1> HIDE DEF B, U, n
<1>b. IsFiniteSet(1..n)
  BY <1>a, FS_Interval
<1>4. Cardinality(U) \in Nat
  BY <1>a, <1>b, FS_Subset, FS_CardinalityType
<1>5. Len(At(text, U)) = Cardinality(U)
  BY <1>4 DEF At
<1> QED
  BY <1>2, <1>3, <1>5 DEF U

\* Just the well formed forms are taken to their end, with all their users.
LEMMA OutcomeOfForm ==
  ASSUME NEW form, Sendable(form), UsersAreJson(form), IsSequence(form.fields)
  PROVE  /\ OutcomeOf(Request(form)) = "ok" <=> WellFormed(form)
         /\ OutcomeOf(Request(form)) = "ok" => SizeOf(Request(form)) = Sent(form)
<1> DEFINE raw == Request(form)
           n == Len(form.fields)
           text == UsersText(raw)
           sent == UsersIn(form)
           starts == Head(sent) = Word("[")
<1>1. n \in Nat /\ (form.fields = <<>> <=> n = 0)
  <2>1. form.fields \in Seq(ToSet(form.fields))
    BY Zenon DEF IsSequence
  <2> DEFINE fields == form.fields
             S == ToSet(form.fields)
  <2>2. fields \in Seq(S)
    BY <2>1
  <2> HIDE DEF fields, S
  <2>3. Len(fields) \in Nat /\ (fields = <<>> <=> Len(fields) = 0)
    BY <2>2
  <2> QED
    BY <2>3 DEF fields
<1>2. CASE ~(Typed(form) /\ Bounded(form))
  <2>1. PartsOf(raw) = <<>>
    BY <1>2, PartsOfRequest, Zenon
  <2>2. OutcomeOf(raw) = "unparsed"
    BY <2>1, Zenon DEF OutcomeOf, Verdict
  <2>3. ~WellFormed(form)
    BY <1>2, Zenon DEF WellFormed, Plain, Typed, Bounded
  <2> QED
    BY <2>2, <2>3
<1>3. CASE Typed(form) /\ Bounded(form)
  <2>1. PartsOf(raw) = AllFound(n, form.fields)
    BY <1>3, PartsOfRequest, Zenon
  <2>2. text = sent /\ IsJson(sent)
    BY <1>3, UsersFound, Zenon
  <2>3. AllFound(n, form.fields) = <<>> <=> n = 0
    <3> DEFINE fields == form.fields
               m == n
    <3>1. m \in Nat
      BY <1>1
    <3> HIDE DEF fields, m
    <3>2. Len(AllFound(m, fields)) = m
      BY <3>1 DEF AllFound
    <3>3. m = 0 => AllFound(m, fields) = <<>>
      BY DEF AllFound
    <3> QED
      BY <3>2, <3>3 DEF m, fields
  <2>4. Plain(form) <=> PartsOf(raw) # <<>>
    BY <1>1, <1>3, <2>1, <2>3, Zenon DEF Plain, Typed, Bounded
  <2>5. WellFormed(form) <=> Plain(form) /\ sent # <<>> /\ starts /\ ~Contains(sent, Bad)
    BY Zenon DEF WellFormed
  <2>6. sent \in Seq(JsonTokens) /\ (sent # <<>> /\ starts => ~Contains(sent, Junk))
    BY <2>2, JsonText, Zenon DEF Opens
  <2> DEFINE P == PartsOf(raw) = <<>>
             E == sent = <<>>
             J == Contains(sent, Junk)
             B == Contains(sent, Bad)
  <2>7. OutcomeOf(raw) = IF P THEN "unparsed"
                         ELSE IF E \/ J THEN "throws"
                         ELSE IF ~starts THEN "notarray"
                         ELSE IF B THEN "partial" ELSE "ok"
    BY <2>2, Zenon DEF OutcomeOf, Verdict
  <2>8. (WellFormed(form) <=> ~P /\ ~E /\ starts /\ ~B) /\ (~E /\ starts => ~J)
    BY <2>4, <2>5, <2>6
  <2>9. SizeOf(raw) = Len(UsersBeforeBad(sent))
    BY <2>2, Zenon DEF SizeOf
  <2>10. Sent(form) = Cardinality({i \in 1..Len(sent) : sent[i].is = "user"})
    BY Zenon DEF Sent
  <2> HIDE DEF P, E, J, starts, sent, raw
  <2>11. ~B => SizeOf(raw) = Sent(form)
    <3>1. Len(sent) \in Nat
      BY <2>6
    <3> QED
      BY <2>9, <2>10, <3>1, AllUsers
  <2> HIDE DEF B
  <2>12. OutcomeOf(raw) = "ok" <=> ~P /\ ~(E \/ J) /\ starts /\ ~B
    BY <2>7
  <2> QED
    BY <2>8, <2>11, <2>12 DEF raw
<1> QED
  BY <1>2, <1>3

\* What the handler is told of an upload is right for the form behind it.
LEMMA FormsUnderstood ==
  ASSUME NEW u \in Uploads
  PROVE  /\ Outcome[u] = "ok" <=> WellFormed(Forms[u])
         /\ Outcome[u] = "ok" => Size[u] = Sent(Forms[u])
<1>1. Outcome[u] = OutcomeOf(Request(Forms[u])) /\ Size[u] = SizeOf(Request(Forms[u]))
  BY OutcomeAssumption, Zenon
<1>2. IsSequence(Forms[u].fields)
  BY FormAssumption, Zenon
<1> QED
  BY <1>1, <1>2, FormsSendable, OutcomeOfForm

\* Whoever else uploads at the same time, a client whose form is well formed,
\* and which is not told to come back, is answered 200 with the number of users
\* it has put into its form; nobody else is (RequestHandlers.hpp:113-151 on
\* MultipartBodyParser.hpp and HttpRequest.cpp).
THEOREM AnsweredForTheFormSentCorrect == Spec => []AnsweredForTheFormSent
<1>1. ParsersDecide => AnsweredForTheFormSent
  <2> SUFFICES ASSUME ParsersDecide, NEW t \in Threads
               PROVE  /\ answer[t].code = 200 =>
                           WellFormed(Forms[upload[t]]) /\ answer[t].count = Sent(Forms[upload[t]])
                      /\ answer[t].code = 400 /\ ~answer[t].busy => ~WellFormed(Forms[upload[t]])
    BY Zenon DEF AnsweredForTheFormSent
  <2>1. CASE answer[t] \in {NoAnswer, BusyAnswer}
    <3>1. answer[t].code # 200 /\ ~(answer[t].code = 400 /\ ~answer[t].busy)
      BY <2>1 DEF NoAnswer, BusyAnswer
    <3> QED
      BY <3>1
  <2>2. CASE RejectedFor(upload[t], answer[t])
    <3>1. answer[t].code = 400 /\ upload[t] \in Uploads
      BY <2>2 DEF RejectedFor, Rejected
    <3>2. Outcome[upload[t]] # "ok"
      BY <2>2 DEF RejectedFor
    <3>3. ~WellFormed(Forms[upload[t]])
      BY <3>1, <3>2, FormsUnderstood
    <3> QED
      BY <3>1, <3>3
  <2>3. CASE AcceptedFor(upload[t], answer[t])
    <3>1. answer[t].code = 200 /\ answer[t].count = Size[upload[t]] /\ upload[t] \in Uploads
      BY <2>3 DEF AcceptedFor, Accepted
    <3>2. Outcome[upload[t]] = "ok"
      BY <2>3 DEF AcceptedFor
    <3>3. WellFormed(Forms[upload[t]]) /\ Size[upload[t]] = Sent(Forms[upload[t]])
      BY <3>1, <3>2, FormsUnderstood
    <3> QED
      BY <3>1, <3>3
  <2> QED
    BY <2>1, <2>2, <2>3 DEF ParsersDecide
<1> QED
  BY <1>1, ParsersDecideCorrect, PTL

-----------------------------------------------------------------------------
(* Folds                                                                   *)

\* what a fold over n steps computes for each set of them
Folds(n, X, b, G) ==
  {f \in [SUBSET (1..n) -> X] :
     \A s \in SUBSET (1..n) : f[s] = IF s = {} THEN b ELSE G[Max(s)][f[s \ {Max(s)}]]}

\* The greatest of the places up to k, and of those with a greater one.
LEMMA GreatestUpTo ==
  ASSUME NEW k \in Nat \ {0}, NEW s \in SUBSET (1..k), k \in s
  PROVE  Max(s) = k
<1>1. s \in SUBSET Nat /\ \A i \in s : k >= i
  OBVIOUS
<1> QED
  BY <1>1, GreatestOf

\* A fold whose steps are functions exists.
LEMMA FoldExists ==
  ASSUME NEW n \in Nat, NEW X, NEW b \in X, NEW G \in [1..n -> [X -> X]]
  PROVE  Folds(n, X, b, G) # {}
<1> DEFINE T == {k \in 0..n : Folds(k, X, b, G) # {}}
<1>1. 0 \in T
  <2>1. [s \in SUBSET (1..0) |-> b] \in Folds(0, X, b, G)
    <3>1. \A s \in SUBSET (1..0) : s = {}
      OBVIOUS
    <3> QED
      BY <3>1 DEF Folds
  <2> QED
    BY <2>1
<1>2. ASSUME NEW k \in 0..(n - 1), k \in T PROVE k + 1 \in T
  <2> DEFINE q == k + 1
  <2>1. q \in 1..n /\ q \in 0..n /\ q \in Nat \ {0} /\ 1..q = 1..k \union {q} /\ q \notin 1..k /\ 1..k \subseteq 1..n
    OBVIOUS
  <2>2. PICK f \in [SUBSET (1..k) -> X] :
          \A s \in SUBSET (1..k) : f[s] = IF s = {} THEN b ELSE G[Max(s)][f[s \ {Max(s)}]]
    BY <1>2 DEF Folds
  <2> HIDE DEF q
  <2> DEFINE g == [s \in SUBSET (1..q) |-> IF q \in s THEN G[q][f[s \ {q}]] ELSE f[s]]
  <2>3. ASSUME NEW s \in SUBSET (1..q), q \in s
        PROVE  /\ s \ {q} \in SUBSET (1..k) /\ s \ {q} \in SUBSET (1..q)
               /\ Max(s) = q /\ s # {} /\ q \notin s \ {q}
    <3>1. s \ {q} \subseteq 1..k
      BY <2>1
    <3>2. Max(s) = q
      BY <2>1, <2>3, GreatestUpTo
    <3> QED
      BY <2>1, <2>3, <3>1, <3>2
  <2>4. ASSUME NEW s \in SUBSET (1..q), q \notin s PROVE s \in SUBSET (1..k)
    BY <2>1, <2>4
  <2>5. ASSUME NEW s \in SUBSET (1..q) PROVE g[s] \in X
    <3>1. CASE q \in s
      BY <2>1, <2>3, <3>1
    <3>2. CASE q \notin s
      BY <2>4, <3>2
    <3> QED
      BY <3>1, <3>2
  <2>6. g \in [SUBSET (1..q) -> X]
    BY <2>5
  <2>7. ASSUME NEW s \in SUBSET (1..q)
        PROVE  g[s] = IF s = {} THEN b ELSE G[Max(s)][g[s \ {Max(s)}]]
    <3>1. CASE q \in s
      <4>1. g[s] = G[q][f[s \ {q}]] /\ g[s \ {q}] = f[s \ {q}]
        BY <2>3, <3>1
      <4> QED
        BY <2>3, <3>1, <4>1, Zenon
    <3>2. CASE q \notin s
      <4>1. s \in SUBSET (1..k) /\ g[s] = f[s]
        BY <2>4, <3>2
      <4>2. s \ {Max(s)} \in SUBSET (1..k) /\ q \notin s \ {Max(s)} /\ s \ {Max(s)} \in SUBSET (1..q)
        BY <3>2, <4>1
      <4>3. g[s \ {Max(s)}] = f[s \ {Max(s)}]
        BY <4>2
      <4> QED
        BY <2>2, <4>1, <4>3, Zenon
    <3> QED
      BY <3>1, <3>2
  <2>8. g \in Folds(q, X, b, G)
    <3> HIDE DEF g
    <3> QED
      BY <2>6, <2>7, Zenon DEF Folds
  <2> QED
    BY <2>1, <2>8 DEF q
<1>3. \A k \in 0..n : k \in T
  <2> HIDE DEF T
  <2> QED
    BY <1>1, <1>2, UpTo, Zenon
<1> QED
  BY <1>3

\* What is left of a set of places without its greatest.
LEMMA WithoutGreatest ==
  ASSUME NEW n \in Nat, NEW t \in SUBSET (1..n), t # {}
  PROVE  Max(t) \in 1..n /\ t \ {Max(t)} \in SUBSET (1..n)
BY GreatestPlace

\* The steps before the k-th are those up to the one before it.
LEMMA StepBefore ==
  ASSUME NEW n \in Nat, NEW k \in 1..n
  PROVE  /\ 1..k \in SUBSET (1..n) /\ 1..k # {}
         /\ Max(1..k) = k /\ (1..k) \ {k} = 1..(k - 1)
<1>1. 1..k \in SUBSET (1..k) /\ k \in 1..k /\ k \in Nat \ {0}
  OBVIOUS
<1>2. Max(1..k) = k
  BY <1>1, GreatestUpTo
<1> QED
  BY <1>2

\* a fold whose steps are those of G as far as they stay in X
StepsBy(fold, n, X, b, G) ==
  /\ fold[{}] = b
  /\ \A t \in SUBSET (1..n) : t # {} /\ fold[t \ {Max(t)}] \in X =>
                                fold[t] = G[Max(t)][fold[t \ {Max(t)}]]

\* A fold over all steps goes through them one by one.
LEMMA FoldSteps ==
  ASSUME NEW n \in Nat, NEW X, NEW b \in X, NEW G \in [1..n -> [X -> X]], NEW fold,
         StepsBy(fold, n, X, b, G)
  PROVE  \E h \in Walks(n, X, b, G) : fold[1..n] = h[n]
<1>s. /\ fold[{}] = b
      /\ \A t \in SUBSET (1..n) : t # {} /\ fold[t \ {Max(t)}] \in X =>
                                    fold[t] = G[Max(t)][fold[t \ {Max(t)}]]
  BY Zenon DEF StepsBy
<1>a. ASSUME NEW k \in 1..n, fold[1..(k - 1)] \in X PROVE fold[1..k] = G[k][fold[1..(k - 1)]]
  <2>1. 1..k \in SUBSET (1..n) /\ 1..k # {} /\ Max(1..k) = k /\ (1..k) \ {k} = 1..(k - 1)
    BY StepBefore
  <2> QED
    BY <1>a, <1>s, <2>1, Zenon
<1> DEFINE T == {k \in 0..n : fold[1..k] \in X}
           h == [k \in 0..n |-> fold[1..k]]
<1>1. 0 \in T /\ 1..0 = {}
  BY <1>s
<1>2. ASSUME NEW k \in 0..(n - 1), k \in T PROVE k + 1 \in T
  <2> DEFINE q == k + 1
  <2>1. q \in 1..n /\ q - 1 = k /\ q \in 0..n
    OBVIOUS
  <2> HIDE DEF q
  <2>2. fold[1..q] = G[q][fold[1..k]]
    BY <1>2, <1>a, <2>1
  <2>3. fold[1..q] \in X
    BY <1>2, <2>1, <2>2
  <2> QED
    BY <2>1, <2>3 DEF q
<1>3. \A k \in 0..n : k \in T
  <2> HIDE DEF T
  <2> QED
    BY <1>1, <1>2, UpTo, Zenon
<1>4. \A k \in 0..n : fold[1..k] \in X
  BY <1>3
<1>5. h \in [0..n -> X] /\ h[0] = b
  BY <1>1, <1>4, <1>s
<1>6. \A k \in 1..n : h[k] = G[k][h[k - 1]]
  <2> SUFFICES ASSUME NEW k \in 1..n PROVE h[k] = G[k][h[k - 1]]
    OBVIOUS
  <2>1. k - 1 \in 0..n /\ k \in 0..n
    OBVIOUS
  <2> QED
    BY <1>4, <1>a, <2>1
<1>7. h[n] = fold[1..n]
  OBVIOUS
<1> HIDE DEF h
<1>8. h \in Walks(n, X, b, G)
  BY <1>5, <1>6, Zenon DEF Walks
<1> QED
  BY <1>7, <1>8

-----------------------------------------------------------------------------
(* The loops over the users                                                *)

\* The loop of Superusers goes through the users one by one.
LEMMA SuperusersSteps ==
  ASSUME NEW n \in Nat, NEW s, DOMAIN s = 1..n, NEW X, <<>> \in X,
         NEW G \in [1..n -> [X -> X]],
         \A k \in 1..n : \A m \in X : G[k][m] = IF s[k].active /\ s[k].score >= TopScore THEN Append(m, s[k].name) ELSE m
  PROVE  \E h \in Walks(n, X, <<>>, G) : Superusers(s) = h[n]
<1> DEFINE step(m, u) == IF u.active /\ u.score >= TopScore THEN Append(m, u.name) ELSE m
           b == <<>>
           Is(f) == f = [t \in SUBSET (1..n) |->
                           IF t = {} THEN b ELSE step(f[t \ {Max(t)}], s[Max(t)])]
           fold == CHOOSE f : Is(f)
<1>1. Superusers(s) = fold[1..n]
  BY Zenon DEF Superusers, FoldLeft, MapThenFoldSet
<1>2. \A k \in 1..n : \A m \in X : G[k][m] = step(m, s[k])
  OBVIOUS
<1>3. b \in X
  OBVIOUS
<1> HIDE DEF step, b
<1>4. PICK f \in Folds(n, X, b, G) : TRUE
  BY <1>3, FoldExists
<1>5. Is(f)
  <2>1. f \in [SUBSET (1..n) -> X]
    BY <1>4 DEF Folds
  <2>2. ASSUME NEW t \in SUBSET (1..n)
        PROVE  f[t] = IF t = {} THEN b ELSE step(f[t \ {Max(t)}], s[Max(t)])
    <3>1. f[t] = IF t = {} THEN b ELSE G[Max(t)][f[t \ {Max(t)}]]
      BY <1>4, Zenon DEF Folds
    <3>2. CASE t # {}
      BY <1>2, <2>1, <3>1, <3>2, WithoutGreatest
    <3> QED
      BY <3>1, <3>2
  <2> QED
    BY <2>1, <2>2
<1>6. Is(fold)
  <2> HIDE DEF Is
  <2> QED
    BY <1>5
<1>7. \A t \in SUBSET (1..n) : fold[t] = IF t = {} THEN b ELSE step(fold[t \ {Max(t)}], s[Max(t)])
  <2> HIDE DEF fold
  <2> QED
    BY <1>6
<1> HIDE DEF fold, Is
<1>8. fold[{}] = b
  BY <1>7
<1>9. \A t \in SUBSET (1..n) : t # {} /\ fold[t \ {Max(t)}] \in X =>
                               fold[t] = G[Max(t)][fold[t \ {Max(t)}]]
  <2> SUFFICES ASSUME NEW t \in SUBSET (1..n), t # {}, fold[t \ {Max(t)}] \in X
               PROVE  fold[t] = G[Max(t)][fold[t \ {Max(t)}]]
    OBVIOUS
  <2>1. fold[t] = step(fold[t \ {Max(t)}], s[Max(t)]) /\ Max(t) \in 1..n
    BY <1>7, WithoutGreatest
  <2> QED
    BY <1>2, <2>1
<1>10. \E h \in Walks(n, X, b, G) : fold[1..n] = h[n]
  <2>1. StepsBy(fold, n, X, b, G)
    BY <1>8, <1>9, Zenon DEF StepsBy
  <2> QED
    BY <1>3, <2>1, FoldSteps
<1> QED
  BY <1>1, <1>10 DEF b

\* The loop of Countries goes through the users one by one.
LEMMA CountriesSteps ==
  ASSUME NEW n \in Nat, NEW s, DOMAIN s = 1..n, NEW X, NoCounts \in X,
         NEW G \in [1..n -> [X -> X]],
         \A k \in 1..n : \A m \in X : G[k][m] = Incremented(m, s[k].country)
  PROVE  \E h \in Walks(n, X, NoCounts, G) : Countries(s) = h[n]
<1> DEFINE step(m, u) == Incremented(m, u.country)
           b == NoCounts
           Is(f) == f = [t \in SUBSET (1..n) |->
                           IF t = {} THEN b ELSE step(f[t \ {Max(t)}], s[Max(t)])]
           fold == CHOOSE f : Is(f)
<1>1. Countries(s) = fold[1..n]
  BY Zenon DEF Countries, FoldLeft, MapThenFoldSet
<1>2. \A k \in 1..n : \A m \in X : G[k][m] = step(m, s[k])
  OBVIOUS
<1>3. b \in X
  OBVIOUS
<1> HIDE DEF step, b
<1>4. PICK f \in Folds(n, X, b, G) : TRUE
  BY <1>3, FoldExists
<1>5. Is(f)
  <2>1. f \in [SUBSET (1..n) -> X]
    BY <1>4 DEF Folds
  <2>2. ASSUME NEW t \in SUBSET (1..n)
        PROVE  f[t] = IF t = {} THEN b ELSE step(f[t \ {Max(t)}], s[Max(t)])
    <3>1. f[t] = IF t = {} THEN b ELSE G[Max(t)][f[t \ {Max(t)}]]
      BY <1>4, Zenon DEF Folds
    <3>2. CASE t # {}
      BY <1>2, <2>1, <3>1, <3>2, WithoutGreatest
    <3> QED
      BY <3>1, <3>2
  <2> QED
    BY <2>1, <2>2
<1>6. Is(fold)
  <2> HIDE DEF Is
  <2> QED
    BY <1>5
<1>7. \A t \in SUBSET (1..n) : fold[t] = IF t = {} THEN b ELSE step(fold[t \ {Max(t)}], s[Max(t)])
  <2> HIDE DEF fold
  <2> QED
    BY <1>6
<1> HIDE DEF fold, Is
<1>8. fold[{}] = b
  BY <1>7
<1>9. \A t \in SUBSET (1..n) : t # {} /\ fold[t \ {Max(t)}] \in X =>
                               fold[t] = G[Max(t)][fold[t \ {Max(t)}]]
  <2> SUFFICES ASSUME NEW t \in SUBSET (1..n), t # {}, fold[t \ {Max(t)}] \in X
               PROVE  fold[t] = G[Max(t)][fold[t \ {Max(t)}]]
    OBVIOUS
  <2>1. fold[t] = step(fold[t \ {Max(t)}], s[Max(t)]) /\ Max(t) \in 1..n
    BY <1>7, WithoutGreatest
  <2> QED
    BY <1>2, <2>1
<1>10. \E h \in Walks(n, X, b, G) : fold[1..n] = h[n]
  <2>1. StepsBy(fold, n, X, b, G)
    BY <1>8, <1>9, Zenon DEF StepsBy
  <2> QED
    BY <1>3, <2>1, FoldSteps
<1> QED
  BY <1>1, <1>10 DEF b

\* The loop of Teams goes through the users one by one.
LEMMA TeamsSteps ==
  ASSUME NEW n \in Nat, NEW s, DOMAIN s = 1..n, NEW X, NoTeams \in X,
         NEW G \in [1..n -> [X -> X]],
         \A k \in 1..n : \A m \in X : G[k][m] = WithMember(m, s[k])
  PROVE  \E h \in Walks(n, X, NoTeams, G) : Teams(s) = h[n]
<1> DEFINE step(m, u) == WithMember(m, u)
           b == NoTeams
           Is(f) == f = [t \in SUBSET (1..n) |->
                           IF t = {} THEN b ELSE step(f[t \ {Max(t)}], s[Max(t)])]
           fold == CHOOSE f : Is(f)
<1>1. Teams(s) = fold[1..n]
  BY Zenon DEF Teams, FoldLeft, MapThenFoldSet
<1>2. \A k \in 1..n : \A m \in X : G[k][m] = step(m, s[k])
  OBVIOUS
<1>3. b \in X
  OBVIOUS
<1> HIDE DEF step, b
<1>4. PICK f \in Folds(n, X, b, G) : TRUE
  BY <1>3, FoldExists
<1>5. Is(f)
  <2>1. f \in [SUBSET (1..n) -> X]
    BY <1>4 DEF Folds
  <2>2. ASSUME NEW t \in SUBSET (1..n)
        PROVE  f[t] = IF t = {} THEN b ELSE step(f[t \ {Max(t)}], s[Max(t)])
    <3>1. f[t] = IF t = {} THEN b ELSE G[Max(t)][f[t \ {Max(t)}]]
      BY <1>4, Zenon DEF Folds
    <3>2. CASE t # {}
      BY <1>2, <2>1, <3>1, <3>2, WithoutGreatest
    <3> QED
      BY <3>1, <3>2
  <2> QED
    BY <2>1, <2>2
<1>6. Is(fold)
  <2> HIDE DEF Is
  <2> QED
    BY <1>5
<1>7. \A t \in SUBSET (1..n) : fold[t] = IF t = {} THEN b ELSE step(fold[t \ {Max(t)}], s[Max(t)])
  <2> HIDE DEF fold
  <2> QED
    BY <1>6
<1> HIDE DEF fold, Is
<1>8. fold[{}] = b
  BY <1>7
<1>9. \A t \in SUBSET (1..n) : t # {} /\ fold[t \ {Max(t)}] \in X =>
                               fold[t] = G[Max(t)][fold[t \ {Max(t)}]]
  <2> SUFFICES ASSUME NEW t \in SUBSET (1..n), t # {}, fold[t \ {Max(t)}] \in X
               PROVE  fold[t] = G[Max(t)][fold[t \ {Max(t)}]]
    OBVIOUS
  <2>1. fold[t] = step(fold[t \ {Max(t)}], s[Max(t)]) /\ Max(t) \in 1..n
    BY <1>7, WithoutGreatest
  <2> QED
    BY <1>2, <2>1
<1>10. \E h \in Walks(n, X, b, G) : fold[1..n] = h[n]
  <2>1. StepsBy(fold, n, X, b, G)
    BY <1>8, <1>9, Zenon DEF StepsBy
  <2> QED
    BY <1>3, <2>1, FoldSteps
<1> QED
  BY <1>1, <1>10 DEF b

\* The loop of LoginsByDay goes through the users one by one.
LEMMA LoginsByDaySteps ==
  ASSUME NEW n \in Nat, NEW s, DOMAIN s = 1..n, NEW X, NoCounts \in X,
         NEW G \in [1..n -> [X -> X]],
         \A k \in 1..n : \A m \in X : G[k][m] = LoginsOf(m, s[k])
  PROVE  \E h \in Walks(n, X, NoCounts, G) : LoginsByDay(s) = h[n]
<1> DEFINE step(m, u) == LoginsOf(m, u)
           b == NoCounts
           Is(f) == f = [t \in SUBSET (1..n) |->
                           IF t = {} THEN b ELSE step(f[t \ {Max(t)}], s[Max(t)])]
           fold == CHOOSE f : Is(f)
<1>1. LoginsByDay(s) = fold[1..n]
  BY Zenon DEF LoginsByDay, FoldLeft, MapThenFoldSet
<1>2. \A k \in 1..n : \A m \in X : G[k][m] = step(m, s[k])
  OBVIOUS
<1>3. b \in X
  OBVIOUS
<1> HIDE DEF step, b
<1>4. PICK f \in Folds(n, X, b, G) : TRUE
  BY <1>3, FoldExists
<1>5. Is(f)
  <2>1. f \in [SUBSET (1..n) -> X]
    BY <1>4 DEF Folds
  <2>2. ASSUME NEW t \in SUBSET (1..n)
        PROVE  f[t] = IF t = {} THEN b ELSE step(f[t \ {Max(t)}], s[Max(t)])
    <3>1. f[t] = IF t = {} THEN b ELSE G[Max(t)][f[t \ {Max(t)}]]
      BY <1>4, Zenon DEF Folds
    <3>2. CASE t # {}
      BY <1>2, <2>1, <3>1, <3>2, WithoutGreatest
    <3> QED
      BY <3>1, <3>2
  <2> QED
    BY <2>1, <2>2
<1>6. Is(fold)
  <2> HIDE DEF Is
  <2> QED
    BY <1>5
<1>7. \A t \in SUBSET (1..n) : fold[t] = IF t = {} THEN b ELSE step(fold[t \ {Max(t)}], s[Max(t)])
  <2> HIDE DEF fold
  <2> QED
    BY <1>6
<1> HIDE DEF fold, Is
<1>8. fold[{}] = b
  BY <1>7
<1>9. \A t \in SUBSET (1..n) : t # {} /\ fold[t \ {Max(t)}] \in X =>
                               fold[t] = G[Max(t)][fold[t \ {Max(t)}]]
  <2> SUFFICES ASSUME NEW t \in SUBSET (1..n), t # {}, fold[t \ {Max(t)}] \in X
               PROVE  fold[t] = G[Max(t)][fold[t \ {Max(t)}]]
    OBVIOUS
  <2>1. fold[t] = step(fold[t \ {Max(t)}], s[Max(t)]) /\ Max(t) \in 1..n
    BY <1>7, WithoutGreatest
  <2> QED
    BY <1>2, <2>1
<1>10. \E h \in Walks(n, X, b, G) : fold[1..n] = h[n]
  <2>1. StepsBy(fold, n, X, b, G)
    BY <1>8, <1>9, Zenon DEF StepsBy
  <2> QED
    BY <1>3, <2>1, FoldSteps
<1> QED
  BY <1>1, <1>10 DEF b

\* The loop of LoginsOf goes through the log entries of a user.
LEMMA LoginsOfSteps ==
  ASSUME NEW n \in Nat, NEW map, NEW user, DOMAIN user.logs = 1..n, NEW X, map \in X,
         NEW G \in [1..n -> [X -> X]],
         \A k \in 1..n : \A m \in X : G[k][m] = IF user.logs[k].action = "login" THEN Incremented(m, user.logs[k].date) ELSE m
  PROVE  \E h \in Walks(n, X, map, G) : LoginsOf(map, user) = h[n]
<1> DEFINE step(m, u) == IF u.action = "login" THEN Incremented(m, u.date) ELSE m
           b == map
           Is(f) == f = [t \in SUBSET (1..n) |->
                           IF t = {} THEN b ELSE step(f[t \ {Max(t)}], user.logs[Max(t)])]
           fold == CHOOSE f : Is(f)
<1>1. LoginsOf(map, user) = fold[1..n]
  BY Zenon DEF LoginsOf, FoldLeft, MapThenFoldSet
<1>2. \A k \in 1..n : \A m \in X : G[k][m] = step(m, user.logs[k])
  OBVIOUS
<1>3. b \in X
  OBVIOUS
<1> HIDE DEF step, b
<1>4. PICK f \in Folds(n, X, b, G) : TRUE
  BY <1>3, FoldExists
<1>5. Is(f)
  <2>1. f \in [SUBSET (1..n) -> X]
    BY <1>4 DEF Folds
  <2>2. ASSUME NEW t \in SUBSET (1..n)
        PROVE  f[t] = IF t = {} THEN b ELSE step(f[t \ {Max(t)}], user.logs[Max(t)])
    <3>1. f[t] = IF t = {} THEN b ELSE G[Max(t)][f[t \ {Max(t)}]]
      BY <1>4, Zenon DEF Folds
    <3>2. CASE t # {}
      BY <1>2, <2>1, <3>1, <3>2, WithoutGreatest
    <3> QED
      BY <3>1, <3>2
  <2> QED
    BY <2>1, <2>2
<1>6. Is(fold)
  <2> HIDE DEF Is
  <2> QED
    BY <1>5
<1>7. \A t \in SUBSET (1..n) : fold[t] = IF t = {} THEN b ELSE step(fold[t \ {Max(t)}], user.logs[Max(t)])
  <2> HIDE DEF fold
  <2> QED
    BY <1>6
<1> HIDE DEF fold, Is
<1>8. fold[{}] = b
  BY <1>7
<1>9. \A t \in SUBSET (1..n) : t # {} /\ fold[t \ {Max(t)}] \in X =>
                               fold[t] = G[Max(t)][fold[t \ {Max(t)}]]
  <2> SUFFICES ASSUME NEW t \in SUBSET (1..n), t # {}, fold[t \ {Max(t)}] \in X
               PROVE  fold[t] = G[Max(t)][fold[t \ {Max(t)}]]
    OBVIOUS
  <2>1. fold[t] = step(fold[t \ {Max(t)}], user.logs[Max(t)]) /\ Max(t) \in 1..n
    BY <1>7, WithoutGreatest
  <2> QED
    BY <1>2, <2>1
<1>10. \E h \in Walks(n, X, b, G) : fold[1..n] = h[n]
  <2>1. StepsBy(fold, n, X, b, G)
    BY <1>8, <1>9, Zenon DEF StepsBy
  <2> QED
    BY <1>3, <2>1, FoldSteps
<1> QED
  BY <1>1, <1>10 DEF b

-----------------------------------------------------------------------------
(* Counting                                                                *)

\* the members of A among the first k places
Before(A, k) == A \intersect (1..k)

\* One place more.
LEMMA CountOneMore ==
  ASSUME NEW A, NEW k \in Nat, NEW q, q = k + 1
  PROVE  /\ IsFiniteSet(Before(A, k)) /\ Cardinality(Before(A, k)) \in Nat
         /\ Cardinality(Before(A, q)) = Cardinality(Before(A, k)) + (IF q \in A THEN 1 ELSE 0)
<1> DEFINE B == Before(A, k)
<1>1. IsFiniteSet(1..k) /\ B \subseteq 1..k
  BY FS_Interval DEF Before
<1>2. IsFiniteSet(B) /\ q \notin B
  <2>1. q \notin 1..k
    OBVIOUS
  <2> QED
    BY <1>1, <2>1, FS_Subset
<1>3. Cardinality(B) \in Nat
  BY <1>2, FS_CardinalityType
<1>4. Before(A, q) = IF q \in A THEN B \union {q} ELSE B
  BY DEF Before
<1> HIDE DEF B
<1>5. Cardinality(B \union {q}) = Cardinality(B) + 1
  BY <1>2, FS_AddElement
<1> QED
  BY <1>2, <1>3, <1>4, <1>5 DEF B

\* None before the first place, and all up to the last.
LEMMA CountEnds ==
  ASSUME NEW n \in Nat, NEW A \in SUBSET (1..n)
  PROVE  Cardinality(Before(A, 0)) = 0 /\ Before(A, n) = A
<1>a. 1..0 = {}
  OBVIOUS
<1>1. Before(A, 0) = {} /\ Before(A, n) = A
  BY <1>a DEF Before
<1> QED
  BY <1>1, FS_EmptySet

-----------------------------------------------------------------------------
(* Superusers                                                              *)

\* Just the superusers are listed.
LEMMA SuperusersExact ==
  ASSUME NEW S, NEW s \in Seq(S)
  PROVE  SuperusersRight(Superusers(s), s)
<1> DEFINE n == Len(s)
           A == {i \in 1..n : s[i].active /\ s[i].score >= TopScore}
           X == Seq({s[i].name : i \in 1..n})
           b == <<>>
           G == [k \in 1..n |-> [m \in X |-> IF s[k].active /\ s[k].score >= TopScore
                                             THEN Append(m, s[k].name) ELSE m]]
           list == Superusers(s)
           Lists0(m, k) == \A i \in 1..Len(m) : \E j \in 1..k : j \in A /\ s[j].name = m[i]
<1>1. n \in Nat /\ DOMAIN s = 1..n /\ b \in X /\ G \in [1..n -> [X -> X]]
  OBVIOUS
<1>2. \A k \in 1..n : \A m \in X :
        G[k][m] = IF s[k].active /\ s[k].score >= TopScore THEN Append(m, s[k].name) ELSE m
  OBVIOUS
<1>3. PICK h \in Walks(n, X, <<>>, G) : list = h[n]
  <2> HIDE DEF n, X, G
  <2> QED
    BY <1>1, <1>2, SuperusersSteps DEF b
<1>4. /\ h \in [0..n -> X] /\ h[0] = <<>>
      /\ \A k \in 1..n : h[k] = IF k \in A THEN Append(h[k - 1], s[k].name) ELSE h[k - 1]
  <2>1. h \in [0..n -> X] /\ h[0] = <<>> /\ \A k \in 1..n : h[k] = G[k][h[k - 1]]
    BY <1>3 DEF Walks
  <2>a. \A k \in 1..n : k - 1 \in 0..n
    BY <1>1
  <2>2. \A k \in 1..n : h[k - 1] \in X
    BY <2>1, <2>a
  <2>3. \A k \in 1..n : k \in A <=> s[k].active /\ s[k].score >= TopScore
    OBVIOUS
  <2> HIDE DEF G, X, A, n
  <2> QED
    BY <1>2, <2>1, <2>2, <2>3
<1>5. A \in SUBSET (1..n)
  OBVIOUS
<1> DEFINE U == {k \in 0..n : Len(h[k]) = Cardinality(Before(A, k)) /\ Lists0(h[k], k)}
<1> HIDE DEF A, G
<1>6. 0 \in U
  BY <1>1, <1>4, <1>5, CountEnds
<1>7. ASSUME NEW k \in 0..(n - 1), k \in U PROVE k + 1 \in U
  <2> DEFINE q == k + 1
  <2>1. q \in 1..n /\ q - 1 = k /\ q \in 0..n /\ k \in 0..n /\ k \in Nat /\ q = k + 1 /\ q \in 1..q /\ 1..k \subseteq 1..q
    BY <1>1
  <2> HIDE DEF q
  <2>2. h[q] = IF q \in A THEN Append(h[k], s[q].name) ELSE h[k]
    BY <1>4, <2>1
  <2>3. Cardinality(Before(A, q)) = Cardinality(Before(A, k)) + (IF q \in A THEN 1 ELSE 0)
    BY <2>1, CountOneMore
  <2>4. h[k] \in X /\ Len(h[k]) = Cardinality(Before(A, k)) /\ Lists0(h[k], k)
    BY <1>4, <1>7, <2>1
  <2>5. CASE q \in A
    <3> DEFINE a == h[k]
               c == Append(a, s[q].name)
    <3>1. /\ Len(c) = Len(a) + 1 /\ Len(a) \in Nat /\ c[Len(a) + 1] = s[q].name
          /\ \A i \in 1..Len(a) : c[i] = a[i]
      BY <2>4
    <3>2. h[q] = c
      BY <2>2, <2>5
    <3> HIDE DEF c, a
    <3>3. Lists0(c, q)
      <4> SUFFICES ASSUME NEW i \in 1..Len(c) PROVE \E j \in 1..q : j \in A /\ s[j].name = c[i]
        OBVIOUS
      <4>1. CASE i = Len(a) + 1
        BY <2>1, <2>5, <3>1, <4>1
      <4>2. CASE i \in 1..Len(a)
        <5>1. PICK j \in 1..k : j \in A /\ s[j].name = a[i]
          BY <2>4, <4>2 DEF a
        <5>2. j \in 1..q
          BY <2>1
        <5> QED
          BY <3>1, <4>2, <5>1, <5>2
      <4> QED
        BY <3>1, <4>1, <4>2
    <3>4. Len(h[q]) = Cardinality(Before(A, q))
      BY <2>3, <2>4, <2>5, <3>1, <3>2 DEF a
    <3> QED
      BY <2>1, <3>2, <3>3, <3>4 DEF q
  <2>6. CASE q \notin A
    <3>1. Lists0(h[q], q)
      BY <2>1, <2>2, <2>4, <2>6
    <3>2. Len(h[q]) = Cardinality(Before(A, q))
      <4>1. Cardinality(Before(A, k)) \in Nat
        BY <2>1, CountOneMore
      <4> QED
        BY <2>2, <2>3, <2>4, <2>6, <4>1
    <3> QED
      BY <2>1, <3>1, <3>2 DEF q
  <2> QED
    BY <2>5, <2>6
<1>8. n \in U
  <2>1. \A k \in 0..n : k \in U
    <3> HIDE DEF U, n
    <3> QED
      BY <1>1, <1>6, <1>7, UpTo, Zenon
  <2> QED
    BY <1>1, <2>1
<1>9. Len(list) = Cardinality(A) /\ Lists0(list, n)
  BY <1>1, <1>3, <1>5, <1>8, CountEnds
<1>10. A = {i \in 1..Len(s) : s[i].active /\ s[i].score >= TopScore}
  BY DEF A
<1>11. \A i \in 1..Len(list) : \E j \in 1..Len(s) : s[j].name = list[i] /\ s[j].active /\ s[j].score >= TopScore
  BY <1>9 DEF A
<1> HIDE DEF list
<1> QED
  BY <1>9, <1>10, <1>11, Zenon DEF SuperusersRight, Places, list

-----------------------------------------------------------------------------
(* Maps that count                                                         *)

\* maps from keys of K to how often each has been counted, at least once
Maps(K) == UNION {[D -> Nat \ {0}] : D \in SUBSET K}

\* how often a key has been counted
Count(m, k) == IF k \in DOMAIN m THEN m[k] ELSE 0

\* A key that is counted once more.
LEMMA IncrementedOnce ==
  ASSUME NEW K, NEW m \in Maps(K), NEW key \in K
  PROVE  /\ Incremented(m, key) \in Maps(K)
         /\ \A k \in K : Count(Incremented(m, key), k) = Count(m, k) + (IF k = key THEN 1 ELSE 0)
<1> DEFINE D == DOMAIN m
           r == Incremented(m, key)
<1>1. D \in SUBSET K /\ m \in [D -> Nat \ {0}]
  BY DEF Maps
<1>2. r = [k \in D \union {key} |-> (IF k \in D THEN m[k] ELSE 0) + (IF k = key THEN 1 ELSE 0)]
  BY Zenon DEF Incremented
<1>3. DOMAIN r = D \union {key}
  BY <1>2
<1>4. \A k \in D \union {key} : r[k] = (IF k \in D THEN m[k] ELSE 0) + (IF k = key THEN 1 ELSE 0)
  BY <1>2
<1> HIDE DEF D
<1>5. r \in [D \union {key} -> Nat \ {0}] /\ D \union {key} \in SUBSET K
  BY <1>1, <1>2
<1> HIDE DEF r
<1>6. r \in Maps(K)
  BY <1>5, Zenon DEF Maps
<1>7. \A k \in K : Count(r, k) = Count(m, k) + (IF k = key THEN 1 ELSE 0)
  <2> SUFFICES ASSUME NEW k \in K PROVE Count(r, k) = Count(m, k) + (IF k = key THEN 1 ELSE 0)
    OBVIOUS
  <2>1. Count(m, k) = IF k \in D THEN m[k] ELSE 0
    BY DEF Count, D
  <2>2. Count(r, k) = IF k \in D \union {key} THEN r[k] ELSE 0
    BY <1>3 DEF Count
  <2> QED
    BY <1>4, <2>1, <2>2
<1> QED
  BY <1>6, <1>7 DEF r

\* Nothing is counted yet.
LEMMA NothingCounted ==
  ASSUME NEW K
  PROVE  NoCounts \in Maps(K) /\ \A k \in K : Count(NoCounts, k) = 0
<1>1. NoCounts \in [{} -> Nat \ {0}] /\ {} \in SUBSET K
  BY DEF NoCounts
<1>2. DOMAIN NoCounts = {}
  BY DEF NoCounts
<1> QED
  BY <1>1, <1>2 DEF Maps, Count

\* What a map has counted is a number, and the entries of the map say it.
LEMMA EntriesOfMap ==
  ASSUME NEW K, NEW m \in Maps(K)
  PROVE  /\ \A k \in K : Count(m, k) \in Nat /\ (k \in DOMAIN m <=> Count(m, k) > 0)
         /\ DOMAIN m \in SUBSET K
         /\ Entries(m) = {[key |-> k, total |-> Count(m, k)] : k \in DOMAIN m}
<1>1. PICK D \in SUBSET K : m \in [D -> Nat \ {0}]
  BY DEF Maps
<1>2. DOMAIN m = D
  BY <1>1
<1>3. \A k \in DOMAIN m : Count(m, k) = m[k] /\ m[k] \in Nat \ {0}
  BY <1>1, <1>2 DEF Count
<1>4. \A k \in K : k \notin DOMAIN m => Count(m, k) = 0
  BY DEF Count
<1>5. Entries(m) = {[key |-> k, total |-> Count(m, k)] : k \in DOMAIN m}
  BY <1>3, Zenon DEF Entries
<1>6. \A k \in K : Count(m, k) \in Nat /\ (k \in DOMAIN m <=> Count(m, k) > 0)
  BY <1>3, <1>4
<1> QED
  BY <1>1, <1>2, <1>5, <1>6

-----------------------------------------------------------------------------
(* Countries                                                               *)

\* the users from a country
From(s, c) == {i \in 1..Len(s) : s[i].country = c}

\* The map counts the users of each country.
LEMMA CountriesCounted ==
  ASSUME NEW S, NEW s \in Seq(S), NEW K, K = {s[i].country : i \in 1..Len(s)}
  PROVE  /\ Countries(s) \in Maps(K)
         /\ \A c \in K : Count(Countries(s), c) = Cardinality(From(s, c))
<1> DEFINE n == Len(s)
           X == Maps(K)
           G == [k \in 1..n |-> [m \in X |-> Incremented(m, s[k].country)]]
<1>1. n \in Nat /\ DOMAIN s = 1..n /\ NoCounts \in X
  BY NothingCounted
<1>2. \A k \in 1..n : s[k].country \in K
  OBVIOUS
<1> HIDE DEF n
<1>3. \A k \in 1..n : \A m \in X : Incremented(m, s[k].country) \in X
  BY <1>2, IncrementedOnce
<1>4. G \in [1..n -> [X -> X]] /\ \A k \in 1..n : \A m \in X : G[k][m] = Incremented(m, s[k].country)
  <2> HIDE DEF X
  <2> QED
    BY <1>3
<1>5. PICK h \in Walks(n, X, NoCounts, G) : Countries(s) = h[n]
  <2> HIDE DEF X, G
  <2> QED
    BY <1>1, <1>4, CountriesSteps
<1>6. /\ h \in [0..n -> X] /\ h[0] = NoCounts
      /\ \A k \in 1..n : h[k] = Incremented(h[k - 1], s[k].country)
  <2> HIDE DEF X, G
  <2>1. h \in [0..n -> X] /\ h[0] = NoCounts /\ \A k \in 1..n : h[k] = G[k][h[k - 1]]
    BY <1>5 DEF Walks
  <2>2. \A k \in 1..n : k - 1 \in 0..n
    BY <1>1
  <2>3. \A k \in 1..n : h[k - 1] \in X
    BY <2>1, <2>2
  <2> QED
    BY <1>4, <2>1, <2>3
<1> HIDE DEF G
<1> DEFINE U == {k \in 0..n : \A c \in K : Count(h[k], c) = Cardinality(Before(From(s, c), k))}
<1>7. \A c : From(s, c) \in SUBSET (1..n)
  BY DEF From, n
<1>8. 0 \in U
  <2>1. \A c \in K : Cardinality(Before(From(s, c), 0)) = 0
    BY <1>1, <1>7, CountEnds
  <2>2. 0 \in 0..n
    BY <1>1
  <2> QED
    BY <1>6, <2>1, <2>2, NothingCounted
<1>9. ASSUME NEW k \in 0..(n - 1), k \in U PROVE k + 1 \in U
  <2> DEFINE q == k + 1
  <2>1. q \in 1..n /\ q - 1 = k /\ q \in 0..n /\ k \in 0..n /\ k \in Nat /\ q = k + 1
    BY <1>1
  <2> HIDE DEF q
  <2>2. h[q] = Incremented(h[k], s[q].country) /\ h[k] \in X /\ s[q].country \in K
    BY <1>2, <1>6, <2>1
  <2>3. ASSUME NEW c \in K PROVE Count(h[q], c) = Cardinality(Before(From(s, c), q))
    <3>1. Count(h[q], c) = Count(h[k], c) + (IF c = s[q].country THEN 1 ELSE 0)
      BY <2>2, IncrementedOnce
    <3>2. Cardinality(Before(From(s, c), q)) =
            Cardinality(Before(From(s, c), k)) + (IF q \in From(s, c) THEN 1 ELSE 0)
      BY <2>1, CountOneMore
    <3>3. q \in From(s, c) <=> c = s[q].country
      BY <2>1 DEF From, n
    <3>4. Count(h[k], c) = Cardinality(Before(From(s, c), k))
      BY <1>9
    <3> QED
      BY <3>1, <3>2, <3>3, <3>4
  <2> QED
    BY <2>1, <2>3 DEF q
<1>10. n \in U
  <2>1. \A k \in 0..n : k \in U
    <3> HIDE DEF U
    <3> QED
      BY <1>1, <1>8, <1>9, UpTo, Zenon
  <2> QED
    BY <1>1, <2>1
<1>11. \A c \in K : Count(h[n], c) = Cardinality(From(s, c))
  <2>1. \A c \in K : Before(From(s, c), n) = From(s, c)
    BY <1>1, <1>7, CountEnds
  <2> QED
    BY <1>10, <2>1
<1>12. h[n] \in X
  BY <1>1, <1>6
<1> QED
  BY <1>5, <1>11, <1>12

\* A set that can be counted one by one.
LEMMA CountedOneByOne ==
  ASSUME NEW n \in Nat, NEW S, NEW f \in [1..n -> S],
         \A i, j \in 1..n : f[i] = f[j] => i = j, \A x \in S : \E i \in 1..n : f[i] = x
  PROVE  IsFiniteSet(S) /\ Cardinality(S) = n
<1>1. f \in Bijection(1..n, S)
  BY Zenon DEF Bijection, Injection, Surjection, IsInjective
<1>2. IsFiniteSet(1..n) /\ Cardinality(1..n) = n
  BY FS_Interval
<1>3. ExistsBijection(1..n, S)
  BY <1>1, Zenon DEF ExistsBijection
<1> QED
  BY <1>2, <1>3, FS_Bijection, Zenon

\* A finite set is counted by any list of as many different members of it.
LEMMA AllListed ==
  ASSUME NEW S, IsFiniteSet(S), NEW n, Cardinality(S) = n, NEW f \in [1..n -> S],
         \A i, j \in 1..n : i # j => f[i] # f[j]
  PROVE  \A x \in S : \E i \in 1..n : f[i] = x
<1>1. n \in Nat
  BY FS_CardinalityType
<1>2. IsFiniteSet(1..n) /\ Cardinality(1..n) = n
  BY <1>1, FS_Interval
<1>3. f \in Injection(1..n, S)
  BY Zenon DEF Injection, IsInjective
<1>4. f \in Surjection(1..n, S)
  BY <1>2, <1>3, FS_Injection
<1> QED
  BY <1>4, Zenon DEF Surjection

\* As many entries as keys.
LEMMA AsManyEntries ==
  ASSUME NEW K, IsFiniteSet(K), NEW T
  PROVE  /\ IsFiniteSet({[key |-> c, total |-> T[c]] : c \in K})
         /\ Cardinality({[key |-> c, total |-> T[c]] : c \in K}) = Cardinality(K)
<1> DEFINE E == {[key |-> c, total |-> T[c]] : c \in K}
           f == [c \in K |-> [key |-> c, total |-> T[c]]]
<1>1. f \in [K -> E] /\ (\A c, d \in K : f[c] = f[d] => c = d) /\ \A e \in E : \E c \in K : f[c] = e
  OBVIOUS
<1> HIDE DEF f, E
<1>2. f \in Bijection(K, E)
  BY <1>1, Zenon DEF Bijection, Injection, Surjection, IsInjective
<1>3. ExistsBijection(K, E)
  BY <1>2, Zenon DEF ExistsBijection
<1> QED
  BY <1>3, FS_Bijection, Zenon DEF E

\* The lesser of two numbers.
LEMMA LeastOfTwo ==
  ASSUME NEW a \in Nat, NEW b \in Nat
  PROVE  Min({a, b}) = IF a <= b THEN a ELSE b
<1>1. {a, b} \in SUBSET Nat
  OBVIOUS
<1>2. CASE a <= b
  BY <1>1, <1>2, LeastOf
<1>3. CASE ~(a <= b)
  BY <1>1, <1>3, LeastOf
<1> QED
  BY <1>2, <1>3

\* The beginning of a sequence.
LEMMA Beginning ==
  ASSUME NEW S, NEW f \in Seq(S), NEW m \in Nat, m <= Len(f)
  PROVE  Len(SubSeq(f, 1, m)) = m /\ \A i \in 1..m : SubSeq(f, 1, m)[i] = f[i]
OBVIOUS

\* Totals that fall from each place to the next fall over any distance.
LEMMA Falls ==
  ASSUME NEW n \in Nat, NEW t \in [1..n -> Nat], \A i \in 2..n : t[i - 1] >= t[i]
  PROVE  \A i, j \in 1..n : i <= j => t[i] >= t[j]
<1> DEFINE U == {k \in 0..n : \A i \in 1..k : t[i] >= t[k]}
<1>1. 0 \in U
  OBVIOUS
<1>2. ASSUME NEW k \in 0..(n - 1), k \in U PROVE k + 1 \in U
  <2> DEFINE q == k + 1
  <2>1. q \in 1..n /\ q \in 0..n /\ q - 1 = k /\ (k # 0 => q \in 2..n /\ k \in 1..n) /\ 1..q = 1..k \union {q} /\ 1..k \subseteq 1..n
    OBVIOUS
  <2> HIDE DEF q
  <2>2. ASSUME NEW i \in 1..k PROVE t[i] >= t[q]
    <3>1. k # 0
      OBVIOUS
    <3>2. t[i] >= t[k]
      BY <1>2
    <3>3. t[k] >= t[q]
      BY <2>1, <3>1
    <3>4. t[i] \in Nat /\ t[k] \in Nat /\ t[q] \in Nat
      BY <2>1, <3>1
    <3> QED
      BY <3>2, <3>3, <3>4
  <2>3. t[q] >= t[q]
    BY <2>1
  <2> QED
    BY <2>1, <2>2, <2>3 DEF q
<1>3. \A k \in 0..n : k \in U
  <2> HIDE DEF U
  <2> QED
    BY <1>1, <1>2, UpTo, Zenon
<1> QED
  BY <1>3

\* what is to be listed of keys with totals
Ranks(list, K, T) ==
  LET listed == {list[i].key : i \in 1..Len(list)}
  IN /\ listed \in SUBSET K
     /\ Len(list) = Cardinality(listed)
     /\ Len(list) = Min({MaxCountries, Cardinality(K)})
     /\ \A i \in 1..Len(list) : list[i].total = T[list[i].key]
     /\ \A c \in listed, d \in K \ listed : T[c] >= T[d]
     /\ \A i, j \in 1..Len(list) : i < j => list[i].total >= list[j].total

\* the entries of keys with totals
AreEntries(E, K, T) == E = {[key |-> c, total |-> T[c]] : c \in K}

\* the beginning of a list of entries
IsTop(list, f) == list = SubSeq(f, 1, Min({MaxCountries, Len(f)}))

\* The beginning of a sorted list of entries.
LEMMA SortedBeginning ==
  ASSUME NEW K, IsFiniteSet(K), NEW T \in [K -> Nat], NEW E, AreEntries(E, K, T),
         NEW f \in SetToSeqs(E), \A i \in 2..Len(f) : f[i - 1].total >= f[i].total,
         NEW list, IsTop(list, f)
  PROVE  Ranks(list, K, T)
<1> DEFINE n == Cardinality(K)
           M == Min({MaxCountries, n})
           t == [i \in 1..n |-> f[i].total]
           listed == {list[i].key : i \in 1..Len(list)}
<1>1. IsFiniteSet(E) /\ Cardinality(E) = n /\ n \in Nat
  BY AsManyEntries, FS_CardinalityType DEF AreEntries
<1>2. f \in [1..n -> E] /\ \A i, j \in 1..n : i # j => f[i] # f[j]
  <2>1. f \in {g \in [1..Cardinality(E) -> E] : \A i, j \in 1..Cardinality(E) : i # j => g[i] # g[j]}
    BY Zenon DEF SetToSeqs
  <2> HIDE DEF n
  <2>2. f \in {g \in [1..n -> E] : \A i, j \in 1..n : i # j => g[i] # g[j]}
    BY <1>1, <2>1, Zenon
  <2> QED
    BY <2>2
<1>3. \A e \in E : \E i \in 1..n : f[i] = e
  BY <1>1, <1>2, AllListed
<1>4. Len(f) = n /\ f \in Seq(E)
  <2> HIDE DEF n
  <2> QED
    BY <1>1, <1>2
<1>5. \A e \in E : e.key \in K /\ e.total = T[e.key] /\ e.total \in Nat
  BY DEF AreEntries
<1>6. \A d, e \in E : d.key = e.key => d = e
  BY DEF AreEntries
<1>7. \A c \in K : \E e \in E : e.key = c
  <2> SUFFICES ASSUME NEW c \in K PROVE \E e \in E : e.key = c
    OBVIOUS
  <2>1. [key |-> c, total |-> T[c]] \in E /\ [key |-> c, total |-> T[c]].key = c
    BY DEF AreEntries
  <2> QED
    BY <2>1, Zenon
<1> HIDE DEF n
<1>8. t \in [1..n -> Nat] /\ \A i \in 2..n : t[i - 1] >= t[i]
  <2>1. \A i \in 1..n : f[i].total \in Nat
    BY <1>2, <1>5
  <2>2. \A i \in 2..n : i - 1 \in 1..n /\ i \in 1..n
    BY <1>1
  <2> QED
    BY <1>4, <2>1, <2>2
<1>9. \A i, j \in 1..n : i <= j => t[i] >= t[j]
  <2> HIDE DEF t
  <2> QED
    BY <1>1, <1>8, Falls
<1>10. M \in Nat /\ M <= n
  BY <1>1, LimitAssumption, LeastOfTwo
<1> HIDE DEF M
<1>11. Len(list) = M /\ \A i \in 1..M : list[i] = f[i] /\ i \in 1..n
  <2>1. list = SubSeq(f, 1, M)
    BY <1>4, Zenon DEF M, IsTop
  <2>a. M \in Nat /\ M <= Len(f)
    BY <1>4, <1>10
  <2>b. Len(SubSeq(f, 1, M)) = M /\ \A i \in 1..M : SubSeq(f, 1, M)[i] = f[i]
    BY <1>4, <2>a, Beginning, Zenon
  <2>2. Len(list) = M /\ \A i \in 1..M : list[i] = f[i]
    BY <2>1, <2>b, Zenon
  <2> QED
    BY <1>1, <1>10, <2>2
<1>12. \A i \in 1..M : list[i].key \in K /\ list[i].total = T[list[i].key] /\ list[i].total = t[i]
  BY <1>2, <1>5, <1>11
<1>13. listed \in SUBSET K
  BY <1>11, <1>12
<1>14. Cardinality(listed) = M
  <2> DEFINE g == [i \in 1..M |-> list[i].key]
  <2>1. g \in [1..M -> listed] /\ \A x \in listed : \E i \in 1..M : g[i] = x
    BY <1>11
  <2>2. ASSUME NEW i \in 1..M, NEW j \in 1..M, g[i] = g[j] PROVE i = j
    <3>1. f[i].key = f[j].key /\ i \in 1..n /\ j \in 1..n
      BY <1>11, <2>2
    <3>2. f[i] = f[j]
      BY <1>2, <1>6, <3>1
    <3> QED
      BY <1>2, <3>1, <3>2
  <2> HIDE DEF g, listed
  <2> QED
    BY <1>10, <2>1, <2>2, CountedOneByOne
<1>15. ASSUME NEW c \in listed, NEW d \in K \ listed PROVE T[c] >= T[d]
  <2>1. PICK i \in 1..M : list[i].key = c
    BY <1>11
  <2>2. PICK e \in E : e.key = d
    BY <1>7
  <2>3. PICK j \in 1..n : f[j] = e
    BY <1>3
  <2>4. ~(j \in 1..M)
    BY <1>11, <2>2, <2>3
  <2>5. i <= j /\ i \in 1..n
    BY <1>10, <1>11, <2>4
  <2>6. t[i] >= t[j]
    BY <1>9, <2>5
  <2>7. t[i] = T[c] /\ t[j] = T[d]
    BY <1>5, <1>12, <2>1, <2>2, <2>3
  <2> QED
    BY <2>6, <2>7
<1>16. ASSUME NEW i \in 1..M, NEW j \in 1..M, i < j PROVE list[i].total >= list[j].total
  <2>1. i \in 1..n /\ j \in 1..n /\ i <= j
    BY <1>10, <1>11, <1>16
  <2>2. t[i] >= t[j]
    BY <1>9, <2>1
  <2> QED
    BY <1>12, <2>2
<1> HIDE DEF listed, t
<1>17. Len(list) = Min({MaxCountries, Cardinality(K)})
  BY <1>11 DEF M, n
<1> QED
  BY <1>11, <1>12, <1>13, <1>14, <1>15, <1>16, <1>17, Zenon DEF Ranks, listed

\* The places of a country are finite, and some if a user is from there.
LEMMA FromIsFinite ==
  ASSUME NEW S, NEW s \in Seq(S), NEW c
  PROVE  /\ IsFiniteSet(From(s, c)) /\ Cardinality(From(s, c)) \in Nat
         /\ \A i \in 1..Len(s) : s[i].country = c => Cardinality(From(s, c)) > 0
<1> DEFINE A == From(s, c)
           n == Len(s)
<1>1. n \in Nat /\ A \subseteq 1..n /\ \A i \in 1..n : s[i].country = c => i \in A
  BY DEF From
<1> HIDE DEF A, n
<1>2. IsFiniteSet(A)
  <2>1. IsFiniteSet(1..n)
    BY <1>1, FS_Interval
  <2> QED
    BY <1>1, <2>1, FS_Subset
<1>3. Cardinality(A) \in Nat /\ (Cardinality(A) = 0 <=> A = {})
  BY <1>2, FS_CardinalityType, FS_EmptySet
<1>4. \A i \in 1..n : s[i].country = c => Cardinality(A) > 0
  BY <1>1, <1>3
<1> QED
  BY <1>2, <1>3, <1>4 DEF A, n

\* Whichever of the possible lists is answered, it has the countries with the
\* most users, with their numbers of users.
LEMMA CountriesExact ==
  ASSUME NEW S, NEW s \in Seq(S), NEW list \in TopCountries(s)
  PROVE  CountriesRight(list, s)
<1> DEFINE n == Len(s)
           K == {s[i].country : i \in 1..n}
           m == Countries(s)
           T == [c \in K |-> Cardinality(From(s, c))]
           E == Entries(m)
<1>1. n \in Nat
  OBVIOUS
<1>2. IsFiniteSet(K)
  <2> DEFINE f == [i \in 1..n |-> s[i].country]
  <2>1. f \in [1..n -> K] /\ \A c \in K : \E i \in 1..n : f[i] = c
    OBVIOUS
  <2> HIDE DEF f, K, n
  <2>2. f \in Surjection(1..n, K)
    BY <2>1, Zenon DEF Surjection
  <2>3. IsFiniteSet(1..n)
    BY <1>1, FS_Interval
  <2> QED
    BY <2>2, <2>3, FS_Surjection, Zenon
<1>3. m \in Maps(K) /\ \A c \in K : Count(m, c) = Cardinality(From(s, c))
  <2> HIDE DEF m
  <2> QED
    BY CountriesCounted DEF m
<1>4. \A c \in K : Cardinality(From(s, c)) > 0 /\ Cardinality(From(s, c)) \in Nat
  <2> SUFFICES ASSUME NEW c \in K PROVE Cardinality(From(s, c)) > 0 /\ Cardinality(From(s, c)) \in Nat
    OBVIOUS
  <2>1. PICK i \in 1..n : s[i].country = c
    OBVIOUS
  <2> QED
    BY <2>1, FromIsFinite
<1> HIDE DEF K, m
<1>5. T \in [K -> Nat] /\ \A c \in K : T[c] = Count(m, c)
  BY <1>3, <1>4
<1>a. \A c \in K : T[c] = Cardinality(From(s, c))
  OBVIOUS
<1> HIDE DEF T
<1>6. DOMAIN m = K /\ E = {[key |-> k, total |-> Count(m, k)] : k \in DOMAIN m}
  <2>1. /\ \A c \in K : c \in DOMAIN m <=> Count(m, c) > 0
        /\ DOMAIN m \in SUBSET K
        /\ E = {[key |-> k, total |-> Count(m, k)] : k \in DOMAIN m}
    BY <1>3, EntriesOfMap, Zenon
  <2> HIDE DEF E
  <2>2. DOMAIN m = K
    BY <1>3, <1>4, <2>1
  <2> QED
    BY <2>1, <2>2
<1>7. E = {[key |-> k, total |-> T[k]] : k \in K}
  <2> HIDE DEF E
  <2> QED
    BY <1>5, <1>6
<1>8. AreEntries(E, K, T)
  BY <1>7, Zenon DEF AreEntries
<1> HIDE DEF E
<1>9. PICK f \in SetToSeqs(E) : /\ \A i \in 2..Len(f) : f[i - 1].total >= f[i].total
                                /\ list = SubSeq(f, 1, Min({MaxCountries, Len(f)}))
  BY Zenon DEF TopCountries, E, m
<1>10. Ranks(list, K, T)
  <2>1. IsTop(list, f)
    BY <1>9, Zenon DEF IsTop
  <2> QED
    BY <1>2, <1>5, <1>8, <1>9, <2>1, SortedBeginning
<1> DEFINE listed == {list[i].key : i \in 1..Len(list)}
           Total(c) == Cardinality({i \in 1..Len(s) : s[i].country = c})
<1>11. /\ listed \in SUBSET K
       /\ Len(list) = Cardinality(listed)
       /\ Len(list) = Min({MaxCountries, Cardinality(K)})
       /\ \A i \in 1..Len(list) : list[i].total = T[list[i].key]
       /\ \A c \in listed, d \in K \ listed : T[c] >= T[d]
       /\ \A i, j \in 1..Len(list) : i < j => list[i].total >= list[j].total
  BY <1>10, Zenon DEF Ranks
<1>12. \A c \in K : T[c] = Total(c)
  BY <1>a, Zenon DEF From
<1>b. \A i \in 1..Len(list) : list[i].key \in listed
  BY Zenon
<1>13. K = {s[i].country : i \in 1..Len(s)}
  BY DEF K
<1> HIDE DEF listed, Total
<1>14. \A i \in 1..Len(list) : list[i].total = Total(list[i].key)
  BY <1>11, <1>12, <1>b
<1>15. \A c \in listed, d \in K \ listed : Total(c) >= Total(d)
  BY <1>11, <1>12
<1> QED
  BY <1>11, <1>13, <1>14, <1>15, Zenon DEF CountriesRight, Places, listed, Total

-----------------------------------------------------------------------------
(* Layers                                                                  *)

\* what is in the first k of some sets, each member with its set
Layers(B, k) == UNION {{i} \X B[i] : i \in 1..k}

\* One set more.
LEMMA LayerOnTop ==
  ASSUME NEW n \in Nat, NEW B, \A i \in 1..n : IsFiniteSet(B[i]),
         NEW k \in 0..(n - 1), NEW q, q = k + 1
  PROVE  /\ Cardinality(Layers(B, k)) \in Nat /\ Cardinality(B[q]) \in Nat
         /\ Cardinality(Layers(B, q)) = Cardinality(Layers(B, k)) + Cardinality(B[q])
<1> DEFINE f == [i \in 1..k |-> {i} \X B[i]]
           F == {{i} \X B[i] : i \in 1..k}
           A == Layers(B, k)
           C == {q} \X B[q]
<1>1. k \in Nat /\ 1..k \subseteq 1..n /\ q \in 1..n /\ 1..q = 1..k \union {q} /\ q \notin 1..k
  OBVIOUS
<1>2. IsFiniteSet(1..k)
  BY <1>1, FS_Interval
<1>3. \A i \in 1..n : /\ IsFiniteSet({i} \X B[i])
                      /\ Cardinality({i} \X B[i]) = Cardinality({i}) * Cardinality(B[i])
                      /\ Cardinality({i}) = 1 /\ Cardinality(B[i]) \in Nat
  <2> SUFFICES ASSUME NEW i \in 1..n
               PROVE  /\ IsFiniteSet({i} \X B[i])
                      /\ Cardinality({i} \X B[i]) = Cardinality({i}) * Cardinality(B[i])
                      /\ Cardinality({i}) = 1 /\ Cardinality(B[i]) \in Nat
    OBVIOUS
  <2>1. IsFiniteSet({i}) /\ Cardinality({i}) = 1
    BY FS_Singleton
  <2>2. IsFiniteSet(B[i])
    OBVIOUS
  <2> DEFINE I == {i}
             J == B[i]
  <2>3. IsFiniteSet(I) /\ IsFiniteSet(J)
    BY <2>1, <2>2
  <2> HIDE DEF I, J
  <2>4. IsFiniteSet(I \X J) /\ Cardinality(I \X J) = Cardinality(I) * Cardinality(J)
    BY <2>3, FS_Product, Zenon
  <2>5. Cardinality(J) \in Nat
    BY <2>3, FS_CardinalityType
  <2> QED
    BY <2>1, <2>4, <2>5 DEF I, J
<1>4. IsFiniteSet(F)
  <2>1. f \in [1..k -> F] /\ \A x \in F : \E i \in 1..k : f[i] = x
    OBVIOUS
  <2> HIDE DEF f, F
  <2>2. f \in Surjection(1..k, F)
    BY <2>1, Zenon DEF Surjection
  <2> QED
    BY <1>2, <2>2, FS_Surjection, Zenon
<1>5. \A x \in F : IsFiniteSet(x)
  BY <1>1, <1>3
<1>6. IsFiniteSet(A)
  <2> HIDE DEF F
  <2>1. IsFiniteSet(UNION F)
    BY <1>4, <1>5, FS_UNION, Zenon
  <2> QED
    BY <2>1, Zenon DEF F, Layers
<1>7. Layers(B, q) = A \union C
  <2>1. \A x : x \in Layers(B, q) <=> \E i \in 1..q : x \in {i} \X B[i]
    BY Zenon DEF Layers
  <2>2. \A x : x \in A <=> \E i \in 1..k : x \in {i} \X B[i]
    BY Zenon DEF Layers
  <2> HIDE DEF A
  <2>3. \A i : i \in 1..q <=> i \in 1..k \/ i = q
    BY <1>1
  <2>4. \A x : x \in Layers(B, q) <=> x \in A \/ x \in C
    BY <2>1, <2>2, <2>3, Zenon
  <2> QED
    BY <2>4, Zenon
<1>8. A \intersect C = {}
  <2>1. \A x \in A : \E i \in 1..k : x[1] = i
    BY DEF Layers
  <2>2. \A x \in C : x[1] = q
    OBVIOUS
  <2> HIDE DEF A, C
  <2> QED
    BY <1>1, <2>1, <2>2
<1>9. IsFiniteSet(C) /\ Cardinality(C) = Cardinality(B[q]) /\ Cardinality(B[q]) \in Nat
  <2>1. /\ IsFiniteSet({q} \X B[q])
        /\ Cardinality({q} \X B[q]) = Cardinality({q}) * Cardinality(B[q])
        /\ Cardinality({q}) = 1 /\ Cardinality(B[q]) \in Nat
    BY <1>1, <1>3, Zenon
  <2> QED
    BY <2>1
<1> HIDE DEF A, C
<1>10. Cardinality(A \union C) = Cardinality(A) + Cardinality(C) - Cardinality({})
  BY <1>6, <1>8, <1>9, FS_Union
<1>11. Cardinality(A) \in Nat /\ Cardinality({}) = 0
  BY <1>6, FS_CardinalityType, FS_EmptySet
<1>12. Cardinality(Layers(B, q)) = Cardinality(A) + Cardinality(C)
  <2>1. Cardinality(Layers(B, q)) = Cardinality(A \union C)
    BY <1>7, Zenon
  <2> DEFINE a == Cardinality(A)
             c == Cardinality(C)
  <2>2. a \in Nat /\ c \in Nat
    BY <1>9, <1>11
  <2>3. Cardinality(A \union C) = a + c - 0
    BY <1>10, <1>11
  <2> HIDE DEF a, c
  <2>4. Cardinality(A \union C) = a + c
    BY <2>2, <2>3
  <2> QED
    BY <2>1, <2>4 DEF a, c
<1> QED
  BY <1>9, <1>11, <1>12, Zenon DEF A

\* No set at all.
LEMMA NoLayer ==
  ASSUME NEW B
  PROVE  Cardinality(Layers(B, 0)) = 0
<1>1. 1..0 = {}
  OBVIOUS
<1>2. Layers(B, 0) = {}
  BY <1>1 DEF Layers
<1> QED
  BY <1>2, FS_EmptySet

-----------------------------------------------------------------------------
(* Teams                                                                   *)

\* what is counted for a team
TeamCounts == [members : Nat, active : Nat, leaders : Nat, completed : Nat]

\* maps from names of K to what has been counted for their team
TeamMaps(K) == UNION {[D -> TeamCounts] : D \in SUBSET K}

\* what has been counted for a team
TeamIn(m, t) == IF t \in DOMAIN m THEN m[t] ELSE NoTeam

\* one user more in a team
WithUser(c, u) ==
  [members |-> c.members + 1,
   active |-> c.active + (IF u.active THEN 1 ELSE 0),
   leaders |-> c.leaders + (IF u.team.leader THEN 1 ELSE 0),
   completed |-> c.completed + u.team.completed]

\* the map r has one user more than m
HasOneMore(r, m, u, K) ==
  /\ DOMAIN r = DOMAIN m \union {u.team.name}
  /\ \A t \in K : TeamIn(r, t) = IF t = u.team.name THEN WithUser(TeamIn(m, t), u) ELSE TeamIn(m, t)

\* What a user adds to the map.
LEMMA MemberAdded ==
  ASSUME NEW K, NEW m \in TeamMaps(K), NEW u, u.team.name \in K, u.team.completed \in Nat
  PROVE  WithMember(m, u) \in TeamMaps(K) /\ HasOneMore(WithMember(m, u), m, u, K)
<1> DEFINE D == DOMAIN m
           name == u.team.name
           old == TeamIn(m, name)
           new == WithUser(old, u)
           r == WithMember(m, u)
<1>1. D \in SUBSET K /\ m \in [D -> TeamCounts]
  BY DEF TeamMaps
<1>2. \A t : TeamIn(m, t) \in TeamCounts
  <2>1. NoTeam \in TeamCounts
    BY DEF NoTeam, TeamCounts
  <2> QED
    BY <1>1, <2>1 DEF TeamIn
<1>3. new \in TeamCounts
  <2>1. old \in TeamCounts
    BY <1>2
  <2> HIDE DEF old
  <2> QED
    BY <2>1 DEF WithUser, TeamCounts
<1>4. r = [k \in D \union {name} |-> IF k = name THEN new ELSE m[k]]
  BY Zenon DEF WithMember, TeamIn, WithUser
<1> HIDE DEF new, D, name
<1>5. r \in [D \union {name} -> TeamCounts] /\ D \union {name} \in SUBSET K /\ DOMAIN r = D \union {name}
  BY <1>1, <1>3, <1>4 DEF name
<1>6. r \in TeamMaps(K)
  <2> HIDE DEF r
  <2> QED
    BY <1>5, Zenon DEF TeamMaps
<1>7. \A k \in D \union {name} : r[k] = IF k = name THEN new ELSE m[k]
  BY <1>4
<1> HIDE DEF r
<1>8. ASSUME NEW t \in K PROVE TeamIn(r, t) = IF t = name THEN new ELSE TeamIn(m, t)
  <2>1. TeamIn(m, t) = IF t \in D THEN m[t] ELSE NoTeam
    BY DEF TeamIn, D
  <2>2. TeamIn(r, t) = IF t \in D \union {name} THEN r[t] ELSE NoTeam
    BY <1>5, Zenon DEF TeamIn
  <2> QED
    BY <1>7, <2>1, <2>2
<1>9. \A t \in K : t = name => new = WithUser(TeamIn(m, t), u)
  BY Zenon DEF new
<1>10. \A t \in K : TeamIn(r, t) = IF t = name THEN WithUser(TeamIn(m, t), u) ELSE TeamIn(m, t)
  BY <1>8, <1>9
<1> QED
  BY <1>5, <1>6, <1>10, Zenon DEF HasOneMore, r, D, name

\* the members of a team
InTeam(s, t) == {i \in 1..Len(s) : s[i].team.name = t}

\* its active members
ActiveIn(s, t) == {i \in 1..Len(s) : s[i].team.name = t /\ s[i].active}

\* its leaders
LeadersIn(s, t) == {i \in 1..Len(s) : s[i].team.name = t /\ s[i].team.leader}

\* the completed projects of its members
Projects(s, t) == [i \in 1..Len(s) |-> IF s[i].team.name = t THEN 1..s[i].team.completed ELSE {}]

\* what there is to count of the first k users
TeamUpTo(s, t, k) ==
  [members |-> Cardinality(Before(InTeam(s, t), k)),
   active |-> Cardinality(Before(ActiveIn(s, t), k)),
   leaders |-> Cardinality(Before(LeadersIn(s, t), k)),
   completed |-> Cardinality(Layers(Projects(s, t), k))]

\* One user more.
LEMMA TeamOneMore ==
  ASSUME NEW S, NEW s \in Seq(S), \A i \in 1..Len(s) : s[i].team.completed \in Nat, NEW t,
         NEW k \in 0..(Len(s) - 1), NEW q, q = k + 1
  PROVE  TeamUpTo(s, t, q) = IF t = s[q].team.name THEN WithUser(TeamUpTo(s, t, k), s[q]) ELSE TeamUpTo(s, t, k)
<1> DEFINE n == Len(s)
           name == s[q].team.name
           a == Cardinality(Before(InTeam(s, t), k))
           b == Cardinality(Before(ActiveIn(s, t), k))
           c == Cardinality(Before(LeadersIn(s, t), k))
           d == Cardinality(Layers(Projects(s, t), k))
<1>1. n \in Nat /\ k \in Nat /\ q \in 1..n
  OBVIOUS
<1>2. /\ Cardinality(Before(InTeam(s, t), q)) = a + (IF q \in InTeam(s, t) THEN 1 ELSE 0)
      /\ Cardinality(Before(ActiveIn(s, t), q)) = b + (IF q \in ActiveIn(s, t) THEN 1 ELSE 0)
      /\ Cardinality(Before(LeadersIn(s, t), q)) = c + (IF q \in LeadersIn(s, t) THEN 1 ELSE 0)
      /\ a \in Nat /\ b \in Nat /\ c \in Nat
  BY <1>1, CountOneMore
<1> HIDE DEF n
<1>3. /\ \A i \in 1..n : Projects(s, t)[i] = IF s[i].team.name = t THEN 1..s[i].team.completed ELSE {}
      /\ \A i \in 1..n : s[i].team.completed \in Nat
  BY DEF Projects, n
<1>4. \A i \in 1..n : IsFiniteSet(Projects(s, t)[i])
  <2> SUFFICES ASSUME NEW i \in 1..n PROVE IsFiniteSet(Projects(s, t)[i])
    OBVIOUS
  <2> DEFINE e == s[i].team.completed
  <2>1. e \in Nat
    BY <1>3
  <2> HIDE DEF e
  <2>2. IsFiniteSet(1..e) /\ IsFiniteSet({})
    BY <2>1, FS_Interval, FS_EmptySet
  <2>3. Projects(s, t)[i] = IF s[i].team.name = t THEN 1..e ELSE {}
    BY <1>3 DEF e
  <2> QED
    BY <2>2, <2>3
<1>5. Cardinality(Layers(Projects(s, t), q)) = d + Cardinality(Projects(s, t)[q]) /\ d \in Nat
  <2>1. k \in 0..(n - 1)
    BY DEF n
  <2> QED
    BY <1>1, <1>4, <2>1, LayerOnTop
<1>6. Cardinality(Projects(s, t)[q]) = IF name = t THEN s[q].team.completed ELSE 0
  <2> DEFINE e == s[q].team.completed
  <2>1. e \in Nat
    BY <1>1, <1>3
  <2> HIDE DEF e
  <2>2. Cardinality(1..e) = e /\ Cardinality({}) = 0
    BY <2>1, FS_Interval, FS_EmptySet
  <2>3. Projects(s, t)[q] = IF name = t THEN 1..e ELSE {}
    BY <1>1, <1>3 DEF e
  <2> QED
    BY <2>2, <2>3 DEF e
<1>7. /\ q \in InTeam(s, t) <=> name = t
      /\ q \in ActiveIn(s, t) <=> name = t /\ s[q].active
      /\ q \in LeadersIn(s, t) <=> name = t /\ s[q].team.leader
  BY <1>1 DEF InTeam, ActiveIn, LeadersIn, n
<1>8. TeamUpTo(s, t, k) = [members |-> a, active |-> b, leaders |-> c, completed |-> d]
  BY Zenon DEF TeamUpTo
<1> HIDE DEF a, b, c, d
<1>9. CASE t = name
  <2>1. TeamUpTo(s, t, q) = [members |-> a + 1,
                             active |-> b + (IF s[q].active THEN 1 ELSE 0),
                             leaders |-> c + (IF s[q].team.leader THEN 1 ELSE 0),
                             completed |-> d + s[q].team.completed]
    BY <1>2, <1>5, <1>6, <1>7, <1>9 DEF TeamUpTo
  <2> QED
    BY <1>8, <1>9, <2>1 DEF WithUser
<1>10. CASE t # name
  <2>1. /\ Cardinality(Before(InTeam(s, t), q)) = a
        /\ Cardinality(Before(ActiveIn(s, t), q)) = b
        /\ Cardinality(Before(LeadersIn(s, t), q)) = c
        /\ Cardinality(Layers(Projects(s, t), q)) = d
    BY <1>2, <1>5, <1>6, <1>7, <1>10
  <2>2. TeamUpTo(s, t, q) = [members |-> a, active |-> b, leaders |-> c, completed |-> d]
    BY <2>1 DEF TeamUpTo
  <2> QED
    BY <1>8, <1>10, <2>2
<1> QED
  BY <1>9, <1>10

\* The map has the teams of the users, and counts them right.
LEMMA TeamsCounted ==
  ASSUME NEW S, NEW s \in Seq(S), \A i \in 1..Len(s) : s[i].team.completed \in Nat
  PROVE  /\ DOMAIN Teams(s) = {s[i].team.name : i \in 1..Len(s)}
         /\ \A t \in DOMAIN Teams(s) : Teams(s)[t] = TeamUpTo(s, t, Len(s))
<1> DEFINE n == Len(s)
           K == {s[i].team.name : i \in 1..n}
           X == TeamMaps(K)
           G == [k \in 1..n |-> [m \in X |-> WithMember(m, s[k])]]
<1>1. n \in Nat /\ DOMAIN s = 1..n /\ \A i \in 1..n : s[i].team.name \in K /\ s[i].team.completed \in Nat
  OBVIOUS
<1>2. NoTeams \in X /\ DOMAIN NoTeams = {} /\ \A t : TeamIn(NoTeams, t) = NoTeam
  <2>1. NoTeams \in [{} -> TeamCounts] /\ {} \in SUBSET K /\ DOMAIN NoTeams = {}
    BY DEF NoTeams
  <2> HIDE DEF K
  <2> QED
    BY <2>1 DEF TeamMaps, TeamIn
<1>k. K = {s[i].team.name : i \in 1..n}
  OBVIOUS
<1> HIDE DEF n, K
<1>3. \A k \in 1..n : \A m \in X : WithMember(m, s[k]) \in X
  BY <1>1, MemberAdded
<1>4. G \in [1..n -> [X -> X]] /\ \A k \in 1..n : \A m \in X : G[k][m] = WithMember(m, s[k])
  <2> HIDE DEF X
  <2> QED
    BY <1>3
<1>5. PICK h \in Walks(n, X, NoTeams, G) : Teams(s) = h[n]
  <2> HIDE DEF X, G
  <2> QED
    BY <1>1, <1>2, <1>4, TeamsSteps
<1>6. /\ h \in [0..n -> X] /\ h[0] = NoTeams
      /\ \A k \in 1..n : h[k] = WithMember(h[k - 1], s[k])
  <2> HIDE DEF X, G
  <2>1. h \in [0..n -> X] /\ h[0] = NoTeams /\ \A k \in 1..n : h[k] = G[k][h[k - 1]]
    BY <1>5 DEF Walks
  <2>2. \A k \in 1..n : k - 1 \in 0..n
    BY <1>1
  <2>3. \A k \in 1..n : h[k - 1] \in X
    BY <2>1, <2>2
  <2> QED
    BY <1>4, <2>1, <2>3
<1> HIDE DEF G
<1> DEFINE U == {k \in 0..n : /\ DOMAIN h[k] = {s[i].team.name : i \in 1..k}
                              /\ \A t \in K : TeamIn(h[k], t) = TeamUpTo(s, t, k)}
<1>7. 0 \in U
  <2>1. \A t : TeamUpTo(s, t, 0) = NoTeam
    <3> SUFFICES ASSUME NEW t PROVE TeamUpTo(s, t, 0) = NoTeam
      OBVIOUS
    <3>1. InTeam(s, t) \in SUBSET (1..n) /\ ActiveIn(s, t) \in SUBSET (1..n) /\ LeadersIn(s, t) \in SUBSET (1..n)
      BY DEF InTeam, ActiveIn, LeadersIn, n
    <3>2. /\ Cardinality(Before(InTeam(s, t), 0)) = 0
          /\ Cardinality(Before(ActiveIn(s, t), 0)) = 0
          /\ Cardinality(Before(LeadersIn(s, t), 0)) = 0
      BY <1>1, <3>1, CountEnds
    <3>3. Cardinality(Layers(Projects(s, t), 0)) = 0
      BY NoLayer
    <3> QED
      BY <3>2, <3>3 DEF TeamUpTo, NoTeam
  <2>2. DOMAIN h[0] = {s[i].team.name : i \in 1..0}
    BY <1>2, <1>6
  <2>3. 0 \in 0..n
    BY <1>1
  <2> QED
    BY <1>2, <1>6, <2>1, <2>2, <2>3
<1>8. ASSUME NEW k \in 0..(n - 1), k \in U PROVE k + 1 \in U
  <2> DEFINE q == k + 1
             u == s[q]
             m == h[k]
  <2>1. /\ q \in 1..n /\ q - 1 = k /\ q \in 0..n /\ k \in 0..n /\ q = k + 1 /\ 1..q = 1..k \union {q}
        /\ k \in 0..(Len(s) - 1)
    BY <1>1 DEF n
  <2> HIDE DEF q
  <2>2. h[q] = WithMember(h[k], u) /\ h[k] \in X /\ u.team.name \in K /\ u.team.completed \in Nat
    BY <1>1, <1>6, <2>1
  <2>3. /\ DOMAIN h[q] = DOMAIN h[k] \union {u.team.name}
        /\ \A t \in K : TeamIn(h[q], t) =
                          IF t = u.team.name THEN WithUser(TeamIn(h[k], t), u) ELSE TeamIn(h[k], t)
    <3>1. m \in TeamMaps(K) /\ u.team.name \in K /\ u.team.completed \in Nat
      BY <2>2
    <3> HIDE DEF m, u
    <3>2. HasOneMore(WithMember(m, u), m, u, K)
      BY <3>1, MemberAdded
    <3>3. h[q] = WithMember(m, u)
      BY <2>2, Zenon DEF m
    <3> QED
      BY <3>2, <3>3, Zenon DEF HasOneMore, m
  <2>4. DOMAIN h[q] = {s[i].team.name : i \in 1..q}
    BY <1>8, <2>1, <2>3
  <2>5. ASSUME NEW t \in K PROVE TeamIn(h[q], t) = TeamUpTo(s, t, q)
    <3>1. TeamUpTo(s, t, q) = IF t = s[q].team.name THEN WithUser(TeamUpTo(s, t, k), s[q]) ELSE TeamUpTo(s, t, k)
      BY <2>1, TeamOneMore
    <3>2. TeamIn(h[k], t) = TeamUpTo(s, t, k)
      BY <1>8
    <3> QED
      BY <2>3, <3>1, <3>2
  <2> QED
    BY <2>1, <2>4, <2>5 DEF q
<1>9. n \in U
  <2>1. \A k \in 0..n : k \in U
    <3> HIDE DEF U
    <3> QED
      BY <1>1, <1>7, <1>8, UpTo, Zenon
  <2> QED
    BY <1>1, <2>1
<1>10. DOMAIN h[n] = K /\ \A t \in K : h[n][t] = TeamUpTo(s, t, n)
  <2>1. DOMAIN h[n] = K /\ \A t \in K : TeamIn(h[n], t) = TeamUpTo(s, t, n)
    BY <1>9, <1>k
  <2> QED
    BY <2>1 DEF TeamIn
<1> QED
  BY <1>5, <1>10, <1>k DEF n

\* Each team is reported once, with what is right of it.
LEMMA TeamsExact ==
  ASSUME NEW S, NEW s \in Seq(S), \A i \in 1..Len(s) : s[i].team.completed \in Nat
  PROVE  TeamsRight(TeamInsights(s), s)
<1> DEFINE n == Len(s)
           m == Teams(s)
           K == {s[i].team.name : i \in 1..n}
           R == TeamInsights(s)
           f == [t \in K |-> Insight(t, m[t])]
           names == {r.team : r \in R}
<1>1. n \in Nat
  OBVIOUS
<1>2. DOMAIN m = K /\ \A t \in K : m[t] = TeamUpTo(s, t, n)
  <2> HIDE DEF m
  <2> QED
    BY TeamsCounted DEF m
<1>3. R = {Insight(t, m[t]) : t \in K}
  BY <1>2, Zenon DEF TeamInsights
<1>4. IsFiniteSet(K)
  <2> DEFINE g == [i \in 1..n |-> s[i].team.name]
  <2>1. g \in [1..n -> K] /\ \A c \in K : \E i \in 1..n : g[i] = c
    OBVIOUS
  <2> HIDE DEF g, K, n
  <2>2. g \in Surjection(1..n, K)
    BY <2>1, Zenon DEF Surjection
  <2>3. IsFiniteSet(1..n)
    BY <1>1, FS_Interval
  <2> QED
    BY <2>2, <2>3, FS_Surjection, Zenon
<1>k. K = {s[i].team.name : i \in 1..Len(s)}
  OBVIOUS
<1> HIDE DEF K, m, R
<1>5. \A t \in K : f[t].team = t /\ f[t] = Insight(t, m[t])
  BY DEF Insight
<1>6. f \in [K -> R] /\ \A r \in R : \E t \in K : f[t] = r
  BY <1>3
<1> HIDE DEF f
<1>7. names = K
  BY <1>5, <1>6
<1>8. Cardinality(R) = Cardinality(K)
  <2>a. \A t, u \in K : f[t] = f[u] => t = u
    BY <1>5
  <2>1. f \in Bijection(K, R)
    BY <1>6, <2>a, Zenon DEF Bijection, Injection, Surjection, IsInjective
  <2>2. ExistsBijection(K, R)
    BY <2>1, Zenon DEF ExistsBijection
  <2> QED
    BY <1>4, <2>2, FS_Bijection, Zenon
<1> DEFINE Members(t) == Cardinality({i \in 1..Len(s) : s[i].team.name = t})
           Active(t) == Cardinality({i \in 1..Len(s) : s[i].team.name = t /\ s[i].active})
           Leaders(t) == Cardinality({i \in 1..Len(s) : s[i].team.name = t /\ s[i].team.leader})
           ProjectsIn(t) == UNION {{i} \X (1..s[i].team.completed) :
                                    i \in {i \in 1..Len(s) : s[i].team.name = t}}
<1>9. ASSUME NEW t \in K
      PROVE  /\ m[t].members = Members(t) /\ m[t].active = Active(t) /\ m[t].leaders = Leaders(t)
             /\ m[t].completed = Cardinality(ProjectsIn(t))
  <2>1. InTeam(s, t) \in SUBSET (1..n) /\ ActiveIn(s, t) \in SUBSET (1..n) /\ LeadersIn(s, t) \in SUBSET (1..n)
    BY DEF InTeam, ActiveIn, LeadersIn
  <2> HIDE DEF n
  <2>2. /\ Before(InTeam(s, t), n) = InTeam(s, t)
        /\ Before(ActiveIn(s, t), n) = ActiveIn(s, t)
        /\ Before(LeadersIn(s, t), n) = LeadersIn(s, t)
    BY <1>1, <2>1, CountEnds
  <2>3. Layers(Projects(s, t), n) = ProjectsIn(t)
    <3> DEFINE P == Projects(s, t)
               B(i) == 1..s[i].team.completed
               I == {i \in 1..n : s[i].team.name = t}
    <3>1. \A i \in 1..n : P[i] = IF i \in I THEN B(i) ELSE {}
      BY DEF Projects, n
    <3>2. I \subseteq 1..n
      OBVIOUS
    <3>3. ProjectsIn(t) = UNION {{i} \X B(i) : i \in I}
      BY Zenon DEF n
    <3> HIDE DEF P, B, I
    <3>4. \A i \in 1..n : i \notin I => {i} \X P[i] = {}
      BY <3>1
    <3>5. \A i \in I : {i} \X P[i] = {i} \X B(i)
      BY <3>1, <3>2
    <3>6. \A x : (\E i \in 1..n : x \in {i} \X P[i]) <=> \E i \in I : x \in {i} \X B(i)
      BY <3>2, <3>4, <3>5, Zenon
    <3>7. Layers(P, n) = UNION {{i} \X B(i) : i \in I}
      BY <3>6, Zenon DEF Layers
    <3> QED
      BY <3>3, <3>7, Zenon DEF P
  <2>4. m[t] = [members |-> Cardinality(InTeam(s, t)), active |-> Cardinality(ActiveIn(s, t)),
                leaders |-> Cardinality(LeadersIn(s, t)), completed |-> Cardinality(ProjectsIn(t))]
    BY <1>2, <2>2, <2>3, Zenon DEF TeamUpTo
  <2> HIDE DEF ProjectsIn
  <2>5. /\ m[t].members = Cardinality(InTeam(s, t)) /\ m[t].active = Cardinality(ActiveIn(s, t))
        /\ m[t].leaders = Cardinality(LeadersIn(s, t)) /\ m[t].completed = Cardinality(ProjectsIn(t))
    BY <2>4
  <2> QED
    BY <2>5, Zenon DEF InTeam, ActiveIn, LeadersIn
<1> HIDE DEF Members, Active, Leaders, ProjectsIn
<1>10. ASSUME NEW r \in R
       PROVE  /\ r.total_members = Members(r.team)
              /\ r.active_percentage = <<Active(r.team) * 100, r.total_members>>
              /\ r.leaders = Leaders(r.team)
              /\ r.completed_projects = Cardinality(ProjectsIn(r.team))
  <2>1. PICK t \in K : r = Insight(t, m[t])
    BY <1>3
  <2>2. /\ r.team = t /\ r.total_members = m[t].members
        /\ r.active_percentage = <<m[t].active * 100, m[t].members>>
        /\ r.leaders = m[t].leaders /\ r.completed_projects = m[t].completed
    BY <2>1 DEF Insight
  <2> QED
    BY <1>9, <2>2, Zenon
<1>11. Cardinality(names) = Cardinality(R)
  BY <1>7, <1>8, Zenon
<1>12. \A t : Members(t) = Cardinality({i \in 1..Len(s) : s[i].team.name = t /\ TRUE})
  BY DEF Members
<1> QED
  BY <1>7, <1>10, <1>11, <1>12, <1>k, Zenon DEF TeamsRight, Places, Active, Leaders, ProjectsIn, R

-----------------------------------------------------------------------------
(* Logins                                                                  *)

\* the places of a user's logins of a day
LoginsOn(logs, d) == {j \in 1..Len(logs) : logs[j].action = "login" /\ logs[j].date = d}

\* what is a login
IsLogin(log) == log.action = "login"

\* the map r counts the logins of these logs on top of m
CountsLogins(r, m, logs, K) == \A d \in K : Count(r, d) = Count(m, d) + Cardinality(LoginsOn(logs, d))

\* The logins of one user are added to those counted before.
LEMMA UserLoginsCounted ==
  ASSUME NEW K, NEW m \in Maps(K), NEW u, NEW L, u.logs \in Seq(L),
         \A j \in 1..Len(u.logs) : u.logs[j].date \in K
  PROVE  LoginsOf(m, u) \in Maps(K) /\ CountsLogins(LoginsOf(m, u), m, u.logs, K)
<1> DEFINE logs == u.logs
           n == Len(logs)
           X == Maps(K)
           step(k, c) == IF IsLogin(logs[k]) THEN Incremented(c, logs[k].date) ELSE c
           G == [k \in 1..n |-> [c \in X |-> step(k, c)]]
<1>1. n \in Nat /\ DOMAIN logs = 1..n /\ \A k \in 1..n : logs[k].date \in K
  OBVIOUS
<1>n. DOMAIN u.logs = 1..n
  OBVIOUS
<1>2. \A k \in 1..n : \A c \in X :
        step(k, c) = IF u.logs[k].action = "login" THEN Incremented(c, u.logs[k].date) ELSE c
  BY Zenon DEF IsLogin
<1>a. \A k \in 1..n : \A d : k \in LoginsOn(logs, d) <=> IsLogin(logs[k]) /\ logs[k].date = d
  BY Zenon DEF LoginsOn, IsLogin
<1>b. \A d : LoginsOn(logs, d) \in SUBSET (1..n)
  BY DEF LoginsOn
<1> HIDE DEF logs, n
<1>3. \A k \in 1..n : \A c \in X : step(k, c) \in X
  BY <1>1, IncrementedOnce
<1>4. G \in [1..n -> [X -> X]] /\ \A k \in 1..n : \A c \in X : G[k][c] = step(k, c)
  <2> HIDE DEF X, step
  <2> QED
    BY <1>3
<1>5. PICK h \in Walks(n, X, m, G) : LoginsOf(m, u) = h[n]
  <2>1. \A k \in 1..n : \A c \in X :
          G[k][c] = IF u.logs[k].action = "login" THEN Incremented(c, u.logs[k].date) ELSE c
    <3> HIDE DEF X, G, step
    <3> QED
      BY <1>2, <1>4, Zenon
  <2> HIDE DEF G
  <2> QED
    BY <1>1, <1>4, <1>n, <2>1, LoginsOfSteps
<1>6. /\ h \in [0..n -> X] /\ h[0] = m
      /\ \A k \in 1..n : h[k] = step(k, h[k - 1])
  <2> HIDE DEF X, G, step
  <2>1. h \in [0..n -> X] /\ h[0] = m /\ \A k \in 1..n : h[k] = G[k][h[k - 1]]
    BY <1>5 DEF Walks
  <2>2. \A k \in 1..n : k - 1 \in 0..n
    BY <1>1
  <2>3. \A k \in 1..n : h[k - 1] \in X
    BY <2>1, <2>2
  <2> QED
    BY <1>4, <2>1, <2>3
<1> HIDE DEF G
<1> DEFINE U == {k \in 0..n : \A d \in K : Count(h[k], d) = Count(m, d) + Cardinality(Before(LoginsOn(logs, d), k))}
<1>c. \A d \in K : Count(m, d) \in Nat
  BY EntriesOfMap
<1>7. 0 \in U
  <2>1. \A d : Cardinality(Before(LoginsOn(logs, d), 0)) = 0
    BY <1>1, <1>b, CountEnds
  <2>2. 0 \in 0..n
    BY <1>1
  <2> QED
    BY <1>6, <1>c, <2>1, <2>2
<1>8. ASSUME NEW k \in 0..(n - 1), k \in U PROVE k + 1 \in U
  <2> DEFINE q == k + 1
  <2>1. q \in 1..n /\ q - 1 = k /\ q \in 0..n /\ k \in 0..n /\ k \in Nat /\ q = k + 1
    BY <1>1
  <2> HIDE DEF q
  <2>2. h[q] = step(q, h[k]) /\ h[k] \in X /\ logs[q].date \in K
    BY <1>1, <1>6, <2>1
  <2>3. ASSUME NEW d \in K PROVE Count(h[q], d) = Count(m, d) + Cardinality(Before(LoginsOn(logs, d), q))
    <3>1. Count(h[q], d) = Count(h[k], d) + (IF IsLogin(logs[q]) /\ d = logs[q].date THEN 1 ELSE 0)
      <4>1. CASE IsLogin(logs[q])
        <5>1. Count(Incremented(h[k], logs[q].date), d) =
                Count(h[k], d) + (IF d = logs[q].date THEN 1 ELSE 0)
          BY <2>2, IncrementedOnce
        <5> QED
          BY <2>2, <4>1, <5>1
      <4>2. CASE ~IsLogin(logs[q])
        <5>1. Count(h[k], d) \in Nat
          BY <2>2, EntriesOfMap
        <5> QED
          BY <2>2, <4>2, <5>1
      <4> QED
        BY <4>1, <4>2
    <3>2. /\ Cardinality(Before(LoginsOn(logs, d), q)) =
               Cardinality(Before(LoginsOn(logs, d), k)) + (IF q \in LoginsOn(logs, d) THEN 1 ELSE 0)
          /\ Cardinality(Before(LoginsOn(logs, d), k)) \in Nat
      BY <2>1, CountOneMore
    <3>3. q \in LoginsOn(logs, d) <=> IsLogin(logs[q]) /\ d = logs[q].date
      BY <1>a, <2>1
    <3>4. Count(h[k], d) = Count(m, d) + Cardinality(Before(LoginsOn(logs, d), k))
      BY <1>8
    <3> HIDE DEF step
    <3> QED
      BY <1>c, <3>1, <3>2, <3>3, <3>4
  <2> QED
    BY <2>1, <2>3 DEF q
<1>9. n \in U
  <2>1. \A k \in 0..n : k \in U
    <3> HIDE DEF U
    <3> QED
      BY <1>1, <1>7, <1>8, UpTo, Zenon
  <2> QED
    BY <1>1, <2>1
<1>10. \A d \in K : Count(h[n], d) = Count(m, d) + Cardinality(LoginsOn(logs, d))
  <2>1. \A d : Before(LoginsOn(logs, d), n) = LoginsOn(logs, d)
    BY <1>1, <1>b, CountEnds
  <2> QED
    BY <1>9, <2>1
<1>11. h[n] \in X
  BY <1>1, <1>6
<1> QED
  BY <1>5, <1>10, <1>11 DEF CountsLogins, logs

\* the logins of a day, user by user
DayOf(s, d) == [i \in 1..Len(s) |-> LoginsOn(s[i].logs, d)]

\* the logs of the users are sequences, and their days are in K
LogsIn(s, K) ==
  \A i \in 1..Len(s) : IsSequence(s[i].logs) /\ \A j \in 1..Len(s[i].logs) : s[i].logs[j].date \in K

\* The logins of all users are counted.
LEMMA LoginsCounted ==
  ASSUME NEW S, NEW s \in Seq(S), NEW K, LogsIn(s, K)
  PROVE  /\ LoginsByDay(s) \in Maps(K)
         /\ \A d \in K : Count(LoginsByDay(s), d) = Cardinality(Layers(DayOf(s, d), Len(s)))
<1> DEFINE n == Len(s)
           X == Maps(K)
           G == [k \in 1..n |-> [m \in X |-> LoginsOf(m, s[k])]]
<1>1. n \in Nat /\ DOMAIN s = 1..n /\ NoCounts \in X
  BY NothingCounted
<1>2. ASSUME NEW k \in 1..n, NEW m \in X
      PROVE  LoginsOf(m, s[k]) \in X /\ CountsLogins(LoginsOf(m, s[k]), m, s[k].logs, K)
  <2> DEFINE u == s[k]
  <2>1. IsSequence(u.logs) /\ \A j \in 1..Len(u.logs) : u.logs[j].date \in K
    BY Zenon DEF LogsIn
  <2> HIDE DEF u
  <2>2. u.logs \in Seq(ToSet(u.logs))
    BY <2>1, Zenon DEF IsSequence
  <2> DEFINE L == ToSet(u.logs)
  <2>3. u.logs \in Seq(L)
    BY <2>2
  <2> HIDE DEF L
  <2>4. LoginsOf(m, u) \in X /\ CountsLogins(LoginsOf(m, u), m, u.logs, K)
    BY <2>1, <2>3, UserLoginsCounted
  <2> QED
    BY <2>4 DEF u
<1> HIDE DEF n
<1>4. G \in [1..n -> [X -> X]] /\ \A k \in 1..n : \A m \in X : G[k][m] = LoginsOf(m, s[k])
  <2> HIDE DEF X
  <2> QED
    BY <1>2
<1>5. PICK h \in Walks(n, X, NoCounts, G) : LoginsByDay(s) = h[n]
  <2> HIDE DEF X, G
  <2> QED
    BY <1>1, <1>4, LoginsByDaySteps
<1>6. /\ h \in [0..n -> X] /\ h[0] = NoCounts
      /\ \A k \in 1..n : h[k] = LoginsOf(h[k - 1], s[k])
  <2> HIDE DEF X, G
  <2>1. h \in [0..n -> X] /\ h[0] = NoCounts /\ \A k \in 1..n : h[k] = G[k][h[k - 1]]
    BY <1>5 DEF Walks
  <2>2. \A k \in 1..n : k - 1 \in 0..n
    BY <1>1
  <2>3. \A k \in 1..n : h[k - 1] \in X
    BY <2>1, <2>2
  <2> QED
    BY <1>4, <2>1, <2>3
<1> HIDE DEF G
<1> DEFINE U == {k \in 0..n : \A d \in K : Count(h[k], d) = Cardinality(Layers(DayOf(s, d), k))}
<1>7. 0 \in U
  <2>1. 0 \in 0..n
    BY <1>1
  <2> QED
    BY <1>6, <2>1, NoLayer, NothingCounted
<1>8. \A d : \A i \in 1..n : DayOf(s, d)[i] = LoginsOn(s[i].logs, d) /\ IsFiniteSet(DayOf(s, d)[i])
  <2> SUFFICES ASSUME NEW d, NEW i \in 1..n
               PROVE  DayOf(s, d)[i] = LoginsOn(s[i].logs, d) /\ IsFiniteSet(DayOf(s, d)[i])
    OBVIOUS
  <2> DEFINE logs == s[i].logs
  <2>1. logs \in Seq(ToSet(logs))
    BY Zenon DEF LogsIn, IsSequence, n
  <2>2. DayOf(s, d)[i] = LoginsOn(logs, d)
    BY DEF DayOf, n
  <2> DEFINE L == ToSet(logs)
  <2>a. logs \in Seq(L)
    BY <2>1
  <2> HIDE DEF logs, L
  <2>b. Len(logs) \in Nat
    BY <2>a
  <2> DEFINE c == Len(logs)
  <2>3. LoginsOn(logs, d) \in SUBSET (1..c)
    BY DEF LoginsOn
  <2>4. c \in Nat
    BY <2>b
  <2> HIDE DEF c
  <2>5. IsFiniteSet(1..c)
    BY <2>4, FS_Interval
  <2>6. IsFiniteSet(LoginsOn(logs, d))
    BY <2>3, <2>5, FS_Subset
  <2> QED
    BY <2>2, <2>6 DEF logs
<1>9. ASSUME NEW k \in 0..(n - 1), k \in U PROVE k + 1 \in U
  <2> DEFINE q == k + 1
  <2>1. q \in 1..n /\ q - 1 = k /\ q \in 0..n /\ k \in 0..n /\ k \in Nat /\ q = k + 1
    BY <1>1
  <2> HIDE DEF q
  <2>2. h[q] = LoginsOf(h[k], s[q]) /\ h[k] \in X
    BY <1>6, <2>1
  <2>3. ASSUME NEW d \in K PROVE Count(h[q], d) = Cardinality(Layers(DayOf(s, d), q))
    <3>1. Count(h[q], d) = Count(h[k], d) + Cardinality(LoginsOn(s[q].logs, d))
      <4>1. CountsLogins(LoginsOf(h[k], s[q]), h[k], s[q].logs, K)
        BY <1>2, <2>1, <2>2 DEF n
      <4> QED
        BY <2>2, <4>1, Zenon DEF CountsLogins
    <3>2. Cardinality(Layers(DayOf(s, d), q)) =
            Cardinality(Layers(DayOf(s, d), k)) + Cardinality(DayOf(s, d)[q])
      <4> DEFINE B == DayOf(s, d)
      <4>1. \A i \in 1..n : IsFiniteSet(B[i])
        BY <1>8
      <4> HIDE DEF B
      <4>2. Cardinality(Layers(B, q)) = Cardinality(Layers(B, k)) + Cardinality(B[q])
        BY <1>1, <2>1, <4>1, LayerOnTop
      <4> QED
        BY <4>2 DEF B
    <3>3. DayOf(s, d)[q] = LoginsOn(s[q].logs, d)
      BY <1>8, <2>1
    <3>4. Count(h[k], d) = Cardinality(Layers(DayOf(s, d), k))
      BY <1>9
    <3> QED
      BY <3>1, <3>2, <3>3, <3>4, Zenon
  <2> QED
    BY <2>1, <2>3 DEF q
<1>10. n \in U
  <2>1. \A k \in 0..n : k \in U
    <3> HIDE DEF U
    <3> QED
      BY <1>1, <1>7, <1>9, UpTo, Zenon
  <2> QED
    BY <1>1, <2>1
<1>11. h[n] \in X
  BY <1>1, <1>6
<1> QED
  BY <1>5, <1>10, <1>11 DEF n

\* Each day with logins is reported with all of them.
LEMMA LoginsExact ==
  ASSUME NEW S, NEW s \in Seq(S), \A i \in 1..Len(s) : IsSequence(s[i].logs)
  PROVE  LoginsRight(ActiveUsers(s), s)
<1> DEFINE n == Len(s)
           days == UNION {{s[i].logs[j].date : j \in 1..Len(s[i].logs)} : i \in 1..Len(s)}
           m == LoginsByDay(s)
           Logins(d) == Cardinality(UNION {{i} \X {j \in 1..Len(s[i].logs) : /\ s[i].logs[j].action = "login"
                                                                           /\ s[i].logs[j].date = d} :
                                             i \in 1..Len(s)})
           E == {[key |-> d, total |-> Logins(d)] : d \in days}
<1>1. LogsIn(s, days)
  <2>1. ASSUME NEW i \in 1..n, NEW j \in 1..Len(s[i].logs) PROVE s[i].logs[j].date \in days
    <3> DEFINE D == {s[i].logs[k].date : k \in 1..Len(s[i].logs)}
               F == {{s[a].logs[k].date : k \in 1..Len(s[a].logs)} : a \in 1..Len(s)}
    <3>1. D \in F
      BY Zenon
    <3>2. s[i].logs[j].date \in D
      BY Zenon
    <3>3. days = UNION F
      BY Zenon
    <3> HIDE DEF D, F, days
    <3> QED
      BY <3>1, <3>2, <3>3, Zenon
  <2> HIDE DEF days
  <2> QED
    BY <2>1, Zenon DEF LogsIn
<1>2. \A d : Logins(d) = Cardinality(Layers(DayOf(s, d), n))
  <2> SUFFICES ASSUME NEW d PROVE Logins(d) = Cardinality(Layers(DayOf(s, d), n))
    OBVIOUS
  <2>1. \A i \in 1..n : DayOf(s, d)[i] = LoginsOn(s[i].logs, d)
    BY DEF DayOf
  <2>2. Layers(DayOf(s, d), n) = UNION {{i} \X LoginsOn(s[i].logs, d) : i \in 1..n}
    BY <2>1, Zenon DEF Layers
  <2> QED
    BY <2>2, Zenon DEF LoginsOn
<1> HIDE DEF days, Logins
<1>3. m \in Maps(days) /\ \A d \in days : Count(m, d) = Logins(d)
  BY <1>1, <1>2, LoginsCounted
<1> HIDE DEF m
<1>4. /\ \A d \in days : d \in DOMAIN m <=> Logins(d) > 0
      /\ DOMAIN m \in SUBSET days
      /\ Entries(m) = {[key |-> d, total |-> Count(m, d)] : d \in DOMAIN m}
  <2>1. /\ \A d \in days : Count(m, d) \in Nat /\ (d \in DOMAIN m <=> Count(m, d) > 0)
        /\ DOMAIN m \in SUBSET days
        /\ Entries(m) = {[key |-> d, total |-> Count(m, d)] : d \in DOMAIN m}
    BY <1>3, EntriesOfMap, Zenon
  <2> QED
    BY <1>3, <2>1
<1>5. Entries(m) = {e \in E : e.total > 0}
  BY <1>3, <1>4
<1>6. ActiveUsers(s) = Entries(m)
  BY Zenon DEF ActiveUsers, m
<1> QED
  BY <1>5, <1>6, Zenon DEF LoginsRight, days, Logins

-----------------------------------------------------------------------------
(* What the reports are about                                              *)

\* Some places of a text have an order: for each number of them up to all,
\* there is one up to which there are so many.
LEMMA PlacesInOrder ==
  ASSUME NEW n \in Nat, NEW I \in SUBSET (1..n), NEW k \in 1..Cardinality(I)
  PROVE  \E i \in I : Cardinality({j \in I : j <= i}) = k
<1> DEFINE c == Cardinality(I)
           Up(i) == {j \in I : j <= i}
           f == [i \in I |-> Cardinality(Up(i))]
<1>1. IsFiniteSet(I)
  <2>1. IsFiniteSet(1..n)
    BY FS_Interval
  <2> QED
    BY <2>1, FS_Subset
<1>2. c \in Nat
  BY <1>1, FS_CardinalityType
<1>3. \A i \in I : IsFiniteSet(Up(i)) /\ Cardinality(Up(i)) <= c /\ i \in Up(i) /\ Up(i) \subseteq I
  BY <1>1, FS_Subset
<1>4. \A i, j \in I : i < j => Up(i) \subseteq Up(j) /\ Up(i) # Up(j)
  <2> SUFFICES ASSUME NEW i \in I, NEW j \in I, i < j PROVE Up(i) \subseteq Up(j) /\ Up(i) # Up(j)
    OBVIOUS
  <2>0. i \in Nat /\ j \in Nat /\ \A a \in I : a \in Nat
    OBVIOUS
  <2>a. j <= j /\ ~(j <= i) /\ \A a \in I : a <= i => a <= j
    BY <2>0
  <2>1. j \in Up(j) /\ j \notin Up(i)
    BY <2>a, Zenon
  <2>2. \A a \in Up(i) : a \in Up(j)
    BY <2>a, Zenon
  <2> HIDE DEF Up
  <2> QED
    BY <2>1, <2>2, Zenon
<1>a. \A i, j \in I : i # j => i < j \/ j < i
  OBVIOUS
<1> HIDE DEF Up
<1>5. \A i \in I : Cardinality(Up(i)) \in 1..c
  <2> SUFFICES ASSUME NEW i \in I PROVE Cardinality(Up(i)) \in 1..c
    OBVIOUS
  <2>1. Cardinality(Up(i)) \in Nat /\ Cardinality(Up(i)) # 0
    BY <1>3, FS_CardinalityType, FS_EmptySet
  <2> QED
    BY <1>2, <1>3, <2>1
<1>6. \A i, j \in I : i < j => Cardinality(Up(i)) # Cardinality(Up(j))
  <2> SUFFICES ASSUME NEW i \in I, NEW j \in I, i < j PROVE Cardinality(Up(i)) # Cardinality(Up(j))
    OBVIOUS
  <2>1. Up(i) \subseteq Up(j) /\ Up(i) # Up(j) /\ IsFiniteSet(Up(j))
    BY <1>3, <1>4
  <2> DEFINE a == Up(i)
             b == Up(j)
  <2>2. a \in SUBSET b /\ IsFiniteSet(b) /\ a # b
    BY <2>1
  <2> HIDE DEF a, b
  <2>3. Cardinality(a) # Cardinality(b)
    BY <2>2, FS_Subset
  <2> QED
    BY <2>3 DEF a, b
<1>7. f \in [I -> 1..c] /\ \A i, j \in I : f[i] = f[j] => i = j
  BY <1>5, <1>6, <1>a
<1> HIDE DEF f, c
<1>8. IsFiniteSet(1..c) /\ Cardinality(1..c) = c
  BY <1>2, FS_Interval
<1>9. f \in Injection(I, 1..c)
  BY <1>7, Zenon DEF Injection, IsInjective
<1>10. f \in Surjection(I, 1..c)
  <2>1. Cardinality(I) = Cardinality(1..c)
    BY <1>8 DEF c
  <2> QED
    BY <1>8, <1>9, <2>1, FS_Injection
<1>11. PICK i \in I : f[i] = k
  BY <1>10 DEF Surjection, c
<1> QED
  BY <1>11 DEF f, Up

\* What is read from JSON are people.
LEMMA UsersArePeople ==
  ASSUME NEW form, IsJson(UsersIn(form))
  PROVE  Users(form) \in Seq(People) /\ Len(Users(form)) = Len(UsersBeforeBad(UsersIn(form)))
<1> DEFINE text == UsersIn(form)
           bad == SelectInSeq(text, LAMBDA x : x = Bad)
           n == Len(text)
           B == {i \in 1..Len(text) : text[i].is = "user" /\ (bad = 0 \/ i < bad)}
           c == Cardinality(B)
           place(k) == CHOOSE i \in B : Cardinality({j \in B : j <= i}) = k
           read == UsersBeforeBad(text)
<1>1. text \in Seq(JsonTokens)
  BY JsonText
<1>2. n \in Nat /\ \A i \in 1..n : text[i] \in JsonTokens
  <2> HIDE DEF text
  <2> QED
    BY <1>1
<1>3. read = At(text, B)
  BY Zenon DEF UsersBeforeBad
<1>4. At(text, B) = [k \in 1..c |-> text[place(k)]]
  BY Zenon DEF At
<1>b. B \in SUBSET (1..n)
  OBVIOUS
<1>c. \A i \in B : text[i].is = "user"
  OBVIOUS
<1>d. Users(form) = [k \in 1..Len(read) |-> read[k].of]
  BY Zenon DEF Users
<1> HIDE DEF text, n, bad, B
<1>5. c \in Nat
  <2>1. IsFiniteSet(1..n)
    BY <1>2, FS_Interval
  <2>2. IsFiniteSet(B)
    BY <1>b, <2>1, FS_Subset
  <2> QED
    BY <2>2, FS_CardinalityType
<1>6. \A t \in JsonTokens : t.is = "user" => t.of \in People
  <2>1. \A p \in People : Good(p).of = p
    BY DEF Good, Token
  <2>2. Bad.is = "word" /\ Junk.is = "word" /\ Number.is = "word" /\ Word("[").is = "word" /\ Word("]").is = "word"
    BY DEF Bad, Junk, Number, Word, Token
  <2>3. "word" # "user"
    OBVIOUS
  <2> QED
    BY <2>1, <2>2, <2>3, Zenon DEF JsonTokens
<1>7. \A k \in 1..c : text[place(k)].of \in People
  <2> SUFFICES ASSUME NEW k \in 1..c PROVE text[place(k)].of \in People
    OBVIOUS
  <2>1. \E i \in B : Cardinality({j \in B : j <= i}) = k
    BY <1>2, <1>b, PlacesInOrder
  <2>2. place(k) \in B
    BY <2>1, Zenon
  <2> HIDE DEF place
  <2> QED
    BY <1>2, <1>6, <1>b, <1>c, <2>2, Zenon
<1> HIDE DEF place, c
<1>8. read = [k \in 1..c |-> text[place(k)]]
  BY <1>3, <1>4, Zenon
<1> HIDE DEF read
<1>9. Len(read) = c /\ \A k \in 1..c : read[k] = text[place(k)]
  BY <1>5, <1>8
<1>10. Users(form) = [k \in 1..c |-> read[k].of] /\ \A k \in 1..c : read[k].of \in People
  BY <1>7, <1>9, <1>d, Zenon
<1>11. Users(form) \in Seq(People) /\ Len(Users(form)) = c
  <2> DEFINE e == [k \in 1..c |-> read[k].of]
  <2>1. e \in [1..c -> People]
    BY <1>10
  <2> HIDE DEF e
  <2>2. e \in Seq(People) /\ Len(e) = c
    BY <1>5, <2>1
  <2> QED
    BY <1>10, <2>2, Zenon DEF e
<1> QED
  BY <1>9, <1>11 DEF read, text

\* The bodies that reach the store bring the users of their forms.
LEMMA BodiesRead ==
  ASSUME NEW u \in Bodies
  PROVE  Users(Forms[u]) \in Seq(People) /\ Len(Users(Forms[u])) = Size[u]
<1> DEFINE form == Forms[u]
           raw == Request(form)
<1>1. u \in Uploads /\ Outcome[u] # "unparsed"
  BY DEF Bodies
<1>2. Outcome[u] = OutcomeOf(raw) /\ Size[u] = SizeOf(raw)
  BY <1>1, OutcomeAssumption, Zenon
<1>3. Sendable(form) /\ UsersAreJson(form)
  BY <1>1, FormsSendable
<1> HIDE DEF form
<1>4. Typed(form) /\ Bounded(form)
  <2> SUFFICES ASSUME ~(Typed(form) /\ Bounded(form)) PROVE FALSE
    OBVIOUS
  <2>1. PartsOf(raw) = <<>>
    BY <1>3, PartsOfRequest, Zenon
  <2>2. OutcomeOf(raw) = "unparsed"
    BY <2>1, Zenon DEF OutcomeOf, Verdict
  <2> QED
    BY <1>1, <1>2, <2>2, Zenon
<1>5. UsersText(raw) = UsersIn(form) /\ IsJson(UsersIn(form))
  BY <1>3, <1>4, UsersFound, Zenon
<1>6. Size[u] = Len(UsersBeforeBad(UsersIn(form)))
  BY <1>2, <1>5, Zenon DEF SizeOf
<1> QED
  BY <1>5, <1>6, UsersArePeople, Zenon DEF form

\* Whoever they are about, the reports are right.
LEMMA ReportsExact ==
  ASSUME NEW s \in Seq(People)
  PROVE  /\ SuperusersRight(Superusers(s), s)
         /\ \A list \in TopCountries(s) : CountriesRight(list, s)
         /\ TeamsRight(TeamInsights(s), s)
         /\ LoginsRight(ActiveUsers(s), s)
<1>1. \A i \in 1..Len(s) : s[i] \in People
  OBVIOUS
<1>2. \A i \in 1..Len(s) : s[i].team.completed \in Nat /\ IsSequence(s[i].logs)
  BY <1>1, PeopleAssumption, Zenon
<1>3. SuperusersRight(Superusers(s), s)
  BY SuperusersExact
<1>4. \A list \in TopCountries(s) : CountriesRight(list, s)
  BY CountriesExact
<1>5. TeamsRight(TeamInsights(s), s)
  BY <1>2, TeamsExact
<1>6. LoginsRight(ActiveUsers(s), s)
  BY <1>2, LoginsExact
<1> QED
  BY <1>3, <1>4, <1>5, <1>6, Zenon

\* A report that no upload raced with, whichever of the four it is, is about
\* the users of one form, up to the first malformed one, or about nobody, and
\* is what counting them one thing at a time says (RequestHandlers.hpp:153-299
\* on what 113-151 has stored).
THEOREM QuietReportsAreExactCorrect == Spec => []QuietReportsAreExact
<1>1. QuietReadsExact => QuietReportsAreExact
  <2> DEFINE read(r) == [i \in 1..Len(seen[r]) |-> Users(Forms[seen[r][i]])[i]]
             Right(a, s) == /\ SuperusersRight(Superusers(a), s)
                            /\ \A list \in TopCountries(a) : CountriesRight(list, s)
                            /\ TeamsRight(TeamInsights(a), s)
                            /\ LoginsRight(ActiveUsers(a), s)
             Reports == {<<>>} \union {Users(Forms[u]) : u \in Bodies}
  <2>1. \A s \in Seq(People) : Right(s, s)
    BY ReportsExact, Zenon
  <2>2. ASSUME NEW r \in Readers, seen[r] = <<>> PROVE read(r) = <<>>
    BY <2>2
  <2>3. ASSUME NEW r \in Readers, NEW u \in Bodies, seen[r] = Whole(u) PROVE read(r) = Users(Forms[u])
    <3> DEFINE w == Whole(u)
               n == Size[u]
               s == Users(Forms[u])
    <3>1. n \in Nat
      BY UploadAssumption DEF Bodies
    <3>2. Len(w) = n /\ \A i \in 1..n : w[i] = u
      BY <3>1 DEF Whole
    <3>3. s \in Seq(People) /\ Len(s) = n
      BY BodiesRead
    <3> HIDE DEF w, s, n
    <3>4. read(r) = [i \in 1..n |-> s[i]]
      <4>1. read(r) = [i \in 1..Len(w) |-> Users(Forms[w[i]])[i]]
        BY <2>3, Zenon DEF w
      <4>2. \A i \in 1..n : Users(Forms[w[i]])[i] = s[i]
        BY <3>2, Zenon DEF s
      <4> HIDE DEF read
      <4> QED
        BY <3>2, <4>1, <4>2
    <3>5. s = [i \in 1..n |-> s[i]]
      BY <3>3
    <3> QED
      BY <3>4, <3>5, Zenon DEF s
  <2>4. <<>> \in Seq(People) /\ \A u \in Bodies : Users(Forms[u]) \in Seq(People)
    BY BodiesRead
  <2>5. <<>> \in Reports /\ \A u \in Bodies : Users(Forms[u]) \in Reports
    OBVIOUS
  <2> HIDE DEF read, Right, Reports
  <2>6. QuietReadsExact =>
          \A r \in Readers : scan[r] = "done" /\ ~overlapped[r] => \E sent \in Reports : Right(read(r), sent)
    <3> SUFFICES ASSUME QuietReadsExact, NEW r \in Readers, scan[r] = "done", ~overlapped[r]
                 PROVE  \E sent \in Reports : Right(read(r), sent)
      OBVIOUS
    <3>1. CASE seen[r] = <<>>
      <4>1. read(r) = <<>> /\ Right(<<>>, <<>>)
        BY <2>1, <2>2, <2>4, <3>1
      <4> QED
        BY <2>5, <4>1, Zenon
    <3>2. ASSUME NEW u \in Bodies, seen[r] = Whole(u) PROVE \E sent \in Reports : Right(read(r), sent)
      <4>1. read(r) = Users(Forms[u])
        BY <2>3, <3>2, Zenon
      <4>2. Right(Users(Forms[u]), Users(Forms[u]))
        BY <2>1, <2>4, Zenon
      <4> QED
        BY <2>5, <4>1, <4>2, Zenon
    <3>3. seen[r] = <<>> \/ \E u \in Bodies : seen[r] = Whole(u)
      BY Zenon DEF QuietReadsExact
    <3> QED
      BY <3>1, <3>2, <3>3, Zenon
  <2> QED
    BY <2>6, Zenon DEF QuietReportsAreExact, read, Right, Reports
<1> QED
  BY <1>1, QuietReadsExactCorrect, PTL
===============================================================================
