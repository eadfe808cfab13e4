--------------------------- MODULE SequenceLemmas ---------------------------
(***************************************************************************)
(* What several proofs need about numbers, sequences and lists, which are  *)
(* sequences of sequences: induction, stated for sets so that the provers  *)
(* can instantiate it, FlattenSeq, the map that joins what it makes of     *)
(* each element, and the values that repeated steps go through.            *)
(***************************************************************************)
EXTENDS Integers, SequencesExt, SequenceTheorems, WellFoundedInduction, TLAPS

-----------------------------------------------------------------------------
(* Numbers and sequences. *)
\* Every non-empty set of natural numbers has a least element.
LEMMA LeastExists ==
    ASSUME NEW S \in SUBSET Nat, S # {}
    PROVE  \E m \in S : \A n \in S : m <= n
  <1> DEFINE R == OpToRel(<, Nat)
  <1>1. IsWellFoundedOn(R, Nat)
    BY NatLessThanWellFounded
  <1>2. ASSUME NEW x \in Nat, NEW y \in Nat, y < x
        PROVE  <<y, x>> \in R
    BY <1>2 DEF OpToRel
  <1> HIDE DEF R
  <1>3. PICK x \in S : \A y \in S : ~(<<y, x>> \in R)
    BY <1>1, WFMin
  <1>4. ASSUME NEW y \in S
        PROVE  x <= y
    <2>1. x \in Nat /\ y \in Nat
      OBVIOUS
    <2>2. ~(y < x)
      BY <1>2, <1>3, <2>1, Zenon
    <2> QED BY <2>1, <2>2
  <1> QED BY <1>4

\* Min gives the least element.
LEMMA LeastNumber ==
    ASSUME NEW S \in SUBSET Nat, S # {}
    PROVE  Min(S) \in S /\ \A n \in S : Min(S) <= n
  <1>1. PICK m \in S : \A n \in S : m <= n
    BY LeastExists
  <1> QED BY <1>1 DEF Min

\* A set of natural numbers that holds 0 and successors holds all.
LEMMA Induction ==
    ASSUME NEW S, 0 \in S, \A n \in Nat : n \in S => n + 1 \in S
    PROVE  \A n \in Nat : n \in S
  <1> DEFINE T == {n \in Nat : n \notin S}
  <1>1. SUFFICES ASSUME T # {} PROVE FALSE
    OBVIOUS
  <1>2. PICK m \in T : \A y \in T : m <= y
    BY <1>1, LeastExists
  <1>3. m \in Nat /\ m \notin S /\ m # 0
    BY <1>2
  <1>4. m - 1 \in Nat /\ m - 1 < m /\ (m - 1) + 1 = m
    BY <1>3
  <1>5. m - 1 \notin T
    BY <1>2, <1>4
  <1> QED BY <1>3, <1>4, <1>5

\* A set that holds the empty sequence and with a sequence also what appending
\* gives holds every sequence.
LEMMA SeqInduction ==
    ASSUME NEW S, NEW P, <<>> \in P, \A s \in Seq(S), e \in S : s \in P => Append(s, e) \in P
    PROVE  \A s \in Seq(S) : s \in P
  <1> DEFINE N == {n \in Nat : \A s \in Seq(S) : Len(s) = n => s \in P}
  <1>1. 0 \in N
    OBVIOUS
  <1>2. ASSUME NEW n \in Nat, n \in N PROVE n + 1 \in N
    <2> SUFFICES ASSUME NEW s \in Seq(S), Len(s) = n + 1 PROVE s \in P
      OBVIOUS
    <2>1. PICK t \in Seq(S), e \in S : s = Append(t, e)
      BY SequenceEmptyOrAppend
    <2>2. Len(t) = n
      BY <2>1
    <2> QED BY <1>2, <2>1, <2>2
  <1> HIDE DEF N
  <1>3. \A n \in Nat : n \in N
    BY <1>1, <1>2, Induction
  <1> QED BY <1>3 DEF N

\* Sequences of sequences.
Lists(S) == Seq(Seq(S))

\* The empty list.
LEMMA SeqNil ==
    ASSUME NEW S
    PROVE  <<>> \in Seq(S)
  OBVIOUS

\* The empty list.
LEMMA ListNil ==
    ASSUME NEW S
    PROVE  <<>> \in Lists(S)
  <1> DEFINE Q == Seq(S)
  <1>1. Lists(S) = Seq(Q) /\ Q = Seq(S)
    BY DEF Lists
  <1> HIDE DEF Q
  <1> QED BY <1>1, SeqNil

\* One more element at the end of a list.
LEMMA SeqAppend ==
    ASSUME NEW S, NEW z \in Seq(S), NEW e \in S
    PROVE  Append(z, e) \in Seq(S) /\ Len(Append(z, e)) = Len(z) + 1 /\ Append(z, e)[Len(z) + 1] = e
           /\ \A i \in 1..Len(z) : Append(z, e)[i] = z[i]
  OBVIOUS

\* One more element at the end of a list.
LEMMA ListAppend ==
    ASSUME NEW S, NEW z \in Lists(S), NEW e \in Seq(S)
    PROVE  Append(z, e) \in Lists(S) /\ Len(Append(z, e)) = Len(z) + 1 /\ Append(z, e)[Len(z) + 1] = e
           /\ \A i \in 1..Len(z) : Append(z, e)[i] = z[i]
  <1> DEFINE Q == Seq(S)
  <1>1. z \in Seq(Q) /\ e \in Q /\ Lists(S) = Seq(Q) /\ Q = Seq(S)
    BY DEF Lists
  <1> HIDE DEF Q
  <1> QED BY <1>1, SeqAppend

\* One list after another.
LEMMA SeqConcat ==
    ASSUME NEW S, NEW z \in Seq(S), NEW y \in Seq(S)
    PROVE  z \o y \in Seq(S) /\ Len(z \o y) = Len(z) + Len(y)
  OBVIOUS

\* One list after another.
LEMMA ListConcat ==
    ASSUME NEW S, NEW z \in Lists(S), NEW y \in Lists(S)
    PROVE  z \o y \in Lists(S) /\ Len(z \o y) = Len(z) + Len(y)
  <1> DEFINE Q == Seq(S)
  <1>1. z \in Seq(Q) /\ y \in Seq(Q) /\ Lists(S) = Seq(Q) /\ Q = Seq(S)
    BY DEF Lists
  <1> HIDE DEF Q
  <1> QED BY <1>1, SeqConcat

\* Appending to the second of two lists.
LEMMA SeqConcatAppend ==
    ASSUME NEW S, NEW z \in Seq(S), NEW y \in Seq(S), NEW e \in S
    PROVE  z \o Append(y, e) = Append(z \o y, e)
  OBVIOUS

\* Appending to the second of two lists.
LEMMA ListConcatAppend ==
    ASSUME NEW S, NEW z \in Lists(S), NEW y \in Lists(S), NEW e \in Seq(S)
    PROVE  z \o Append(y, e) = Append(z \o y, e)
  <1> DEFINE Q == Seq(S)
  <1>1. z \in Seq(Q) /\ y \in Seq(Q) /\ e \in Q /\ Lists(S) = Seq(Q) /\ Q = Seq(S)
    BY DEF Lists
  <1> HIDE DEF Q
  <1> QED BY <1>1, SeqConcatAppend

\* The length and the elements of a list.
LEMMA SeqShape ==
    ASSUME NEW S, NEW z \in Seq(S)
    PROVE  z \o <<>> = z /\ Len(z) \in Nat /\ DOMAIN z = 1..Len(z) /\ \A i \in 1..Len(z) : z[i] \in S
  OBVIOUS

\* The length and the elements of a list.
LEMMA ListShape ==
    ASSUME NEW S, NEW z \in Lists(S)
    PROVE  z \o <<>> = z /\ Len(z) \in Nat /\ DOMAIN z = 1..Len(z) /\ \A i \in 1..Len(z) : z[i] \in Seq(S)
  <1> DEFINE Q == Seq(S)
  <1>1. z \in Seq(Q) /\ Lists(S) = Seq(Q) /\ Q = Seq(S)
    BY DEF Lists
  <1> HIDE DEF Q
  <1> QED BY <1>1, SeqShape

\* The list of one element.
LEMMA SeqSingle ==
    ASSUME NEW S, NEW e \in S
    PROVE  <<e>> \in Seq(S) /\ <<e>> = Append(<<>>, e)
  OBVIOUS

\* The list of one element.
LEMMA ListSingle ==
    ASSUME NEW S, NEW e \in Seq(S)
    PROVE  <<e>> \in Lists(S) /\ <<e>> = Append(<<>>, e)
  <1> DEFINE Q == Seq(S)
  <1>1. e \in Q /\ Lists(S) = Seq(Q) /\ Q = Seq(S)
    BY DEF Lists
  <1> HIDE DEF Q
  <1> QED BY <1>1, SeqSingle

\* Induction over lists.
LEMMA ListInduction ==
    ASSUME NEW S, NEW P, <<>> \in P, \A z \in Lists(S), e \in Seq(S) : z \in P => Append(z, e) \in P
    PROVE  \A z \in Lists(S) : z \in P
  BY SeqInduction, Zenon DEF Lists

\* One sequence after another.
Glued(a, b) == a \o b

\* A recursion over an initial segment of the numbers has a solution.
LEMMA FlattenLoop ==
    ASSUME NEW z, Len(z) \in Nat \ {0}
    PROVE  \E f : /\ f[1] = z[1] /\ \A i \in 2..Len(z) : f[i] = Glued(f[i - 1], z[i])
                  /\ FlattenSeq(z) = f[Len(z)]
  <1> DEFINE Loop(n) == \E f : f = [i \in 1..n |-> IF i = 1 THEN z[i] ELSE Glued(f[i - 1], z[i])]
             T == {n \in Nat : Loop(n)}
             g == CHOOSE g : g = [i \in 1..Len(z) |-> IF i = 1 THEN z[i] ELSE Glued(g[i - 1], z[i])]
  <1>1. FlattenSeq(z) = g[Len(z)] /\ Len(z) \in Nat \ {0}
    BY DEF FlattenSeq, Glued
  <1>2. 0 \in T
    <2> DEFINE k == [i \in 1..0 |-> 0]
    <2>1. k = [i \in 1..0 |-> IF i = 1 THEN z[i] ELSE Glued(k[i - 1], z[i])]
      OBVIOUS
    <2> QED BY <2>1
  <1>3. ASSUME NEW n \in Nat, n \in T PROVE n + 1 \in T
    <2>1. PICK k : k = [i \in 1..n |-> IF i = 1 THEN z[i] ELSE Glued(k[i - 1], z[i])]
      BY <1>3
    <2>2. \A i \in 1..n : k[i] = IF i = 1 THEN z[i] ELSE Glued(k[i - 1], z[i])
      BY <2>1
    <2> DEFINE m == [i \in 1..(n + 1) |-> IF i = n + 1 THEN (IF i = 1 THEN z[i] ELSE Glued(k[n], z[i])) ELSE k[i]]
    <2>3. m[n + 1] = (IF n + 1 = 1 THEN z[n + 1] ELSE Glued(k[n], z[n + 1])) /\ \A i \in 1..n : m[i] = k[i]
      OBVIOUS
    <2>4. m = [i \in 1..(n + 1) |-> m[i]]
      OBVIOUS
    <2> HIDE DEF m
    <2>5. \A i \in 1..(n + 1) : m[i] = IF i = 1 THEN z[i] ELSE Glued(m[i - 1], z[i])
      <3>1. \A i \in 2..n : i - 1 \in 1..n /\ i \in 1..n /\ i # 1
        OBVIOUS
      <3>2. \A i \in 2..n : m[i] = Glued(m[i - 1], z[i])
        BY <2>2, <2>3, <3>1
      <3>3. (n + 1) - 1 = n /\ (n # 0 => n \in 1..n /\ 1 \in 1..n) /\ (n = 0 <=> n + 1 = 1)
        OBVIOUS
      <3>4. \A i \in 1..(n + 1) : (i = 1 /\ n # 0) \/ i \in 2..n \/ i = n + 1
        OBVIOUS
      <3>5. n # 0 => m[1] = z[1]
        BY <2>2, <2>3, <3>3
      <3>6. m[n + 1] = IF n + 1 = 1 THEN z[n + 1] ELSE Glued(m[n], z[n + 1])
        BY <2>3, <3>3
      <3> QED BY <3>1, <3>2, <3>3, <3>4, <3>5, <3>6
    <2>6. m = [i \in 1..(n + 1) |-> IF i = 1 THEN z[i] ELSE Glued(m[i - 1], z[i])]
      BY <2>4, <2>5
    <2> QED BY <2>6
  <1>4. Loop(Len(z))
    <2> HIDE DEF T
    <2>1. \A n \in Nat : n \in T
      BY <1>2, <1>3, Induction
    <2> QED BY <1>1, <2>1 DEF T
  <1>5. g = [i \in 1..Len(z) |-> IF i = 1 THEN z[i] ELSE Glued(g[i - 1], z[i])]
    BY <1>4
  <1> HIDE DEF g
  <1>6. g[1] = z[1] /\ \A i \in 2..Len(z) : g[i] = Glued(g[i - 1], z[i])
    BY <1>1, <1>5
  <1>7. FlattenSeq(z) = g[Len(z)]
    BY <1>1
  <1> QED BY <1>6, <1>7, Zenon

\* Joining no sequences.
LEMMA FlattenEmpty == FlattenSeq(<<>>) = <<>>
  BY DEF FlattenSeq

\* Joining one more sequence.
LEMMA FlattenAppend ==
    ASSUME NEW S, NEW z \in Lists(S), NEW e \in Seq(S)
    PROVE  FlattenSeq(Append(z, e)) = FlattenSeq(z) \o e
  <1> DEFINE Q == Seq(S)
  <1>0. z \in Seq(Q) /\ e \in Q
    BY DEF Lists
  <1> HIDE DEF Q
  <1> DEFINE y == Append(z, e)
  <1>1. y \in Seq(Q) /\ y # <<>> /\ Len(y) = Len(z) + 1 /\ Len(z) \in Nat
    BY <1>0
  <1>2. (\A i \in 1..Len(z) : y[i] = z[i]) /\ y[Len(z) + 1] = e
    BY <1>0
  <1> HIDE DEF y
  <1>3. PICK f : /\ f[1] = y[1] /\ \A i \in 2..Len(y) : f[i] = Glued(f[i - 1], y[i])
                 /\ FlattenSeq(y) = f[Len(y)]
    <2>1. Len(y) \in Nat \ {0}
      BY <1>1
    <2> QED BY <2>1, FlattenLoop
  <1>4. CASE Len(z) = 0
    <2>1. FlattenSeq(y) = e
      BY <1>1, <1>2, <1>3, <1>4
    <2>2. z = <<>>
      BY <1>0, <1>4
    <2> QED BY <2>1, <2>2, FlattenEmpty DEF y
  <1>5. CASE Len(z) # 0
    <2>1. PICK g : /\ g[1] = z[1] /\ \A i \in 2..Len(z) : g[i] = Glued(g[i - 1], z[i])
                   /\ FlattenSeq(z) = g[Len(z)]
      BY <1>1, <1>5, FlattenLoop
    <2> DEFINE T == {n \in Nat : n + 1 <= Len(z) => f[n + 1] = g[n + 1]}
    <2>2. 0 \in T
      <3>1. 1 \in 1..Len(z)
        BY <1>1, <1>5
      <3> QED BY <1>2, <1>3, <2>1, <3>1
    <2>3. ASSUME NEW n \in Nat, n \in T PROVE n + 1 \in T
      <3> SUFFICES ASSUME n + 2 <= Len(z) PROVE f[n + 2] = g[n + 2]
        BY <1>1
      <3>1. n + 2 \in 2..Len(z) /\ n + 2 \in 2..Len(y) /\ n + 2 \in 1..Len(z) /\ (n + 2) - 1 = n + 1
        BY <1>1
      <3>2. f[n + 1] = g[n + 1]
        BY <1>1, <2>3
      <3>3. f[n + 2] = Glued(f[n + 1], y[n + 2]) /\ g[n + 2] = Glued(g[n + 1], z[n + 2])
        BY <1>3, <2>1, <3>1
      <3> QED BY <1>2, <3>1, <3>2, <3>3
    <2> HIDE DEF T
    <2>4. \A n \in Nat : n \in T
      BY <2>2, <2>3, Induction
    <2>5. Len(z) - 1 \in Nat /\ (Len(z) - 1) + 1 = Len(z)
      BY <1>1, <1>5
    <2>6. f[Len(z)] = g[Len(z)]
      <3>1. Len(z) - 1 \in T
        BY <2>4, <2>5
      <3>2. (Len(z) - 1) + 1 <= Len(z)
        BY <1>1
      <3> QED BY <2>5, <3>1, <3>2 DEF T
    <2>7. FlattenSeq(y) = Glued(f[Len(z)], e)
      <3>1. Len(y) \in 2..Len(y) /\ Len(y) - 1 = Len(z)
        BY <1>1, <2>5
      <3> QED BY <1>1, <1>2, <1>3, <3>1
    <2> QED BY <2>1, <2>6, <2>7 DEF y, Glued
  <1> QED BY <1>4, <1>5

\* What is joined is a sequence of the same rows.
LEMMA FlattenTyped ==
    ASSUME NEW S, NEW z \in Lists(S)
    PROVE  FlattenSeq(z) \in Seq(S)
  <1> DEFINE P == {x \in Lists(S) : FlattenSeq(x) \in Seq(S)}
  <1>1. <<>> \in P
    <2>1. <<>> \in Seq(S) /\ <<>> \in Lists(S)
      BY ListNil
    <2> QED BY <2>1, FlattenEmpty, Zenon
  <1>2. ASSUME NEW x \in Lists(S), NEW e \in Seq(S), x \in P PROVE Append(x, e) \in P
    <2>1. Append(x, e) \in Lists(S) /\ FlattenSeq(Append(x, e)) = FlattenSeq(x) \o e
      BY FlattenAppend, ListAppend
    <2>2. FlattenSeq(x) \o e \in Seq(S)
      BY <1>2
    <2> QED BY <2>1, <2>2, Zenon
  <1> HIDE DEF P
  <1>3. \A x \in Lists(S) : x \in P
    BY <1>1, <1>2, ListInduction
  <1> QED BY <1>3 DEF P

\* Joining one sequence.
LEMMA FlattenOne ==
    ASSUME NEW S, NEW e \in Seq(S)
    PROVE  FlattenSeq(<<e>>) = e
  <1>1. <<>> \in Lists(S) /\ <<e>> = Append(<<>>, e)
    BY ListNil, ListSingle, ListShape
  <1>2. FlattenSeq(Append(<<>>, e)) = FlattenSeq(<<>>) \o e
    BY <1>1, FlattenAppend
  <1>3. <<>> \o e = e
    OBVIOUS
  <1> QED BY <1>1, <1>2, <1>3, FlattenEmpty

\* Joining the sequences of two lists.
LEMMA FlattenConcat ==
    ASSUME NEW S, NEW a \in Lists(S), NEW b \in Lists(S)
    PROVE  FlattenSeq(a \o b) = FlattenSeq(a) \o FlattenSeq(b)
  <1> DEFINE P == {x \in Lists(S) : FlattenSeq(a \o x) = FlattenSeq(a) \o FlattenSeq(x)}
  <1>0. FlattenSeq(a) \in Seq(S)
    BY FlattenTyped
  <1>1. <<>> \in P
    <2>1. <<>> \in Lists(S) /\ a \o <<>> = a
      BY ListNil, ListSingle, ListShape
    <2>2. FlattenSeq(a) \o <<>> = FlattenSeq(a)
      BY <1>0
    <2> QED BY <2>1, <2>2, FlattenEmpty, Zenon
  <1>2. ASSUME NEW x \in Lists(S), NEW e \in Seq(S), x \in P PROVE Append(x, e) \in P
    <2>1. a \o Append(x, e) = Append(a \o x, e) /\ a \o x \in Lists(S) /\ Append(x, e) \in Lists(S)
      BY ListAppend, ListConcat, ListConcatAppend
    <2>2. FlattenSeq(a \o Append(x, e)) = (FlattenSeq(a) \o FlattenSeq(x)) \o e
      BY <1>2, <2>1, FlattenAppend
    <2>3. FlattenSeq(x) \in Seq(S)
      BY FlattenTyped
    <2>4. FlattenSeq(Append(x, e)) = FlattenSeq(x) \o e
      BY FlattenAppend
    <2>5. (FlattenSeq(a) \o FlattenSeq(x)) \o e = FlattenSeq(a) \o (FlattenSeq(x) \o e)
      BY <1>0, <2>3
    <2> QED BY <2>1, <2>2, <2>4, <2>5
  <1> HIDE DEF P
  <1>3. \A x \in Lists(S) : x \in P
    BY <1>1, <1>2, ListInduction
  <1> QED BY <1>3 DEF P

\* What a function makes of each element of a sequence, one after another.
FlatMap(h, z) == FlattenSeq([i \in DOMAIN z |-> h[z[i]]])

\* A function that gives sequences for the elements of a set.
Gives(h, Q, S) == \A q \in Q : h[q] \in Seq(S)

\* A function that gives a sequence for each element gives a list.
LEMMA MapList ==
    ASSUME NEW S, NEW Q, NEW h, Gives(h, Q, S), NEW z \in Seq(Q)
    PROVE  /\ [i \in DOMAIN z |-> h[z[i]]] \in Lists(S)
           /\ Len([i \in DOMAIN z |-> h[z[i]]]) = Len(z)
  <1> DEFINE R == Seq(S)
  <1>1. Lists(S) = Seq(R) /\ \A q \in Q : h[q] \in R
    BY DEF Lists, Gives
  <1> HIDE DEF R
  <1>2. DOMAIN z = 1..Len(z) /\ Len(z) \in Nat /\ \A i \in 1..Len(z) : z[i] \in Q
    OBVIOUS
  <1>3. [i \in 1..Len(z) |-> h[z[i]]] \in Seq(R)
    BY <1>1, <1>2
  <1> QED BY <1>1, <1>2, <1>3

\* The map of a sequence with one more element.
LEMMA MapAppend ==
    ASSUME NEW S, NEW Q, NEW h, Gives(h, Q, S), NEW z \in Seq(Q), NEW e \in Q
    PROVE  [i \in DOMAIN Append(z, e) |-> h[Append(z, e)[i]]] = Append([i \in DOMAIN z |-> h[z[i]]], h[e])
  <1> DEFINE R == Seq(S)
             m == [i \in DOMAIN z |-> h[z[i]]]
             y == Append(z, e)
             n == [i \in DOMAIN y |-> h[y[i]]]
  <1>1. \A q \in Q : h[q] \in R
    BY DEF Gives
  <1> HIDE DEF R
  <1>2. Len(z) \in Nat /\ DOMAIN z = 1..Len(z) /\ \A i \in 1..Len(z) : z[i] \in Q
    OBVIOUS
  <1>3. y \in Seq(Q) /\ DOMAIN y = 1..(Len(z) + 1) /\ y[Len(z) + 1] = e /\ \A i \in 1..Len(z) : y[i] = z[i]
    OBVIOUS
  <1>4. m \in Seq(R) /\ Len(m) = Len(z) /\ \A i \in 1..Len(z) : m[i] = h[z[i]]
    BY <1>1, <1>2
  <1> HIDE DEF y, m
  <1>5. \A i \in 1..(Len(z) + 1) : y[i] \in Q
    BY <1>2, <1>3
  <1>6. n \in Seq(R) /\ Len(n) = Len(z) + 1 /\ \A i \in 1..(Len(z) + 1) : n[i] = h[y[i]]
    BY <1>1, <1>2, <1>3, <1>5
  <1> HIDE DEF n
  <1>7. Append(m, h[e]) \in Seq(R) /\ Len(Append(m, h[e])) = Len(z) + 1
    BY <1>1, <1>4
  <1>8. \A i \in 1..(Len(z) + 1) : n[i] = Append(m, h[e])[i]
    BY <1>1, <1>2, <1>3, <1>4, <1>6
  <1>9. n = Append(m, h[e])
    BY <1>2, <1>6, <1>7, <1>8, SeqEqual
  <1> QED BY <1>9 DEF n, m, y

\* Nothing is made of nothing.
LEMMA FlatMapNil == ASSUME NEW h PROVE FlatMap(h, <<>>) = <<>>
  <1>1. [i \in DOMAIN <<>> |-> h[<<>>[i]]] = <<>>
    OBVIOUS
  <1> QED BY <1>1, FlattenEmpty DEF FlatMap

\* What is made is a sequence.
LEMMA FlatMapTyped ==
    ASSUME NEW S, NEW Q, NEW h, Gives(h, Q, S), NEW z \in Seq(Q)
    PROVE  FlatMap(h, z) \in Seq(S)
  BY MapList, FlattenTyped DEF FlatMap

\* What is made of one more element comes last.
LEMMA FlatMapAppend ==
    ASSUME NEW S, NEW Q, NEW h, Gives(h, Q, S), NEW z \in Seq(Q), NEW e \in Q
    PROVE  FlatMap(h, Append(z, e)) = FlatMap(h, z) \o h[e]
  <1> DEFINE m == [i \in DOMAIN z |-> h[z[i]]]
  <1>1. m \in Lists(S) /\ h[e] \in Seq(S)
    BY MapList DEF Gives
  <1>2. [i \in DOMAIN Append(z, e) |-> h[Append(z, e)[i]]] = Append(m, h[e])
    BY MapAppend
  <1> HIDE DEF m
  <1>3. FlattenSeq(Append(m, h[e])) = FlattenSeq(m) \o h[e]
    BY <1>1, FlattenAppend
  <1> QED BY <1>2, <1>3, Zenon DEF FlatMap, m

\* What is made of two sequences.
LEMMA FlatMapConcat ==
    ASSUME NEW S, NEW Q, NEW h, Gives(h, Q, S), NEW a \in Seq(Q), NEW b \in Seq(Q)
    PROVE  FlatMap(h, a \o b) = FlatMap(h, a) \o FlatMap(h, b)
  <1> DEFINE P == {x \in Seq(Q) : FlatMap(h, a \o x) = FlatMap(h, a) \o FlatMap(h, x)}
  <1>0. \A x \in Seq(Q) : FlatMap(h, x) \in Seq(S)
    BY FlatMapTyped
  <1>1. <<>> \in P
    <2>1. a \o <<>> = a /\ <<>> \in Seq(Q)
      OBVIOUS
    <2>2. FlatMap(h, a) \o <<>> = FlatMap(h, a)
      BY <1>0
    <2> QED BY <2>1, <2>2, FlatMapNil, Zenon
  <1>2. ASSUME NEW x \in Seq(Q), NEW e \in Q, x \in P PROVE Append(x, e) \in P
    <2>1. a \o Append(x, e) = Append(a \o x, e) /\ a \o x \in Seq(Q) /\ Append(x, e) \in Seq(Q)
      OBVIOUS
    <2>2. \A y \in Seq(Q) : FlatMap(h, Append(y, e)) = FlatMap(h, y) \o h[e]
      BY FlatMapAppend
    <2>3. FlatMap(h, Append(x, e)) = FlatMap(h, x) \o h[e]
      BY <2>2, Zenon
    <2>4. (FlatMap(h, a) \o FlatMap(h, x)) \o h[e] = FlatMap(h, a) \o (FlatMap(h, x) \o h[e])
      <3>1. FlatMap(h, a) \in Seq(S) /\ FlatMap(h, x) \in Seq(S) /\ h[e] \in Seq(S)
        BY <1>0 DEF Gives
      <3>2. \A s, t, u \in Seq(S) : (s \o t) \o u = s \o (t \o u)
        OBVIOUS
      <3> QED BY <3>1, <3>2, Zenon
    <2>5. FlatMap(h, a \o x) = FlatMap(h, a) \o FlatMap(h, x)
      BY <1>2
    <2>6. FlatMap(h, a \o Append(x, e)) = FlatMap(h, a) \o FlatMap(h, Append(x, e))
      BY <2>1, <2>2, <2>3, <2>4, <2>5, Zenon
    <2> QED BY <2>1, <2>6, Zenon
  <1> HIDE DEF P
  <1>3. \A x \in Seq(Q) : x \in P
    BY <1>1, <1>2, SeqInduction
  <1> QED BY <1>3 DEF P

\* Made of what is joined, or made of each part and then joined: the same.
LEMMA FlatMapFlatten ==
    ASSUME NEW S, NEW Q, NEW h, Gives(h, Q, S), NEW z \in Lists(Q)
    PROVE  FlatMap(h, FlattenSeq(z)) = FlattenSeq([i \in DOMAIN z |-> FlatMap(h, z[i])])
  <1> DEFINE g == [s \in Seq(Q) |-> FlatMap(h, s)]
             P == {x \in Lists(Q) : FlatMap(h, FlattenSeq(x)) = FlatMap(g, x)}
  <1>1. \A s \in Seq(Q) : g[s] = FlatMap(h, s) /\ g[s] \in Seq(S)
    BY FlatMapTyped
  <1> HIDE DEF g
  <1>2. <<>> \in P
    BY FlatMapNil, FlattenEmpty, ListNil, Zenon
  <1>3. ASSUME NEW x \in Lists(Q), NEW e \in Seq(Q), x \in P PROVE Append(x, e) \in P
    <2>1. FlattenSeq(Append(x, e)) = FlattenSeq(x) \o e /\ FlattenSeq(x) \in Seq(Q) /\ Append(x, e) \in Lists(Q)
      BY FlattenAppend, FlattenTyped, ListAppend
    <2>2. FlatMap(h, FlattenSeq(x) \o e) = FlatMap(h, FlattenSeq(x)) \o FlatMap(h, e)
      BY <2>1, FlatMapConcat
    <2>3. FlatMap(g, Append(x, e)) = FlatMap(g, x) \o g[e]
      <3> DEFINE R == Seq(Q)
      <3>1. x \in Seq(R) /\ e \in R /\ Gives(g, R, S)
        BY <1>1 DEF Lists, Gives
      <3> HIDE DEF R
      <3> QED BY <3>1, FlatMapAppend
    <2>4. FlatMap(h, FlattenSeq(x)) = FlatMap(g, x)
      BY <1>3
    <2>5. FlatMap(h, FlattenSeq(Append(x, e))) = FlatMap(g, Append(x, e))
      BY <1>1, <2>1, <2>2, <2>3, <2>4, Zenon
    <2> QED BY <2>1, <2>5, Zenon
  <1> HIDE DEF P
  <1>4. \A x \in Lists(Q) : x \in P
    BY <1>2, <1>3, ListInduction
  <1>5. FlatMap(h, FlattenSeq(z)) = FlatMap(g, z)
    BY <1>4 DEF P
  <1>6. [i \in DOMAIN z |-> g[z[i]]] = [i \in DOMAIN z |-> FlatMap(h, z[i])]
    <2>1. \A i \in DOMAIN z : z[i] \in Seq(Q)
      BY ListShape
    <2>2. \A i \in DOMAIN z : g[z[i]] = FlatMap(h, z[i])
      BY <1>1, <2>1
    <2> QED BY <2>2, Zenon
  <1> QED BY <1>5, <1>6 DEF FlatMap

\* Joining twice: the outer lists first, or each of the inner ones first.
LEMMA FlattenFlatten ==
    ASSUME NEW S, NEW z \in Lists(Seq(S))
    PROVE  /\ FlattenSeq(FlattenSeq(z)) = FlattenSeq([i \in DOMAIN z |-> FlattenSeq(z[i])])
           /\ [i \in DOMAIN z |-> FlattenSeq(z[i])] \in Lists(S)
           /\ FlattenSeq(z) \in Lists(S)
  <1> DEFINE Q == Seq(S)
             id == [s \in Q |-> s]
  <1>1. z \in Lists(Q) /\ Lists(S) = Seq(Q) /\ Gives(id, Q, S) /\ \A q \in Q : id[q] = q
    BY Zenon DEF Lists, Gives
  <1> HIDE DEF Q, id
  <1>2. \A y \in Seq(Q) : FlatMap(id, y) = FlattenSeq(y)
    <2> SUFFICES ASSUME NEW y \in Seq(Q) PROVE FlatMap(id, y) = FlattenSeq(y)
      OBVIOUS
    <2>1. \A i \in DOMAIN y : y[i] \in Q
      OBVIOUS
    <2>2. [i \in DOMAIN y |-> id[y[i]]] = [i \in DOMAIN y |-> y[i]]
      BY <1>1, <2>1
    <2>3. y = [i \in DOMAIN y |-> y[i]]
      OBVIOUS
    <2> QED BY <2>2, <2>3, Zenon DEF FlatMap
  <1>3. FlatMap(id, FlattenSeq(z)) = FlattenSeq([i \in DOMAIN z |-> FlatMap(id, z[i])])
    BY <1>1, FlatMapFlatten
  <1>4. FlattenSeq(z) \in Seq(Q) /\ \A i \in DOMAIN z : z[i] \in Seq(Q)
    BY <1>1, FlattenTyped, ListShape
  <1>5. [i \in DOMAIN z |-> FlatMap(id, z[i])] = [i \in DOMAIN z |-> FlattenSeq(z[i])]
    <2>1. \A i \in DOMAIN z : FlatMap(id, z[i]) = FlattenSeq(z[i])
      BY <1>2, <1>4
    <2> QED BY <2>1, Zenon
  <1>6. [i \in DOMAIN z |-> FlattenSeq(z[i])] \in Seq(Q)
    <2>1. DOMAIN z = 1..Len(z) /\ Len(z) \in Nat
      BY <1>1, ListShape
    <2>2. \A i \in 1..Len(z) : FlattenSeq(z[i]) \in Q
      <3>1. \A y \in Lists(S) : FlattenSeq(y) \in Q
        BY FlattenTyped, Zenon DEF Q
      <3> QED BY <1>1, <1>4, <2>1, <3>1
    <2> QED BY <2>1, <2>2
  <1> QED BY <1>1, <1>2, <1>3, <1>4, <1>5, <1>6, Zenon

\* The first elements of a list.
Pre(z, n) == [i \in 1..n |-> z[i]]

\* The first elements of a list, one by one.
LEMMA SeqPrefixes ==
    ASSUME NEW S, NEW z \in Seq(S)
    PROVE  /\ Pre(z, 0) = <<>> /\ Pre(z, Len(z)) = z
           /\ \A n \in 0..Len(z) : Pre(z, n) \in Seq(S) /\ Len(Pre(z, n)) = n
           /\ \A n \in Nat : n + 1 <= Len(z) => Pre(z, n + 1) = Append(Pre(z, n), z[n + 1])
  <1>1. Pre(z, 0) = <<>> /\ Pre(z, Len(z)) = z
    BY DEF Pre
  <1>2. \A n \in 0..Len(z) : Pre(z, n) \in Seq(S) /\ Len(Pre(z, n)) = n
    BY DEF Pre
  <1>3. ASSUME NEW n \in Nat, n + 1 <= Len(z) PROVE Pre(z, n + 1) = Append(Pre(z, n), z[n + 1])
    <2>1. Pre(z, n) \in Seq(S) /\ Len(Pre(z, n)) = n /\ Pre(z, n + 1) \in Seq(S) /\ Len(Pre(z, n + 1)) = n + 1
      BY <1>2, <1>3
    <2>2. z[n + 1] \in S
      BY <1>3
    <2>3. \A i \in 1..n : Pre(z, n + 1)[i] = z[i] /\ Pre(z, n)[i] = z[i]
      BY DEF Pre
    <2>4. Pre(z, n + 1)[n + 1] = z[n + 1]
      BY DEF Pre
    <2>5. \A i \in 1..(n + 1) : Pre(z, n + 1)[i] = Append(Pre(z, n), z[n + 1])[i]
      BY <2>1, <2>2, <2>3, <2>4
    <2>6. Append(Pre(z, n), z[n + 1]) \in Seq(S) /\ Len(Append(Pre(z, n), z[n + 1])) = n + 1
      BY <2>1, <2>2
    <2> QED BY <2>1, <2>5, <2>6, SeqEqual
  <1> QED BY <1>1, <1>2, <1>3

\* The same of a list.
LEMMA ListPrefixes ==
    ASSUME NEW S, NEW z \in Lists(S)
    PROVE  /\ Pre(z, 0) = <<>> /\ Pre(z, Len(z)) = z
           /\ \A n \in 0..Len(z) : Pre(z, n) \in Lists(S) /\ Len(Pre(z, n)) = n
           /\ \A n \in Nat : n + 1 <= Len(z) => Pre(z, n + 1) = Append(Pre(z, n), z[n + 1]) /\ z[n + 1] \in Seq(S)
  <1> DEFINE Q == Seq(S)
  <1>1. z \in Seq(Q) /\ Lists(S) = Seq(Q) /\ Q = Seq(S)
    BY DEF Lists
  <1>2. \A n \in Nat : n + 1 <= Len(z) => z[n + 1] \in Q
    <2> HIDE DEF Q
    <2> QED BY <1>1
  <1> HIDE DEF Q
  <1> QED BY <1>1, <1>2, SeqPrefixes

\* Steps within a set.
StepsIn(step, m, V) == \A n \in 1..m : \A x \in V : step[n][x] \in V

\* StepByStep steps within a set: the values they go through.
LEMMA StepByStep ==
    ASSUME NEW V, NEW base \in V, NEW m \in Nat, NEW step, StepsIn(step, m, V)
    PROVE  \E k \in [0..m -> V] : k[0] = base /\ \A n \in 1..m : k[n] = step[n][k[n - 1]]
  <1> DEFINE Goes(l) == \E k \in [0..l -> V] : k[0] = base /\ \A n \in 1..l : k[n] = step[n][k[n - 1]]
             T == {l \in Nat : l <= m => Goes(l)}
  <1>1. 0 \in T
    <2> DEFINE k == [n \in 0..0 |-> base]
    <2>1. k \in [0..0 -> V] /\ k[0] = base
      OBVIOUS
    <2> HIDE DEF k
    <2> QED BY <2>1
  <1>2. ASSUME NEW l \in Nat, l \in T PROVE l + 1 \in T
    <2>0. l + 1 \in Nat
      OBVIOUS
    <2> SUFFICES ASSUME l + 1 <= m PROVE Goes(l + 1)
      BY <2>0, Zenon
    <2>1. PICK k \in [0..l -> V] : k[0] = base /\ \A n \in 1..l : k[n] = step[n][k[n - 1]]
      BY <1>2
    <2> DEFINE v == step[l + 1][k[l]]
               y == [n \in 0..(l + 1) |-> IF n = l + 1 THEN v ELSE k[n]]
    <2>2. v \in V
      <3>1. k[l] \in V /\ l + 1 \in 1..m
        OBVIOUS
      <3> QED BY <3>1 DEF StepsIn
    <2>3. y[l + 1] = v /\ (\A n \in 0..l : y[n] = k[n]) /\ y \in [0..(l + 1) -> V]
      <3> HIDE DEF v
      <3> QED BY <2>2
    <2> HIDE DEF y
    <2>4. y[0] = base
      BY <2>1, <2>3
    <2>5. \A n \in 1..(l + 1) : y[n] = step[n][y[n - 1]]
      <3>1. \A n \in 1..l : n \in 0..l /\ n - 1 \in 0..l
        OBVIOUS
      <3>2. \A n \in 1..l : y[n] = step[n][y[n - 1]]
        BY <2>1, <2>3, <3>1
      <3>3. y[l + 1] = step[l + 1][y[l]] /\ (l + 1) - 1 = l
        BY <2>3
      <3>4. \A n \in 1..(l + 1) : n \in 1..l \/ n = l + 1
        OBVIOUS
      <3> QED BY <3>2, <3>3, <3>4
    <2> QED BY <2>3, <2>4, <2>5
  <1> HIDE DEF T
  <1>3. \A l \in Nat : l \in T
    BY <1>1, <1>2, Induction
  <1> QED BY <1>3 DEF T
=============================================================================
