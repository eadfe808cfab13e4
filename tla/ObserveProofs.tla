---------------------------- MODULE ObserveProofs ----------------------------
(***************************************************************************)
(* That the registry and the audit log tell what happened, and that no     *)
(* live query is evicted: for any threads, any number of queries and       *)
(* curation operators and any size of the registry, where reset() is not   *)
(* called while queries run.                                                *)
(***************************************************************************)
EXTENDS Observe, SequenceLemmas, FiniteSetTheorems

Kinds == {"query", "curate"}
Records == [id : Nat, kind : Kinds, status : {"running", "done", "error"}, rows : Nat, bytes : Nat]
Handles == {NoHandle} \cup [h : Nat, id : Nat, kind : Kinds, rowsIn : Nat, rowsOut : Nat, done : BOOLEAN]
Outcomes == [h : Nat, id : Nat, kind : Kinds, status : {"done", "error"}, rows : Nat, rowsIn : Nat, audited : BOOLEAN]

TypeOK ==
    /\ seq \in Nat /\ started \in Nat
    /\ queries \in Seq(Records)
    /\ stages \subseteq [id : Nat, query : Nat, late : BOOLEAN]
    /\ audit \in Seq([h : Nat, status : {"done", "error"}, rows : Nat])
    /\ auditOn \in BOOLEAN
    /\ handle \in [Threads -> Handles]
    /\ ended \subseteq Outcomes /\ IsFiniteSet(ended)

\* A context manager is entered and not yet left; its body has not reported yet.
Entered(t) == handle[t] # NoHandle
Live(t) == Entered(t) /\ ~handle[t].done

(* Ids and handles are handed out once: those of the context managers that *)
(* are entered and of the outcomes so far are told apart.                  *)
HandlesApart ==
    /\ \A t \in Threads : Entered(t) => /\ handle[t].h \in 1..started /\ handle[t].id \in 1..seq
                                        /\ handle[t].done => handle[t].kind = "query"
    /\ \A t, u \in Threads : Entered(t) /\ Entered(u) /\ t # u =>
            handle[t].h # handle[u].h /\ handle[t].id # handle[u].id
OutcomesApart ==
    /\ \A e \in ended : e.h \in 1..started /\ e.id \in 0..seq
    /\ \A e, f \in ended : e # f => e.h # f.h /\ (e.id = f.id => e.id = 0)
    /\ \A t \in Threads, e \in ended : Live(t) => e.h # handle[t].h /\ e.id # handle[t].id

\* What a record of an outcome holds of it; curation puts rows_in into bytes.
Tells(q, e) ==
    /\ e.id = q.id /\ e.kind = q.kind /\ e.status = q.status /\ e.rows = q.rows
    /\ q.kind = "curate" => q.bytes - q.rows = IF q.status = "done" THEN e.rowsIn - e.rows ELSE 0

\* Every record is of a live context manager or tells an outcome, one each.
RecordsSound ==
    /\ \A i \in DOMAIN queries :
          /\ queries[i].id \in 1..seq
          /\ \A j \in DOMAIN queries : j # i => queries[j].id # queries[i].id
          /\ IF queries[i].status = "running"
             THEN /\ queries[i].rows = 0 /\ queries[i].bytes = 0
                  /\ \E t \in Threads : Live(t) /\ handle[t].id = queries[i].id /\ handle[t].kind = queries[i].kind
             ELSE \E e \in ended : Tells(queries[i], e)
LiveRecorded ==
    \A t \in Threads : Live(t) =>
        \E i \in DOMAIN queries : queries[i].id = handle[t].id /\ queries[i].status = "running"

AuditSound ==
    /\ \A i \in DOMAIN audit : \E e \in ended :
          /\ e.h = audit[i].h /\ e.kind = "query" /\ e.status = audit[i].status /\ e.rows = audit[i].rows
    /\ \A i, j \in DOMAIN audit : i # j => audit[i].h # audit[j].h
    /\ \A e \in ended : e.kind = "query" /\ e.audited => \E i \in DOMAIN audit : audit[i].h = e.h

StagesSound == \A s \in stages : s.query \in Ids \/ s.late
FinishedBounded == Cardinality(FinishedAt(queries)) <= MaxQueries

IInv == /\ TypeOK /\ HandlesApart /\ OutcomesApart /\ RecordsSound /\ LiveRecorded
        /\ AuditSound /\ StagesSound /\ FinishedBounded
-----------------------------------------------------------------------------
\* The loop of partition has a value after every turn.
LEMMA PickedLoop ==
    ASSUME NEW qs, NEW S, Len(qs) \in Nat
    PROVE  \E k : /\ k[0] = <<>>
                  /\ \A i \in 1..Len(qs) : k[i] = IF i \in S THEN Append(k[i - 1], qs[i]) ELSE k[i - 1]
                  /\ Picked(qs, S) = k[Len(qs)]
  <1> DEFINE Turn(prev, i) == IF i \in S THEN Append(prev, qs[i]) ELSE prev
             Loop(n) == \E k : k = [i \in 0..n |-> IF i = 0 THEN <<>> ELSE Turn(k[i - 1], i)]
             T == {n \in Nat : Loop(n)}
             g == CHOOSE g : g = [i \in 0..Len(qs) |-> IF i = 0 THEN <<>> ELSE Turn(g[i - 1], i)]
  <1>5. Picked(qs, S) = g[Len(qs)]
    BY DEF Picked
  <1> HIDE DEF Turn
  <1>1. 0 \in T
    <2> DEFINE k == [i \in 0..0 |-> <<>>]
    <2>1. k = [i \in 0..0 |-> IF i = 0 THEN <<>> ELSE Turn(k[i - 1], i)]
      OBVIOUS
    <2> QED BY <2>1
  <1>2. ASSUME NEW n \in Nat, n \in T PROVE n + 1 \in T
    <2>1. PICK k : k = [i \in 0..n |-> IF i = 0 THEN <<>> ELSE Turn(k[i - 1], i)]
      BY <1>2
    <2>2. k[0] = <<>> /\ \A i \in 1..n : k[i] = Turn(k[i - 1], i)
      BY <2>1
    <2> DEFINE m == [i \in 0..(n + 1) |-> IF i = n + 1 THEN Turn(k[n], n + 1) ELSE k[i]]
    <2>3. m[n + 1] = Turn(k[n], n + 1) /\ \A i \in 0..n : m[i] = k[i]
      OBVIOUS
    <2>4. m = [i \in 0..(n + 1) |-> m[i]]
      OBVIOUS
    <2> HIDE DEF m
    <2>5. \A i \in 0..(n + 1) : m[i] = IF i = 0 THEN <<>> ELSE Turn(m[i - 1], i)
      <3>1. \A i \in 1..n : i - 1 \in 0..n /\ i \in 0..n
        OBVIOUS
      <3>2. \A i \in 1..n : m[i] = Turn(m[i - 1], i)
        BY <2>2, <2>3, <3>1
      <3>3. (n + 1) - 1 = n /\ n \in 0..n /\ 0 \in 0..n
        OBVIOUS
      <3>4. \A i \in 0..(n + 1) : i = 0 \/ i \in 1..n \/ i = n + 1
        OBVIOUS
      <3> QED BY <2>2, <2>3, <3>2, <3>3, <3>4
    <2>6. m = [i \in 0..(n + 1) |-> IF i = 0 THEN <<>> ELSE Turn(m[i - 1], i)]
      BY <2>4, <2>5
    <2> QED BY <2>6
  <1>3. \E k : k = [i \in 0..Len(qs) |-> IF i = 0 THEN <<>> ELSE Turn(k[i - 1], i)]
    <2> HIDE DEF T
    <2>1. \A n \in Nat : n \in T
      BY <1>1, <1>2, Induction
    <2> QED BY <2>1 DEF T
  <1>4. g = [i \in 0..Len(qs) |-> IF i = 0 THEN <<>> ELSE Turn(g[i - 1], i)]
    BY <1>3
  <1> HIDE DEF g
  <1>6. g[0] = <<>> /\ \A i \in 1..Len(qs) : g[i] = Turn(g[i - 1], i)
    BY <1>4
  <1> QED BY <1>5, <1>6 DEF Turn

\* p holds the records of qs at the positions in A, each once.
Comes(p, qs, A) ==
    \E o \in [1..Len(p) -> A] :
        /\ \A i \in A : \E j \in 1..Len(p) : o[j] = i
        /\ \A j, l \in 1..Len(p) : o[j] = o[l] => j = l
        /\ \A j \in 1..Len(p) : p[j] = qs[o[j]]

\* A turn of the loop that takes a record.
LEMMA ComesMore ==
    ASSUME NEW R, NEW p \in Seq(R), NEW qs, NEW A, NEW i, i \notin A, qs[i] \in R, Comes(p, qs, A)
    PROVE  Append(p, qs[i]) \in Seq(R) /\ Comes(Append(p, qs[i]), qs, A \cup {i})
  <1> DEFINE n == Len(p)
             r == Append(p, qs[i])
  <1>1. n \in Nat /\ Len(r) = n + 1 /\ r[n + 1] = qs[i] /\ \A j \in 1..n : r[j] = p[j]
    OBVIOUS
  <1>2. r \in Seq(R)
    OBVIOUS
  <1>3. PICK o \in [1..n -> A] : /\ \A a \in A : \E j \in 1..n : o[j] = a
                                 /\ \A j, l \in 1..n : o[j] = o[l] => j = l
                                 /\ \A j \in 1..n : p[j] = qs[o[j]]
    BY DEF Comes
  <1> HIDE DEF r, n
  <1> DEFINE q == [j \in 1..(n + 1) |-> IF j = n + 1 THEN i ELSE o[j]]
  <1>4. \A j \in 1..(n + 1) : j = n + 1 \/ j \in 1..n
    BY <1>1
  <1>5. 1..n \subseteq 1..(n + 1) /\ n + 1 \in 1..(n + 1) /\ n + 1 \notin 1..n
    BY <1>1
  <1>6. q[n + 1] = i /\ \A j \in 1..n : q[j] = o[j] /\ o[j] \in A
    BY <1>5
  <1>7. q \in [1..(n + 1) -> A \cup {i}]
    BY <1>4, <1>6
  <1> HIDE DEF q
  <1>8. \A a \in A \cup {i} : \E j \in 1..(n + 1) : q[j] = a
    BY <1>3, <1>5, <1>6
  <1>9. \A j, l \in 1..(n + 1) : q[j] = q[l] => j = l
    BY <1>3, <1>4, <1>6
  <1>10. \A j \in 1..(n + 1) : r[j] = qs[q[j]]
    BY <1>1, <1>3, <1>4, <1>6
  <1>11. Comes(r, qs, A \cup {i})
    <2> DEFINE m == n + 1
    <2>1. Len(r) = m /\ q \in [1..m -> A \cup {i}]
      BY <1>1, <1>7
    <2>2. /\ \A a \in A \cup {i} : \E j \in 1..m : q[j] = a
          /\ \A j, l \in 1..m : q[j] = q[l] => j = l
          /\ \A j \in 1..m : r[j] = qs[q[j]]
      BY <1>8, <1>9, <1>10
    <2> HIDE DEF m
    <2> QED BY <2>1, <2>2, SMTT(40) DEF Comes
  <1> QED BY <1>2, <1>11 DEF r

\* What partition picks are the records at the positions asked for.
LEMMA PickedFacts ==
    ASSUME NEW R, NEW qs \in Seq(R), NEW S \in SUBSET DOMAIN qs
    PROVE  Picked(qs, S) \in Seq(R) /\ Comes(Picked(qs, S), qs, S)
  <1>1. Len(qs) \in Nat /\ DOMAIN qs = 1..Len(qs) /\ \A i \in 1..Len(qs) : qs[i] \in R
    OBVIOUS
  <1>2. PICK k : /\ k[0] = <<>>
                 /\ \A i \in 1..Len(qs) : k[i] = IF i \in S THEN Append(k[i - 1], qs[i]) ELSE k[i - 1]
                 /\ Picked(qs, S) = k[Len(qs)]
    BY <1>1, PickedLoop
  <1> DEFINE Good(n) == n <= Len(qs) => k[n] \in Seq(R) /\ Comes(k[n], qs, S \cap 1..n)
             T == {n \in Nat : Good(n)}
  <1>3. 0 \in T
    <2>1. <<>> \in Seq(R) /\ Len(<<>>) = 0 /\ 1..0 = {} /\ S \cap 1..0 = {}
      OBVIOUS
    <2>2. <<>> \in [1..0 -> {}]
      OBVIOUS
    <2>3. Comes(<<>>, qs, {})
      BY <2>1, <2>2 DEF Comes
    <2> QED BY <1>2, <2>1, <2>3
  <1>4. ASSUME NEW n \in Nat, n \in T PROVE n + 1 \in T
    <2>1. SUFFICES ASSUME n + 1 <= Len(qs) PROVE k[n + 1] \in Seq(R) /\ Comes(k[n + 1], qs, S \cap 1..(n + 1))
      OBVIOUS
    <2>2. n <= Len(qs) /\ n + 1 \in 1..Len(qs) /\ (n + 1) - 1 = n
      BY <1>1, <2>1
    <2>3. k[n] \in Seq(R) /\ Comes(k[n], qs, S \cap 1..n)
      BY <1>4, <2>2
    <2>4. k[n + 1] = IF n + 1 \in S THEN Append(k[n], qs[n + 1]) ELSE k[n]
      BY <1>2, <2>2
    <2>5. 1..(n + 1) = 1..n \cup {n + 1} /\ n + 1 \notin 1..n
      OBVIOUS
    <2>6. CASE n + 1 \in S
      <3>1. S \cap 1..(n + 1) = (S \cap 1..n) \cup {n + 1} /\ n + 1 \notin S \cap 1..n
        BY <2>5, <2>6
      <3>2. qs[n + 1] \in R
        BY <1>1, <2>2
      <3> DEFINE A == S \cap 1..n
      <3>3. n + 1 \notin A /\ Comes(k[n], qs, A)
        BY <2>3, <3>1
      <3> HIDE DEF A
      <3>4. Append(k[n], qs[n + 1]) \in Seq(R) /\ Comes(Append(k[n], qs[n + 1]), qs, A \cup {n + 1})
        BY <2>3, <3>2, <3>3, ComesMore
      <3> QED BY <2>4, <2>6, <3>1, <3>4 DEF A
    <2>7. CASE n + 1 \notin S
      <3>1. S \cap 1..(n + 1) = S \cap 1..n
        BY <2>5, <2>7
      <3> QED BY <2>3, <2>4, <2>7, <3>1
    <2> QED BY <2>6, <2>7
  <1>5. Len(qs) \in T
    <2> HIDE DEF T
    <2> QED BY <1>1, <1>3, <1>4, Induction
  <1>6. S \cap 1..Len(qs) = S
    BY <1>1
  <1>7. Good(Len(qs)) /\ Len(qs) <= Len(qs)
    BY <1>1, <1>5
  <1> DEFINE n == Len(qs)
  <1>8. k[n] \in Seq(R) /\ Comes(k[n], qs, S)
    BY <1>6, <1>7
  <1> QED BY <1>2, <1>8

-----------------------------------------------------------------------------
\* The newest records are the last ones, at most as many as asked for.
LEMMA NewestFacts ==
    ASSUME NEW R, NEW fin \in Seq(R), NEW n \in Nat
    PROVE  /\ Newest(fin, n) \in Seq(R) /\ Len(Newest(fin, n)) <= n
           /\ \E d \in Nat : \A j \in 1..Len(Newest(fin, n)) : d + j \in 1..Len(fin) /\ Newest(fin, n)[j] = fin[d + j]
  <1> DEFINE d == Monus(Len(fin), n)
             s == Newest(fin, n)
  <1>1. d \in Nat /\ Len(fin) \in Nat /\ d <= Len(fin) /\ Len(fin) - d <= n
    BY DEF Monus
  <1>2. s = SubSeq(fin, d + 1, Len(fin))
    BY DEF Newest
  <1> HIDE DEF d, s
  <1>3. s \in Seq(R) /\ Len(s) = Len(fin) - d /\ \A j \in 1..Len(s) : s[j] = fin[d + j]
    BY <1>1, <1>2
  <1>4. \A j \in 1..Len(s) : d + j \in 1..Len(fin)
    BY <1>1, <1>3
  <1> QED BY <1>1, <1>3, <1>4 DEF s

\* Records with different ids.
IdsApart(qs) == \A i, j \in DOMAIN qs : i # j => qs[i].id # qs[j].id

\* What is left of qs is of qs, with all running records and few others.
LeftOf(left, qs) ==
    /\ left \in Seq(Records) /\ IdsApart(left)
    /\ \A j \in DOMAIN left : \E i \in DOMAIN qs : left[j] = qs[i]
    /\ \A i \in RunningAt(qs) : \E j \in DOMAIN left : left[j] = qs[i]
    /\ Cardinality(FinishedAt(left)) <= MaxQueries

\* Eviction keeps all running records and bounds the others.
LEMMA TrimLeaves ==
    ASSUME NEW qs \in Seq(Records), IdsApart(qs)
    PROVE  LeftOf(Trim(qs), qs)
  <1> DEFINE run == Picked(qs, RunningAt(qs))
             fin == Picked(qs, FinishedAt(qs))
             n == Monus(MaxQueries, Len(run))
             new == Newest(fin, n)
             left == run \o new
  <1>0. MaxQueries \in Nat /\ Len(qs) \in Nat /\ DOMAIN qs = 1..Len(qs)
    BY ObserveAssumption
  <1>1. CASE Len(qs) <= MaxQueries
    <2>1. Trim(qs) = qs
      BY <1>1 DEF Trim
    <2>2. FinishedAt(qs) \subseteq 1..Len(qs)
      BY <1>0 DEF FinishedAt
    <2>3. IsFiniteSet(1..Len(qs)) /\ Cardinality(1..Len(qs)) = Len(qs)
      BY <1>0, FS_Interval
    <2>4. Cardinality(FinishedAt(qs)) <= Len(qs) /\ Cardinality(FinishedAt(qs)) \in Nat
      BY <2>2, <2>3, FS_Subset, FS_CardinalityType
    <2>5. \A i \in RunningAt(qs) : i \in DOMAIN qs
      BY DEF RunningAt
    <2> QED BY <1>0, <1>1, <2>1, <2>4, <2>5 DEF LeftOf
  <1>2. CASE ~(Len(qs) <= MaxQueries)
    <2>1. Trim(qs) = left
      BY <1>2 DEF Trim
    <2>2. RunningAt(qs) \in SUBSET DOMAIN qs /\ FinishedAt(qs) \in SUBSET DOMAIN qs
      BY DEF RunningAt, FinishedAt
    <2>3. run \in Seq(Records) /\ Comes(run, qs, RunningAt(qs))
      BY <2>2, PickedFacts
    <2>4. fin \in Seq(Records) /\ Comes(fin, qs, FinishedAt(qs))
      BY <2>2, PickedFacts
    <2> HIDE DEF run, fin
    <2>5. n \in Nat /\ n <= MaxQueries
      BY <1>0, <2>3 DEF Monus
    <2> HIDE DEF n
    <2>6. /\ new \in Seq(Records) /\ Len(new) <= n
          /\ \E d \in Nat : \A j \in 1..Len(new) : d + j \in 1..Len(fin) /\ new[j] = fin[d + j]
      BY <2>4, <2>5, NewestFacts
    <2> HIDE DEF new
    <2>7. PICK d \in Nat : \A j \in 1..Len(new) : d + j \in 1..Len(fin) /\ new[j] = fin[d + j]
      BY <2>6
    <2>8. PICK o \in [1..Len(run) -> RunningAt(qs)] :
             /\ \A i \in RunningAt(qs) : \E j \in 1..Len(run) : o[j] = i
             /\ \A j, l \in 1..Len(run) : o[j] = o[l] => j = l
             /\ \A j \in 1..Len(run) : run[j] = qs[o[j]]
      BY <2>3 DEF Comes
    <2>9. PICK u \in [1..Len(fin) -> FinishedAt(qs)] :
             /\ \A i \in FinishedAt(qs) : \E j \in 1..Len(fin) : u[j] = i
             /\ \A j, l \in 1..Len(fin) : u[j] = u[l] => j = l
             /\ \A j \in 1..Len(fin) : fin[j] = qs[u[j]]
      BY <2>4 DEF Comes
    <2> DEFINE r == Len(run)
               m == Len(new)
               at == [j \in 1..(r + m) |-> IF j <= r THEN o[j] ELSE u[d + (j - r)]]
    <2>10. /\ left \in Seq(Records) /\ Len(left) = r + m /\ r \in Nat /\ m \in Nat
           /\ \A j \in 1..r : left[j] = run[j]
           /\ \A j \in 1..m : left[r + j] = new[j]
      BY <2>3, <2>6
    <2> HIDE DEF left, r, m
    <2>11. \A j \in 1..(r + m) : j \in 1..r \/ (j - r \in 1..m /\ ~(j <= r) /\ r + (j - r) = j)
      BY <2>10
    <2>12. \A j \in 1..r : j \in 1..(r + m) /\ at[j] = o[j] /\ at[j] \in RunningAt(qs) /\ left[j] = qs[at[j]]
      <3>1. \A j \in 1..r : j \in 1..(r + m) /\ j <= r /\ j \in 1..Len(run)
        BY <2>10 DEF r
      <3> QED BY <2>8, <2>10, <3>1
    <2>13. \A j \in 1..(r + m) : ~(j <= r) => /\ d + (j - r) \in 1..Len(fin)
                                              /\ at[j] = u[d + (j - r)] /\ at[j] \in FinishedAt(qs) /\ left[j] = qs[at[j]]
      <3>1. ASSUME NEW j \in 1..(r + m), ~(j <= r)
            PROVE  d + (j - r) \in 1..Len(fin) /\ left[j] = fin[d + (j - r)]
        <4>1. j - r \in 1..m /\ r + (j - r) = j
          BY <2>11, <3>1
        <4>2. left[j] = new[j - r]
          BY <2>10, <4>1
        <4> QED BY <2>7, <4>1, <4>2 DEF m
      <3>2. ASSUME NEW j \in 1..(r + m), ~(j <= r)
            PROVE  at[j] = u[d + (j - r)]
        BY <3>2
      <3> QED BY <2>9, <3>1, <3>2
    <2> HIDE DEF at
    <2>14. RunningAt(qs) \cap FinishedAt(qs) = {}
      BY DEF FinishedAt
    <2>15. \A j \in 1..(r + m) : at[j] \in DOMAIN qs /\ left[j] = qs[at[j]]
      BY <2>2, <2>11, <2>12, <2>13
    <2>16. ASSUME NEW j \in 1..(r + m), NEW l \in 1..(r + m), at[j] = at[l] PROVE j = l
      <3>1. CASE j <= r /\ l <= r
        <4>1. j \in 1..r /\ l \in 1..r
          BY <2>11, <3>1
        <4> QED BY <2>8, <2>12, <2>16, <4>1 DEF r
      <3>2. CASE ~(j <= r) /\ ~(l <= r)
        <4>1. d + (j - r) = d + (l - r)
          BY <2>9, <2>13, <2>16, <3>2
        <4> QED BY <2>7, <2>10, <4>1
      <3>3. CASE j <= r /\ ~(l <= r)
        BY <2>11, <2>12, <2>13, <2>14, <2>16, <3>3
      <3>4. CASE ~(j <= r) /\ l <= r
        BY <2>11, <2>12, <2>13, <2>14, <2>16, <3>4
      <3> QED BY <3>1, <3>2, <3>3, <3>4
    <2>17. DOMAIN left = 1..(r + m)
      BY <2>10
    <2>18. IdsApart(left)
      BY <2>15, <2>16, <2>17 DEF IdsApart
    <2>19. \A j \in DOMAIN left : \E i \in DOMAIN qs : left[j] = qs[i]
      BY <2>15, <2>17
    <2>20. ASSUME NEW i \in RunningAt(qs) PROVE \E j \in DOMAIN left : left[j] = qs[i]
      <3>1. PICK j \in 1..r : o[j] = i
        BY <2>8 DEF r
      <3> QED BY <2>12, <2>17, <3>1
    <2>21. Cardinality(FinishedAt(left)) <= MaxQueries
      <3> DEFINE I == (r + 1)..(r + m)
      <3>1. \A j \in 1..r : qs[at[j]].status = "running"
        BY <2>12 DEF RunningAt
      <3>2. FinishedAt(left) \subseteq I
        <4>1. \A j \in 1..r : j \notin FinishedAt(left)
          BY <2>12, <2>17, <3>1 DEF FinishedAt, RunningAt
        <4>2. \A j \in 1..(r + m) : j \in 1..r \/ j \in I
          BY <2>10
        <4>3. FinishedAt(left) \subseteq 1..(r + m)
          BY <2>17 DEF FinishedAt
        <4> QED BY <4>1, <4>2, <4>3
      <3>3. IsFiniteSet(I) /\ Cardinality(I) = m
        <4>1. r + 1 \in Int /\ r + m \in Int
          BY <2>10
        <4>2. IsFiniteSet(I) /\ Cardinality(I) = IF r + 1 > r + m THEN 0 ELSE (r + m) - (r + 1) + 1
          BY <4>1, FS_Interval
        <4> QED BY <2>10, <4>2
      <3> HIDE DEF I
      <3>4. Cardinality(FinishedAt(left)) <= m /\ Cardinality(FinishedAt(left)) \in Nat
        BY <3>2, <3>3, FS_Subset, FS_CardinalityType
      <3> QED BY <1>0, <2>5, <2>6, <2>10, <3>4 DEF m
    <2> QED BY <2>1, <2>10, <2>18, <2>19, <2>20, <2>21 DEF LeftOf
  <1> QED BY <1>1, <1>2

-----------------------------------------------------------------------------
\* The element that SumFunctionOnSet takes next, and what it then does.
Taken(S) == CHOOSE x \in S : TRUE
Summed(f, S, g) == IF S = {} THEN 0 ELSE f[Taken(S)] + g[S \ {Taken(S)}]

\* The fold is defined,
LEMMA SumFold ==
    ASSUME NEW f, NEW xs, IsFiniteSet(xs)
    PROVE  \E g : /\ g = [s \in SUBSET xs |-> Summed(f, s, g)]
                  /\ SumFunctionOnSet(f, xs) = g[xs]
  <1> DEFINE D(n) == {s \in SUBSET xs : Cardinality(s) <= n}
             Loop(n) == \E k : k = [s \in D(n) |-> Summed(f, s, k)]
             S == {n \in Nat : Loop(n)}
             g == CHOOSE g : g = [s \in SUBSET xs |-> Summed(f, s, g)]
  <1>1. SumFunctionOnSet(f, xs) = g[xs]
    BY DEF SumFunctionOnSet, FoldFunctionOnSet, MapThenFoldSet, Summed, Taken
  <1>2. \A s \in SUBSET xs : /\ IsFiniteSet(s) /\ Cardinality(s) \in Nat /\ (Cardinality(s) = 0 <=> s = {})
                             /\ Cardinality(s) <= Cardinality(xs)
    BY FS_Subset, FS_CardinalityType, FS_EmptySet
  <1>3. \A s \in SUBSET xs : s # {} => /\ Taken(s) \in s /\ s \ {Taken(s)} \in SUBSET xs
                                       /\ Cardinality(s \ {Taken(s)}) = Cardinality(s) - 1
    BY <1>2, FS_RemoveElement DEF Taken
  <1>4. 0 \in S
    <2> DEFINE k == [s \in D(0) |-> 0]
    <2>1. \A s \in D(0) : s = {}
      BY <1>2
    <2>2. k = [s \in D(0) |-> Summed(f, s, k)]
      BY <2>1 DEF Summed
    <2> QED BY <2>2
  <1>5. ASSUME NEW n \in Nat, n \in S PROVE n + 1 \in S
    <2>1. PICK k : k = [s \in D(n) |-> Summed(f, s, k)]
      BY <1>5
    <2> DEFINE m == [s \in D(n + 1) |-> IF s \in D(n) THEN k[s] ELSE Summed(f, s, k)]
    <2>2. D(n) \subseteq D(n + 1)
      BY <1>2
    <2>3. \A s \in D(n) : m[s] = k[s]
      BY <2>2
    <2>4. \A s \in D(n + 1) : s # {} => s \ {Taken(s)} \in D(n)
      BY <1>2, <1>3
    <2>5. \A s \in D(n + 1) : Summed(f, s, k) = Summed(f, s, m)
      BY <2>3, <2>4 DEF Summed
    <2>6. \A s \in D(n + 1) : m[s] = Summed(f, s, k)
      BY <2>1
    <2>7. m = [s \in D(n + 1) |-> m[s]]
      OBVIOUS
    <2> HIDE DEF m, D
    <2>8. m = [s \in D(n + 1) |-> Summed(f, s, m)]
      BY <2>5, <2>6, <2>7
    <2> QED BY <2>8
  <1>6. D(Cardinality(xs)) = SUBSET xs /\ Cardinality(xs) \in Nat
    BY <1>2
  <1>7. \A n \in Nat : n \in S
    <2> HIDE DEF S
    <2> QED BY <1>4, <1>5, Induction
  <1>8. Loop(Cardinality(xs))
    BY <1>6, <1>7
  <1>9. g = [s \in SUBSET xs |-> Summed(f, s, g)]
    BY <1>6, <1>8
  <1> HIDE DEF g
  <1> QED BY <1>1, <1>9

\* agrees with itself on subsets,
LEMMA SumStep ==
    ASSUME NEW f, NEW xs, IsFiniteSet(xs)
    PROVE  SumFunctionOnSet(f, xs) = IF xs = {} THEN 0 ELSE f[Taken(xs)] + SumFunctionOnSet(f, xs \ {Taken(xs)})
  <1> DEFINE ys == xs \ {Taken(xs)}
  <1>1. IsFiniteSet(ys) /\ ys \in SUBSET xs /\ xs \in SUBSET xs
    BY FS_RemoveElement
  <1>2. PICK g : g = [s \in SUBSET xs |-> Summed(f, s, g)] /\ SumFunctionOnSet(f, xs) = g[xs]
    BY SumFold
  <1> HIDE DEF ys
  <1>3. PICK h : h = [s \in SUBSET ys |-> Summed(f, s, h)] /\ SumFunctionOnSet(f, ys) = h[ys]
    BY <1>1, SumFold
  <1>4. SumFunctionOnSet(f, xs) = IF xs = {} THEN 0 ELSE f[Taken(xs)] + g[ys]
    BY <1>1, <1>2 DEF Summed, ys
  <1> DEFINE S == {n \in Nat : \A s \in SUBSET ys : Cardinality(s) = n => g[s] = h[s]}
  <1>5. \A s \in SUBSET ys : /\ s \in SUBSET xs /\ IsFiniteSet(s) /\ Cardinality(s) \in Nat
                             /\ (Cardinality(s) = 0 <=> s = {})
    BY <1>1, FS_Subset, FS_CardinalityType, FS_EmptySet
  <1>6. \A s \in SUBSET ys : s # {} => /\ s \ {Taken(s)} \in SUBSET ys
                                       /\ Cardinality(s \ {Taken(s)}) = Cardinality(s) - 1
    BY <1>5, FS_RemoveElement DEF Taken
  <1>7. \A s \in SUBSET ys : g[s] = Summed(f, s, g) /\ h[s] = Summed(f, s, h)
    <2>1. \A s \in SUBSET xs : g[s] = Summed(f, s, g)
      BY <1>2
    <2>2. \A s \in SUBSET ys : h[s] = Summed(f, s, h)
      BY <1>3
    <2> QED BY <1>5, <2>1, <2>2
  <1>8. 0 \in S
    <2>1. \A s \in SUBSET ys : Cardinality(s) = 0 => g[s] = h[s]
      BY <1>5, <1>7 DEF Summed
    <2> QED BY <2>1
  <1>9. ASSUME NEW n \in Nat, n \in S PROVE n + 1 \in S
    <2>1. ASSUME NEW s \in SUBSET ys, Cardinality(s) = n + 1 PROVE g[s] = h[s]
      <3>1. s # {} /\ Cardinality(s \ {Taken(s)}) = n /\ s \ {Taken(s)} \in SUBSET ys
        BY <1>5, <1>6, <2>1
      <3>2. g[s \ {Taken(s)}] = h[s \ {Taken(s)}]
        BY <1>9, <3>1
      <3> QED BY <1>7, <3>1, <3>2 DEF Summed
    <2> QED BY <2>1
  <1>10. \A n \in Nat : n \in S
    <2> HIDE DEF S
    <2> QED BY <1>8, <1>9, Induction
  <1>11. g[ys] = h[ys]
    <2>1. ys \in SUBSET ys /\ Cardinality(ys) \in Nat
      BY <1>5
    <2> QED BY <1>10, <2>1
  <1> QED BY <1>3, <1>4, <1>11 DEF ys

\* and adds every value once, whatever the order.
LEMMA SumAdds ==
    ASSUME NEW f, NEW xs, IsFiniteSet(xs), \A x \in xs : f[x] \in Int
    PROVE  /\ SumFunctionOnSet(f, {}) = 0 /\ SumFunctionOnSet(f, xs) \in Int
           /\ \A x \in xs : SumFunctionOnSet(f, xs) = f[x] + SumFunctionOnSet(f, xs \ {x})
  <1> DEFINE Adds(s) == SumFunctionOnSet(f, s) \in Int /\ \A x \in s : SumFunctionOnSet(f, s) = f[x] + SumFunctionOnSet(f, s \ {x})
             S == {n \in Nat : \A s \in SUBSET xs : Cardinality(s) <= n => Adds(s)}
  <1>1. SumFunctionOnSet(f, {}) = 0
    BY SumStep, FS_EmptySet
  <1>2. \A s \in SUBSET xs : /\ IsFiniteSet(s) /\ Cardinality(s) \in Nat
                             /\ (Cardinality(s) = 0 <=> s = {})
    BY FS_Subset, FS_CardinalityType, FS_EmptySet
  <1>3. \A s \in SUBSET xs : \A x : x \in s => s \ {x} \in SUBSET xs /\ Cardinality(s \ {x}) = Cardinality(s) - 1
    BY <1>2, FS_RemoveElement
  <1>4. 0 \in S
    <2>1. \A s \in SUBSET xs : Cardinality(s) <= 0 => Adds(s)
      BY <1>1, <1>2
    <2> QED BY <2>1
  <1>5. ASSUME NEW n \in Nat, n \in S PROVE n + 1 \in S
    <2> HIDE DEF Adds
    <2>0. \A s \in SUBSET xs : Cardinality(s) <= n => Adds(s)
      BY <1>5
    <2>1. ASSUME NEW s \in SUBSET xs, Cardinality(s) = n + 1 PROVE Adds(s)
      <3> DEFINE y == Taken(s)
      <3>1. s # {} /\ y \in s /\ f[y] \in Int
        BY <1>2, <2>1 DEF Taken
      <3>2. SumFunctionOnSet(f, s) = f[y] + SumFunctionOnSet(f, s \ {y})
        BY <1>2, <3>1, SumStep
      <3> HIDE DEF y
      <3>3. \A x \in s : s \ {x} \in SUBSET xs /\ Cardinality(s \ {x}) = n /\ Adds(s \ {x})
        BY <1>3, <2>0, <2>1
      <3>4. ASSUME NEW x \in s PROVE SumFunctionOnSet(f, s) = f[x] + SumFunctionOnSet(f, s \ {x})
        <4>1. CASE x = y
          BY <3>2, <4>1
        <4>2. CASE x # y
          <5>1. SumFunctionOnSet(f, s \ {y}) = f[x] + SumFunctionOnSet(f, (s \ {y}) \ {x})
            BY <3>1, <3>3, <4>2 DEF Adds
          <5>2. SumFunctionOnSet(f, s \ {x}) = f[y] + SumFunctionOnSet(f, (s \ {x}) \ {y})
            BY <3>1, <3>3, <4>2 DEF Adds
          <5>3. (s \ {y}) \ {x} = (s \ {x}) \ {y}
            OBVIOUS
          <5>4. SumFunctionOnSet(f, (s \ {x}) \ {y}) \in Int /\ f[x] \in Int
            <6>1. y \in s \ {x} /\ s \ {x} \in SUBSET xs /\ Cardinality(s \ {x}) = n
              BY <3>1, <3>3, <4>2
            <6>2. (s \ {x}) \ {y} \in SUBSET xs /\ Cardinality((s \ {x}) \ {y}) <= n
              BY <1>3, <6>1
            <6>3. Adds((s \ {x}) \ {y})
              BY <2>0, <6>2
            <6> QED BY <6>3 DEF Adds
          <5>5. SumFunctionOnSet(f, (s \ {y}) \ {x}) = SumFunctionOnSet(f, (s \ {x}) \ {y})
            BY <5>3
          <5>6. \A a, b, c \in Int : a + (b + c) = b + (a + c)
            OBVIOUS
          <5> QED BY <3>1, <3>2, <5>1, <5>2, <5>4, <5>5, <5>6
        <4> QED BY <4>1, <4>2
      <3>5. SumFunctionOnSet(f, s) \in Int
        <4>1. SumFunctionOnSet(f, s \ {y}) \in Int
          BY <3>1, <3>3 DEF Adds
        <4>2. \A a, b \in Int : a + b \in Int
          OBVIOUS
        <4> QED BY <3>1, <3>2, <4>1, <4>2
      <3> QED BY <3>4, <3>5 DEF Adds
    <2>2. \A s \in SUBSET xs : Cardinality(s) <= n + 1 => Cardinality(s) <= n \/ Cardinality(s) = n + 1
      BY <1>2
    <2> QED BY <2>0, <2>1, <2>2
  <1>6. \A n \in Nat : n \in S
    <2> HIDE DEF S
    <2> QED BY <1>4, <1>5, Induction
  <1>7. Adds(xs)
    <2>1. xs \in SUBSET xs /\ Cardinality(xs) \in Nat
      BY <1>2
    <2> QED BY <1>6, <2>1
  <1> QED BY <1>1, <1>7

-----------------------------------------------------------------------------
\* Two sums over S differ by a third, where each of its terms is a difference
\* of theirs and all their other terms are equal.
LEMMA SumMatch ==
    ASSUME NEW f, NEW g, NEW S, IsFiniteSet(S), \A i \in S : f[i] \in Int /\ g[i] \in Int,
           NEW h, NEW D, IsFiniteSet(D), \A e \in D : h[e] \in Int,
           NEW m, \A e \in D : m[e] \in S /\ f[m[e]] - g[m[e]] = h[e],
           \A d, e \in D : m[d] = m[e] => d = e,
           \A i \in S : (\A e \in D : m[e] # i) => f[i] = g[i]
    PROVE  SumFunctionOnSet(f, S) - SumFunctionOnSet(g, S) = SumFunctionOnSet(h, D)
  <1> DEFINE F(s) == SumFunctionOnSet(f, s)
             G(s) == SumFunctionOnSet(g, s)
             H(s) == SumFunctionOnSet(h, s)
             At(s) == {e \in D : m[e] \in s}
             Same(s) == F(s) - G(s) = H(At(s))
             N == {n \in Nat : \A s \in SUBSET S : Cardinality(s) = n => Same(s)}
  <1>1. \A s \in SUBSET S : IsFiniteSet(s) /\ Cardinality(s) \in Nat /\ (Cardinality(s) = 0 <=> s = {})
    BY FS_Subset, FS_CardinalityType, FS_EmptySet
  <1>2. \A s \in SUBSET S : \A i \in s : s \ {i} \in SUBSET S /\ Cardinality(s \ {i}) = Cardinality(s) - 1
    BY <1>1, FS_RemoveElement
  <1>3. \A s \in SUBSET S : /\ F(s) \in Int /\ G(s) \in Int
                            /\ \A i \in s : F(s) = f[i] + F(s \ {i}) /\ G(s) = g[i] + G(s \ {i})
    BY <1>1, SumAdds
  <1>4. \A s \in SUBSET D : IsFiniteSet(s) /\ \A e \in s : h[e] \in Int
    BY FS_Subset
  <1>5. \A s \in SUBSET D : H(s) \in Int /\ \A e \in s : H(s) = h[e] + H(s \ {e})
    BY <1>4, SumAdds
  <1>6. F({}) = 0 /\ G({}) = 0 /\ H({}) = 0
    BY FS_EmptySet, SumAdds
  <1> HIDE DEF F, G, H
  <1>7. 0 \in N
    <2>1. At({}) = {}
      OBVIOUS
    <2>2. Same({})
      BY <1>6, <2>1
    <2>3. \A s \in SUBSET S : Cardinality(s) = 0 => s = {}
      BY <1>1
    <2> HIDE DEF Same
    <2>4. \A s \in SUBSET S : Cardinality(s) = 0 => Same(s)
      BY <2>2, <2>3
    <2> QED BY <2>4
  <1>8. ASSUME NEW n \in Nat, n \in N PROVE n + 1 \in N
    <2>1. ASSUME NEW s \in SUBSET S, Cardinality(s) = n + 1 PROVE Same(s)
      <3>1. PICK i : i \in s
        BY <1>1, <2>1
      <3> DEFINE r == s \ {i}
      <3>2. r \in SUBSET S /\ Cardinality(r) = n
        BY <1>2, <2>1, <3>1
      <3>3. Same(r)
        BY <1>8, <3>2
      <3>4. F(s) = f[i] + F(r) /\ G(s) = g[i] + G(r) /\ i \in S
        BY <1>3, <3>1
      <3>5. F(r) \in Int /\ G(r) \in Int /\ H(At(r)) \in Int /\ f[i] \in Int /\ g[i] \in Int
        BY <1>3, <1>5, <3>2, <3>4
      <3>6. CASE \E e \in D : m[e] = i
        <4>1. PICK e \in D : m[e] = i
          BY <3>6
        <4>2. e \in At(s) /\ At(s) \ {e} = At(r) /\ At(s) \in SUBSET D
          BY <3>1, <4>1
        <4>3. H(At(s)) = h[e] + H(At(r))
          BY <1>5, <4>2
        <4>4. f[i] - g[i] = h[e] /\ h[e] \in Int
          BY <4>1
        <4> HIDE DEF At, r
        <4> QED BY <3>3, <3>4, <3>5, <4>3, <4>4
      <3>7. CASE ~(\E e \in D : m[e] = i)
        <4>1. At(s) = At(r) /\ f[i] = g[i]
          BY <3>4, <3>7
        <4> HIDE DEF At, r
        <4> QED BY <3>3, <3>4, <3>5, <4>1
      <3> QED BY <3>6, <3>7
    <2> QED BY <2>1
  <1>9. \A n \in Nat : n \in N
    <2> HIDE DEF N
    <2> QED BY <1>7, <1>8, Induction
  <1>10. Same(S)
    <2>1. S \in SUBSET S /\ Cardinality(S) \in Nat
      BY <1>1
    <2> QED BY <1>9, <2>1
  <1>11. At(S) = D
    OBVIOUS
  <1> QED BY <1>10, <1>11 DEF F, G, H

-----------------------------------------------------------------------------
\* A record after query_done or query_error with this id.
Set(q, id, status, rows, bytes) ==
    IF q.id = id THEN [q EXCEPT !.status = status, !.rows = rows, !.bytes = bytes] ELSE q

\* The fields of a record after it.
LEMMA SetFields ==
    ASSUME NEW q \in Records, NEW id, NEW status \in {"done", "error"}, NEW rows \in Nat, NEW bytes \in Nat
    PROVE  /\ Set(q, id, status, rows, bytes) \in Records
           /\ Set(q, id, status, rows, bytes).id = q.id /\ Set(q, id, status, rows, bytes).kind = q.kind
           /\ q.id = id => /\ Set(q, id, status, rows, bytes).status = status
                           /\ Set(q, id, status, rows, bytes).rows = rows
                           /\ Set(q, id, status, rows, bytes).bytes = bytes
           /\ q.id # id => Set(q, id, status, rows, bytes) = q
  <1>1. CASE q.id = id
    <2>1. Set(q, id, status, rows, bytes) = [q EXCEPT !.status = status, !.rows = rows, !.bytes = bytes]
      BY <1>1 DEF Set
    <2> QED BY <1>1, <2>1 DEF Records
  <1>2. CASE q.id # id
    BY <1>2 DEF Set
  <1> QED BY <1>1, <1>2

\* What a report leaves of the registry.
Reporting(id, status, rows, bytes) ==
    /\ queries' \in Seq(Records) /\ IdsApart(queries')
    /\ \A j \in DOMAIN queries' : \E i \in DOMAIN queries : queries'[j] = Set(queries[i], id, status, rows, bytes)
    /\ \A i \in DOMAIN queries : queries[i].status = "running" /\ queries[i].id # id =>
          \E j \in DOMAIN queries' : queries'[j] = queries[i]
    /\ Cardinality(FinishedAt(queries')) <= MaxQueries
    /\ stages' \subseteq stages
    /\ \A s \in stages' : s.query \in Ids => \E j \in DOMAIN queries' : queries'[j].id = s.query

\* query_done and query_error: one record is set, then the registry is trimmed.
LEMMA ReportLeaves ==
    ASSUME queries \in Seq(Records), IdsApart(queries),
           NEW id, NEW status \in {"done", "error"}, NEW rows \in Nat, NEW bytes \in Nat,
           Report(id, status, rows, bytes)
    PROVE  Reporting(id, status, rows, bytes)
  <1> DEFINE qs == SetQuery(id, status, rows, bytes)
             D == DOMAIN queries
  <1>1. queries' = Trim(qs) /\ stages' = {s \in stages : s.query \notin Evicted(qs)}
    BY DEF Report
  <1>2. qs = [i \in D |-> Set(queries[i], id, status, rows, bytes)]
    BY DEF SetQuery, Set
  <1>3. D = 1..Len(queries) /\ Len(queries) \in Nat /\ \A i \in D : queries[i] \in Records
    OBVIOUS
  <1>4. ASSUME NEW i \in D
        PROVE  /\ Set(queries[i], id, status, rows, bytes) \in Records
               /\ Set(queries[i], id, status, rows, bytes).id = queries[i].id
               /\ queries[i].id # id => Set(queries[i], id, status, rows, bytes) = queries[i]
    <2> DEFINE q == queries[i]
    <2>1. q \in Records
      BY <1>3
    <2> HIDE DEF q
    <2>2. /\ Set(q, id, status, rows, bytes) \in Records
          /\ Set(q, id, status, rows, bytes).id = q.id
          /\ q.id # id => Set(q, id, status, rows, bytes) = q
      BY <2>1, SetFields, SMTT(40)
    <2> QED BY <2>2 DEF q
  <1>14. \A i, j \in D : i # j => queries[i].id # queries[j].id
    BY DEF IdsApart
  <1>15. Ids = {queries[i].id : i \in D}
    BY DEF Ids
  <1> HIDE DEF qs, D
  <1>16. DOMAIN qs = D
    BY <1>2
  <1>17. \A i \in D : qs[i].id = queries[i].id
    BY <1>2, <1>4
  <1>18. \A i \in D : queries[i].id # id => qs[i] = queries[i]
    BY <1>2, <1>4
  <1>19. \A i \in D : qs[i] = Set(queries[i], id, status, rows, bytes)
    BY <1>2
  <1>6. qs \in Seq(Records)
    BY <1>2, <1>3, <1>4
  <1>7. IdsApart(qs)
    BY <1>14, <1>16, <1>17 DEF IdsApart
  <1>8. LeftOf(queries', qs)
    BY <1>1, <1>6, <1>7, TrimLeaves
  <1>9. \A i \in D : queries[i].status = "running" /\ queries[i].id # id => i \in RunningAt(qs)
    BY <1>16, <1>18 DEF RunningAt
  <1>10. \A s \in stages' : s.query \in Ids => \E j \in DOMAIN queries' : queries'[j].id = s.query
    <2>1. SUFFICES ASSUME NEW s \in stages', s.query \in Ids PROVE \E j \in DOMAIN queries' : queries'[j].id = s.query
      OBVIOUS
    <2>2. s.query \in {qs[i].id : i \in DOMAIN qs}
      BY <1>15, <1>16, <1>17, <2>1
    <2>3. s.query \notin Evicted(qs)
      BY <1>1, <2>1
    <2>4. s.query \in {Trim(qs)[i].id : i \in DOMAIN Trim(qs)}
      BY <2>2, <2>3 DEF Evicted
    <2> QED BY <1>1, <2>4
  <1>11. \A j \in DOMAIN queries' : \E i \in D : queries'[j] = Set(queries[i], id, status, rows, bytes)
    BY <1>8, <1>16, <1>19 DEF LeftOf
  <1>12. \A i \in D : queries[i].status = "running" /\ queries[i].id # id => \E j \in DOMAIN queries' : queries'[j] = queries[i]
    BY <1>8, <1>9, <1>16, <1>18 DEF LeftOf
  <1>13. stages' \subseteq stages
    BY <1>1
  <1> QED BY <1>8, <1>10, <1>11, <1>12, <1>13 DEF Reporting, LeftOf, D

-----------------------------------------------------------------------------
\* What the invariant says of what is read most.
LEMMA HandleTyped ==
    ASSUME TypeOK, NEW t \in Threads, Entered(t)
    PROVE  /\ handle[t].h \in Nat /\ handle[t].id \in Nat /\ handle[t].kind \in Kinds
           /\ handle[t].rowsIn \in Nat /\ handle[t].rowsOut \in Nat /\ handle[t].done \in BOOLEAN
           /\ \A b \in BOOLEAN, n \in Nat :
                 /\ [handle[t] EXCEPT !.done = b] \in Handles /\ [handle[t] EXCEPT !.rowsOut = n] \in Handles
                 /\ [handle[t] EXCEPT !.done = b] # NoHandle /\ [handle[t] EXCEPT !.rowsOut = n] # NoHandle
                 /\ [handle[t] EXCEPT !.done = b].done = b /\ [handle[t] EXCEPT !.rowsOut = n].done = handle[t].done
                 /\ [handle[t] EXCEPT !.done = b].h = handle[t].h /\ [handle[t] EXCEPT !.rowsOut = n].h = handle[t].h
                 /\ [handle[t] EXCEPT !.done = b].id = handle[t].id /\ [handle[t] EXCEPT !.rowsOut = n].id = handle[t].id
                 /\ [handle[t] EXCEPT !.done = b].kind = handle[t].kind
                 /\ [handle[t] EXCEPT !.rowsOut = n].kind = handle[t].kind
  <1> DEFINE x == handle[t]
             Entries == [h : Nat, id : Nat, kind : Kinds, rowsIn : Nat, rowsOut : Nat, done : BOOLEAN]
  <1>1. x \in Handles /\ x # NoHandle
    BY DEF TypeOK, Entered
  <1>2. x \in Entries
    BY <1>1 DEF Handles
  <1> HIDE DEF x
  <1>3. \A y \in Entries : y \in Handles /\ y # NoHandle
    <2>1. NoHandle.kind = "none" /\ "none" \notin Kinds
      BY DEF NoHandle, Kinds
    <2> QED BY <2>1 DEF Handles
  <1>4. ASSUME NEW b \in BOOLEAN, NEW n \in Nat
        PROVE  /\ [x EXCEPT !.done = b] \in Entries /\ [x EXCEPT !.rowsOut = n] \in Entries
               /\ [x EXCEPT !.done = b].done = b /\ [x EXCEPT !.rowsOut = n].done = x.done
               /\ [x EXCEPT !.done = b].h = x.h /\ [x EXCEPT !.rowsOut = n].h = x.h
               /\ [x EXCEPT !.done = b].id = x.id /\ [x EXCEPT !.rowsOut = n].id = x.id
               /\ [x EXCEPT !.done = b].kind = x.kind /\ [x EXCEPT !.rowsOut = n].kind = x.kind
    BY <1>2
  <1>5. /\ x.h \in Nat /\ x.id \in Nat /\ x.kind \in Kinds /\ x.rowsIn \in Nat /\ x.rowsOut \in Nat /\ x.done \in BOOLEAN
    BY <1>2
  <1> HIDE DEF Entries
  <1> QED BY <1>3, <1>4, <1>5 DEF x

\* A context manager reports: the first outcome of its body or its end.
Ends(t, status, rows, bytes) ==
    /\ Live(t)
    /\ handle[t].kind = "curate" => bytes - rows = IF status = "done" THEN handle[t].rowsIn - rows ELSE 0
    /\ Report(handle[t].id, status, rows, bytes)
    /\ audit' = IF handle[t].kind = "query" THEN Persisted(handle[t].h, status, rows) ELSE audit
    /\ ended' = ended \cup {EndedAs(handle[t], status, rows)}
    /\ \/ handle' = [handle EXCEPT ![t] = NoHandle]
       \/ handle[t].kind = "query" /\ handle' = [handle EXCEPT ![t].done = TRUE]
    /\ UNCHANGED <<seq, auditOn, started>>

\* Its thread has no live context manager then, the others keep theirs.
LEMMA EndsHandles ==
    ASSUME TypeOK, NEW t \in Threads, NEW status, NEW rows, NEW bytes, Ends(t, status, rows, bytes)
    PROVE  /\ handle' \in [Threads -> Handles]
           /\ \A u \in Threads \ {t} : handle'[u] = handle[u]
           /\ ~Live(t)'
           /\ handle'[t] # NoHandle => /\ handle'[t].h = handle[t].h /\ handle'[t].id = handle[t].id
                                       /\ handle'[t].kind = "query" /\ handle[t].kind = "query"
  <1> DEFINE y == [handle[t] EXCEPT !.done = TRUE]
  <1>1. Entered(t) /\ handle \in [Threads -> Handles]
    BY DEF Ends, Live, TypeOK
  <1>2. /\ y \in Handles /\ y # NoHandle /\ y.done = TRUE
        /\ y.h = handle[t].h /\ y.id = handle[t].id /\ y.kind = handle[t].kind
    BY <1>1, HandleTyped
  <1> HIDE DEF y
  <1>3. CASE handle' = [handle EXCEPT ![t] = NoHandle]
    <2>1. NoHandle \in Handles
      BY DEF Handles
    <2> HIDE DEF NoHandle
    <2> QED BY <1>1, <1>3, <2>1 DEF Live, Entered
  <1>4. CASE handle[t].kind = "query" /\ handle' = [handle EXCEPT ![t].done = TRUE]
    <2>1. handle' = [handle EXCEPT ![t] = y]
      BY <1>4 DEF y
    <2> QED BY <1>1, <1>2, <1>4, <2>1 DEF Live
  <1> QED BY <1>3, <1>4 DEF Ends

\* The outcome it reports.
LEMMA EndsOutcome ==
    ASSUME TypeOK, HandlesApart, NEW t \in Threads, Live(t),
           NEW status \in {"done", "error"}, NEW rows \in Nat, NEW e, e = EndedAs(handle[t], status, rows)
    PROVE  /\ e \in Outcomes /\ e.h = handle[t].h /\ e.id = handle[t].id /\ e.kind = handle[t].kind
           /\ e.status = status /\ e.rows = rows /\ e.rowsIn = handle[t].rowsIn /\ e.audited = auditOn
           /\ e.h \in 1..started /\ e.id \in 1..seq
  <1>1. Entered(t)
    BY DEF Live
  <1>2. /\ handle[t].h \in Nat /\ handle[t].id \in Nat /\ handle[t].kind \in Kinds /\ handle[t].rowsIn \in Nat
        /\ auditOn \in BOOLEAN
    BY <1>1, HandleTyped DEF TypeOK
  <1>3. handle[t].h \in 1..started /\ handle[t].id \in 1..seq
    BY <1>1 DEF HandlesApart
  <1>4. e = [h |-> handle[t].h, id |-> handle[t].id, kind |-> handle[t].kind, status |-> status, rows |-> rows,
             rowsIn |-> handle[t].rowsIn, audited |-> auditOn]
    BY DEF EndedAs
  <1> QED BY <1>2, <1>3, <1>4 DEF Outcomes

\* What a report does to handles, records and outcomes, put together.
EndFacts(t, status, rows, bytes, e) ==
    /\ \A u \in Threads \ {t} : handle'[u] = handle[u]
    /\ ~Live(t)'
    /\ handle'[t] # NoHandle => /\ handle'[t].h = handle[t].h /\ handle'[t].id = handle[t].id
                                /\ handle'[t].kind = "query"
    /\ e \in Outcomes /\ e.h = handle[t].h /\ e.id = handle[t].id /\ e.kind = handle[t].kind
    /\ e.status = status /\ e.rows = rows /\ e.rowsIn = handle[t].rowsIn /\ e.audited = auditOn
    /\ e.h \in 1..started /\ e.id \in 1..seq
    /\ ended' = ended \cup {e}
    /\ seq' = seq /\ started' = started /\ auditOn' = auditOn
    /\ Live(t)

\* They follow from the invariant.
LEMMA EndKnown ==
    ASSUME IInv, NEW t \in Threads, NEW status \in {"done", "error"}, NEW rows \in Nat, NEW bytes \in Nat,
           Ends(t, status, rows, bytes)
    PROVE  /\ handle' \in [Threads -> Handles]
           /\ Reporting(handle[t].id, status, rows, bytes)
           /\ EndFacts(t, status, rows, bytes, EndedAs(handle[t], status, rows))
  <1>1. TypeOK /\ HandlesApart /\ RecordsSound /\ Live(t)
    BY DEF IInv, Ends
  <1>2. IdsApart(queries)
    BY <1>1 DEF IdsApart, RecordsSound
  <1>3. Reporting(handle[t].id, status, rows, bytes)
    <2>1. queries \in Seq(Records) /\ Report(handle[t].id, status, rows, bytes)
      BY <1>1 DEF TypeOK, Ends
    <2> QED BY <1>2, <2>1, ReportLeaves
  <1> DEFINE e == EndedAs(handle[t], status, rows)
  <1>4. /\ e \in Outcomes /\ e.h = handle[t].h /\ e.id = handle[t].id /\ e.kind = handle[t].kind
        /\ e.status = status /\ e.rows = rows /\ e.rowsIn = handle[t].rowsIn /\ e.audited = auditOn
        /\ e.h \in 1..started /\ e.id \in 1..seq
    BY <1>1, EndsOutcome
  <1>5. ended' = ended \cup {e} /\ seq' = seq /\ started' = started /\ auditOn' = auditOn
    BY DEF Ends
  <1> HIDE DEF e
  <1>6. /\ handle' \in [Threads -> Handles] /\ \A u \in Threads \ {t} : handle'[u] = handle[u]
        /\ ~Live(t)'
        /\ handle'[t] # NoHandle => /\ handle'[t].h = handle[t].h /\ handle'[t].id = handle[t].id
                                    /\ handle'[t].kind = "query"
    BY <1>1, EndsHandles
  <1>7. EndFacts(t, status, rows, bytes, e)
    BY <1>1, <1>4, <1>5, <1>6 DEF EndFacts
  <1> QED BY <1>3, <1>6, <1>7 DEF e

\* A report keeps the handles and the outcomes apart,
LEMMA EndApart ==
    ASSUME HandlesApart, OutcomesApart, seq \in Nat, NEW t \in Threads, NEW status, NEW rows, NEW bytes, NEW e,
           EndFacts(t, status, rows, bytes, e)
    PROVE  HandlesApart' /\ OutcomesApart'
  <1>1. \A u \in Threads : Entered(u)' => /\ Entered(u) /\ handle'[u].h = handle[u].h /\ handle'[u].id = handle[u].id
    <2>1. \A u \in Threads \ {t} : handle'[u] = handle[u]
      BY DEF EndFacts
    <2>2. Entered(t) /\ (Entered(t)' => handle'[t].h = handle[t].h /\ handle'[t].id = handle[t].id)
      BY DEF EndFacts, Live, Entered
    <2>3. ASSUME NEW u \in Threads, Entered(u)'
          PROVE  Entered(u) /\ handle'[u].h = handle[u].h /\ handle'[u].id = handle[u].id
      <3>1. CASE u = t
        BY <2>2, <2>3, <3>1
      <3>2. CASE u # t
        BY <2>1, <2>3, <3>2 DEF Entered
      <3> QED BY <3>1, <3>2
    <2> QED BY <2>3
  <1>2. \A u \in Threads : Entered(u)' /\ handle'[u].done => handle'[u].kind = "query"
    <2>1. ASSUME NEW u \in Threads, Entered(u)', handle'[u].done PROVE handle'[u].kind = "query"
      <3>1. CASE u = t
        BY <2>1, <3>1 DEF EndFacts, Entered
      <3>2. CASE u # t
        <4>1. handle'[u] = handle[u] /\ Entered(u)
          BY <1>1, <2>1, <3>2 DEF EndFacts
        <4> QED BY <2>1, <4>1 DEF HandlesApart
      <3> QED BY <3>1, <3>2
    <2> QED BY <2>1
  <1>3. seq' = seq /\ started' = started /\ ended' = ended \cup {e}
    BY DEF EndFacts
  <1>4. HandlesApart'
    <2>1. \A u \in Threads : Entered(u)' => handle'[u].h \in 1..started' /\ handle'[u].id \in 1..seq'
      BY <1>1, <1>3 DEF HandlesApart
    <2>2. \A u, v \in Threads : Entered(u)' /\ Entered(v)' /\ u # v => handle'[u].h # handle'[v].h /\ handle'[u].id # handle'[v].id
      BY <1>1 DEF HandlesApart
    <2> QED BY <1>2, <2>1, <2>2 DEF HandlesApart
  <1>5. \A f \in ended : f.h # e.h /\ f.id # e.id
    <2>1. Live(t) /\ e.h = handle[t].h /\ e.id = handle[t].id
      BY DEF EndFacts
    <2> QED BY <2>1 DEF OutcomesApart
  <1>6. e.h \in 1..started /\ e.id \in 0..seq
    BY DEF EndFacts
  <1>7. \A u \in Threads : Live(u)' => u # t /\ Live(u) /\ handle'[u] = handle[u]
    <2>1. ASSUME NEW u \in Threads, Live(u)' PROVE u # t /\ Live(u) /\ handle'[u] = handle[u]
      <3>1. ~Live(t)'
        BY DEF EndFacts
      <3>2. u # t
        BY <2>1, <3>1
      <3>3. handle'[u] = handle[u]
        BY <3>2 DEF EndFacts
      <3> QED BY <2>1, <3>2, <3>3 DEF Live, Entered
    <2> QED BY <2>1
  <1>8. \A u \in Threads : Live(u)' => handle'[u].h # e.h /\ handle'[u].id # e.id
    <2>1. ASSUME NEW u \in Threads, Live(u)' PROVE handle'[u].h # e.h /\ handle'[u].id # e.id
      <3>1. u # t /\ handle'[u] = handle[u] /\ Entered(u) /\ Entered(t)
        BY <1>7, <2>1 DEF Live, EndFacts
      <3>2. handle[u].h # handle[t].h /\ handle[u].id # handle[t].id
        BY <3>1 DEF HandlesApart
      <3> QED BY <3>1, <3>2 DEF EndFacts
    <2> QED BY <2>1
  <1>9. OutcomesApart'
    <2>1. \A f \in ended' : f.h \in 1..started' /\ f.id \in 0..seq'
      BY <1>3, <1>6 DEF OutcomesApart
    <2>2. \A f, g \in ended' : f # g => f.h # g.h /\ (f.id = g.id => f.id = 0)
      BY <1>3, <1>5 DEF OutcomesApart
    <2>3. \A u \in Threads, f \in ended' : Live(u)' => f.h # handle'[u].h /\ f.id # handle'[u].id
      <3>1. ASSUME NEW u \in Threads, NEW f \in ended', Live(u)' PROVE f.h # handle'[u].h /\ f.id # handle'[u].id
        <4>1. CASE f = e
          BY <1>8, <3>1, <4>1
        <4>2. CASE f # e
          <5>1. f \in ended /\ Live(u) /\ handle'[u] = handle[u]
            BY <1>3, <1>7, <3>1, <4>2
          <5> QED BY <5>1 DEF OutcomesApart
        <4> QED BY <4>1, <4>2
      <3> QED BY <3>1
    <2> QED BY <2>1, <2>2, <2>3 DEF OutcomesApart
  <1> QED BY <1>4, <1>9

\* p is what a report makes of the record q.
Made(p, q, id, status, rows, bytes) == p = Set(q, id, status, rows, bytes)

\* The fields it then has.
MadeSo(p, q, id, status, rows, bytes) ==
    /\ p.id = q.id /\ p.kind = q.kind
    /\ q.id = id => p.status = status /\ p.rows = rows /\ p.bytes = bytes
    /\ q.id # id => p = q

\* They follow from the record's type.
LEMMA SetMade ==
    ASSUME NEW q, q \in Records, NEW id, NEW status \in {"done", "error"}, NEW rows \in Nat, NEW bytes \in Nat,
           NEW p, Made(p, q, id, status, rows, bytes)
    PROVE  MadeSo(p, q, id, status, rows, bytes)
  BY SetFields DEF Made, MadeSo

\* the records true,
LEMMA EndRecords ==
    ASSUME queries \in Seq(Records), seq \in Nat, HandlesApart, OutcomesApart, RecordsSound, LiveRecorded,
           NEW t \in Threads, NEW status \in {"done", "error"}, NEW rows \in Nat, NEW bytes \in Nat, NEW e,
           handle[t].kind = "curate" => bytes - rows = IF status = "done" THEN handle[t].rowsIn - rows ELSE 0,
           Reporting(handle[t].id, status, rows, bytes), EndFacts(t, status, rows, bytes, e)
    PROVE  RecordsSound' /\ LiveRecorded'
  <1> DEFINE id == handle[t].id
             D == DOMAIN queries
             E == DOMAIN queries'
  <1>1. \A i \in D : queries[i] \in Records
    OBVIOUS
  <1>2. \A j \in E : \E i \in D : Made(queries'[j], queries[i], id, status, rows, bytes)
    BY DEF Reporting, Made
  <1>3. \A j, k \in E : k # j => queries'[k].id # queries'[j].id
    BY DEF Reporting, IdsApart
  <1>4. \A i \in D : queries[i].status = "running" /\ queries[i].id # id => \E j \in E : queries'[j] = queries[i]
    BY DEF Reporting
  <1>5. Live(t) /\ e.id = id /\ e.kind = handle[t].kind /\ e.status = status /\ e.rows = rows /\ e.rowsIn = handle[t].rowsIn
    BY DEF EndFacts
  <1>6. ended' = ended \cup {e} /\ seq' = seq
    BY DEF EndFacts
  <1>7. \A u \in Threads : u # t /\ Live(u) => /\ Live(u)' /\ handle'[u] = handle[u]
    BY DEF EndFacts, Live, Entered
  <1>8. \A u \in Threads : Live(u) /\ handle[u].id = id => u = t
    BY <1>5 DEF HandlesApart, Live
  <1> HIDE DEF id, D, E
  <1>9. ASSUME NEW j \in E
        PROVE  /\ queries'[j].id \in 1..seq
               /\ IF queries'[j].status = "running"
                  THEN /\ queries'[j].rows = 0 /\ queries'[j].bytes = 0
                       /\ \E u \in Threads : /\ Live(u)' /\ handle'[u].id = queries'[j].id
                                             /\ handle'[u].kind = queries'[j].kind
                  ELSE \E f \in ended' : Tells(queries'[j], f)
    <2>1. PICK i \in D : Made(queries'[j], queries[i], id, status, rows, bytes)
      BY <1>2
    <2> DEFINE q == queries[i]
               p == queries'[j]
    <2>2. q \in Records
      BY <1>1, <2>1
    <2>3. /\ q.id \in 1..seq
          /\ IF q.status = "running"
             THEN /\ q.rows = 0 /\ q.bytes = 0
                  /\ \E u \in Threads : Live(u) /\ handle[u].id = q.id /\ handle[u].kind = q.kind
             ELSE \E f \in ended : Tells(q, f)
      BY DEF RecordsSound, D
    <2>4. Made(p, q, id, status, rows, bytes)
      BY <2>1
    <2> HIDE DEF q, p
    <2>5. /\ p.id = q.id /\ p.kind = q.kind
          /\ q.id = id => p.status = status /\ p.rows = rows /\ p.bytes = bytes
          /\ q.id # id => p = q
      <3>1. MadeSo(p, q, id, status, rows, bytes)
        BY <2>2, <2>4, SetMade
      <3> QED BY <3>1 DEF MadeSo
    <2>6. CASE q.id = id
      <3>1. q.kind = handle[t].kind
        <4>1. CASE q.status = "running"
          <5>1. PICK u \in Threads : Live(u) /\ handle[u].id = q.id /\ handle[u].kind = q.kind
            BY <2>3, <4>1
          <5>2. u = t
            BY <1>8, <2>6, <5>1
          <5> QED BY <5>1, <5>2
        <4>2. CASE q.status # "running"
          <5>1. PICK f \in ended : Tells(q, f)
            BY <2>3, <4>2
          <5>2. f.id = handle[t].id
            BY <2>6, <5>1 DEF Tells, id
          <5> QED BY <1>5, <5>2 DEF OutcomesApart
        <4> QED BY <4>1, <4>2
      <3>2. p.status = status /\ p.rows = rows /\ p.bytes = bytes /\ p.kind = handle[t].kind /\ p.id = id
        BY <2>5, <2>6, <3>1
      <3>3. p.kind = "curate" => p.bytes - p.rows = IF p.status = "done" THEN e.rowsIn - e.rows ELSE 0
        BY <1>5, <3>2
      <3>4. Tells(p, e)
        BY <1>5, <3>2, <3>3 DEF Tells
      <3>5. p.status # "running" /\ e \in ended'
        BY <1>6, <3>2
      <3> QED BY <2>3, <2>5, <3>4, <3>5 DEF p
    <2>7. CASE q.id # id
      <3>1. p = q
        BY <2>5, <2>7
      <3>2. CASE q.status = "running"
        <4>1. PICK u \in Threads : Live(u) /\ handle[u].id = q.id /\ handle[u].kind = q.kind
          BY <2>3, <3>2
        <4>2. u # t
          BY <2>7, <4>1 DEF id
        <4>3. Live(u)' /\ handle'[u].id = q.id /\ handle'[u].kind = q.kind
          BY <1>7, <4>1, <4>2
        <4> QED BY <2>3, <3>1, <3>2, <4>3 DEF p
      <3>3. CASE q.status # "running"
        <4>1. PICK f \in ended : Tells(q, f)
          BY <2>3, <3>3
        <4> QED BY <1>6, <2>3, <3>1, <3>3, <4>1 DEF p
      <3> QED BY <3>2, <3>3
    <2> QED BY <2>6, <2>7
  <1>10. RecordsSound'
    <2>1. E = DOMAIN queries'
      BY DEF E
    <2> QED BY <1>3, <1>6, <1>9, <2>1 DEF RecordsSound
  <1>11. LiveRecorded'
    <2>1. ASSUME NEW u \in Threads, Live(u)'
          PROVE  \E j \in E : queries'[j].id = handle'[u].id /\ queries'[j].status = "running"
      <3>1. u # t
        BY <2>1 DEF EndFacts
      <3>2. handle'[u] = handle[u] /\ Live(u)
        BY <2>1, <3>1 DEF EndFacts, Live, Entered
      <3>3. handle[u].id # id
        BY <1>8, <3>1, <3>2
      <3>4. PICK i \in D : queries[i].id = handle[u].id /\ queries[i].status = "running"
        BY <3>2 DEF LiveRecorded, D
      <3>5. PICK j \in E : queries'[j] = queries[i]
        BY <1>4, <3>3, <3>4
      <3> QED BY <3>2, <3>4, <3>5
    <2> QED BY <2>1 DEF LiveRecorded, E
  <1> QED BY <1>10, <1>11

\* and the audit log.
LEMMA EndAudit ==
    ASSUME TypeOK, OutcomesApart, AuditSound, HandlesApart,
           NEW t \in Threads, NEW status \in {"done", "error"}, NEW rows \in Nat, NEW bytes, NEW e,
           audit' = IF handle[t].kind = "query" THEN Persisted(handle[t].h, status, rows) ELSE audit,
           EndFacts(t, status, rows, bytes, e)
    PROVE  AuditSound' /\ audit' \in Seq([h : Nat, status : {"done", "error"}, rows : Nat])
  <1> DEFINE A == [h : Nat, status : {"done", "error"}, rows : Nat]
             r == [h |-> handle[t].h, status |-> status, rows |-> rows]
             n == Len(audit)
  <1>1. audit \in Seq(A) /\ n \in Nat /\ DOMAIN audit = 1..n
    BY DEF TypeOK
  <1>2. ended' = ended \cup {e} /\ e.h = handle[t].h /\ e.kind = handle[t].kind /\ e.status = status /\ e.rows = rows
        /\ e.audited = auditOn
    BY DEF EndFacts
  <1>3. \A f \in ended : f.h # e.h
    BY DEF EndFacts, OutcomesApart
  <1>4. \A i \in 1..n : audit[i].h # e.h
    BY <1>1, <1>3 DEF AuditSound
  <1>5. CASE handle[t].kind = "query" /\ auditOn
    <2>1. audit' = Append(audit, r)
      BY <1>5 DEF Persisted
    <2>2. r \in A /\ r.h = e.h /\ r.status = e.status /\ r.rows = e.rows
      <3>1. handle[t].h \in Nat
        BY HandleTyped DEF EndFacts, Live
      <3> QED BY <1>2, <3>1
    <2> HIDE DEF A, r, n
    <2>3. /\ Len(audit') = n + 1 /\ DOMAIN audit' = 1..(n + 1) /\ audit'[n + 1] = r
          /\ \A i \in 1..n : audit'[i] = audit[i]
          /\ audit' \in Seq(A)
      BY <1>1, <2>1, <2>2 DEF n
    <2>4. \A i \in 1..(n + 1) : i \in 1..n \/ i = n + 1
      BY <1>1
    <2>5. ASSUME NEW i \in DOMAIN audit'
          PROVE  \E f \in ended' : /\ f.h = audit'[i].h /\ f.kind = "query"
                                   /\ f.status = audit'[i].status /\ f.rows = audit'[i].rows
      <3>1. CASE i \in 1..n
        <4>1. PICK f \in ended : /\ f.h = audit[i].h /\ f.kind = "query"
                                 /\ f.status = audit[i].status /\ f.rows = audit[i].rows
          BY <1>1, <3>1 DEF AuditSound
        <4> QED BY <1>2, <2>3, <3>1, <4>1
      <3>2. CASE i = n + 1
        BY <1>2, <1>5, <2>2, <2>3, <3>2
      <3> QED BY <2>3, <2>4, <3>1, <3>2
    <2>6. \A i, j \in DOMAIN audit' : i # j => audit'[i].h # audit'[j].h
      <3>1. \A i, j \in 1..n : i # j => audit'[i].h # audit'[j].h
        BY <1>1, <2>3, SMTT(40) DEF AuditSound
      <3>2. \A i \in 1..n : audit'[i].h # audit'[n + 1].h
        BY <1>4, <2>2, <2>3
      <3> QED BY <2>3, <2>4, <3>1, <3>2
    <2>7. ASSUME NEW f \in ended', f.kind = "query", f.audited PROVE \E i \in DOMAIN audit' : audit'[i].h = f.h
      <3>1. n + 1 \in 1..(n + 1) /\ \A i \in 1..n : i \in 1..(n + 1)
        BY <1>1
      <3>2. CASE f = e
        BY <2>2, <2>3, <3>1, <3>2
      <3>3. CASE f # e
        <4>1. PICK i \in 1..n : audit[i].h = f.h
          BY <1>1, <1>2, <2>7, <3>3 DEF AuditSound
        <4> QED BY <2>3, <3>1, <4>1
      <3> QED BY <3>2, <3>3
    <2> QED BY <2>3, <2>5, <2>6, <2>7 DEF AuditSound, A
  <1>6. CASE ~(handle[t].kind = "query" /\ auditOn)
    <2>1. audit' = audit
      BY <1>6 DEF Persisted
    <2>2. ~(e.kind = "query" /\ e.audited)
      BY <1>2, <1>6
    <2>3. AuditSound'
      BY <1>2, <2>1, <2>2 DEF AuditSound
    <2> QED BY <1>1, <2>1, <2>3
  <1> QED BY <1>5, <1>6

-----------------------------------------------------------------------------
\* A report keeps the invariant.
LEMMA EndStep ==
    ASSUME IInv, NEW t \in Threads, NEW status \in {"done", "error"}, NEW rows \in Nat, NEW bytes \in Nat,
           Ends(t, status, rows, bytes)
    PROVE  IInv'
  <1> DEFINE e == EndedAs(handle[t], status, rows)
  <1>1. /\ handle' \in [Threads -> Handles]
        /\ Reporting(handle[t].id, status, rows, bytes)
        /\ EndFacts(t, status, rows, bytes, e)
    BY EndKnown
  <1> HIDE DEF e
  <1>2. /\ TypeOK /\ HandlesApart /\ OutcomesApart /\ RecordsSound /\ LiveRecorded /\ AuditSound /\ StagesSound
        /\ seq \in Nat /\ queries \in Seq(Records)
    BY DEF IInv, TypeOK
  <1>3. HandlesApart' /\ OutcomesApart'
    BY <1>1, <1>2, EndApart
  <1>4. handle[t].kind = "curate" => bytes - rows = IF status = "done" THEN handle[t].rowsIn - rows ELSE 0
    BY DEF Ends
  <1>5. RecordsSound' /\ LiveRecorded'
    BY <1>1, <1>2, <1>4, EndRecords
  <1>6. audit' = IF handle[t].kind = "query" THEN Persisted(handle[t].h, status, rows) ELSE audit
    BY DEF Ends
  <1>7. AuditSound' /\ audit' \in Seq([h : Nat, status : {"done", "error"}, rows : Nat])
    BY <1>1, <1>2, <1>6, EndAudit
  <1>8. StagesSound'
    <2>1. \A s \in stages' : s \in stages /\ (s.query \in Ids => \E j \in DOMAIN queries' : queries'[j].id = s.query)
      BY <1>1 DEF Reporting
    <2> QED BY <1>2, <2>1 DEF StagesSound, Ids
  <1>9. FinishedBounded'
    BY <1>1 DEF Reporting, FinishedBounded, FinishedAt, RunningAt
  <1>10. ended' \subseteq Outcomes /\ IsFiniteSet(ended')
    <2>1. ended \subseteq Outcomes /\ IsFiniteSet(ended) /\ e \in Outcomes /\ ended' = ended \cup {e}
      BY <1>1, <1>2 DEF TypeOK, EndFacts
    <2>2. IsFiniteSet(ended \cup {e})
      BY <2>1, FS_AddElement
    <2> QED BY <2>1, <2>2
  <1>11. TypeOK'
    <2>1. /\ seq' \in Nat /\ started' \in Nat /\ auditOn' \in BOOLEAN
          /\ queries' \in Seq(Records) /\ stages' \subseteq [id : Nat, query : Nat, late : BOOLEAN]
      BY <1>1, <1>2 DEF TypeOK, EndFacts, Reporting
    <2> QED BY <1>1, <1>7, <1>10, <2>1 DEF TypeOK
  <1> QED BY <1>3, <1>5, <1>7, <1>8, <1>9, <1>11 DEF IInv

-----------------------------------------------------------------------------
\* The invariant holds initially,
LEMMA InitIInv ==
    ASSUME Init
    PROVE  IInv
  <1>1. TypeOK
    <2>1. NoHandle \in Handles
      BY DEF Handles
    <2> HIDE DEF NoHandle
    <2>2. handle \in [Threads -> Handles]
      BY <2>1 DEF Init
    <2>3. /\ seq \in Nat /\ started \in Nat /\ auditOn \in BOOLEAN
          /\ stages \subseteq [id : Nat, query : Nat, late : BOOLEAN]
          /\ ended \subseteq Outcomes
      BY DEF Init
    <2>4. queries \in Seq(Records) /\ audit \in Seq([h : Nat, status : {"done", "error"}, rows : Nat])
      BY DEF Init
    <2>5. IsFiniteSet(ended)
      BY FS_EmptySet DEF Init
    <2> QED BY <2>2, <2>3, <2>4, <2>5 DEF TypeOK
  <1>2. /\ \A t \in Threads : ~Entered(t) /\ ~Live(t)
        /\ ended = {} /\ stages = {} /\ DOMAIN queries = {} /\ DOMAIN audit = {}
    BY DEF Init, Entered, Live
  <1>3. HandlesApart /\ OutcomesApart
    BY <1>2 DEF HandlesApart, OutcomesApart
  <1>4. RecordsSound /\ LiveRecorded
    BY <1>2 DEF RecordsSound, LiveRecorded
  <1>5. AuditSound /\ StagesSound
    BY <1>2 DEF AuditSound, StagesSound
  <1>6. FinishedBounded
    <2>1. FinishedAt(queries) = {}
      BY <1>2 DEF FinishedAt, RunningAt
    <2> QED BY <2>1, FS_EmptySet, ObserveAssumption DEF FinishedBounded
  <1> QED BY <1>1, <1>3, <1>4, <1>5, <1>6 DEF IInv

\* What entering a context manager does: x is its handle, r its record.
EnterFacts(t, x, r) ==
    /\ x \in Handles /\ x # NoHandle /\ x.h = started + 1 /\ x.id = seq + 1 /\ ~x.done
    /\ r \in Records /\ r.id = x.id /\ r.kind = x.kind /\ r.status = "running" /\ r.rows = 0 /\ r.bytes = 0
    /\ handle' = [handle EXCEPT ![t] = x] /\ queries' = Append(queries, r)
    /\ seq' = seq + 1 /\ started' = started + 1

\* They are what the action assigns.
LEMMA EnterKnown ==
    ASSUME TypeOK, NEW t \in Threads, Enter(t)
    PROVE  \E x, r : EnterFacts(t, x, r)
  <1>1. PICK n \in {0} \cup RowCounts :
          handle' = [handle EXCEPT ![t] = [h |-> started + 1, id |-> seq + 1,
                                           kind |-> IF n = 0 THEN "query" ELSE "curate",
                                           rowsIn |-> n, rowsOut |-> n, done |-> FALSE]]
    BY DEF Enter
  <1> DEFINE k == IF n = 0 THEN "query" ELSE "curate"
             x == [h |-> started + 1, id |-> seq + 1, kind |-> k, rowsIn |-> n, rowsOut |-> n, done |-> FALSE]
             r == [id |-> seq + 1, kind |-> k, status |-> "running", rows |-> 0, bytes |-> 0]
  <1>2. n \in Nat /\ seq \in Nat /\ started \in Nat /\ handle \in [Threads -> Handles]
    BY ObserveAssumption DEF TypeOK
  <1>3. k \in Kinds /\ k # "none"
    BY DEF Kinds
  <1>4. handle' = [handle EXCEPT ![t] = x]
    BY <1>1
  <1> HIDE DEF k
  <1>5. /\ x \in [h : Nat, id : Nat, kind : Kinds, rowsIn : Nat, rowsOut : Nat, done : BOOLEAN]
        /\ x.h = started + 1 /\ x.id = seq + 1 /\ ~x.done /\ x.kind = k
    BY <1>2, <1>3
  <1>6. x # NoHandle
    <2>1. NoHandle.kind = "none"
      BY DEF NoHandle
    <2> QED BY <1>3, <1>5, <2>1
  <1>7. r \in Records /\ r.id = seq + 1 /\ r.kind = k /\ r.status = "running" /\ r.rows = 0 /\ r.bytes = 0
    BY <1>2, <1>3 DEF Records
  <1>8. seq' = seq + 1 /\ started' = started + 1
    BY DEF Enter
  <1>9. queries' = Append(queries, [id |-> seq + 1, kind |-> handle'[t].kind, status |-> "running",
                                    rows |-> 0, bytes |-> 0])
    BY DEF Enter
  <1>10. handle'[t].kind = k
    BY <1>2, <1>4, <1>5
  <1>11. queries' = Append(queries, r)
    BY <1>9, <1>10
  <1> HIDE DEF x, r
  <1>12. EnterFacts(t, x, r)
    BY <1>4, <1>5, <1>6, <1>7, <1>8, <1>11 DEF EnterFacts, Handles
  <1> QED BY <1>12

\* Entering keeps the invariant.
LEMMA EnterStep ==
    ASSUME IInv, NEW t \in Threads, Enter(t)
    PROVE  IInv'
  <1>1. /\ TypeOK /\ HandlesApart /\ OutcomesApart /\ RecordsSound /\ LiveRecorded /\ AuditSound /\ StagesSound
        /\ FinishedBounded
    BY DEF IInv
  <1>2. PICK x, r : EnterFacts(t, x, r)
    BY <1>1, EnterKnown
  <1>3. /\ stages' = stages /\ audit' = audit /\ auditOn' = auditOn /\ ended' = ended /\ handle[t] = NoHandle
    BY DEF Enter
  <1> DEFINE n == Len(queries)
             D == DOMAIN queries
             E == DOMAIN queries'
  <1>4. /\ seq \in Nat /\ started \in Nat /\ queries \in Seq(Records) /\ n \in Nat /\ D = 1..n
        /\ handle \in [Threads -> Handles]
    BY <1>1 DEF TypeOK
  <1>5. /\ x \in Handles /\ x # NoHandle /\ x.h = started + 1 /\ x.id = seq + 1 /\ ~x.done
        /\ r \in Records /\ r.id = seq + 1 /\ r.kind = x.kind /\ r.status = "running" /\ r.rows = 0 /\ r.bytes = 0
        /\ handle' = [handle EXCEPT ![t] = x] /\ queries' = Append(queries, r)
        /\ seq' = seq + 1 /\ started' = started + 1
    BY <1>2 DEF EnterFacts
  <1>6. /\ queries' \in Seq(Records) /\ E = 1..(n + 1) /\ queries'[n + 1] = r
        /\ \A i \in D : i \in E /\ queries'[i] = queries[i]
        /\ \A i \in E : i \in D \/ i = n + 1
        /\ n + 1 \in E /\ n + 1 \notin D
    BY <1>4, <1>5
  <1>7. handle' \in [Threads -> Handles] /\ handle'[t] = x /\ \A u \in Threads \ {t} : handle'[u] = handle[u]
    BY <1>4, <1>5
  <1> HIDE DEF n, D, E
  <1>8. /\ \A u \in Threads : Live(u) => u # t /\ Live(u)' /\ handle'[u] = handle[u]
        /\ Live(t)' /\ Entered(t)'
        /\ \A u \in Threads \ {t} : (Entered(u)' => Entered(u)) /\ (Live(u)' => Live(u))
    BY <1>3, <1>5, <1>7 DEF Live, Entered
  <1>9. TypeOK'
    BY <1>1, <1>3, <1>4, <1>5, <1>6, <1>7 DEF TypeOK
  <1>10. HandlesApart'
    <2>1. \A u \in Threads \ {t} : Entered(u)' => /\ handle'[u].h \in 1..started /\ handle'[u].id \in 1..seq
                                                  /\ handle'[u].done => handle'[u].kind = "query"
      BY <1>1, <1>7, <1>8 DEF HandlesApart
    <2>2. \A u, v \in Threads \ {t} : Entered(u)' /\ Entered(v)' /\ u # v =>
            handle'[u].h # handle'[v].h /\ handle'[u].id # handle'[v].id
      BY <1>1, <1>7, <1>8 DEF HandlesApart
    <2>3. \A u \in Threads : Entered(u)' => /\ handle'[u].h \in 1..started' /\ handle'[u].id \in 1..seq'
                                            /\ handle'[u].done => handle'[u].kind = "query"
      BY <1>4, <1>5, <1>7, <2>1
    <2>4. \A u \in Threads \ {t} : Entered(u)' => handle'[u].h # handle'[t].h /\ handle'[u].id # handle'[t].id
      BY <1>4, <1>5, <1>7, <2>1
    <2>5. \A u, v \in Threads : Entered(u)' /\ Entered(v)' /\ u # v =>
            handle'[u].h # handle'[v].h /\ handle'[u].id # handle'[v].id
      BY <2>2, <2>4
    <2> QED BY <2>3, <2>5 DEF HandlesApart
  <1>11. OutcomesApart'
    <2>1. \A e \in ended : e.h \in 1..started /\ e.id \in 0..seq
      BY <1>1 DEF OutcomesApart
    <2>2. \A e \in ended' : e.h \in 1..started' /\ e.id \in 0..seq'
      BY <1>3, <1>4, <1>5, <2>1
    <2>3. \A e \in ended : e.h # handle'[t].h /\ e.id # handle'[t].id
      BY <1>4, <1>5, <1>7, <2>1
    <2>4. \A u \in Threads \ {t}, e \in ended : Live(u)' => e.h # handle'[u].h /\ e.id # handle'[u].id
      BY <1>1, <1>7, <1>8 DEF OutcomesApart
    <2>5. \A u \in Threads, e \in ended' : Live(u)' => e.h # handle'[u].h /\ e.id # handle'[u].id
      BY <1>3, <2>3, <2>4
    <2>6. \A e, f \in ended' : e # f => e.h # f.h /\ (e.id = f.id => e.id = 0)
      BY <1>1, <1>3 DEF OutcomesApart
    <2> QED BY <2>2, <2>5, <2>6 DEF OutcomesApart
  <1>12. RecordsSound'
    <2>1. \A i \in D : queries[i].id \in 1..seq
      BY <1>1 DEF RecordsSound, D
    <2>2. \A i \in E : queries'[i].id \in 1..seq'
      <3>1. \A k \in 1..seq : k \in 1..seq'
        BY <1>4, <1>5
      <3>2. r.id \in 1..seq'
        BY <1>4, <1>5
      <3> QED BY <1>6, <2>1, <3>1, <3>2
    <2>3. \A i, j \in D : j # i => queries[j].id # queries[i].id
      BY <1>1 DEF RecordsSound, D
    <2>4. \A i \in D : queries[i].id # seq + 1
      BY <1>4, <2>1
    <2>5. \A i, j \in E : j # i => queries'[j].id # queries'[i].id
      <3>1. ASSUME NEW i \in E, NEW j \in E, j # i PROVE queries'[j].id # queries'[i].id
        <4>1. CASE i \in D /\ j \in D
          BY <1>6, <2>3, <3>1, <4>1
        <4>2. CASE i \in D /\ j = n + 1
          BY <1>5, <1>6, <2>4, <4>2
        <4>3. CASE j \in D /\ i = n + 1
          BY <1>5, <1>6, <2>4, <4>3
        <4> QED BY <1>6, <3>1, <4>1, <4>2, <4>3
      <3> QED BY <3>1
    <2>6. ASSUME NEW i \in E
          PROVE  IF queries'[i].status = "running"
                 THEN /\ queries'[i].rows = 0 /\ queries'[i].bytes = 0
                      /\ \E u \in Threads : Live(u)' /\ handle'[u].id = queries'[i].id /\ handle'[u].kind = queries'[i].kind
                 ELSE \E e \in ended' : Tells(queries'[i], e)
      <3>1. CASE i = n + 1
        BY <1>5, <1>6, <1>7, <1>8, <3>1
      <3>2. CASE i \in D /\ queries[i].status = "running"
        <4>1. PICK u \in Threads : Live(u) /\ handle[u].id = queries[i].id /\ handle[u].kind = queries[i].kind
          BY <1>1, <3>2 DEF RecordsSound, D
        <4>2. queries[i].rows = 0 /\ queries[i].bytes = 0 /\ queries'[i] = queries[i]
          BY <1>1, <1>6, <3>2 DEF RecordsSound, D
        <4> QED BY <1>8, <3>2, <4>1, <4>2
      <3>3. CASE i \in D /\ queries[i].status # "running"
        <4>1. \E e \in ended : Tells(queries[i], e)
          BY <1>1, <3>3 DEF RecordsSound, D
        <4>2. queries'[i] = queries[i]
          BY <1>6, <3>3
        <4> QED BY <1>3, <3>3, <4>1, <4>2
      <3> QED BY <1>6, <3>1, <3>2, <3>3
    <2> QED BY <2>2, <2>5, <2>6 DEF RecordsSound, E
  <1>13. LiveRecorded'
    <2>1. ASSUME NEW u \in Threads, Live(u)'
          PROVE  \E i \in E : queries'[i].id = handle'[u].id /\ queries'[i].status = "running"
      <3>1. CASE u = t
        BY <1>5, <1>6, <1>7, <3>1
      <3>2. CASE u # t
        <4>1. Live(u) /\ handle'[u] = handle[u]
          BY <1>7, <1>8, <2>1, <3>2
        <4>2. PICK i \in D : queries[i].id = handle[u].id /\ queries[i].status = "running"
          BY <1>1, <4>1 DEF LiveRecorded, D
        <4> QED BY <1>6, <4>1, <4>2
      <3> QED BY <3>1, <3>2
    <2> QED BY <2>1 DEF LiveRecorded, E
  <1>14. AuditSound'
    BY <1>1, <1>3 DEF AuditSound
  <1>15. StagesSound'
    <2>1. \A i \in Ids : i \in Ids'
      BY <1>6 DEF Ids, D, E
    <2> QED BY <1>1, <1>3, <2>1 DEF StagesSound
  <1>16. FinishedBounded'
    <2>1. FinishedAt(queries') = FinishedAt(queries)
      BY <1>5, <1>6 DEF FinishedAt, RunningAt, D, E
    <2> QED BY <1>1, <2>1 DEF FinishedBounded
  <1> QED BY <1>9, <1>10, <1>11, <1>12, <1>13, <1>14, <1>15, <1>16 DEF IInv

\* Actions on the pollers, and those that change no thread's part.
LEMMA SameStep ==
    ASSUME IInv, auditOn' \in BOOLEAN,
           UNCHANGED <<seq, queries, stages, audit, handle, ended, started>>
    PROVE  IInv'
  <1>1. TypeOK'
    BY DEF IInv, TypeOK
  <1>2. HandlesApart' /\ OutcomesApart'
    BY DEF IInv, HandlesApart, OutcomesApart, Live, Entered
  <1>3. RecordsSound' /\ LiveRecorded'
    BY DEF IInv, RecordsSound, LiveRecorded, Live, Entered, Tells
  <1>4. AuditSound' /\ StagesSound' /\ FinishedBounded'
    BY DEF IInv, AuditSound, StagesSound, FinishedBounded, FinishedAt, RunningAt, Ids
  <1> QED BY <1>1, <1>2, <1>3, <1>4 DEF IInv

\* Opening a stage keeps the invariant: the query is recorded, or was done.
LEMMA StageStep ==
    ASSUME IInv, NEW t \in Threads, OpenStage(t)
    PROVE  IInv'
  <1>1. /\ TypeOK /\ HandlesApart /\ OutcomesApart /\ RecordsSound /\ LiveRecorded /\ AuditSound /\ StagesSound
        /\ FinishedBounded
    BY DEF IInv
  <1> DEFINE s == [id |-> seq + 1, query |-> handle[t].id, late |-> handle[t].done]
  <1>2. /\ stages' = stages \cup {s} /\ seq' = seq + 1
        /\ UNCHANGED <<queries, audit, auditOn, handle, ended, started>>
    BY DEF OpenStage
  <1>3. seq \in Nat
    BY <1>1 DEF TypeOK
  <1>4. Entered(t)
    BY DEF OpenStage, Entered, NoHandle
  <1>5. s \in [id : Nat, query : Nat, late : BOOLEAN] /\ s.query = handle[t].id /\ s.late = handle[t].done
    BY <1>1, <1>3, <1>4, HandleTyped
  <1> HIDE DEF s
  <1>6. TypeOK'
    BY <1>1, <1>2, <1>3, <1>5 DEF TypeOK
  <1>7. \A k : (k \in 1..seq => k \in 1..seq') /\ (k \in 0..seq => k \in 0..seq')
    BY <1>2, <1>3
  <1>8. \A u \in Threads : (Entered(u)' <=> Entered(u)) /\ (Live(u)' <=> Live(u))
    BY <1>2 DEF Live, Entered
  <1>9. HandlesApart'
    BY <1>1, <1>2, <1>7, <1>8 DEF HandlesApart
  <1>10. OutcomesApart'
    BY <1>1, <1>2, <1>7, <1>8 DEF OutcomesApart
  <1>11. RecordsSound'
    <2>1. \A i \in DOMAIN queries : queries[i].id \in 1..seq'
      BY <1>1, <1>7 DEF RecordsSound
    <2> QED BY <1>1, <1>2, <1>8, <2>1 DEF RecordsSound, Tells
  <1>12. LiveRecorded'
    BY <1>1, <1>2, <1>8 DEF LiveRecorded
  <1>13. AuditSound'
    BY <1>1, <1>2 DEF AuditSound
  <1>14. StagesSound'
    <2>1. Ids' = Ids
      BY <1>2 DEF Ids
    <2>2. s.query \in Ids \/ s.late
      <3>1. CASE handle[t].done
        BY <1>5, <3>1
      <3>2. CASE ~handle[t].done
        <4>1. PICK i \in DOMAIN queries : queries[i].id = handle[t].id
          BY <1>1, <1>4, <3>2 DEF LiveRecorded, Live
        <4> QED BY <1>5, <4>1 DEF Ids
      <3> QED BY <3>1, <3>2
    <2> QED BY <1>1, <1>2, <2>1, <2>2 DEF StagesSound
  <1>15. FinishedBounded'
    BY <1>1, <1>2 DEF FinishedBounded, FinishedAt, RunningAt
  <1> QED BY <1>6, <1>9, <1>10, <1>11, <1>12, <1>13, <1>14, <1>15 DEF IInv

\* A handle that changes nothing but its rows, or goes when it has reported.
LEMMA HandleStep ==
    ASSUME IInv, NEW t \in Threads, Entered(t),
           UNCHANGED <<seq, queries, stages, audit, auditOn, ended, started>>,
           \/ handle[t].done /\ handle' = [handle EXCEPT ![t] = NoHandle]
           \/ \E n \in Nat : handle' = [handle EXCEPT ![t] = [handle[t] EXCEPT !.rowsOut = n]]
    PROVE  IInv'
  <1>1. /\ TypeOK /\ HandlesApart /\ OutcomesApart /\ RecordsSound /\ LiveRecorded /\ AuditSound /\ StagesSound
        /\ FinishedBounded /\ handle \in [Threads -> Handles]
    BY DEF IInv, TypeOK
  <1>2. /\ handle' \in [Threads -> Handles]
        /\ \A u \in Threads \ {t} : handle'[u] = handle[u]
        /\ Entered(t)' => /\ handle'[t].h = handle[t].h /\ handle'[t].id = handle[t].id
                          /\ handle'[t].kind = handle[t].kind /\ handle'[t].done = handle[t].done
        /\ Live(t) => Entered(t)'
    <2>1. CASE handle[t].done /\ handle' = [handle EXCEPT ![t] = NoHandle]
      <3>1. NoHandle \in Handles
        BY DEF Handles
      <3> HIDE DEF NoHandle
      <3>2. handle' \in [Threads -> Handles] /\ handle'[t] = NoHandle /\ \A u \in Threads \ {t} : handle'[u] = handle[u]
        BY <1>1, <2>1, <3>1
      <3> QED BY <2>1, <3>2 DEF Live, Entered
    <2>2. ASSUME NEW n \in Nat, handle' = [handle EXCEPT ![t] = [handle[t] EXCEPT !.rowsOut = n]]
          PROVE  /\ handle' \in [Threads -> Handles]
                 /\ \A u \in Threads \ {t} : handle'[u] = handle[u]
                 /\ Entered(t)' => /\ handle'[t].h = handle[t].h /\ handle'[t].id = handle[t].id
                                   /\ handle'[t].kind = handle[t].kind /\ handle'[t].done = handle[t].done
                 /\ Live(t) => Entered(t)'
      <3> DEFINE x == [handle[t] EXCEPT !.rowsOut = n]
      <3>1. /\ x \in Handles /\ x # NoHandle
            /\ x.h = handle[t].h /\ x.id = handle[t].id /\ x.kind = handle[t].kind /\ x.done = handle[t].done
        BY <1>1, HandleTyped
      <3>2. handle' = [handle EXCEPT ![t] = x]
        BY <2>2
      <3> HIDE DEF x
      <3>3. handle' \in [Threads -> Handles] /\ handle'[t] = x /\ \A u \in Threads \ {t} : handle'[u] = handle[u]
        BY <1>1, <3>1, <3>2
      <3> QED BY <3>1, <3>3 DEF Entered
    <2> QED BY <2>1, <2>2
  <1>3. \A u \in Threads : Entered(u)' => /\ Entered(u) /\ handle'[u].h = handle[u].h /\ handle'[u].id = handle[u].id
                                          /\ handle'[u].kind = handle[u].kind /\ handle'[u].done = handle[u].done
    <2>1. ASSUME NEW u \in Threads, Entered(u)'
          PROVE  /\ Entered(u) /\ handle'[u].h = handle[u].h /\ handle'[u].id = handle[u].id
                 /\ handle'[u].kind = handle[u].kind /\ handle'[u].done = handle[u].done
      <3>1. CASE u = t
        BY <1>2, <2>1, <3>1
      <3>2. CASE u # t
        BY <1>2, <2>1, <3>2 DEF Entered
      <3> QED BY <3>1, <3>2
    <2> QED BY <2>1
  <1>4. \A u \in Threads : Live(u) => Entered(u)' /\ Live(u)'
    <2>1. ASSUME NEW u \in Threads, Live(u) PROVE Entered(u)'
      <3>1. CASE u = t
        BY <1>2, <2>1, <3>1
      <3>2. CASE u # t
        BY <1>2, <2>1, <3>2 DEF Entered, Live
      <3> QED BY <3>1, <3>2
    <2> QED BY <1>3, <2>1 DEF Live
  <1>5. \A u \in Threads : Live(u)' => Live(u)
    BY <1>3 DEF Live
  <1>6. TypeOK'
    BY <1>1, <1>2 DEF TypeOK
  <1>7. HandlesApart'
    BY <1>1, <1>3 DEF HandlesApart
  <1>8. OutcomesApart'
    <2>1. \A u \in Threads, e \in ended : Live(u)' => e.h # handle'[u].h /\ e.id # handle'[u].id
      BY <1>1, <1>3, <1>5 DEF OutcomesApart, Live
    <2> QED BY <1>1, <2>1 DEF OutcomesApart
  <1>9. RecordsSound'
    <2>1. ASSUME NEW i \in DOMAIN queries, queries[i].status = "running"
          PROVE  \E u \in Threads : Live(u)' /\ handle'[u].id = queries[i].id /\ handle'[u].kind = queries[i].kind
      <3>1. PICK u \in Threads : Live(u) /\ handle[u].id = queries[i].id /\ handle[u].kind = queries[i].kind
        BY <1>1, <2>1 DEF RecordsSound
      <3> QED BY <1>3, <1>4, <3>1
    <2> QED BY <1>1, <2>1 DEF RecordsSound, Tells
  <1>10. LiveRecorded'
    <2>1. ASSUME NEW u \in Threads, Live(u)'
          PROVE  \E i \in DOMAIN queries : queries[i].id = handle'[u].id /\ queries[i].status = "running"
      BY <1>1, <1>3, <1>5, <2>1 DEF LiveRecorded, Live
    <2> QED BY <2>1 DEF LiveRecorded
  <1>11. AuditSound' /\ StagesSound' /\ FinishedBounded'
    BY <1>1 DEF AuditSound, StagesSound, FinishedBounded, FinishedAt, RunningAt, Ids
  <1> QED BY <1>6, <1>7, <1>8, <1>9, <1>10, <1>11 DEF IInv

\* A body that says how many rows it has,
LEMMA DoneStep ==
    ASSUME IInv, NEW t \in Threads, DoneInBody(t)
    PROVE  IInv'
  <1>1. TypeOK /\ Entered(t)
    BY DEF IInv, DoneInBody, Entered
  <1>2. PICK n \in RowCounts :
          IF handle[t].kind = "query"
          THEN /\ ~handle[t].done
               /\ Settle(handle[t], "done", n)
               /\ handle' = [handle EXCEPT ![t].done = TRUE]
               /\ ended' = ended \cup {EndedAs(handle[t], "done", n)}
          ELSE /\ handle' = [handle EXCEPT ![t].rowsOut = n]
               /\ UNCHANGED <<queries, stages, audit, ended>>
    BY DEF DoneInBody
  <1>3. n \in Nat /\ UNCHANGED <<seq, auditOn, started>>
    BY ObserveAssumption DEF DoneInBody
  <1>4. CASE handle[t].kind = "query"
    <2>1. /\ ~handle[t].done /\ Settle(handle[t], "done", n) /\ handle' = [handle EXCEPT ![t].done = TRUE]
          /\ ended' = ended \cup {EndedAs(handle[t], "done", n)}
      BY <1>2, <1>4
    <2>2. Report(handle[t].id, "done", n, 0) /\ audit' = Persisted(handle[t].h, "done", n)
      BY <1>4, <2>1 DEF Settle, Reported
    <2>3. handle[t].kind # "curate"
      BY <1>4
    <2>4. Ends(t, "done", n, 0)
      BY <1>1, <1>3, <1>4, <2>1, <2>2, <2>3 DEF Ends, Live
    <2> QED BY <1>3, <2>4, EndStep
  <1>5. CASE handle[t].kind # "query"
    <2>1. handle' = [handle EXCEPT ![t] = [handle[t] EXCEPT !.rowsOut = n]]
      BY <1>2, <1>5
    <2>2. UNCHANGED <<seq, queries, stages, audit, auditOn, ended, started>>
      BY <1>2, <1>3, <1>5
    <2> QED BY <1>1, <1>3, <2>1, <2>2, HandleStep
  <1> QED BY <1>4, <1>5

\* and the end of a context manager, keep the invariant.
LEMMA LeaveStep ==
    ASSUME IInv, NEW t \in Threads, Leave(t)
    PROVE  IInv'
  <1> DEFINE x == handle[t]
             Rows(status) == IF x.kind = "curate" /\ status = "done" THEN x.rowsOut ELSE 0
  <1>1. TypeOK /\ HandlesApart /\ Entered(t)
    BY DEF IInv, Leave, Entered
  <1>2. PICK status \in {"done", "error"} :
          /\ IF status = "error" /\ x.kind = "curate"
             THEN Report(x.id, "error", 0, 0) /\ audit' = audit
             ELSE Settle(x, status, Rows(status))
          /\ ended' = IF x.done THEN ended ELSE ended \cup {EndedAs(x, status, Rows(status))}
    BY DEF Leave
  <1>3. handle' = [handle EXCEPT ![t] = NoHandle] /\ UNCHANGED <<seq, auditOn, started>>
    BY DEF Leave
  <1>4. /\ x.rowsIn \in Nat /\ x.rowsOut \in Nat /\ x.kind \in Kinds /\ x.done \in BOOLEAN
        /\ x.done => x.kind = "query"
    BY <1>1, HandleTyped DEF HandlesApart
  <1>5. CASE x.done
    <2>1. ended' = ended /\ Settle(x, status, Rows(status))
      BY <1>2, <1>4, <1>5
    <2>2. UNCHANGED <<queries, stages, audit>>
      BY <1>5, <2>1 DEF Settle, Reported
    <2> QED BY <1>1, <1>3, <1>5, <2>1, <2>2, HandleStep
  <1>6. CASE ~x.done /\ status = "error" /\ x.kind = "curate"
    <2>1. /\ Report(x.id, "error", 0, 0) /\ audit' = audit /\ ended' = ended \cup {EndedAs(x, "error", 0)}
      BY <1>2, <1>6
    <2>2. Ends(t, "error", 0, 0)
      BY <1>1, <1>3, <1>6, <2>1 DEF Ends, Live
    <2> QED BY <2>2, EndStep
  <1>7. CASE ~x.done /\ ~(status = "error" /\ x.kind = "curate")
    <2> DEFINE bytes == IF x.kind = "curate" THEN x.rowsIn ELSE 0
               rows == Rows(status)
    <2>1. /\ Settle(x, status, rows) /\ ended' = ended \cup {EndedAs(x, status, rows)}
      BY <1>2, <1>7
    <2>2. /\ Report(x.id, status, rows, bytes)
          /\ audit' = IF x.kind = "query" THEN Persisted(x.h, status, rows) ELSE audit
      BY <1>7, <2>1 DEF Settle, Reported
    <2>3. rows \in Nat /\ bytes \in Nat
      BY <1>4
    <2>4. x.kind = "curate" => bytes - rows = IF status = "done" THEN x.rowsIn - rows ELSE 0
      BY <1>4, <1>7
    <2> HIDE DEF rows, bytes
    <2>5. Ends(t, status, rows, bytes)
      BY <1>1, <1>3, <1>7, <2>1, <2>2, <2>4 DEF Ends, Live
    <2> QED BY <2>3, <2>5, EndStep
  <1> QED BY <1>5, <1>6, <1>7

\* A reset while nothing runs keeps it: the outcomes' ids are no record's any more.
LEMMA ResetStep ==
    ASSUME IInv, ~ResetInFlight, Reset
    PROVE  IInv'
  <1> DEFINE Gone(e) == [e EXCEPT !.id = 0]
  <1>1. TypeOK /\ OutcomesApart /\ AuditSound
    BY DEF IInv
  <1>2. /\ \A t \in Threads : handle[t] = NoHandle
        /\ seq' = 0 /\ queries' = <<>> /\ stages' = {} /\ ended' = {Gone(e) : e \in ended}
        /\ UNCHANGED <<audit, auditOn, handle, started>>
    BY DEF Reset
  <1>3. \A e \in ended : /\ Gone(e) \in Outcomes /\ Gone(e).h = e.h /\ Gone(e).id = 0 /\ Gone(e).kind = e.kind
                         /\ Gone(e).status = e.status /\ Gone(e).rows = e.rows /\ Gone(e).audited = e.audited
    BY <1>1 DEF TypeOK, Outcomes
  <1> HIDE DEF Gone
  <1>4. \A f \in ended' : \E e \in ended : f = Gone(e)
    BY <1>2
  <1>5. IsFiniteSet(ended')
    <2>1. IsFiniteSet(ended)
      BY <1>1 DEF TypeOK
    <2> DEFINE f == [e \in ended |-> Gone(e)]
    <2>2. f \in [ended -> ended'] /\ \A g \in ended' : \E e \in ended : f[e] = g
      BY <1>2
    <2>3. f \in Surjection(ended, ended')
      BY <2>2 DEF Surjection
    <2> HIDE DEF f
    <2> QED BY <2>1, <2>3, FS_Surjection
  <1>6. TypeOK'
    <2>1. queries' \in Seq(Records) /\ seq' \in Nat /\ stages' \subseteq [id : Nat, query : Nat, late : BOOLEAN]
      BY <1>2
    <2>2. ended' \subseteq Outcomes
      BY <1>3, <1>4
    <2> QED BY <1>1, <1>2, <1>5, <2>1, <2>2 DEF TypeOK
  <1>7. \A t \in Threads : ~Entered(t)' /\ ~Live(t)'
    BY <1>2 DEF Live, Entered
  <1>8. HandlesApart'
    BY <1>7 DEF HandlesApart
  <1>9. OutcomesApart'
    <2>1. \A f \in ended' : f.h \in 1..started' /\ f.id \in 0..seq'
      <3>1. ASSUME NEW f \in ended' PROVE f.h \in 1..started' /\ f.id \in 0..seq'
        <4>1. PICK e \in ended : f = Gone(e)
          BY <1>4
        <4>2. e.h \in 1..started /\ started' = started /\ seq' = 0
          BY <1>1, <1>2 DEF OutcomesApart
        <4> QED BY <1>3, <4>1, <4>2
      <3> QED BY <3>1
    <2>2. \A f, g \in ended' : f # g => f.h # g.h /\ (f.id = g.id => f.id = 0)
      <3>1. ASSUME NEW f \in ended', NEW g \in ended', f # g PROVE f.h # g.h /\ f.id = 0
        <4>1. PICK e \in ended : f = Gone(e)
          BY <1>4
        <4>2. PICK d \in ended : g = Gone(d)
          BY <1>4
        <4>3. e # d
          BY <3>1, <4>1, <4>2
        <4>4. e.h # d.h
          BY <1>1, <4>3 DEF OutcomesApart
        <4> QED BY <1>3, <4>1, <4>2, <4>4
      <3> QED BY <3>1
    <2> QED BY <1>7, <2>1, <2>2 DEF OutcomesApart
  <1>10. RecordsSound' /\ LiveRecorded'
    <2>1. DOMAIN queries' = {}
      BY <1>2
    <2> QED BY <1>7, <2>1 DEF RecordsSound, LiveRecorded
  <1>11. AuditSound'
    <2>1. ASSUME NEW i \in DOMAIN audit
          PROVE  \E f \in ended' : f.h = audit[i].h /\ f.kind = "query" /\ f.status = audit[i].status /\ f.rows = audit[i].rows
      <3>1. PICK e \in ended : e.h = audit[i].h /\ e.kind = "query" /\ e.status = audit[i].status /\ e.rows = audit[i].rows
        BY <1>1 DEF AuditSound
      <3>2. Gone(e) \in ended'
        BY <1>2
      <3> QED BY <1>3, <3>1, <3>2
    <2>2. ASSUME NEW f \in ended', f.kind = "query", f.audited PROVE \E i \in DOMAIN audit : audit[i].h = f.h
      <3>1. PICK e \in ended : f = Gone(e)
        BY <1>4
      <3>2. e.kind = "query" /\ e.audited /\ f.h = e.h
        BY <1>3, <2>2, <3>1
      <3> QED BY <1>1, <3>2 DEF AuditSound
    <2>3. \A i, j \in DOMAIN audit : i # j => audit[i].h # audit[j].h
      BY <1>1 DEF AuditSound
    <2>4. audit' = audit
      BY <1>2
    <2> QED BY <2>1, <2>2, <2>3, <2>4 DEF AuditSound
  <1>12. StagesSound'
    BY <1>2 DEF StagesSound
  <1>13. FinishedBounded'
    <2>1. FinishedAt(queries') = {}
      BY <1>2 DEF FinishedAt, RunningAt
    <2> QED BY <2>1, FS_EmptySet, ObserveAssumption DEF FinishedBounded
  <1> QED BY <1>6, <1>8, <1>9, <1>10, <1>11, <1>12, <1>13 DEF IInv

\* Every step keeps the invariant.
LEMMA NextIInv ==
    ASSUME IInv, ~ResetInFlight, [Next]_vars
    PROVE  IInv'
  <1>0. auditOn \in BOOLEAN
    BY DEF IInv, TypeOK
  <1>1. CASE \E t \in Threads : Enter(t)
    BY <1>1, EnterStep
  <1>2. CASE \E t \in Threads : OpenStage(t)
    BY <1>2, StageStep
  <1>3. CASE \E t \in Threads : DoneInBody(t)
    BY <1>3, DoneStep
  <1>4. CASE \E t \in Threads : Leave(t)
    BY <1>4, LeaveStep
  <1>5. CASE SetAuditEnabled
    <2>1. auditOn' \in BOOLEAN /\ UNCHANGED <<seq, queries, stages, audit, handle, ended, started>>
      BY <1>0, <1>5 DEF SetAuditEnabled
    <2> QED BY <2>1, SameStep
  <1>6. CASE Reset
    BY <1>6, ResetStep
  <1>7. CASE StartPoller \/ StopPoller \/ PollerThread \/ UNCHANGED vars
    <2>1. UNCHANGED registryVars
      BY <1>7 DEF StartPoller, StopPoller, PollerThread, PollerStep, vars
    <2>2. auditOn' \in BOOLEAN /\ UNCHANGED <<seq, queries, stages, audit, handle, ended, started>>
      BY <1>0, <2>1 DEF registryVars
    <2> QED BY <2>2, SameStep
  <1> QED BY <1>1, <1>2, <1>3, <1>4, <1>5, <1>6, <1>7 DEF Next

(* The invariant of the registry and the audit log, where nothing resets   *)
(* them while queries run.                                                  *)
THEOREM ObserveInvariant ==
    ASSUME ~ResetInFlight
    PROVE  Spec => []IInv
  <1>1. Init => IInv
    BY InitIInv
  <1>2. IInv /\ [Next]_vars => IInv'
    BY NextIInv
  <1> QED BY <1>1, <1>2, PTL DEF Spec

(* No live query is ever evicted, the finished ones stay within the bound, *)
(* and only a stage opened after its query was done outlives it.           *)
THEOREM LiveKept ==
    ASSUME ~ResetInFlight
    PROVE  Spec => []LiveQueriesKept
  <1>1. IInv => LiveQueriesKept
    BY DEF IInv, LiveRecorded, Live, Entered, StagesSound, FinishedBounded, LiveQueriesKept
  <1> QED BY <1>1, ObserveInvariant, PTL

\* A record of an outcome's id tells that outcome.
LEMMA RecordTells ==
    ASSUME IInv, NEW i \in DOMAIN queries, NEW e \in ended, queries[i].id = e.id
    PROVE  queries[i].status # "running" /\ Tells(queries[i], e)
  <1>1. OutcomesApart /\ RecordsSound
    BY DEF IInv
  <1>2. queries[i].status # "running"
    <2>1. ASSUME queries[i].status = "running" PROVE FALSE
      <3>1. PICK t \in Threads : Live(t) /\ handle[t].id = queries[i].id
        BY <1>1, <2>1 DEF RecordsSound
      <3> QED BY <1>1, <3>1 DEF OutcomesApart
    <2> QED BY <2>1
  <1>3. PICK f \in ended : Tells(queries[i], f)
    BY <1>1, <1>2 DEF RecordsSound
  <1>4. f.id = e.id /\ e.id # 0
    <2>1. queries[i].id \in 1..seq
      BY <1>1 DEF RecordsSound
    <2>2. seq \in Nat
      BY DEF IInv, TypeOK
    <2> QED BY <1>3, <2>1, <2>2 DEF Tells
  <1>5. f = e
    BY <1>1, <1>4 DEF OutcomesApart
  <1> QED BY <1>2, <1>3, <1>5

\* summary() calls removed what the finished operators dropped in the balance.
LEMMA RemovedRows ==
    ASSUME IInv
    PROVE  LET finished == {e \in ended : e.kind = "curate" /\ e.status = "done" /\ e.id \in Ids}
           IN Removed = Monus(SumFunction([e \in finished |-> e.rowsIn - e.rows]), 0)
  <1> DEFINE S == CurateAt
             D == {e \in ended : e.kind = "curate" /\ e.status = "done" /\ e.id \in Ids}
             f == [i \in S |-> queries[i].bytes]
             g == [i \in S |-> queries[i].rows]
             h == [e \in D |-> e.rowsIn - e.rows]
             m == [e \in D |-> CHOOSE i \in DOMAIN queries : queries[i].id = e.id]
  <1>1. /\ OutcomesApart /\ RecordsSound /\ seq \in Nat /\ queries \in Seq(Records) /\ ended \subseteq Outcomes
        /\ IsFiniteSet(ended)
    BY DEF IInv, TypeOK
  <1>2. SumFunction(f) = SumFunctionOnSet(f, S) /\ SumFunction(g) = SumFunctionOnSet(g, S)
        /\ SumFunction(h) = SumFunctionOnSet(h, D)
    BY DEF SumFunction, SumFunctionOnSet, FoldFunction
  <1>3. Removed = Monus(SumFunction(f), SumFunction(g))
    BY DEF Removed
  <1>4. S \subseteq DOMAIN queries /\ \A i \in S : queries[i].kind = "curate"
    BY DEF CurateAt
  <1>5. IsFiniteSet(S)
    <2>1. Len(queries) \in Nat /\ DOMAIN queries = 1..Len(queries)
      BY <1>1
    <2>2. IsFiniteSet(1..Len(queries))
      BY <2>1, FS_Interval
    <2> QED BY <1>4, <2>1, <2>2, FS_Subset
  <1>6. IsFiniteSet(D)
    <2>1. D \subseteq ended
      OBVIOUS
    <2> HIDE DEF D
    <2> QED BY <1>1, <2>1, FS_Subset
  <1>7. \A i \in S : f[i] = queries[i].bytes /\ g[i] = queries[i].rows
    OBVIOUS
  <1>8. \A e \in D : h[e] = e.rowsIn - e.rows /\ h[e] \in Int
    <2>1. \A e \in Outcomes : e.rowsIn \in Nat /\ e.rows \in Nat
      BY DEF Outcomes
    <2>2. \A e \in ended : e.rowsIn - e.rows \in Int
      BY <1>1, <2>1
    <2>3. \A e \in D : e \in ended
      OBVIOUS
    <2> HIDE DEF D
    <2>4. \A e \in D : h[e] = e.rowsIn - e.rows
      OBVIOUS
    <2> QED BY <2>2, <2>3, <2>4
  <1>9. \A i \in S : queries[i].bytes \in Nat /\ queries[i].rows \in Nat
    <2>1. \A i \in DOMAIN queries : queries[i] \in Records
      BY <1>1
    <2>2. \A q \in Records : q.bytes \in Nat /\ q.rows \in Nat
      BY DEF Records
    <2> QED BY <1>4, <2>1, <2>2
  <1>10. \A e \in D : /\ m[e] \in DOMAIN queries /\ queries[m[e]].id = e.id
                      /\ e \in ended /\ e.kind = "curate" /\ e.status = "done"
    BY DEF Ids
  <1>11. \A e \in ended : e.kind = "curate" /\ e.status = "done" /\ e.id \in Ids => e \in D
    OBVIOUS
  <1> HIDE DEF S, D, f, g, h, m
  <1>12. \A i \in S : f[i] \in Int /\ g[i] \in Int
    BY <1>7, <1>9
  <1>13. ASSUME NEW e \in D
         PROVE  m[e] \in S /\ f[m[e]] - g[m[e]] = h[e]
    <2>1. Tells(queries[m[e]], e)
      BY <1>10, RecordTells
    <2>2. queries[m[e]].kind = "curate" /\ queries[m[e]].status = "done"
      BY <1>10, <2>1 DEF Tells
    <2>3. m[e] \in S
      BY <1>10, <2>2 DEF S, CurateAt
    <2>4. queries[m[e]].bytes - queries[m[e]].rows = e.rowsIn - e.rows
      BY <2>1, <2>2 DEF Tells
    <2> QED BY <1>7, <1>8, <2>3, <2>4
  <1>14. \A d, e \in D : m[d] = m[e] => d = e
    <2>1. ASSUME NEW d \in D, NEW e \in D, m[d] = m[e] PROVE d = e
      <3>1. d.id = e.id /\ d.id \in 1..seq /\ d \in ended /\ e \in ended
        BY <1>1, <1>10, <2>1 DEF RecordsSound
      <3>2. d.id # 0
        BY <1>1, <3>1
      <3> QED BY <1>1, <3>1, <3>2 DEF OutcomesApart
    <2> QED BY <2>1
  <1>15. ASSUME NEW i \in S, \A e \in D : m[e] # i
         PROVE  f[i] = g[i]
    <2>1. i \in DOMAIN queries /\ queries[i].kind = "curate" /\ queries[i].bytes \in Nat /\ queries[i].rows \in Nat
      BY <1>4, <1>9
    <2>2. CASE queries[i].status = "running"
      BY <1>1, <1>7, <2>1, <2>2 DEF RecordsSound
    <2>3. CASE queries[i].status # "running"
      <3>1. PICK e \in ended : Tells(queries[i], e)
        BY <1>1, <2>1, <2>3 DEF RecordsSound
      <3>2. queries[i].status # "done"
        <4>1. ASSUME queries[i].status = "done" PROVE FALSE
          <5>1. e.kind = "curate" /\ e.status = "done" /\ e.id = queries[i].id
            BY <2>1, <3>1, <4>1 DEF Tells
          <5>2. e \in D
            BY <1>11, <2>1, <5>1 DEF Ids
          <5>3. m[e] \in DOMAIN queries /\ queries[m[e]].id = queries[i].id
            BY <1>10, <5>1, <5>2
          <5>4. m[e] = i
            BY <1>1, <2>1, <5>3 DEF RecordsSound
          <5> QED BY <1>15, <5>2, <5>4
        <4> QED BY <4>1
      <3>3. queries[i].bytes - queries[i].rows = 0
        BY <2>1, <3>1, <3>2 DEF Tells
      <3>4. queries[i].bytes = queries[i].rows
        BY <2>1, <3>3
      <3> QED BY <1>7, <3>4
    <2> QED BY <2>2, <2>3
  <1>16. SumFunctionOnSet(f, S) - SumFunctionOnSet(g, S) = SumFunctionOnSet(h, D)
    BY <1>5, <1>6, <1>8, <1>12, <1>13, <1>14, <1>15, SumMatch
  <1>18. SumFunctionOnSet(f, S) \in Int /\ SumFunctionOnSet(g, S) \in Int
    <2>1. \A i \in S : f[i] \in Int
      BY <1>12
    <2>2. \A i \in S : g[i] \in Int
      BY <1>12
    <2> QED BY <1>5, <2>1, <2>2, SumAdds
  <1>19. Removed = Monus(SumFunctionOnSet(h, D), 0)
    <2>1. Removed = Monus(SumFunctionOnSet(f, S), SumFunctionOnSet(g, S))
      BY <1>2, <1>3
    <2> QED BY <1>16, <1>18, <2>1 DEF Monus
  <1>20. Removed = Monus(SumFunction(h), 0)
    BY <1>2, <1>19
  <1> QED BY <1>20 DEF h, D

(* The audit log has one record, of the first outcome, of each query that  *)
(* ended while it was on; the registry's records tell their outcomes, and  *)
(* summary() calls removed what finished operators dropped in the balance. *)
THEOREM RecordsTrue ==
    ASSUME ~ResetInFlight
    PROVE  Spec => []OutcomesRecorded
  <1>1. ASSUME IInv PROVE OutcomesRecorded
    <2>1. AuditSound
      BY <1>1 DEF IInv
    <2>2. \A i \in DOMAIN audit : \E e \in ended :
            /\ e.h = audit[i].h /\ e.kind = "query" /\ e.status = audit[i].status /\ e.rows = audit[i].rows
            /\ \A j \in DOMAIN audit : j # i => audit[j].h # audit[i].h
      BY <2>1 DEF AuditSound
    <2>3. \A e \in ended : e.kind = "query" /\ e.audited => \E i \in DOMAIN audit : audit[i].h = e.h
      BY <2>1 DEF AuditSound
    <2>4. \A i \in DOMAIN queries, e \in ended :
            queries[i].id = e.id => queries[i].status = e.status /\ queries[i].rows = e.rows
      BY <1>1, RecordTells DEF Tells
    <2>5. LET finished == {e \in ended : e.kind = "curate" /\ e.status = "done" /\ e.id \in Ids}
          IN Removed = Monus(SumFunction([e \in finished |-> e.rowsIn - e.rows]), 0)
      BY <1>1, RemovedRows
    <2> QED BY <2>2, <2>3, <2>4, <2>5 DEF OutcomesRecorded
  <1>2. IInv => OutcomesRecorded
    BY <1>1
  <1> QED BY <1>2, ObserveInvariant, PTL

=============================================================================
