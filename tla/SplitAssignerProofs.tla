------------------------ MODULE SplitAssignerProofs ------------------------
(***************************************************************************)
(* That every split is in one task, broadcast splits in all, partitions    *)
(* within their bounds and sealed in the end, by the packing assigner      *)
(* once: for any sources, splits, batches, sizes and order of reports.     *)
(***************************************************************************)
EXTENDS SplitAssigner, SequenceLemmas, FiniteSetTheorems

-----------------------------------------------------------------------------
\* The loops have a value after every turn: append_splits,
LEMMA AppendedLoop ==
    ASSUME NEW old, NEW splits, Len(splits) \in Nat
    PROVE  \E k : /\ k[0] = old
                  /\ \A i \in 1..Len(splits) :
                        k[i] = IF \E y \in ToSet(k[i - 1]) : y.seq = splits[i].seq THEN k[i - 1]
                               ELSE Append(k[i - 1], splits[i])
                  /\ Appended(old, splits) = k[Len(splits)]
  <1> DEFINE Turn(prev, i) == IF \E y \in ToSet(prev) : y.seq = splits[i].seq THEN prev
                              ELSE Append(prev, splits[i])
             Loop(n) == \E k : k = [i \in 0..n |-> IF i = 0 THEN old ELSE Turn(k[i - 1], i)]
             S == {n \in Nat : Loop(n)}
  <1> HIDE DEF Turn
  <1>1. 0 \in S
    <2> DEFINE k == [i \in 0..0 |-> old]
    <2>1. k = [i \in 0..0 |-> IF i = 0 THEN old ELSE Turn(k[i - 1], i)]
      OBVIOUS
    <2> QED BY <2>1
  <1>2. ASSUME NEW n \in Nat, n \in S PROVE n + 1 \in S
    <2>1. PICK k : k = [i \in 0..n |-> IF i = 0 THEN old ELSE Turn(k[i - 1], i)]
      BY <1>2
    <2>2. k[0] = old /\ \A i \in 1..n : k[i] = Turn(k[i - 1], i)
      BY <2>1
    <2> DEFINE m == [i \in 0..(n + 1) |-> IF i = n + 1 THEN Turn(k[n], n + 1) ELSE k[i]]
    <2>3. m[n + 1] = Turn(k[n], n + 1) /\ \A i \in 0..n : m[i] = k[i]
      OBVIOUS
    <2>4. m = [i \in 0..(n + 1) |-> m[i]]
      OBVIOUS
    <2> HIDE DEF m
    <2>5. \A i \in 0..(n + 1) : m[i] = IF i = 0 THEN old ELSE Turn(m[i - 1], i)
      <3>1. \A i \in 1..n : i - 1 \in 0..n /\ i \in 0..n
        OBVIOUS
      <3>2. \A i \in 1..n : m[i] = Turn(m[i - 1], i)
        BY <2>2, <2>3, <3>1
      <3>3. (n + 1) - 1 = n /\ n \in 0..n /\ 0 \in 0..n
        OBVIOUS
      <3>4. \A i \in 0..(n + 1) : i = 0 \/ i \in 1..n \/ i = n + 1
        OBVIOUS
      <3> QED BY <2>2, <2>3, <3>2, <3>3, <3>4
    <2>6. m = [i \in 0..(n + 1) |-> IF i = 0 THEN old ELSE Turn(m[i - 1], i)]
      BY <2>4, <2>5
    <2> QED BY <2>6
  <1>3. PICK k : k = [i \in 0..Len(splits) |-> IF i = 0 THEN old ELSE Turn(k[i - 1], i)]
    <2> HIDE DEF S
    <2>1. \A n \in Nat : n \in S
      BY <1>1, <1>2, Induction
    <2> QED BY <2>1 DEF S
  <1> DEFINE g == CHOOSE g : g = [i \in 0..Len(splits) |-> IF i = 0 THEN old ELSE Turn(g[i - 1], i)]
  <1>4. g = [i \in 0..Len(splits) |-> IF i = 0 THEN old ELSE Turn(g[i - 1], i)]
    BY <1>3
  <1>5. Appended(old, splits) = g[Len(splits)]
    BY DEF Appended, Turn
  <1> HIDE DEF g
  <1>6. g[0] = old /\ \A i \in 1..Len(splits) : g[i] = Turn(g[i - 1], i)
    BY <1>4
  <1> QED BY <1>5, <1>6 DEF Turn

\* the loop over the splits of a batch,
LEMMA PackLoop ==
    ASSUME NEW a, NEW batch, Len(batch) \in Nat
    PROVE  \E st : /\ st[0] = [a |-> a, r |-> NoUpdate]
                   /\ \A i \in 1..Len(batch) : st[i] = PackSplit(st[i - 1], batch[i])
                   /\ PackAll(a, batch) = st[Len(batch)]
  <1> DEFINE base == [a |-> a, r |-> NoUpdate]
             Loop(n) == \E k : k = [i \in 0..n |-> IF i = 0 THEN base ELSE PackSplit(k[i - 1], batch[i])]
             S == {n \in Nat : Loop(n)}
             g == CHOOSE g : g = [i \in 0..Len(batch) |-> IF i = 0 THEN base ELSE PackSplit(g[i - 1], batch[i])]
  <1>5. PackAll(a, batch) = g[Len(batch)]
    BY DEF PackAll
  <1> HIDE DEF base
  <1>1. 0 \in S
    <2> DEFINE k == [i \in 0..0 |-> base]
    <2>1. k = [i \in 0..0 |-> IF i = 0 THEN base ELSE PackSplit(k[i - 1], batch[i])]
      OBVIOUS
    <2> QED BY <2>1
  <1>2. ASSUME NEW n \in Nat, n \in S PROVE n + 1 \in S
    <2>1. PICK k : k = [i \in 0..n |-> IF i = 0 THEN base ELSE PackSplit(k[i - 1], batch[i])]
      BY <1>2
    <2>2. k[0] = base /\ \A i \in 1..n : k[i] = PackSplit(k[i - 1], batch[i])
      BY <2>1
    <2> DEFINE m == [i \in 0..(n + 1) |-> IF i = n + 1 THEN PackSplit(k[n], batch[n + 1]) ELSE k[i]]
    <2>3. m[n + 1] = PackSplit(k[n], batch[n + 1]) /\ \A i \in 0..n : m[i] = k[i]
      OBVIOUS
    <2>4. m = [i \in 0..(n + 1) |-> m[i]]
      OBVIOUS
    <2> HIDE DEF m
    <2>5. \A i \in 0..(n + 1) : m[i] = IF i = 0 THEN base ELSE PackSplit(m[i - 1], batch[i])
      <3>1. \A i \in 1..n : i - 1 \in 0..n /\ i \in 0..n
        OBVIOUS
      <3>2. \A i \in 1..n : m[i] = PackSplit(m[i - 1], batch[i])
        BY <2>2, <2>3, <3>1
      <3>3. (n + 1) - 1 = n /\ n \in 0..n /\ 0 \in 0..n
        OBVIOUS
      <3>4. \A i \in 0..(n + 1) : i = 0 \/ i \in 1..n \/ i = n + 1
        OBVIOUS
      <3> QED BY <2>2, <2>3, <3>2, <3>3, <3>4
    <2>6. m = [i \in 0..(n + 1) |-> IF i = 0 THEN base ELSE PackSplit(m[i - 1], batch[i])]
      BY <2>4, <2>5
    <2> QED BY <2>6
  <1>3. PICK k : k = [i \in 0..Len(batch) |-> IF i = 0 THEN base ELSE PackSplit(k[i - 1], batch[i])]
    <2> HIDE DEF S
    <2>1. \A n \in Nat : n \in S
      BY <1>1, <1>2, Induction
    <2> QED BY <2>1 DEF S
  <1>4. g = [i \in 0..Len(batch) |-> IF i = 0 THEN base ELSE PackSplit(g[i - 1], batch[i])]
    BY <1>3
  <1> HIDE DEF g
  <1>6. g[0] = base /\ \A i \in 1..Len(batch) : g[i] = PackSplit(g[i - 1], batch[i])
    BY <1>4
  <1> QED BY <1>5, <1>6 DEF base

\* the loop of the hash assigner over a batch,
LEMMA PlaceLoop ==
    ASSUME NEW batch, Len(batch) \in Nat
    PROVE  \E g : /\ g[0] = [p \in 0..(NumPartitions - 1) |-> <<>>]
                  /\ \A i \in 1..Len(batch) :
                        g[i] = [g[i - 1] EXCEPT ![RouteOf(batch[i])] = Append(@, batch[i])]
                  /\ ByPart(batch) = g[Len(batch)]
  <1> DEFINE base == [p \in 0..(NumPartitions - 1) |-> <<>>]
             Turn(prev, i) == [prev EXCEPT ![RouteOf(batch[i])] = Append(@, batch[i])]
             Loop(n) == \E k : k = [i \in 0..n |-> IF i = 0 THEN base ELSE Turn(k[i - 1], i)]
             S == {n \in Nat : Loop(n)}
             g == CHOOSE g : g = [i \in 0..Len(batch) |-> IF i = 0 THEN base ELSE Turn(g[i - 1], i)]
  <1>5. ByPart(batch) = g[Len(batch)]
    BY DEF ByPart
  <1> HIDE DEF base, Turn
  <1>1. 0 \in S
    <2> DEFINE k == [i \in 0..0 |-> base]
    <2>1. k = [i \in 0..0 |-> IF i = 0 THEN base ELSE Turn(k[i - 1], i)]
      OBVIOUS
    <2> QED BY <2>1
  <1>2. ASSUME NEW n \in Nat, n \in S PROVE n + 1 \in S
    <2>1. PICK k : k = [i \in 0..n |-> IF i = 0 THEN base ELSE Turn(k[i - 1], i)]
      BY <1>2
    <2>2. k[0] = base /\ \A i \in 1..n : k[i] = Turn(k[i - 1], i)
      BY <2>1
    <2> DEFINE m == [i \in 0..(n + 1) |-> IF i = n + 1 THEN Turn(k[n], n + 1) ELSE k[i]]
    <2>3. m[n + 1] = Turn(k[n], n + 1) /\ \A i \in 0..n : m[i] = k[i]
      OBVIOUS
    <2>4. m = [i \in 0..(n + 1) |-> m[i]]
      OBVIOUS
    <2> HIDE DEF m
    <2>5. \A i \in 0..(n + 1) : m[i] = IF i = 0 THEN base ELSE Turn(m[i - 1], i)
      <3>1. \A i \in 1..n : i - 1 \in 0..n /\ i \in 0..n
        OBVIOUS
      <3>2. \A i \in 1..n : m[i] = Turn(m[i - 1], i)
        BY <2>2, <2>3, <3>1
      <3>3. (n + 1) - 1 = n /\ n \in 0..n /\ 0 \in 0..n
        OBVIOUS
      <3>4. \A i \in 0..(n + 1) : i = 0 \/ i \in 1..n \/ i = n + 1
        OBVIOUS
      <3> QED BY <2>2, <2>3, <3>2, <3>3, <3>4
    <2>6. m = [i \in 0..(n + 1) |-> IF i = 0 THEN base ELSE Turn(m[i - 1], i)]
      BY <2>4, <2>5
    <2> QED BY <2>6
  <1>3. PICK k : k = [i \in 0..Len(batch) |-> IF i = 0 THEN base ELSE Turn(k[i - 1], i)]
    <2> HIDE DEF S
    <2>1. \A n \in Nat : n \in S
      BY <1>1, <1>2, Induction
    <2> QED BY <2>1 DEF S
  <1>4. g = [i \in 0..Len(batch) |-> IF i = 0 THEN base ELSE Turn(g[i - 1], i)]
    BY <1>3
  <1> HIDE DEF g
  <1>6. g[0] = base /\ \A i \in 1..Len(batch) : g[i] = Turn(g[i - 1], i)
    BY <1>4
  <1> QED BY <1>5, <1>6 DEF base, Turn

\* and the application of the updates.
LEMMA ApplyLoop ==
    ASSUME NEW ts, NEW us, Len(us) \in Nat
    PROVE  \E g : /\ g[0] = ts
                  /\ \A i \in 1..Len(us) : g[i] = Apply(g[i - 1], us[i])
                  /\ ApplyAll(ts, us) = g[Len(us)]
  <1> DEFINE Loop(n) == \E k : k = [i \in 0..n |-> IF i = 0 THEN ts ELSE Apply(k[i - 1], us[i])]
             S == {n \in Nat : Loop(n)}
             g == CHOOSE g : g = [i \in 0..Len(us) |-> IF i = 0 THEN ts ELSE Apply(g[i - 1], us[i])]
  <1>5. ApplyAll(ts, us) = g[Len(us)]
    BY DEF ApplyAll
  <1>1. 0 \in S
    <2> DEFINE k == [i \in 0..0 |-> ts]
    <2>1. k = [i \in 0..0 |-> IF i = 0 THEN ts ELSE Apply(k[i - 1], us[i])]
      OBVIOUS
    <2> QED BY <2>1
  <1>2. ASSUME NEW n \in Nat, n \in S PROVE n + 1 \in S
    <2>1. PICK k : k = [i \in 0..n |-> IF i = 0 THEN ts ELSE Apply(k[i - 1], us[i])]
      BY <1>2
    <2>2. k[0] = ts /\ \A i \in 1..n : k[i] = Apply(k[i - 1], us[i])
      BY <2>1
    <2> DEFINE m == [i \in 0..(n + 1) |-> IF i = n + 1 THEN Apply(k[n], us[n + 1]) ELSE k[i]]
    <2>3. m[n + 1] = Apply(k[n], us[n + 1]) /\ \A i \in 0..n : m[i] = k[i]
      OBVIOUS
    <2>4. m = [i \in 0..(n + 1) |-> m[i]]
      OBVIOUS
    <2> HIDE DEF m
    <2>5. \A i \in 0..(n + 1) : m[i] = IF i = 0 THEN ts ELSE Apply(m[i - 1], us[i])
      <3>1. \A i \in 1..n : i - 1 \in 0..n /\ i \in 0..n
        OBVIOUS
      <3>2. \A i \in 1..n : m[i] = Apply(m[i - 1], us[i])
        BY <2>2, <2>3, <3>1
      <3>3. (n + 1) - 1 = n /\ n \in 0..n /\ 0 \in 0..n
        OBVIOUS
      <3>4. \A i \in 0..(n + 1) : i = 0 \/ i \in 1..n \/ i = n + 1
        OBVIOUS
      <3> QED BY <2>2, <2>3, <3>2, <3>3, <3>4
    <2>6. m = [i \in 0..(n + 1) |-> IF i = 0 THEN ts ELSE Apply(m[i - 1], us[i])]
      BY <2>4, <2>5
    <2> QED BY <2>6
  <1>3. PICK k : k = [i \in 0..Len(us) |-> IF i = 0 THEN ts ELSE Apply(k[i - 1], us[i])]
    <2> HIDE DEF S
    <2>1. \A n \in Nat : n \in S
      BY <1>1, <1>2, Induction
    <2> QED BY <2>1 DEF S
  <1>4. g = [i \in 0..Len(us) |-> IF i = 0 THEN ts ELSE Apply(g[i - 1], us[i])]
    BY <1>3
  <1> HIDE DEF g
  <1>6. g[0] = ts /\ \A i \in 1..Len(us) : g[i] = Apply(g[i - 1], us[i])
    BY <1>4
  <1> QED BY <1>5, <1>6

-----------------------------------------------------------------------------
\* The descriptors and the updates they take.
TaskSet == [splits : [Sources -> Seq(Splits)], noMore : SUBSET Sources, known : SUBSET Sources]
UpdateSet == [pid : Nat, source : Sources, splits : Seq(Splits), noMore : BOOLEAN]
\* Splits whose sequence ids are new to a list, and differ among themselves.
Fresh(old, new) ==
    /\ \A i \in 1..Len(new), y \in ToSet(old) : y.seq # new[i].seq
    /\ \A i, j \in 1..Len(new) : i # j => new[i].seq # new[j].seq

\* append_splits appends what is fresh.
LEMMA AppendedFresh ==
    ASSUME NEW old \in Seq(Splits), NEW new \in Seq(Splits), Fresh(old, new)
    PROVE  Appended(old, new) = old \o new
  <1> DEFINE all == old \o new
             Upto(i) == [j \in 1..(Len(old) + i) |-> all[j]]
  <1>1. Len(old) \in Nat /\ Len(new) \in Nat /\ Len(all) = Len(old) + Len(new) /\ all \in Seq(Splits)
    OBVIOUS
  <1>2. /\ \A j \in 1..Len(old) : all[j] = old[j]
        /\ \A j \in 1..Len(new) : all[Len(old) + j] = new[j]
    OBVIOUS
  <1>3. old = Upto(0) /\ all = Upto(Len(new))
    <2>1. old = [j \in 1..Len(old) |-> old[j]] /\ all = [j \in 1..Len(all) |-> all[j]]
      <3>1. \A x \in Seq(Splits) : x = [j \in 1..Len(x) |-> x[j]]
        OBVIOUS
      <3> QED BY <1>1, <3>1
    <2>2. Len(old) + 0 = Len(old)
      BY <1>1
    <2> QED BY <1>1, <1>2, <2>1, <2>2
  <1>4. PICK k : /\ k[0] = old
                 /\ \A i \in 1..Len(new) :
                       k[i] = IF \E y \in ToSet(k[i - 1]) : y.seq = new[i].seq THEN k[i - 1]
                              ELSE Append(k[i - 1], new[i])
                 /\ Appended(old, new) = k[Len(new)]
    BY <1>1, AppendedLoop
  <1> HIDE DEF all
  <1> DEFINE S == {i \in Nat : i <= Len(new) => k[i] = Upto(i)}
  <1>5. 0 \in S
    BY <1>3, <1>4
  <1>6. ASSUME NEW i \in Nat, i \in S PROVE i + 1 \in S
    <2>1. SUFFICES ASSUME i + 1 <= Len(new) PROVE k[i + 1] = Upto(i + 1)
      OBVIOUS
    <2>2. k[i] = Upto(i) /\ i + 1 \in 1..Len(new) /\ (i + 1) - 1 = i
      BY <1>1, <1>6, <2>1
    <2>3. all[Len(old) + (i + 1)] = new[i + 1]
      BY <1>2, <2>2
    <2>4. ASSUME NEW y \in ToSet(Upto(i)) PROVE y.seq # new[i + 1].seq
      <3>1. PICK j \in 1..(Len(old) + i) : y = all[j]
        BY <2>4 DEF ToSet
      <3>2. CASE j <= Len(old)
        <4>1. j \in 1..Len(old)
          BY <1>1, <3>2
        <4>2. y \in ToSet(old)
          BY <1>2, <3>1, <4>1 DEF ToSet
        <4> QED BY <2>2, <4>2 DEF Fresh
      <3>3. CASE ~(j <= Len(old))
        <4>1. j - Len(old) \in 1..Len(new) /\ j - Len(old) # i + 1 /\ Len(old) + (j - Len(old)) = j
          BY <1>1, <2>1, <3>3
        <4>2. y = new[j - Len(old)]
          BY <1>2, <3>1, <4>1
        <4> QED BY <2>2, <4>1, <4>2 DEF Fresh
      <3> QED BY <3>2, <3>3
    <2>5. k[i + 1] = Append(Upto(i), new[i + 1])
      BY <1>4, <2>2, <2>4
    <2>6. Append(Upto(i), new[i + 1]) = Upto(i + 1)
      <3>1. Upto(i) \in Seq(Splits) /\ Len(Upto(i)) = Len(old) + i
        <4>1. \A j \in 1..(Len(old) + i) : all[j] \in Splits
          BY <1>1, <2>1
        <4> QED BY <1>1, <4>1
      <3> HIDE DEF S
      <3>2. Append(Upto(i), new[i + 1]) = [j \in 1..(Len(old) + i + 1) |->
                                              IF j = Len(old) + i + 1 THEN new[i + 1] ELSE Upto(i)[j]]
        BY <1>1, <3>1
      <3>3. \A j \in 1..(Len(old) + i + 1) : j # Len(old) + i + 1 => Upto(i)[j] = all[j]
        BY <1>1
      <3> QED BY <1>1, <2>3, <3>2, <3>3
    <2> QED BY <2>5, <2>6
  <1>7. \A i \in Nat : i \in S
    <2> HIDE DEF S
    <2> QED BY <1>5, <1>6, Induction
  <1>8. k[Len(new)] = Upto(Len(new))
    <2>1. Len(new) \in S /\ Len(new) <= Len(new)
      BY <1>1, <1>7
    <2> QED BY <2>1
  <1> QED BY <1>3, <1>4, <1>8 DEF all

\* What an update of fresh splits does to its descriptor.
LEMMA UpdatedFresh ==
    ASSUME NEW t \in TaskSet, NEW u \in UpdateSet, Fresh(t.splits[u.source], u.splits)
    PROVE  /\ Updated(t, u) \in TaskSet
           /\ Updated(t, u).splits[u.source] = t.splits[u.source] \o u.splits
           /\ \A q \in Sources \ {u.source} : Updated(t, u).splits[q] = t.splits[q]
           /\ Updated(t, u).known = t.known \cup {u.source}
           /\ Updated(t, u).noMore = IF u.noMore THEN t.noMore \cup {u.source} ELSE t.noMore
  <1>1. /\ u.source \in Sources /\ u.splits \in Seq(Splits) /\ u.noMore \in BOOLEAN
        /\ t.splits \in [Sources -> Seq(Splits)] /\ t.noMore \subseteq Sources /\ t.known \subseteq Sources
    BY DEF UpdateSet, TaskSet
  <1>2. Appended(t.splits[u.source], u.splits) = t.splits[u.source] \o u.splits
    BY <1>1, AppendedFresh
  <1> DEFINE more == AppendSplits(t, u.source, u.splits)
             both == t.splits[u.source] \o u.splits
  <1>3. both \in Seq(Splits)
    BY <1>1
  <1>4. more = [splits |-> [t.splits EXCEPT ![u.source] = both], noMore |-> t.noMore,
                known |-> t.known \cup {u.source}]
    <2>1. t = [splits |-> t.splits, noMore |-> t.noMore, known |-> t.known]
      BY DEF TaskSet
    <2>2. more = [t EXCEPT !.splits = [t.splits EXCEPT ![u.source] = both],
                           !.known = t.known \cup {u.source}]
      BY <1>1, <1>2, <2>1 DEF AppendSplits
    <2> HIDE DEF both, more
    <2> QED BY <2>1, <2>2
  <1> HIDE DEF both
  <1>5. Updated(t, u) = [splits |-> [t.splits EXCEPT ![u.source] = both],
                         noMore |-> IF u.noMore THEN t.noMore \cup {u.source} ELSE t.noMore,
                         known |-> t.known \cup {u.source}]
    <2>1. Updated(t, u) = IF u.noMore THEN [more EXCEPT !.noMore = @ \cup {u.source}] ELSE more
      BY DEF Updated, SealSource
    <2> HIDE DEF more
    <2> QED BY <1>1, <1>4, <2>1
  <1> DEFINE new == Updated(t, u)
  <1> HIDE DEF new
  <1>6. /\ new.splits = [t.splits EXCEPT ![u.source] = both]
        /\ new.noMore = IF u.noMore THEN t.noMore \cup {u.source} ELSE t.noMore
        /\ new.known = t.known \cup {u.source}
    BY <1>5 DEF new
  <1>7. new \in TaskSet
    <2>1. new = [splits |-> new.splits, noMore |-> new.noMore, known |-> new.known]
      BY <1>5 DEF new
    <2>2. new.splits \in [Sources -> Seq(Splits)] /\ new.noMore \subseteq Sources /\ new.known \subseteq Sources
      BY <1>1, <1>3, <1>6
    <2> QED BY <2>1, <2>2 DEF TaskSet
  <1>8. new.splits[u.source] = both /\ \A q \in Sources \ {u.source} : new.splits[q] = t.splits[q]
    BY <1>1, <1>6
  <1> QED BY <1>6, <1>7, <1>8 DEF both, new

\* An update that says only that its source has ended.
LEMMA NothingFresh == \A old : Fresh(old, <<>>)
  BY DEF Fresh

-----------------------------------------------------------------------------
\* Updates of different partitions do not disturb each other.
LEMMA Spread ==
    ASSUME NEW ts, NEW us, Len(us) \in Nat, \A i \in 1..Len(us) : us[i].pid \in DOMAIN ts,
           \A i, j \in 1..Len(us) : i # j => us[i].pid # us[j].pid
    PROVE  /\ DOMAIN ApplyAll(ts, us) = DOMAIN ts
           /\ \A i \in 1..Len(us) : ApplyAll(ts, us)[us[i].pid] = Updated(ts[us[i].pid], us[i])
           /\ \A p \in DOMAIN ts : (\A i \in 1..Len(us) : us[i].pid # p) => ApplyAll(ts, us)[p] = ts[p]
  <1>1. PICK g : /\ g[0] = ts
                 /\ \A i \in 1..Len(us) : g[i] = Apply(g[i - 1], us[i])
                 /\ ApplyAll(ts, us) = g[Len(us)]
    BY ApplyLoop
  <1> DEFINE Done(i) == /\ DOMAIN g[i] = DOMAIN ts
                        /\ \A j \in 1..i : g[i][us[j].pid] = Updated(ts[us[j].pid], us[j])
                        /\ \A p \in DOMAIN ts : (\A j \in 1..i : us[j].pid # p) => g[i][p] = ts[p]
             S == {i \in Nat : i <= Len(us) => Done(i)}
  <1>2. 0 \in S
    <2>1. 1..0 = {}
      OBVIOUS
    <2> QED BY <1>1, <2>1
  <1>3. ASSUME NEW i \in Nat, i \in S PROVE i + 1 \in S
    <2>1. SUFFICES ASSUME i + 1 <= Len(us) PROVE Done(i + 1)
      OBVIOUS
    <2>2. Done(i) /\ i + 1 \in 1..Len(us) /\ (i + 1) - 1 = i
      BY <1>3, <2>1
    <2> DEFINE p == us[i + 1].pid
    <2>3. g[i + 1] = [g[i] EXCEPT ![p] = Updated(@, us[i + 1])] /\ p \in DOMAIN ts
      BY <1>1, <2>2 DEF Apply
    <2>4. /\ DOMAIN g[i + 1] = DOMAIN ts
          /\ g[i + 1][p] = Updated(g[i][p], us[i + 1])
          /\ \A q \in DOMAIN ts : q # p => g[i + 1][q] = g[i][q]
      BY <2>2, <2>3
    <2>5. \A j \in 1..i : j \in 1..Len(us) /\ us[j].pid # p /\ us[j].pid \in DOMAIN ts
      <3>1. \A j \in 1..i : j \in 1..Len(us) /\ j # i + 1
        BY <2>1
      <3> QED BY <2>2, <3>1
    <2>6. g[i][p] = ts[p]
      BY <2>2, <2>3, <2>5
    <2>7. \A j \in 1..(i + 1) : j \in 1..i \/ j = i + 1
      OBVIOUS
    <2>8. \A j \in 1..i : j \in 1..(i + 1)
      OBVIOUS
    <2> HIDE DEF p
    <2>9. \A j \in 1..(i + 1) : g[i + 1][us[j].pid] = Updated(ts[us[j].pid], us[j])
      BY <2>2, <2>4, <2>5, <2>6, <2>7 DEF p
    <2>10. ASSUME NEW q \in DOMAIN ts, \A j \in 1..(i + 1) : us[j].pid # q
           PROVE  g[i + 1][q] = ts[q]
      <3>1. i + 1 \in 1..(i + 1)
        OBVIOUS
      <3> QED BY <2>2, <2>4, <2>8, <2>10, <3>1 DEF p
    <2> QED BY <2>4, <2>9, <2>10
  <1>4. \A i \in Nat : i \in S
    <2> HIDE DEF S
    <2> QED BY <1>2, <1>3, Induction
  <1>5. Done(Len(us))
    BY <1>4
  <1> QED BY <1>1, <1>5

\* Updates after updates.
LEMMA ApplyConcat ==
    ASSUME NEW ts, NEW us \in Seq(UpdateSet), NEW vs \in Seq(UpdateSet)
    PROVE  ApplyAll(ts, us \o vs) = ApplyAll(ApplyAll(ts, us), vs)
  <1> DEFINE all == us \o vs
             mid == ApplyAll(ts, us)
  <1>1. /\ Len(us) \in Nat /\ Len(vs) \in Nat /\ Len(all) = Len(us) + Len(vs)
        /\ \A i \in 1..Len(us) : all[i] = us[i]
        /\ \A i \in 1..Len(vs) : all[Len(us) + i] = vs[i]
    OBVIOUS
  <1> HIDE DEF all
  <1>2. PICK h : /\ h[0] = ts /\ mid = h[Len(us)]
                 /\ \A i \in 1..Len(us) : h[i] = Apply(h[i - 1], us[i])
    BY <1>1, ApplyLoop
  <1> HIDE DEF mid
  <1>3. PICK k : /\ k[0] = mid /\ ApplyAll(mid, vs) = k[Len(vs)]
                 /\ \A i \in 1..Len(vs) : k[i] = Apply(k[i - 1], vs[i])
    BY <1>1, ApplyLoop
  <1>4. PICK g : /\ g[0] = ts /\ ApplyAll(ts, all) = g[Len(all)]
                 /\ \A i \in 1..Len(all) : g[i] = Apply(g[i - 1], all[i])
    <2>1. Len(all) \in Nat
      BY <1>1
    <2> QED BY <2>1, ApplyLoop, SMTT(30)
  <1> DEFINE S == {i \in Nat : i <= Len(us) => g[i] = h[i]}
             R == {i \in Nat : i <= Len(vs) => g[Len(us) + i] = k[i]}
  <1>5. 0 \in S
    BY <1>2, <1>4
  <1>6. ASSUME NEW i \in Nat, i \in S PROVE i + 1 \in S
    <2>1. SUFFICES ASSUME i + 1 <= Len(us) PROVE g[i + 1] = h[i + 1]
      OBVIOUS
    <2>2. i + 1 \in 1..Len(us) /\ i + 1 \in 1..Len(all) /\ (i + 1) - 1 = i /\ g[i] = h[i]
      BY <1>1, <1>6, <2>1
    <2> QED BY <1>1, <1>2, <1>4, <2>2
  <1>7. \A i \in Nat : i \in S
    <2> HIDE DEF S
    <2> QED BY <1>5, <1>6, Induction
  <1>8. 0 \in R
    <2>1. g[Len(us)] = h[Len(us)] /\ Len(us) + 0 = Len(us)
      BY <1>1, <1>7
    <2> QED BY <1>2, <1>3, <2>1
  <1>9. ASSUME NEW i \in Nat, i \in R PROVE i + 1 \in R
    <2>1. SUFFICES ASSUME i + 1 <= Len(vs) PROVE g[Len(us) + (i + 1)] = k[i + 1]
      OBVIOUS
    <2>2. /\ i + 1 \in 1..Len(vs) /\ Len(us) + (i + 1) \in 1..Len(all) /\ (i + 1) - 1 = i
          /\ (Len(us) + (i + 1)) - 1 = Len(us) + i /\ g[Len(us) + i] = k[i]
      BY <1>1, <1>9, <2>1
    <2>3. g[Len(us) + (i + 1)] = Apply(g[Len(us) + i], all[Len(us) + (i + 1)])
      BY <1>4, <2>2
    <2> QED BY <1>1, <1>3, <2>2, <2>3
  <1>10. \A i \in Nat : i \in R
    <2> HIDE DEF R
    <2> QED BY <1>8, <1>9, Induction
  <1>11. g[Len(all)] = k[Len(vs)]
    BY <1>1, <1>10
  <1> QED BY <1>3, <1>4, <1>11 DEF all, mid

\* One update, and none.
LEMMA ApplyOne ==
    ASSUME NEW ts, NEW u
    PROVE  ApplyAll(ts, <<u>>) = Apply(ts, u) /\ ApplyAll(ts, <<>>) = ts
  <1>1. Len(<<u>>) = 1 /\ <<u>>[1] = u /\ Len(<<>>) = 0
    OBVIOUS
  <1>2. ApplyAll(ts, <<u>>) = Apply(ts, u)
    <2> DEFINE us == <<u>>
    <2>0. Len(us) \in Nat
      BY <1>1
    <2> HIDE DEF us
    <2>1. PICK g : /\ g[0] = ts /\ ApplyAll(ts, us) = g[Len(us)]
                   /\ \A i \in 1..Len(us) : g[i] = Apply(g[i - 1], us[i])
      BY <2>0, ApplyLoop
    <2>2. Len(us) = 1 /\ us[1] = u /\ 1 \in 1..1 /\ 1 - 1 = 0
      BY <1>1 DEF us
    <2> QED BY <2>1, <2>2 DEF us
  <1>3. ApplyAll(ts, <<>>) = ts
    <2>1. PICK g : g[0] = ts /\ ApplyAll(ts, <<>>) = g[Len(<<>>)]
      BY <1>1, ApplyLoop
    <2> QED BY <1>1, <2>1
  <1> QED BY <1>2, <1>3

-----------------------------------------------------------------------------
\* What SetToSeq lists, for a finite set.
LEMMA Listed ==
    ASSUME NEW S, IsFiniteSet(S)
    PROVE  /\ Len(SetToSeq(S)) = Cardinality(S) /\ Cardinality(S) \in Nat
           /\ DOMAIN SetToSeq(S) = 1..Len(SetToSeq(S))
           /\ \A i \in 1..Len(SetToSeq(S)) : SetToSeq(S)[i] \in S
           /\ \A x \in S : \E i \in 1..Len(SetToSeq(S)) : SetToSeq(S)[i] = x
           /\ \A i, j \in 1..Len(SetToSeq(S)) : i # j => SetToSeq(S)[i] # SetToSeq(S)[j]
  <1> DEFINE n == Cardinality(S)
             q == SetToSeq(S)
  <1>1. n \in Nat /\ Bijection(1..n, S) # {}
    BY FS_CardinalityType DEF ExistsBijection
  <1>2. PICK b : b \in [1..n -> S] /\ IsInjective(b)
    BY <1>1 DEF Bijection, Injection
  <1>3. q \in [1..n -> S] /\ IsInjective(q)
    BY <1>2 DEF SetToSeq
  <1>4. IsFiniteSet(1..n) /\ Cardinality(1..n) = n
    BY <1>1, FS_Interval
  <1> HIDE DEF n, q
  <1>5. q \in Injection(1..n, S)
    BY <1>3 DEF Injection
  <1>6. q \in Surjection(1..n, S)
    BY <1>4, <1>5, FS_Injection DEF n
  <1>7. \A x \in S : \E i \in 1..n : q[i] = x
    BY <1>6 DEF Surjection
  <1>8. Len(q) = n
    BY <1>1, <1>3
  <1> QED BY <1>1, <1>3, <1>7, <1>8 DEF IsInjective, n, q

-----------------------------------------------------------------------------
\* The element that SizeOf takes next, and what it then does.
Taken(S) == CHOOSE x \in S : TRUE
Summed(S, g) == IF S = {} THEN 0 ELSE Taken(S).size + g[S \ {Taken(S)}]

\* The fold is defined,
LEMMA SizeFold ==
    ASSUME NEW xs, IsFiniteSet(xs)
    PROVE  \E g : /\ g = [s \in SUBSET xs |-> Summed(s, g)]
                  /\ SizeOf(xs) = g[xs]
  <1> DEFINE D(n) == {s \in SUBSET xs : Cardinality(s) <= n}
             Loop(n) == \E k : k = [s \in D(n) |-> Summed(s, k)]
             S == {n \in Nat : Loop(n)}
             g == CHOOSE g : g = [s \in SUBSET xs |-> Summed(s, g)]
  <1>1. SizeOf(xs) = g[xs]
    BY DEF SizeOf, MapThenFoldSet, Summed, Taken
  <1>2. \A s \in SUBSET xs : /\ IsFiniteSet(s) /\ Cardinality(s) \in Nat /\ (Cardinality(s) = 0 <=> s = {})
                             /\ Cardinality(s) <= Cardinality(xs)
    BY FS_Subset, FS_CardinalityType, FS_EmptySet
  <1>3. \A s \in SUBSET xs : s # {} => /\ Taken(s) \in s /\ s \ {Taken(s)} \in SUBSET xs
                                       /\ Cardinality(s \ {Taken(s)}) = Cardinality(s) - 1
    BY <1>2, FS_RemoveElement DEF Taken
  <1>4. 0 \in S
    <2> DEFINE k == [s \in D(0) |-> 0]
    <2>1. \A s \in D(0) : s = {}
      BY <1>2
    <2>2. k = [s \in D(0) |-> Summed(s, k)]
      BY <2>1 DEF Summed
    <2> QED BY <2>2
  <1>5. ASSUME NEW n \in Nat, n \in S PROVE n + 1 \in S
    <2>1. PICK k : k = [s \in D(n) |-> Summed(s, k)]
      BY <1>5
    <2> DEFINE m == [s \in D(n + 1) |-> IF s \in D(n) THEN k[s] ELSE Summed(s, k)]
    <2>2. D(n) \subseteq D(n + 1)
      BY <1>2
    <2>3. \A s \in D(n) : m[s] = k[s]
      BY <2>2
    <2>4. \A s \in D(n + 1) : s # {} => s \ {Taken(s)} \in D(n)
      BY <1>2, <1>3
    <2>5. \A s \in D(n + 1) : Summed(s, k) = Summed(s, m)
      BY <2>3, <2>4 DEF Summed
    <2>6. \A s \in D(n + 1) : m[s] = Summed(s, k)
      BY <2>1
    <2>7. m = [s \in D(n + 1) |-> m[s]]
      OBVIOUS
    <2> HIDE DEF m, D
    <2>8. m = [s \in D(n + 1) |-> Summed(s, m)]
      BY <2>5, <2>6, <2>7
    <2> QED BY <2>8
  <1>6. D(Cardinality(xs)) = SUBSET xs /\ Cardinality(xs) \in Nat
    BY <1>2
  <1>7. \A n \in Nat : n \in S
    <2> HIDE DEF S
    <2> QED BY <1>4, <1>5, Induction
  <1>8. Loop(Cardinality(xs))
    BY <1>6, <1>7
  <1>9. g = [s \in SUBSET xs |-> Summed(s, g)]
    BY <1>6, <1>8
  <1> HIDE DEF g
  <1> QED BY <1>1, <1>9

\* agrees with itself on subsets,
LEMMA SizeStep ==
    ASSUME NEW xs, IsFiniteSet(xs)
    PROVE  SizeOf(xs) = IF xs = {} THEN 0 ELSE Taken(xs).size + SizeOf(xs \ {Taken(xs)})
  <1> DEFINE ys == xs \ {Taken(xs)}
  <1>1. IsFiniteSet(ys) /\ ys \in SUBSET xs /\ xs \in SUBSET xs
    BY FS_RemoveElement
  <1>2. PICK g : g = [s \in SUBSET xs |-> Summed(s, g)] /\ SizeOf(xs) = g[xs]
    BY SizeFold
  <1> HIDE DEF ys
  <1>3. PICK h : h = [s \in SUBSET ys |-> Summed(s, h)] /\ SizeOf(ys) = h[ys]
    BY <1>1, SizeFold
  <1>4. SizeOf(xs) = IF xs = {} THEN 0 ELSE Taken(xs).size + g[ys]
    BY <1>1, <1>2 DEF Summed, ys
  <1> DEFINE S == {n \in Nat : \A s \in SUBSET ys : Cardinality(s) = n => g[s] = h[s]}
  <1>5. \A s \in SUBSET ys : /\ s \in SUBSET xs /\ IsFiniteSet(s) /\ Cardinality(s) \in Nat
                             /\ (Cardinality(s) = 0 <=> s = {})
    BY <1>1, FS_Subset, FS_CardinalityType, FS_EmptySet
  <1>6. \A s \in SUBSET ys : s # {} => /\ s \ {Taken(s)} \in SUBSET ys
                                       /\ Cardinality(s \ {Taken(s)}) = Cardinality(s) - 1
    BY <1>5, FS_RemoveElement DEF Taken
  <1>7. \A s \in SUBSET ys : g[s] = Summed(s, g) /\ h[s] = Summed(s, h)
    <2>1. \A s \in SUBSET xs : g[s] = Summed(s, g)
      BY <1>2
    <2>2. \A s \in SUBSET ys : h[s] = Summed(s, h)
      BY <1>3
    <2> QED BY <1>5, <2>1, <2>2
  <1>8. 0 \in S
    <2>1. \A s \in SUBSET ys : Cardinality(s) = 0 => g[s] = h[s]
      BY <1>5, <1>7 DEF Summed
    <2> QED BY <2>1
  <1>9. ASSUME NEW n \in Nat, n \in S PROVE n + 1 \in S
    <2>1. ASSUME NEW s \in SUBSET ys, Cardinality(s) = n + 1 PROVE g[s] = h[s]
      <3>1. s # {} /\ Cardinality(s \ {Taken(s)}) = n /\ s \ {Taken(s)} \in SUBSET ys
        BY <1>5, <1>6, <2>1
      <3>2. g[s \ {Taken(s)}] = h[s \ {Taken(s)}]
        BY <1>9, <3>1
      <3> QED BY <1>7, <3>1, <3>2 DEF Summed
    <2> QED BY <2>1
  <1>10. \A n \in Nat : n \in S
    <2> HIDE DEF S
    <2> QED BY <1>8, <1>9, Induction
  <1>11. g[ys] = h[ys]
    <2>1. ys \in SUBSET ys /\ Cardinality(ys) \in Nat
      BY <1>5
    <2> QED BY <1>10, <2>1
  <1> QED BY <1>3, <1>4, <1>11 DEF ys

\* and adds every size once, whatever the order.
LEMMA SizeAdds ==
    ASSUME NEW xs, IsFiniteSet(xs), \A x \in xs : x.size \in Nat
    PROVE  /\ SizeOf({}) = 0 /\ SizeOf(xs) \in Nat
           /\ \A x \in xs : SizeOf(xs) = x.size + SizeOf(xs \ {x})
  <1> DEFINE Adds(s) == SizeOf(s) \in Nat /\ \A x \in s : SizeOf(s) = x.size + SizeOf(s \ {x})
             S == {n \in Nat : \A s \in SUBSET xs : Cardinality(s) <= n => Adds(s)}
  <1>1. SizeOf({}) = 0
    BY SizeStep, FS_EmptySet
  <1>2. \A s \in SUBSET xs : /\ IsFiniteSet(s) /\ Cardinality(s) \in Nat
                             /\ (Cardinality(s) = 0 <=> s = {})
    BY FS_Subset, FS_CardinalityType, FS_EmptySet
  <1>3. \A s \in SUBSET xs : \A x : x \in s => s \ {x} \in SUBSET xs /\ Cardinality(s \ {x}) = Cardinality(s) - 1
    BY <1>2, FS_RemoveElement
  <1>4. 0 \in S
    <2>1. \A s \in SUBSET xs : Cardinality(s) <= 0 => Adds(s)
      BY <1>1, <1>2
    <2> QED BY <2>1
  <1>5. ASSUME NEW n \in Nat, n \in S PROVE n + 1 \in S
    <2> HIDE DEF Adds
    <2>0. \A s \in SUBSET xs : Cardinality(s) <= n => Adds(s)
      BY <1>5
    <2>1. ASSUME NEW s \in SUBSET xs, Cardinality(s) = n + 1 PROVE Adds(s)
      <3> DEFINE y == Taken(s)
      <3>1. s # {} /\ y \in s /\ y.size \in Nat
        BY <1>2, <2>1 DEF Taken
      <3>2. SizeOf(s) = y.size + SizeOf(s \ {y})
        BY <1>2, <3>1, SizeStep
      <3> HIDE DEF y
      <3>3. \A x \in s : s \ {x} \in SUBSET xs /\ Cardinality(s \ {x}) = n /\ Adds(s \ {x})
        BY <1>3, <2>0, <2>1
      <3>4. ASSUME NEW x \in s PROVE SizeOf(s) = x.size + SizeOf(s \ {x})
        <4>1. CASE x = y
          BY <3>2, <4>1
        <4>2. CASE x # y
          <5>1. SizeOf(s \ {y}) = x.size + SizeOf((s \ {y}) \ {x})
            BY <3>1, <3>3, <4>2 DEF Adds
          <5>2. SizeOf(s \ {x}) = y.size + SizeOf((s \ {x}) \ {y})
            BY <3>1, <3>3, <4>2 DEF Adds
          <5>3. (s \ {y}) \ {x} = (s \ {x}) \ {y}
            OBVIOUS
          <5>4. SizeOf((s \ {x}) \ {y}) \in Nat /\ x.size \in Nat
            <6>1. y \in s \ {x} /\ s \ {x} \in SUBSET xs /\ Cardinality(s \ {x}) = n
              BY <3>1, <3>3, <4>2
            <6>2. (s \ {x}) \ {y} \in SUBSET xs /\ Cardinality((s \ {x}) \ {y}) <= n
              BY <1>3, <6>1
            <6>3. Adds((s \ {x}) \ {y})
              BY <2>0, <6>2
            <6> QED BY <6>3 DEF Adds
          <5>5. SizeOf((s \ {y}) \ {x}) = SizeOf((s \ {x}) \ {y})
            BY <5>3
          <5>6. \A a, b, c \in Nat : a + (b + c) = b + (a + c)
            OBVIOUS
          <5> QED BY <3>1, <3>2, <5>1, <5>2, <5>4, <5>5, <5>6
        <4> QED BY <4>1, <4>2
      <3>5. SizeOf(s) \in Nat
        <4>1. SizeOf(s \ {y}) \in Nat
          BY <3>1, <3>3 DEF Adds
        <4>2. \A a, b \in Nat : a + b \in Nat
          OBVIOUS
        <4> QED BY <3>1, <3>2, <4>1, <4>2
      <3> QED BY <3>4, <3>5 DEF Adds
    <2>2. \A s \in SUBSET xs : Cardinality(s) <= n + 1 => Cardinality(s) <= n \/ Cardinality(s) = n + 1
      BY <1>2
    <2> QED BY <2>0, <2>1, <2>2
  <1>6. \A n \in Nat : n \in S
    <2> HIDE DEF S
    <2> QED BY <1>4, <1>5, Induction
  <1>7. Adds(xs)
    <2>1. xs \in SUBSET xs /\ Cardinality(xs) \in Nat
      BY <1>2
    <2> QED BY <1>6, <2>1
  <1> QED BY <1>1, <1>7

-----------------------------------------------------------------------------
\* The fields of an update.
LEMMA UpdateFields ==
    \A pid, source, splits, noMore :
        /\ Update(pid, source, splits, noMore).pid = pid
        /\ Update(pid, source, splits, noMore).source = source
        /\ Update(pid, source, splits, noMore).splits = splits
        /\ Update(pid, source, splits, noMore).noMore = noMore
        /\ (pid \in Nat /\ source \in Sources /\ splits \in Seq(Splits) /\ noMore \in BOOLEAN)
              => Update(pid, source, splits, noMore) \in UpdateSet
  BY DEF Update, UpdateSet

TaskMap(D) == [D -> TaskSet]

\* The same splits, and the same end, for each of the first n partitions.
Tells(us, n, s, batch, last) ==
    last \in BOOLEAN /\ Len(us) = n /\ \A i \in 1..n : us[i] = Update(i - 1, s, batch, last)
AllFresh(D, T, n, s, batch) == 0..(n - 1) \subseteq D /\ \A p \in 0..(n - 1) : Fresh(T[p].splits[s], batch)
ToldTo(D, T, V, n, s, batch, last) ==
    /\ V \in TaskMap(D)
    /\ \A p \in 0..(n - 1) :
          /\ V[p].splits[s] = T[p].splits[s] \o batch
          /\ \A q \in Sources \ {s} : V[p].splits[q] = T[p].splits[q]
          /\ V[p].known = T[p].known \cup {s}
          /\ V[p].noMore = IF last THEN T[p].noMore \cup {s} ELSE T[p].noMore
    /\ \A p \in D \ 0..(n - 1) : V[p] = T[p]

\* What they do.
LEMMA ToldAll ==
    ASSUME NEW D, NEW T \in TaskMap(D), NEW n \in Nat,
           NEW s \in Sources, NEW batch \in Seq(Splits), NEW last,
           AllFresh(D, T, n, s, batch), NEW us, Tells(us, n, s, batch, last)
    PROVE  ToldTo(D, T, ApplyAll(T, us), n, s, batch, last)
  <1> DEFINE T2 == ApplyAll(T, us)
  <1> USE DEF TaskMap, Tells, AllFresh
  <1>1. \A i \in 1..n : /\ us[i] = Update(i - 1, s, batch, last) /\ us[i] \in UpdateSet
                        /\ us[i].pid = i - 1 /\ us[i].source = s /\ us[i].splits = batch /\ us[i].noMore = last
    BY UpdateFields
  <1>2. Len(us) = n
    OBVIOUS
  <1>3. /\ DOMAIN T2 = D
        /\ \A i \in 1..n : T2[i - 1] = Updated(T[i - 1], us[i])
        /\ \A p \in D : (\A i \in 1..n : us[i].pid # p) => T2[p] = T[p]
    <2>1. DOMAIN T = D /\ \A i \in 1..n : i - 1 \in 0..(n - 1)
      OBVIOUS
    <2>2. \A i \in 1..Len(us) : us[i].pid \in DOMAIN T
      BY <1>1, <1>2, <2>1
    <2>3. \A i, j \in 1..Len(us) : i # j => us[i].pid # us[j].pid
      BY <1>1, <1>2
    <2>4. Len(us) \in Nat
      BY <1>2
    <2>5. /\ DOMAIN T2 = DOMAIN T
          /\ \A i \in 1..Len(us) : T2[us[i].pid] = Updated(T[us[i].pid], us[i])
          /\ \A p \in DOMAIN T : (\A i \in 1..Len(us) : us[i].pid # p) => T2[p] = T[p]
      BY <2>2, <2>3, <2>4, Spread, ZenonT(40)
    <2> QED BY <1>1, <1>2, <2>1, <2>5
  <1> HIDE DEF T2
  <1>4. ASSUME NEW p \in 0..(n - 1)
        PROVE  /\ T2[p] \in TaskSet
               /\ T2[p].splits[s] = T[p].splits[s] \o batch
               /\ \A q \in Sources \ {s} : T2[p].splits[q] = T[p].splits[q]
               /\ T2[p].known = T[p].known \cup {s}
               /\ T2[p].noMore = IF last THEN T[p].noMore \cup {s} ELSE T[p].noMore
    <2> DEFINE u == us[p + 1]
    <2>1. p + 1 \in 1..n /\ (p + 1) - 1 = p /\ p \in D
      OBVIOUS
    <2>2. u \in UpdateSet /\ u.source = s /\ u.splits = batch /\ u.noMore = last
      BY <1>1, <2>1
    <2>3. T2[p] = Updated(T[p], u)
      BY <1>3, <2>1
    <2>4. T[p] \in TaskSet /\ Fresh(T[p].splits[u.source], u.splits)
      BY <2>1, <2>2
    <2> HIDE DEF u
    <2> DEFINE t == T[p]
               v == Updated(t, u)
    <2>5. /\ v \in TaskSet
          /\ v.splits[u.source] = t.splits[u.source] \o u.splits
          /\ \A q \in Sources \ {u.source} : v.splits[q] = t.splits[q]
          /\ v.known = t.known \cup {u.source}
          /\ v.noMore = IF u.noMore THEN t.noMore \cup {u.source} ELSE t.noMore
      <3> HIDE DEF t
      <3> QED BY <2>2, <2>4, UpdatedFresh DEF t
    <2>6. T2[p] = v
      BY <2>3
    <2> HIDE DEF t, v
    <2> QED BY <2>2, <2>5, <2>6 DEF t
  <1>5. ASSUME NEW p \in D \ 0..(n - 1) PROVE T2[p] = T[p]
    <2>1. \A i \in 1..n : us[i].pid # p
      BY <1>1
    <2> QED BY <1>3, <2>1
  <1>6. T2 \in [D -> TaskSet]
    <2>1. \A p \in D : T2[p] \in TaskSet
      BY <1>4, <1>5
    <2>2. T2 = [p \in D |-> T2[p]]
      <3>1. T2 = ApplyAll(T, us)
        BY DEF T2
      <3>2. PICK g : g[0] = T /\ T2 = g[Len(us)] /\ \A i \in 1..Len(us) : g[i] = Apply(g[i - 1], us[i])
        <4>1. Len(us) \in Nat
          BY <1>2
        <4> QED BY <3>1, <4>1, ApplyLoop
      <3>3. CASE n = 0
        BY <1>2, <3>2, <3>3
      <3>4. CASE n # 0
        <4>1. n \in 1..n
          BY <3>4
        <4>2. T2 = [g[n - 1] EXCEPT ![us[n].pid] = Updated(@, us[n])]
          BY <1>2, <3>2, <4>1 DEF Apply
        <4>3. T2 = [p \in DOMAIN g[n - 1] |-> T2[p]]
          BY <4>2
        <4> QED BY <1>3, <4>2, <4>3
      <3> QED BY <3>3, <3>4
    <2> QED BY <2>1, <2>2
  <1> QED BY <1>4, <1>5, <1>6 DEF T2, ToldTo

\* A new partition catches up with the replicated sources.
LEMMA CaughtUp ==
    ASSUME NEW D, NEW T \in [D -> TaskSet], NEW n \in Nat, n \in D, T[n] = NewTask,
           NEW a, a.broadcast \in [Replicated -> Seq(Splits)],
           \A s \in Replicated : Fresh(<<>>, a.broadcast[s]),
           NEW us, us = CatchUp(a, n)
    PROVE  LET late == a.seen \cap Replicated
           IN  /\ us \in Seq(UpdateSet) /\ \A i \in 1..Len(us) : us[i].pid = n
               /\ ApplyAll(T, us) \in [D -> TaskSet]
               /\ \A p \in D \ {n} : ApplyAll(T, us)[p] = T[p]
               /\ ApplyAll(T, us)[n].known = late
               /\ ApplyAll(T, us)[n].noMore = late \cap a.completed
               /\ \A s \in Sources : ApplyAll(T, us)[n].splits[s] = IF s \in late THEN a.broadcast[s] ELSE <<>>
  <1> DEFINE late == a.seen \cap Replicated
             q == SetToSeq(late)
             L(i) == {q[j] : j \in 1..i}
  <1>1. late \subseteq Replicated /\ late \subseteq Sources /\ IsFiniteSet(late)
    BY FS_Subset, AssignerAssumption
  <1>a. late = a.seen \cap Replicated /\ q = SetToSeq(late)
    OBVIOUS
  <1> HIDE DEF late
  <1>2. /\ Len(q) \in Nat /\ DOMAIN q = 1..Len(q)
        /\ \A i \in 1..Len(q) : q[i] \in late
        /\ \A x \in late : \E i \in 1..Len(q) : q[i] = x
        /\ \A i, j \in 1..Len(q) : i # j => q[i] # q[j]
    BY <1>1, Listed
  <1>3. us = [i \in 1..Len(q) |-> Update(n, q[i], a.broadcast[q[i]], q[i] \in a.completed)]
    BY <1>a, <1>2 DEF CatchUp
  <1> HIDE DEF q
  <1>4. \A i \in 1..Len(q) :
           /\ us[i] \in UpdateSet /\ us[i].pid = n /\ us[i].source = q[i]
           /\ us[i].splits = a.broadcast[q[i]] /\ us[i].noMore = (q[i] \in a.completed)
    <2>1. ASSUME NEW i \in 1..Len(q)
          PROVE  /\ us[i] \in UpdateSet /\ us[i].pid = n /\ us[i].source = q[i]
                 /\ us[i].splits = a.broadcast[q[i]] /\ us[i].noMore = (q[i] \in a.completed)
      <3>1. q[i] \in Sources /\ a.broadcast[q[i]] \in Seq(Splits) /\ (q[i] \in a.completed) \in BOOLEAN
        BY <1>1, <1>2
      <3> DEFINE over == q[i] \in a.completed
      <3>2. us[i] = Update(n, q[i], a.broadcast[q[i]], over) /\ over \in BOOLEAN
        BY <1>3
      <3> HIDE DEF over
      <3>3. /\ us[i] \in UpdateSet /\ us[i].pid = n /\ us[i].source = q[i]
            /\ us[i].splits = a.broadcast[q[i]] /\ us[i].noMore = over
        BY <3>1, <3>2, UpdateFields
      <3> QED BY <3>3 DEF over
    <2> QED BY <2>1
  <1>5. us \in Seq(UpdateSet) /\ Len(us) = Len(q)
    BY <1>2, <1>3, <1>4
  <1>6. PICK g : /\ g[0] = T
                 /\ \A i \in 1..Len(us) : g[i] = Apply(g[i - 1], us[i])
                 /\ ApplyAll(T, us) = g[Len(us)]
    <2>1. Len(us) \in Nat
      BY <1>2, <1>5
    <2> QED BY <2>1, ApplyLoop
  <1> DEFINE Done(i) == /\ g[i] \in [D -> TaskSet]
                        /\ \A p \in D \ {n} : g[i][p] = T[p]
                        /\ g[i][n].known = L(i)
                        /\ g[i][n].noMore = L(i) \cap a.completed
                        /\ \A s \in Sources : g[i][n].splits[s] = IF s \in L(i) THEN a.broadcast[s] ELSE <<>>
             S == {i \in Nat : i <= Len(q) => Done(i)}
  <1>7. 0 \in S
    <2>1. L(0) = {}
      OBVIOUS
    <2>2. NewTask.splits = [s \in Sources |-> <<>>] /\ NewTask.known = {} /\ NewTask.noMore = {}
      BY DEF NewTask
    <2> HIDE DEF L
    <2> QED BY <1>6, <2>1, <2>2
  <1>8. ASSUME NEW i \in Nat, i \in S PROVE i + 1 \in S
    <2> HIDE DEF Done
    <2>1. SUFFICES ASSUME i + 1 <= Len(q) PROVE Done(i + 1)
      OBVIOUS
    <2> DEFINE u == us[i + 1]
               t == g[i][n]
    <2>2. Done(i) /\ i + 1 \in 1..Len(q) /\ (i + 1) - 1 = i
      BY <1>2, <1>8, <2>1
    <2> USE DEF Done
    <2>3. g[i + 1] = Apply(g[i], u)
      BY <1>5, <1>6, <2>2
    <2>4. /\ u \in UpdateSet /\ u.pid = n /\ u.source = q[i + 1]
          /\ u.splits = a.broadcast[q[i + 1]] /\ u.noMore = (q[i + 1] \in a.completed)
      BY <1>4, <2>2
    <2> HIDE DEF u
    <2>5. q[i + 1] \notin L(i) /\ L(i + 1) = L(i) \cup {q[i + 1]} /\ q[i + 1] \in Sources
      <3>1. \A j \in 1..i : j \in 1..Len(q) /\ j # i + 1
        BY <1>2, <2>1
      <3>2. \A j \in 1..(i + 1) : j \in 1..i \/ j = i + 1
        OBVIOUS
      <3>3. i + 1 \in 1..(i + 1) /\ \A j \in 1..i : j \in 1..(i + 1)
        OBVIOUS
      <3>4. q[i + 1] \notin L(i)
        BY <1>2, <2>2, <3>1
      <3>5. L(i + 1) = L(i) \cup {q[i + 1]}
        BY <3>2, <3>3
      <3> QED BY <1>1, <1>2, <2>2, <3>4, <3>5
    <2> HIDE DEF L
    <2>6. u.source \in Sources /\ t.splits[u.source] = <<>> /\ Fresh(t.splits[u.source], u.splits) /\ t \in TaskSet
      BY <1>1, <1>2, <2>2, <2>4, <2>5
    <2> DEFINE ts == g[i]
               v == g[i + 1][n]
    <2>7. g[i + 1] \in [D -> TaskSet] /\ v = Updated(t, u) /\ \A p \in D \ {n} : g[i + 1][p] = ts[p]
      <3>1. ts \in [D -> TaskSet] /\ t = ts[u.pid] /\ u.pid \in D /\ v = g[i + 1][u.pid]
        BY <2>2, <2>4
      <3> HIDE DEF ts, t, v
      <3>2. Fresh(ts[u.pid].splits[u.source], u.splits) /\ u \in UpdateSet
        BY <2>4, <2>6, <3>1
      <3>3. /\ Apply(ts, u) \in [D -> TaskSet]
            /\ Apply(ts, u)[u.pid] = Updated(ts[u.pid], u)
            /\ \A p \in D \ {u.pid} : Apply(ts, u)[p] = ts[p]
        <4>1. Updated(ts[u.pid], u) \in TaskSet
          BY <3>1, <3>2, UpdatedFresh
        <4> QED BY <3>1, <4>1 DEF Apply
      <3>4. g[i + 1] = Apply(ts, u)
        BY <2>3 DEF ts
      <3> QED BY <2>4, <3>1, <3>3, <3>4
    <2>8. /\ v.splits[u.source] = t.splits[u.source] \o u.splits
          /\ \A s \in Sources \ {u.source} : v.splits[s] = t.splits[s]
          /\ v.known = t.known \cup {u.source}
          /\ v.noMore = IF u.noMore THEN t.noMore \cup {u.source} ELSE t.noMore
      <3> HIDE DEF t, v
      <3> QED BY <2>4, <2>6, <2>7, UpdatedFresh, ZenonT(40)
    <2>9. <<>> \o u.splits = u.splits
      BY <2>4 DEF UpdateSet
    <2>10. /\ t.known = L(i) /\ t.noMore = L(i) \cap a.completed
           /\ \A s \in Sources : t.splits[s] = IF s \in L(i) THEN a.broadcast[s] ELSE <<>>
      BY <2>2
    <2>11. \A p \in D \ {n} : g[i + 1][p] = T[p]
      BY <2>2, <2>7
    <2> HIDE DEF t, v
    <2>12. v.known = L(i + 1) /\ v.noMore = L(i + 1) \cap a.completed
      <3>1. CASE q[i + 1] \in a.completed
        <4>1. u.noMore = TRUE
          BY <2>4, <3>1
        <4> QED BY <2>4, <2>5, <2>8, <2>10, <3>1, <4>1
      <3>2. CASE q[i + 1] \notin a.completed
        <4>1. ~u.noMore
          BY <2>4, <3>2
        <4> QED BY <2>4, <2>5, <2>8, <2>10, <3>2, <4>1
      <3> QED BY <3>1, <3>2
    <2>13. \A s \in Sources : v.splits[s] = IF s \in L(i + 1) THEN a.broadcast[s] ELSE <<>>
      BY <2>4, <2>5, <2>6, <2>8, <2>9, <2>10
    <2> QED BY <2>7, <2>11, <2>12, <2>13 DEF v
  <1>9. \A i \in Nat : i \in S
    <2> HIDE DEF S
    <2> QED BY <1>7, <1>8, Induction
  <1>10. Done(Len(q))
    <2> HIDE DEF Done
    <2> QED BY <1>2, <1>9
  <1>11. L(Len(q)) = late
    BY <1>2
  <1>12. \A i \in 1..Len(us) : us[i].pid = n
    BY <1>4, <1>5
  <1> HIDE DEF L
  <1>13. g[Len(q)] = ApplyAll(T, us)
    BY <1>5, <1>6
  <1>14. /\ ApplyAll(T, us) \in [D -> TaskSet]
         /\ \A p \in D \ {n} : ApplyAll(T, us)[p] = T[p]
         /\ ApplyAll(T, us)[n].known = late
         /\ ApplyAll(T, us)[n].noMore = late \cap a.completed
         /\ \A s \in Sources : ApplyAll(T, us)[n].splits[s] = IF s \in late THEN a.broadcast[s] ELSE <<>>
    BY <1>10, <1>11, <1>13
  <1> HIDE DEF Done
  <1> QED BY <1>5, <1>12, <1>14 DEF late

-----------------------------------------------------------------------------
\* A list, and the first i of what is appended to it.
Upto(old, new, i) == [j \in 1..(Len(old) + i) |-> (old \o new)[j]]

\* How a list grows one by one.
Plus(l, x) == Append(l, x)

\* It grows one by one, from the old list to all of it.
LEMMA UptoGrows ==
    ASSUME NEW S, NEW old \in Seq(S), NEW new \in Seq(S)
    PROVE  /\ Upto(old, new, 0) = old /\ Upto(old, new, Len(new)) = old \o new
           /\ \A i \in 0..Len(new) : Upto(old, new, i) \in Seq(S) /\ Len(Upto(old, new, i)) = Len(old) + i
           /\ \A i \in 0..(Len(new) - 1) : Plus(Upto(old, new, i), new[i + 1]) = Upto(old, new, i + 1)
  <1> DEFINE all == old \o new
  <1>1. Len(old) \in Nat /\ Len(new) \in Nat /\ Len(all) = Len(old) + Len(new) /\ all \in Seq(S)
    OBVIOUS
  <1>2. /\ \A j \in 1..Len(old) : all[j] = old[j]
        /\ \A j \in 1..Len(new) : all[Len(old) + j] = new[j]
    OBVIOUS
  <1>3. old = [j \in 1..Len(old) |-> old[j]] /\ all = [j \in 1..Len(all) |-> all[j]]
    <2>1. \A x \in Seq(S) : x = [j \in 1..Len(x) |-> x[j]]
      OBVIOUS
    <2> QED BY <1>1, <2>1
  <1>4. \A i : Upto(old, new, i) = [j \in 1..(Len(old) + i) |-> all[j]]
    BY DEF Upto
  <1> HIDE DEF all
  <1>5. Upto(old, new, 0) = old
    <2>1. Len(old) + 0 = Len(old)
      BY <1>1
    <2> QED BY <1>2, <1>3, <1>4, <2>1
  <1>6. Upto(old, new, Len(new)) = all
    BY <1>1, <1>3, <1>4
  <1>7. ASSUME NEW i \in 0..Len(new)
        PROVE  Upto(old, new, i) \in Seq(S) /\ Len(Upto(old, new, i)) = Len(old) + i
    <2>1. \A j \in 1..(Len(old) + i) : all[j] \in S
      BY <1>1
    <2>2. Len(old) + i \in Nat
      BY <1>1
    <2> QED BY <1>4, <2>1, <2>2
  <1>8. ASSUME NEW i \in 0..(Len(new) - 1)
        PROVE  Append(Upto(old, new, i), new[i + 1]) = Upto(old, new, i + 1)
    <2>1. i \in 0..Len(new) /\ i + 1 \in 1..Len(new) /\ Len(old) + (i + 1) = (Len(old) + i) + 1
      BY <1>1
    <2>2. Upto(old, new, i) \in Seq(S) /\ Len(Upto(old, new, i)) = Len(old) + i
      BY <1>7, <2>1
    <2> DEFINE s == Upto(old, new, i)
    <2>3. \A j \in 1..(Len(old) + i) : s[j] = all[j]
      BY <1>4
    <2> HIDE DEF s
    <2>4. Append(s, new[i + 1]) = [j \in 1..(Len(s) + 1) |-> IF j = Len(s) + 1 THEN new[i + 1] ELSE s[j]]
      BY <2>2 DEF s
    <2>5. \A j \in 1..(Len(old) + (i + 1)) : j # Len(old) + (i + 1) => j \in 1..(Len(old) + i)
      BY <1>1
    <2>6. all[Len(old) + (i + 1)] = new[i + 1]
      BY <1>2, <2>1
    <2>7. Append(s, new[i + 1]) = [j \in 1..(Len(old) + (i + 1)) |-> all[j]]
      BY <2>1, <2>2, <2>3, <2>4, <2>5, <2>6 DEF s
    <2> QED BY <1>4, <2>7 DEF s
  <1> QED BY <1>5, <1>6, <1>7, <1>8 DEF all, Plus

-----------------------------------------------------------------------------
\* The invariant, of an assigner a, the descriptors T of all partitions, those
\* that do not exist yet among them, the seals sl, what was reported F and the
\* sources e that have ended.

Packed == Sources \ Replicated

AssignerSet ==
    [target : MinTarget..MaxTarget, counter : 0..(GrowthPeriod - 1), open : [pid : Int, size : Nat, count : Nat], parts : Seq(Nat),
     broadcast : [Replicated -> Seq(Splits)], seen : SUBSET Sources, completed : SUBSET Sources]

OwnOf(t) == UNION {ToSet(t.splits[s]) : s \in Packed}

\* What the sources report is numbered.
Reported(F) ==
    /\ F \in [Sources -> Seq(Splits)]
    /\ \A s \in Sources : \A i \in 1..Len(F[s]) : F[s][i].source = s /\ F[s][i].seq = i

\* The partitions are numbered, and all but the open one are sealed, once.
Booked(a, sl, e) ==
    /\ a \in AssignerSet
    /\ a.parts = [i \in 1..Len(a.parts) |-> i - 1]
    /\ a.open = NoPart \/ (a.open.pid \in Nat /\ a.open.pid + 1 = Len(a.parts))
    /\ a.completed = e
    /\ Packed \subseteq e => a.open = NoPart
    /\ sl \in Seq(Nat)
    /\ \A i, j \in 1..Len(sl) : i # j => sl[i] # sl[j]
    /\ \A p \in Int : p \in ToSet(sl) <=> p \in 0..(Len(a.parts) - 1) /\ p # a.open.pid

\* Every partition has what was broadcast, and knows which of its sources end.
Told(a, T, F, e) ==
    /\ T \in [Nat -> TaskSet]
    /\ \A p \in Nat \ 0..(Len(a.parts) - 1) : T[p] = NewTask
    /\ \A s \in Replicated : a.broadcast[s] = F[s] /\ (s \notin a.seen => F[s] = <<>> /\ s \notin e)
    /\ \A p \in 0..(Len(a.parts) - 1) :
          /\ \A s \in Replicated : T[p].splits[s] = F[s] /\ (s \in e => s \in T[p].noMore)
          /\ T[p].known \cap e \subseteq T[p].noMore
          /\ T[p].known = {} => p = a.open.pid /\ a.open.count = 0

\* Every other split is in one partition, once.
Placed(T, F) ==
    \A s \in Packed :
        /\ \A p \in Nat : IsInjective(T[p].splits[s]) /\ ToSet(T[p].splits[s]) \subseteq ToSet(F[s])
        /\ \A x \in ToSet(F[s]) : \E p \in Nat : \A q \in Nat : x \in ToSet(T[q].splits[s]) <=> q = p

\* The partitions are within their bounds, and the open one is counted right.
Within(xs) ==
    /\ IsFiniteSet(xs) /\ Cardinality(xs) <= MaxSplits
    /\ Cardinality(xs) = 1 \/ SizeOf(xs) <= MaxTarget
Bounded(a, T) ==
    /\ \A p \in 0..(Len(a.parts) - 1) : Within(OwnOf(T[p]))
    /\ a.open # NoPart => /\ a.open.size = SizeOf(OwnOf(T[a.open.pid]))
                          /\ a.open.count = Cardinality(OwnOf(T[a.open.pid]))

Packing(a, T, sl, F, e) ==
    Reported(F) /\ Booked(a, sl, e) /\ Told(a, T, F, e) /\ Placed(T, F) /\ Bounded(a, T)

\* A list and what is appended to it.
LEMMA JoinedSet ==
    ASSUME NEW S, NEW old \in Seq(S), NEW new \in Seq(S)
    PROVE  ToSet(old \o new) = ToSet(old) \cup ToSet(new)
  <1> DEFINE all == old \o new
  <1>1. /\ Len(old) \in Nat /\ Len(new) \in Nat /\ Len(all) = Len(old) + Len(new) /\ all \in Seq(S)
        /\ \A i \in 1..Len(old) : all[i] = old[i]
        /\ \A i \in 1..Len(new) : all[Len(old) + i] = new[i]
    OBVIOUS
  <1>2. \A q \in Seq(S) : ToSet(q) = {q[i] : i \in 1..Len(q)}
    BY DEF ToSet
  <1> HIDE DEF all
  <1>3. ASSUME NEW i \in 1..Len(all) PROVE all[i] \in ToSet(old) \cup ToSet(new)
    <2>1. CASE i \in 1..Len(old)
      BY <1>1, <1>2, <2>1
    <2>2. CASE i \notin 1..Len(old)
      <3>1. i - Len(old) \in 1..Len(new) /\ all[i] = new[i - Len(old)]
        BY <1>1, <2>2
      <3> QED BY <1>2, <3>1
    <2> QED BY <2>1, <2>2
  <1>4. ASSUME NEW i \in 1..Len(old) PROVE old[i] \in ToSet(all)
    <2>1. i \in 1..Len(all) /\ all[i] = old[i]
      BY <1>1, SMTT(40)
    <2> QED BY <1>1, <1>2, <2>1
  <1>5. ASSUME NEW i \in 1..Len(new) PROVE new[i] \in ToSet(all)
    <2>1. Len(old) + i \in 1..Len(all) /\ all[Len(old) + i] = new[i]
      BY <1>1
    <2> QED BY <1>1, <1>2, <2>1
  <1>6. ToSet(all) = ToSet(old) \cup ToSet(new)
    <2>1. ToSet(all) = {all[i] : i \in 1..Len(all)}
      BY <1>1, <1>2
    <2>2. ToSet(old) = {old[i] : i \in 1..Len(old)} /\ ToSet(new) = {new[i] : i \in 1..Len(new)}
      BY <1>2
    <2>3. ToSet(all) \subseteq ToSet(old) \cup ToSet(new)
      BY <1>3, <2>1
    <2>4. ToSet(old) \subseteq ToSet(all) /\ ToSet(new) \subseteq ToSet(all)
      BY <1>4, <1>5, <2>2
    <2> QED BY <2>3, <2>4
  <1> QED BY <1>6 DEF all

\* A source goes on with its numbers.
LEMMA ReportedMore ==
    ASSUME NEW F, Reported(F), NEW s \in Sources, NEW batch \in Seq(Splits),
           \A i \in 1..Len(batch) : batch[i].source = s /\ batch[i].seq = Len(F[s]) + i
    PROVE  /\ Reported([F EXCEPT ![s] = @ \o batch])
           /\ Fresh(F[s], batch)
           /\ \A y \in ToSet(F[s]) : y.seq \in 1..Len(F[s]) /\ y.source = s
           /\ ToSet(F[s] \o batch) = ToSet(F[s]) \cup ToSet(batch)
           /\ IsInjective(F[s])
  <1> DEFINE both == F[s] \o batch
             G == [F EXCEPT ![s] = both]
  <1>1. /\ F[s] \in Seq(Splits) /\ Len(F[s]) \in Nat /\ Len(batch) \in Nat
        /\ both \in Seq(Splits) /\ Len(both) = Len(F[s]) + Len(batch)
        /\ \A i \in 1..Len(F[s]) : both[i] = F[s][i]
        /\ \A i \in 1..Len(batch) : both[Len(F[s]) + i] = batch[i]
    BY DEF Reported
  <1>2. \A i \in 1..Len(F[s]) : F[s][i].source = s /\ F[s][i].seq = i
    BY DEF Reported
  <1>3. \A y \in ToSet(F[s]) : \E i \in 1..Len(F[s]) : y = F[s][i]
    BY <1>1 DEF ToSet
  <1>4. \A y \in ToSet(F[s]) : y.seq \in 1..Len(F[s]) /\ y.source = s
    BY <1>2, <1>3
  <1>5. \A i \in 1..Len(batch), y \in ToSet(F[s]) : y.seq # batch[i].seq
    <2> SUFFICES ASSUME NEW i \in 1..Len(batch), NEW y \in ToSet(F[s]) PROVE y.seq # batch[i].seq
      OBVIOUS
    <2>1. batch[i].seq = Len(F[s]) + i
      OBVIOUS
    <2> QED BY <1>1, <1>4, <2>1
  <1>6. \A i, j \in 1..Len(batch) : i # j => batch[i].seq # batch[j].seq
    <2> SUFFICES ASSUME NEW i \in 1..Len(batch), NEW j \in 1..Len(batch), i # j
                 PROVE  batch[i].seq # batch[j].seq
      OBVIOUS
    <2>1. batch[i].seq = Len(F[s]) + i /\ batch[j].seq = Len(F[s]) + j
      OBVIOUS
    <2> QED BY <1>1, <2>1
  <1>7. Fresh(F[s], batch)
    BY <1>5, <1>6 DEF Fresh
  <1> HIDE DEF both
  <1>8. \A i \in 1..Len(both) : i \in 1..Len(F[s]) \/ (i - Len(F[s]) \in 1..Len(batch) /\ Len(F[s]) + (i - Len(F[s])) = i)
    BY <1>1
  <1>9. \A i \in 1..Len(both) : both[i].source = s /\ both[i].seq = i
    <2>1. ASSUME NEW i \in 1..Len(both) PROVE both[i].source = s /\ both[i].seq = i
      <3>1. CASE i \in 1..Len(F[s])
        BY <1>1, <1>2, <3>1
      <3>2. CASE i - Len(F[s]) \in 1..Len(batch) /\ Len(F[s]) + (i - Len(F[s])) = i
        <4>1. both[i] = batch[i - Len(F[s])]
          BY <1>1, <3>2
        <4> QED BY <3>2, <4>1
      <3> QED BY <1>8, <3>1, <3>2
    <2> QED BY <2>1
  <1>10. Reported(G)
    <2>1. G \in [Sources -> Seq(Splits)]
      BY <1>1 DEF Reported
    <2>2. G[s] = both /\ \A q \in Sources : q # s => G[q] = F[q]
      BY DEF Reported
    <2> HIDE DEF G
    <2> QED BY <1>9, <2>1, <2>2, ZenonT(40) DEF Reported
  <1>11. ToSet(both) = ToSet(F[s]) \cup ToSet(batch)
    BY <1>1, JoinedSet DEF both
  <1>12. IsInjective(F[s])
    <2>1. DOMAIN F[s] = 1..Len(F[s])
      BY <1>1
    <2> QED BY <1>2, <2>1 DEF IsInjective
  <1> QED BY <1>4, <1>7, <1>10, <1>11, <1>12 DEF both

\* Placed and OwnOf see only the splits of the sources that are packed.
LEMMA SameSplits ==
    ASSUME NEW T, NEW V, \A p \in Nat, s \in Packed : V[p].splits[s] = T[p].splits[s]
    PROVE  /\ \A p \in Nat : OwnOf(V[p]) = OwnOf(T[p])
           /\ \A F : Placed(T, F) => Placed(V, F)
  <1>1. \A p \in Nat : OwnOf(V[p]) = OwnOf(T[p])
    BY DEF OwnOf
  <1>2. ASSUME NEW F, Placed(T, F) PROVE Placed(V, F)
    BY <1>2 DEF Placed
  <1> QED BY <1>1, <1>2

\* A new partition has nothing of its own.
LEMMA NothingOwn == OwnOf(NewTask) = {} /\ Within({}) /\ SizeOf({}) = 0 /\ Cardinality({}) = 0
  <1>1. \A s \in Sources : NewTask.splits[s] = <<>>
    BY DEF NewTask
  <1>2. ToSet(<<>>) = {}
    BY DEF ToSet
  <1>3. OwnOf(NewTask) = {}
    BY <1>1, <1>2 DEF OwnOf, Packed
  <1>4. SizeOf({}) = 0 /\ Cardinality({}) = 0 /\ IsFiniteSet({})
    BY FS_EmptySet, SizeAdds
  <1>5. MaxSplits \in Nat /\ MaxTarget \in Nat
    BY AssignerAssumption
  <1> QED BY <1>3, <1>4, <1>5 DEF Within

-----------------------------------------------------------------------------
\* A target never shrinks, and stays under the largest.
LEMMA GrowsOn ==
    ASSUME NEW t \in MinTarget..MaxTarget
    PROVE  GrownTarget(t) \in MinTarget..MaxTarget /\ t <= GrownTarget(t)
  <1>1. /\ MinTarget \in Nat /\ MaxTarget \in Nat /\ t \in Nat /\ MinTarget <= t /\ t <= MaxTarget
        /\ GrowthNum \in Nat /\ GrowthDen \in Nat \ {0} /\ GrowthDen <= GrowthNum
    BY AssignerAssumption
  <1> DEFINE whole == t * GrowthNum
             q == whole \div GrowthDen
             r == whole % GrowthDen
  <1>2. whole \in Nat
    BY <1>1
  <1>3. \A a, b \in Nat : \A c \in Nat : a <= b => c * a <= c * b
    OBVIOUS
  <1>4. t * GrowthDen <= whole
    BY <1>1, <1>3
  <1> HIDE DEF whole
  <1>5. q \in Nat /\ r \in Nat /\ r < GrowthDen /\ whole = GrowthDen * q + r
    BY <1>1, <1>2
  <1> HIDE DEF q, r
  <1>6. t <= q
    <2>1. SUFFICES ASSUME q + 1 <= t PROVE FALSE
      BY <1>1, <1>5
    <2>2. GrowthDen * (q + 1) <= GrowthDen * t
      BY <1>1, <1>3, <1>5, <2>1
    <2>3. GrowthDen * (q + 1) = GrowthDen * q + GrowthDen /\ GrowthDen * t = t * GrowthDen
      BY <1>1, <1>5
    <2> DEFINE x == GrowthDen * q
               y == t * GrowthDen
    <2>4. x \in Int /\ y \in Int /\ x + GrowthDen <= y /\ y <= x + r
      BY <1>1, <1>4, <1>5, <2>2, <2>3
    <2> HIDE DEF x, y
    <2> QED BY <1>1, <1>5, <2>4
  <1>7. GrownTarget(t) = MinOfTwo(q, MaxTarget)
    BY DEF GrownTarget, q, whole
  <1> QED BY <1>1, <1>5, <1>6, <1>7 DEF MinOfTwo

\* Growing the target keeps everything else.
LEMMA Grown ==
    ASSUME NEW a \in AssignerSet
    PROVE  /\ GrowTarget(a) \in AssignerSet
           /\ GrowTarget(a).open = a.open /\ GrowTarget(a).parts = a.parts
           /\ GrowTarget(a).broadcast = a.broadcast /\ GrowTarget(a).seen = a.seen
           /\ GrowTarget(a).completed = a.completed
  <1>1. a = [target |-> a.target, counter |-> a.counter, open |-> a.open, parts |-> a.parts,
             broadcast |-> a.broadcast, seen |-> a.seen, completed |-> a.completed]
    BY DEF AssignerSet
  <1> DEFINE grown == GrownTarget(a.target)
  <1>2. grown \in MinTarget..MaxTarget
    BY GrowsOn DEF AssignerSet
  <1> DEFINE g == GrowTarget(a)
  <1>3. g = [target |-> IF a.counter + 1 >= GrowthPeriod THEN grown ELSE a.target,
             counter |-> IF a.counter + 1 >= GrowthPeriod THEN 0 ELSE a.counter + 1,
             open |-> a.open, parts |-> a.parts,
             broadcast |-> a.broadcast, seen |-> a.seen, completed |-> a.completed]
    <2>1. CASE a.counter + 1 >= GrowthPeriod
      <3>1. g = [a EXCEPT !.counter = 0, !.target = grown]
        BY <2>1 DEF GrowTarget
      <3> HIDE DEF g, grown
      <3> QED BY <1>1, <2>1, <3>1
    <2>2. CASE ~(a.counter + 1 >= GrowthPeriod)
      <3>1. g = [a EXCEPT !.counter = a.counter + 1]
        BY <2>2 DEF GrowTarget
      <3> HIDE DEF g, grown
      <3> QED BY <1>1, <2>2, <3>1
    <2> QED BY <2>1, <2>2
  <1>4. a.counter \in 0..(GrowthPeriod - 1) /\ a.target \in MinTarget..MaxTarget
    BY DEF AssignerSet
  <1>5. GrowthPeriod \in Nat \ {0}
    BY AssignerAssumption
  <1> HIDE DEF g, grown
  <1>6. g.target \in MinTarget..MaxTarget /\ g.counter \in 0..(GrowthPeriod - 1)
    BY <1>2, <1>3, <1>4, <1>5
  <1>7. g \in AssignerSet
    BY <1>3, <1>6 DEF AssignerSet
  <1> QED BY <1>3, <1>7 DEF g

\* The elements of a list.
LEMMA SetOfSeq ==
    \A S : \A q \in Seq(S) : ToSet(q) = {q[i] : i \in 1..Len(q)}
  BY DEF ToSet

\* The seals after one more.
LEMMA OneSeal ==
    ASSUME NEW sl \in Seq(Nat), NEW p \in Nat, p \notin ToSet(sl),
           \A i, j \in 1..Len(sl) : i # j => sl[i] # sl[j]
    PROVE  /\ Append(sl, p) \in Seq(Nat)
           /\ \A i, j \in 1..Len(Append(sl, p)) : i # j => Append(sl, p)[i] # Append(sl, p)[j]
           /\ ToSet(Append(sl, p)) = ToSet(sl) \cup {p}
  <1> DEFINE b == Append(sl, p)
  <1>1. /\ b \in Seq(Nat) /\ Len(b) = Len(sl) + 1 /\ Len(sl) \in Nat /\ b[Len(sl) + 1] = p
        /\ \A i \in 1..Len(sl) : b[i] = sl[i]
    OBVIOUS
  <1>2. ToSet(sl) = {sl[i] : i \in 1..Len(sl)} /\ ToSet(b) = {b[i] : i \in 1..Len(b)}
    BY <1>1, SetOfSeq, ZenonT(40)
  <1> HIDE DEF b
  <1>3. \A i \in 1..Len(b) : i \in 1..Len(sl) \/ i = Len(sl) + 1
    BY <1>1
  <1>4. \A i \in 1..Len(sl) : i \in 1..Len(b) /\ sl[i] # p
    BY <1>1, <1>2
  <1>5. Len(sl) + 1 \in 1..Len(b)
    BY <1>1
  <1>6. ToSet(b) = ToSet(sl) \cup {p}
    BY <1>1, <1>2, <1>3, <1>4, <1>5, ZenonT(40)
  <1>7. \A i, j \in 1..Len(b) : i # j => b[i] # b[j]
    BY <1>1, <1>3, <1>4
  <1> QED BY <1>1, <1>6, <1>7 DEF b

\* The assigner with a new open partition, and the seals then.
Opened(a) ==
    LET n == Len(a.parts)
        c == IF a.open # NoPart THEN GrowTarget(TakeOpen(a)) ELSE a
    IN  [c EXCEPT !.open = [pid |-> n, size |-> 0, count |-> 0], !.parts = Append(@, n)]
SealedBy(a) == IF a.open # NoPart THEN <<a.open.pid>> ELSE <<>>

\* What opening a partition leaves in the assigner.
LEMMA OpenedFields ==
    ASSUME NEW a, NEW sl, NEW e, Booked(a, sl, e)
    PROVE  /\ Opened(a) \in AssignerSet
           /\ Opened(a).open = [pid |-> Len(a.parts), size |-> 0, count |-> 0]
           /\ Opened(a).parts = Append(a.parts, Len(a.parts))
           /\ Opened(a).broadcast = a.broadcast /\ Opened(a).seen = a.seen
           /\ Opened(a).completed = a.completed
  <1> DEFINE n == Len(a.parts)
             t == TakeOpen(a)
             c == IF a.open # NoPart THEN GrowTarget(t) ELSE a
             new == [pid |-> n, size |-> 0, count |-> 0]
  <1>1. a \in AssignerSet /\ a.parts \in Seq(Nat) /\ n \in Nat
    BY DEF Booked, AssignerSet
  <1>2. /\ t \in AssignerSet /\ t.target = a.target /\ t.parts = a.parts
        /\ t.broadcast = a.broadcast /\ t.seen = a.seen /\ t.completed = a.completed
    <2>1. NoPart \in [pid : Int, size : Nat, count : Nat]
      BY DEF NoPart
    <2> QED BY <1>1, <2>1 DEF TakeOpen, AssignerSet
  <1> HIDE DEF t
  <1>3. /\ c \in AssignerSet /\ c.parts = a.parts
        /\ c.broadcast = a.broadcast /\ c.seen = a.seen /\ c.completed = a.completed
    <2>1. CASE a.open # NoPart
      BY <1>2, <2>1, Grown
    <2>2. CASE a.open = NoPart
      BY <1>1, <2>2
    <2> QED BY <2>1, <2>2
  <1>4. Opened(a) = [c EXCEPT !.open = new, !.parts = Append(c.parts, n)]
    BY DEF Opened, t
  <1> HIDE DEF c
  <1>5. new \in [pid : Int, size : Nat, count : Nat] /\ Append(c.parts, n) \in Seq(Nat)
    BY <1>1, <1>3
  <1> HIDE DEF new
  <1>6. c = [target |-> c.target, counter |-> c.counter, open |-> c.open, parts |-> c.parts,
             broadcast |-> c.broadcast, seen |-> c.seen, completed |-> c.completed]
    BY <1>3 DEF AssignerSet
  <1>7. Opened(a) = [target |-> c.target, counter |-> c.counter, open |-> new, parts |-> Append(c.parts, n),
                     broadcast |-> c.broadcast, seen |-> c.seen, completed |-> c.completed]
    BY <1>4, <1>6
  <1>8. Opened(a) \in AssignerSet
    BY <1>3, <1>5, <1>7 DEF AssignerSet
  <1> QED BY <1>3, <1>7, <1>8 DEF new

\* Opening a partition keeps the books,
LEMMA OpenBooked ==
    ASSUME NEW a, NEW sl, NEW e, Booked(a, sl, e), ~(Packed \subseteq e)
    PROVE  Booked(Opened(a), sl \o SealedBy(a), e)
  <1> DEFINE n == Len(a.parts)
             b == Opened(a)
             bs == sl \o SealedBy(a)
  <1>1. /\ b \in AssignerSet
        /\ b.open = [pid |-> n, size |-> 0, count |-> 0]
        /\ b.parts = Append(a.parts, n) /\ b.completed = a.completed
    BY OpenedFields
  <1>2. /\ a.parts = [i \in 1..n |-> i - 1] /\ a.parts \in Seq(Nat) /\ n \in Nat
        /\ a.open = NoPart \/ (a.open.pid \in Nat /\ a.open.pid + 1 = n)
        /\ a.completed = e /\ sl \in Seq(Nat)
        /\ \A i, j \in 1..Len(sl) : i # j => sl[i] # sl[j]
        /\ \A p \in Int : p \in ToSet(sl) <=> p \in 0..(n - 1) /\ p # a.open.pid
    BY DEF Booked, AssignerSet
  <1> HIDE DEF n, b
  <1>3. Len(b.parts) = n + 1 /\ b.parts = [i \in 1..(n + 1) |-> i - 1]
    <2> DEFINE q == [i \in 1..n |-> i - 1]
    <2>1. q \in Seq(Nat) /\ Len(q) = n
      BY <1>2
    <2>2. Append(q, n) = [i \in 1..(n + 1) |-> i - 1]
      BY <1>2, <2>1
    <2> QED BY <1>1, <1>2, <2>1, <2>2
  <1>4. b.open.pid = n /\ b.open # NoPart
    BY <1>1, <1>2 DEF NoPart
  <1>5. /\ bs \in Seq(Nat)
        /\ \A i, j \in 1..Len(bs) : i # j => bs[i] # bs[j]
        /\ \A p \in Int : p \in ToSet(bs) <=> p \in 0..n /\ p # n
    <2>1. CASE a.open = NoPart
      <3>1. bs = sl /\ a.open.pid = -1
        BY <1>2, <2>1 DEF SealedBy, NoPart
      <3>2. \A p \in Int : (p \in 0..(n - 1) /\ p # -1) <=> (p \in 0..n /\ p # n)
        BY <1>2
      <3> HIDE DEF bs
      <3> QED BY <1>2, <3>1, <3>2
    <2>2. CASE a.open # NoPart
      <3> DEFINE p0 == a.open.pid
      <3>1. p0 \in Nat /\ p0 + 1 = n
        BY <1>2, <2>2
      <3>2. bs = Append(sl, p0)
        BY <1>2, <2>2, <3>1 DEF SealedBy
      <3>3. p0 \notin ToSet(sl)
        BY <1>2, <3>1
      <3>4. \A p \in Int : (p \in 0..n /\ p # n) <=> ((p \in 0..(n - 1) /\ p # p0) \/ p = p0)
        BY <1>2, <3>1
      <3>5. /\ Append(sl, p0) \in Seq(Nat)
            /\ \A i, j \in 1..Len(Append(sl, p0)) : i # j => Append(sl, p0)[i] # Append(sl, p0)[j]
            /\ ToSet(Append(sl, p0)) = ToSet(sl) \cup {p0}
        BY <1>2, <3>1, <3>3, OneSeal
      <3> HIDE DEF bs, p0
      <3>6. \A p \in Int : p \in ToSet(bs) <=> p \in ToSet(sl) \/ p = p0
        BY <3>2, <3>5
      <3>7. \A p \in Int : p \in ToSet(sl) <=> p \in 0..(n - 1) /\ p # p0
        BY <1>2 DEF p0
      <3> QED BY <3>2, <3>4, <3>5, <3>6, <3>7
    <2> QED BY <2>1, <2>2
  <1>6. (n + 1) - 1 = n
    BY <1>2
  <1> QED BY <1>1, <1>2, <1>3, <1>4, <1>5, <1>6 DEF Booked, b

\* and the rest, once the partition has caught up.
LEMMA OpenStep ==
    ASSUME NEW a, NEW T, NEW sl, NEW F, NEW e, Packing(a, T, sl, F, e), ~(Packed \subseteq e),
           a.open = NoPart \/ a.open.count >= 1
    PROVE  LET us == CatchUp(a, Len(a.parts))
               V  == ApplyAll(T, us)
           IN  /\ us \in Seq(UpdateSet) /\ \A i \in 1..Len(us) : us[i].pid = Len(a.parts)
               /\ Packing(Opened(a), V, sl \o SealedBy(a), F, e)
               /\ \A p \in 0..(Len(a.parts) - 1) : V[p] = T[p]
  <1> DEFINE n == Len(a.parts)
             us == CatchUp(a, n)
             V == ApplyAll(T, us)
             b == Opened(a)
             late == a.seen \cap Replicated
  <1>1. Reported(F) /\ Booked(a, sl, e) /\ Told(a, T, F, e) /\ Placed(T, F) /\ Bounded(a, T)
    BY DEF Packing
  <1>2. /\ a.parts \in Seq(Nat) /\ n \in Nat /\ a.broadcast \in [Replicated -> Seq(Splits)]
        /\ a.completed = e /\ a.seen \subseteq Sources /\ e \subseteq Sources
    BY <1>1 DEF Booked, AssignerSet
  <1>3. /\ T \in [Nat -> TaskSet] /\ T[n] = NewTask
        /\ \A s \in Replicated : a.broadcast[s] = F[s] /\ (s \notin a.seen => F[s] = <<>> /\ s \notin e)
    BY <1>1, <1>2 DEF Told
  <1>4. \A s \in Replicated : s \in Sources /\ Fresh(<<>>, a.broadcast[s])
    <2>1. ASSUME NEW s \in Replicated PROVE s \in Sources /\ Fresh(<<>>, a.broadcast[s])
      <3>1. s \in Sources
        BY AssignerAssumption
      <3>2. \A i, j \in 1..Len(F[s]) : i # j => F[s][i].seq # F[s][j].seq
        BY <1>1, <3>1 DEF Reported
      <3>3. ToSet(<<>>) = {}
        BY DEF ToSet
      <3> QED BY <1>3, <3>1, <3>2, <3>3 DEF Fresh
    <2> QED BY <2>1
  <1>5. /\ us \in Seq(UpdateSet) /\ \A i \in 1..Len(us) : us[i].pid = n
        /\ V \in [Nat -> TaskSet]
        /\ \A p \in Nat \ {n} : V[p] = T[p]
        /\ V[n].known = late
        /\ V[n].noMore = late \cap a.completed
        /\ \A s \in Sources : V[n].splits[s] = IF s \in late THEN a.broadcast[s] ELSE <<>>
    BY <1>2, <1>3, <1>4, CaughtUp
  <1>6. /\ b.open.pid = n /\ b.open.count = 0 /\ b.open.size = 0 /\ b.broadcast = a.broadcast /\ b.seen = a.seen
        /\ Len(b.parts) = n + 1
    <2>1. /\ b.open = [pid |-> n, size |-> 0, count |-> 0] /\ b.parts = Append(a.parts, n)
          /\ b.broadcast = a.broadcast /\ b.seen = a.seen
      BY <1>1, OpenedFields
    <2>2. Len(Append(a.parts, n)) = n + 1
      BY <1>2
    <2> HIDE DEF b, n
    <2> QED BY <2>1, <2>2
  <1> HIDE DEF V, b, us, n, late
  <1>7. \A p \in 0..((n + 1) - 1) : p \in 0..(n - 1) \/ p = n
    BY <1>2
  <1>8. \A p \in 0..(n - 1) : V[p] = T[p]
    BY <1>2, <1>5
  <1>9. Told(b, V, F, e)
    <2>1. \A p \in Nat \ 0..((n + 1) - 1) : V[p] = NewTask
      <3>1. \A p \in Nat \ 0..((n + 1) - 1) : p # n /\ p \in Nat \ 0..(n - 1)
        BY <1>2
      <3>2. \A p \in Nat \ 0..(n - 1) : T[p] = NewTask
        BY <1>1 DEF Told, n
      <3> QED BY <1>5, <3>1, <3>2
    <2>2. ASSUME NEW p \in 0..(n - 1)
          PROVE  /\ \A s \in Replicated : V[p].splits[s] = F[s] /\ (s \in e => s \in V[p].noMore)
                 /\ V[p].known \cap e \subseteq V[p].noMore
                 /\ V[p].known # {}
      <3>1. /\ \A s \in Replicated : T[p].splits[s] = F[s] /\ (s \in e => s \in T[p].noMore)
            /\ T[p].known \cap e \subseteq T[p].noMore
            /\ T[p].known = {} => p = a.open.pid /\ a.open.count = 0
        BY <1>1 DEF Told, n
      <3>2. T[p].known # {}
        <4>1. CASE a.open = NoPart
          BY <3>1, <4>1 DEF NoPart
        <4>2. CASE a.open.count >= 1
          BY <3>1, <4>2
        <4> QED BY <4>1, <4>2
      <3> QED BY <1>8, <3>1, <3>2
    <2>3. /\ \A s \in Replicated : V[n].splits[s] = F[s] /\ (s \in e => s \in V[n].noMore)
          /\ V[n].known \cap e \subseteq V[n].noMore
      BY <1>2, <1>3, <1>4, <1>5 DEF late
    <2>4. \A p \in 0..(Len(b.parts) - 1) :
             /\ \A s \in Replicated : V[p].splits[s] = F[s] /\ (s \in e => s \in V[p].noMore)
             /\ V[p].known \cap e \subseteq V[p].noMore
             /\ V[p].known = {} => p = b.open.pid /\ b.open.count = 0
      <3>1. ASSUME NEW p \in 0..(Len(b.parts) - 1)
            PROVE  /\ \A s \in Replicated : V[p].splits[s] = F[s] /\ (s \in e => s \in V[p].noMore)
                   /\ V[p].known \cap e \subseteq V[p].noMore
                   /\ V[p].known = {} => p = b.open.pid /\ b.open.count = 0
        <4>1. CASE p \in 0..(n - 1)
          BY <2>2, <4>1
        <4>2. CASE p = n
          BY <1>6, <2>3, <4>2
        <4> QED BY <1>6, <1>7, <4>1, <4>2
      <3> QED BY <3>1
    <2> QED BY <1>3, <1>5, <1>6, <2>1, <2>4 DEF Told
  <1>10. \A p \in Nat, s \in Packed : V[p].splits[s] = T[p].splits[s]
    <2>1. \A s \in Packed : s \in Sources /\ s \notin late
      BY DEF Packed, late
    <2>2. \A s \in Sources : NewTask.splits[s] = <<>>
      BY DEF NewTask
    <2>3. \A s \in Packed : V[n].splits[s] = T[n].splits[s]
      BY <1>3, <1>5, <2>1, <2>2
    <2> QED BY <1>5, <2>3
  <1>11. Placed(V, F) /\ \A p \in Nat : OwnOf(V[p]) = OwnOf(T[p])
    BY <1>1, <1>10, SameSplits
  <1>12. Bounded(b, V)
    <2>1. OwnOf(V[n]) = {}
      BY <1>2, <1>3, <1>11, NothingOwn
    <2>2. \A p \in 0..(n - 1) : Within(OwnOf(V[p]))
      <3>1. \A p \in 0..(n - 1) : p \in Nat /\ Within(OwnOf(T[p]))
        BY <1>1 DEF Bounded, n
      <3> QED BY <1>11, <3>1
    <2>3. \A p \in 0..(Len(b.parts) - 1) : Within(OwnOf(V[p]))
      BY <1>6, <1>7, <2>1, <2>2, NothingOwn
    <2> QED BY <1>6, <2>1, <2>3, NothingOwn DEF Bounded
  <1>13. Booked(b, sl \o SealedBy(a), e)
    BY <1>1, OpenBooked DEF b
  <1>14. Packing(b, V, sl \o SealedBy(a), F, e)
    BY <1>1, <1>9, <1>11, <1>12, <1>13 DEF Packing
  <1> QED BY <1>5, <1>8, <1>14 DEF V, b, us, n

-----------------------------------------------------------------------------
\* The assigner when a split has gone into its open partition.
Filled(a, x) == [a EXCEPT !.open.size = @ + x.size, !.open.count = @ + 1]

\* What filling the open partition leaves in the assigner.
LEMMA FilledFields ==
    ASSUME NEW a \in AssignerSet, NEW x \in Splits
    PROVE  /\ Filled(a, x) \in AssignerSet
           /\ Filled(a, x).open = [pid |-> a.open.pid, size |-> a.open.size + x.size, count |-> a.open.count + 1]
           /\ Filled(a, x).target = a.target /\ Filled(a, x).parts = a.parts
           /\ Filled(a, x).broadcast = a.broadcast /\ Filled(a, x).seen = a.seen
           /\ Filled(a, x).completed = a.completed
  <1> DEFINE o == a.open
             more == [pid |-> o.pid, size |-> o.size + x.size, count |-> o.count + 1]
  <1>1. /\ a = [target |-> a.target, counter |-> a.counter, open |-> o, parts |-> a.parts,
                broadcast |-> a.broadcast, seen |-> a.seen, completed |-> a.completed]
        /\ o = [pid |-> o.pid, size |-> o.size, count |-> o.count]
        /\ o.size \in Nat /\ o.count \in Nat /\ o.pid \in Int
    BY DEF AssignerSet
  <1>2. x.size \in Nat
    BY AssignerAssumption DEF Splits
  <1>3. more \in [pid : Int, size : Nat, count : Nat]
    BY <1>1, <1>2
  <1>4. Filled(a, x) = [a EXCEPT !.open = [[o EXCEPT !.size = o.size + x.size] EXCEPT !.count = o.count + 1]]
    BY <1>1 DEF Filled
  <1>5. [[o EXCEPT !.size = o.size + x.size] EXCEPT !.count = o.count + 1] = more
    <2> DEFINE mid == [o EXCEPT !.size = o.size + x.size]
    <2> HIDE DEF o
    <2>1. mid = [pid |-> o.pid, size |-> o.size + x.size, count |-> o.count]
      BY <1>1
    <2> HIDE DEF mid
    <2>2. [mid EXCEPT !.count = o.count + 1] = [pid |-> o.pid, size |-> o.size + x.size, count |-> o.count + 1]
      BY <2>1
    <2> QED BY <2>2 DEF mid
  <1>6. Filled(a, x) = [a EXCEPT !.open = more]
    BY <1>4, <1>5
  <1> HIDE DEF more, o
  <1>7. Filled(a, x) = [target |-> a.target, counter |-> a.counter, open |-> more, parts |-> a.parts,
                        broadcast |-> a.broadcast, seen |-> a.seen, completed |-> a.completed]
    BY <1>1, <1>6
  <1>8. Filled(a, x) \in AssignerSet
    BY <1>3, <1>7 DEF AssignerSet
  <1> QED BY <1>7, <1>8 DEF more, o

\* A list and one more.
LEMMA AppendSet ==
    ASSUME NEW S, NEW l \in Seq(S), NEW x \in S
    PROVE  /\ ToSet(Append(l, x)) = ToSet(l) \cup {x}
           /\ (IsInjective(l) /\ x \notin ToSet(l)) => IsInjective(Append(l, x))
  <1> DEFINE b == Append(l, x)
  <1>1. /\ b \in Seq(S) /\ Len(b) = Len(l) + 1 /\ Len(l) \in Nat /\ b[Len(l) + 1] = x
        /\ \A i \in 1..Len(l) : b[i] = l[i]
    OBVIOUS
  <1>2. ToSet(l) = {l[i] : i \in 1..Len(l)} /\ ToSet(b) = {b[i] : i \in 1..Len(b)}
    BY <1>1, SetOfSeq
  <1>3. DOMAIN b = 1..Len(b) /\ DOMAIN l = 1..Len(l)
    BY <1>1
  <1> HIDE DEF b
  <1>4. \A i \in 1..Len(b) : i \in 1..Len(l) \/ i = Len(l) + 1
    BY <1>1
  <1>5. Len(l) + 1 \in 1..Len(b) /\ \A i \in 1..Len(l) : i \in 1..Len(b)
    BY <1>1
  <1>6. ToSet(b) = ToSet(l) \cup {x}
    BY <1>1, <1>2, <1>4, <1>5
  <1>7. ASSUME IsInjective(l), x \notin ToSet(l) PROVE IsInjective(b)
    <2>1. \A i \in 1..Len(l) : l[i] # x
      BY <1>2, <1>7
    <2>2. \A i, j \in 1..Len(l) : l[i] = l[j] => i = j
      BY <1>3, <1>7 DEF IsInjective
    <2>3. \A i, j \in 1..Len(b) : b[i] = b[j] => i = j
      BY <1>1, <1>4, <2>1, <2>2
    <2> QED BY <1>3, <2>3 DEF IsInjective
  <1> QED BY <1>6, <1>7 DEF b

\* A split goes into the open partition.
Put(F, s, x) == [F EXCEPT ![s] = Append(@, x)]
PutUpdate(a, s, x) == Update(a.open.pid, s, <<x>>, FALSE)

\* Putting a split into the open partition keeps the invariant.
LEMMA PutStep ==
    ASSUME NEW a, NEW T, NEW sl, NEW F, NEW e, Packing(a, T, sl, F, e),
           NEW s \in Packed, s \notin e,
           NEW x \in Splits, x.source = s, x.seq = Len(F[s]) + 1,
           a.open # NoPart, a.open.count + 1 <= MaxSplits,
           a.open.count = 0 \/ a.open.size + x.size <= MaxTarget
    PROVE  /\ PutUpdate(a, s, x) \in UpdateSet /\ PutUpdate(a, s, x).pid \in 0..(Len(a.parts) - 1)
           /\ Packing(Filled(a, x), Apply(T, PutUpdate(a, s, x)), sl, Put(F, s, x), e)
           /\ \A p \in Nat \ {a.open.pid} : Apply(T, PutUpdate(a, s, x))[p] = T[p]
           /\ Filled(a, x).open # NoPart /\ Filled(a, x).open.count >= 1
  <1> DEFINE n == Len(a.parts)
             o == a.open.pid
             u == PutUpdate(a, s, x)
             V == Apply(T, u)
             b == Filled(a, x)
             G == Put(F, s, x)
  <1>1. Reported(F) /\ Booked(a, sl, e) /\ Told(a, T, F, e) /\ Placed(T, F) /\ Bounded(a, T)
    BY DEF Packing
  <1>2. /\ a \in AssignerSet /\ n \in Nat /\ o \in Nat /\ o + 1 = n /\ o \in 0..(n - 1) /\ T \in [Nat -> TaskSet]
    BY <1>1 DEF Booked, Told, AssignerSet
  <1>3. /\ b \in AssignerSet
        /\ b.open = [pid |-> a.open.pid, size |-> a.open.size + x.size, count |-> a.open.count + 1]
        /\ b.target = a.target /\ b.parts = a.parts
        /\ b.broadcast = a.broadcast /\ b.seen = a.seen /\ b.completed = a.completed
    BY <1>2, FilledFields
  <1>4. /\ s \in Sources /\ s \notin Replicated /\ F[s] \in Seq(Splits) /\ F \in [Sources -> Seq(Splits)]
        /\ Len(F[s]) \in Nat
    BY <1>1 DEF Reported, Packed
  <1> DEFINE one == <<x>>
  <1>5. one \in Seq(Splits) /\ Len(one) = 1 /\ one[1] = x /\ ToSet(one) = {x}
        /\ F[s] \o one = Append(F[s], x)
    <2>1. one \in Seq(Splits) /\ Len(one) = 1 /\ one[1] = x
      OBVIOUS
    <2>2. F[s] \o one = Append(F[s], x)
      BY <1>4
    <2> HIDE DEF one
    <2>3. ToSet(one) = {one[i] : i \in 1..1}
      BY <2>1, SetOfSeq
    <2>4. \A i \in 1..1 : i = 1
      OBVIOUS
    <2>5. 1 \in 1..1
      OBVIOUS
    <2>6. ToSet(one) = {x}
      BY <2>1, <2>3, <2>4, <2>5
    <2> QED BY <2>1, <2>2, <2>6
  <1> HIDE DEF one
  <1>6. /\ Reported(G) /\ IsInjective(F[s])
        /\ \A y \in ToSet(F[s]) : y.seq \in 1..Len(F[s])
        /\ ToSet(G[s]) = ToSet(F[s]) \cup {x}
    <2>1. \A i \in 1..Len(one) : one[i].source = s /\ one[i].seq = Len(F[s]) + i
      BY <1>5
    <2>2. Reported([F EXCEPT ![s] = F[s] \o one])
      BY <1>1, <1>4, <1>5, <2>1, ReportedMore, ZenonT(40)
    <2>3. IsInjective(F[s]) /\ \A y \in ToSet(F[s]) : y.seq \in 1..Len(F[s])
      BY <1>1, <1>4, <1>5, <2>1, ReportedMore, ZenonT(40)
    <2>4. ToSet(F[s] \o one) = ToSet(F[s]) \cup ToSet(one)
      BY <1>4, <1>5, AppendSet
    <2>5. G = [F EXCEPT ![s] = F[s] \o one] /\ G[s] = F[s] \o one
      BY <1>4, <1>5 DEF Put
    <2> HIDE DEF G
    <2> QED BY <1>5, <2>2, <2>3, <2>4, <2>5
  <1>7. G[s] = Append(F[s], x) /\ \A q \in Sources \ {s} : G[q] = F[q]
    BY <1>4 DEF Put
  <1>8. x \notin ToSet(F[s])
    BY <1>4, <1>6
  <1>9. u \in UpdateSet /\ u.pid = o /\ u.source = s /\ u.splits = one /\ u.noMore = FALSE
    <2> DEFINE no == FALSE
    <2>1. u = Update(o, s, one, no) /\ no \in BOOLEAN
      BY DEF one, PutUpdate
    <2>2. o \in Nat
      BY <1>2
    <2> HIDE DEF u, o, no
    <2>3. u \in UpdateSet /\ u.pid = o /\ u.source = s /\ u.splits = one /\ u.noMore = no
      BY <1>4, <1>5, <2>1, <2>2, UpdateFields
    <2> QED BY <2>3 DEF no
  <1> DEFINE t == T[o]
             v == Updated(t, u)
  <1>10. t \in TaskSet /\ t.splits[s] \in Seq(Splits) /\ ToSet(t.splits[s]) \subseteq ToSet(F[s]) /\ IsInjective(t.splits[s])
    <2>1. t \in TaskSet
      BY <1>2
    <2>2. ToSet(t.splits[s]) \subseteq ToSet(F[s]) /\ IsInjective(t.splits[s])
      BY <1>1, <1>2, ZenonT(40) DEF Placed
    <2>3. t.splits \in [Sources -> Seq(Splits)]
      BY <2>1 DEF TaskSet
    <2> QED BY <1>4, <2>1, <2>2, <2>3
  <1> HIDE DEF u, t, G, b, n, o
  <1>11. Fresh(t.splits[u.source], u.splits)
    <2>1. \A y \in ToSet(t.splits[s]) : y.seq # x.seq
      BY <1>4, <1>6, <1>10
    <2>2. \A i, j \in 1..1 : i = j
      OBVIOUS
    <2>3. \A i \in 1..1 : one[i] = x
      BY <1>5, <2>2
    <2> QED BY <1>5, <1>9, <2>1, <2>2, <2>3 DEF Fresh
  <1>12. /\ v \in TaskSet
         /\ v.splits[s] = t.splits[s] \o one
         /\ \A q \in Sources \ {s} : v.splits[q] = t.splits[q]
         /\ v.known = t.known \cup {s}
         /\ v.noMore = t.noMore
    BY <1>9, <1>10, <1>11, UpdatedFresh, ZenonT(40)
  <1> HIDE DEF v
  <1>13. V \in [Nat -> TaskSet] /\ V[o] = v /\ \A p \in Nat \ {o} : V[p] = T[p]
    BY <1>2, <1>9, <1>12 DEF Apply, v, t
  <1> HIDE DEF V
  <1>14. t.splits[s] \o one = Append(t.splits[s], x)
    <2> DEFINE l == t.splits[s]
    <2>1. l \in Seq(Splits)
      BY <1>10
    <2> HIDE DEF l
    <2>2. l \o <<x>> = Append(l, x)
      BY <2>1
    <2> QED BY <2>2 DEF l, one
  <1>15. ToSet(Append(t.splits[s], x)) = ToSet(t.splits[s]) \cup {x} /\ IsInjective(Append(t.splits[s], x))
    BY <1>8, <1>10, AppendSet
  <1>16. /\ v.splits[s] = Append(t.splits[s], x) /\ ToSet(v.splits[s]) = ToSet(t.splits[s]) \cup {x}
         /\ IsInjective(v.splits[s])
    BY <1>12, <1>14, <1>15
  <1>17. Booked(b, sl, e)
    <2>1. b.open.pid = o /\ b.open # NoPart
      BY <1>2, <1>3 DEF NoPart, o
    <2>2. ~(Packed \subseteq e)
      OBVIOUS
    <2> QED BY <1>1, <1>2, <1>3, <2>1, <2>2 DEF Booked, o, n
  <1>18. Told(b, V, G, e)
    <2>1. \A q \in Replicated : q \in Sources \ {s} /\ G[q] = F[q]
      BY <1>4, <1>7, AssignerAssumption
    <2>2. ASSUME NEW p \in 0..(n - 1)
          PROVE  /\ \A q \in Replicated : V[p].splits[q] = G[q] /\ (q \in e => q \in V[p].noMore)
                 /\ V[p].known \cap e \subseteq V[p].noMore
                 /\ V[p].known = {} => p = b.open.pid /\ b.open.count = 0
      <3>1. /\ \A q \in Replicated : T[p].splits[q] = F[q] /\ (q \in e => q \in T[p].noMore)
            /\ T[p].known \cap e \subseteq T[p].noMore
            /\ T[p].known = {} => p = o /\ a.open.count = 0
        BY <1>1 DEF Told, n, o
      <3>2. CASE p = o
        <4>1. V[p] = v /\ T[p] = t
          BY <1>13, <3>2 DEF t
        <4> QED BY <1>12, <2>1, <3>1, <4>1
      <3>3. CASE p # o
        <4>1. V[p] = T[p]
          BY <1>2, <1>13, <3>3
        <4> QED BY <2>1, <3>1, <3>3, <4>1
      <3> QED BY <3>2, <3>3
    <2>3. \A p \in Nat \ 0..(n - 1) : V[p] = NewTask
      <3>1. \A p \in Nat \ 0..(n - 1) : T[p] = NewTask /\ p # o
        BY <1>1, <1>2 DEF Told, n
      <3> QED BY <1>13, <3>1
    <2>4. \A q \in Replicated : b.broadcast[q] = G[q] /\ (q \notin b.seen => G[q] = <<>> /\ q \notin e)
      BY <1>1, <1>3, <2>1 DEF Told
    <2>5. Len(b.parts) = n
      BY <1>3 DEF n
    <2> QED BY <1>13, <2>2, <2>3, <2>4, <2>5 DEF Told
  <1>19. \A p \in Nat, q \in Packed \ {s} : q \in Sources /\ V[p].splits[q] = T[p].splits[q] /\ G[q] = F[q]
    <2>1. \A q \in Packed \ {s} : q \in Sources \ {s}
      BY DEF Packed
    <2>2. \A q \in Packed \ {s} : V[o].splits[q] = T[o].splits[q]
      BY <1>12, <1>13, <2>1 DEF t
    <2> QED BY <1>7, <1>13, <2>1, <2>2
  <1>20. Placed(V, G)
    <2>1. ASSUME NEW q \in Packed
          PROVE  /\ \A p \in Nat : IsInjective(V[p].splits[q]) /\ ToSet(V[p].splits[q]) \subseteq ToSet(G[q])
                 /\ \A y \in ToSet(G[q]) : \E p \in Nat : \A r \in Nat : y \in ToSet(V[r].splits[q]) <=> r = p
      <3>1. /\ \A p \in Nat : IsInjective(T[p].splits[q]) /\ ToSet(T[p].splits[q]) \subseteq ToSet(F[q])
            /\ \A y \in ToSet(F[q]) : \E p \in Nat : \A r \in Nat : y \in ToSet(T[r].splits[q]) <=> r = p
        BY <1>1 DEF Placed
      <3>2. CASE q # s
        <4>1. q \in Packed \ {s}
          BY <3>2
        <4>2. G[q] = F[q]
          <5>1. 0 \in Nat
            OBVIOUS
          <5> QED BY <1>19, <4>1, <5>1
        <4>3. \A p \in Nat : V[p].splits[q] = T[p].splits[q]
          BY <1>19, <4>1
        <4>4. \A p \in Nat : IsInjective(V[p].splits[q]) /\ ToSet(V[p].splits[q]) \subseteq ToSet(G[q])
          BY <3>1, <4>2, <4>3
        <4>5. ASSUME NEW y \in ToSet(G[q])
              PROVE  \E p \in Nat : \A r \in Nat : y \in ToSet(V[r].splits[q]) <=> r = p
          <5>0. y \in ToSet(F[q])
            BY <4>2, <4>5
          <5>1. PICK p \in Nat : \A r \in Nat : y \in ToSet(T[r].splits[q]) <=> r = p
            <6>1. \A z \in ToSet(F[q]) : \E p \in Nat : \A r \in Nat : z \in ToSet(T[r].splits[q]) <=> r = p
              BY <3>1
            <6> QED BY <5>0, <6>1
          <5> QED BY <4>3, <5>1
        <4> QED BY <4>4, <4>5
      <3>3. CASE q = s
        <4>1. ASSUME NEW p \in Nat
              PROVE  /\ IsInjective(V[p].splits[s]) /\ ToSet(V[p].splits[s]) \subseteq ToSet(G[s])
                     /\ ToSet(V[p].splits[s]) = ToSet(T[p].splits[s]) \cup (IF p = o THEN {x} ELSE {})
          <5>1. CASE p = o
            BY <1>6, <1>10, <1>13, <1>16, <5>1 DEF t
          <5>2. CASE p # o
            BY <1>6, <1>13, <3>1, <3>3, <5>2
          <5> QED BY <5>1, <5>2
        <4>2. ASSUME NEW y \in ToSet(G[s])
              PROVE  \E p \in Nat : \A r \in Nat : y \in ToSet(V[r].splits[s]) <=> r = p
          <5>1. CASE y = x
            <6>1. \A r \in Nat : x \notin ToSet(T[r].splits[s])
              BY <1>8, <3>1, <3>3
            <6>2. \A r \in Nat : x \in ToSet(V[r].splits[s]) <=> r = o
              BY <4>1, <6>1
            <6> QED BY <1>2, <5>1, <6>2
          <5>2. CASE y # x
            <6>1. y \in ToSet(F[s])
              BY <1>6, <5>2
            <6>2. \A r \in Nat : y \in ToSet(V[r].splits[s]) <=> y \in ToSet(T[r].splits[s])
              BY <4>1, <5>2
            <6> QED BY <3>1, <3>3, <6>1, <6>2
          <5> QED BY <5>1, <5>2
        <4> QED BY <3>3, <4>1, <4>2
      <3> QED BY <3>2, <3>3
    <2> QED BY <2>1 DEF Placed
  <1>21. Bounded(b, V)
    <2>1. \A p \in Nat \ {o} : OwnOf(V[p]) = OwnOf(T[p])
      BY <1>13
    <2>2. OwnOf(V[o]) = OwnOf(T[o]) \cup {x}
      <3>1. \A q \in Packed : ToSet(v.splits[q]) = ToSet(t.splits[q]) \cup (IF q = s THEN {x} ELSE {})
        <4>1. \A q \in Packed \ {s} : q \in Sources \ {s}
          BY DEF Packed
        <4>2. \A q \in Packed \ {s} : v.splits[q] = t.splits[q]
          BY <1>12, <4>1
        <4> QED BY <1>16, <4>2
      <3>2. OwnOf(v) = OwnOf(t) \cup {x}
        <4>1. ASSUME NEW y \in OwnOf(v) PROVE y \in OwnOf(t) \cup {x}
          <5>1. PICK q \in Packed : y \in ToSet(v.splits[q])
            BY <4>1 DEF OwnOf
          <5>2. y \in ToSet(t.splits[q]) \/ y = x
            BY <3>1, <5>1
          <5> QED BY <5>2 DEF OwnOf
        <4>2. ASSUME NEW y \in OwnOf(t) PROVE y \in OwnOf(v)
          <5>1. PICK q \in Packed : y \in ToSet(t.splits[q])
            BY <4>2 DEF OwnOf
          <5>2. y \in ToSet(v.splits[q])
            BY <3>1, <5>1
          <5> QED BY <5>2 DEF OwnOf
        <4>3. x \in OwnOf(v)
          <5>1. x \in ToSet(v.splits[s])
            BY <3>1
          <5> QED BY <5>1 DEF OwnOf
        <4> QED BY <4>1, <4>2, <4>3
      <3> QED BY <1>13, <3>2 DEF t
    <2> DEFINE own == OwnOf(T[o])
    <2>3. /\ x \notin own
          /\ \A y \in own : y.size \in Nat
      <3>1. \A q \in Packed : \A y \in ToSet(T[o].splits[q]) : y \in ToSet(F[q])
        BY <1>1, <1>2 DEF Placed
      <3>2. \A q \in Packed : q \in Sources
        BY DEF Packed
      <3>3. \A q \in Sources : \A y \in ToSet(F[q]) : y \in Splits /\ y.source = q
        <4>1. ASSUME NEW q \in Sources PROVE \A y \in ToSet(F[q]) : y \in Splits /\ y.source = q
          <5>1. F[q] \in Seq(Splits)
            BY <1>4
          <5>2. ToSet(F[q]) = {F[q][i] : i \in 1..Len(F[q])}
            BY <5>1, SetOfSeq
          <5>3. \A i \in 1..Len(F[q]) : F[q][i].source = q /\ F[q][i] \in Splits
            BY <1>1, <5>1 DEF Reported
          <5> QED BY <5>2, <5>3
        <4> QED BY <4>1
      <3>4. \A y \in Splits : y.size \in Nat
        BY AssignerAssumption DEF Splits
      <3>5. x \notin own
        <4>1. SUFFICES ASSUME x \in own PROVE FALSE
          OBVIOUS
        <4>2. PICK q \in Packed : x \in ToSet(T[o].splits[q])
          BY <4>1 DEF OwnOf
        <4>3. q = s
          BY <3>1, <3>2, <3>3, <4>2
        <4> QED BY <1>8, <3>1, <4>2, <4>3
      <3>6. \A y \in own : y \in Splits
        BY <3>1, <3>2, <3>3 DEF OwnOf
      <3> QED BY <3>4, <3>5, <3>6
    <2>4. /\ Within(own) /\ a.open.size = SizeOf(own) /\ a.open.count = Cardinality(own)
      BY <1>1, <1>2 DEF Bounded, n, o
    <2> HIDE DEF own
    <2>5. IsFiniteSet(own)
      BY <2>4 DEF Within
    <2>6. IsFiniteSet(own \cup {x}) /\ Cardinality(own \cup {x}) = Cardinality(own) + 1
      BY <2>3, <2>5, FS_AddElement
    <2>7. x.size \in Nat
      BY AssignerAssumption DEF Splits
    <2>8. SizeOf(own \cup {x}) = x.size + SizeOf(own) /\ SizeOf(own) \in Nat
      <3> DEFINE all == own \cup {x}
      <3>1. IsFiniteSet(all) /\ \A y \in all : y.size \in Nat
        BY <2>3, <2>6, <2>7
      <3>2. x \in all /\ all \ {x} = own
        BY <2>3
      <3> HIDE DEF all
      <3>3. SizeOf(all) = x.size + SizeOf(all \ {x})
        BY <3>1, <3>2, SizeAdds
      <3>4. SizeOf(own) \in Nat
        BY <2>3, <2>5, SizeAdds
      <3> QED BY <3>2, <3>3, <3>4 DEF all
    <2>9. Cardinality(own) \in Nat /\ MaxTarget \in Nat
      BY <2>5, FS_CardinalityType, AssignerAssumption
    <2>10. Within(own \cup {x})
      <3>1. Cardinality(own \cup {x}) <= MaxSplits
        BY <2>4, <2>6
      <3>2. Cardinality(own \cup {x}) = 1 \/ SizeOf(own \cup {x}) <= MaxTarget
        BY <2>4, <2>6, <2>7, <2>8, <2>9
      <3> QED BY <2>6, <3>1, <3>2 DEF Within
    <2>11. \A p \in 0..(Len(b.parts) - 1) : Within(OwnOf(V[p]))
      <3>1. \A p \in 0..(n - 1) : p \in Nat /\ Within(OwnOf(T[p]))
        BY <1>1 DEF Bounded, n
      <3>2. Len(b.parts) = n
        BY <1>3 DEF n
      <3> QED BY <2>1, <2>2, <2>10, <3>1, <3>2 DEF own
    <2>12. b.open.size = SizeOf(OwnOf(V[b.open.pid])) /\ b.open.count = Cardinality(OwnOf(V[b.open.pid]))
      <3>1. b.open.pid = o /\ b.open.size = a.open.size + x.size /\ b.open.count = a.open.count + 1
        BY <1>3 DEF o
      <3>2. OwnOf(V[b.open.pid]) = own \cup {x}
        BY <2>2, <3>1 DEF own
      <3>3. x.size + SizeOf(own) = SizeOf(own) + x.size
        BY <2>7, <2>8
      <3> QED BY <2>4, <2>6, <2>8, <3>1, <3>2, <3>3
    <2> QED BY <2>11, <2>12 DEF Bounded
  <1>22. Packing(b, V, sl, G, e)
    BY <1>6, <1>17, <1>18, <1>20, <1>21 DEF Packing
  <1>23. b.open # NoPart /\ b.open.count >= 1
    <2>1. a.open.count \in Nat
      BY <1>2 DEF AssignerSet
    <2> QED BY <1>2, <1>3, <2>1 DEF NoPart, o
  <1>24. u.pid \in 0..(n - 1)
    BY <1>2, <1>9
  <1> QED BY <1>9, <1>13, <1>22, <1>23, <1>24 DEF u, V, b, G, n, o, one

-----------------------------------------------------------------------------
\* The two branches of a turn of the packing loop: into the open partition,
LEMMA PackOld ==
    ASSUME NEW st, NEW x, ~NeedsNew(st.a, x)
    PROVE  /\ PackSplit(st, x).a = Filled(st.a, x)
           /\ PackSplit(st, x).r = [st.r EXCEPT !.updates = Append(@, PutUpdate(st.a, x.source, x))]
  BY DEF PackSplit, Filled, PutUpdate

\* into a new partition.
LEMMA PackNew ==
    ASSUME NEW st, NEW x, NeedsNew(st.a, x)
    PROVE  LET n == Len(st.a.parts)
           IN  /\ PackSplit(st, x).a = Filled(Opened(st.a), x)
               /\ PackSplit(st, x).r =
                     [added   |-> Append(st.r.added, n),
                      updates |-> Append(st.r.updates \o CatchUp(st.a, n),
                                         PutUpdate(Opened(st.a), x.source, x)),
                      sealed  |-> IF st.a.open # NoPart THEN Append(st.r.sealed, st.a.open.pid) ELSE st.r.sealed,
                      noMore  |-> st.r.noMore]
  BY DEF PackSplit, Filled, Opened, PutUpdate

\* One more update.
LEMMA ApplyMore ==
    ASSUME NEW ts, NEW us \in Seq(UpdateSet), NEW u \in UpdateSet
    PROVE  ApplyAll(ts, Append(us, u)) = Apply(ApplyAll(ts, us), u)
  <1> DEFINE one == <<u>>
  <1>1. one \in Seq(UpdateSet) /\ Append(us, u) = us \o one
    OBVIOUS
  <1>2. \A t : ApplyAll(t, one) = Apply(t, u)
    BY ApplyOne
  <1> HIDE DEF one
  <1>3. ApplyAll(ts, us \o one) = ApplyAll(ApplyAll(ts, us), one)
    BY <1>1, ApplyConcat
  <1> QED BY <1>1, <1>2, <1>3

\* One more element at the end of two lists.
LEMMA AppendJoins ==
    ASSUME NEW S, NEW s \in Seq(S), NEW q \in Seq(S), NEW x \in S
    PROVE  Append(q, x) \in Seq(S) /\ s \o Append(q, x) = (s \o q) \o <<x>>
  OBVIOUS

\* A result with one more update.
LEMMA MoreUpdates ==
    ASSUME NEW x, NEW us, NEW z, NEW y, NEW u
    PROVE  [[added |-> x, updates |-> us, sealed |-> z, noMore |-> y] EXCEPT !.updates = Append(@, u)]
              = [added |-> x, updates |-> Append(us, u), sealed |-> z, noMore |-> y]
  OBVIOUS

\* What holds of the packing loop that began with descriptors T0, seals sl0 and
\* n0 partitions, when F has been taken.
ResultSet == [added : Seq(Nat), updates : Seq(UpdateSet), sealed : Seq(Nat), noMore : BOOLEAN]
Turned(st, T0, sl0, n0, F, e) ==
    LET n == Len(st.a.parts)
    IN  /\ st.r \in ResultSet /\ st.r.noMore = FALSE
        /\ Packing(st.a, ApplyAll(T0, st.r.updates), sl0 \o st.r.sealed, F, e)
        /\ st.a.open = NoPart \/ st.a.open.count >= 1
        /\ n0 <= n /\ \A p \in Nat : p \in ToSet(st.r.added) <=> n0 <= p /\ p < n
        /\ \A j \in 1..Len(st.r.updates) : st.r.updates[j].pid \in 0..(n - 1)
        /\ \A p \in ToSet(sl0) : ApplyAll(T0, st.r.updates)[p] = T0[p]

\* A turn of the loop keeps it.
LEMMA TurnStep ==
    ASSUME NEW st, NEW T0, NEW sl0 \in Seq(Nat), NEW n0 \in Nat, NEW F, NEW e,
           Turned(st, T0, sl0, n0, F, e),
           NEW s \in Packed, s \notin e,
           NEW x \in Splits, x.source = s, x.seq = Len(F[s]) + 1
    PROVE  Turned(PackSplit(st, x), T0, sl0, n0, Put(F, s, x), e)
  <1> DEFINE a == st.a
             r == st.r
             n == Len(a.parts)
             T == ApplyAll(T0, r.updates)
             sl == sl0 \o r.sealed
             G == Put(F, s, x)
             next == PackSplit(st, x)
  <1>1. /\ r \in ResultSet /\ r.noMore = FALSE
        /\ Packing(a, T, sl, F, e)
        /\ a.open = NoPart \/ a.open.count >= 1
        /\ n0 <= n /\ \A p \in Nat : p \in ToSet(r.added) <=> n0 <= p /\ p < n
        /\ \A j \in 1..Len(r.updates) : r.updates[j].pid \in 0..(n - 1)
        /\ \A p \in ToSet(sl0) : T[p] = T0[p]
    BY DEF Turned
  <1>2. /\ r.added \in Seq(Nat) /\ r.updates \in Seq(UpdateSet) /\ r.sealed \in Seq(Nat)
        /\ r = [added |-> r.added, updates |-> r.updates, sealed |-> r.sealed, noMore |-> FALSE]
    BY <1>1 DEF ResultSet
  <1>3. Booked(a, sl, e) /\ a \in AssignerSet /\ a.target <= MaxTarget /\ n \in Nat /\ a.parts \in Seq(Nat)
    <2> HIDE DEF a, T, sl
    <2>1. Booked(a, sl, e)
      BY <1>1 DEF Packing
    <2>2. a \in AssignerSet
      BY <2>1 DEF Booked
    <2>3. a.parts \in Seq(Nat) /\ a.target \in MinTarget..MaxTarget
      BY <2>2 DEF AssignerSet
    <2> QED BY <2>1, <2>2, <2>3
  <1>4. /\ a.target \in Nat /\ a.open.size \in Nat /\ a.open.count \in Nat /\ x.size \in Nat
        /\ MaxTarget \in Nat /\ MaxSplits \in Nat /\ MaxSplits >= 1
    <2> HIDE DEF a
    <2>1. a.target \in Nat /\ a.open.size \in Nat /\ a.open.count \in Nat
      BY <1>3, AssignerAssumption DEF AssignerSet
    <2>2. x.size \in Nat
      BY AssignerAssumption DEF Splits
    <2> QED BY <2>1, <2>2, AssignerAssumption
  <1>5. \A p \in ToSet(sl0) : p \in Nat /\ p < n /\ p # a.open.pid
    <2>1. \A i \in 1..Len(sl0) : sl[i] = sl0[i] /\ i \in 1..Len(sl) /\ sl0[i] \in Nat
      BY <1>2
    <2>2. sl \in Seq(Nat)
      BY <1>2
    <2> HIDE DEF sl, n, a
    <2>3. ToSet(sl) = {sl[i] : i \in 1..Len(sl)} /\ ToSet(sl0) = {sl0[i] : i \in 1..Len(sl0)}
      BY <2>2, SetOfSeq
    <2>4. \A p \in ToSet(sl0) : p \in ToSet(sl) /\ p \in Nat
      BY <2>1, <2>3
    <2>5. \A p \in Int : p \in ToSet(sl) => p \in 0..(n - 1) /\ p # a.open.pid
      BY <1>3 DEF Booked, n
    <2> QED BY <1>3, <2>4, <2>5
  <1> HIDE DEF a, r, T, sl, n, G, next
  <1>6. CASE ~NeedsNew(a, x)
    <2> DEFINE own == PutUpdate(a, s, x)
    <2>1. a.open # NoPart /\ a.open.count + 1 <= MaxSplits /\ a.open.size + x.size <= MaxTarget
      BY <1>3, <1>4, <1>6, SMTT(40) DEF NeedsNew
    <2>2. /\ own \in UpdateSet /\ own.pid \in 0..(n - 1)
          /\ Packing(Filled(a, x), Apply(T, own), sl, G, e)
          /\ \A p \in Nat \ {a.open.pid} : Apply(T, own)[p] = T[p]
          /\ Filled(a, x).open # NoPart /\ Filled(a, x).open.count >= 1
      BY <1>1, <2>1, PutStep DEF G, n
    <2>3. next.a = Filled(a, x) /\ next.r = [r EXCEPT !.updates = Append(@, own)]
      BY <1>6, PackOld DEF a, r, next
    <2>4. Filled(a, x).parts = a.parts
      BY <1>3, FilledFields
    <2> HIDE DEF own
    <2>5. next.r = [added |-> r.added, updates |-> Append(r.updates, own), sealed |-> r.sealed, noMore |-> FALSE]
      <3> DEFINE ad == r.added
                 us == r.updates
                 z == r.sealed
      <3>1. r = [added |-> ad, updates |-> us, sealed |-> z, noMore |-> FALSE] /\ next.r = [r EXCEPT !.updates = Append(@, own)]
        BY <1>2, <2>3
      <3> HIDE DEF r, next, ad, us, z
      <3>2. next.r = [added |-> ad, updates |-> Append(us, own), sealed |-> z, noMore |-> FALSE]
        BY <3>1, MoreUpdates
      <3> QED BY <3>2 DEF ad, us, z
    <2>6. ApplyAll(T0, next.r.updates) = Apply(T, own)
      BY <1>2, <2>2, <2>5, ApplyMore DEF T
    <2>7. next.r \in ResultSet /\ next.r.noMore = FALSE
      BY <1>2, <2>2, <2>5 DEF ResultSet
    <2>8. \A j \in 1..Len(next.r.updates) : next.r.updates[j].pid \in 0..(n - 1)
      <3> DEFINE us == r.updates
      <3>1. us \in Seq(UpdateSet) /\ next.r.updates = Append(us, own) /\ \A j \in 1..Len(us) : us[j].pid \in 0..(n - 1)
        BY <1>1, <1>2, <2>5
      <3> HIDE DEF us
      <3>2. \A j \in 1..Len(Append(us, own)) : (j \in 1..Len(us) /\ Append(us, own)[j] = us[j]) \/ Append(us, own)[j] = own
        BY <3>1
      <3> QED BY <2>2, <3>1, <3>2
    <2>9. \A p \in ToSet(sl0) : Apply(T, own)[p] = T0[p]
      BY <1>1, <1>5, <2>2
    <2>10. Len(next.a.parts) = n /\ next.r.added = r.added /\ next.r.sealed = r.sealed
      BY <2>3, <2>4, <2>5 DEF n
    <2> QED BY <1>1, <2>2, <2>3, <2>6, <2>7, <2>8, <2>9, <2>10 DEF Turned, G, next, sl
  <1>7. CASE NeedsNew(a, x)
    <2> DEFINE b == Opened(a)
               us == CatchUp(a, n)
               U == ApplyAll(T, us)
               ss == SealedBy(a)
               own == PutUpdate(b, s, x)
    <2>1. ~(Packed \subseteq e)
      OBVIOUS
    <2>2. /\ us \in Seq(UpdateSet) /\ \A i \in 1..Len(us) : us[i].pid = n
          /\ Packing(b, U, sl \o ss, F, e)
          /\ \A p \in 0..(n - 1) : U[p] = T[p]
      BY <1>1, <2>1, OpenStep DEF n
    <2>3. /\ b.open = [pid |-> n, size |-> 0, count |-> 0] /\ b.parts = Append(a.parts, n)
          /\ b \in AssignerSet
      BY <1>3, OpenedFields DEF n
    <2> HIDE DEF b, us, U, ss
    <2>4. b.open # NoPart /\ b.open.count + 1 <= MaxSplits /\ b.open.count = 0 /\ b.open.pid = n /\ Len(b.parts) = n + 1
      <3>1. Len(Append(a.parts, n)) = n + 1
        BY <1>3 DEF n
      <3> QED BY <1>3, <1>4, <2>3, <3>1 DEF NoPart
    <2>5. /\ own \in UpdateSet /\ own.pid \in 0..(Len(b.parts) - 1)
          /\ Packing(Filled(b, x), Apply(U, own), sl \o ss, G, e)
          /\ \A p \in Nat \ {b.open.pid} : Apply(U, own)[p] = U[p]
          /\ Filled(b, x).open # NoPart /\ Filled(b, x).open.count >= 1
      BY <2>2, <2>4, PutStep DEF G
    <2>6. /\ next.a = Filled(b, x)
          /\ next.r = [added   |-> Append(r.added, n),
                       updates |-> Append(r.updates \o us, own),
                       sealed  |-> IF a.open # NoPart THEN Append(r.sealed, a.open.pid) ELSE r.sealed,
                       noMore  |-> FALSE]
      BY <1>1, <1>7, PackNew DEF a, r, n, b, us, next
    <2> HIDE DEF own
    <2>7. Filled(b, x).parts = b.parts
      BY <2>3, FilledFields
    <2>8. ApplyAll(T0, next.r.updates) = Apply(U, own)
      <3>1. r.updates \o us \in Seq(UpdateSet) /\ next.r.updates = Append(r.updates \o us, own)
        BY <1>2, <2>2, <2>6
      <3>2. ApplyAll(T0, r.updates \o us) = U
        BY <1>2, <2>2, ApplyConcat DEF T, U
      <3> QED BY <2>5, <3>1, <3>2, ApplyMore
    <2>9. next.r.sealed \in Seq(Nat) /\ sl0 \o next.r.sealed = sl \o ss
      <3>1. CASE a.open = NoPart
        <4>1. ss = <<>> /\ next.r.sealed = r.sealed
          BY <2>6, <3>1 DEF ss, SealedBy
        <4> QED BY <1>2, <4>1 DEF sl
      <3>2. CASE a.open # NoPart
        <4> DEFINE p0 == a.open.pid
        <4>1. ss = <<p0>> /\ next.r.sealed = Append(r.sealed, p0) /\ p0 \in Nat
          BY <1>3, <2>6, <3>2, SMTT(40) DEF ss, SealedBy, Booked
        <4> HIDE DEF p0
        <4>2. \A q \in Seq(Nat) : Append(q, p0) \in Seq(Nat) /\ sl0 \o Append(q, p0) = (sl0 \o q) \o <<p0>>
          BY <4>1, SMTT(40)
        <4> QED BY <1>2, <4>1, <4>2 DEF sl
      <3> QED BY <3>1, <3>2
    <2>10. next.r.added = Append(r.added, n) /\ next.r \in ResultSet /\ next.r.noMore = FALSE
      <3>1. Append(r.added, n) \in Seq(Nat) /\ Append(r.updates \o us, own) \in Seq(UpdateSet)
        BY <1>2, <1>3, <2>2, <2>5
      <3> QED BY <2>6, <2>9, <3>1, SMTT(40) DEF ResultSet
    <2>11. \A j \in 1..Len(next.r.updates) : next.r.updates[j].pid \in 0..((n + 1) - 1)
      <3> DEFINE vs == r.updates
                 all == Append(vs \o us, own)
      <3>1. vs \in Seq(UpdateSet) /\ us \in Seq(UpdateSet) /\ \A j \in 1..Len(vs) : vs[j].pid \in 0..(n - 1)
        BY <1>1, <1>2, <2>2
      <3>2. next.r.updates = all
        BY <2>6
      <3> HIDE DEF vs
      <3>3. \A j \in 1..Len(all) : \/ j \in 1..Len(vs) /\ all[j] = vs[j]
                                   \/ j - Len(vs) \in 1..Len(us) /\ all[j] = us[j - Len(vs)]
                                   \/ all[j] = own
        BY <3>1
      <3>4. \A p \in 0..(n - 1) : p \in 0..((n + 1) - 1)
        BY <1>3
      <3>5. n \in 0..((n + 1) - 1) /\ own.pid \in 0..((n + 1) - 1)
        BY <1>3, <2>4, <2>5
      <3> HIDE DEF all
      <3>6. ASSUME NEW j \in 1..Len(all) PROVE all[j].pid \in 0..((n + 1) - 1)
        <4>1. CASE j \in 1..Len(vs) /\ all[j] = vs[j]
          BY <3>1, <3>4, <4>1
        <4>2. CASE j - Len(vs) \in 1..Len(us) /\ all[j] = us[j - Len(vs)]
          BY <2>2, <3>5, <4>2
        <4>3. CASE all[j] = own
          BY <3>5, <4>3
        <4> QED BY <3>3, <4>1, <4>2, <4>3
      <3> QED BY <3>2, <3>6
    <2>12. \A p \in ToSet(sl0) : Apply(U, own)[p] = T0[p]
      <3>1. \A p \in ToSet(sl0) : p \in 0..(n - 1) /\ p \in Nat \ {b.open.pid}
        BY <1>3, <1>5, <2>4
      <3> QED BY <1>1, <2>2, <2>5, <3>1
    <2>13. n0 <= n + 1 /\ \A p \in Nat : p \in ToSet(next.r.added) <=> n0 <= p /\ p < n + 1
      <3>1. ToSet(Append(r.added, n)) = ToSet(r.added) \cup {n}
        <4> DEFINE q == r.added
        <4>1. q \in Seq(Nat) /\ n \in Nat
          BY <1>2, <1>3
        <4> HIDE DEF q
        <4>2. ToSet(Append(q, n)) = ToSet(q) \cup {n}
          BY <4>1, AppendSet
        <4> QED BY <4>2 DEF q
      <3>2. \A p \in Nat : (n0 <= p /\ p < n + 1) <=> ((n0 <= p /\ p < n) \/ p = n)
        BY <1>1, <1>3
      <3> QED BY <1>1, <1>3, <2>10, <3>1, <3>2
    <2>14. Len(next.a.parts) = n + 1
      BY <2>4, <2>6, <2>7
    <2> QED BY <2>5, <2>6, <2>8, <2>9, <2>10, <2>11, <2>12, <2>13, <2>14 DEF Turned, G, next
  <1> QED BY <1>6, <1>7

-----------------------------------------------------------------------------
\* What a source reports is added to F.
More(F, s, batch) == [F EXCEPT ![s] = @ \o batch]
Numbered(F, s, batch) == \A i \in 1..Len(batch) : batch[i].source = s /\ batch[i].seq = Len(F[s]) + i

\* The whole packing loop.
LEMMA PackedAll ==
    ASSUME NEW a, NEW T, NEW sl, NEW F, NEW e, Packing(a, T, sl, F, e),
           a.open = NoPart \/ a.open.count >= 1,
           NEW s \in Packed, s \notin e, NEW batch \in Seq(Splits), Numbered(F, s, batch)
    PROVE  Turned(PackAll(a, batch), T, sl, Len(a.parts), More(F, s, batch), e)
  <1> DEFINE n == Len(a.parts)
             G(i) == [F EXCEPT ![s] = Upto(F[s], batch, i)]
  <1>1. Reported(F) /\ Booked(a, sl, e)
    BY DEF Packing
  <1>2. /\ sl \in Seq(Nat) /\ n \in Nat /\ s \in Sources /\ F \in [Sources -> Seq(Splits)] /\ F[s] \in Seq(Splits)
        /\ Len(batch) \in Nat /\ Len(F[s]) \in Nat
    BY <1>1 DEF Booked, AssignerSet, Reported, Packed
  <1>3. PICK st : /\ st[0] = [a |-> a, r |-> NoUpdate]
                  /\ \A i \in 1..Len(batch) : st[i] = PackSplit(st[i - 1], batch[i])
                  /\ PackAll(a, batch) = st[Len(batch)]
    BY <1>2, PackLoop
  <1>4. /\ Upto(F[s], batch, 0) = F[s] /\ Upto(F[s], batch, Len(batch)) = F[s] \o batch
        /\ \A i \in 0..Len(batch) : Upto(F[s], batch, i) \in Seq(Splits) /\ Len(Upto(F[s], batch, i)) = Len(F[s]) + i
        /\ \A i \in 0..(Len(batch) - 1) : Plus(Upto(F[s], batch, i), batch[i + 1]) = Upto(F[s], batch, i + 1)
    <2> DEFINE old == F[s]
    <2>1. old \in Seq(Splits) /\ batch \in Seq(Splits)
      BY <1>2
    <2> HIDE DEF old
    <2>2. Upto(old, batch, 0) = old /\ Upto(old, batch, Len(batch)) = old \o batch
      BY <2>1, UptoGrows
    <2>3. \A i \in 0..Len(batch) : Upto(old, batch, i) \in Seq(Splits) /\ Len(Upto(old, batch, i)) = Len(old) + i
      BY <2>1, UptoGrows
    <2>4. ASSUME NEW i \in 0..(Len(batch) - 1)
          PROVE  Plus(Upto(old, batch, i), batch[i + 1]) = Upto(old, batch, i + 1)
      BY <2>1, UptoGrows
    <2> QED BY <2>2, <2>3, <2>4 DEF old
  <1>5. G(0) = F /\ G(Len(batch)) = More(F, s, batch)
    BY <1>2, <1>4 DEF More
  <1> DEFINE S == {i \in Nat : i <= Len(batch) => Turned(st[i], T, sl, n, G(i), e)}
  <1>6. 0 \in S
    <2> DEFINE r == NoUpdate
    <2>1. r = [added |-> <<>>, updates |-> <<>>, sealed |-> <<>>, noMore |-> FALSE]
      BY DEF NoUpdate
    <2>2. r \in ResultSet /\ r.added = <<>> /\ r.updates = <<>> /\ r.sealed = <<>> /\ r.noMore = FALSE
      BY <2>1 DEF ResultSet
    <2>3. ApplyAll(T, <<>>) = T /\ sl \o <<>> = sl
      <3>1. \A u : ApplyAll(T, <<>>) = T
        BY ApplyOne
      <3> QED BY <1>2, <3>1
    <2>4. st[0].a = a /\ st[0].r = r
      BY <1>3
    <2>5. ToSet(<<>>) = {} /\ Len(<<>>) = 0 /\ 1..0 = {}
      BY DEF ToSet
    <2>6. n <= n /\ \A p \in Nat : p \in {} <=> n <= p /\ p < n
      BY <1>2
    <2> HIDE DEF r, G, n
    <2>7. \A j \in 1..Len(r.updates) : r.updates[j].pid \in 0..(n - 1)
      BY <2>2, <2>5
    <2>8. Turned(st[0], T, sl, n, F, e)
      BY <2>2, <2>3, <2>4, <2>5, <2>6, <2>7 DEF Turned, n
    <2> QED BY <1>5, <2>8
  <1>7. ASSUME NEW i \in Nat, i \in S PROVE i + 1 \in S
    <2> HIDE DEF G
    <2>1. SUFFICES ASSUME i + 1 <= Len(batch) PROVE Turned(st[i + 1], T, sl, n, G(i + 1), e)
      OBVIOUS
    <2> DEFINE x == batch[i + 1]
    <2>2. /\ Turned(st[i], T, sl, n, G(i), e) /\ i + 1 \in 1..Len(batch) /\ (i + 1) - 1 = i
          /\ i \in 0..Len(batch) /\ i \in 0..(Len(batch) - 1)
      BY <1>2, <1>7, <2>1
    <2>3. G(i)[s] = Upto(F[s], batch, i) /\ Len(G(i)[s]) = Len(F[s]) + i
      BY <1>2, <1>4, <2>2 DEF G
    <2>4. x \in Splits /\ x.source = s /\ x.seq = Len(G(i)[s]) + 1
      <3>1. x.source = s /\ x.seq = Len(F[s]) + (i + 1)
        BY <2>2 DEF Numbered
      <3>2. x \in Splits
        BY <2>2
      <3>3. Len(F[s]) + (i + 1) = (Len(F[s]) + i) + 1
        BY <1>2
      <3> QED BY <2>3, <3>1, <3>2, <3>3
    <2>5. Put(G(i), s, x) = G(i + 1)
      <3>1. Plus(G(i)[s], x) = G(i + 1)[s]
        BY <1>2, <1>4, <2>2, <2>3 DEF G
      <3> HIDE DEF x
      <3> QED BY <1>2, <1>4, <2>2, <3>1 DEF Put, G, Plus
    <2>6. st[i + 1] = PackSplit(st[i], x)
      BY <1>3, <2>2
    <2> HIDE DEF x, n
    <2> DEFINE u == st[i]
               H == G(i)
    <2>7. Turned(u, T, sl, n, H, e) /\ x.seq = Len(H[s]) + 1
      BY <2>2, <2>4
    <2> HIDE DEF u, H
    <2>8. Turned(PackSplit(u, x), T, sl, n, Put(H, s, x), e)
      <3>1. n \in Nat /\ sl \in Seq(Nat) /\ x \in Splits /\ x.source = s
        BY <1>2, <2>4
      <3> QED BY <2>7, <3>1, TurnStep
    <2> QED BY <2>5, <2>6, <2>8 DEF u, H
  <1>8. \A i \in Nat : i \in S
    <2> HIDE DEF S
    <2> QED BY <1>6, <1>7, Induction
  <1>9. Turned(st[Len(batch)], T, sl, n, G(Len(batch)), e)
    <2> HIDE DEF G, n
    <2>1. Len(batch) \in S /\ Len(batch) <= Len(batch)
      BY <1>2, <1>8
    <2> QED BY <2>1
  <1> QED BY <1>3, <1>5, <1>9

-----------------------------------------------------------------------------
\* An update for every partition.
Telling(a, s, batch, last) == [i \in DOMAIN a.parts |-> Update(a.parts[i], s, batch, last)]

\* It is a list of updates, one of each partition.
LEMMA TellingAll ==
    ASSUME NEW a, NEW sl, NEW e, Booked(a, sl, e), NEW s \in Sources, NEW batch \in Seq(Splits), NEW last \in BOOLEAN
    PROVE  /\ Telling(a, s, batch, last) \in Seq(UpdateSet)
           /\ Len(Telling(a, s, batch, last)) = Len(a.parts) /\ Len(a.parts) \in Nat
           /\ \A i \in 1..Len(a.parts) : Telling(a, s, batch, last)[i] = Update(i - 1, s, batch, last)
  <1> DEFINE n == Len(a.parts)
             us == Telling(a, s, batch, last)
  <1>1. a.parts \in Seq(Nat) /\ n \in Nat /\ a.parts = [i \in 1..n |-> i - 1]
    BY DEF Booked, AssignerSet
  <1> HIDE DEF n
  <1>2. us = [i \in 1..n |-> Update(i - 1, s, batch, last)]
    <2>1. DOMAIN a.parts = 1..n /\ \A i \in 1..n : a.parts[i] = i - 1
      BY <1>1
    <2> QED BY <2>1 DEF Telling
  <1> HIDE DEF us
  <1>3. \A i \in 1..n : Update(i - 1, s, batch, last) \in UpdateSet
    <2>1. \A i \in 1..n : i - 1 \in Nat
      OBVIOUS
    <2> QED BY <2>1, UpdateFields
  <1>4. us \in Seq(UpdateSet) /\ Len(us) = n /\ \A i \in 1..n : us[i] = Update(i - 1, s, batch, last)
    BY <1>1, <1>2, <1>3
  <1> QED BY <1>1, <1>4 DEF n, us

\* The end of a packed source seals the open partition and tells all.
Closed(a, s) == [TakeOpen(a) EXCEPT !.completed = @ \cup {s}]

\* What closing leaves in the assigner.
LEMMA ClosedFields ==
    ASSUME NEW a \in AssignerSet, NEW s \in Sources
    PROVE  /\ Closed(a, s) \in AssignerSet
           /\ Closed(a, s).open = NoPart /\ Closed(a, s).completed = a.completed \cup {s}
           /\ Closed(a, s).target = a.target /\ Closed(a, s).parts = a.parts
           /\ Closed(a, s).broadcast = a.broadcast /\ Closed(a, s).seen = a.seen
  <1>1. a = [target |-> a.target, counter |-> a.counter, open |-> a.open, parts |-> a.parts,
             broadcast |-> a.broadcast, seen |-> a.seen, completed |-> a.completed]
    BY DEF AssignerSet
  <1> DEFINE t == TakeOpen(a)
  <1>2. t = [target |-> a.target, counter |-> a.counter, open |-> NoPart, parts |-> a.parts,
             broadcast |-> a.broadcast, seen |-> a.seen, completed |-> a.completed]
    BY <1>1 DEF TakeOpen
  <1>3. Closed(a, s) = [t EXCEPT !.completed = t.completed \cup {s}]
    BY DEF Closed
  <1> HIDE DEF t
  <1>4. Closed(a, s) = [target |-> a.target, counter |-> a.counter, open |-> NoPart, parts |-> a.parts,
                        broadcast |-> a.broadcast, seen |-> a.seen, completed |-> a.completed \cup {s}]
    BY <1>2, <1>3
  <1>5. NoPart \in [pid : Int, size : Nat, count : Nat]
    BY DEF NoPart
  <1>6. Closed(a, s) \in AssignerSet
    BY <1>4, <1>5 DEF AssignerSet
  <1> QED BY <1>4, <1>6

Ends(a, s) == Telling(a, s, <<>>, TRUE)
Alike(T, V) == \A p \in Nat, q \in Sources : V[p].splits[q] = T[p].splits[q]
OnePerPart(us, n) == us \in Seq(UpdateSet) /\ Len(us) = n /\ n \in Nat /\ \A i \in 1..n : us[i].pid \in 0..(n - 1)

\* The end of a packed source keeps the invariant, and adds no split.
LEMMA EndStep ==
    ASSUME NEW a, NEW T, NEW sl, NEW F, NEW e, Packing(a, T, sl, F, e), NEW s \in Packed, s \notin e
    PROVE  /\ Packing(Closed(a, s), ApplyAll(T, Ends(a, s)), sl \o SealedBy(a), F, e \cup {s})
           /\ Alike(T, ApplyAll(T, Ends(a, s)))
           /\ OnePerPart(Ends(a, s), Len(a.parts))
  <1> DEFINE n == Len(a.parts)
             none == <<>>
             yes == TRUE
             us == Telling(a, s, none, yes)
             V == ApplyAll(T, us)
             b == Closed(a, s)
             f == e \cup {s}
  <1>1. Reported(F) /\ Booked(a, sl, e) /\ Told(a, T, F, e) /\ Placed(T, F) /\ Bounded(a, T)
    BY DEF Packing
  <1>2. /\ a \in AssignerSet /\ n \in Nat /\ T \in [Nat -> TaskSet] /\ s \in Sources /\ s \notin Replicated
        /\ none \in Seq(Splits) /\ yes \in BOOLEAN /\ a.completed = e
    BY <1>1 DEF Booked, Told, AssignerSet, Packed
  <1>3. \A old : Fresh(old, none)
    BY NothingFresh
  <1>4. \A q \in Seq(Splits) : q \o none = q
    OBVIOUS
  <1> HIDE DEF none, yes
  <1>5. us \in Seq(UpdateSet) /\ Len(us) = n /\ \A i \in 1..n : us[i] = Update(i - 1, s, none, yes)
    BY <1>1, <1>2, TellingAll
  <1> HIDE DEF n, us
  <1>15. \A i \in 1..n : us[i].pid \in 0..(n - 1)
    <2>1. \A i \in 1..n : us[i].pid = i - 1
      BY <1>5, UpdateFields
    <2>2. \A i \in 1..n : i - 1 \in 0..(n - 1)
      BY <1>2
    <2> QED BY <2>1, <2>2
  <1>6. /\ V \in [Nat -> TaskSet]
        /\ \A p \in 0..(n - 1) :
              /\ V[p].splits[s] = T[p].splits[s] \o none
              /\ \A q \in Sources \ {s} : V[p].splits[q] = T[p].splits[q]
              /\ V[p].known = T[p].known \cup {s}
              /\ V[p].noMore = IF yes THEN T[p].noMore \cup {s} ELSE T[p].noMore
        /\ \A p \in Nat \ 0..(n - 1) : V[p] = T[p]
    <2>1. 0..(n - 1) \subseteq Nat /\ \A p \in 0..(n - 1) : Fresh(T[p].splits[s], none)
      BY <1>3
    <2>2. T \in TaskMap(Nat)
      BY <1>2 DEF TaskMap
    <2>3. AllFresh(Nat, T, n, s, none) /\ Tells(us, n, s, none, yes)
      BY <1>2, <1>5, <2>1 DEF AllFresh, Tells
    <2>4. ToldTo(Nat, T, V, n, s, none, yes)
      BY <1>2, <2>2, <2>3, ToldAll
    <2> HIDE DEF V
    <2> QED BY <2>4 DEF ToldTo, TaskMap
  <1> HIDE DEF V
  <1>7. \A p \in 0..(n - 1) :
           /\ \A q \in Sources : V[p].splits[q] = T[p].splits[q]
           /\ V[p].known = T[p].known \cup {s} /\ V[p].noMore = T[p].noMore \cup {s}
    <2>1. \A p \in 0..(n - 1) : T[p].splits[s] \in Seq(Splits)
      <3>1. \A p \in 0..(n - 1) : T[p] \in TaskSet
        BY <1>2
      <3> QED BY <1>2, <3>1 DEF TaskSet
    <2>2. \A p \in 0..(n - 1) : V[p].splits[s] = T[p].splits[s]
      BY <1>4, <1>6, <2>1
    <2> QED BY <1>6, <2>2 DEF yes
  <1>8. \A p \in Nat, q \in Sources : V[p].splits[q] = T[p].splits[q]
    BY <1>6, <1>7
  <1>9. /\ b \in AssignerSet /\ b.open = NoPart /\ b.completed = f /\ b.target = a.target /\ b.parts = a.parts
        /\ b.broadcast = a.broadcast /\ b.seen = a.seen
    BY <1>2, ClosedFields
  <1>10. Booked(b, sl \o SealedBy(a), f)
    <2> DEFINE bs == sl \o SealedBy(a)
    <2>1. ~(Packed \subseteq e)
      OBVIOUS
    <2>2. Booked(Opened(a), bs, e) /\ Opened(a).open.pid = n /\ Len(Opened(a).parts) = n + 1
      <3>1. a.parts \in Seq(Nat)
        BY <1>2 DEF AssignerSet
      <3>2. Opened(a).open = [pid |-> n, size |-> 0, count |-> 0] /\ Opened(a).parts = Append(a.parts, n)
        BY <1>1, OpenedFields DEF n
      <3>3. Len(Append(a.parts, n)) = n + 1
        BY <3>1 DEF n
      <3> QED BY <1>1, <2>1, <3>2, <3>3, OpenBooked
    <2> HIDE DEF bs
    <2>3. /\ bs \in Seq(Nat) /\ \A i, j \in 1..Len(bs) : i # j => bs[i] # bs[j]
          /\ \A p \in Int : p \in ToSet(bs) <=> p \in 0..((n + 1) - 1) /\ p # n
      BY <2>2 DEF Booked
    <2>4. \A p \in Int : (p \in 0..((n + 1) - 1) /\ p # n) <=> (p \in 0..(n - 1) /\ p # -1)
      BY <1>2
    <2>5. NoPart.pid = -1
      BY DEF NoPart
    <2>6. a.parts = [i \in 1..n |-> i - 1]
      BY <1>1 DEF Booked, n
    <2> QED BY <1>9, <2>3, <2>4, <2>5, <2>6 DEF Booked, bs, n
  <1>11. Told(b, V, F, f)
    <2>1. ASSUME NEW p \in 0..(n - 1)
          PROVE  /\ \A q \in Replicated : V[p].splits[q] = F[q] /\ (q \in f => q \in V[p].noMore)
                 /\ V[p].known \cap f \subseteq V[p].noMore
                 /\ V[p].known # {}
      <3>1. /\ \A q \in Replicated : T[p].splits[q] = F[q] /\ (q \in e => q \in T[p].noMore)
            /\ T[p].known \cap e \subseteq T[p].noMore
        BY <1>1 DEF Told, n
      <3>2. \A q \in Replicated : q \in Sources
        BY AssignerAssumption
      <3> QED BY <1>2, <1>7, <3>1, <3>2, ZenonT(40)
    <2>2. \A p \in Nat \ 0..(n - 1) : V[p] = NewTask
      <3>1. \A p \in Nat \ 0..(n - 1) : T[p] = NewTask
        BY <1>1 DEF Told, n
      <3> QED BY <1>6, <3>1
    <2>3. \A q \in Replicated : b.broadcast[q] = F[q] /\ (q \notin b.seen => F[q] = <<>> /\ q \notin f)
      BY <1>1, <1>2, <1>9 DEF Told
    <2>4. Len(b.parts) = n
      BY <1>9 DEF n
    <2> QED BY <1>6, <2>1, <2>2, <2>3, <2>4 DEF Told
  <1>12. /\ Placed(V, F) /\ \A p \in Nat : OwnOf(V[p]) = OwnOf(T[p])
    <2>1. \A q \in Packed : q \in Sources
      BY DEF Packed
    <2> QED BY <1>1, <1>8, <2>1, SameSplits
  <1>13. Bounded(b, V)
    <2>1. \A p \in 0..(n - 1) : p \in Nat /\ Within(OwnOf(T[p]))
      BY <1>1 DEF Bounded, n
    <2> QED BY <1>9, <1>12, <2>1 DEF Bounded, n
  <1> HIDE DEF b, f
  <1>14. Packing(b, V, sl \o SealedBy(a), F, f)
    BY <1>1, <1>10, <1>11, <1>12, <1>13 DEF Packing
  <1>16. Ends(a, s) = us
    BY DEF Ends, us, none, yes
  <1>17. Alike(T, V) /\ OnePerPart(us, n)
    BY <1>2, <1>5, <1>8, <1>15 DEF Alike, OnePerPart
  <1> QED BY <1>14, <1>16, <1>17 DEF V, b, f, n

-----------------------------------------------------------------------------
\* The assigner when splits of a replicated source have come.
Heard(a, s, batch, last) ==
    [a EXCEPT !.broadcast[s] = @ \o batch, !.seen = @ \cup {s},
              !.completed = IF last THEN @ \cup {s} ELSE @]

EndedBy(e, s, last) == IF last THEN e \cup {s} ELSE e
HeardLike(a, b, s, batch, last) ==
    /\ b \in AssignerSet /\ b.open = a.open /\ b.target = a.target /\ b.parts = a.parts
    /\ b.broadcast[s] = a.broadcast[s] \o batch
    /\ \A q \in Replicated \ {s} : b.broadcast[q] = a.broadcast[q]
    /\ b.seen = a.seen \cup {s}
    /\ b.completed = EndedBy(a.completed, s, last)

\* What a broadcast leaves in the assigner.
LEMMA HeardFields ==
    ASSUME NEW a \in AssignerSet, NEW s \in Replicated, NEW batch \in Seq(Splits), NEW last \in BOOLEAN
    PROVE  HeardLike(a, Heard(a, s, batch, last), s, batch, last)
  <1> DEFINE more == [a.broadcast EXCEPT ![s] = a.broadcast[s] \o batch]
             done == IF last THEN a.completed \cup {s} ELSE a.completed
             b == Heard(a, s, batch, last)
  <1>1. a = [target |-> a.target, counter |-> a.counter, open |-> a.open, parts |-> a.parts,
             broadcast |-> a.broadcast, seen |-> a.seen, completed |-> a.completed]
    BY DEF AssignerSet
  <1>2. a.broadcast \in [Replicated -> Seq(Splits)] /\ a.seen \subseteq Sources /\ a.completed \subseteq Sources
    BY DEF AssignerSet
  <1>3. b = [a EXCEPT !.broadcast = more, !.seen = a.seen \cup {s}, !.completed = done]
    BY <1>1 DEF Heard
  <1>4. more \in [Replicated -> Seq(Splits)] /\ more[s] = a.broadcast[s] \o batch
        /\ \A q \in Replicated \ {s} : more[q] = a.broadcast[q]
    BY <1>2
  <1>5. done \subseteq Sources /\ s \in Sources
    BY <1>2, AssignerAssumption
  <1> HIDE DEF b, more, done
  <1>6. b = [target |-> a.target, counter |-> a.counter, open |-> a.open, parts |-> a.parts,
             broadcast |-> more, seen |-> a.seen \cup {s}, completed |-> done]
    BY <1>1, <1>3
  <1>7. b \in AssignerSet
    BY <1>2, <1>4, <1>5, <1>6 DEF AssignerSet
  <1>8. done = EndedBy(a.completed, s, last)
    BY DEF done, EndedBy
  <1> QED BY <1>4, <1>6, <1>7, <1>8 DEF b, HeardLike

\* A batch that is broadcast.
LEMMA BroadcastStep ==
    ASSUME NEW a, NEW T, NEW sl, NEW F, NEW e, Packing(a, T, sl, F, e), NEW s \in Replicated, s \notin e,
           NEW batch \in Seq(Splits), Numbered(F, s, batch), NEW last \in BOOLEAN
    PROVE  /\ Packing(Heard(a, s, batch, last), ApplyAll(T, Telling(a, s, batch, last)), sl,
                      More(F, s, batch), EndedBy(e, s, last))
           /\ \A p \in Nat, q \in Packed :
                 ApplyAll(T, Telling(a, s, batch, last))[p].splits[q] = T[p].splits[q]
  <1> DEFINE n == Len(a.parts)
             us == Telling(a, s, batch, last)
             V == ApplyAll(T, us)
             b == Heard(a, s, batch, last)
             f == EndedBy(e, s, last)
             G == More(F, s, batch)
  <1>1. Reported(F) /\ Booked(a, sl, e) /\ Told(a, T, F, e) /\ Placed(T, F) /\ Bounded(a, T)
    BY DEF Packing
  <1>2. /\ a \in AssignerSet /\ n \in Nat /\ T \in [Nat -> TaskSet] /\ s \in Sources /\ a.completed = e
        /\ F \in [Sources -> Seq(Splits)]
    BY <1>1, AssignerAssumption DEF Booked, Told, AssignerSet, Reported
  <1>3. Reported(G) /\ Fresh(F[s], batch)
    <2>1. \A i \in 1..Len(batch) : batch[i].source = s /\ batch[i].seq = Len(F[s]) + i
      BY DEF Numbered
    <2> QED BY <1>1, <1>2, <2>1, ReportedMore DEF More
  <1>4. G[s] = F[s] \o batch /\ \A q \in Sources \ {s} : G[q] = F[q]
    BY <1>2 DEF More
  <1>5. Tells(us, n, s, batch, last)
    <2>1. Len(us) = Len(a.parts)
      BY <1>1, <1>2, TellingAll
    <2>2. \A i \in 1..Len(a.parts) : us[i] = Update(i - 1, s, batch, last)
      BY <1>1, <1>2, TellingAll
    <2> HIDE DEF us
    <2> QED BY <2>1, <2>2 DEF Tells
  <1>6. /\ \A q \in Replicated : q \in Sources /\ a.broadcast[q] = F[q] /\ (q \notin a.seen => F[q] = <<>> /\ q \notin e)
        /\ \A p \in 0..(n - 1) :
              /\ \A q \in Replicated : T[p].splits[q] = F[q] /\ (q \in e => q \in T[p].noMore)
              /\ T[p].known \cap e \subseteq T[p].noMore
        /\ \A p \in Nat \ 0..(n - 1) : T[p] = NewTask
    BY <1>1, AssignerAssumption DEF Told
  <1> HIDE DEF n, us, G
  <1>7. ToldTo(Nat, T, V, n, s, batch, last)
    <2>1. 0..(n - 1) \subseteq Nat
      OBVIOUS
    <2>2. AllFresh(Nat, T, n, s, batch)
      BY <1>3, <1>6, <2>1 DEF AllFresh
    <2>3. T \in TaskMap(Nat)
      BY <1>2 DEF TaskMap
    <2> QED BY <1>2, <1>5, <2>2, <2>3, ToldAll
  <1> HIDE DEF V
  <1>8. /\ V \in [Nat -> TaskSet]
        /\ \A p \in 0..(n - 1) :
              /\ V[p].splits[s] = T[p].splits[s] \o batch
              /\ \A q \in Sources \ {s} : V[p].splits[q] = T[p].splits[q]
              /\ V[p].known = T[p].known \cup {s}
              /\ V[p].noMore = IF last THEN T[p].noMore \cup {s} ELSE T[p].noMore
        /\ \A p \in Nat \ 0..(n - 1) : V[p] = T[p]
    BY <1>7 DEF ToldTo, TaskMap
  <1>9. /\ b \in AssignerSet /\ b.open = a.open /\ b.target = a.target /\ b.parts = a.parts
        /\ b.broadcast[s] = a.broadcast[s] \o batch
        /\ \A q \in Replicated \ {s} : b.broadcast[q] = a.broadcast[q]
        /\ b.seen = a.seen \cup {s}
        /\ b.completed = f
    <2>1. HeardLike(a, b, s, batch, last)
      BY <1>2, HeardFields
    <2> HIDE DEF b
    <2> QED BY <1>2, <2>1 DEF HeardLike
  <1> HIDE DEF b
  <1>10. e \subseteq f /\ f \subseteq e \cup {s} /\ (s \in f => last = TRUE)
    BY DEF EndedBy
  <1> HIDE DEF f
  <1>11. Booked(b, sl, f)
    <2>1. Packed \subseteq f => Packed \subseteq e
      BY <1>10 DEF Packed
    <2> QED BY <1>1, <1>9, <1>10, <2>1 DEF Booked
  <1>12. Told(b, V, G, f)
    <2>1. ASSUME NEW p \in 0..(n - 1)
          PROVE  /\ \A q \in Replicated : V[p].splits[q] = G[q] /\ (q \in f => q \in V[p].noMore)
                 /\ V[p].known \cap f \subseteq V[p].noMore
                 /\ V[p].known # {}
      <3>1. /\ \A q \in Replicated : T[p].splits[q] = F[q] /\ (q \in e => q \in T[p].noMore)
            /\ T[p].known \cap e \subseteq T[p].noMore
        BY <1>6
      <3>2. \A q \in Replicated : V[p].splits[q] = G[q]
        <4>1. V[p].splits[s] = G[s]
          BY <1>4, <1>8, <3>1
        <4>2. \A q \in Replicated : q # s => V[p].splits[q] = G[q]
          BY <1>4, <1>6, <1>8, <3>1, ZenonT(40)
        <4> QED BY <4>1, <4>2
      <3>3. T[p].noMore \subseteq V[p].noMore /\ (s \in f => s \in V[p].noMore)
        BY <1>8, <1>10
      <3>4. \A q \in Replicated : q \in f => q \in V[p].noMore
        BY <1>10, <3>1, <3>3
      <3>5. V[p].known = T[p].known \cup {s}
        BY <1>8
      <3> QED BY <1>10, <3>1, <3>2, <3>3, <3>4, <3>5
    <2>2. \A p \in Nat \ 0..(n - 1) : V[p] = NewTask
      BY <1>6, <1>8
    <2>3. \A q \in Replicated : b.broadcast[q] = G[q] /\ (q \notin b.seen => G[q] = <<>> /\ q \notin f)
      <3>1. ASSUME NEW q \in Replicated
            PROVE  b.broadcast[q] = G[q] /\ (q \notin b.seen => G[q] = <<>> /\ q \notin f)
        <4>1. CASE q = s
          BY <1>2, <1>4, <1>6, <1>9, <4>1
        <4>2. CASE q # s
          BY <1>4, <1>6, <1>9, <1>10, <4>2
        <4> QED BY <4>1, <4>2
      <3> QED BY <3>1
    <2>4. Len(b.parts) = n
      BY <1>9 DEF n
    <2> QED BY <1>8, <2>1, <2>2, <2>3, <2>4 DEF Told
  <1>13. \A p \in Nat, q \in Packed : V[p].splits[q] = T[p].splits[q]
    <2>1. \A q \in Packed : q \in Sources \ {s}
      BY DEF Packed
    <2> QED BY <1>8, <2>1
  <1>14. Placed(V, G) /\ \A p \in Nat : OwnOf(V[p]) = OwnOf(T[p])
    <2>1. Placed(V, F) /\ \A p \in Nat : OwnOf(V[p]) = OwnOf(T[p])
      BY <1>1, <1>13, SameSplits
    <2>2. \A q \in Packed : G[q] = F[q]
      BY <1>4 DEF Packed
    <2>3. ASSUME NEW q \in Packed
          PROVE  /\ \A p \in Nat : IsInjective(V[p].splits[q]) /\ ToSet(V[p].splits[q]) \subseteq ToSet(G[q])
                 /\ \A x \in ToSet(G[q]) : \E p \in Nat : \A r \in Nat : x \in ToSet(V[r].splits[q]) <=> r = p
      <3> DEFINE xs == ToSet(F[q])
      <3>1. /\ \A p \in Nat : IsInjective(V[p].splits[q]) /\ ToSet(V[p].splits[q]) \subseteq xs
            /\ \A x \in xs : \E p \in Nat : \A r \in Nat : x \in ToSet(V[r].splits[q]) <=> r = p
        BY <2>1 DEF Placed
      <3>2. ToSet(G[q]) = xs
        BY <2>2
      <3> HIDE DEF xs
      <3> QED BY <3>1, <3>2
    <2>4. Placed(V, G)
      BY <2>3 DEF Placed
    <2> QED BY <2>1, <2>4
  <1>15. Bounded(b, V)
    <2>1. \A p \in 0..(n - 1) : p \in Nat /\ Within(OwnOf(T[p]))
      BY <1>1 DEF Bounded, n
    <2>2. a.open # NoPart => a.open.pid \in Nat
      BY <1>1 DEF Booked
    <2> QED BY <1>1, <1>9, <1>14, <2>1, <2>2 DEF Bounded, n
  <1>16. Packing(b, V, sl, G, f)
    BY <1>3, <1>11, <1>12, <1>14, <1>15 DEF Packing
  <1> QED BY <1>13, <1>16 DEF V, us, b, f, G

-----------------------------------------------------------------------------
\* What one call of the packing assigner comes to, from T0 and sl0.
Advanced(st, T0, sl0, n0, F, e) ==
    LET n == Len(st.a.parts)
    IN  /\ st.r \in ResultSet
        /\ Packing(st.a, ApplyAll(T0, st.r.updates), sl0 \o st.r.sealed, F, e)
        /\ st.a.open = NoPart \/ st.a.open.count >= 1
        /\ n0 <= n /\ \A p \in Nat : p \in ToSet(st.r.added) <=> n0 <= p /\ p < n
        /\ \A j \in 1..Len(st.r.updates) : st.r.updates[j].pid \in 0..(n - 1)
        /\ \A p \in ToSet(sl0) : OwnOf(ApplyAll(T0, st.r.updates)[p]) = OwnOf(T0[p])

\* One call of the packing assigner keeps the invariant.
LEMMA ArbitraryStep ==
    ASSUME NEW a, NEW T, NEW sl, NEW F, NEW e, Packing(a, T, sl, F, e), a.open = NoPart \/ a.open.count >= 1,
           NEW s \in Sources, s \notin e, NEW batch \in Seq(Splits), Numbered(F, s, batch), NEW last \in BOOLEAN
    PROVE  Advanced(AssignArbitrary(a, s, batch, last), T, sl, Len(a.parts), More(F, s, batch), EndedBy(e, s, last))
  <1> DEFINE n == Len(a.parts)
             f == EndedBy(e, s, last)
             G == More(F, s, batch)
  <1>1. Booked(a, sl, e) /\ n \in Nat /\ a \in AssignerSet /\ sl \in Seq(Nat)
    <2>1. Booked(a, sl, e)
      BY DEF Packing
    <2>2. a \in AssignerSet /\ sl \in Seq(Nat)
      BY <2>1 DEF Booked
    <2> QED BY <2>1, <2>2 DEF AssignerSet
  <1>2. \A p \in ToSet(sl) : p \in Nat
    BY <1>1, SetOfSeq
  <1>3. CASE s \in Replicated
    <2> DEFINE us == Telling(a, s, batch, last)
               done == AssignArbitrary(a, s, batch, last)
               b == Heard(a, s, batch, last)
               V == ApplyAll(T, us)
    <2>1. done.a = b /\ done.r = [NoUpdate EXCEPT !.updates = us]
      BY <1>3 DEF AssignArbitrary, AssignBroadcast, Heard, Telling
    <2>2. us \in Seq(UpdateSet)
      BY <1>1, TellingAll
    <2>3. Len(us) = n
      BY <1>1, TellingAll
    <2>4. \A i \in 1..n : us[i] = Update(i - 1, s, batch, last)
      BY <1>1, TellingAll
    <2>5. b.open = a.open /\ b.parts = a.parts
      <3>1. HeardLike(a, b, s, batch, last)
        BY <1>1, <1>3, HeardFields
      <3> HIDE DEF b
      <3> QED BY <3>1 DEF HeardLike
    <2>6. Packing(b, V, sl, G, f)
      BY <1>3, BroadcastStep
    <2>7. \A p \in Nat, q \in Packed : V[p].splits[q] = T[p].splits[q]
      BY <1>3, BroadcastStep
    <2> HIDE DEF us, done, b, G, f
    <2>8. done.r = [added |-> <<>>, updates |-> us, sealed |-> <<>>, noMore |-> FALSE]
      BY <2>1 DEF NoUpdate
    <2>9. done.r \in ResultSet /\ done.r.updates = us /\ done.r.sealed = <<>> /\ done.r.added = <<>>
      BY <2>2, <2>8 DEF ResultSet
    <2>10. sl \o <<>> = sl /\ ToSet(<<>>) = {}
      BY <1>1 DEF ToSet
    <2>11. \A j \in 1..Len(us) : us[j].pid \in 0..(n - 1)
      <3>1. \A i \in 1..n : us[i].pid = i - 1
        BY <2>4, UpdateFields
      <3>2. \A i \in 1..n : i - 1 \in 0..(n - 1)
        BY <1>1
      <3> QED BY <2>3, <3>1, <3>2
    <2>12. \A p \in ToSet(sl) : OwnOf(V[p]) = OwnOf(T[p])
      <3> HIDE DEF V
      <3>1. \A p \in Nat : OwnOf(V[p]) = OwnOf(T[p])
        BY <2>7, SameSplits
      <3> QED BY <1>2, <3>1
    <2> HIDE DEF n, V
    <2>13. Len(b.parts) = n /\ n <= n /\ \A p \in Nat : p \in {} <=> n <= p /\ p < n
      BY <1>1, <2>5 DEF n
    <2>14. Advanced(done, T, sl, n, G, f)
      BY <2>1, <2>5, <2>6, <2>9, <2>10, <2>11, <2>12, <2>13 DEF Advanced, V
    <2> QED BY <2>14 DEF done, n, G, f
  <1>4. CASE s \notin Replicated
    <2> DEFINE packed == PackAll(a, batch)
               b == packed.a
               r == packed.r
               U == ApplyAll(T, r.updates)
               qs == r.sealed
               sb == sl \o qs
    <2>1. s \in Packed
      BY <1>4 DEF Packed
    <2>2. Turned(packed, T, sl, n, G, e)
      BY <2>1, PackedAll
    <2> HIDE DEF packed, n, G
    <2>3. /\ r \in ResultSet /\ Packing(b, U, sb, G, e)
          /\ b.open = NoPart \/ b.open.count >= 1
          /\ n <= Len(b.parts) /\ \A p \in Nat : p \in ToSet(r.added) <=> n <= p /\ p < Len(b.parts)
          /\ \A j \in 1..Len(r.updates) : r.updates[j].pid \in 0..(Len(b.parts) - 1)
          /\ \A p \in ToSet(sl) : U[p] = T[p]
      BY <2>2 DEF Turned
    <2>4. CASE ~last
      <3>1. AssignArbitrary(a, s, batch, last) = packed
        BY <1>4, <2>4 DEF AssignArbitrary, AssignPacked, packed
      <3>2. f = e
        BY <2>4 DEF EndedBy
      <3> HIDE DEF f
      <3>3. Advanced(packed, T, sl, n, G, f)
        BY <2>3, <3>2 DEF Advanced
      <3> QED BY <3>1, <3>3 DEF n, G, f
    <2>5. CASE last
      <3> DEFINE done == AssignArbitrary(a, s, batch, last)
                 us == Ends(b, s)
                 W == ApplyAll(U, us)
                 m == Len(b.parts)
                 more == IF b.open = NoPart THEN qs ELSE Append(qs, b.open.pid)
                 vs == r.updates
      <3>1. /\ done.a = Closed(b, s)
            /\ done.r = [r EXCEPT !.updates = @ \o us,
                                  !.sealed = IF b.open = NoPart THEN @ ELSE Append(@, b.open.pid),
                                  !.noMore = TRUE]
        BY <1>4, <2>5 DEF AssignArbitrary, AssignPacked, packed, Closed, Ends, Telling
      <3>2. f = e \cup {s}
        BY <2>5 DEF EndedBy
      <3>3. Booked(b, sb, e) /\ b \in AssignerSet
        BY <2>3 DEF Packing, Booked
      <3>4. s \notin e
        OBVIOUS
      <3> HIDE DEF done, f, b, r, U, sb, m
      <3>5. Packing(Closed(b, s), W, sb \o SealedBy(b), G, f)
        BY <2>1, <2>3, <3>2, <3>4, EndStep
      <3>6. \A p \in Nat, q \in Sources : W[p].splits[q] = U[p].splits[q]
        <4>1. Alike(U, W)
          BY <2>1, <2>3, <3>4, EndStep
        <4> QED BY <4>1 DEF Alike
      <3>7. us \in Seq(UpdateSet) /\ Len(us) = m /\ m \in Nat /\ \A i \in 1..m : us[i].pid \in 0..(m - 1)
        <4>1. OnePerPart(us, m)
          BY <2>1, <2>3, <3>4, EndStep DEF m
        <4> HIDE DEF us
        <4> QED BY <4>1 DEF OnePerPart
      <3>9. Closed(b, s).open = NoPart /\ Closed(b, s).parts = b.parts
        BY <3>3, ClosedFields
      <3>10. /\ r.added \in Seq(Nat) /\ vs \in Seq(UpdateSet) /\ qs \in Seq(Nat)
             /\ r = [added |-> r.added, updates |-> vs, sealed |-> qs, noMore |-> r.noMore]
        BY <2>3 DEF ResultSet
      <3>11. U = ApplyAll(T, vs) /\ sb = sl \o qs
        BY DEF U, sb
      <3> HIDE DEF us, W, vs, qs, more
      <3>12. done.r = [added |-> r.added, updates |-> vs \o us, sealed |-> more, noMore |-> TRUE]
        BY <3>1, <3>10 DEF vs, qs, more
      <3>13. more \in Seq(Nat) /\ sl \o more = sb \o SealedBy(b)
        <4>1. CASE b.open = NoPart
          <5>1. SealedBy(b) = <<>> /\ more = qs
            BY <4>1 DEF SealedBy, more
          <5>2. sb \in Seq(Nat)
            BY <1>1, <3>10, <3>11
          <5>3. sb \o <<>> = sb
            BY <5>2
          <5> QED BY <3>10, <3>11, <5>1, <5>3
        <4>2. CASE b.open # NoPart
          <5> DEFINE p0 == b.open.pid
          <5>1. SealedBy(b) = <<p0>> /\ p0 \in Nat /\ more = Append(qs, p0)
            BY <3>3, <4>2 DEF SealedBy, Booked, more
          <5> HIDE DEF p0
          <5>2. Append(qs, p0) \in Seq(Nat) /\ sl \o Append(qs, p0) = (sl \o qs) \o <<p0>>
            BY <1>1, <3>10, <5>1, AppendJoins
          <5> QED BY <3>11, <5>1, <5>2
        <4> QED BY <4>1, <4>2
      <3>14. vs \o us \in Seq(UpdateSet)
        BY <3>7, <3>10
      <3>15. done.r \in ResultSet /\ done.r.updates = vs \o us /\ done.r.sealed = more /\ done.r.added = r.added
        BY <3>10, <3>12, <3>13, <3>14 DEF ResultSet
      <3>16. ApplyAll(T, vs \o us) = W
        BY <3>7, <3>10, <3>11, ApplyConcat DEF W
      <3>17. \A j \in 1..Len(vs \o us) : (vs \o us)[j].pid \in 0..(m - 1)
        <4>1. \A j \in 1..Len(vs) : vs[j].pid \in 0..(m - 1)
          BY <2>3 DEF vs, m
        <4> DEFINE all == vs \o us
        <4>2. \A j \in 1..Len(all) : \/ j \in 1..Len(vs) /\ all[j] = vs[j]
                                     \/ j - Len(vs) \in 1..Len(us) /\ all[j] = us[j - Len(vs)]
          BY <3>7, <3>10
        <4> HIDE DEF all
        <4>3. \A j \in 1..Len(all) : all[j].pid \in 0..(m - 1)
          BY <3>7, <4>1, <4>2
        <4> QED BY <4>3 DEF all
      <3>18. \A p \in ToSet(sl) : OwnOf(W[p]) = OwnOf(T[p])
        <4>1. \A p \in Nat, q \in Packed : W[p].splits[q] = U[p].splits[q]
          BY <3>6 DEF Packed
        <4>2. \A p \in Nat : OwnOf(W[p]) = OwnOf(U[p])
          BY <4>1, SameSplits
        <4> QED BY <1>2, <2>3, <4>2
      <3>19. Len(done.a.parts) = m /\ done.a.open = NoPart
        BY <3>1, <3>9 DEF m
      <3>20. n <= m /\ \A p \in Nat : p \in ToSet(r.added) <=> n <= p /\ p < m
        BY <2>3 DEF m
      <3>21. Packing(done.a, W, sl \o more, G, f)
        BY <3>1, <3>5, <3>13
      <3>22. Advanced(done, T, sl, n, G, f)
        BY <3>15, <3>16, <3>17, <3>18, <3>19, <3>20, <3>21 DEF Advanced
      <3> QED BY <3>22 DEF done, n, G, f
    <2> QED BY <2>4, <2>5
  <1> QED BY <1>3, <1>4

\* It announces that no more partitions come when the source it packs ends.
LEMMA ArbitraryAnnounces ==
    ASSUME NEW a, NEW T, NEW sl, NEW F, NEW e, Packing(a, T, sl, F, e), a.open = NoPart \/ a.open.count >= 1,
           NEW s \in Sources, s \notin e, NEW batch \in Seq(Splits), Numbered(F, s, batch), NEW last \in BOOLEAN
    PROVE  AssignArbitrary(a, s, batch, last).r.noMore = (last /\ s \notin Replicated)
  <1>1. CASE s \in Replicated
    BY <1>1 DEF AssignArbitrary, AssignBroadcast, NoUpdate
  <1>2. CASE s \notin Replicated
    <2> DEFINE packed == PackAll(a, batch)
               r == packed.r
    <2>1. s \in Packed
      BY <1>2 DEF Packed
    <2>2. Turned(packed, T, sl, Len(a.parts), More(F, s, batch), e)
      BY <2>1, PackedAll
    <2> HIDE DEF packed
    <2>3. r \in ResultSet /\ r.noMore = FALSE
      BY <2>2 DEF Turned
    <2>4. CASE ~last
      BY <1>2, <2>3, <2>4 DEF AssignArbitrary, AssignPacked, packed
    <2>5. CASE last
      <3> DEFINE us == [i \in DOMAIN packed.a.parts |-> Update(packed.a.parts[i], s, <<>>, TRUE)]
                 done == AssignArbitrary(a, s, batch, last)
      <3>1. done.r = [r EXCEPT !.updates = @ \o us,
                               !.sealed = IF packed.a.open = NoPart THEN @ ELSE Append(@, packed.a.open.pid),
                               !.noMore = TRUE]
        BY <1>2, <2>5 DEF AssignArbitrary, AssignPacked, packed
      <3> HIDE DEF us, done, r
      <3>2. DOMAIN r = {"added", "updates", "sealed", "noMore"}
        BY <2>3 DEF ResultSet
      <3>3. done.r.noMore = TRUE
        BY <3>1, <3>2
      <3> QED BY <1>2, <2>5, <3>3 DEF done
    <2> QED BY <2>4, <2>5
  <1> QED BY <1>1, <1>2

-----------------------------------------------------------------------------
\* The descriptors of all partitions, a new one for each that does not exist yet.
Big(ts) == [p \in Nat |-> IF p \in DOMAIN ts THEN ts[p] ELSE NewTask]

\* Creating a descriptor does not show there,
LEMMA CreatedBig ==
    ASSUME NEW ts, NEW pids
    PROVE  DOMAIN Created(ts, pids) = DOMAIN ts \cup pids /\ Big(Created(ts, pids)) = Big(ts)
  BY DEF Big, Created

\* and the updates of partitions that exist are the same there.
LEMMA ApplyBig ==
    ASSUME NEW ts, NEW us, Len(us) \in Nat, DOMAIN ts \subseteq Nat, \A i \in 1..Len(us) : us[i].pid \in DOMAIN ts
    PROVE  DOMAIN ApplyAll(ts, us) = DOMAIN ts /\ Big(ApplyAll(ts, us)) = ApplyAll(Big(ts), us)
  <1>1. PICK g : /\ g[0] = ts
                 /\ \A i \in 1..Len(us) : g[i] = Apply(g[i - 1], us[i])
                 /\ ApplyAll(ts, us) = g[Len(us)]
    BY ApplyLoop
  <1> DEFINE T == Big(ts)
  <1> HIDE DEF T
  <1>2. PICK h : /\ h[0] = T
                 /\ \A i \in 1..Len(us) : h[i] = Apply(h[i - 1], us[i])
                 /\ ApplyAll(T, us) = h[Len(us)]
    BY ApplyLoop
  <1> DEFINE S == {i \in Nat : i <= Len(us) => DOMAIN g[i] = DOMAIN ts /\ Big(g[i]) = h[i]}
  <1>3. 0 \in S
    BY <1>1, <1>2 DEF T
  <1>4. ASSUME NEW i \in Nat, i \in S PROVE i + 1 \in S
    <2>1. SUFFICES ASSUME i + 1 <= Len(us) PROVE DOMAIN g[i + 1] = DOMAIN ts /\ Big(g[i + 1]) = h[i + 1]
      OBVIOUS
    <2> DEFINE u == us[i + 1]
               old == g[i]
    <2>2. DOMAIN old = DOMAIN ts /\ Big(old) = h[i] /\ i + 1 \in 1..Len(us) /\ (i + 1) - 1 = i
      BY <1>4, <2>1
    <2>3. g[i + 1] = Apply(old, u) /\ h[i + 1] = Apply(Big(old), u) /\ u.pid \in DOMAIN old
      BY <1>1, <1>2, <2>2
    <2> HIDE DEF u, old
    <2>4. Apply(old, u) = [p \in DOMAIN old |-> IF p = u.pid THEN Updated(old[p], u) ELSE old[p]]
      BY DEF Apply
    <2>5. Apply(Big(old), u) = [p \in Nat |-> IF p = u.pid THEN Updated(Big(old)[p], u) ELSE Big(old)[p]]
      BY DEF Apply, Big
    <2> DEFINE new == Apply(old, u)
    <2>6. DOMAIN new = DOMAIN old
      BY <2>4
    <2>7. \A p \in Nat : Big(old)[p] = IF p \in DOMAIN old THEN old[p] ELSE NewTask
      BY DEF Big
    <2>8. \A p \in Nat : Big(new)[p] = Apply(Big(old), u)[p]
      BY <2>3, <2>4, <2>5, <2>6, <2>7 DEF Big
    <2> HIDE DEF new
    <2>9. Big(new) = [p \in Nat |-> Big(new)[p]]
      BY DEF Big
    <2>10. Big(new) = Apply(Big(old), u)
      BY <2>5, <2>8, <2>9
    <2> QED BY <2>2, <2>3, <2>6, <2>10 DEF new
  <1> HIDE DEF S
  <1>5. Len(us) \in S
    BY <1>3, <1>4, Induction
  <1> QED BY <1>1, <1>2, <1>5 DEF S, T

-----------------------------------------------------------------------------
\* What a source can report next.
LEMMA BatchFacts ==
    ASSUME NEW s \in Sources, fed[s] \in Seq(Splits), NEW batch \in Batches(s)
    PROVE  batch \in Seq(Splits) /\ Numbered(fed, s, batch)
  <1> DEFINE n == Len(fed[s])
             room == MinOfTwo(MaxBatch, MaxFed - n)
  <1>1. n \in Nat
    OBVIOUS
  <1> HIDE DEF n
  <1>2. PICK z \in BoundedSeq(Sizes, room) :
            batch = [i \in DOMAIN z |-> [source |-> s, seq |-> n + i, size |-> z[i], key |-> (n + i) % (NumPartitions + 1)]]
    BY DEF Batches, n
  <1>3. MaxBatch \in Nat /\ MaxFed \in Nat /\ NumPartitions \in Nat /\ NumPartitions + 1 >= 1
    BY AssignerAssumption
  <1>4. room \in Int /\ room <= MaxFed - n
    BY <1>1, <1>3 DEF MinOfTwo
  <1> HIDE DEF room
  <1>5. PICK m \in 0..room : z \in [1..m -> Sizes]
    BY <1>2 DEF BoundedSeq, SeqOf
  <1>6. m \in Nat /\ \A i \in 1..m : n + i \in 1..MaxFed
    BY <1>1, <1>3, <1>4
  <1> DEFINE x(i) == [source |-> s, seq |-> n + i, size |-> z[i], key |-> (n + i) % (NumPartitions + 1)]
  <1>7. batch = [i \in 1..m |-> x(i)]
    BY <1>2, <1>5
  <1>8. ASSUME NEW i \in 1..m PROVE x(i) \in Splits
    <2>1. (n + i) % (NumPartitions + 1) \in 0..NumPartitions
      BY <1>1, <1>3
    <2>2. z[i] \in Sizes
      BY <1>5
    <2> QED BY <1>6, <1>8, <2>1, <2>2 DEF Splits
  <1>9. \A i \in 1..m : x(i).source = s /\ x(i).seq = n + i
    OBVIOUS
  <1> HIDE DEF x
  <1>10. batch \in Seq(Splits) /\ Len(batch) = m /\ \A i \in 1..m : batch[i] = x(i)
    BY <1>6, <1>7, <1>8
  <1> QED BY <1>9, <1>10 DEF Numbered, n

-----------------------------------------------------------------------------
\* The invariant of the packing assigner.
PackingInv ==
    /\ DOMAIN tasks = 0..(Len(assigner.parts) - 1)
    /\ Packing(assigner, Big(tasks), sealed, fed, ended)
    /\ assigner.open = NoPart \/ assigner.open.count >= 1
    /\ noMorePartitions = (ended \ Replicated # {})

\* One call, its result applied to the descriptors that exist, keeps it.
LEMMA PackingStep ==
    ASSUME Broadcasting, PackingInv, NEW s \in Sources, NEW last \in BOOLEAN, NEW batch \in Batches(s),
           Feed(s, batch, last)
    PROVE  PackingInv' /\ \A p \in ToSet(sealed) : Own(p)' = Own(p)
  <1> DEFINE done == AssignArbitrary(assigner, s, batch, last)
             n == Len(assigner.parts)
             m == Len(done.a.parts)
             T == Big(tasks)
             us == done.r.updates
             pids == ToSet(done.r.added)
             made == Created(tasks, pids)
             G == More(fed, s, batch)
             f == EndedBy(ended, s, last)
  <1>1. Reported(fed) /\ Booked(assigner, sealed, ended)
    BY DEF PackingInv, Packing
  <1>2. fed[s] \in Seq(Splits) /\ n \in Nat /\ sealed \in Seq(Nat) /\ assigner.open.pid \in Int
    BY <1>1 DEF Reported, Booked, AssignerSet
  <1>3. batch \in Seq(Splits) /\ Numbered(fed, s, batch)
    BY <1>2, BatchFacts
  <1>4. /\ s \notin ended /\ assigner' = done.a /\ sealed' = sealed \o done.r.sealed
        /\ tasks' = ApplyAll(made, us) /\ fed' = G /\ ended' = f
        /\ noMorePartitions' = (noMorePartitions \/ done.r.noMore)
    BY DEF Feed, Assign, Broadcasting, More, EndedBy
  <1>4a. done.r.noMore = (last /\ s \notin Replicated)
    BY <1>3, <1>4, ArbitraryAnnounces DEF PackingInv
  <1>4b. noMorePartitions' = (f \ Replicated # {})
    <2> HIDE DEF done
    <2> QED BY <1>4, <1>4a DEF PackingInv, EndedBy
  <1>5. Advanced(done, T, sealed, n, G, f)
    BY <1>3, <1>4, ArbitraryStep DEF PackingInv
  <1> HIDE DEF done, G, f, T
  <1>6. /\ done.r \in ResultSet
        /\ Packing(done.a, ApplyAll(T, us), sealed \o done.r.sealed, G, f)
        /\ done.a.open = NoPart \/ done.a.open.count >= 1
        /\ n <= m /\ \A p \in Nat : p \in pids <=> n <= p /\ p < m
        /\ \A j \in 1..Len(us) : us[j].pid \in 0..(m - 1)
        /\ \A p \in ToSet(sealed) : OwnOf(ApplyAll(T, us)[p]) = OwnOf(T[p])
    BY <1>5 DEF Advanced
  <1>7. m \in Nat /\ pids \subseteq Nat /\ Len(us) \in Nat
    <2>1. done.a \in AssignerSet
      BY <1>6 DEF Packing, Booked
    <2>2. done.r.added \in Seq(Nat) /\ us \in Seq(UpdateSet)
      BY <1>6 DEF ResultSet
    <2>3. \A q \in Seq(Nat) : ToSet(q) \subseteq Nat
      BY SetOfSeq
    <2> QED BY <2>1, <2>2, <2>3, SMTT(40) DEF AssignerSet
  <1>8. DOMAIN made = 0..(m - 1) /\ Big(made) = T
    <2> HIDE DEF pids, m, n
    <2>1. DOMAIN tasks = 0..(n - 1)
      BY DEF PackingInv, n
    <2>2. 0..(n - 1) \cup pids = 0..(m - 1)
      <3>1. n \in Nat /\ m \in Nat /\ pids \subseteq Nat
        BY <1>2, <1>7
      <3>2. n <= m /\ \A p \in Nat : p \in pids <=> n <= p /\ p < m
        BY <1>6
      <3>3. \A p : p \in 0..(n - 1) <=> p \in Nat /\ p < n
        BY <3>1
      <3>4. \A p : p \in 0..(m - 1) <=> p \in Nat /\ p < m
        BY <3>1
      <3>5. \A p \in Nat : p < n \/ (n <= p /\ p < m) <=> p < m
        BY <3>1, <3>2
      <3> QED BY <3>1, <3>2, <3>3, <3>4, <3>5
    <2>3. DOMAIN made = DOMAIN tasks \cup pids /\ Big(made) = Big(tasks)
      BY CreatedBig
    <2> HIDE DEF made
    <2> QED BY <2>1, <2>2, <2>3 DEF T
  <1> HIDE DEF made, us, pids
  <1>9. DOMAIN ApplyAll(made, us) = 0..(m - 1) /\ Big(ApplyAll(made, us)) = ApplyAll(T, us)
    <2> HIDE DEF m
    <2>1. 0..(m - 1) \subseteq Nat
      BY <1>7
    <2> QED BY <1>6, <1>7, <1>8, <2>1, ApplyBig DEF m
  <1>10. PackingInv'
    BY <1>4, <1>4b, <1>6, <1>9 DEF PackingInv
  <1>11. ASSUME NEW p \in ToSet(sealed) PROVE Own(p)' = Own(p)
    <2>1. p \in Nat /\ p \in 0..(n - 1)
      <3>1. p \in Nat
        BY <1>2, SetOfSeq
      <3> QED BY <1>1, <3>1 DEF Booked
    <2>2. p \in DOMAIN tasks /\ p \in DOMAIN tasks'
      <3>1. p \in 0..(m - 1)
        BY <1>2, <1>6, <1>7, <2>1
      <3> QED BY <1>4, <1>9, <2>1, <3>1 DEF PackingInv
    <2>3. T[p] = tasks[p] /\ Big(tasks')[p] = tasks'[p]
      BY <2>1, <2>2 DEF Big, T
    <2>4. OwnOf(tasks'[p]) = OwnOf(tasks[p])
      BY <1>4, <1>6, <1>9, <2>3
    <2> QED BY <2>4 DEF Own, OwnOf, Packed
  <1> QED BY <1>10, <1>11

-----------------------------------------------------------------------------

\* The invariant holds at the start.
LEMMA PackingInit ==
    ASSUME Init
    PROVE  PackingInv
  <1> DEFINE T == Big(tasks)
             none == <<>>
  <1>1. /\ assigner = NewAssigner /\ sealed = none /\ tasks = none /\ ended = {}
        /\ fed \in [Sources -> Seq(Splits)] /\ \A s \in Sources : fed[s] = none
        /\ noMorePartitions = FALSE
    BY DEF Init
  <1>2. none \in Seq(Nat) /\ Len(none) = 0 /\ DOMAIN none = {} /\ ToSet(none) = {} /\ IsInjective(none)
        /\ none = [i \in 1..0 |-> i - 1] /\ 1..0 = {} /\ 0..(0 - 1) = {} /\ none \in Seq(Splits)
    BY DEF ToSet, IsInjective
  <1>3. /\ assigner.target = MinTarget /\ assigner.open = NoPart /\ assigner.parts = none
        /\ assigner.seen = {} /\ assigner.completed = {} /\ assigner.counter = 0
        /\ assigner.broadcast = [s \in Replicated |-> none]
    BY <1>1 DEF NewAssigner
  <1>4. assigner = [target |-> MinTarget, counter |-> 0, open |-> NoPart, parts |-> none,
                    broadcast |-> [s \in Replicated |-> none], seen |-> {}, completed |-> {}]
    BY <1>1 DEF NewAssigner
  <1>5. NewTask \in TaskSet /\ \A s \in Sources : NewTask.splits[s] = none
    BY DEF NewTask, TaskSet
  <1>6. T \in [Nat -> TaskSet] /\ \A p \in Nat : T[p] = NewTask
    BY <1>1, <1>2, <1>5 DEF Big
  <1>7. /\ MinTarget \in MinTarget..MaxTarget /\ 0 \in 0..(GrowthPeriod - 1)
        /\ Replicated \subseteq Sources
    BY AssignerAssumption
  <1> HIDE DEF none, T
  <1>8. NoPart \in [pid : Int, size : Nat, count : Nat] /\ NoPart.pid = -1
    BY DEF NoPart
  <1>9. assigner \in AssignerSet
    <2>1. [s \in Replicated |-> none] \in [Replicated -> Seq(Splits)]
      BY <1>2
    <2> QED BY <1>2, <1>4, <1>7, <1>8, <2>1 DEF AssignerSet
  <1>10. Reported(fed)
    BY <1>1, <1>2 DEF Reported
  <1>11. Booked(assigner, sealed, ended)
    BY <1>1, <1>2, <1>3, <1>7, <1>9 DEF Booked
  <1>12. Told(assigner, T, fed, ended)
    BY <1>1, <1>2, <1>3, <1>6, <1>7 DEF Told
  <1>13. Placed(T, fed)
    BY <1>1, <1>2, <1>5, <1>6 DEF Placed, Packed
  <1>14. Bounded(assigner, T)
    BY <1>2, <1>3 DEF Bounded
  <1>15. DOMAIN tasks = 0..(Len(assigner.parts) - 1)
    BY <1>1, <1>2, <1>3
  <1> QED BY <1>1, <1>3, <1>10, <1>11, <1>12, <1>13, <1>14, <1>15 DEF PackingInv, Packing, T

-----------------------------------------------------------------------------
\* What follows from the invariant. The descriptors that exist are those of Big,
LEMMA BigAdded ==
    ASSUME PackingInv
    PROVE  /\ added \subseteq Nat /\ added = 0..(Len(assigner.parts) - 1)
           /\ \A p \in added : Big(tasks)[p] = tasks[p] /\ Own(p) = OwnOf(Big(tasks)[p])
           /\ \A p \in Nat \ added : Big(tasks)[p] = NewTask
  <1>1. added = 0..(Len(assigner.parts) - 1)
    BY DEF PackingInv, added
  <1>2. Len(assigner.parts) \in Nat
    BY DEF PackingInv, Packing, Booked, AssignerSet
  <1>3. added \subseteq Nat
    BY <1>1, <1>2
  <1>4. \A p \in Nat : Big(tasks)[p] = IF p \in added THEN tasks[p] ELSE NewTask
    BY DEF Big, added
  <1>5. \A p \in added : Big(tasks)[p] = tasks[p]
    BY <1>3, <1>4
  <1>6. \A p \in added : Own(p) = OwnOf(Big(tasks)[p])
    BY <1>5 DEF Own, OwnOf, Packed
  <1> QED BY <1>1, <1>3, <1>4, <1>5, <1>6

\* each split is in one of them,
LEMMA PackedInOne ==
    ASSUME PackingInv, Broadcasting
    PROVE  EachSplitInOneTask
  <1> DEFINE T == Big(tasks)
  <1>1. Placed(T, fed)
    BY DEF PackingInv, Packing
  <1>2. /\ added \subseteq Nat
        /\ \A p \in added : T[p] = tasks[p]
        /\ \A p \in Nat \ added : T[p] = NewTask
    BY BigAdded
  <1>3. strategy # "single" /\ strategy # "hash"
    BY DEF Broadcasting
  <1> HIDE DEF T
  <1>4. SUFFICES ASSUME NEW s \in Sources, ~IsBroadcast(s), NEW x \in ToSet(fed[s])
                 PROVE  LET at == {p \in added : x \in ToSet(tasks[p].splits[s])}
                        IN  /\ \E p \in added : at = {p}
                            /\ \A p \in at : IsInjective(tasks[p].splits[s])
    BY <1>3 DEF EachSplitInOneTask
  <1>5. s \in Packed
    BY <1>4 DEF IsBroadcast, Packed
  <1>6. PICK p \in Nat : \A q \in Nat : x \in ToSet(T[q].splits[s]) <=> q = p
    BY <1>1, <1>5 DEF Placed
  <1>7. p \in added
    <2>1. NewTask.splits[s] = <<>> /\ ToSet(<<>>) = {}
      BY DEF NewTask, ToSet
    <2> QED BY <1>2, <1>6, <2>1
  <1>8. \A q \in added : IsInjective(tasks[q].splits[s])
    BY <1>1, <1>2, <1>5 DEF Placed
  <1>9. {q \in added : x \in ToSet(tasks[q].splits[s])} = {p}
    BY <1>2, <1>6, <1>7
  <1> QED BY <1>7, <1>8, <1>9

\* the broadcast ones are in all,
LEMMA PackedReaches ==
    ASSUME PackingInv
    PROVE  BroadcastReachesAll
  <1>1. Told(assigner, Big(tasks), fed, ended)
    BY DEF PackingInv, Packing
  <1>2. added = 0..(Len(assigner.parts) - 1) /\ \A p \in added : Big(tasks)[p] = tasks[p]
    BY BigAdded
  <1>3. \A p \in added, s \in Replicated : tasks[p].splits[s] = fed[s] /\ (s \in ended => s \in tasks[p].noMore)
    BY <1>1, <1>2 DEF Told
  <1> QED BY <1>3 DEF BroadcastReachesAll

\* and the state has its types,
LEMMA PackedTypes ==
    ASSUME PackingInv
    PROVE  /\ assigner.target \in MinTarget..MaxTarget /\ assigner.counter \in 0..(GrowthPeriod - 1)
           /\ assigner.open = NoPart \/ assigner.open.pid \in added
           /\ ToSet(assigner.parts) = added
           /\ ToSet(sealed) \subseteq added
           /\ \A p \in added, s \in Sources : ToSet(tasks[p].splits[s]) \subseteq Splits
           /\ \A s \in Sources : fed[s] \in Seq(Splits)
           /\ ended \subseteq Sources
  <1> DEFINE a == assigner
             n == Len(a.parts)
  <1>1. Reported(fed) /\ Booked(a, sealed, ended) /\ Told(a, Big(tasks), fed, ended)
    BY DEF PackingInv, Packing
  <1>2. added \subseteq Nat /\ added = 0..(n - 1) /\ \A p \in added : Big(tasks)[p] = tasks[p]
    BY BigAdded
  <1>3. a \in AssignerSet
    BY <1>1 DEF Booked
  <1>4. /\ a.target \in MinTarget..MaxTarget /\ a.counter \in 0..(GrowthPeriod - 1)
        /\ a.parts \in Seq(Nat) /\ a.open.pid \in Int /\ a.completed \subseteq Sources /\ n \in Nat
    BY <1>3 DEF AssignerSet
  <1>5. a.open = NoPart \/ a.open.pid \in added
    <2>1. a.open = NoPart \/ (a.open.pid \in Nat /\ a.open.pid + 1 = n)
      BY <1>1 DEF Booked
    <2> HIDE DEF n, a
    <2>2. \A p \in Nat : p + 1 = n => p \in 0..(n - 1)
      BY <1>4
    <2> QED BY <1>2, <2>1, <2>2
  <1>6. ToSet(a.parts) = added
    <2>1. ToSet(a.parts) = {a.parts[i] : i \in 1..n}
      BY <1>4, SetOfSeq
    <2>2. a.parts = [i \in 1..n |-> i - 1]
      BY <1>1 DEF Booked
    <2>3. \A i \in 1..n : a.parts[i] = i - 1 /\ i - 1 \in 0..(n - 1)
      BY <1>4, <2>2
    <2>4. \A p \in 0..(n - 1) : p + 1 \in 1..n /\ (p + 1) - 1 = p
      BY <1>4
    <2> HIDE DEF n, a
    <2> QED BY <1>2, <2>1, <2>3, <2>4
  <1>7. ToSet(sealed) \subseteq added
    <2>1. sealed \in Seq(Nat)
      BY <1>1 DEF Booked
    <2>2. ToSet(sealed) \subseteq Nat
      BY <2>1, SetOfSeq
    <2> QED BY <1>1, <1>2, <2>2 DEF Booked
  <1>8. \A p \in added, s \in Sources : ToSet(tasks[p].splits[s]) \subseteq Splits
    <2>1. \A p \in added : tasks[p] \in TaskSet
      BY <1>1, <1>2 DEF Told
    <2>2. \A p \in added, s \in Sources : tasks[p].splits[s] \in Seq(Splits)
      BY <2>1 DEF TaskSet
    <2> QED BY <2>2, SetOfSeq
  <1>9. ended \subseteq Sources
    BY <1>1, <1>4 DEF Booked
  <1> QED BY <1>1, <1>4, <1>5, <1>6, <1>7, <1>8, <1>9 DEF Reported

\* no partition is over its bounds,
LEMMA PackedWithin ==
    ASSUME PackingInv
    PROVE  PackedWithinBounds
  <1>1. Bounded(assigner, Big(tasks))
    BY DEF PackingInv, Packing
  <1>2. added = 0..(Len(assigner.parts) - 1) /\ \A p \in added : Own(p) = OwnOf(Big(tasks)[p])
    BY BigAdded
  <1>3. \A p \in added : Within(Own(p))
    BY <1>1, <1>2 DEF Bounded
  <1> QED BY <1>3 DEF PackedWithinBounds, Within

\* A list without repetitions is as long as the set of its elements is large.
LEMMA ManyDistinct ==
    ASSUME NEW S, NEW q \in Seq(S), \A i, j \in 1..Len(q) : i # j => q[i] # q[j]
    PROVE  Cardinality(ToSet(q)) = Len(q)
  <1> DEFINE n == Len(q)
  <1>1. n \in Nat /\ DOMAIN q = 1..n /\ q \in [1..n -> ToSet(q)] /\ ToSet(q) = {q[i] : i \in 1..n}
    BY DEF ToSet
  <1> HIDE DEF n
  <1>2. q \in Bijection(1..n, ToSet(q))
    BY <1>1 DEF n, Bijection, Injection, Surjection, IsInjective
  <1>3. IsFiniteSet(1..n) /\ Cardinality(1..n) = n
    <2> DEFINE one == 1
    <2>1. one \in Int /\ n \in Int
      BY <1>1
    <2> HIDE DEF one
    <2>2. IsFiniteSet(one..n)
      BY <2>1, FS_Interval
    <2>3. Cardinality(one..n) = IF one > n THEN 0 ELSE n - one + 1
      BY <2>1, FS_Interval
    <2> QED BY <1>1, <2>2, <2>3 DEF one
  <1>4. ExistsBijection(1..n, ToSet(q))
    BY <1>2 DEF ExistsBijection
  <1> QED BY <1>3, <1>4, FS_Bijection DEF n

\* each is sealed once, and all in the end.
LEMMA PackedSealed ==
    ASSUME PackingInv
    PROVE  Broadcasting => SealedInTheEnd
  <1> DEFINE T == Big(tasks)
             a == assigner
  <1>1. Booked(a, sealed, ended) /\ Told(a, T, fed, ended)
    BY DEF PackingInv, Packing
  <1>2. added \subseteq Nat /\ added = 0..(Len(a.parts) - 1) /\ \A p \in added : T[p] = tasks[p]
    BY BigAdded
  <1> HIDE DEF T
  <1>3. /\ sealed \in Seq(Nat) /\ a.open.pid \in Int
        /\ \A i, j \in 1..Len(sealed) : i # j => sealed[i] # sealed[j]
        /\ \A p \in Int : p \in ToSet(sealed) <=> p \in 0..(Len(a.parts) - 1) /\ p # a.open.pid
        /\ Packed \subseteq ended => a.open = NoPart
    BY <1>1 DEF Booked, AssignerSet
  <1>4. Cardinality(ToSet(sealed)) = Len(sealed)
    BY <1>3, ManyDistinct
  <1>5. a.open.pid \notin ToSet(sealed)
    BY <1>3
  <1>6. ASSUME ended = Sources, NEW p \in added PROVE p \in ToSet(sealed) /\ IsSealed(tasks[p])
    <2>1. a.open.pid = -1
      BY <1>3, <1>6 DEF Packed, NoPart
    <2>2. p # -1 /\ p \in Int
      BY <1>2
    <2>3. /\ T[p].known \cap ended \subseteq T[p].noMore
          /\ T[p].known = {} => p = a.open.pid /\ a.open.count = 0
      BY <1>1, <1>2 DEF Told
    <2>4. T[p].known \subseteq Sources
      BY <1>1, <1>2 DEF Told, TaskSet
    <2>5. p \in ToSet(sealed)
      BY <1>2, <1>3, <2>1, <2>2
    <2> QED BY <1>2, <1>6, <2>1, <2>2, <2>3, <2>4, <2>5 DEF IsSealed
  <1>7. ASSUME Broadcasting, ended = Sources, NEW s \in Reporters, ~IsBroadcast(s) PROVE noMorePartitions
    <2>1. Reporters \subseteq Sources
      BY <1>7 DEF Reporters
    <2> QED BY <1>7, <2>1 DEF PackingInv, IsBroadcast
  <1> QED BY <1>4, <1>5, <1>6, <1>7 DEF SealedInTheEnd

-----------------------------------------------------------------------------
\* The other two assigners: where a split goes, and how many partitions there are.
Dest(st, x) == IF st = "hash" THEN RouteOf(x) ELSE 0
Width(st) == IF st = "hash" THEN NumPartitions ELSE 1
Those(st, batch, p) == {x \in ToSet(batch) : Dest(st, x) = p}

\* What the updates of a batch do to the descriptors, but for the end of a source.
RoutedTo(st, D, T, V, s, batch) ==
    /\ V \in TaskMap(D)
    /\ \A p \in D :
          /\ IsInjective(V[p].splits[s])
          /\ ToSet(V[p].splits[s]) = ToSet(T[p].splits[s]) \cup Those(st, batch, p)
          /\ \A q \in Sources \ {s} : V[p].splits[q] = T[p].splits[q]
          /\ T[p].known \subseteq V[p].known /\ T[p].noMore \subseteq V[p].noMore
          /\ V[p].known \subseteq T[p].known \cup {s}

\* A descriptor that takes new splits of a source.
LEMMA Joined ==
    ASSUME NEW t \in TaskSet, NEW u \in UpdateSet, Fresh(t.splits[u.source], u.splits),
           IsInjective(t.splits[u.source]), u.noMore = FALSE
    PROVE  /\ Updated(t, u) \in TaskSet
           /\ IsInjective(Updated(t, u).splits[u.source])
           /\ ToSet(Updated(t, u).splits[u.source]) = ToSet(t.splits[u.source]) \cup ToSet(u.splits)
           /\ \A q \in Sources \ {u.source} : Updated(t, u).splits[q] = t.splits[q]
           /\ t.known \subseteq Updated(t, u).known /\ t.noMore \subseteq Updated(t, u).noMore
           /\ Updated(t, u).known \subseteq t.known \cup {u.source}
  <1> DEFINE old == t.splits[u.source]
             new == u.splits
             all == old \o new
             v == Updated(t, u)
  <1>1. v.splits[u.source] = all /\ v \in TaskSet
    BY UpdatedFresh
  <1>2. \A q \in Sources \ {u.source} : v.splits[q] = t.splits[q]
    BY UpdatedFresh
  <1>3. v.known = t.known \cup {u.source} /\ v.noMore = IF u.noMore THEN t.noMore \cup {u.source} ELSE t.noMore
    BY UpdatedFresh
  <1>4. t.known \subseteq v.known /\ t.noMore \subseteq v.noMore /\ v.known \subseteq t.known \cup {u.source}
    <2> HIDE DEF v
    <2> QED BY <1>3
  <1>5. old \in Seq(Splits) /\ new \in Seq(Splits)
    BY DEF TaskSet, UpdateSet
  <1>6. IsInjective(old) /\ Fresh(old, new)
    OBVIOUS
  <1> HIDE DEF old, new, v
  <1>7. /\ Len(old) \in Nat /\ Len(new) \in Nat /\ Len(all) = Len(old) + Len(new) /\ all \in Seq(Splits)
        /\ \A i \in 1..Len(old) : all[i] = old[i]
        /\ \A i \in 1..Len(new) : all[Len(old) + i] = new[i]
    BY <1>5
  <1> HIDE DEF all
  <1>8. \A i \in 1..Len(all) : i \in 1..Len(old) \/ (i - Len(old) \in 1..Len(new) /\ Len(old) + (i - Len(old)) = i)
    BY <1>7
  <1>9. /\ ToSet(all) = {all[i] : i \in 1..Len(all)}
        /\ ToSet(old) = {old[i] : i \in 1..Len(old)}
        /\ ToSet(new) = {new[i] : i \in 1..Len(new)}
    BY <1>5, <1>7, SetOfSeq
  <1>10. ASSUME NEW i \in 1..Len(all)
         PROVE  \/ i \in 1..Len(old) /\ all[i] = old[i]
                \/ i - Len(old) \in 1..Len(new) /\ all[i] = new[i - Len(old)]
    BY <1>7, <1>8
  <1>11. ToSet(all) = ToSet(old) \cup ToSet(new)
    BY <1>5, JoinedSet DEF all
  <1>12. IsInjective(all)
    <2>1. DOMAIN all = 1..Len(all) /\ DOMAIN old = 1..Len(old)
      BY <1>5, <1>7
    <2>2. ASSUME NEW i \in 1..Len(all), NEW j \in 1..Len(all), all[i] = all[j] PROVE i = j
      <3>1. \A k \in 1..Len(new), y \in ToSet(old) : y # new[k]
        BY <1>6 DEF Fresh
      <3>2. \A k, l \in 1..Len(new) : k # l => new[k] # new[l]
        BY <1>6 DEF Fresh
      <3>3. \A k \in 1..Len(old) : old[k] \in ToSet(old)
        BY <1>9
      <3>4. CASE i \in 1..Len(old) /\ j \in 1..Len(old)
        BY <1>6, <1>7, <2>1, <2>2, <3>4 DEF IsInjective
      <3>5. CASE i - Len(old) \in 1..Len(new) /\ all[i] = new[i - Len(old)]
                 /\ j - Len(old) \in 1..Len(new) /\ all[j] = new[j - Len(old)]
        <4>1. i - Len(old) = j - Len(old)
          BY <2>2, <3>2, <3>5
        <4> QED BY <1>7, <4>1
      <3> QED BY <1>7, <1>10, <2>2, <3>1, <3>3, <3>4, <3>5
    <2> QED BY <2>1, <2>2 DEF IsInjective
  <1> QED BY <1>1, <1>2, <1>4, <1>11, <1>12 DEF old, new, v

-----------------------------------------------------------------------------
\* Where the loop of the hash assigner places the splits of a batch.
LEMMA PlacedFacts ==
    ASSUME NEW batch \in Seq(Splits), \A i, j \in 1..Len(batch) : i # j => batch[i].seq # batch[j].seq,
           NEW p \in 0..(NumPartitions - 1)
    PROVE  /\ ByPart(batch)[p] \in Seq(Splits)
           /\ ToSet(ByPart(batch)[p]) = Those("hash", batch, p)
           /\ \A i, j \in 1..Len(ByPart(batch)[p]) : i # j => ByPart(batch)[p][i].seq # ByPart(batch)[p][j].seq
  <1> DEFINE n == Len(batch)
             D == 0..(NumPartitions - 1)
             Upto2(i) == {batch[j] : j \in {k \in 1..i : RouteOf(batch[k]) = p}}
  <1>1. n \in Nat /\ \A i \in 1..n : batch[i] \in Splits
    OBVIOUS
  <1>2. PICK g : /\ g[0] = [q \in D |-> <<>>]
                 /\ \A i \in 1..n : g[i] = [g[i - 1] EXCEPT ![RouteOf(batch[i])] = Append(@, batch[i])]
                 /\ ByPart(batch) = g[n]
    BY <1>1, PlaceLoop
  <1>3. \A x \in Splits : RouteOf(x) \in D
    <2>1. NumPartitions \in Nat \ {0}
      BY AssignerAssumption
    <2>2. \A x \in Splits : x.key \in Nat
      BY <2>1 DEF Splits
    <2> QED BY <2>1, <2>2 DEF RouteOf
  <1> DEFINE Ok(i) == /\ DOMAIN g[i] = D /\ g[i][p] \in Seq(Splits)
                      /\ ToSet(g[i][p]) = Upto2(i)
                      /\ \A k, l \in 1..Len(g[i][p]) : k # l => g[i][p][k].seq # g[i][p][l].seq
             S == {i \in Nat : i <= n => Ok(i)}
  <1>4. 0 \in S
    <2>1. g[0][p] = <<>> /\ DOMAIN g[0] = D
      BY <1>2
    <2>2. ToSet(<<>>) = {} /\ Len(<<>>) = 0 /\ <<>> \in Seq(Splits) /\ 1..0 = {}
      BY DEF ToSet
    <2>3. Upto2(0) = {}
      BY <2>2
    <2> QED BY <2>1, <2>2, <2>3
  <1>5. ASSUME NEW i \in Nat, i \in S PROVE i + 1 \in S
    <2>1. SUFFICES ASSUME i + 1 <= n PROVE Ok(i + 1)
      OBVIOUS
    <2> DEFINE x == batch[i + 1]
               old == g[i][p]
               G == g[i]
    <2>2. Ok(i) /\ i + 1 \in 1..n /\ (i + 1) - 1 = i
      BY <1>1, <1>5, <2>1
    <2>3. x \in Splits /\ RouteOf(x) \in D
      BY <1>1, <1>3, <2>2
    <2>4. g[i + 1] = [G EXCEPT ![RouteOf(x)] = Append(G[RouteOf(x)], x)]
      BY <1>2, <2>2
    <2>5. /\ DOMAIN G = D /\ old \in Seq(Splits) /\ ToSet(old) = Upto2(i)
          /\ \A k, l \in 1..Len(old) : k # l => old[k].seq # old[l].seq
      BY <2>2
    <2>6. old = G[p]
      OBVIOUS
    <2>7. 1..(i + 1) = 1..i \cup {i + 1}
      OBVIOUS
    <2>8. \A y \in Upto2(i) : y.seq # x.seq
      <3>1. \A k \in 1..i : k \in 1..n /\ k # i + 1
        BY <1>1, <2>1
      <3>2. \A k \in 1..i : batch[k].seq # batch[i + 1].seq
        BY <2>2, <3>1
      <3> QED BY <3>2
    <2> DEFINE U == Upto2(i)
    <2>9. Upto2(i + 1) = IF RouteOf(x) = p THEN U \cup {x} ELSE U
      BY <2>7
    <2> DEFINE W == Upto2(i + 1)
    <2> HIDE DEF x, old, G, U, W
    <2>10. DOMAIN g[i + 1] = D
      BY <2>4, <2>5
    <2>11. CASE RouteOf(x) # p
      <3>1. g[i + 1][p] = old
        BY <2>4, <2>5, <2>6, <2>11
      <3>2. W = U
        BY <2>9, <2>11 DEF W
      <3> QED BY <2>5, <2>10, <3>1, <3>2 DEF U, W
    <2>12. CASE RouteOf(x) = p
      <3> DEFINE more == Append(old, x)
      <3>1. g[i + 1][p] = more
        BY <2>4, <2>5, <2>6, <2>12
      <3>2. W = U \cup {x}
        BY <2>9, <2>12 DEF W
      <3>3. more \in Seq(Splits) /\ Len(more) = Len(old) + 1 /\ more[Len(old) + 1] = x /\ Len(old) \in Nat
            /\ \A k \in 1..Len(old) : more[k] = old[k]
        BY <2>3, <2>5
      <3> HIDE DEF more
      <3>4. 1..(Len(old) + 1) = 1..Len(old) \cup {Len(old) + 1}
        BY <3>3
      <3>5. /\ ToSet(more) = {more[k] : k \in 1..(Len(old) + 1)} /\ ToSet(old) = {old[k] : k \in 1..Len(old)}
        <4>1. ToSet(more) = {more[k] : k \in 1..Len(more)}
          BY <3>3, SetOfSeq
        <4>2. ToSet(old) = {old[k] : k \in 1..Len(old)}
          BY <2>5, SetOfSeq
        <4> QED BY <3>3, <4>1, <4>2
      <3>6. ToSet(more) = ToSet(old) \cup {x}
        BY <3>3, <3>4, <3>5, SMTT(40)
      <3>7. \A k \in 1..Len(old) : old[k].seq # x.seq
        BY <2>5, <2>8, <3>5 DEF U
      <3>8. \A k, l \in 1..(Len(old) + 1) : k # l => more[k].seq # more[l].seq
        BY <2>5, <3>3, <3>4, <3>7
      <3> QED BY <2>5, <2>10, <3>1, <3>2, <3>3, <3>6, <3>8 DEF U, W
    <2> QED BY <2>11, <2>12
  <1>6. Ok(n)
    <2>1. n \in Nat /\ n <= n
      BY <1>1
    <2> HIDE DEF Ok
    <2>2. \A i \in Nat : i \in S
      <3> HIDE DEF S
      <3> QED BY <1>4, <1>5, Induction
    <2> QED BY <2>1, <2>2
  <1>7. Upto2(n) = Those("hash", batch, p)
    <2>1. ToSet(batch) = {batch[i] : i \in 1..n}
      BY DEF ToSet
    <2>2. \A x : Dest("hash", x) = RouteOf(x)
      BY DEF Dest
    <2> QED BY <2>1, <2>2 DEF Those
  <1> HIDE DEF Upto2, n
  <1> QED BY <1>2, <1>6, <1>7

-----------------------------------------------------------------------------
\* The batch is new to every descriptor.
Ready(D, T, s, batch) ==
    /\ \A i, j \in 1..Len(batch) : i # j => batch[i].seq # batch[j].seq
    /\ \A p \in D : /\ IsInjective(T[p].splits[s])
                    /\ \A y \in ToSet(T[p].splits[s]), x \in ToSet(batch) : y.seq # x.seq

SingleUpdates(s, batch) == <<Update(0, s, batch, FALSE)>>
HashUpdates(s, batch) ==
    LET part == ByPart(batch)
        used == SetToSeq({RouteOf(x) : x \in ToSet(batch)})
    IN  [i \in DOMAIN used |-> Update(used[i], s, part[used[i]], FALSE)]

\* What the single assigner does with it.
LEMMA SingleRouted ==
    ASSUME NEW D, D = {0}, NEW T \in TaskMap(D), NEW s \in Sources, NEW batch \in Seq(Splits),
           Ready(D, T, s, batch)
    PROVE  /\ SingleUpdates(s, batch) \in Seq(UpdateSet)
           /\ RoutedTo("single", D, T, ApplyAll(T, SingleUpdates(s, batch)), s, batch)
  <1> DEFINE no == FALSE
             u == Update(0, s, batch, no)
             t == T[0]
             V == ApplyAll(T, <<u>>)
  <1>1. no \in BOOLEAN /\ 0 \in Nat
    OBVIOUS
  <1>2. u.source = s /\ u.splits = batch /\ u.noMore = no /\ u.pid = 0
    <2> HIDE DEF no
    <2> QED BY UpdateFields
  <1>3. u \in UpdateSet
    BY <1>1, UpdateFields
  <1>4. t \in TaskSet
    BY DEF TaskMap
  <1>5. Fresh(t.splits[u.source], u.splits) /\ IsInjective(t.splits[u.source]) /\ u.noMore = FALSE
    <2>1. \A i \in 1..Len(batch) : batch[i] \in ToSet(batch)
      BY SetOfSeq
    <2>2. Fresh(t.splits[s], batch) /\ IsInjective(t.splits[s])
      BY <2>1 DEF Ready, Fresh
    <2> HIDE DEF u, t
    <2> QED BY <1>2, <2>2
  <1>6. V = Apply(T, u)
    BY ApplyOne
  <1> HIDE DEF no, u, V
  <1> DEFINE v == Updated(t, u)
  <1>7. DOMAIN T = {0} /\ V = [T EXCEPT ![0] = v]
    BY <1>2, <1>6 DEF Apply, TaskMap
  <1> HIDE DEF t
  <1>8. v \in TaskSet /\ IsInjective(v.splits[u.source])
    BY <1>3, <1>4, <1>5, Joined
  <1>9. ToSet(v.splits[u.source]) = ToSet(t.splits[u.source]) \cup ToSet(u.splits)
    BY <1>3, <1>4, <1>5, Joined
  <1>10. \A q \in Sources \ {u.source} : v.splits[q] = t.splits[q]
    BY <1>3, <1>4, <1>5, Joined
  <1>11. t.known \subseteq v.known /\ t.noMore \subseteq v.noMore /\ v.known \subseteq t.known \cup {u.source}
    BY <1>3, <1>4, <1>5, Joined
  <1> HIDE DEF v
  <1>12. V \in TaskMap(D) /\ V[0] = v
    BY <1>7, <1>8 DEF TaskMap
  <1>13. Those("single", batch, 0) = ToSet(batch)
    BY DEF Those, Dest
  <1>14. RoutedTo("single", D, T, V, s, batch)
    BY <1>2, <1>8, <1>9, <1>10, <1>11, <1>12, <1>13 DEF RoutedTo, t
  <1>15. <<u>> \in Seq(UpdateSet)
    BY <1>3
  <1>16. SingleUpdates(s, batch) = <<u>>
    BY DEF SingleUpdates, u, no
  <1> QED BY <1>14, <1>15, <1>16 DEF V

\* Updates of different partitions.
Scattered(ts, us, V) ==
    /\ DOMAIN V = DOMAIN ts
    /\ \A i \in 1..Len(us) : V[us[i].pid] = Updated(ts[us[i].pid], us[i])
    /\ \A p \in DOMAIN ts : (\A i \in 1..Len(us) : us[i].pid # p) => V[p] = ts[p]

\* Updates of different partitions, as one fact.
LEMMA Scatter ==
    ASSUME NEW ts, NEW us, Len(us) \in Nat, \A i \in 1..Len(us) : us[i].pid \in DOMAIN ts,
           \A i, j \in 1..Len(us) : i # j => us[i].pid # us[j].pid
    PROVE  Scattered(ts, us, ApplyAll(ts, us))
  BY Spread DEF Scattered

\* What the hash assigner does with it.
LEMMA HashRouted ==
    ASSUME NEW D, D = 0..(NumPartitions - 1), NEW T \in TaskMap(D), NEW s \in Sources, NEW batch \in Seq(Splits),
           Ready(D, T, s, batch)
    PROVE  /\ HashUpdates(s, batch) \in Seq(UpdateSet)
           /\ RoutedTo("hash", D, T, ApplyAll(T, HashUpdates(s, batch)), s, batch)
  <1> DEFINE no == FALSE
             part == ByPart(batch)
             R == {RouteOf(x) : x \in ToSet(batch)}
             used == SetToSeq(R)
             n == Len(used)
             us == [i \in 1..n |-> Update(used[i], s, part[used[i]], no)]
             V == ApplyAll(T, us)
  <1>1. no \in BOOLEAN /\ no = FALSE
    OBVIOUS
  <1>2. \A x \in Splits : RouteOf(x) \in D
    <2>1. NumPartitions \in Nat \ {0}
      BY AssignerAssumption
    <2>2. \A x \in Splits : x.key \in Nat
      BY <2>1 DEF Splits
    <2> QED BY <2>1, <2>2 DEF RouteOf
  <1>3. D \subseteq Nat /\ IsFiniteSet(D)
    <2>1. NumPartitions - 1 \in Int /\ 0 \in Int
      BY AssignerAssumption
    <2>2. IsFiniteSet(0..(NumPartitions - 1))
      BY <2>1, FS_Interval
    <2> QED BY <2>2
  <1>4. ToSet(batch) \subseteq Splits
    BY SetOfSeq
  <1>5. R \subseteq D
    BY <1>2, <1>4
  <1>6. IsFiniteSet(R)
    BY <1>3, <1>5, FS_Subset
  <1>7. \A p \in D : part[p] \in Seq(Splits) /\ ToSet(part[p]) = Those("hash", batch, p)
    BY PlacedFacts DEF Ready
  <1>8. \A p \in D : \A i, j \in 1..Len(part[p]) : i # j => part[p][i].seq # part[p][j].seq
    BY PlacedFacts DEF Ready
  <1>9. \A p \in D : p \notin R => Those("hash", batch, p) = {}
    BY DEF Those, Dest
  <1> HIDE DEF R, part, no
  <1>10. n \in Nat /\ DOMAIN used = 1..n /\ \A i \in 1..n : used[i] \in R
    BY <1>6, Listed
  <1>11. \A x \in R : \E i \in 1..n : used[i] = x
    BY <1>6, Listed
  <1>12. \A i, j \in 1..n : i # j => used[i] # used[j]
    BY <1>6, Listed
  <1>13. HashUpdates(s, batch) = us
    BY <1>10 DEF HashUpdates, R, part, no
  <1> HIDE DEF used, n
  <1>14. \A i \in 1..n : us[i].pid = used[i] /\ us[i].source = s /\ us[i].splits = part[used[i]] /\ us[i].noMore = no
    BY UpdateFields
  <1>15. \A i \in 1..n : us[i] \in UpdateSet
    <2>1. \A i \in 1..n : used[i] \in Nat /\ part[used[i]] \in Seq(Splits)
      BY <1>3, <1>5, <1>7, <1>10
    <2> QED BY <1>1, <2>1, UpdateFields
  <1>16. us \in Seq(UpdateSet) /\ Len(us) = n
    <2>1. us = [i \in 1..n |-> us[i]] /\ DOMAIN us = 1..n
      OBVIOUS
    <2> HIDE DEF us
    <2> QED BY <1>10, <1>15, <2>1
  <1> HIDE DEF us
  <1>17. DOMAIN T = D /\ \A p \in D : T[p] \in TaskSet
    BY DEF TaskMap
  <1>18. \A i \in 1..n : us[i].pid \in D
    BY <1>5, <1>10, <1>14
  <1>26. Len(us) \in Nat /\ DOMAIN T = D
    BY <1>10, <1>16, <1>17
  <1>27. \A i \in 1..Len(us) : us[i].pid \in DOMAIN T
    BY <1>16, <1>17, <1>18
  <1>28. \A i, j \in 1..Len(us) : i # j => us[i].pid # us[j].pid
    BY <1>12, <1>14, <1>16
  <1> HIDE DEF V
  <1>18a. Scattered(T, us, V)
    BY <1>26, <1>27, <1>28, Scatter DEF V
  <1>19. DOMAIN V = D
    BY <1>18a, <1>26 DEF Scattered
  <1>20. \A i \in 1..Len(us) : V[us[i].pid] = Updated(T[us[i].pid], us[i])
    BY <1>18a DEF Scattered
  <1>21. \A p \in D : (\A i \in 1..Len(us) : us[i].pid # p) => V[p] = T[p]
    BY <1>18a, <1>26 DEF Scattered
  <1>22. V = [p \in D |-> V[p]]
    <2>1. V = [p \in DOMAIN V |-> V[p]]
      <3>1. PICK g : /\ g[0] = T
                     /\ \A i \in 1..Len(us) : g[i] = Apply(g[i - 1], us[i])
                     /\ V = g[Len(us)]
        BY <1>10, <1>16, ApplyLoop DEF V
      <3>2. CASE Len(us) = 0
        BY <1>17, <3>1, <3>2 DEF TaskMap
      <3>3. CASE Len(us) # 0
        <4>1. Len(us) \in 1..Len(us)
          BY <1>10, <1>16, <3>3
        <4>2. V = Apply(g[Len(us) - 1], us[Len(us)])
          BY <3>1, <4>1
        <4> QED BY <4>2 DEF Apply
      <3> QED BY <3>2, <3>3
    <2> QED BY <1>19, <2>1
  <1>23. ASSUME NEW p \in D
         PROVE  /\ V[p] \in TaskSet
                /\ IsInjective(V[p].splits[s])
                /\ ToSet(V[p].splits[s]) = ToSet(T[p].splits[s]) \cup Those("hash", batch, p)
                /\ \A q \in Sources \ {s} : V[p].splits[q] = T[p].splits[q]
                /\ T[p].known \subseteq V[p].known /\ T[p].noMore \subseteq V[p].noMore
                /\ V[p].known \subseteq T[p].known \cup {s}
    <2>1. CASE p \in R
      <3>1. PICK i \in 1..n : used[i] = p
        BY <1>11, <2>1
      <3> DEFINE u == us[i]
                 t == T[p]
                 v == Updated(t, u)
      <3>2. u.pid = p /\ u.source = s /\ u.splits = part[p] /\ u.noMore = FALSE /\ u \in UpdateSet
        BY <1>1, <1>14, <1>15, <3>1
      <3>3. V[p] = v
        BY <1>16, <1>20, <3>1, <3>2
      <3>4. t \in TaskSet
        BY <1>17
      <3>5. Fresh(t.splits[s], part[p]) /\ IsInjective(t.splits[s])
        <4>1. ToSet(part[p]) \subseteq ToSet(batch)
          BY <1>7 DEF Those
        <4>2. \A k \in 1..Len(part[p]) : part[p][k] \in ToSet(part[p])
          BY <1>7, SetOfSeq
        <4> QED BY <1>8, <4>1, <4>2 DEF Ready, Fresh
      <3> HIDE DEF u, t
      <3>6. Fresh(t.splits[u.source], u.splits) /\ IsInjective(t.splits[u.source])
        BY <3>2, <3>5
      <3>7. v \in TaskSet /\ IsInjective(v.splits[u.source])
        BY <3>2, <3>4, <3>6, Joined
      <3>8. ToSet(v.splits[u.source]) = ToSet(t.splits[u.source]) \cup ToSet(u.splits)
        BY <3>2, <3>4, <3>6, Joined
      <3>9. \A q \in Sources \ {u.source} : v.splits[q] = t.splits[q]
        BY <3>2, <3>4, <3>6, Joined
      <3>10. t.known \subseteq v.known /\ t.noMore \subseteq v.noMore /\ v.known \subseteq t.known \cup {u.source}
        BY <3>2, <3>4, <3>6, Joined
      <3> HIDE DEF v
      <3> QED BY <1>7, <3>2, <3>3, <3>7, <3>8, <3>9, <3>10 DEF t
    <2>2. CASE p \notin R
      <3>1. V[p] = T[p]
        BY <1>10, <1>14, <1>16, <1>21, <2>2
      <3>2. IsInjective(T[p].splits[s])
        BY DEF Ready
      <3> QED BY <1>9, <1>17, <2>2, <3>1, <3>2
    <2> QED BY <2>1, <2>2
  <1>24. V \in TaskMap(D)
    BY <1>22, <1>23 DEF TaskMap
  <1>25. RoutedTo("hash", D, T, V, s, batch)
    BY <1>23, <1>24 DEF RoutedTo
  <1> QED BY <1>13, <1>16, <1>25 DEF V

-----------------------------------------------------------------------------
Routes(st, s, batch) == IF st = "hash" THEN HashUpdates(s, batch) ELSE SingleUpdates(s, batch)
Parts(st) == 0..(Width(st) - 1)
Pids(n) == [i \in 1..n |-> i - 1]

\* Both of them.
LEMMA EachRouted ==
    ASSUME NEW st \in {"single", "hash"}, NEW T \in TaskMap(Parts(st)), NEW s \in Sources,
           NEW batch \in Seq(Splits), Ready(Parts(st), T, s, batch)
    PROVE  /\ Routes(st, s, batch) \in Seq(UpdateSet)
           /\ RoutedTo(st, Parts(st), T, ApplyAll(T, Routes(st, s, batch)), s, batch)
  <1> DEFINE D == Parts(st)
  <1>1. CASE st = "hash"
    <2>1. D = 0..(NumPartitions - 1) /\ Routes(st, s, batch) = HashUpdates(s, batch)
      BY <1>1 DEF Parts, Width, Routes
    <2>2. T \in TaskMap(D) /\ Ready(D, T, s, batch)
      OBVIOUS
    <2> HIDE DEF D
    <2>3. HashUpdates(s, batch) \in Seq(UpdateSet)
      BY <2>1, <2>2, HashRouted
    <2>4. RoutedTo("hash", D, T, ApplyAll(T, HashUpdates(s, batch)), s, batch)
      BY <2>1, <2>2, HashRouted
    <2> QED BY <1>1, <2>1, <2>3, <2>4 DEF D
  <1>2. CASE st = "single"
    <2>1. D = {0} /\ Routes(st, s, batch) = SingleUpdates(s, batch)
      <3>1. 0..(1 - 1) = {0}
        OBVIOUS
      <3> QED BY <1>2, <3>1 DEF Parts, Width, Routes
    <2>2. T \in TaskMap(D) /\ Ready(D, T, s, batch)
      OBVIOUS
    <2> HIDE DEF D
    <2>3. SingleUpdates(s, batch) \in Seq(UpdateSet)
      BY <2>1, <2>2, SingleRouted
    <2>4. RoutedTo("single", D, T, ApplyAll(T, SingleUpdates(s, batch)), s, batch)
      BY <2>1, <2>2, SingleRouted
    <2> QED BY <1>2, <2>1, <2>3, <2>4 DEF D
  <1> QED BY <1>1, <1>2

\* Their invariant: every split is where it belongs, once, and every partition
\* knows of every source that has ended.
Whole(a) ==
    a = [target |-> a.target, counter |-> a.counter, open |-> a.open, parts |-> a.parts,
         broadcast |-> a.broadcast, seen |-> a.seen, completed |-> a.completed]
Sorted(st, ts, F) ==
    \A p \in DOMAIN ts, s \in Sources :
        IsInjective(ts[p].splits[s]) /\ ToSet(ts[p].splits[s]) = Those(st, F[s], p)
Reports(F, e) == {s \in Sources : F[s] # <<>>} \cup e
Fixed(st, a, ts, sl, F, e) ==
    /\ Reported(F) /\ sl \in Seq(Nat) /\ ToSet(sl) \subseteq DOMAIN ts
    /\ a.parts = <<>> \/ a.parts = Pids(Width(st))
    /\ a.parts = <<>> => DOMAIN ts = {} /\ a.seen = {} /\ \A s \in Sources : F[s] = <<>>
    /\ a.parts # <<>> => ts \in TaskMap(Parts(st)) /\ a.seen # {}
    /\ a.seen = Reports(F, e) /\ a.completed = e /\ e \subseteq Sources
    /\ Sorted(st, ts, F)
    /\ \A s \in e, p \in DOMAIN ts : s \in ts[p].known /\ s \in ts[p].noMore
    /\ \A p \in DOMAIN ts : ts[p].known \subseteq Reports(F, e)
    /\ Reports(F, e) \subseteq e => \A p \in DOMAIN ts : p \in ToSet(sl)

\* The end of a source is told to all.
PartEnds(s, n) == [i \in 1..n |-> Update(i - 1, s, <<>>, TRUE)]
ToldEnd(D, T, V, s) ==
    /\ V \in TaskMap(D)
    /\ \A p \in D : /\ \A q \in Sources : V[p].splits[q] = T[p].splits[q]
                    /\ T[p].known \subseteq V[p].known /\ T[p].noMore \subseteq V[p].noMore
                    /\ s \in V[p].known /\ s \in V[p].noMore
                    /\ V[p].known \subseteq T[p].known \cup {s}

\* The end of a source reaches every descriptor, and adds no split.
LEMMA EndTold ==
    ASSUME NEW n \in Nat, NEW T \in TaskMap(0..(n - 1)), NEW s \in Sources
    PROVE  /\ PartEnds(s, n) \in Seq(UpdateSet)
           /\ ToldEnd(0..(n - 1), T, ApplyAll(T, PartEnds(s, n)), s)
  <1> DEFINE none == <<>>
             yes == TRUE
             D == 0..(n - 1)
             us == [i \in 1..n |-> Update(i - 1, s, none, yes)]
             V == ApplyAll(T, us)
  <1>1. none \in Seq(Splits) /\ yes \in BOOLEAN /\ \A old : Fresh(old, none)
    BY NothingFresh
  <1>2. \A q \in Seq(Splits) : q \o none = q
    OBVIOUS
  <1>3. us = PartEnds(s, n)
    BY DEF PartEnds
  <1> HIDE DEF none, yes
  <1>4. \A i \in 1..n : us[i] \in UpdateSet
    <2>1. \A i \in 1..n : i - 1 \in Nat
      OBVIOUS
    <2> QED BY <1>1, <2>1, UpdateFields
  <1>5. us \in Seq(UpdateSet) /\ Len(us) = n /\ \A i \in 1..n : us[i] = Update(i - 1, s, none, yes)
    <2>1. us = [i \in 1..n |-> us[i]] /\ \A i \in 1..n : us[i] = Update(i - 1, s, none, yes)
      OBVIOUS
    <2> HIDE DEF us
    <2> QED BY <1>4, <2>1
  <1>6. T \in TaskMap(D)
    OBVIOUS
  <1> HIDE DEF us, D
  <1>7. Tells(us, n, s, none, yes)
    BY <1>1, <1>5 DEF Tells
  <1>8. AllFresh(D, T, n, s, none)
    BY <1>1 DEF AllFresh, D
  <1>9. ToldTo(D, T, V, n, s, none, yes)
    BY <1>1, <1>6, <1>7, <1>8, ToldAll
  <1> HIDE DEF V
  <1>10. /\ V \in TaskMap(D)
         /\ \A p \in D :
              /\ V[p].splits[s] = T[p].splits[s] \o none
              /\ \A q \in Sources \ {s} : V[p].splits[q] = T[p].splits[q]
              /\ V[p].known = T[p].known \cup {s}
              /\ V[p].noMore = IF yes THEN T[p].noMore \cup {s} ELSE T[p].noMore
    BY <1>9 DEF ToldTo, D
  <1>11. \A p \in D : T[p].splits[s] \in Seq(Splits)
    <2>1. \A p \in D : T[p] \in TaskSet
      BY <1>6 DEF TaskMap
    <2> QED BY <2>1 DEF TaskSet
  <1>12. \A p \in D : V[p].splits[s] = T[p].splits[s]
    BY <1>2, <1>10, <1>11
  <1>13. ToldEnd(D, T, V, s)
    BY <1>10, <1>12 DEF ToldEnd, yes
  <1> QED BY <1>3, <1>5, <1>13 DEF V, D

-----------------------------------------------------------------------------
\* One call of the single or the hash assigner.
Call(st, a, s, batch, last) == AssignFixed(a, s, Routes(st, s, batch), last, Width(st))

\* It keeps the invariant of the two.
LEMMA FixedStep ==
    ASSUME NEW st \in {"single", "hash"}, NEW a, NEW ts, NEW sl, NEW F, NEW e, Fixed(st, a, ts, sl, F, e),
           NEW s \in Sources, s \notin e, NEW batch \in Seq(Splits), Numbered(F, s, batch), NEW last \in BOOLEAN,
           Whole(a), batch # <<>> \/ last
    PROVE  LET done == Call(st, a, s, batch, last)
               ts2 == ApplyAll(Created(ts, ToSet(done.r.added)), done.r.updates)
               G == More(F, s, batch)
               f == EndedBy(e, s, last)
           IN  /\ Fixed(st, done.a, ts2, sl \o done.r.sealed, G, f)
               /\ done.r.noMore = (last /\ Reports(G, f) \subseteq f)
               /\ sl \o done.r.sealed # sl <=> last /\ Reports(G, f) \subseteq f
               /\ done.a.parts # <<>>
               /\ a.parts # <<>> => DOMAIN ts2 = DOMAIN ts
  <1> DEFINE n == Width(st)
             D == Parts(st)
             pids == Pids(n)
             routed == Routes(st, s, batch)
             ends == PartEnds(s, n)
             done == Call(st, a, s, batch, last)
             G == More(F, s, batch)
             f == EndedBy(e, s, last)
             new == IF a.parts = <<>> THEN pids ELSE <<>>
             made == Created(ts, ToSet(new))
             seen == a.seen \cup {s}
             seals == IF last /\ seen \subseteq f THEN pids ELSE <<>>
             us == IF last THEN routed \o ends ELSE routed
  <1>1. n \in Nat \ {0} /\ D = 0..(n - 1)
    BY AssignerAssumption DEF Width, Parts
  <1>2. /\ Reported(F) /\ sl \in Seq(Nat) /\ ToSet(sl) \subseteq DOMAIN ts
        /\ a.parts = <<>> \/ a.parts = pids
        /\ a.parts = <<>> => DOMAIN ts = {} /\ \A q \in Sources : F[q] = <<>>
        /\ a.parts # <<>> => ts \in TaskMap(D)
        /\ a.seen = Reports(F, e) /\ a.completed = e /\ e \subseteq Sources
        /\ Sorted(st, ts, F)
        /\ \A q \in e, p \in DOMAIN ts : q \in ts[p].known /\ q \in ts[p].noMore
        /\ \A p \in DOMAIN ts : ts[p].known \subseteq Reports(F, e)
    BY DEF Fixed
  <1>3. a.completed = e /\ s \notin e
    BY <1>2
  <1> HIDE DEF n, D
  <1>4. pids \in Seq(Nat) /\ ToSet(pids) = D /\ pids # <<>>
    <2>1. \A i \in 1..n : i - 1 \in Nat
      BY <1>1
    <2>2. pids \in Seq(Nat) /\ Len(pids) = n /\ \A i \in 1..n : pids[i] = i - 1
      BY <1>1, <2>1 DEF Pids
    <2>3. ToSet(pids) = {pids[i] : i \in 1..n}
      BY <2>2, SetOfSeq
    <2>4. \A p \in D : p + 1 \in 1..n /\ (p + 1) - 1 = p
      BY <1>1
    <2>5. \A i \in 1..n : i - 1 \in D
      BY <1>1
    <2>6. Len(<<>>) = 0
      OBVIOUS
    <2> HIDE DEF pids
    <2>7. ToSet(pids) = D
      BY <2>2, <2>3, <2>4, <2>5
    <2>8. pids # <<>>
      BY <1>1, <2>2, <2>6
    <2> QED BY <2>2, <2>7, <2>8
  <1>5. done.a = [a EXCEPT !.seen = seen, !.completed = f, !.parts = pids]
    <2> DEFINE fc == IF last THEN a.completed \cup {s} ELSE a.completed
    <2>1. fc = f
      BY <1>3 DEF EndedBy
    <2>2. done.a = [a EXCEPT !.seen = seen, !.completed = fc, !.parts = pids]
      BY DEF Call, AssignFixed, Pids, n
    <2> QED BY <2>1, <2>2
  <1>6. done.r = [added |-> new, updates |-> us, sealed |-> seals, noMore |-> (last /\ seen \subseteq f)]
    <2> DEFINE fc == IF last THEN a.completed \cup {s} ELSE a.completed
    <2>1. fc = f
      BY <1>3 DEF EndedBy
    <2>2. done.r = [added |-> new, updates |-> us, sealed |-> IF last /\ seen \subseteq fc THEN pids ELSE <<>>,
                    noMore |-> (last /\ seen \subseteq fc)]
      BY DEF Call, AssignFixed, Pids, n, PartEnds
    <2> QED BY <2>1, <2>2
  <1> HIDE DEF pids, done, f, seen, new, seals, us
  <1>7. done.a.parts = pids /\ done.a.seen = seen /\ done.a.completed = f
    BY <1>5 DEF Whole
  <1>8. /\ done.r.added = new /\ done.r.updates = us /\ done.r.sealed = seals
        /\ done.r.noMore = (last /\ seen \subseteq f)
    BY <1>6
  <1>9. /\ made \in TaskMap(D)
        /\ DOMAIN ts \subseteq D
        /\ \A p \in D, q \in Sources : IsInjective(made[p].splits[q]) /\ ToSet(made[p].splits[q]) = Those(st, F[q], p)
        /\ \A q \in e, p \in D : q \in made[p].known /\ q \in made[p].noMore
        /\ \A p \in D : made[p].known \subseteq a.seen
    <2>1. DOMAIN made = DOMAIN ts \cup ToSet(new)
      BY DEF Created
    <2>2. made = [p \in DOMAIN ts \cup ToSet(new) |-> IF p \in DOMAIN ts THEN ts[p] ELSE NewTask]
      BY DEF Created
    <2>3. ToSet(<<>>) = {} /\ IsInjective(<<>>)
      BY DEF ToSet, IsInjective
    <2> HIDE DEF made
    <2>4. CASE a.parts = <<>>
      <3>1. DOMAIN ts = {} /\ new = pids
        BY <1>2, <2>4 DEF new
      <3>2. made = [p \in D |-> NewTask]
        BY <1>4, <2>2, <3>1
      <3>3. NewTask \in TaskSet /\ \A q \in Sources : NewTask.splits[q] = <<>>
        BY DEF NewTask, TaskSet
      <3>4. \A p, q : q \in Sources => Those(st, F[q], p) = {}
        BY <1>2, <2>3, <2>4 DEF Those
      <3>5. e = {}
        BY <2>4 DEF Fixed, Reports
      <3>6. made \in TaskMap(D)
        BY <3>2, <3>3 DEF TaskMap
      <3>7. \A p \in D, q \in Sources : IsInjective(made[p].splits[q]) /\ ToSet(made[p].splits[q]) = Those(st, F[q], p)
        BY <2>3, <3>2, <3>3, <3>4
      <3>8. \A p \in D : made[p].known = {}
        BY <3>2 DEF NewTask
      <3> QED BY <3>1, <3>5, <3>6, <3>7, <3>8
    <2>5. CASE a.parts # <<>>
      <3>1. new = <<>> /\ ts \in TaskMap(D)
        BY <1>2, <2>5 DEF new
      <3>2. DOMAIN ts = D /\ ts = [p \in D |-> ts[p]]
        BY <3>1 DEF TaskMap
      <3>3. made = ts
        BY <2>2, <2>3, <3>1, <3>2
      <3> QED BY <1>2, <3>1, <3>2, <3>3 DEF Sorted
    <2> QED BY <2>4, <2>5
  <1> HIDE DEF made
  <1>10. /\ Reported(G)
         /\ \A y \in ToSet(F[s]) : y.seq \in 1..Len(F[s])
         /\ ToSet(G[s]) = ToSet(F[s]) \cup ToSet(batch)
         /\ \A q \in Sources \ {s} : G[q] = F[q]
    <2>1. \A i \in 1..Len(batch) : batch[i].source = s /\ batch[i].seq = Len(F[s]) + i
      BY DEF Numbered
    <2>2. F \in [Sources -> Seq(Splits)]
      BY <1>2 DEF Reported
    <2>3. G = [F EXCEPT ![s] = F[s] \o batch]
      BY DEF More
    <2>4. Reported(G)
      BY <1>2, <2>1, ReportedMore DEF More
    <2>5. \A y \in ToSet(F[s]) : y.seq \in 1..Len(F[s])
      BY <1>2, <2>1, ReportedMore
    <2>6. ToSet(F[s] \o batch) = ToSet(F[s]) \cup ToSet(batch)
      BY <2>2, JoinedSet
    <2> HIDE DEF G
    <2>7. G[s] = F[s] \o batch /\ \A q \in Sources \ {s} : G[q] = F[q]
      BY <2>2, <2>3
    <2> QED BY <2>4, <2>5, <2>6, <2>7
  <1>11. Ready(D, made, s, batch)
    <2>1. \A i \in 1..Len(batch) : batch[i].seq = Len(F[s]) + i
      BY DEF Numbered
    <2>2. Len(F[s]) \in Nat
      BY <1>2 DEF Reported
    <2>3. \A i, j \in 1..Len(batch) : i # j => batch[i].seq # batch[j].seq
      BY <2>1, <2>2
    <2>4. \A x \in ToSet(batch) : \E i \in 1..Len(batch) : x = batch[i]
      BY SetOfSeq
    <2>5. \A x \in ToSet(batch) : x.seq \notin 1..Len(F[s])
      BY <2>1, <2>2, <2>4
    <2>6. \A p \in D : ToSet(made[p].splits[s]) \subseteq ToSet(F[s])
      BY <1>9 DEF Those
    <2> QED BY <1>9, <1>10, <2>3, <2>5, <2>6 DEF Ready
  <1> DEFINE mid == ApplyAll(made, routed)
  <1>12. routed \in Seq(UpdateSet) /\ RoutedTo(st, D, made, mid, s, batch)
    <2>1. made \in TaskMap(Parts(st)) /\ Ready(Parts(st), made, s, batch)
      BY <1>9, <1>11 DEF D
    <2>2. routed \in Seq(UpdateSet)
      BY <2>1, EachRouted
    <2>3. RoutedTo(st, Parts(st), made, mid, s, batch)
      BY <2>1, EachRouted
    <2> QED BY <2>2, <2>3 DEF D
  <1> HIDE DEF routed, mid, G
  <1>13. /\ mid \in TaskMap(D)
         /\ \A p \in D :
              /\ IsInjective(mid[p].splits[s])
              /\ ToSet(mid[p].splits[s]) = ToSet(made[p].splits[s]) \cup Those(st, batch, p)
              /\ \A q \in Sources \ {s} : mid[p].splits[q] = made[p].splits[q]
              /\ made[p].known \subseteq mid[p].known /\ made[p].noMore \subseteq mid[p].noMore
              /\ mid[p].known \subseteq made[p].known \cup {s}
    BY <1>12 DEF RoutedTo
  <1> DEFINE V == ApplyAll(made, us)
  <1>14. /\ V \in TaskMap(D)
         /\ \A p \in D : /\ \A q \in Sources : V[p].splits[q] = mid[p].splits[q]
                         /\ mid[p].known \subseteq V[p].known /\ mid[p].noMore \subseteq V[p].noMore
                         /\ last => s \in V[p].known /\ s \in V[p].noMore
                         /\ V[p].known \subseteq mid[p].known \cup {s}
    <2>1. CASE ~last
      <3>1. V = mid
        BY <2>1 DEF us, mid
      <3> HIDE DEF V
      <3> QED BY <1>13, <2>1, <3>1
    <2>2. CASE last
      <3>1. n \in Nat /\ mid \in TaskMap(0..(n - 1))
        BY <1>1, <1>13
      <3>2. ends \in Seq(UpdateSet)
        BY <3>1, EndTold
      <3>3. ToldEnd(0..(n - 1), mid, ApplyAll(mid, ends), s)
        BY <3>1, EndTold
      <3> HIDE DEF ends
      <3>4. V = ApplyAll(mid, ends)
        BY <1>12, <2>2, <3>2, ApplyConcat DEF us, mid
      <3>5. ToldEnd(D, mid, V, s)
        BY <1>1, <3>3, <3>4
      <3> HIDE DEF V
      <3> QED BY <3>5 DEF ToldEnd
    <2> QED BY <2>1, <2>2
  <1> HIDE DEF V
  <1>15. DOMAIN V = D
    BY <1>14 DEF TaskMap
  <1>16. Sorted(st, V, G)
    <2>1. ASSUME NEW p \in D, NEW q \in Sources
          PROVE  IsInjective(V[p].splits[q]) /\ ToSet(V[p].splits[q]) = Those(st, G[q], p)
      <3>1. V[p].splits[q] = mid[p].splits[q]
        BY <1>14
      <3>2. CASE q = s
        <4>1. IsInjective(mid[p].splits[s])
          BY <1>13
        <4>2. ToSet(mid[p].splits[s]) = Those(st, F[s], p) \cup Those(st, batch, p)
          BY <1>9, <1>13
        <4>3. Those(st, F[s], p) \cup Those(st, batch, p) = Those(st, G[s], p)
          BY <1>10 DEF Those
        <4> QED BY <3>1, <3>2, <4>1, <4>2, <4>3
      <3>3. CASE q # s
        <4>1. mid[p].splits[q] = made[p].splits[q] /\ G[q] = F[q]
          BY <1>10, <1>13, <3>3
        <4> QED BY <1>9, <3>1, <4>1
      <3> QED BY <3>2, <3>3
    <2> QED BY <1>15, <2>1 DEF Sorted
  <1>17. \A q \in f, p \in D : q \in V[p].known /\ q \in V[p].noMore
    <2>1. \A q \in f : q \in e \/ (q = s /\ last)
      BY DEF f, EndedBy
    <2> QED BY <1>9, <1>13, <1>14, <2>1
  <1>23. seen = Reports(G, f)
    <2>1. F \in [Sources -> Seq(Splits)] /\ G = [F EXCEPT ![s] = F[s] \o batch]
      BY <1>2 DEF Reported, G, More
    <2>2. G[s] = F[s] \o batch /\ \A q \in Sources \ {s} : G[q] = F[q]
      BY <2>1
    <2>3. F[s] \in Seq(Splits) /\ (F[s] \o batch = <<>> <=> F[s] = <<>> /\ batch = <<>>)
      BY <2>1
    <2>4. s \in Reports(G, f)
      BY <2>2, <2>3 DEF Reports, f, EndedBy
    <2>5. \A q \in Sources \ {s} : q \in Reports(G, f) <=> q \in Reports(F, e)
      BY <2>2 DEF Reports, f, EndedBy
    <2>6. Reports(G, f) \subseteq Sources /\ Reports(F, e) \subseteq Sources
      BY <1>2 DEF Reports, f, EndedBy
    <2> QED BY <1>2, <2>4, <2>5, <2>6 DEF seen
  <1>18. sl \o seals \in Seq(Nat) /\ (Reports(G, f) \subseteq f => \A p \in D : p \in ToSet(sl \o seals))
    <2>1. seals \in Seq(Nat)
      BY <1>4 DEF seals
    <2>2. sl \o seals \in Seq(Nat)
      BY <1>2, <2>1
    <2>3. ASSUME Reports(G, f) \subseteq f, NEW p \in D PROVE p \in ToSet(sl \o seals)
      <3>1. last
        BY <1>3, <1>23, <2>3 DEF f, EndedBy, seen
      <3>2. seen \subseteq f
        BY <1>23, <2>3
      <3>3. seals = pids /\ p \in ToSet(seals)
        BY <1>4, <3>1, <3>2 DEF seals
      <3>4. PICK i \in 1..Len(seals) : seals[i] = p
        BY <2>1, <3>3, SetOfSeq
      <3> DEFINE all == sl \o seals
      <3>5. Len(sl) + i \in 1..Len(all) /\ all[Len(sl) + i] = p
        BY <1>2, <2>1, <3>4
      <3> HIDE DEF all
      <3>6. all \in Seq(Nat)
        BY <2>2 DEF all
      <3> QED BY <3>5, <3>6, SetOfSeq, ZenonT(40) DEF all
    <2> QED BY <2>2, <2>3
  <1>22. ToSet(sl \o seals) \subseteq D
    <2>1. seals \in Seq(Nat) /\ ToSet(seals) \subseteq D
      <3>1. ToSet(<<>>) = {} /\ <<>> \in Seq(Nat)
        BY DEF ToSet
      <3> QED BY <1>4, <3>1 DEF seals
    <2>2. ToSet(sl \o seals) = ToSet(sl) \cup ToSet(seals)
      BY <1>2, <2>1, JoinedSet
    <2> QED BY <1>2, <1>9, <2>1, <2>2
  <1>27. \A p \in D : V[p].known \subseteq Reports(G, f)
    <2>1. \A p \in D : V[p].known \subseteq seen
      BY <1>9, <1>13, <1>14 DEF seen
    <2> QED BY <1>23, <2>1
  <1>19. f \subseteq Sources /\ seen # {}
    BY <1>2 DEF f, seen, EndedBy
  <1>20. Fixed(st, done.a, V, sl \o seals, G, f)
    <2> DEFINE all == sl \o seals
    <2>1. pids # <<>> /\ done.a.parts = Pids(Width(st))
      BY <1>4, <1>7 DEF pids, n
    <2>2. V \in TaskMap(Parts(st))
      BY <1>14 DEF D
    <2> HIDE DEF all
    <2>3. all \in Seq(Nat) /\ ToSet(all) \subseteq D /\ (Reports(G, f) \subseteq f => \A p \in D : p \in ToSet(all))
      BY <1>18, <1>22 DEF all
    <2>4. Fixed(st, done.a, V, all, G, f)
      BY <1>7, <1>10, <1>15, <1>16, <1>17, <1>19, <1>23, <1>27, <2>1, <2>2, <2>3 DEF Fixed, pids
    <2> QED BY <2>4 DEF all
  <1>21. Created(ts, ToSet(done.r.added)) = made /\ ApplyAll(made, done.r.updates) = V /\ sl \o done.r.sealed = sl \o seals
    BY <1>8 DEF made, V
  <1>24. sl \o seals # sl <=> last /\ Reports(G, f) \subseteq f
    <2>1. pids \in Seq(Nat) /\ pids # <<>> /\ seals = IF last /\ Reports(G, f) \subseteq f THEN pids ELSE <<>>
      BY <1>4, <1>23 DEF seals
    <2>2. sl \o <<>> = sl
      BY <1>2
    <2>3. Len(sl \o pids) = Len(sl) + Len(pids) /\ Len(pids) \in Nat /\ Len(pids) # 0 /\ Len(sl) \in Nat
      BY <1>2, <2>1
    <2>4. sl \o pids # sl
      BY <2>3
    <2> QED BY <2>1, <2>2, <2>4
  <1>25. a.parts # <<>> => DOMAIN V = DOMAIN ts
    BY <1>2, <1>15 DEF TaskMap
  <1>26. done.a.parts # <<>> /\ done.r.noMore = (last /\ Reports(G, f) \subseteq f)
    BY <1>4, <1>7, <1>8, <1>23
  <1> QED BY <1>20, <1>21, <1>24, <1>25, <1>26 DEF done, G, f

-----------------------------------------------------------------------------
\* The invariant of the specification.
SplitInv ==
    /\ strategy \in Strategies
    /\ Broadcasting => PackingInv
    /\ ~Broadcasting =>
          /\ Fixed(strategy, assigner, tasks, sealed, fed, ended)
          /\ Whole(assigner)
          /\ assigner.target = MinTarget /\ assigner.counter = 0 /\ assigner.open = NoPart
          /\ Reports(fed, ended) \subseteq ended /\ Reports(fed, ended) # {} => noMorePartitions
          /\ noMorePartitions => assigner.parts # <<>>
    /\ noMorePartitions \in BOOLEAN

\* The invariant holds at the start,
LEMMA SplitInit == Init => SplitInv
  <1>1. SUFFICES ASSUME Init PROVE SplitInv
    OBVIOUS
  <1> DEFINE none == <<>>
             st == strategy
  <1>2. st \in Strategies
    BY <1>1 DEF Init
  <1>3. PackingInv
    BY <1>1, PackingInit
  <1>4. /\ assigner = NewAssigner /\ sealed = none /\ tasks = none /\ ended = {}
        /\ fed \in [Sources -> Seq(Splits)] /\ \A s \in Sources : fed[s] = none
        /\ noMorePartitions = FALSE
    BY <1>1 DEF Init
  <1>5. none \in Seq(Nat) /\ Len(none) = 0 /\ DOMAIN none = {}
    OBVIOUS
  <1>6. /\ assigner.parts = none /\ assigner.seen = {} /\ assigner.completed = {}
        /\ assigner.target = MinTarget /\ assigner.counter = 0 /\ assigner.open = NoPart
        /\ ToSet(none) = {}
    BY <1>4 DEF NewAssigner, ToSet
  <1>7. Whole(assigner)
    BY <1>4 DEF NewAssigner, Whole
  <1>8. Reported(fed)
    BY <1>3 DEF PackingInv, Packing
  <1> HIDE DEF st
  <1>10. Reports(fed, ended) = {}
    BY <1>4 DEF Reports
  <1>9. Fixed(st, assigner, tasks, sealed, fed, ended)
    BY <1>4, <1>5, <1>6, <1>8, <1>10 DEF Fixed, Sorted
  <1> QED BY <1>2, <1>3, <1>4, <1>6, <1>7, <1>9, <1>10 DEF SplitInv, st

\* A call leaves the fields of the packing assigner as they are.
Unpacked(a, b) == Whole(b) /\ b.target = a.target /\ b.counter = a.counter /\ b.open = a.open

\* as this says of each.
LEMMA FixedRecord ==
    ASSUME NEW a, NEW s, NEW routed, NEW last, NEW n, Whole(a)
    PROVE  Unpacked(a, AssignFixed(a, s, routed, last, n).a)
  <1> DEFINE pids == [i \in 1..n |-> i - 1]
             seen == a.seen \cup {s}
             completed == IF last THEN a.completed \cup {s} ELSE a.completed
             b == AssignFixed(a, s, routed, last, n).a
  <1>1. b = [a EXCEPT !.seen = seen, !.completed = completed, !.parts = pids]
    BY DEF AssignFixed
  <1> HIDE DEF b, pids, seen, completed
  <1>2. b = [target |-> a.target, counter |-> a.counter, open |-> a.open, parts |-> pids,
             broadcast |-> a.broadcast, seen |-> seen, completed |-> completed]
    BY <1>1 DEF Whole
  <1>3. b = [target |-> b.target, counter |-> b.counter, open |-> b.open, parts |-> b.parts,
             broadcast |-> b.broadcast, seen |-> b.seen, completed |-> b.completed]
    BY <1>2
  <1> QED BY <1>2, <1>3 DEF b, Unpacked, Whole

\* every call keeps it,
LEMMA SplitStep ==
    ASSUME SplitInv, NEW s \in Sources, NEW last \in BOOLEAN, NEW batch \in Batches(s), Feed(s, batch, last)
    PROVE  /\ SplitInv'
           /\ ~Broadcasting =>
                 /\ sealed' # sealed <=> ended' # ended /\ Reporters' \subseteq ended'
                 /\ noMorePartitions => added' = added
  <1>1. CASE Broadcasting
    <2>1. PackingInv'
      BY <1>1, PackingStep DEF SplitInv
    <2>2. strategy' = strategy
      BY DEF Feed
    <2>3. noMorePartitions' \in BOOLEAN
      BY <2>1 DEF PackingInv
    <2> QED BY <1>1, <2>1, <2>2, <2>3 DEF SplitInv, Broadcasting
  <1>2. CASE ~Broadcasting
    <2> DEFINE st == strategy
               a == assigner
               done == Call(st, a, s, batch, last)
               G == More(fed, s, batch)
               f == EndedBy(ended, s, last)
               V == ApplyAll(Created(tasks, ToSet(done.r.added)), done.r.updates)
    <2>1. st \in {"single", "hash"}
      BY <1>2, AssignerAssumption DEF SplitInv, Broadcasting
    <2>2. /\ Fixed(st, a, tasks, sealed, fed, ended)
          /\ Whole(a)
          /\ a.target = MinTarget /\ a.counter = 0 /\ a.open = NoPart
          /\ Reports(fed, ended) \subseteq ended /\ Reports(fed, ended) # {} => noMorePartitions
          /\ noMorePartitions => a.parts # <<>>
          /\ noMorePartitions \in BOOLEAN
      BY <1>2 DEF SplitInv
    <2>3. Assign(a, s, batch, last) = done
      <3>1. CASE st = "single"
        BY <3>1 DEF Assign, AssignSingle, Call, Routes, SingleUpdates, Width
      <3>2. CASE st = "hash"
        BY <3>2 DEF Assign, AssignHash, Call, Routes, HashUpdates, Width
      <3> QED BY <2>1, <3>1, <3>2
    <2> HIDE DEF a, st
    <2>4. /\ s \notin ended /\ assigner' = done.a /\ sealed' = sealed \o done.r.sealed
          /\ tasks' = V /\ fed' = G /\ ended' = f /\ strategy' = strategy
          /\ noMorePartitions' = (noMorePartitions \/ done.r.noMore)
          /\ batch # <<>> \/ last
      <3> HIDE DEF done
      <3> QED BY <2>3 DEF Feed, More, EndedBy, a
    <2>5. fed[s] \in Seq(Splits)
      BY <2>2 DEF Fixed, Reported
    <2>6. batch \in Seq(Splits) /\ Numbered(fed, s, batch)
      BY <2>5, BatchFacts
    <2>7. /\ Fixed(st, done.a, V, sealed \o done.r.sealed, G, f)
          /\ done.r.noMore = (last /\ Reports(G, f) \subseteq f)
          /\ sealed \o done.r.sealed # sealed <=> last /\ Reports(G, f) \subseteq f
          /\ done.a.parts # <<>>
          /\ a.parts # <<>> => DOMAIN V = DOMAIN tasks
      <3> HIDE DEF f, G
      <3>1. s \in Sources /\ s \notin ended /\ batch \in Seq(Splits) /\ Numbered(fed, s, batch) /\ last \in BOOLEAN
            /\ Whole(a) /\ (batch # <<>> \/ last)
        BY <2>2, <2>4, <2>6
      <3> QED BY <2>1, <2>2, <3>1, FixedStep, SMTT(60) DEF f, G
    <2> DEFINE b == done.a
    <2>8. Unpacked(a, b)
      BY <2>2, FixedRecord DEF Call
    <2>9. (ended' # ended <=> last) /\ s \in Reports(G, f) /\ (Reports(G, f) \subseteq f => last)
      <3>1. fed \in [Sources -> Seq(Splits)] /\ G = [fed EXCEPT ![s] = fed[s] \o batch]
        BY <2>2 DEF Fixed, Reported, More
      <3>2. G[s] = fed[s] \o batch
        BY <3>1
      <3>3. batch # <<>> => fed[s] \o batch # <<>>
        BY <2>5, <2>6
      <3> HIDE DEF G
      <3> QED BY <2>4, <3>2, <3>3 DEF Reports, EndedBy
    <2> HIDE DEF done, V, G, f
    <2>10. Reporters' = Reports(G, f)
      BY <2>4 DEF Reporters, Reports
    <2>11. /\ sealed' # sealed <=> ended' # ended /\ Reporters' \subseteq ended'
           /\ noMorePartitions => added' = added
      BY <2>2, <2>4, <2>7, <2>9, <2>10 DEF added
    <2>12. /\ Reports(G, f) \subseteq f => noMorePartitions'
           /\ noMorePartitions' \in BOOLEAN
      BY <2>2, <2>4, <2>7, <2>9
    <2> QED BY <1>2, <2>1, <2>2, <2>4, <2>7, <2>8, <2>11, <2>12 DEF SplitInv, Broadcasting, Unpacked, st
  <1> QED BY <1>1, <1>2

\* and so does a step that changes nothing.
LEMMA SplitStutter == SplitInv /\ UNCHANGED vars => SplitInv'
  BY DEF SplitInv, vars, Broadcasting, PackingInv

\* The invariant holds in every reachable state.
THEOREM SplitInvariant == Spec => []SplitInv
  <1>1. SplitInv /\ [Next]_vars => SplitInv'
    <2>1. ASSUME SplitInv, Next PROVE SplitInv'
      <3>1. PICK s \in Sources, last \in BOOLEAN : \E batch \in Batches(s) : Feed(s, batch, last)
        BY <2>1 DEF Next
      <3>2. PICK batch \in Batches(s) : Feed(s, batch, last)
        BY <3>1
      <3> QED BY <2>1, <3>2, SplitStep
    <2> QED BY <2>1, SplitStutter
  <1> QED BY SplitInit, <1>1, PTL DEF Spec

\* What follows for the single and the hash assigner: each split is in one task,
LEMMA FixedInOne ==
    ASSUME NEW st \in {"single", "hash"}, Fixed(st, assigner, tasks, sealed, fed, ended), st = strategy
    PROVE  EachSplitInOneTask
  <1> DEFINE n == Width(st)
  <1>1. n \in Nat \ {0} /\ Parts(st) = 0..(n - 1)
    BY AssignerAssumption DEF Width, Parts
  <1>2. SUFFICES ASSUME NEW s \in Sources, NEW x \in ToSet(fed[s])
                 PROVE  LET at == {p \in added : x \in ToSet(tasks[p].splits[s])}
                        IN  /\ \E p \in added : at = {p}
                            /\ strategy = "single" => at = {0}
                            /\ strategy = "hash" => at = {RouteOf(x)}
                            /\ \A p \in at : IsInjective(tasks[p].splits[s])
    BY DEF EachSplitInOneTask
  <1>3. assigner.parts # <<>>
    <2>1. ToSet(<<>>) = {}
      BY DEF ToSet
    <2> QED BY <2>1, <1>2 DEF Fixed
  <1>4. added = 0..(n - 1)
    BY <1>1, <1>3 DEF Fixed, TaskMap, added
  <1>5. \A p \in added : IsInjective(tasks[p].splits[s]) /\ ToSet(tasks[p].splits[s]) = Those(st, fed[s], p)
    BY DEF Fixed, Sorted, added
  <1>6. x \in Splits
    BY SetOfSeq DEF Fixed, Reported
  <1>7. Dest(st, x) \in 0..(n - 1)
    <2>1. CASE st = "hash"
      <3>1. NumPartitions \in Nat \ {0}
        BY AssignerAssumption
      <3>2. x.key \in Nat
        BY <1>6, <3>1 DEF Splits
      <3> QED BY <2>1, <3>1, <3>2 DEF Dest, RouteOf, Width
    <2>2. CASE st = "single"
      BY <2>2 DEF Dest, Width
    <2> QED BY <2>1, <2>2
  <1>8. {p \in added : x \in ToSet(tasks[p].splits[s])} = {Dest(st, x)}
    BY <1>2, <1>4, <1>5, <1>7 DEF Those
  <1>9. (strategy = "single" => Dest(st, x) = 0) /\ (strategy = "hash" => Dest(st, x) = RouteOf(x))
    BY DEF Dest
  <1> QED BY <1>4, <1>5, <1>7, <1>8, <1>9

\* the state has its types,
LEMMA FixedTypes ==
    ASSUME NEW st \in {"single", "hash"}, Fixed(st, assigner, tasks, sealed, fed, ended)
    PROVE  /\ ToSet(assigner.parts) = added
           /\ ToSet(sealed) \subseteq added
           /\ \A p \in added, s \in Sources : ToSet(tasks[p].splits[s]) \subseteq Splits
           /\ \A s \in Sources : fed[s] \in Seq(Splits)
           /\ ended \subseteq Sources
  <1> DEFINE n == Width(st)
             pids == Pids(n)
  <1>1. n \in Nat \ {0} /\ Parts(st) = 0..(n - 1)
    BY AssignerAssumption DEF Width, Parts
  <1>2. ToSet(assigner.parts) = added
    <2>1. CASE assigner.parts = <<>>
      <3>1. added = {} /\ ToSet(<<>>) = {}
        BY <2>1 DEF Fixed, added, ToSet
      <3> QED BY <2>1, <3>1
    <2>2. CASE assigner.parts # <<>>
      <3>1. assigner.parts = pids /\ tasks \in TaskMap(Parts(st))
        BY <2>2 DEF Fixed
      <3> HIDE DEF n
      <3>2. \A i \in 1..n : i - 1 \in Nat /\ i - 1 \in 0..(n - 1)
        BY <1>1
      <3>3. pids \in Seq(Nat) /\ Len(pids) = n /\ \A i \in 1..n : pids[i] = i - 1
        BY <1>1, <3>2 DEF Pids
      <3> HIDE DEF pids
      <3>4. ToSet(pids) = {pids[i] : i \in 1..n}
        BY <3>3, SetOfSeq
      <3>5. \A p \in 0..(n - 1) : p + 1 \in 1..n /\ (p + 1) - 1 = p
        BY <1>1
      <3>6. ToSet(pids) = 0..(n - 1)
        BY <3>2, <3>3, <3>4, <3>5
      <3> QED BY <1>1, <3>1, <3>6 DEF TaskMap, added
    <2> QED BY <2>1, <2>2
  <1>3. ToSet(sealed) \subseteq added /\ ended \subseteq Sources /\ \A s \in Sources : fed[s] \in Seq(Splits)
    BY DEF Fixed, added, Reported
  <1>4. \A p \in added, s \in Sources : ToSet(tasks[p].splits[s]) \subseteq Splits
    <2>1. \A p \in added, s \in Sources : ToSet(tasks[p].splits[s]) \subseteq ToSet(fed[s])
      BY DEF Fixed, Sorted, Those, added
    <2>2. \A s \in Sources : ToSet(fed[s]) \subseteq Splits
      BY <1>3, SetOfSeq
    <2> QED BY <2>1, <2>2
  <1> QED BY <1>2, <1>3, <1>4

\* and all partitions are sealed in the end.
LEMMA FixedSealed ==
    ASSUME NEW st \in {"single", "hash"}, Fixed(st, assigner, tasks, sealed, fed, ended), ~Broadcasting,
           Reports(fed, ended) \subseteq ended /\ Reports(fed, ended) # {} => noMorePartitions
    PROVE  SealedInTheEnd
  <1>1. Reporters = Reports(fed, ended)
    BY DEF Reporters, Reports
  <1>2. ASSUME Reporters \subseteq ended, NEW p \in added PROVE p \in ToSet(sealed) /\ IsSealed(tasks[p])
    <2>1. p \in ToSet(sealed) /\ \A s \in ended : s \in tasks[p].known /\ s \in tasks[p].noMore
      BY <1>1, <1>2 DEF Fixed, added
    <2>2. assigner.parts # <<>>
      BY <1>2 DEF Fixed, added
    <2>3. assigner.seen # {} /\ assigner.seen \subseteq ended /\ tasks \in TaskMap(Parts(st))
      BY <1>1, <1>2, <2>2 DEF Fixed
    <2>4. tasks[p].known \subseteq Reporters
      BY <1>1 DEF Fixed, added
    <2> QED BY <1>2, <2>1, <2>3, <2>4 DEF IsSealed
  <1> QED BY <1>1, <1>2 DEF SealedInTheEnd

-----------------------------------------------------------------------------
\* The state has its types.
THEOREM SplitTypes == Spec => []TypeOK
  <1>1. ASSUME SplitInv PROVE TypeOK
    <2>1. CASE Broadcasting
      BY <1>1, <2>1, PackedTypes DEF SplitInv, TypeOK
    <2>2. CASE ~Broadcasting
      <3> DEFINE st == strategy
      <3>1. st \in {"single", "hash"} /\ Fixed(st, assigner, tasks, sealed, fed, ended)
        BY <1>1, <2>2, AssignerAssumption DEF SplitInv, Broadcasting
      <3> HIDE DEF st
      <3>2. /\ ToSet(assigner.parts) = added
            /\ ToSet(sealed) \subseteq added
            /\ \A p \in added, s \in Sources : ToSet(tasks[p].splits[s]) \subseteq Splits
            /\ \A s \in Sources : fed[s] \in Seq(Splits)
            /\ ended \subseteq Sources
        BY <3>1, FixedTypes
      <3>3. MinTarget \in MinTarget..MaxTarget /\ 0 \in 0..(GrowthPeriod - 1)
        BY AssignerAssumption
      <3> QED BY <1>1, <2>2, <3>2, <3>3 DEF SplitInv, TypeOK
    <2> QED BY <2>1, <2>2
  <1> QED BY SplitInvariant, <1>1, PTL

\* However the splits of several sources interleave, each is in one task, once.
THEOREM SplitsCorrect == Spec => []EachSplitInOneTask
  <1>1. SplitInv => EachSplitInOneTask
    BY PackedInOne, FixedInOne, AssignerAssumption DEF SplitInv, Broadcasting
  <1> QED BY SplitInvariant, <1>1, PTL

\* A partition of the packing assigner has all that was broadcast.
THEOREM BroadcastCorrect == Spec => []BroadcastReachesAll
  <1>1. SplitInv => BroadcastReachesAll
    BY PackedReaches DEF SplitInv, BroadcastReachesAll
  <1> QED BY SplitInvariant, <1>1, PTL

\* Packing keeps to the bounds.
THEOREM BoundsCorrect == Spec => []PackedWithinBounds
  <1>1. SplitInv => PackedWithinBounds
    BY PackedWithin DEF SplitInv, PackedWithinBounds
  <1> QED BY SplitInvariant, <1>1, PTL

\* Every partition is sealed in the end - with the single and hash assigners
\* whenever all that reported have ended - and by the packing assigner once.
THEOREM SealedCorrect == Spec => []SealedInTheEnd
  <1>1. SplitInv => SealedInTheEnd
    BY PackedSealed, FixedSealed, AssignerAssumption DEF SplitInv, Broadcasting
  <1> QED BY SplitInvariant, <1>1, PTL

\* A partition the packing assigner sealed gets no further split of its own; the
\* other two seal exactly when the last of those that reported ends.
THEOREM SealsCorrect == Spec => SealsFollowTheEnds
  <1> DEFINE Packs == \A p \in ToSet(sealed) : Own(p)' = Own(p)
             Follows == /\ sealed' # sealed <=> ended' # ended /\ Reporters' \subseteq ended'
                        /\ noMorePartitions => added' = added
  <1>1. SplitInv /\ [Next]_vars => [(Broadcasting => Packs) /\ (~Broadcasting => Follows)]_vars
    <2>1. ASSUME SplitInv, Next PROVE (Broadcasting => Packs) /\ (~Broadcasting => Follows)
      <3>1. PICK s \in Sources, last \in BOOLEAN : \E batch \in Batches(s) : Feed(s, batch, last)
        BY <2>1 DEF Next
      <3>2. PICK batch \in Batches(s) : Feed(s, batch, last)
        BY <3>1
      <3>3. Broadcasting => Packs
        BY <2>1, <3>2, PackingStep DEF SplitInv
      <3>4. ~Broadcasting => Follows
        BY <2>1, <3>2, SplitStep
      <3> QED BY <3>3, <3>4
    <2> QED BY <2>1
  <1> QED BY SplitInvariant, <1>1, PTL DEF Spec, SealsFollowTheEnds
=============================================================================
