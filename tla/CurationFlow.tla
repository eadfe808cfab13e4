---------------------------- MODULE CurationFlow ----------------------------
(***************************************************************************)
(* CurationFlow (python/jude/curate_flow.py): a list of operators applied  *)
(* one after the other to a corpus, with a funnel that records how many    *)
(* rows entered and left each.  A flow may be run again.                   *)
(***************************************************************************)
EXTENDS DistCuration

CONSTANTS
    Cases,         \* the corpora and the operators added to a flow over each
    MaxRuns        \* times a flow is run (a bound for checking)

\* A case is a table of documents and the names of operators.
ASSUME CasesAssumption == \A c \in Cases : c.table \in Seq(Document) /\ c.steps \in Seq(STRING)

VARIABLES
    table,         \* the corpus of the flow
    steps,         \* the operators, in order
    popped,        \* steps whose benchmark_texts an earlier run took out
    phase,         \* built | running | done | raised
    tbl,           \* the table between two operators
    funnel,        \* one record per operator that ran
    runs           \* times run() was called

flowVars == <<table, steps, popped, phase, tbl, funnel, runs>>

Applied(op, t) ==
    CASE op = "exact_dedup" -> Take(t, ExactKept(t))
      [] op = "fuzzy_dedup" -> Take(t, Kept(FuzzyReps(t)))
      [] op = "semantic_dedup" -> Take(t, Kept(SemanticReps(t)))
      [] op = "image_dedup" -> Take(t, Kept(ImageReps(t)))
      [] op = "quality_filter" -> Take(t, QualityKept(t))
      [] op = "language_filter" -> Take(t, LanguageKept(t))
      [] op = "decontaminate" -> Take(t, CleanKept(t))
      [] op = "chunk_text" -> ChunkText(t)
      [] op = "c4_line_filter" -> C4Filter(t)
      [] op = "corpus_line_dedup" -> CorpusLineDedup(t)
      [] op = "substring_dedup" -> SubstringDedup(t)
      [] OTHER -> t               \* columns are added, rows and texts stay
Droppers == {"exact_dedup", "fuzzy_dedup", "semantic_dedup", "image_dedup",
             "quality_filter", "language_filter", "decontaminate"}
LineOps == {"c4_line_filter", "corpus_line_dedup"}

FlowInit ==
    /\ \E c \in Cases : table = c.table /\ steps = c.steps
    /\ popped = {} /\ phase = "built" /\ tbl = table /\ funnel = <<>> /\ runs = 0

\* run(): starts from the corpus, with an empty funnel.
Run ==
    /\ phase \in {"built", "done", "raised"} /\ runs < MaxRuns
    /\ phase' = "running" /\ tbl' = table /\ funnel' = <<>> /\ runs' = runs + 1
    /\ UNCHANGED <<table, steps, popped>>

At == Len(funnel) + 1
\* kwargs.pop("benchmark_texts") takes the argument out of the step itself.
LosesArgument == IF steps[At] = "decontaminate" THEN {At} ELSE {}
\* Mutant: rows_in is read from the corpus.
EntryFromStart(op, rowsIn, rowsOut) == 
    [op |-> op, rowsIn |-> Len(table), rowsOut |-> rowsOut, dropped |-> Len(table) - rowsOut]
Entry(op, rowsIn, rowsOut) ==
    [op |-> op, rowsIn |-> rowsIn, rowsOut |-> rowsOut, dropped |-> rowsIn - rowsOut]
Step ==
    /\ phase = "running" /\ At <= Len(steps) /\ At \notin popped
    /\ tbl' = Applied(steps[At], tbl)
    /\ funnel' = Append(funnel, Entry(steps[At], Len(tbl), Len(tbl')))
    /\ popped' = popped \cup LosesArgument
    /\ UNCHANGED <<table, steps, phase, runs>>
Raise ==
    /\ phase = "running" /\ At \in popped
    /\ phase' = "raised"
    /\ UNCHANGED <<table, steps, popped, tbl, funnel, runs>>
Finish ==
    /\ phase = "running" /\ At > Len(steps)
    /\ phase' = "done"
    /\ UNCHANGED <<table, steps, popped, tbl, funnel, runs>>

FlowNext == Run \/ Step \/ Raise \/ Finish
FlowSpec == FlowInit /\ [][FlowNext]_flowVars

-----------------------------------------------------------------------------
IsPermutationOf(s, t) == \A d \in Range(s) \cup Range(t) :
    Cardinality({i \in DOMAIN s : s[i] = d}) = Cardinality({i \in DOMAIN t : t[i] = d})

\* Every table the first run hands to an operator.
Watched == phase = "running" /\ runs = 1

(* Every distributed operator answers as the single node does: the same    *)
(* documents survive an exact dedup, the same representatives come out of  *)
(* the fuzzy and the image dedup, the same words of a substring dedup,     *)
(* row-wise operators keep even the order, and a shuffle is a permutation. *)
(* Exceptions, which the code has: NULL texts are near-duplicates of each  *)
(* other on one node only, and beyond HotCap rows a band may miss links    *)
(* (but never adds one); line breaks may differ (README, divergences).      *)
ExactAgrees == Range(DistExactDedup(tbl)) = Range(Take(tbl, ExactKept(tbl)))
Nulls == {i \in Rows(tbl) : tbl[i].text = NULL}
FuzzyAgrees ==
    LET single == FuzzyReps(tbl)
        dist == DistFuzzyReps(tbl)
    IN IF IsHot(tbl) THEN \A i \in Rows(tbl) : single[dist[i]] = single[i]
       ELSE \A i \in Rows(tbl) : dist[i] = IF i \in Nulls THEN i ELSE single[i]
DistributedAgrees == Watched =>
    /\ ExactAgrees
    /\ FuzzyAgrees
    /\ DistImageReps(tbl) = ImageReps(tbl)
    /\ LET dist == DistSubstringDedup(tbl)
           single == SubstringDedup(tbl)
       IN \A i \in Rows(tbl) : Words(dist[i].text) = Words(single[i].text)
    /\ \A op \in {"quality_filter", "language_filter", "chunk_text"} :
          DistMap(tbl, LAMBDA part : Applied(op, part)) = Applied(op, tbl)
    /\ IsPermutationOf(DistGlobalShuffle(tbl), tbl)

(* Semantic dedup keeps no two rows within the threshold of each other and *)
(* drops a row only for an earlier survivor within it ("it does NOT chain  *)
(* A~B~C into one cluster"); inside clusters, whatever the clusters are,   *)
(* the second half holds.                                                  *)
Near(i, j) == tbl[i].emb # NULL /\ tbl[j].emb # NULL /\ Angle(tbl[i].emb, tbl[j].emb) <= MaxAngle
DropsForSurvivor(reps) ==
    \A i \in Rows(tbl) : reps[i] # i => reps[reps[i]] = reps[i] /\ reps[i] < i /\ Near(reps[i], i)
SurvivorsApart == Watched =>
    LET reps == SemanticReps(tbl)
    IN /\ DropsForSurvivor(reps)
       /\ \A e \in Pairs(Kept(reps)) : ~Near(e[1], e[2])
       /\ \A cluster \in [Rows(tbl) -> {1, 2}] : DropsForSurvivor(ClusteredReps(tbl, cluster))

(* An operator that ran once finds nothing more to do: running it again on  *)
(* its own output changes nothing.  (A substring dedup may: the words left  *)
(* close up and form new spans.)                                            *)
SecondPassIsIdle ==
    [][ At' = At + 1 /\ steps[At] \in Droppers \cup LineOps => Applied(steps[At], tbl') = tbl' ]_flowVars

(* The funnel adds up: it starts from the corpus, each operator receives    *)
(* what the previous one left, and sample_dropped finds as many rows as it  *)
(* counts as dropped, of every text as many as it lost - texts, not rows:   *)
(* of two rows with one text it may report the one that was kept.  A run    *)
(* that is over went through every operator, unless it raised: at a         *)
(* decontamination, and never on the first run.                             *)
Copies(t, key) == {i \in Rows(t) : TextKey(t[i]) = key}
SampleIsRight(after) ==
    LET lost == Dropped(tbl, after)
    IN /\ Cardinality(lost) = Len(tbl) - Len(after)
       /\ \A i \in Rows(tbl) :
             LET key == TextKey(tbl[i])
             IN Cardinality(lost \cap Copies(tbl, key))
                   = Cardinality(Copies(tbl, key)) - Cardinality(Copies(after, key))
FunnelAddsUp ==
    /\ \A n \in DOMAIN funnel :
          funnel[n].rowsIn = IF n = 1 THEN Len(table) ELSE funnel[n - 1].rowsOut
    /\ phase \in {"running", "done"} => Len(tbl) = IF funnel = <<>> THEN Len(table) ELSE Last(funnel).rowsOut
    /\ phase = "done" => Len(funnel) = Len(steps)
    /\ phase = "raised" => runs > 1 /\ steps[At] = "decontaminate"
    /\ Watched => \A op \in Droppers : SampleIsRight(Applied(op, tbl))
=============================================================================
