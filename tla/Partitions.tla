----------------------------- MODULE Partitions -----------------------------
(***************************************************************************)
(* How the driver cuts rows, files or fragments into contiguous slices.    *)
(***************************************************************************)
EXTENDS Integers, SequencesExt

\* ceil(rows / n) rows to a slice; the last slices may be missing, never empty.
PartitionPlan(rows, n) ==
    LET step == (rows + n - 1) \div n
    IN IF rows = 0 THEN <<<<1, 0>>>>
       ELSE [i \in 1..((rows + step - 1) \div step) |->
                <<(i - 1) * step + 1, Min({i * step, rows})>>]
Slices(t, n) ==
    LET plan == PartitionPlan(Len(t), n)
    IN [i \in DOMAIN plan |-> SubSeq(t, plan[i][1], plan[i][2])]
=============================================================================
