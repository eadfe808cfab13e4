----------------------------- MODULE HashIndex ------------------------------
(***************************************************************************)
(* incremental_dedup (python/jude/incremental_dedup.py): every run loads   *)
(* the index of content hashes, keeps the documents of its dump that are   *)
(* not in it, overwrites the index and hands the novel documents to its    *)
(* caller.  A run may crash between any two steps; its dump is then given  *)
(* to a later run again, or is not.  Reading an index that exists may fail: *)
(* the run then goes on as if there were none.                              *)
(***************************************************************************)
EXTENDS Integers, Sequences

CONSTANTS
    Hashes,         \* content hashes
    NULL,           \* the hash of a document without text
    Dumps,          \* the dumps: sequences of the hashes of their documents
    Processes,      \* where runs happen
    Overlap,        \* whether two runs may overlap
    MaxRuns         \* bound for checking

ASSUME IndexAssumption ==
    /\ NULL \notin Hashes /\ Dumps \subseteq Seq(Hashes \cup {NULL})
    /\ Overlap \in BOOLEAN /\ MaxRuns \in Nat

VARIABLES
    saved,          \* the index on disk: a set of hashes
    run,            \* process -> its run
    handed,         \* history: the documents handed to callers
    failures,       \* history: the loads that read nothing of an index that holds something
    runsBegun

indexVars == <<saved, run, handed, failures, runsBegun>>

Idle == [at |-> "idle", id |-> 0, after |-> 0, dump |-> <<>>, seen |-> {}, keep |-> {}]

IndexInit ==
    /\ saved = {} /\ handed = {} /\ failures = 0 /\ runsBegun = 0
    /\ run = [p \in Processes |-> Idle]

(* HashIndex(path): load() gives an empty index when there is none, and    *)
(* when the one there is cannot be read.                                   *)
Begin(p, seen) ==
    /\ run[p].at = "idle" /\ runsBegun < MaxRuns
    /\ ~Overlap => \A q \in Processes : run[q].at = "idle"
    /\ runsBegun' = runsBegun + 1
    /\ \E d \in Dumps :
          run' = [run EXCEPT ![p] = [at |-> "loaded", id |-> runsBegun', after |-> failures',
                                     dump |-> d, seen |-> seen, keep |-> {}]]
    /\ UNCHANGED <<saved, handed>>
Load(p) == failures' = failures /\ Begin(p, saved)
LoadFails(p) == saved # {} /\ failures' = failures + 1 /\ Begin(p, {})

\* add(): documents without text are dropped, the first of equal ones is kept.
\* Mutant: the hashes of the dump join the index after it was filtered.
KeptByIndex(seen, dump) == {i \in DOMAIN dump : dump[i] \notin seen \cup {NULL}}
Kept(seen, dump) ==
    {i \in DOMAIN dump : dump[i] \notin seen \cup {NULL} /\ \A j \in DOMAIN dump : dump[j] = dump[i] => i <= j}
Known(p, h) == h # NULL /\ h \in run[p].seen
Add(p) ==
    /\ run[p].at = "loaded"
    /\ LET keep == Kept(run[p].seen, run[p].dump)
           seen == run[p].seen \cup {run[p].dump[i] : i \in keep}
       IN run' = [run EXCEPT ![p] = [run[p] EXCEPT !.at = "added", !.seen = seen, !.keep = keep]]
    /\ UNCHANGED <<saved, handed, failures, runsBegun>>

\* save() overwrites the dataset.
Save(p) ==
    /\ run[p].at = "added"
    /\ saved' = run[p].seen
    /\ run' = [run EXCEPT ![p].at = "saved"]
    /\ UNCHANGED <<handed, failures, runsBegun>>
Document(r, i) == [run |-> r.id, after |-> r.after, row |-> i, hash |-> r.dump[i]]
Deliver(p) ==
    /\ run[p].at = "saved"
    /\ handed' = handed \cup {Document(run[p], i) : i \in run[p].keep}
    /\ run' = [run EXCEPT ![p] = Idle]
    /\ UNCHANGED <<saved, failures, runsBegun>>
Crash(p) ==
    /\ run[p].at # "idle"
    /\ run' = [run EXCEPT ![p] = Idle]
    /\ UNCHANGED <<saved, handed, failures, runsBegun>>

IndexNext == \E p \in Processes : Load(p) \/ LoadFails(p) \/ Add(p) \/ Save(p) \/ Deliver(p) \/ Crash(p)
IndexSpec == IndexInit /\ [][IndexNext]_indexVars

-----------------------------------------------------------------------------
Runs == [at : {"idle", "loaded", "added", "saved"}, id : Nat, after : Nat, dump : Seq(Hashes \cup {NULL}),
         seen : SUBSET Hashes, keep : SUBSET Nat]
IndexTypeOK ==
    /\ saved \in SUBSET Hashes
    /\ run \in [Processes -> Runs]
    /\ handed \subseteq [run : Nat, after : Nat, row : Nat, hash : Hashes]
    /\ failures \in Nat
    /\ runsBegun \in Nat

(* A content is handed out once, whatever is in the dumps and wherever a   *)
(* run crashed, until a load cannot read the index that is there: of two    *)
(* documents with one content, a load failed between the runs that handed  *)
(* them out.  What was handed out since the last such load is in the index *)
(* on disk and known to every run that is not over.  (Runs that overlap do *)
(* not have it: the later save forgets the hashes of the earlier one.)      *)
KeptOnce ==
    /\ \A d, e \in handed : d.hash = e.hash /\ d.after = e.after => d = e
    /\ \A d \in handed : d.after = failures =>
          /\ d.hash \in saved \ {NULL}
          /\ \A p \in Processes : run[p].at # "idle" => Known(p, d.hash)

(* What makes it inductive: one run at a time, which no failed load came   *)
(* after, whose index on disk is its own once it saved, and whose novel    *)
(* documents are distinct and new since the last load that failed.         *)
Alone == \A p, q \in Processes : run[p].at # "idle" /\ run[q].at # "idle" => p = q
Fresh(p) ==
    /\ \A i, j \in run[p].keep : run[p].dump[i] = run[p].dump[j] => i = j
    /\ \A i \in run[p].keep : /\ run[p].dump[i] \in run[p].seen \ {NULL}
                              /\ \A d \in handed : d.after = failures => d.hash # run[p].dump[i]
IndexInv ==
    /\ KeptOnce /\ Alone
    /\ \A d \in handed : d.after <= failures
    /\ \A p \in Processes : /\ Fresh(p)
                            /\ run[p].at # "idle" => run[p].after = failures
                            /\ run[p].at = "saved" => saved = run[p].seen
                            /\ run[p].at \in {"idle", "loaded"} => run[p].keep = {}
=============================================================================
