------------------------------ MODULE Observe -------------------------------
(***************************************************************************)
(* Observability (python/jude/observe.py over the registry of observe.rs): *)
(* threads run queries and curation operators inside context managers that *)
(* record their outcome in a bounded registry and, for queries, in a       *)
(* durable audit log; daemon threads poll the cluster until they are told  *)
(* to stop.  A registry call is atomic (one mutex).  Times are left out.   *)
(***************************************************************************)
EXTENDS Integers, Sequences, FiniteSets, Functions

CONSTANTS
    Threads,          \* threads that run queries
    RowCounts,        \* rows an operator may take in or give back
    MaxQueries,       \* finished queries are evicted beyond this (200 in the code)
    ResetInFlight,    \* whether reset() is called while queries run
    Together,         \* whether queries and pollers, which share no state, interleave
    MaxStarted, MaxStages, MaxToggles, MaxPollers     \* bounds for checking

ASSUME ObserveAssumption ==
    /\ RowCounts \subseteq Nat
    /\ MaxQueries \in Nat
    /\ ResetInFlight \in BOOLEAN /\ Together \in BOOLEAN
    /\ {MaxStarted, MaxStages, MaxToggles, MaxPollers} \subseteq Nat

VARIABLES
    seq,              \* ids handed out since the last reset
    queries,          \* records of the registry, in order
    stages,           \* stage records
    audit,            \* records of the audit log
    auditOn, toggles, \* _AUDIT_ENABLED, times it or the registry was switched
    handle,           \* thread -> the handle of its context manager, or NoHandle
    ended,            \* history: how every context manager was left
    started,          \* context managers entered
    events, loops,    \* per poller: its stop event, where its thread is
    poller, current   \* _POLLER and _POLLER_STOP, 0 for None

registryVars == <<seq, queries, stages, audit, auditOn, toggles, handle, ended, started>>
pollerVars == <<events, loops, poller, current>>
vars == <<registryVars, pollerVars>>

NoHandle == [h |-> 0, id |-> 0, kind |-> "none", rowsIn |-> 0, rowsOut |-> 0, done |-> FALSE]
Ids == {queries[i].id : i \in DOMAIN queries}
SetQuery(id, status, rows, bytes) ==
    [i \in DOMAIN queries |->
        IF queries[i].id = id THEN [queries[i] EXCEPT !.status = status, !.rows = rows, !.bytes = bytes]
        ELSE queries[i]]

(* trim_queries: running queries first, then the last finished ones that   *)
(* fit, last in the order of the records.  Evicted queries lose their      *)
(* stages.                                                                  *)
\* The records at the positions in S.
Picked(qs, S) ==
    LET took[i \in 0..Len(qs)] ==
            IF i = 0 THEN <<>> ELSE IF i \in S THEN Append(took[i - 1], qs[i]) ELSE took[i - 1]
    IN  took[Len(qs)]
RunningAt(qs) == {i \in DOMAIN qs : qs[i].status = "running"}
FinishedAt(qs) == DOMAIN qs \ RunningAt(qs)
Monus(a, b) == IF a > b THEN a - b ELSE 0          \* saturating_sub
Newest(qs, n) == SubSeq(qs, Monus(Len(qs), n) + 1, Len(qs))
\* Mutant: the oldest records go, whatever their status.
TrimAny(qs) == Newest(qs, MaxQueries)
Trim(qs) ==
    LET running == Picked(qs, RunningAt(qs))
        finished == Picked(qs, FinishedAt(qs))
    IN  IF Len(qs) <= MaxQueries THEN qs
        ELSE running \o Newest(finished, Monus(MaxQueries, Len(running)))
Evicted(qs) == {qs[i].id : i \in DOMAIN qs} \ {Trim(qs)[i].id : i \in DOMAIN Trim(qs)}
Report(id, status, rows, bytes) ==
    LET qs == SetQuery(id, status, rows, bytes)
    IN /\ queries' = Trim(qs)
       /\ stages' = {s \in stages : s.query \notin Evicted(qs)}

-----------------------------------------------------------------------------
Init ==
    /\ seq = 0 /\ queries = <<>> /\ stages = {} /\ audit = <<>> /\ auditOn = TRUE /\ toggles = 0
    /\ handle = [t \in Threads |-> NoHandle] /\ ended = {} /\ started = 0
    /\ events = <<>> /\ loops = <<>> /\ poller = 0 /\ current = 0

\* query(...) and curate(...): a record, then the body runs.
Enter(t) ==
    /\ handle[t] = NoHandle /\ started < MaxStarted /\ (Together \/ events = <<>>)
    /\ \E n \in {0} \cup RowCounts :
          handle' = [handle EXCEPT ![t] = [h |-> started + 1, id |-> seq + 1,
                                           kind |-> IF n = 0 THEN "query" ELSE "curate",
                                           rowsIn |-> n, rowsOut |-> n, done |-> FALSE]]
    /\ queries' = Append(queries, [id |-> seq + 1, kind |-> handle'[t].kind, status |-> "running",
                                   rows |-> 0, bytes |-> 0])
    /\ seq' = seq + 1 /\ started' = started + 1
    /\ UNCHANGED <<stages, audit, auditOn, toggles, ended, pollerVars>>

\* stage(): recorded even when the query it names is gone.
OpenStage(t) ==
    /\ handle[t].kind = "query" /\ Cardinality(stages) < MaxStages
    /\ stages' = stages \cup {[id |-> seq + 1, query |-> handle[t].id, late |-> handle[t].done]}
    /\ seq' = seq + 1
    /\ UNCHANGED <<queries, audit, auditOn, toggles, handle, ended, started, pollerVars>>

(* _QueryHandle.done and .error: the first one counts, and is persisted.   *)
(* Whoever ends a handle removes it from its thread.                        *)
Persisted(h, status, rows) == IF auditOn THEN Append(audit, [h |-> h, status |-> status, rows |-> rows]) ELSE audit
\* Mutant: the handle does not remember that it reported.
NeverReported(x) == FALSE
Reported(x) == x.done
Settle(x, status, rows) ==
    IF Reported(x) THEN UNCHANGED <<queries, stages, audit>>
    ELSE /\ Report(x.id, status, rows, IF x.kind = "curate" THEN x.rowsIn ELSE 0)
         /\ audit' = IF x.kind = "query" THEN Persisted(x.h, status, rows) ELSE audit
EndedAs(x, status, rows) == [h |-> x.h, id |-> x.id, kind |-> x.kind, status |-> status, rows |-> rows,
                             rowsIn |-> x.rowsIn, audited |-> auditOn]

\* q.done(rows) inside the body, or c.done(rows_out), which only keeps the number.
DoneInBody(t) ==
    /\ handle[t] # NoHandle
    /\ \E n \in RowCounts :
          IF handle[t].kind = "query"
          THEN /\ ~handle[t].done
               /\ Settle(handle[t], "done", n)
               /\ handle' = [handle EXCEPT ![t].done = TRUE]
               /\ ended' = ended \cup {EndedAs(handle[t], "done", n)}
          ELSE /\ handle' = [handle EXCEPT ![t].rowsOut = n]
               /\ UNCHANGED <<queries, stages, audit, ended>>
    /\ UNCHANGED <<seq, auditOn, toggles, started, pollerVars>>

\* The body ends or raises: __exit__ reports unless the body did.
Leave(t) ==
    /\ handle[t] # NoHandle
    /\ \E status \in {"done", "error"} :
          LET x == handle[t]
              rows == IF x.kind = "curate" /\ status = "done" THEN x.rowsOut ELSE 0
          IN /\ IF status = "error" /\ x.kind = "curate"
                THEN Report(x.id, "error", 0, 0) /\ audit' = audit
                ELSE Settle(x, status, rows)
             /\ ended' = IF x.done THEN ended ELSE ended \cup {EndedAs(x, status, rows)}
    /\ handle' = [handle EXCEPT ![t] = NoHandle]
    /\ UNCHANGED <<seq, auditOn, toggles, started, pollerVars>>

SetAuditEnabled ==
    /\ toggles < MaxToggles
    /\ auditOn' = ~auditOn /\ toggles' = toggles + 1
    /\ UNCHANGED <<seq, queries, stages, audit, handle, ended, started, pollerVars>>
\* reset() also restarts the ids.
Reset ==
    /\ toggles < MaxToggles /\ toggles' = toggles + 1
    /\ ResetInFlight \/ \A t \in Threads : handle[t] = NoHandle
    /\ seq' = 0 /\ queries' = <<>> /\ stages' = {}
    /\ ended' = {[e EXCEPT !.id = 0] : e \in ended}
    /\ UNCHANGED <<audit, auditOn, handle, started, pollerVars>>

-----------------------------------------------------------------------------
\* start_node_poller does nothing while the poller it knows is alive.
StartPoller ==
    /\ Len(events) < MaxPollers /\ (Together \/ started = 0)
    /\ poller # 0 => loops[poller].at = "ended"
    /\ events' = Append(events, FALSE)
    /\ current' = Len(events')
    /\ loops' = Append(loops, [at |-> "check", on |-> 0])
    /\ poller' = Len(loops')
    /\ UNCHANGED registryVars
\* Mutant: the poller is forgotten without telling it.
EventsUntouched == events
EventsAfterStop == IF current = 0 THEN events ELSE [events EXCEPT ![current] = TRUE]
StopPoller ==
    /\ poller # 0
    /\ events' = EventsAfterStop
    /\ poller' = 0
    /\ UNCHANGED <<loops, current, registryVars>>
(* The thread reads the global event at every turn: it checks it, polls,   *)
(* then waits on the event that is global when the wait begins.            *)
PollerStep(i) ==
    /\ loops' = [loops EXCEPT ![i] =
          CASE @.at = "check" -> [at |-> IF events[current] THEN "ended" ELSE "poll", on |-> 0]
            [] @.at = "poll" -> [at |-> "wait", on |-> current]
            [] OTHER -> [at |-> "check", on |-> 0]]
    /\ loops[i].at # "ended"
    /\ UNCHANGED <<events, poller, current, registryVars>>

PollerThread == \E i \in DOMAIN loops : PollerStep(i)
Next ==
    \/ \E t \in Threads : Enter(t) \/ OpenStage(t) \/ DoneInBody(t) \/ Leave(t)
    \/ SetAuditEnabled \/ Reset \/ StartPoller \/ StopPoller \/ PollerThread
\* The interpreter runs every daemon thread again and again.
Spec == Init /\ [][Next]_vars /\ \A i \in 1..MaxPollers : WF_vars(i \in DOMAIN loops /\ PollerStep(i))

-----------------------------------------------------------------------------
(* summary(): the rows that curation removed, from the records' bytes and  *)
(* rows: max(0, rows in - rows out).                                        *)
CurateAt == {i \in DOMAIN queries : queries[i].kind = "curate"}
Removed == Monus(SumFunction([i \in CurateAt |-> queries[i].bytes]), SumFunction([i \in CurateAt |-> queries[i].rows]))

(* What is recorded is what happened: the audit log has one record of each *)
(* query that ended while it was on, with the first outcome, and none of a *)
(* curation operator; a record left in the registry tells the outcome of   *)
(* the handle that has its id, and the rows that summary() calls removed   *)
(* are what its finished operators dropped less what others of them added, *)
(* none if they added more.                                                *)
OutcomesRecorded ==
    /\ \A i \in DOMAIN audit : \E e \in ended :
          /\ e.h = audit[i].h /\ e.kind = "query" /\ e.status = audit[i].status /\ e.rows = audit[i].rows
          /\ \A j \in DOMAIN audit : j # i => audit[j].h # audit[i].h
    /\ \A e \in ended : e.kind = "query" /\ e.audited => \E i \in DOMAIN audit : audit[i].h = e.h
    /\ \A i \in DOMAIN queries, e \in ended :
          queries[i].id = e.id => queries[i].status = e.status /\ queries[i].rows = e.rows
    /\ LET finished == {e \in ended : e.kind = "curate" /\ e.status = "done" /\ e.id \in Ids}
       IN Removed = Monus(SumFunction([e \in finished |-> e.rowsIn - e.rows]), 0)

(* No live query is ever evicted, however full the registry is, eviction   *)
(* keeps it within its bound, and a stage outlives its query only when it  *)
(* was opened after the query reported that it was done.                   *)
LiveQueriesKept ==
    /\ \A t \in Threads : handle[t] # NoHandle /\ ~handle[t].done =>
          \E i \in DOMAIN queries : queries[i].id = handle[t].id /\ queries[i].status = "running"
    /\ Cardinality(FinishedAt(queries)) <= MaxQueries
    /\ \A s \in stages : s.query \in Ids \/ s.late

(* Once the last poller was stopped, every polling thread ends, including  *)
(* those that outlived an earlier stop.                                    *)
PollersStop ==
    Len(events) = MaxPollers /\ poller = 0 ~> \A i \in DOMAIN loops : loops[i].at = "ended"

\* start_node_poller is called idempotent: one thread polls at a time. No run
\* checks it: a poller stopped while it polls waits on its successor's event.
OnePoller ==
    Cardinality({i \in DOMAIN loops : loops[i].at = "poll"}) <= 1
=============================================================================
