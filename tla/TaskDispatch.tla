----------------------------- MODULE TaskDispatch -----------------------------
(***************************************************************************)
(* What a dispatch of tasks promises its caller, whichever policy paces it *)
(* (run_bounded's window, run_bounded_admission's leases): every task is   *)
(* submitted once, in the order of the caller's list; the call returns     *)
(* only when all its tasks succeeded, with the i-th result at the i-th     *)
(* place; it raises only when one of its own tasks failed or could not be  *)
(* submitted.                                                              *)
(***************************************************************************)
EXTENDS Integers, Sequences

CONSTANTS Calls,     \* dispatch calls
          NTasks     \* length of the list of tasks of one call

VARIABLES status,    \* status[c]: where the call is
          submitted, \* submitted[c]: how many of its tasks were submitted
          outcome,   \* outcome[c][i]: what became of the i-th task
          answer     \* answer[c]: the list returned, <<>> before it is

vars == <<status, submitted, outcome, answer>>

Tasks == 1..NTasks

Init ==
    /\ status = [c \in Calls |-> "idle"]
    /\ submitted = [c \in Calls |-> 0]
    /\ outcome = [c \in Calls |-> [i \in Tasks |-> "absent"]]
    /\ answer = [c \in Calls |-> <<>>]

Call(c) ==
    /\ status[c] = "idle"
    /\ status' = [status EXCEPT ![c] = "running"]
    /\ UNCHANGED <<submitted, outcome, answer>>

Submit(c) ==
    /\ status[c] = "running"
    /\ submitted[c] < NTasks
    /\ submitted' = [submitted EXCEPT ![c] = @ + 1]
    /\ outcome' = [outcome EXCEPT ![c][submitted[c] + 1] = "running"]
    /\ UNCHANGED <<status, answer>>

\* A task ends whether or not its call still waits for it.
Finish(c, i) ==
    /\ outcome[c][i] = "running"
    /\ \E o \in {"ok", "failed"} : outcome' = [outcome EXCEPT ![c][i] = o]
    /\ UNCHANGED <<status, submitted, answer>>

Return(c) ==
    /\ status[c] = "running"
    /\ \A i \in Tasks : outcome[c][i] = "ok"
    /\ status' = [status EXCEPT ![c] = "done"]
    /\ answer' = [answer EXCEPT ![c] = [i \in Tasks |-> <<c, i>>]]
    /\ UNCHANGED <<submitted, outcome>>

Raise(c) ==
    /\ status[c] = "running"
    /\ submitted[c] < NTasks \/ \E i \in Tasks : outcome[c][i] = "failed"
    /\ status' = [status EXCEPT ![c] = "raised"]
    /\ UNCHANGED <<submitted, outcome, answer>>

Next ==
    \E c \in Calls :
        \/ Call(c) \/ Submit(c) \/ Return(c) \/ Raise(c)
        \/ \E i \in Tasks : Finish(c, i)

Spec == Init /\ [][Next]_vars
=============================================================================
