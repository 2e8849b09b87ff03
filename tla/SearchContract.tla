---------------------------- MODULE SearchContract ----------------------------
(***************************************************************************)
(* What a tenant is promised of its lead searches, without slots, tasks or *)
(* requests: a search runs at most once, only a run closes it, an ended    *)
(* search stays ended, and only a run is billed, once.                     *)
(***************************************************************************)
EXTENDS Naturals

CONSTANT Search

VARIABLES
    status,   \* what the tenant sees
    runs,     \* runs started on the search, an import included
    closed,   \* a run has closed the search
    billed    \* usage events of the search

vars == <<status, runs, closed, billed>>

Active   == {"queued", "running", "paused"}
Terminal == {"completed", "failed", "cancelled"}

Init ==
    /\ status = [s \in Search |-> "none"]
    /\ runs = [s \in Search |-> 0]
    /\ closed = [s \in Search |-> FALSE]
    /\ billed = [s \in Search |-> 0]

Move(s, from, to) ==
    /\ status[s] \in from
    /\ status' = [status EXCEPT ![s] = to]

\* A search is created, to be run by a worker.
Create(s) == Move(s, {"none"}, "queued") /\ UNCHANGED <<runs, closed, billed>>

\* A search starts: its one run, or an import that is a run from the start.
Start(s) ==
    /\ Move(s, {"none", "queued"}, "running")
    /\ runs[s] = 0
    /\ runs' = [runs EXCEPT ![s] = 1]
    /\ UNCHANGED <<closed, billed>>

\* The tenant's buttons.
Pause(s)  == Move(s, {"running"}, "paused") /\ UNCHANGED <<runs, closed, billed>>
Resume(s) == Move(s, {"queued", "paused"}, "running") /\ UNCHANGED <<runs, closed, billed>>
Cancel(s) == Move(s, Active, "cancelled") /\ UNCHANGED <<runs, closed, billed>>

\* Something went wrong with some searches: they are failed.
Fail(S) ==
    /\ \A s \in S : status[s] # "none"
    /\ status' = [s \in Search |-> IF s \in S THEN "failed" ELSE status[s]]
    /\ UNCHANGED <<runs, closed, billed>>

\* The run of a search closes it, once, whatever the tenant did meanwhile.
Close(s) ==
    /\ runs[s] = 1
    /\ ~closed[s]
    /\ closed' = [closed EXCEPT ![s] = TRUE]
    /\ \E f \in Terminal : status' = [status EXCEPT ![s] = f]
    /\ UNCHANGED <<runs, billed>>

\* The run of a search bills it, once.
Bill(s) ==
    /\ runs[s] = 1
    /\ billed[s] = 0
    /\ billed' = [billed EXCEPT ![s] = 1]
    /\ UNCHANGED <<status, runs, closed>>

Next ==
    \/ \E s \in Search : \/ Create(s) \/ Start(s)
                         \/ Pause(s) \/ Resume(s) \/ Cancel(s)
                         \/ Close(s) \/ Bill(s)
    \/ \E S \in SUBSET Search : Fail(S)

Spec == Init /\ [][Next]_vars

===============================================================================
