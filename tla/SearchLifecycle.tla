--------------------------- MODULE SearchLifecycle ---------------------------
(***************************************************************************)
(* The life of a lead search: the lead_searches rows in Postgres, the      *)
(* search:run tasks in Redis (asynq), the web requests that create, pause, *)
(* resume, cancel and import searches, the workers that run them, and the  *)
(* scheduler's stall watchdog.                                             *)
(*                                                                         *)
(* Every SQL statement is one step, because another process may run        *)
(* between any two of them.  Rows belong to one tenant: rows of different  *)
(* tenants share nothing but the worker slots.                             *)
(***************************************************************************)
EXTENDS Integers, FiniteSets

CONSTANTS
    Search,       \* ids a lead_searches row can get
    Worker,       \* asynq worker slots
    Request,      \* concurrent web requests that create searches
    NoSearch,     \* "no search": an idle slot or request
    NoWorker,     \* "no worker": a task nobody holds the lease of
    MaxSearches,  \* Cfg.MaxSearches, the tenant's concurrency quota
    Limit,        \* limit_count: candidates one run dispatches
    ProcWorkers,  \* Cfg.SearchProcessWorkers: candidates processed at once
    MaxRetry,     \* asynq.MaxRetry of search:run
    MaxFaults     \* bound on injected crashes and failed calls

ASSUME SearchAssumption ==
    /\ NoSearch \notin Search
    /\ NoWorker \notin Worker
    /\ MaxSearches \in Nat
    /\ Limit \in Nat \ {0}
    /\ ProcWorkers \in Nat \ {0}
    /\ MaxRetry \in Nat
    /\ MaxFaults \in Nat

VARIABLES
    \* lead_searches
    status,    \* status column; "none" before the row is inserted
    beat,      \* last_heartbeat, relative to the watchdog's window
    touched,   \* updated_at, relative to the watchdog's window
    attempt,   \* run_attempt
    imported,  \* row of a CSV import (query LIKE 'Import:%')
    timed,     \* duration_ms is set: only Finish writes it
    \* what a finished search leaves behind
    usage,     \* usage_events rows of kind 'search'
    emitted,   \* search.completed events handed to the webhooks
    \* asynq
    task,      \* the search:run task of the row
    retried,   \* its failed deliveries so far
    lease,     \* the slot that holds its lease
    \* web requests
    rpc, rjob,
    \* worker slots: one Run call each
    pc, job,
    seen,      \* j.Search.Status, the status the run saw last
    final,     \* the status the run will close the row with
    count,     \* candidates dispatched
    inflight,  \* candidates being processed (errgroup)
    faults     \* injected failures so far

row    == <<status, beat, touched, attempt, imported, timed>>
ledger == <<usage, emitted>>
queue  == <<task, retried, lease>>
web    == <<rpc, rjob>>
runner == <<pc, job, seen, final, count, inflight>>
vars   == <<row, ledger, queue, web, runner, faults>>

Active   == {"queued", "running", "paused"}
Terminal == {"completed", "failed", "cancelled"}
Status   == {"none"} \cup Active \cup Terminal

RunPC == {"idle", "load", "claim", "next", "poll1", "poll2", "wait", "go",
          "drain", "final", "close", "account", "emit"}

\* A run past its successful Claim.
Claimed(w) == pc[w] \notin {"idle", "load", "claim"}

TypeOK ==
    /\ status \in [Search -> Status]
    /\ beat \in [Search -> {"null", "fresh", "stale"}]
    /\ touched \in [Search -> {"fresh", "stale"}]
    /\ attempt \in [Search -> Nat]
    /\ imported \in [Search -> BOOLEAN]
    /\ timed \in [Search -> BOOLEAN]
    /\ usage \in [Search -> Nat]
    /\ emitted \in [Search -> Nat]
    /\ task \in [Search -> {"none", "pending", "active", "done", "archived"}]
    /\ retried \in [Search -> 0..MaxRetry]
    /\ lease \in [Search -> Worker \cup {NoWorker}]
    /\ rpc \in [Request -> {"idle", "checked", "enqueue", "refused", "import", "billing"}]
    /\ rjob \in [Request -> Search \cup {NoSearch}]
    /\ pc \in [Worker -> RunPC]
    /\ job \in [Worker -> Search \cup {NoSearch}]
    /\ seen \in [Worker -> Status]
    /\ final \in [Worker -> {"none"} \cup Terminal]
    /\ count \in [Worker -> 0..Limit]
    /\ inflight \in [Worker -> 0..ProcWorkers]
    /\ faults \in 0..MaxFaults
    /\ \A w \in Worker :
        /\ pc[w] # "idle" => job[w] \in Search
        /\ pc[w] \in {"idle", "load", "claim"} => count[w] = 0 /\ inflight[w] = 0
        /\ pc[w] \in {"next", "poll1", "poll2", "wait", "go"} => count[w] < Limit
    /\ \A r \in Request : rpc[r] \notin {"idle", "checked"} => rjob[r] \in Search

Init ==
    /\ status = [s \in Search |-> "none"]
    /\ beat = [s \in Search |-> "null"]
    /\ touched = [s \in Search |-> "fresh"]
    /\ attempt = [s \in Search |-> 0]
    /\ imported = [s \in Search |-> FALSE]
    /\ timed = [s \in Search |-> FALSE]
    /\ usage = [s \in Search |-> 0]
    /\ emitted = [s \in Search |-> 0]
    /\ task = [s \in Search |-> "none"]
    /\ retried = [s \in Search |-> 0]
    /\ lease = [s \in Search |-> NoWorker]
    /\ rpc = [r \in Request |-> "idle"]
    /\ rjob = [r \in Request |-> NoSearch]
    /\ pc = [w \in Worker |-> "idle"]
    /\ job = [w \in Worker |-> NoSearch]
    /\ seen = [w \in Worker |-> "none"]
    /\ final = [w \in Worker |-> "none"]
    /\ count = [w \in Worker |-> 0]
    /\ inflight = [w \in Worker |-> 0]
    /\ faults = 0

\* One more injected failure: a crash, a lost connection, a failed statement.
Fault == faults < MaxFaults /\ faults' = faults + 1

\* Flush: the counters and the heartbeat.  A Flush that fails is one that
\* time passes by.
Flush(s) ==
    /\ beat' = [beat EXCEPT ![s] = "fresh"]
    /\ touched' = [touched EXCEPT ![s] = "fresh"]

\* What Finish does to the row, whatever its status is: a Flush, and the
\* UPDATE that closes it, whose error is ignored.
FinishRow(s, st) ==
    /\ Flush(s)
    /\ \/ /\ status' = [status EXCEPT ![s] = st]
          /\ timed' = [timed EXCEPT ![s] = TRUE]
          /\ UNCHANGED faults
       \/ Fault /\ UNCHANGED <<status, timed>>
    /\ UNCHANGED <<attempt, imported>>

-----------------------------------------------------------------------------
(* Web requests: creating, importing and controlling searches.             *)

\* Mutant: the row is inserted and the enqueue forgotten.
InsertWithoutEnqueue(r, s) ==
    /\ status[s] = "none"
    /\ status' = [status EXCEPT ![s] = "queued"]
    /\ touched' = [touched EXCEPT ![s] = "fresh"]
    /\ rpc' = [rpc EXCEPT ![r] = "idle"]
    /\ UNCHANGED <<rjob, beat, attempt, imported, timed, ledger, queue, runner>>

\* The new row of a search created by the finder or a saved search.
InsertQueued(r, s) ==
    /\ status[s] = "none"
    /\ status' = [status EXCEPT ![s] = "queued"]
    /\ touched' = [touched EXCEPT ![s] = "fresh"]
    /\ rpc' = [rpc EXCEPT ![r] = "enqueue"]
    /\ rjob' = [rjob EXCEPT ![r] = s]
    /\ UNCHANGED <<beat, attempt, imported, timed, ledger, queue, runner>>

\* handleFinderSearch counts the tenant's active searches first ...
FinderCheckQuota(r) ==
    /\ rpc[r] = "idle"
    /\ Cardinality({s \in Search : status[s] \in Active}) < MaxSearches
    /\ rpc' = [rpc EXCEPT ![r] = "checked"]
    /\ UNCHANGED <<row, ledger, queue, rjob, runner, faults>>

\* ... ignoring an error of that query, which leaves the count at 0 ...
FinderCheckQuotaError(r) ==
    /\ rpc[r] = "idle"
    /\ MaxSearches > 0
    /\ Fault
    /\ rpc' = [rpc EXCEPT ![r] = "checked"]
    /\ UNCHANGED <<row, ledger, queue, rjob, runner>>

\* ... and inserts the row in a statement of its own.
FinderInsert(r, s) ==
    /\ rpc[r] = "checked"
    /\ InsertQueued(r, s)
    /\ UNCHANGED faults

\* handleSavedRun inserts without looking at the quota.
SavedRunInsert(r, s) ==
    /\ rpc[r] = "idle"
    /\ InsertQueued(r, s)
    /\ UNCHANGED faults

EnqueueSearch(r) ==
    LET s == rjob[r] IN
    /\ rpc[r] = "enqueue"
    /\ task' = [task EXCEPT ![s] = "pending"]
    /\ rpc' = [rpc EXCEPT ![r] = "idle"]
    /\ rjob' = [rjob EXCEPT ![r] = NoSearch]
    /\ UNCHANGED <<row, ledger, retried, lease, runner, faults>>

\* EnqueueSearch returned an error, though the task may have reached Redis.
EnqueueError(r) ==
    LET s == rjob[r] IN
    /\ rpc[r] = "enqueue"
    /\ Fault
    /\ task' = [task EXCEPT ![s] = "pending"] \/ UNCHANGED task
    /\ rpc' = [rpc EXCEPT ![r] = "refused"]
    /\ UNCHANGED <<row, ledger, retried, lease, rjob, runner>>

\* The handler then fails the row, whatever its status is by now.
EnqueueReject(r) ==
    LET s == rjob[r] IN
    /\ rpc[r] = "refused"
    /\ status' = [status EXCEPT ![s] = "failed"]
    /\ rpc' = [rpc EXCEPT ![r] = "idle"]
    /\ rjob' = [rjob EXCEPT ![r] = NoSearch]
    /\ UNCHANGED <<beat, touched, attempt, imported, timed, ledger, queue, runner, faults>>

\* The server dies, or the client leaves and takes the request context with
\* it: nothing the request still had to write is written.
RequestLost(r) ==
    /\ rpc[r] # "idle"
    /\ Fault
    /\ rpc' = [rpc EXCEPT ![r] = "idle"]
    /\ rjob' = [rjob EXCEPT ![r] = NoSearch]
    /\ UNCHANGED <<row, ledger, queue, runner>>

\* handleImport runs a CSV import inside the request, on a row that is born
\* running: it is never queued, never beats and never looks at its status.
ImportStart(r, s) ==
    /\ rpc[r] = "idle"
    /\ status[s] = "none"
    /\ status' = [status EXCEPT ![s] = "running"]
    /\ touched' = [touched EXCEPT ![s] = "fresh"]
    /\ imported' = [imported EXCEPT ![s] = TRUE]
    /\ rpc' = [rpc EXCEPT ![r] = "import"]
    /\ rjob' = [rjob EXCEPT ![r] = s]
    /\ UNCHANGED <<beat, attempt, timed, ledger, queue, runner, faults>>

ImportParseError(r) ==
    LET s == rjob[r] IN
    /\ rpc[r] = "import"
    /\ status' = [status EXCEPT ![s] = "failed"]
    /\ rpc' = [rpc EXCEPT ![r] = "idle"]
    /\ rjob' = [rjob EXCEPT ![r] = NoSearch]
    /\ UNCHANGED <<beat, touched, attempt, imported, timed, ledger, queue, runner, faults>>

\* Finish(job, "completed", ""): the row first, the usage event after it,
\* whether or not the row was closed.
ImportFinish(r) ==
    LET s == rjob[r] IN
    /\ rpc[r] = "import"
    /\ FinishRow(s, "completed")
    /\ rpc' = [rpc EXCEPT ![r] = "billing"]
    /\ UNCHANGED <<ledger, queue, rjob, runner>>

ImportBill(r) ==
    LET s == rjob[r] IN
    /\ rpc[r] = "billing"
    /\ \/ usage' = [usage EXCEPT ![s] = @ + 1] /\ UNCHANGED faults
       \/ Fault /\ UNCHANGED usage
    /\ rpc' = [rpc EXCEPT ![r] = "idle"]
    /\ rjob' = [rjob EXCEPT ![r] = NoSearch]
    /\ UNCHANGED <<row, emitted, queue, runner>>

\* Mutant: the UPDATE without its status condition.
SetSearchStatusBlind(s, from, to) ==
    /\ status[s] # "none"
    /\ status' = [status EXCEPT ![s] = to]
    /\ touched' = [touched EXCEPT ![s] = "fresh"]
    /\ UNCHANGED <<beat, attempt, imported, timed, ledger, queue, web, runner, faults>>

\* setSearchStatus: one conditional UPDATE per control button.
SetSearchStatus(s, from, to) ==
    /\ status[s] \in from
    /\ status' = [status EXCEPT ![s] = to]
    /\ touched' = [touched EXCEPT ![s] = "fresh"]
    /\ UNCHANGED <<beat, attempt, imported, timed, ledger, queue, web, runner, faults>>

HandleSearchPause(s)  == SetSearchStatus(s, {"running"}, "paused")
HandleSearchResume(s) == SetSearchStatus(s, {"paused", "queued"}, "running")
HandleSearchCancel(s) == SetSearchStatus(s, Active, "cancelled")

-----------------------------------------------------------------------------
(* asynq (external): delivery, retry and lease of a task.                  *)

Dequeue(w, s) ==
    /\ pc[w] = "idle"
    /\ task[s] = "pending"
    /\ task' = [task EXCEPT ![s] = "active"]
    /\ lease' = [lease EXCEPT ![s] = w]
    /\ pc' = [pc EXCEPT ![w] = "load"]
    /\ job' = [job EXCEPT ![w] = s]
    /\ UNCHANGED <<row, ledger, retried, web, seen, final, count, inflight, faults>>

\* The handler returned nil: the task is done if the slot still has its lease.
AckTask(w) ==
    LET s == job[w] IN
    /\ IF lease[s] = w
       THEN /\ task' = [task EXCEPT ![s] = "done"]
            /\ lease' = [lease EXCEPT ![s] = NoWorker]
       ELSE UNCHANGED <<task, lease>>
    /\ UNCHANGED retried

\* The delivery failed: back to the queue, or archived after MaxRetry retries.
RetryTask(w) ==
    LET s == job[w] IN
    IF lease[s] = w
    THEN /\ lease' = [lease EXCEPT ![s] = NoWorker]
         /\ IF retried[s] < MaxRetry
            THEN /\ task' = [task EXCEPT ![s] = "pending"]
                 /\ retried' = [retried EXCEPT ![s] = @ + 1]
            ELSE /\ task' = [task EXCEPT ![s] = "archived"]
                 /\ UNCHANGED retried
    ELSE UNCHANGED queue

\* A shutdown that outlasts ShutdownTimeout puts the task back uncounted.
RequeueTask(w) ==
    LET s == job[w] IN
    IF lease[s] = w
    THEN /\ lease' = [lease EXCEPT ![s] = NoWorker]
         /\ task' = [task EXCEPT ![s] = "pending"]
         /\ UNCHANGED retried
    ELSE UNCHANGED queue

\* The Run call is over and its slot free again.
EndRun(w) ==
    /\ pc' = [pc EXCEPT ![w] = "idle"]
    /\ job' = [job EXCEPT ![w] = NoSearch]
    /\ seen' = [seen EXCEPT ![w] = "none"]
    /\ final' = [final EXCEPT ![w] = "none"]
    /\ count' = [count EXCEPT ![w] = 0]
    /\ inflight' = [inflight EXCEPT ![w] = 0]

\* The process stalls past its lease: another one delivers the task again
\* while the run goes on, until its own heartbeater notices (RunLost).
LeaseExpire(w) ==
    /\ pc[w] # "idle"
    /\ lease[job[w]] = w
    /\ Fault
    /\ RetryTask(w)
    /\ UNCHANGED <<row, ledger, web, runner>>

\* The worker process dies or shuts down, or the task's context ends (6 h
\* timeout): from here on the run writes nothing.
RunLost(w) ==
    /\ pc[w] # "idle"
    /\ Fault
    /\ RetryTask(w) \/ RequeueTask(w)
    /\ EndRun(w)
    /\ UNCHANGED <<row, ledger, web>>

\* Redis is disposable: a pending task can be lost with it.
RedisLoss(s) ==
    /\ task[s] = "pending"
    /\ Fault
    /\ task' = [task EXCEPT ![s] = "none"]
    /\ UNCHANGED <<row, ledger, retried, lease, web, runner>>

-----------------------------------------------------------------------------
(* The worker: one Run call per slot, from Load to Finish.                 *)

RunLoad(w) ==
    /\ pc[w] = "load"
    /\ seen' = [seen EXCEPT ![w] = status[job[w]]]
    /\ pc' = [pc EXCEPT ![w] = "claim"]
    /\ UNCHANGED <<row, ledger, queue, web, job, final, count, inflight, faults>>

\* Load fails: the handler fails the row, in a statement that may fail as
\* well, and hands the error to asynq.
RunLoadError(w) ==
    LET s == job[w] IN
    /\ pc[w] = "load"
    /\ Fault
    /\ \/ /\ status[s] \in Active
          /\ status' = [status EXCEPT ![s] = "failed"]
          /\ touched' = [touched EXCEPT ![s] = "fresh"]
       \/ UNCHANGED <<status, touched>>
    /\ RetryTask(w)
    /\ EndRun(w)
    /\ UNCHANGED <<beat, attempt, imported, timed, ledger, web>>

\* Mutant: the claim takes any active row.
ClaimAnyActiveRow(s) ==
    /\ status[s] \in Active
    /\ status' = [status EXCEPT ![s] = "running"]
    /\ attempt' = [attempt EXCEPT ![s] = @ + 1]
    /\ beat' = [beat EXCEPT ![s] = "fresh"]
    /\ touched' = [touched EXCEPT ![s] = "fresh"]
    /\ UNCHANGED <<imported, timed>>

\* The conditional UPDATE that makes a queued row this run's.
ClaimRow(s) ==
    /\ status[s] = "queued"
    /\ status' = [status EXCEPT ![s] = "running"]
    /\ attempt' = [attempt EXCEPT ![s] = @ + 1]
    /\ beat' = [beat EXCEPT ![s] = "fresh"]
    /\ touched' = [touched EXCEPT ![s] = "fresh"]
    /\ UNCHANGED <<imported, timed>>

RunClaim(w) ==
    /\ pc[w] = "claim"
    /\ ClaimRow(job[w])
    /\ seen' = [seen EXCEPT ![w] = "running"]
    /\ pc' = [pc EXCEPT ![w] = "next"]
    /\ UNCHANGED <<ledger, queue, web, job, final, count, inflight, faults>>

\* Any other status: "already claimed/finished elsewhere".
RunClaimMiss(w) ==
    /\ pc[w] = "claim"
    /\ status[job[w]] # "queued"
    /\ AckTask(w)
    /\ EndRun(w)
    /\ UNCHANGED <<row, ledger, web, faults>>

\* An error of the UPDATE reads as "not queued", even when it took effect.
RunClaimError(w) ==
    /\ pc[w] = "claim"
    /\ Fault
    /\ ClaimRow(job[w]) \/ UNCHANGED row
    /\ AckTask(w)
    /\ EndRun(w)
    /\ UNCHANGED <<ledger, web>>

RunCandidate(w) ==
    /\ pc[w] = "next"
    /\ pc' = [pc EXCEPT ![w] = "poll1"]
    /\ UNCHANGED <<row, ledger, queue, web, job, seen, final, count, inflight, faults>>

RunNoMoreCandidates(w) ==
    /\ pc[w] = "next"
    /\ pc' = [pc EXCEPT ![w] = "drain"]
    /\ UNCHANGED <<row, ledger, queue, web, job, seen, final, count, inflight, faults>>

\* Control: the row's status if it says stop or pause, "" otherwise.  Within
\* two seconds of the last read, or when the read fails, it is "" too.
Verdict(st) == IF st \in {"paused", "cancelled", "failed"} THEN st ELSE ""

Control(w, Goto(_)) ==
    \/ /\ seen[w] = "running"
       /\ pc' = [pc EXCEPT ![w] = Goto("")]
       /\ UNCHANGED <<seen, faults>>
    \/ /\ seen' = [seen EXCEPT ![w] = status[job[w]]]
       /\ pc' = [pc EXCEPT ![w] = Goto(Verdict(status[job[w]]))]
       /\ UNCHANGED faults
    \/ /\ Fault
       /\ pc' = [pc EXCEPT ![w] = Goto("")]
       /\ UNCHANGED seen

\* Where Run goes on each answer: the first call looks for a stop, the
\* second for a pause, and the pause loop for either.
StopOrPoll(v)   == IF v \in {"cancelled", "failed"} THEN "drain" ELSE "poll2"
PauseOrGo(v)    == IF v = "paused" THEN "wait" ELSE "go"

\* Mutant: the pause loop only looks for the end of the pause.
WaitUntilResumed(v) == IF v = "" THEN "go" ELSE "wait"

StopWaitOrGo(v) == IF v \in {"cancelled", "failed"} THEN "drain" ELSE PauseOrGo(v)

RunCheckStop(w) ==
    /\ pc[w] = "poll1"
    /\ Control(w, StopOrPoll)
    /\ UNCHANGED <<row, ledger, queue, web, job, final, count, inflight>>

RunCheckPause(w) ==
    /\ pc[w] = "poll2"
    /\ Control(w, PauseOrGo)
    /\ UNCHANGED <<row, ledger, queue, web, job, final, count, inflight>>

\* One round of WaitWhilePaused.
RunWait(w) ==
    /\ pc[w] = "wait"
    /\ Flush(job[w])
    /\ Control(w, StopWaitOrGo)
    /\ UNCHANGED <<status, attempt, imported, timed, ledger, queue, web, job, final, count,
                   inflight>>

\* Mutant: the limit is off by one.
RunDispatchOneMore(w) ==
    /\ pc[w] = "go"
    /\ inflight[w] < ProcWorkers
    /\ count' = [count EXCEPT ![w] = @ + 1]
    /\ inflight' = [inflight EXCEPT ![w] = @ + 1]
    /\ pc' = [pc EXCEPT ![w] = IF count[w] + 1 > Limit THEN "drain" ELSE "next"]
    /\ UNCHANGED <<row, ledger, queue, web, job, seen, final, faults>>

\* eg.Go, which waits for a free place, and the limit check after it.
RunDispatch(w) ==
    /\ pc[w] = "go"
    /\ inflight[w] < ProcWorkers
    /\ count' = [count EXCEPT ![w] = @ + 1]
    /\ inflight' = [inflight EXCEPT ![w] = @ + 1]
    /\ pc' = [pc EXCEPT ![w] = IF count[w] + 1 >= Limit THEN "drain" ELSE "next"]
    /\ UNCHANGED <<row, ledger, queue, web, job, seen, final, faults>>

\* Process returns; on every tenth candidate found it flushes.
ProcessDone(w) ==
    /\ inflight[w] > 0
    /\ inflight' = [inflight EXCEPT ![w] = @ - 1]
    /\ Flush(job[w]) \/ UNCHANGED <<beat, touched>>
    /\ UNCHANGED <<status, attempt, imported, timed, ledger, queue, web, pc, job, seen, final,
                   count, faults>>

RunDrained(w) ==
    /\ pc[w] = "drain"
    /\ inflight[w] = 0
    /\ Flush(job[w])
    /\ pc' = [pc EXCEPT ![w] = "final"]
    /\ UNCHANGED <<status, attempt, imported, timed, ledger, queue, web, job, seen, final, count,
                   inflight, faults>>

\* The run completes unless the row says cancelled or failed by now; an
\* error of the read counts as neither.
RunReadFinal(w) ==
    LET st == status[job[w]] IN
    /\ pc[w] = "final"
    /\ \/ /\ final' = [final EXCEPT ![w] =
                          IF st \in {"cancelled", "failed"} THEN st ELSE "completed"]
          /\ UNCHANGED faults
       \/ /\ Fault
          /\ final' = [final EXCEPT ![w] = "completed"]
    /\ pc' = [pc EXCEPT ![w] = "close"]
    /\ UNCHANGED <<row, ledger, queue, web, job, seen, count, inflight>>

\* Finish, statement by statement: the row, whatever its status is ...
RunClose(w) ==
    /\ pc[w] = "close"
    /\ FinishRow(job[w], final[w])
    /\ pc' = [pc EXCEPT ![w] = "account"]
    /\ UNCHANGED <<ledger, queue, web, job, seen, final, count, inflight>>

\* ... the usage events ...
RunAccount(w) ==
    /\ pc[w] = "account"
    /\ \/ usage' = [usage EXCEPT ![job[w]] = @ + 1] /\ UNCHANGED faults
       \/ Fault /\ UNCHANGED usage
    /\ pc' = [pc EXCEPT ![w] = "emit"]
    /\ UNCHANGED <<row, emitted, queue, web, job, seen, final, count, inflight>>

\* ... and the event, if the run completed; then Run returns nil.
RunEmit(w) ==
    /\ pc[w] = "emit"
    /\ \/ /\ IF final[w] = "completed"
             THEN emitted' = [emitted EXCEPT ![job[w]] = @ + 1]
             ELSE UNCHANGED emitted
          /\ UNCHANGED faults
       \/ Fault /\ UNCHANGED emitted
    /\ AckTask(w)
    /\ EndRun(w)
    /\ UNCHANGED <<row, usage, web>>

-----------------------------------------------------------------------------
(* The scheduler's watchdog, and time.                                     *)

\* Mutant: rows without a heartbeat never stall.
StalledBeat(s) == status[s] = "running" /\ beat[s] = "stale"

\* COALESCE(last_heartbeat, updated_at, started_at) is out of the window.
Stalled(s) ==
    /\ status[s] = "running"
    /\ IF beat[s] # "null" THEN beat[s] = "stale" ELSE touched[s] = "stale"

\* One UPDATE fails every stalled row.
Watchdog ==
    /\ \E s \in Search : Stalled(s)
    /\ status' = [s \in Search |-> IF Stalled(s) THEN "failed" ELSE status[s]]
    /\ touched' = [s \in Search |-> IF Stalled(s) THEN "fresh" ELSE touched[s]]
    /\ UNCHANGED <<beat, attempt, imported, timed, ledger, queue, web, runner, faults>>

\* WATCHDOG_STALE_MINUTES pass.
Tick ==
    /\ beat' = [s \in Search |-> IF beat[s] = "fresh" THEN "stale" ELSE beat[s]]
    /\ touched' = [s \in Search |-> "stale"]
    /\ <<beat, touched>>' # <<beat, touched>>
    /\ UNCHANGED <<status, attempt, imported, timed, ledger, queue, web, runner, faults>>

-----------------------------------------------------------------------------

WebStep(r) ==
    \/ FinderCheckQuota(r)
    \/ FinderCheckQuotaError(r)
    \/ \E s \in Search : FinderInsert(r, s) \/ SavedRunInsert(r, s) \/ ImportStart(r, s)
    \/ EnqueueSearch(r)
    \/ EnqueueError(r)
    \/ EnqueueReject(r)
    \/ RequestLost(r)
    \/ ImportParseError(r)
    \/ ImportFinish(r)
    \/ ImportBill(r)

UserStep(s) == HandleSearchPause(s) \/ HandleSearchResume(s) \/ HandleSearchCancel(s)

\* What a live slot does by itself.
RunStep(w) ==
    \/ RunLoad(w)
    \/ RunLoadError(w)
    \/ RunClaim(w)
    \/ RunClaimMiss(w)
    \/ RunClaimError(w)
    \/ RunCandidate(w)
    \/ RunNoMoreCandidates(w)
    \/ RunCheckStop(w)
    \/ RunCheckPause(w)
    \/ RunWait(w)
    \/ RunDispatch(w)
    \/ RunDrained(w)
    \/ RunReadFinal(w)
    \/ RunClose(w)
    \/ RunAccount(w)
    \/ RunEmit(w)

SlotStep(w) ==
    \/ \E s \in Search : Dequeue(w, s)
    \/ RunStep(w)
    \/ ProcessDone(w)
    \/ LeaseExpire(w)
    \/ RunLost(w)

Next ==
    \/ \E r \in Request : WebStep(r)
    \/ \E s \in Search : UserStep(s) \/ RedisLoss(s)
    \/ \E w \in Worker : SlotStep(w)
    \/ Watchdog
    \/ Tick

Spec == Init /\ [][Next]_vars

\* A started process keeps running, asynq delivers, the scheduler keeps
\* enqueueing the watchdog and time passes.  Nothing is asked of users,
\* of the requests that have not started, or of failures.
Fairness ==
    /\ \A w \in Worker : WF_vars(RunStep(w)) /\ WF_vars(ProcessDone(w))
    /\ \A s \in Search : WF_vars(\E w \in Worker : Dequeue(w, s))
    /\ \A r \in Request : WF_vars(EnqueueSearch(r))
    /\ WF_vars(Watchdog)
    /\ WF_vars(Tick)

FairSpec == Spec /\ Fairness

-----------------------------------------------------------------------------
(* Properties.                                                             *)

\* A search is run at most once, whatever asynq redelivers and users click,
\* and two slots never work on the same search: Claim is the only lock.
SingleRunner ==
    /\ \A s \in Search : attempt[s] <= 1
    /\ \A v, w \in Worker : Claimed(v) /\ Claimed(w) /\ job[v] = job[w] => v = w

\* The usage ledger and the webhooks hear of a search at most once, and only
\* if it ran; an import is billed but never announced.
LedgerSound ==
    \A s \in Search :
        /\ usage[s] <= 1 /\ emitted[s] <= 1
        /\ usage[s] = 1 => attempt[s] = 1 \/ imported[s]
        /\ emitted[s] = 1 => attempt[s] = 1

\* A run that read "cancelled" or "failed" before Finish finds the search
\* still ended when Finish writes: no control button reopens it in between.
StopStands ==
    \A w \in Worker : final[w] \in {"cancelled", "failed"} => status[job[w]] \in Terminal

\* An ended search never becomes active again, though Finish and a late
\* enqueue error write the status without looking at it.
NoResurrection ==
    [][\A s \in Search : status[s] \in Terminal => status'[s] \in Terminal]_vars

\* Once Finish has closed the row, only the handler whose enqueue came back
\* with an error still changes it.
FinishedStays ==
    [][\A s \in Search :
          timed[s] /\ status'[s] # status[s] =>
              \E r \in Request : rpc[r] = "refused" /\ rjob[r] = s]_vars

\* What the steps preserve, and what the properties above rest on.  A row:
RowInv(s) ==
    /\ attempt[s] <= 1 /\ usage[s] <= 1 /\ emitted[s] <= 1
    /\ status[s] \in {"none", "queued"} => attempt[s] = 0 /\ ~imported[s]
    /\ imported[s] => attempt[s] = 0
    /\ attempt[s] = 0 => emitted[s] = 0
    /\ attempt[s] = 0 /\ ~imported[s] => usage[s] = 0 /\ ~timed[s]
    /\ timed[s] => status[s] \in Terminal

\* ... a slot, whose claimed run still has everything to do that it has not
\* come to ...
SlotInv(w) ==
    /\ Claimed(w) =>
        /\ attempt[job[w]] = 1 /\ emitted[job[w]] = 0
        /\ pc[w] # "emit" => usage[job[w]] = 0
        /\ pc[w] \notin {"account", "emit"} => ~timed[job[w]]
    /\ final[w] \in (IF pc[w] \in {"close", "account", "emit"} THEN Terminal ELSE {"none"})
    /\ final[w] \in {"cancelled", "failed"} => status[job[w]] \in Terminal

\* ... a request ...
RequestInv(r) ==
    /\ rpc[r] \notin {"idle", "checked"} => status[rjob[r]] # "none"
    /\ rpc[r] \in {"import", "billing"} => imported[rjob[r]] /\ usage[rjob[r]] = 0
    /\ rpc[r] = "import" => ~timed[rjob[r]]

\* ... and the two locks: a claimed row has one slot, an import one request.
LockInv ==
    /\ \A v, w \in Worker : Claimed(v) /\ Claimed(w) /\ job[v] = job[w] => v = w
    /\ \A q, r \in Request :
          rpc[q] \in {"import", "billing"} /\ rpc[r] \in {"import", "billing"} /\ rjob[q] = rjob[r]
             => q = r

\* A run owns what it has yet to write: between its Claim and its last
\* statement nobody else has closed, billed or announced its search.
OwnershipInv ==
    /\ \A s \in Search : RowInv(s)
    /\ \A w \in Worker : SlotInv(w)
    /\ \A r \in Request : RequestInv(r)
    /\ LockInv

\* No search stays running for ever: its run closes it, a user moves it, or
\* the watchdog finds it stalled, also when the worker or the server died.
RunningSettles == \A s \in Search : (status[s] = "running") ~> (status[s] # "running")

\* A slot whose search has ended, cancelled by a user or failed by the
\* watchdog, lets go of it.
EndedReleasesSlot ==
    \A w \in Worker, s \in Search :
        (job[w] = s /\ status[s] \in Terminal) ~> (job[w] # s)

\* As long as nothing has failed, a queued search leaves the queue, unless
\* paused searches sit in every slot.
QueuedProgress ==
    \A s \in Search :
        (status[s] = "queued") ~>
            (status[s] # "queued" \/ faults > 0 \/ \A w \in Worker : pc[w] = "wait")

\* The contract a tenant sees.
Contract == INSTANCE SearchContract WITH
    runs   <- [s \in Search |-> IF imported[s] THEN 1 ELSE attempt[s]],
    closed <- timed,
    billed <- usage

\* Every step of the lifecycle is one of the contract, or none of its concern.
KeepsContract == Contract!Spec

\* What handleSearchCancel tells the user of a search that a worker runs: it is
\* cancelled.  An import never looks at its status, and is left out.
CancelSticks ==
    [][\A s \in Search :
          status[s] = "cancelled" /\ ~imported[s] => status'[s] = "cancelled"]_vars

=============================================================================
