------------------------ MODULE SearchLifecycle_proofs ------------------------
(***************************************************************************)
(* Theorems about SearchLifecycle, for any number of searches, slots,      *)
(* requests, retries and failures.                                         *)
(***************************************************************************)
EXTENDS SearchLifecycle, TLAPS

-----------------------------------------------------------------------------
(* Type correctness.                                                       *)

LEMMA TypeInit == Init => TypeOK
BY SearchAssumption DEF Init, TypeOK, Status, Active, Terminal, RunPC

\* What FinishRow leaves of a row.
LEMMA FinishRowType ==
    ASSUME TypeOK, NEW s \in Search, NEW st \in Status, FinishRow(s, st)
    PROVE  /\ status' \in [Search -> Status] /\ timed' \in [Search -> BOOLEAN]
           /\ beat' \in [Search -> {"null", "fresh", "stale"}]
           /\ touched' \in [Search -> {"fresh", "stale"}]
           /\ attempt' = attempt /\ imported' = imported
           /\ faults' \in 0..MaxFaults
<1> USE DEF TypeOK
<1>1. Flush(s)
  BY DEF FinishRow
<1>2. \/ status' = [status EXCEPT ![s] = st] /\ timed' = [timed EXCEPT ![s] = TRUE]
      \/ UNCHANGED <<status, timed>>
  BY DEF FinishRow
<1>3. attempt' = attempt /\ imported' = imported /\ faults' \in 0..MaxFaults
  BY SearchAssumption DEF FinishRow, Fault
<1>4. beat' \in [Search -> {"null", "fresh", "stale"}] /\ touched' \in [Search -> {"fresh", "stale"}]
  BY <1>1 DEF Flush
<1>5. status' \in [Search -> Status] /\ timed' \in [Search -> BOOLEAN]
  BY <1>2
<1> QED  BY <1>3, <1>4, <1>5

LEMMA TypeWeb ==
    ASSUME TypeOK, NEW r \in Request, WebStep(r)
    PROVE  TypeOK'
<1> USE SearchAssumption
     DEF TypeOK, Status, Active, Terminal, RunPC, row, ledger, queue, web, runner
<1>1. CASE FinderCheckQuota(r)
  BY <1>1 DEF FinderCheckQuota
<1>2. CASE FinderCheckQuotaError(r)
  BY <1>2 DEF FinderCheckQuotaError, Fault
<1>3. CASE EnqueueSearch(r)
  BY <1>3 DEF EnqueueSearch
<1>4. CASE EnqueueError(r)
  BY <1>4 DEF EnqueueError, Fault
<1>5. CASE EnqueueReject(r)
  BY <1>5 DEF EnqueueReject
<1>6. CASE RequestLost(r)
  BY <1>6 DEF RequestLost, Fault
<1>7. CASE ImportParseError(r)
  BY <1>7 DEF ImportParseError
<1>8. CASE ImportFinish(r)
  <2>1. rjob[r] \in Search /\ "completed" \in Status
    BY <1>8 DEF ImportFinish
  <2>2. FinishRow(rjob[r], "completed") /\ rpc' = [rpc EXCEPT ![r] = "billing"]
        /\ UNCHANGED <<ledger, queue, rjob, runner>> /\ rpc[r] = "import"
    BY <1>8 DEF ImportFinish
  <2> QED  BY <2>1, <2>2, FinishRowType
<1>9. CASE ImportBill(r)
  BY <1>9 DEF ImportBill, Fault
<1>10. ASSUME NEW s \in Search, FinderInsert(r, s)
       PROVE  TypeOK'
  BY <1>10 DEF FinderInsert, InsertQueued
<1>11. ASSUME NEW s \in Search, SavedRunInsert(r, s)
       PROVE  TypeOK'
  BY <1>11 DEF SavedRunInsert, InsertQueued
<1>12. ASSUME NEW s \in Search, ImportStart(r, s)
       PROVE  TypeOK'
  BY <1>12 DEF ImportStart
<1> QED
  BY ONLY WebStep(r), <1>1, <1>2, <1>3, <1>4, <1>5, <1>6, <1>7, <1>8, <1>9, <1>10, <1>11, <1>12 DEF WebStep

LEMMA TypeRun ==
    ASSUME TypeOK, NEW w \in Worker, RunStep(w)
    PROVE  TypeOK'
<1> USE SearchAssumption
     DEF TypeOK, Status, Active, Terminal, RunPC, row, ledger, queue, web, runner
<1>1. CASE RunLoad(w)
  BY <1>1 DEF RunLoad
<1>2. CASE RunLoadError(w)
  BY <1>2, SMTT(60) DEF RunLoadError, Fault, RetryTask, EndRun, Active
<1>3. CASE RunClaim(w)
  BY <1>3 DEF RunClaim, ClaimRow
<1>4. CASE RunClaimMiss(w)
  BY <1>4 DEF RunClaimMiss, AckTask, EndRun
<1>5. CASE RunClaimError(w)
  BY <1>5, SMTT(60) DEF RunClaimError, Fault, ClaimRow, AckTask, EndRun
<1>6. CASE RunCandidate(w)
  BY <1>6 DEF RunCandidate
<1>7. CASE RunNoMoreCandidates(w)
  BY <1>7 DEF RunNoMoreCandidates
<1>8. CASE RunCheckStop(w)
  BY <1>8 DEF RunCheckStop, Control, StopOrPoll, Verdict, Fault
<1>9. CASE RunCheckPause(w)
  BY <1>9 DEF RunCheckPause, Control, PauseOrGo, Verdict, Fault
<1>10. CASE RunWait(w)
  BY <1>10, SMTT(60) DEF RunWait, Control, StopWaitOrGo, PauseOrGo, Verdict, Fault, Flush
<1>11. CASE RunDispatch(w)
  BY <1>11 DEF RunDispatch
<1>12. CASE RunDrained(w)
  BY <1>12 DEF RunDrained, Flush
<1>13. CASE RunReadFinal(w)
  BY <1>13 DEF RunReadFinal, Fault
<1>14. CASE RunClose(w)
  <2>1. job[w] \in Search /\ final[w] \in Status \cup {"none"}
    BY <1>14 DEF RunClose
  <2>2. FinishRow(job[w], final[w]) /\ pc[w] = "close" /\ pc' = [pc EXCEPT ![w] = "account"]
        /\ UNCHANGED <<ledger, queue, web, job, seen, final, count, inflight>>
    BY <1>14 DEF RunClose
  <2> QED
    BY <2>1, <2>2, FinishRowType
<1>15. CASE RunAccount(w)
  BY <1>15 DEF RunAccount, Fault
<1>16. CASE RunEmit(w)
  BY <1>16 DEF RunEmit, Fault, AckTask, EndRun
<1> QED
  BY ONLY RunStep(w), <1>1, <1>2, <1>3, <1>4, <1>5, <1>6, <1>7, <1>8, <1>9, <1>10, <1>11, <1>12, <1>13, <1>14, <1>15, <1>16 DEF RunStep

LEMMA TypeSlot ==
    ASSUME TypeOK, NEW w \in Worker, SlotStep(w)
    PROVE  TypeOK'
<1> USE SearchAssumption
     DEF TypeOK, Status, Active, Terminal, RunPC, row, ledger, queue, web, runner
<1>1. ASSUME NEW s \in Search, Dequeue(w, s)
      PROVE  TypeOK'
  BY <1>1 DEF Dequeue
<1>2. CASE RunStep(w)
  BY <1>2, TypeRun
<1>3. CASE ProcessDone(w)
  BY <1>3 DEF ProcessDone, Flush
<1>4. CASE LeaseExpire(w)
  BY <1>4 DEF LeaseExpire, RetryTask, Fault
<1>5. CASE RunLost(w)
  <2>1. CASE RetryTask(w)
    BY <1>5, <2>1 DEF RunLost, RetryTask, EndRun, Fault
  <2>2. CASE RequeueTask(w)
    BY <1>5, <2>2 DEF RunLost, RequeueTask, EndRun, Fault
  <2> QED
    BY <1>5, <2>1, <2>2 DEF RunLost
<1> QED
  BY ONLY SlotStep(w), <1>1, <1>2, <1>3, <1>4, <1>5 DEF SlotStep

LEMMA TypeStep == TypeOK /\ [Next]_vars => TypeOK'
<1> SUFFICES ASSUME TypeOK, [Next]_vars
             PROVE  TypeOK'
  OBVIOUS
<1>1. ASSUME NEW r \in Request, WebStep(r)
      PROVE  TypeOK'
  BY <1>1, TypeWeb
<1>2. ASSUME NEW s \in Search, UserStep(s)
      PROVE  TypeOK'
  BY <1>2 DEF UserStep, HandleSearchPause, HandleSearchResume, HandleSearchCancel,
              SetSearchStatus, TypeOK, Status, Active, Terminal, ledger, queue, web, runner
<1>3. ASSUME NEW s \in Search, RedisLoss(s)
      PROVE  TypeOK'
  BY <1>3, SearchAssumption DEF RedisLoss, Fault, TypeOK, row, ledger, web, runner
<1>4. ASSUME NEW w \in Worker, SlotStep(w)
      PROVE  TypeOK'
  BY <1>4, TypeSlot
<1>5. CASE Watchdog
  BY <1>5 DEF Watchdog, TypeOK, Status, Active, Terminal, ledger, queue, web, runner
<1>6. CASE Tick
  BY <1>6 DEF Tick, TypeOK, ledger, queue, web, runner
<1>7. CASE UNCHANGED vars
  BY <1>7 DEF vars, TypeOK, row, ledger, queue, web, runner
<1> QED
  BY ONLY [Next]_vars, <1>1, <1>2, <1>3, <1>4, <1>5, <1>6, <1>7 DEF Next

\* Every variable keeps its type in every state of every instance.
THEOREM Typing == Spec => []TypeOK
<1>1. TypeOK /\ [Next]_vars => TypeOK'
  BY TypeStep
<1> QED
  BY TypeInit, <1>1, PTL DEF Spec

-----------------------------------------------------------------------------
(* A run owns what it has yet to write.                                    *)

LEMMA OwnershipInit == Init => OwnershipInv
BY DEF Init, OwnershipInv, RowInv, SlotInv, RequestInv, LockInv, Claimed, Terminal

LEMMA OwnershipWeb ==
    ASSUME TypeOK, OwnershipInv, NEW r \in Request, WebStep(r)
    PROVE  OwnershipInv'
<1> USE DEF TypeOK, OwnershipInv, RowInv, SlotInv, RequestInv, LockInv, Claimed,
            Active, Terminal, Status, row, ledger, queue, web, runner
<1>1. CASE FinderCheckQuota(r)
  BY <1>1 DEF FinderCheckQuota
<1>2. CASE FinderCheckQuotaError(r)
  BY <1>2 DEF FinderCheckQuotaError, Fault
<1>3. CASE EnqueueSearch(r)
  BY <1>3 DEF EnqueueSearch
<1>4. CASE EnqueueError(r)
  BY <1>4 DEF EnqueueError, Fault
<1>5. CASE EnqueueReject(r)
  BY <1>5 DEF EnqueueReject
<1>6. CASE RequestLost(r)
  BY <1>6 DEF RequestLost, Fault
<1>7. CASE ImportParseError(r)
  BY <1>7 DEF ImportParseError
<1>8. CASE ImportFinish(r)
  <2>1. rjob[r] \in Search /\ rpc[r] = "import" /\ rpc' = [rpc EXCEPT ![r] = "billing"]
        /\ UNCHANGED <<attempt, imported, ledger, queue, rjob, runner>>
    BY <1>8 DEF ImportFinish, FinishRow
  <2>2. CASE /\ status' = [status EXCEPT ![rjob[r]] = "completed"]
             /\ timed' = [timed EXCEPT ![rjob[r]] = TRUE]
    BY <2>1, <2>2
  <2>3. CASE UNCHANGED <<status, timed>>
    BY <2>1, <2>3
  <2> QED  BY <1>8, <2>2, <2>3 DEF ImportFinish, FinishRow
<1>9. CASE ImportBill(r)
  <2>1. /\ rjob[r] \in Search /\ rpc[r] = "billing" /\ rpc' = [rpc EXCEPT ![r] = "idle"]
        /\ rjob' = [rjob EXCEPT ![r] = NoSearch]
        /\ UNCHANGED <<row, emitted, queue, runner>>
    BY <1>9 DEF ImportBill
  <2>2. CASE usage' = [usage EXCEPT ![rjob[r]] = @ + 1]
    BY <2>1, <2>2
  <2>3. CASE UNCHANGED usage
    BY <2>1, <2>3
  <2> QED  BY <1>9, <2>2, <2>3 DEF ImportBill
<1>10. ASSUME NEW s \in Search, FinderInsert(r, s)
      PROVE  OwnershipInv'
  BY <1>10 DEF FinderInsert, InsertQueued
<1>11. ASSUME NEW s \in Search, SavedRunInsert(r, s)
      PROVE  OwnershipInv'
  BY <1>11 DEF SavedRunInsert, InsertQueued
<1>12. ASSUME NEW s \in Search, ImportStart(r, s)
      PROVE  OwnershipInv'
  BY <1>12 DEF ImportStart
<1> QED
  BY ONLY WebStep(r), <1>1, <1>2, <1>3, <1>4, <1>5, <1>6, <1>7, <1>8, <1>9, <1>10, <1>11, <1>12 DEF WebStep

LEMMA OwnershipUser ==
    ASSUME TypeOK, OwnershipInv, NEW s \in Search, UserStep(s)
    PROVE  OwnershipInv'
<1> USE DEF TypeOK, OwnershipInv, RowInv, SlotInv, RequestInv, LockInv, Claimed,
            Active, Terminal, Status, row, ledger, queue, web, runner
<1>1. CASE HandleSearchPause(s)
  BY <1>1 DEF HandleSearchPause, SetSearchStatus
<1>2. CASE HandleSearchResume(s)
  BY <1>2 DEF HandleSearchResume, SetSearchStatus
<1>3. CASE HandleSearchCancel(s)
  BY <1>3 DEF HandleSearchCancel, SetSearchStatus, Active
<1> QED
  BY ONLY UserStep(s), <1>1, <1>2, <1>3 DEF UserStep

LEMMA OwnershipRun ==
    ASSUME TypeOK, OwnershipInv, NEW w \in Worker, RunStep(w)
    PROVE  OwnershipInv'
<1> USE DEF TypeOK, OwnershipInv, RowInv, SlotInv, RequestInv, LockInv, Claimed,
            Active, Terminal, Status, row, ledger, queue, web, runner
<1>1. CASE RunLoad(w)
  BY <1>1 DEF RunLoad
<1>2. CASE RunLoadError(w)
  BY <1>2 DEF RunLoadError, Fault, RetryTask, EndRun, Active
<1>3. CASE RunClaim(w)
  BY <1>3 DEF RunClaim, ClaimRow
<1>4. CASE RunClaimMiss(w)
  BY <1>4 DEF RunClaimMiss, AckTask, EndRun
<1>5. CASE RunClaimError(w)
  BY <1>5 DEF RunClaimError, Fault, ClaimRow, AckTask, EndRun
<1>6. CASE RunCandidate(w)
  BY <1>6 DEF RunCandidate
<1>7. CASE RunNoMoreCandidates(w)
  BY <1>7 DEF RunNoMoreCandidates
<1>8. CASE RunCheckStop(w)
  BY <1>8 DEF RunCheckStop, Control, StopOrPoll, Verdict, Fault
<1>9. CASE RunCheckPause(w)
  BY <1>9 DEF RunCheckPause, Control, PauseOrGo, Verdict, Fault
<1>10. CASE RunWait(w)
  BY <1>10 DEF RunWait, Control, StopWaitOrGo, PauseOrGo, Verdict, Fault, Flush
<1>11. CASE RunDispatch(w)
  BY <1>11 DEF RunDispatch
<1>12. CASE RunDrained(w)
  BY <1>12 DEF RunDrained, Flush
<1>13. CASE RunReadFinal(w)
  BY <1>13 DEF RunReadFinal, Fault
<1>14. CASE RunClose(w)
  BY <1>14 DEF RunClose, FinishRow, Flush, Fault
<1>15. CASE RunAccount(w)
  <2>1. CASE UNCHANGED usage
    BY <1>15, <2>1 DEF RunAccount
  <2>2. CASE usage' = [usage EXCEPT ![job[w]] = @ + 1]
    BY <1>15, <2>2 DEF RunAccount
  <2> QED
    BY <1>15, <2>1, <2>2 DEF RunAccount
<1>16. CASE RunEmit(w)
  BY <1>16 DEF RunEmit, Fault, AckTask, EndRun
<1> QED
  BY ONLY RunStep(w), <1>1, <1>2, <1>3, <1>4, <1>5, <1>6, <1>7, <1>8, <1>9, <1>10, <1>11, <1>12, <1>13, <1>14, <1>15, <1>16 DEF RunStep

LEMMA OwnershipStep == TypeOK /\ OwnershipInv /\ [Next]_vars => OwnershipInv'
<1> SUFFICES ASSUME TypeOK, OwnershipInv, [Next]_vars
             PROVE  OwnershipInv'
  OBVIOUS
<1> USE DEF TypeOK, OwnershipInv, RowInv, SlotInv, RequestInv, LockInv, Claimed,
            Active, Terminal, Status, row, ledger, queue, web, runner
<1>1. ASSUME NEW r \in Request, WebStep(r)
      PROVE  OwnershipInv'
  BY ONLY <1>1, TypeOK, OwnershipInv, OwnershipWeb
<1>2. ASSUME NEW s \in Search, UserStep(s)
      PROVE  OwnershipInv'
  BY ONLY <1>2, TypeOK, OwnershipInv, OwnershipUser
<1>3. ASSUME NEW s \in Search, RedisLoss(s)
      PROVE  OwnershipInv'
  BY <1>3 DEF RedisLoss
<1>4. ASSUME NEW w \in Worker, SlotStep(w)
      PROVE  OwnershipInv'
  <2>1. ASSUME NEW s \in Search, Dequeue(w, s)
        PROVE  OwnershipInv'
    BY <2>1 DEF Dequeue
  <2>2. CASE RunStep(w)
    BY ONLY <2>2, TypeOK, OwnershipInv, OwnershipRun
  <2>3. CASE ProcessDone(w)
    BY <2>3 DEF ProcessDone
  <2>4. CASE LeaseExpire(w)
    BY <2>4 DEF LeaseExpire
  <2>5. CASE RunLost(w)
    BY <2>5 DEF RunLost, EndRun
  <2> QED
    BY ONLY <1>4, <2>1, <2>2, <2>3, <2>4, <2>5 DEF SlotStep
<1>5. CASE Watchdog
  BY <1>5 DEF Watchdog, Stalled
<1>6. CASE Tick
  BY <1>6 DEF Tick
<1>7. CASE UNCHANGED vars
  BY <1>7 DEF vars
<1> QED
  BY ONLY [Next]_vars, <1>1, <1>2, <1>3, <1>4, <1>5, <1>6, <1>7 DEF Next

\* Between its Claim and its last statement a run alone closes, bills and
\* announces its search.
THEOREM Ownership == Spec => [](TypeOK /\ OwnershipInv)
<1>1. Init => TypeOK /\ OwnershipInv
  BY TypeInit, OwnershipInit
<1>2. TypeOK /\ OwnershipInv /\ [Next]_vars => (TypeOK /\ OwnershipInv)'
  BY TypeStep, OwnershipStep
<1> QED
  BY <1>1, <1>2, PTL DEF Spec

-----------------------------------------------------------------------------
(* What follows.                                                           *)

\* A search runs at most once and on one slot at a time, however often asynq
\* delivers its task.
THEOREM OneRunner == Spec => []SingleRunner
<1>1. OwnershipInv => SingleRunner
  BY DEF OwnershipInv, RowInv, LockInv, SingleRunner
<1> QED
  BY <1>1, Ownership, PTL

\* A search is billed and announced at most once, and only if it ran.
THEOREM OneBill == Spec => []LedgerSound
<1>1. TypeOK /\ OwnershipInv => LedgerSound
  <2> SUFFICES ASSUME TypeOK, NEW s \in Search, RowInv(s)
               PROVE  /\ usage[s] <= 1 /\ emitted[s] <= 1
                      /\ usage[s] = 1 => attempt[s] = 1 \/ imported[s]
                      /\ emitted[s] = 1 => attempt[s] = 1
    BY DEF OwnershipInv, LedgerSound
  <2>1. attempt[s] = 0 \/ attempt[s] = 1
    <3>1. attempt[s] \in Nat
      BY DEF TypeOK
    <3>2. attempt[s] <= 1
      BY DEF RowInv
    <3> QED
      BY <3>1, <3>2
  <2> QED
    BY <2>1 DEF RowInv
<1> QED
  BY <1>1, Ownership, PTL

\* A run that saw a stop closes a search that is still stopped.
THEOREM StopsStand == Spec => []StopStands
<1>1. OwnershipInv => StopStands
  BY DEF OwnershipInv, SlotInv, StopStands
<1> QED
  BY <1>1, Ownership, PTL

-----------------------------------------------------------------------------
(* The lifecycle keeps the contract.                                       *)

LEMMA ContractInit == Init => Contract!Init
BY DEF Init, Contract!Init

\* A step that leaves what the tenant sees alone.
LEMMA ContractStutter ==
    ASSUME UNCHANGED <<status, attempt, imported, timed, usage>>
    PROVE  UNCHANGED Contract!vars
BY DEF Contract!vars

\* A step that fails one search.
LEMMA ContractFail ==
    ASSUME TypeOK, NEW s \in Search, status[s] # "none",
           status' = [status EXCEPT ![s] = "failed"],
           UNCHANGED <<attempt, imported, timed, usage>>
    PROVE  Contract!Next
<1>1. status' = [t \in Search |-> IF t \in {s} THEN "failed" ELSE status[t]]
  BY DEF TypeOK
<1>2. Contract!Fail({s})
  BY <1>1 DEF Contract!Fail
<1> QED
  BY <1>2 DEF Contract!Next

LEMMA ContractWeb ==
    ASSUME TypeOK, OwnershipInv, NEW r \in Request, WebStep(r)
    PROVE  Contract!Next \/ UNCHANGED Contract!vars
<1> USE DEF row, ledger, queue, web, runner
<1>1. CASE \/ FinderCheckQuota(r) \/ FinderCheckQuotaError(r) \/ EnqueueSearch(r)
           \/ EnqueueError(r) \/ RequestLost(r)
  BY <1>1, ContractStutter
     DEF FinderCheckQuota, FinderCheckQuotaError, EnqueueSearch, EnqueueError, RequestLost
<1>2. ASSUME NEW s \in Search, FinderInsert(r, s) \/ SavedRunInsert(r, s)
      PROVE  Contract!Next
  <2>1. Contract!Create(s)
    BY <1>2 DEF FinderInsert, SavedRunInsert, InsertQueued, Contract!Create, Contract!Move
  <2> QED
    BY <2>1 DEF Contract!Next
<1>3. CASE EnqueueReject(r)
  <2>1. rjob[r] \in Search /\ status[rjob[r]] # "none"
    BY <1>3 DEF EnqueueReject, TypeOK, OwnershipInv, RequestInv
  <2> QED
    BY <1>3, <2>1, ContractFail DEF EnqueueReject
<1>4. ASSUME NEW s \in Search, ImportStart(r, s)
      PROVE  Contract!Next
  <2>1. attempt[s] = 0 /\ ~imported[s]
    BY <1>4 DEF ImportStart, OwnershipInv, RowInv
  <2>2. Contract!Start(s)
    BY <1>4, <2>1 DEF ImportStart, TypeOK, Contract!Start, Contract!Move
  <2> QED
    BY <2>2 DEF Contract!Next
<1>5. CASE ImportParseError(r)
  <2>1. rjob[r] \in Search /\ status[rjob[r]] # "none"
    BY <1>5 DEF ImportParseError, TypeOK, OwnershipInv, RequestInv
  <2> QED
    BY <1>5, <2>1, ContractFail DEF ImportParseError
<1>6. CASE ImportFinish(r)
  <2>1. rjob[r] \in Search /\ imported[rjob[r]] /\ ~timed[rjob[r]]
    BY <1>6 DEF ImportFinish, FinishRow, TypeOK, OwnershipInv, RequestInv
  <2>2. UNCHANGED <<attempt, imported, usage>>
    BY <1>6 DEF ImportFinish, FinishRow, ledger
  <2>3. CASE UNCHANGED <<status, timed>>
    BY <2>2, <2>3, ContractStutter
  <2>4. CASE /\ status' = [status EXCEPT ![rjob[r]] = "completed"]
             /\ timed' = [timed EXCEPT ![rjob[r]] = TRUE]
    <3>1. Contract!Close(rjob[r])
      BY <2>1, <2>2, <2>4 DEF Contract!Close, Contract!Terminal
    <3> QED
      BY <2>1, <3>1 DEF Contract!Next
  <2> QED
    BY <1>6, <2>3, <2>4 DEF ImportFinish, FinishRow
<1>7. CASE ImportBill(r)
  <2>1. rjob[r] \in Search /\ imported[rjob[r]] /\ usage[rjob[r]] = 0
    BY <1>7 DEF ImportBill, TypeOK, OwnershipInv, RequestInv
  <2>2. CASE UNCHANGED usage
    BY <1>7, <2>2, ContractStutter DEF ImportBill, row
  <2>3. CASE usage' = [usage EXCEPT ![rjob[r]] = @ + 1]
    <3>1. Contract!Bill(rjob[r])
      BY <1>7, <2>1, <2>3 DEF ImportBill, TypeOK, Contract!Bill
    <3> QED
      BY <2>1, <3>1 DEF Contract!Next
  <2> QED
    BY <1>7, <2>2, <2>3 DEF ImportBill
<1> QED
  BY ONLY WebStep(r), <1>1, <1>2, <1>3, <1>4, <1>5, <1>6, <1>7 DEF WebStep

LEMMA ContractUser ==
    ASSUME TypeOK, OwnershipInv, NEW s \in Search, UserStep(s)
    PROVE  Contract!Next
<1>1. UNCHANGED <<attempt, imported, timed, usage>>
  BY DEF UserStep, HandleSearchPause, HandleSearchResume, HandleSearchCancel, SetSearchStatus,
         ledger
<1>2. CASE HandleSearchPause(s)
  BY <1>1, <1>2 DEF HandleSearchPause, SetSearchStatus, Contract!Pause, Contract!Move, Contract!Next
<1>3. CASE HandleSearchResume(s)
  BY <1>1, <1>3 DEF HandleSearchResume, SetSearchStatus, Contract!Resume, Contract!Move, Contract!Next
<1>4. CASE HandleSearchCancel(s)
  BY <1>1, <1>4 DEF HandleSearchCancel, SetSearchStatus, Active, Contract!Active, Contract!Cancel,
                    Contract!Move, Contract!Next
<1> QED
  BY <1>2, <1>3, <1>4 DEF UserStep

LEMMA ContractClaim ==
    ASSUME TypeOK, OwnershipInv, NEW s \in Search, ClaimRow(s), UNCHANGED ledger
    PROVE  Contract!Next
<1>1. attempt[s] = 0 /\ ~imported[s]
  BY DEF ClaimRow, OwnershipInv, RowInv
<1>2. /\ status[s] = "queued" /\ status' = [status EXCEPT ![s] = "running"]
      /\ attempt' = [attempt EXCEPT ![s] = 1]
      /\ UNCHANGED <<imported, timed, usage>>
  BY <1>1 DEF ClaimRow, ledger
<1>3. [t \in Search |-> IF imported'[t] THEN 1 ELSE attempt'[t]]
        = [[t \in Search |-> IF imported[t] THEN 1 ELSE attempt[t]] EXCEPT ![s] = 1]
  BY <1>1, <1>2 DEF TypeOK
<1>4. Contract!Start(s)
  BY <1>1, <1>2, <1>3 DEF Contract!Start, Contract!Move
<1> QED
  BY <1>4 DEF Contract!Next

LEMMA ContractRun ==
    ASSUME TypeOK, OwnershipInv, NEW w \in Worker, RunStep(w)
    PROVE  Contract!Next \/ UNCHANGED Contract!vars
<1> USE DEF row, ledger, queue, web, runner
<1>1. CASE RunClaim(w)
  BY <1>1, ContractClaim DEF RunClaim, TypeOK
<1>2. CASE RunClaimError(w)
  BY <1>2, ContractClaim, ContractStutter DEF RunClaimError, TypeOK
<1>3. CASE RunLoadError(w)
  <2>1. CASE status' = status
    BY <1>3, <2>1, ContractStutter DEF RunLoadError
  <2>2. CASE status[job[w]] \in Active /\ status' = [status EXCEPT ![job[w]] = "failed"]
    BY <1>3, <2>2, ContractFail DEF RunLoadError, Active, TypeOK
  <2> QED
    BY <1>3, <2>1, <2>2 DEF RunLoadError
<1>4. CASE RunClose(w)
  <2>1. /\ job[w] \in Search /\ attempt[job[w]] = 1 /\ ~timed[job[w]] /\ ~imported[job[w]]
        /\ final[w] \in Terminal
    BY <1>4 DEF RunClose, FinishRow, TypeOK, OwnershipInv, SlotInv, RowInv, Claimed
  <2>2. UNCHANGED <<attempt, imported, usage>>
    BY <1>4 DEF RunClose, FinishRow, ledger
  <2>3. CASE UNCHANGED <<status, timed>>
    BY <2>2, <2>3, ContractStutter
  <2>4. CASE /\ status' = [status EXCEPT ![job[w]] = final[w]]
             /\ timed' = [timed EXCEPT ![job[w]] = TRUE]
    <3>1. Contract!Close(job[w])
      BY <2>1, <2>2, <2>4 DEF Contract!Close, Contract!Terminal, Terminal
    <3> QED
      BY <2>1, <3>1 DEF Contract!Next
  <2> QED
    BY <1>4, <2>3, <2>4 DEF RunClose, FinishRow
<1>5. CASE RunAccount(w)
  <2>1. job[w] \in Search /\ attempt[job[w]] = 1 /\ usage[job[w]] = 0 /\ ~imported[job[w]]
    BY <1>5 DEF RunAccount, TypeOK, OwnershipInv, SlotInv, RowInv, Claimed
  <2>2. CASE UNCHANGED usage
    BY <1>5, <2>2, ContractStutter DEF RunAccount
  <2>3. CASE usage' = [usage EXCEPT ![job[w]] = @ + 1]
    <3>1. Contract!Bill(job[w])
      BY <1>5, <2>1, <2>3 DEF RunAccount, TypeOK, Contract!Bill
    <3> QED
      BY <2>1, <3>1 DEF Contract!Next
  <2> QED
    BY <1>5, <2>2, <2>3 DEF RunAccount
<1>6. CASE \/ RunLoad(w) \/ RunClaimMiss(w) \/ RunCandidate(w) \/ RunNoMoreCandidates(w)
           \/ RunCheckStop(w) \/ RunCheckPause(w) \/ RunWait(w) \/ RunDispatch(w)
           \/ RunDrained(w) \/ RunReadFinal(w) \/ RunEmit(w)
  BY <1>6, ContractStutter
     DEF RunLoad, RunClaimMiss, RunCandidate, RunNoMoreCandidates, RunCheckStop, RunCheckPause,
         RunWait, RunDispatch, RunDrained, RunReadFinal, RunEmit
<1> QED
  BY ONLY RunStep(w), <1>1, <1>2, <1>3, <1>4, <1>5, <1>6 DEF RunStep

LEMMA ContractStep ==
    TypeOK /\ OwnershipInv /\ [Next]_vars => [Contract!Next]_(Contract!vars)
<1> SUFFICES ASSUME TypeOK, OwnershipInv, [Next]_vars
             PROVE  Contract!Next \/ UNCHANGED Contract!vars
  OBVIOUS
<1> USE DEF row, ledger, queue, web, runner
<1>1. ASSUME NEW r \in Request, WebStep(r)
      PROVE  Contract!Next \/ UNCHANGED Contract!vars
  BY <1>1, ContractWeb
<1>2. ASSUME NEW s \in Search, UserStep(s)
      PROVE  Contract!Next
  BY <1>2, ContractUser
<1>3. ASSUME NEW s \in Search, RedisLoss(s)
      PROVE  UNCHANGED Contract!vars
  BY <1>3, ContractStutter DEF RedisLoss
<1>4. ASSUME NEW w \in Worker, SlotStep(w)
      PROVE  Contract!Next \/ UNCHANGED Contract!vars
  <2>1. CASE RunStep(w)
    BY <2>1, ContractRun
  <2>2. CASE (\E s \in Search : Dequeue(w, s)) \/ ProcessDone(w) \/ LeaseExpire(w) \/ RunLost(w)
    BY <2>2, ContractStutter DEF Dequeue, ProcessDone, LeaseExpire, RunLost
  <2> QED
    BY <1>4, <2>1, <2>2 DEF SlotStep
<1>5. CASE Watchdog
  <2>1. UNCHANGED <<attempt, imported, timed, usage>>
    BY <1>5 DEF Watchdog
  <2>2. Contract!Fail({s \in Search : Stalled(s)})
    BY <1>5, <2>1 DEF Watchdog, Stalled, Contract!Fail
  <2> QED
    BY <2>2 DEF Contract!Next
<1>6. CASE Tick \/ UNCHANGED vars
  BY <1>6, ContractStutter DEF Tick, vars
<1> QED
  BY ONLY [Next]_vars, <1>1, <1>2, <1>3, <1>4, <1>5, <1>6 DEF Next

\* The lifecycle, with its tasks, slots, retries and failures, implements the
\* contract: nothing it does is more than a contract step.
THEOREM Refinement == Spec => KeepsContract
<1>1. Init => Contract!Init
  BY ContractInit
<1>2. TypeOK /\ OwnershipInv /\ [Next]_vars => [Contract!Next]_(Contract!vars)
  BY ContractStep
<1> QED
  BY <1>1, <1>2, Ownership, PTL DEF Spec, KeepsContract, Contract!Spec

\* No contract step makes an ended search active again, so no step of the
\* lifecycle does, the blind writes of Finish and of a failed enqueue included.
THEOREM EndsForGood == Spec => NoResurrection
<1>1. TypeOK /\ OwnershipInv /\ [Next]_vars =>
        [\A s \in Search : status[s] \in Terminal => status'[s] \in Terminal]_vars
  <2> SUFFICES ASSUME TypeOK, Contract!Next \/ UNCHANGED Contract!vars,
                      NEW s \in Search, status[s] \in Terminal
               PROVE  status'[s] \in Terminal
    BY ContractStep
  <2> USE DEF TypeOK, Terminal, Contract!Terminal, Contract!Active, Contract!Move
  <2>1. CASE UNCHANGED Contract!vars
    BY <2>1 DEF Contract!vars
  <2>2. ASSUME NEW t \in Search,
               Contract!Create(t) \/ Contract!Start(t) \/ Contract!Pause(t) \/ Contract!Resume(t)
               \/ Contract!Cancel(t) \/ Contract!Bill(t)
        PROVE  status'[s] \in Terminal
    BY <2>2 DEF Contract!Create, Contract!Start, Contract!Pause, Contract!Resume, Contract!Cancel,
                Contract!Bill
  <2>3. ASSUME NEW t \in Search, Contract!Close(t)
        PROVE  status'[s] \in Terminal
    BY <2>3 DEF Contract!Close
  <2>4. ASSUME NEW S \in SUBSET Search, Contract!Fail(S)
        PROVE  status'[s] \in Terminal
    BY <2>4 DEF Contract!Fail
  <2> QED
    BY <2>1, <2>2, <2>3, <2>4 DEF Contract!Next
<1> QED
  BY <1>1, Ownership, PTL DEF Spec, NoResurrection

\* After Finish only a request whose enqueue came back with an error still
\* changes the row.
THEOREM FinishIsLast == Spec => FinishedStays
<1> DEFINE Refused(s) == \E r \in Request : rpc[r] = "refused" /\ rjob[r] = s
<1>1. TypeOK /\ OwnershipInv /\ [Next]_vars =>
        [\A s \in Search : timed[s] /\ status'[s] # status[s] => Refused(s)]_vars
  <2> SUFFICES ASSUME TypeOK, OwnershipInv, [Next]_vars,
                      NEW s \in Search, timed[s], status'[s] # status[s]
               PROVE  Refused(s)
    OBVIOUS
  <2>1. status[s] \in Terminal
    BY DEF OwnershipInv, RowInv
  <2> USE DEF TypeOK, Active, Terminal, row, ledger, queue, web, runner
  <2>2. ASSUME NEW r \in Request, WebStep(r)
        PROVE  Refused(s)
    <3>1. CASE EnqueueReject(r)
      BY <3>1 DEF EnqueueReject
    <3>2. CASE ImportParseError(r) \/ ImportFinish(r)
      BY <3>2 DEF ImportParseError, ImportFinish, FinishRow, OwnershipInv, RequestInv
    <3>3. ASSUME NEW t \in Search, FinderInsert(r, t) \/ SavedRunInsert(r, t) \/ ImportStart(r, t)
          PROVE  FALSE
      BY <2>1, <3>3 DEF FinderInsert, SavedRunInsert, InsertQueued, ImportStart
    <3>4. CASE \/ FinderCheckQuota(r) \/ FinderCheckQuotaError(r) \/ EnqueueSearch(r)
               \/ EnqueueError(r) \/ RequestLost(r) \/ ImportBill(r)
      BY <3>4 DEF FinderCheckQuota, FinderCheckQuotaError, EnqueueSearch, EnqueueError,
                  RequestLost, ImportBill
    <3> QED
      BY ONLY <2>2, <3>1, <3>2, <3>3, <3>4 DEF WebStep
  <2>3. ASSUME NEW t \in Search, UserStep(t)
        PROVE  FALSE
    BY <2>1, <2>3 DEF UserStep, HandleSearchPause, HandleSearchResume, HandleSearchCancel,
                      SetSearchStatus
  <2>4. ASSUME NEW w \in Worker, SlotStep(w)
        PROVE  FALSE
    <3>1. CASE RunClose(w)
      BY <3>1 DEF RunClose, FinishRow, OwnershipInv, SlotInv, Claimed
    <3>2. CASE RunLoadError(w)
      BY <2>1, <3>2 DEF RunLoadError
    <3>3. CASE RunClaim(w) \/ RunClaimError(w)
      BY <2>1, <3>3 DEF RunClaim, RunClaimError, ClaimRow
    <3>4. CASE \/ RunLoad(w) \/ RunClaimMiss(w) \/ RunCandidate(w) \/ RunNoMoreCandidates(w)
               \/ RunCheckStop(w) \/ RunCheckPause(w) \/ RunWait(w) \/ RunDispatch(w)
               \/ RunDrained(w) \/ RunReadFinal(w) \/ RunAccount(w) \/ RunEmit(w)
      BY <3>4
         DEF RunLoad, RunClaimMiss, RunCandidate, RunNoMoreCandidates, RunCheckStop,
             RunCheckPause, RunWait, RunDispatch, RunDrained, RunReadFinal, RunAccount, RunEmit
    <3>5. CASE \/ \E t \in Search : Dequeue(w, t)
               \/ ProcessDone(w) \/ LeaseExpire(w) \/ RunLost(w)
      BY <3>5 DEF Dequeue, ProcessDone, LeaseExpire, RunLost
    <3> QED
      BY ONLY <2>4, <3>1, <3>2, <3>3, <3>4, <3>5 DEF SlotStep, RunStep
  <2>5. CASE Watchdog
    BY <2>1, <2>5 DEF Watchdog, Stalled
  <2>6. CASE (\E t \in Search : RedisLoss(t)) \/ Tick \/ UNCHANGED vars
    BY <2>6 DEF RedisLoss, Tick, vars
  <2> QED
    BY ONLY [Next]_vars, <2>2, <2>3, <2>4, <2>5, <2>6 DEF Next
<1> QED
  BY <1>1, Ownership, PTL DEF Spec, FinishedStays

===============================================================================
