------------------------ MODULE EnrichmentWorkersProofs ------------------------
(***************************************************************************)
(* What the job queue keeps true for its most general client, for every    *)
(* set of places and workers and every bound.  Every process of the        *)
(* pipeline is such a client, whatever the deployment, so what is shown    *)
(* of the queue holds of the pipeline; and under the conditions of         *)
(* SafeDeployment a job is never worked on by two workers at once.         *)
(***************************************************************************)
EXTENDS EnrichmentWorkers, TLAPS

(***************************************************************************)
(* The queue.                                                              *)
(***************************************************************************)

USE QueueAssumption, NoneIsNoJob

\* Whatever a statement makes of a row is a row again.
LEMMA UpdatesAreRows ==
  ASSUME NEW row \in JobRow
  PROVE  /\ Pending(row) \in JobRow
         /\ \A w \in Workers : ClaimedBy(row, w) \in JobRow
         /\ \A output \in {"none", "evidence"} : Completed(row, output) \in JobRow
         /\ \A error \in Errors : Failed(row, error) \in JobRow
         /\ Refunded(row) \in JobRow
         /\ Reopened(row) \in JobRow
         /\ Requeued(row) \in JobRow
         /\ [row EXCEPT !.status = "failed"] \in JobRow
         /\ [row EXCEPT !.age = "stale"] \in JobRow
<1>1. Pending(row) \in JobRow
  BY DEF Pending, JobRow, Statuses
<1>2. ASSUME NEW w \in Workers PROVE ClaimedBy(row, w) \in JobRow
  <2>1. row.attempts + 1 \in Nat
    BY DEF JobRow
  <2>2. QED
    BY <2>1 DEF ClaimedBy, JobRow, Statuses
<1>3. ASSUME NEW output \in {"none", "evidence"} PROVE Completed(row, output) \in JobRow
  BY DEF Completed, JobRow, Statuses
<1>4. ASSUME NEW error \in Errors PROVE Failed(row, error) \in JobRow
  BY DEF Failed, JobRow, Statuses
<1>5. Refunded(row) \in JobRow
  <2> DEFINE n == Pending(row).attempts
  <2>1. (IF n > 0 THEN n - 1 ELSE n) \in Nat
    BY <1>1 DEF JobRow
  <2>2. QED
    BY <1>1, <2>1 DEF Refunded, JobRow, Errors
<1>6. Reopened(row) \in JobRow
  <2>1. Pending(row).requeues + 1 \in Nat
    BY <1>1 DEF JobRow
  <2>2. QED
    BY <1>1, <2>1 DEF Reopened, JobRow, Errors
<1>7. Requeued(row) \in JobRow
  BY <1>1 DEF Requeued, JobRow
<1>8. /\ [row EXCEPT !.status = "failed"] \in JobRow
      /\ [row EXCEPT !.age = "stale"] \in JobRow
  BY DEF JobRow, Statuses
<1>9. QED
  BY <1>1, <1>2, <1>3, <1>4, <1>5, <1>6, <1>7, <1>8

LEMMA NewRowsAreRows == Row("absent") \in JobRow /\ Row("pending") \in JobRow
  BY DEF Row, JobRow, Statuses, Errors

LEMMA RecoveredIsRow ==
  ASSUME TypeOK, NEW j \in JobId
  PROVE  Recovered(j) \in JobRow
<1>1. Pending(jobs[j]) \in JobRow
  BY UpdatesAreRows DEF TypeOK
<1>2. QED
  BY <1>1 DEF Recovered, JobRow, Statuses, Errors

\* Idling any set of owners keeps the table of workers well typed.
LEMMA IdledIsTable ==
  ASSUME TypeOK, NEW ws
  PROVE  Idled(ws) \in [Workers -> WorkerRow]
  BY DEF TypeOK, Idled, IdleRow, WorkerRow

LEMMA TypeInitially == Init => TypeOK
  BY NewRowsAreRows DEF Init, TypeOK, NoRow, WorkerRow

LEMMA TypeWorkerStep ==
  ASSUME TypeOK, NEW w \in Workers, WorkerStep(w)
  PROVE  TypeOK'
<1>1. ASSUME NEW j \in JobId, NEW scope \in SUBSET Places, Claim(w, j, scope) PROVE TypeOK'
  BY <1>1, UpdatesAreRows DEF Claim, TypeOK
<1>2. ASSUME NEW j \in JobId, BindWorker(w, j) PROVE TypeOK'
  BY <1>2 DEF BindWorker, TypeOK, WorkerRow
<1>3. CASE RegisterWorker(w)
  BY <1>3 DEF RegisterWorker, TypeOK, WorkerRow
<1>4. CASE UnregisterWorker(w)
  BY <1>4, UpdatesAreRows DEF UnregisterWorker, TypeOK, WorkerRow, NoRow
<1>5. QED
  BY <1>1, <1>2, <1>3, <1>4 DEF WorkerStep

LEMMA TypeJobStep ==
  ASSUME TypeOK, NEW j \in JobId, JobStep(j)
  PROVE  TypeOK'
<1>1. CASE AddJob(j)
  BY <1>1, NewRowsAreRows DEF AddJob, TypeOK
<1>2. ASSUME NEW output \in {"none", "evidence"}, Complete(j, output) PROVE TypeOK'
  BY <1>2, UpdatesAreRows, IdledIsTable DEF Complete, TypeOK
<1>3. ASSUME NEW error \in {"transient", "permanent"}, Fail(j, error) PROVE TypeOK'
  BY <1>3, UpdatesAreRows, IdledIsTable DEF Fail, TypeOK, Errors
<1>4. CASE Retry(j)
  BY <1>4, UpdatesAreRows, IdledIsTable DEF Retry, TypeOK
<1>5. CASE RequeueCompleted(j)
  BY <1>5, UpdatesAreRows DEF RequeueCompleted, TypeOK
<1>6. CASE Age(j)
  BY <1>6, UpdatesAreRows DEF Age, TypeOK
<1>7. QED
  BY <1>1, <1>2, <1>3, <1>4, <1>5, <1>6 DEF JobStep

LEMMA TypeMaintenanceStep ==
  ASSUME TypeOK, MaintenanceStep
  PROVE  TypeOK'
<1>1. ASSUME NEW scope \in SUBSET JobId, NEW d \in BOOLEAN, RecoverOrphaned(scope, d)
      PROVE  TypeOK'
  BY <1>1, RecoveredIsRow, IdledIsTable DEF RecoverOrphaned, TypeOK
<1>2. ASSUME NEW scope \in SUBSET Places, CleanupUnclaimable(scope) PROVE TypeOK'
  BY <1>2, UpdatesAreRows DEF CleanupUnclaimable, TypeOK
<1>3. ASSUME NEW ids \in SUBSET Known, RequeueFailed(ids) PROVE TypeOK'
  BY <1>3, UpdatesAreRows DEF RequeueFailed, TypeOK
<1>4. QED
  BY <1>1, <1>2, <1>3 DEF MaintenanceStep

LEMMA TypeStep == TypeOK /\ [Next]_qvars => TypeOK'
<1> SUFFICES ASSUME TypeOK, [Next]_qvars PROVE TypeOK'
  OBVIOUS
<1>1. CASE Next
  BY <1>1, TypeWorkerStep, TypeJobStep, TypeMaintenanceStep DEF Next
<1>2. CASE UNCHANGED qvars
  BY <1>2 DEF qvars, TypeOK
<1>3. QED
  BY <1>1, <1>2

\* The rows of both tables keep their types under any client.
THEOREM QueueTypeCorrect == Spec => []TypeOK
  BY TypeInitially, TypeStep, PTL DEF Spec

-------------------------------------------------------------------------------
(* The invariant is a predicate of each row alone, and every update of a row  *)
(* keeps it.                                                                   *)

RowInv(row) ==
  /\ row.status = "processing" => row.worker # None /\ row.attempts >= 1
  /\ row.status \in {"absent", "pending", "failed"} => row.worker = None
  /\ row.attempts <= MaxAttempts
  /\ row.requeues <= MaxRequeues
  /\ row.status = "absent" => row.requeues = 0

\* What becomes of a row in one step: nothing deletes one.
RowStep(old, new) == /\ RowInv(new)
                     /\ new.requeues >= old.requeues
                     /\ old.status # "absent" => new.status # "absent"

QueueInv == TypeOK /\ \A j \in JobId : RowInv(jobs[j])

LEMMA UpdatesKeepRowInv ==
  ASSUME NEW row \in JobRow, RowInv(row)
  PROVE  /\ RowStep(row, row)
         /\ RowStep(row, Pending(row))
         /\ \A w \in Workers : row.attempts < MaxAttempts => RowStep(row, ClaimedBy(row, w))
         /\ \A output \in {"none", "evidence"} : RowStep(row, Completed(row, output))
         /\ \A error \in Errors : RowStep(row, Failed(row, error))
         /\ RowStep(row, Refunded(row))
         /\ row.requeues < MaxRequeues => RowStep(row, Reopened(row))
         /\ RowStep(row, Requeued(row))
         /\ row.status = "pending" => RowStep(row, [row EXCEPT !.status = "failed"])
         /\ RowStep(row, [row EXCEPT !.age = "stale"])
<1> USE DEF RowInv, RowStep, JobRow
<1>1. RowStep(row, row) /\ RowStep(row, Pending(row))
  BY DEF Pending
<1>2. ASSUME NEW w \in Workers, row.attempts < MaxAttempts PROVE RowStep(row, ClaimedBy(row, w))
  BY <1>2 DEF ClaimedBy
<1>3. ASSUME NEW output \in {"none", "evidence"} PROVE RowStep(row, Completed(row, output))
  BY DEF Completed
<1>4. ASSUME NEW error \in Errors PROVE RowStep(row, Failed(row, error))
  BY DEF Failed
<1>5. RowStep(row, Refunded(row))
  BY DEF Refunded, Pending
<1>6. ASSUME row.requeues < MaxRequeues PROVE RowStep(row, Reopened(row))
  BY <1>6 DEF Reopened, Pending
<1>7. RowStep(row, Requeued(row))
  BY DEF Requeued, Pending
<1>8. ASSUME row.status = "pending" PROVE RowStep(row, [row EXCEPT !.status = "failed"])
  BY <1>8
<1>9. RowStep(row, [row EXCEPT !.age = "stale"])
  OBVIOUS
<1>10. QED
  BY <1>1, <1>2, <1>3, <1>4, <1>5, <1>6, <1>7, <1>8, <1>9

LEMMA RecoveredKeepsRowInv ==
  ASSUME QueueInv, NEW j \in JobId
  PROVE  RowStep(jobs[j], Recovered(j))
<1>1. jobs[j] \in JobRow /\ RowStep(jobs[j], Pending(jobs[j]))
  BY UpdatesKeepRowInv DEF QueueInv, TypeOK
<1>2. Pending(jobs[j]) \in JobRow
  BY <1>1, UpdatesAreRows
<1>3. QED
  BY <1>1, <1>2 DEF Recovered, RowStep, RowInv, Pending, JobRow

LEMMA NewRowInv == RowInv(Row("absent")) /\ RowInv(Row("pending"))
  BY DEF RowInv, Row

\* Each step of any client treats each row as one of those updates does.
LEMMA StepOfEachRow ==
  ASSUME QueueInv, [Next]_qvars, NEW k \in JobId
  PROVE  RowStep(jobs[k], jobs'[k])
<1>0. /\ jobs \in [JobId -> JobRow]
      /\ \A j \in JobId : jobs[j] \in JobRow /\ RowInv(jobs[j]) /\ RowStep(jobs[j], jobs[j])
  BY UpdatesKeepRowInv DEF QueueInv, TypeOK
<1>1. ASSUME NEW w \in Workers, WorkerStep(w) PROVE RowStep(jobs[k], jobs'[k])
  <2>1. ASSUME NEW j \in JobId, NEW scope \in SUBSET Places, Claim(w, j, scope)
        PROVE  RowStep(jobs[k], jobs'[k])
    <3>1. jobs[j].attempts < MaxAttempts /\ jobs' = [jobs EXCEPT ![j] = ClaimedBy(@, w)]
      BY <2>1 DEF Claim, Claimable
    <3>2. QED
      BY <1>0, <3>1, UpdatesKeepRowInv
  <2>2. ASSUME NEW j \in JobId, BindWorker(w, j) PROVE RowStep(jobs[k], jobs'[k])
    BY <1>0, <2>2 DEF BindWorker
  <2>3. CASE RegisterWorker(w)
    BY <1>0, <2>3 DEF RegisterWorker
  <2>4. CASE UnregisterWorker(w)
    BY <1>0, <2>4, UpdatesKeepRowInv DEF UnregisterWorker
  <2>5. QED
    BY <1>1, <2>1, <2>2, <2>3, <2>4 DEF WorkerStep
<1>2. ASSUME NEW j \in JobId, JobStep(j) PROVE RowStep(jobs[k], jobs'[k])
  <2>1. CASE AddJob(j)
    <3>1. CASE k = j /\ jobs[j].status = "absent"
      <4>1. jobs'[k] = Row("pending") /\ jobs[k] \in JobRow /\ RowInv(jobs[k])
        BY <1>0, <2>1, <3>1 DEF AddJob
      <4>2. jobs[k].requeues = 0
        BY <3>1, <4>1 DEF RowInv
      <4>3. QED
        BY <4>1, <4>2, NewRowInv DEF RowStep, Row
    <3>2. QED
      BY <1>0, <2>1, <3>1 DEF AddJob
  <2>2. ASSUME NEW output \in {"none", "evidence"}, Complete(j, output)
        PROVE  RowStep(jobs[k], jobs'[k])
    BY <1>0, <2>2, UpdatesKeepRowInv DEF Complete
  <2>3. ASSUME NEW error \in {"transient", "permanent"}, Fail(j, error)
        PROVE  RowStep(jobs[k], jobs'[k])
    BY <1>0, <2>3, UpdatesKeepRowInv DEF Fail, Errors
  <2>4. CASE Retry(j)
    BY <1>0, <2>4, UpdatesKeepRowInv DEF Retry
  <2>5. CASE RequeueCompleted(j)
    BY <1>0, <2>5, UpdatesKeepRowInv DEF RequeueCompleted
  <2>6. CASE Age(j)
    BY <1>0, <2>6, UpdatesKeepRowInv DEF Age
  <2>7. QED
    BY <1>2, <2>1, <2>2, <2>3, <2>4, <2>5, <2>6 DEF JobStep
<1>3. CASE MaintenanceStep
  <2>1. ASSUME NEW scope \in SUBSET JobId, NEW d \in BOOLEAN, RecoverOrphaned(scope, d)
        PROVE  RowStep(jobs[k], jobs'[k])
    BY <1>0, <2>1, RecoveredKeepsRowInv DEF RecoverOrphaned
  <2>2. ASSUME NEW scope \in SUBSET Places, CleanupUnclaimable(scope)
        PROVE  RowStep(jobs[k], jobs'[k])
    BY <1>0, <2>2, UpdatesKeepRowInv DEF CleanupUnclaimable, Exhausted
  <2>3. ASSUME NEW ids \in SUBSET Known, RequeueFailed(ids) PROVE RowStep(jobs[k], jobs'[k])
    BY <1>0, <2>3, UpdatesKeepRowInv DEF RequeueFailed
  <2>4. QED
    BY <1>3, <2>1, <2>2, <2>3 DEF MaintenanceStep
<1>4. CASE UNCHANGED qvars
  BY <1>0, <1>4 DEF qvars
<1>5. QED
  BY <1>1, <1>2, <1>3, <1>4 DEF Next

LEMMA QueueInvInitially == Init => QueueInv
  BY TypeInitially, NewRowInv DEF Init, QueueInv

LEMMA QueueInvStep == QueueInv /\ [Next]_qvars => QueueInv'
  BY TypeStep, StepOfEachRow DEF QueueInv, RowStep

LEMMA QueueInvariant == Spec => []QueueInv
  BY QueueInvInitially, QueueInvStep, PTL DEF Spec

\* No client leaves a row in processing without an owner, or an owner on a row
\* that waits or has failed.
THEOREM QueueOwnerRecorded == Spec => []OwnerRecorded
<1>1. QueueInv => OwnerRecorded
  BY DEF QueueInv, RowInv, OwnerRecorded
<1>2. QED
  BY <1>1, QueueInvariant, PTL

\* No mix of claims, refunds, recoveries and requeues takes attempts beyond
\* max_attempts, or a job into processing unpaid for.
THEOREM QueueAttemptBudget == Spec => []AttemptBudget
<1>1. QueueInv => AttemptBudget
  BY DEF QueueInv, RowInv, AttemptBudget
<1>2. QED
  BY <1>1, QueueInvariant, PTL

\* The count of partial retries only grows, and never beyond maxRequeues.
THEOREM QueueRequeueCount == Spec => RequeueCountNeverReset
<1>1. QueueInv /\ [Next]_qvars => [RequeueCountStep]_qvars
  BY StepOfEachRow DEF RowStep, RowInv, RequeueCountStep
<1>2. QED
  BY <1>1, QueueInvariant, PTL DEF Spec, RequeueCountNeverReset

(***************************************************************************)
(* The pipeline.                                                           *)
(***************************************************************************)

USE WorkersAssumption


(***************************************************************************)
(* The pipeline implements the queue's specification.                      *)
(***************************************************************************)

\* A worker inside its loop's body holds a job, and a scraper's batch is made of
\* ids of the table.
ClientInv ==
  /\ QueueInv
  /\ TypeOKWorkers
  /\ \A w \in Workers : /\ pc[w] \in Holding => cur[w] \in JobId
                        /\ batch[w] \subseteq Known

LEMMA JobOfIsJob ==
  ASSUME NEW j \in JobId, NEW t \in JobTypes
  PROVE  JobOf(t, j) \in JobId
  BY DEF JobOf, JobId

\* What a step of worker w does to the queue is something its clients may do.
LEMMA WorkerIsClient ==
  ASSUME ClientInv, NEW w \in Workers,
         Start(w) \/ Stop(w) \/ Crash(w) \/ Abandon(w) \/ LoopStep(w) \/ ProcessStep(w)
  PROVE  [Next]_qvars
<1> USE DEF Next, WorkerStep, JobStep, MaintenanceStep
<1>0. cur[w] \in JobId \/ pc[w] \notin Holding
  BY DEF ClientInv
<1>1. CASE Start(w)
  BY <1>1 DEF Start
<1>2. CASE Stop(w)
  BY <1>2 DEF Stop
<1>3. CASE Crash(w) \/ Abandon(w)
  BY <1>3 DEF Crash, Abandon
<1>4. CASE LoopStep(w)
  <2>1. CASE Sweep(w)
    BY <2>1 DEF Sweep
  <2>2. CASE SweepExhausted(w)
    BY <2>2 DEF SweepExhausted
  <2>3. CASE ReadFailed(w)
    BY <2>3 DEF ReadFailed
  <2>4. CASE RequeueRead(w)
    BY <2>4 DEF RequeueRead, ClientInv
  <2>5. CASE ClaimJob(w)
    <3>1. PICK j \in JobId : Claim(w, j, ScopeOf(w))
      BY <2>5 DEF ClaimJob
    <3>2. ScopeOf(w) \in SUBSET Places
      BY DEF ScopeOf
    <3>3. QED
      BY <3>1, <3>2
  <2>6. CASE BindJob(w)
    BY <1>0, <2>6 DEF BindJob, Goto, Holding
  <2>7. QED
    BY <1>4, <2>1, <2>2, <2>3, <2>4, <2>5, <2>6 DEF LoopStep
<1>5. CASE ProcessStep(w)
  <2>1. CASE HandOff(w)
    <3>1. cur[w] \in JobId
      BY <1>0, <2>1 DEF HandOff, Goto, Holding, Working
    <3>2. QED
      BY <2>1, <3>1, JobOfIsJob DEF HandOff, JobTypes
  <2>2. CASE FileMenu(w)
    <3>1. cur[w] \in JobId
      BY <1>0, <2>2 DEF FileMenu, Goto, Holding, Working
    <3>2. QED
      BY <2>2, <3>1, JobOfIsJob DEF FileMenu, JobTypes
  <2>3. CASE WriteCanonical(w) \/ WriteMenu(w) \/ ReadPlace(w)
    BY <2>3 DEF ReadPlace, WriteCanonical, WriteMenu
  <2>4. CASE FinishWithOutput(w)
    BY <1>0, <2>4 DEF FinishWithOutput, LetGo, Goto, Holding, Working
  <2>5. CASE FinishEmpty(w)
    BY <1>0, <2>5 DEF FinishEmpty, LetGo, Goto, Holding, Working
  <2>6. CASE FinishFailed(w)
    BY <1>0, <2>6 DEF FinishFailed, LetGo, Goto, Holding
  <2>7. CASE GiveBack(w)
    BY <1>0, <2>7 DEF GiveBack, LetGo, Goto, Holding, Working
  <2>8. QED
    BY <1>5, <2>1, <2>2, <2>3, <2>4, <2>5, <2>6, <2>7 DEF ProcessStep
<1>6. QED
  BY <1>1, <1>2, <1>3, <1>4, <1>5

LEMMA ProcessIsClient == ClientInv /\ [NextWorkers]_vars => [Next]_qvars
<1> SUFFICES ASSUME ClientInv, [NextWorkers]_vars PROVE [Next]_qvars
  OBVIOUS
<1>1. ASSUME NEW j \in JobId, OtherStep(j) PROVE [Next]_qvars
  BY <1>1 DEF OtherStep, Populate, FeedPartial, ReconcileRetry, Elapse, Next, JobStep
<1>2. CASE ReconcileList
  BY <1>2 DEF ReconcileList
<1>3. CASE OperatorRecover
  BY <1>3 DEF OperatorRecover, Next, MaintenanceStep
<1>4. CASE UNCHANGED vars
  BY <1>4 DEF vars
<1>5. QED
  BY <1>1, <1>2, <1>3, <1>4, WorkerIsClient DEF NextWorkers

LEMMA ClientInvInitially == InitWorkers => ClientInv
<1> SUFFICES ASSUME InitWorkers PROVE ClientInv
  OBVIOUS
<1>1. QueueInv
  BY QueueInvInitially DEF InitWorkers
<1>2. TypeOKWorkers
  BY <1>1 DEF InitWorkers, TypeOKWorkers, QueueInv, Locations, Holding, Working
<1>3. QED
  BY <1>1, <1>2 DEF InitWorkers, ClientInv, Holding, Working

\* Steps of the queue delete no row.
LEMMA KnownGrows ==
  ASSUME QueueInv, [Next]_qvars
  PROVE  Known \subseteq Known'
  BY StepOfEachRow DEF RowStep, Known

LEMMA TypeWorkersStep ==
  ASSUME ClientInv, TypeOK', [NextWorkers]_vars
  PROVE  TypeOKWorkers'
<1> USE DEF TypeOKWorkers, ClientInv, Holding, Working
<1>1. ASSUME NEW w \in Workers, Start(w) \/ Stop(w) \/ Crash(w) \/ Abandon(w)
      PROVE  TypeOKWorkers'
  BY <1>1 DEF Start, Stop, Crash, Abandon, Goto, LetGo, Locations
<1>2. ASSUME NEW w \in Workers, LoopStep(w) PROVE TypeOKWorkers'
  <2>1. CASE Sweep(w)
    BY <2>1 DEF Sweep, pvars
  <2>2. CASE SweepExhausted(w)
    BY <2>2 DEF SweepExhausted, Goto, Locations
  <2>3. CASE ReadFailed(w)
    <3>1. RequeueCandidates(Scope[w]) \in SUBSET JobId
      BY DEF RequeueCandidates
    <3>2. QED
      BY <2>3, <3>1 DEF ReadFailed, Goto, Locations
  <2>4. CASE RequeueRead(w)
    BY <2>4 DEF RequeueRead, Goto, Locations
  <2>5. CASE ClaimJob(w)
    BY <2>5 DEF ClaimJob, Goto, Locations
  <2>6. CASE BindJob(w)
    BY <2>6 DEF BindJob, Goto, Locations
  <2>7. QED
    BY <1>2, <2>1, <2>2, <2>3, <2>4, <2>5, <2>6 DEF LoopStep
<1>3. ASSUME NEW w \in Workers, ProcessStep(w) PROVE TypeOKWorkers'
  <2>1. CASE ReadPlace(w) \/ HandOff(w) \/ FileMenu(w) \/ WriteMenu(w)
    BY <2>1 DEF ReadPlace, HandOff, FileMenu, WriteMenu, Goto, Locations, Holding, Working
  <2>2. CASE WriteCanonical(w)
    <3>1. pc[w] \in Holding
      BY <2>2 DEF WriteCanonical, Goto, Holding, Working
    <3>2. pc' \in [Workers -> Locations]
      BY <2>2 DEF WriteCanonical, Goto, Locations, Holding, Working
    <3>3. classified' \subseteq Places
      BY <2>2, <3>1 DEF WriteCanonical, JobId
    <3>4. QED
      BY <2>2, <3>2, <3>3 DEF WriteCanonical, Goto
  <2>3. CASE FinishWithOutput(w) \/ FinishEmpty(w) \/ FinishFailed(w) \/ GiveBack(w)
    BY <2>3 DEF FinishWithOutput, FinishEmpty, FinishFailed, GiveBack, LetGo, Goto, Locations
  <2>4. QED
    BY <1>3, <2>1, <2>2, <2>3 DEF ProcessStep
<1>4. ASSUME NEW j \in JobId, OtherStep(j) PROVE TypeOKWorkers'
  BY <1>4 DEF OtherStep, Populate, FeedPartial, ReconcileRetry, Elapse, pvars
<1>5. CASE ReconcileList
  BY <1>5 DEF ReconcileList, Orphans
<1>6. CASE OperatorRecover
  BY <1>6 DEF OperatorRecover, pvars
<1>7. CASE UNCHANGED vars
  BY <1>7 DEF vars, pvars
<1>8. QED
  BY <1>1, <1>2, <1>3, <1>4, <1>5, <1>6, <1>7 DEF NextWorkers

\* The job a worker is given is one, and its batch is read from the table.
LEMMA LoopLocals ==
  ASSUME ClientInv, [NextWorkers]_vars, TypeOKWorkers', NEW v \in Workers
  PROVE  /\ pc'[v] \in Holding => cur'[v] \in JobId
         /\ batch'[v] \subseteq Known
<1> USE DEF ClientInv, TypeOKWorkers
<1>1. ASSUME NEW w \in Workers, Start(w) \/ Stop(w) \/ Crash(w) \/ Abandon(w)
      PROVE  pc'[v] \in Holding => cur'[v] \in JobId
  BY <1>1 DEF Start, Stop, Crash, Abandon, Goto, LetGo, Holding, Working
<1>2. ASSUME NEW w \in Workers, LoopStep(w)
      PROVE  pc'[v] \in Holding => cur'[v] \in JobId
  BY <1>2 DEF LoopStep, Sweep, SweepExhausted, ReadFailed, RequeueRead, ClaimJob, BindJob, Goto,
              pvars, Holding, Working
<1>3. ASSUME NEW w \in Workers, ProcessStep(w)
      PROVE  pc'[v] \in Holding => cur'[v] \in JobId
  BY <1>3 DEF ProcessStep, ReadPlace, HandOff, FileMenu, WriteCanonical, WriteMenu,
    FinishWithOutput, FinishEmpty, FinishFailed, GiveBack, LetGo, Goto, Holding, Working
<1>4. ASSUME NEW w \in Workers,
             Start(w) \/ Stop(w) \/ Crash(w) \/ Abandon(w) \/ LoopStep(w) \/ ProcessStep(w)
      PROVE  batch'[v] \subseteq Known
  <2>1. CASE ReadFailed(w)
    <3>1. RequeueCandidates(Scope[w]) \subseteq Known
      BY DEF RequeueCandidates, Known
    <3>2. QED
      BY <2>1, <3>1 DEF ReadFailed
  <2>2. CASE Start(w) \/ Stop(w) \/ Crash(w) \/ Abandon(w)
    BY <2>2 DEF Start, Stop, Crash, Abandon, LetGo
  <2>3. CASE LoopStep(w) /\ ~ ReadFailed(w)
    BY <2>3 DEF LoopStep, Sweep, SweepExhausted, RequeueRead, ClaimJob, BindJob, pvars
  <2>4. CASE ProcessStep(w)
    BY <2>4 DEF ProcessStep, ReadPlace, HandOff, FileMenu, WriteCanonical, WriteMenu,
      FinishWithOutput, FinishEmpty, FinishFailed, GiveBack, LetGo
  <2>5. QED
    BY <1>4, <2>1, <2>2, <2>3, <2>4
<1>5. ASSUME (\E j \in JobId : OtherStep(j)) \/ ReconcileList \/ OperatorRecover
      PROVE  UNCHANGED <<pc, cur, batch>>
  BY <1>5 DEF OtherStep, Populate, FeedPartial, ReconcileRetry, Elapse, ReconcileList,
              OperatorRecover, pvars
<1>6. CASE UNCHANGED vars
  BY <1>6 DEF vars, pvars
<1>7. QED
  BY <1>1, <1>2, <1>3, <1>4, <1>5, <1>6 DEF NextWorkers

LEMMA ClientInvStep == ClientInv /\ [NextWorkers]_vars => ClientInv'
<1> SUFFICES ASSUME ClientInv, [NextWorkers]_vars PROVE ClientInv'
  OBVIOUS
<1>1. QueueInv' /\ Known \subseteq Known'
  BY ProcessIsClient, QueueInvStep, KnownGrows DEF ClientInv
<1>2. TypeOKWorkers'
  BY <1>1, TypeWorkersStep DEF QueueInv
<1>3. \A w \in Workers : (pc'[w] \in Holding => cur'[w] \in JobId) /\ batch'[w] \subseteq Known
  BY <1>2, LoopLocals
<1>4. QED
  BY <1>1, <1>2, <1>3 DEF ClientInv

LEMMA ClientInvariant == SpecWorkers => []ClientInv
  BY ClientInvInitially, ClientInvStep, PTL DEF SpecWorkers

\* The workers' locations and jobs keep their types in every deployment.
THEOREM PipelineTypeCorrect == SpecWorkers => []TypeOKWorkers
<1>1. ClientInv => TypeOKWorkers
  BY DEF ClientInv
<1>2. QED
  BY <1>1, ClientInvariant, PTL

\* Whatever its processes do, crashes, reused ids and late calls included, the
\* pipeline is a client of the queue: each of its steps is one of the queue's
\* operations or leaves the tables alone.
THEOREM PipelineImplementsQueue == SpecWorkers => UsesQueue
<1>1. InitWorkers => Init
  BY DEF InitWorkers
<1>2. QED
  BY <1>1, ProcessIsClient, ClientInvariant, PTL DEF SpecWorkers, Spec, UsesQueue

(***************************************************************************)
(* Under the following conditions a job has one worker at a time.  The     *)
(* counterexamples of RequeuesOnlyFailed, ReconcileSparesWorkers and       *)
(* RecoversOnlyOrphans show why they are there.                            *)
(***************************************************************************)

SafeDeployment ==
  /\ ~ ReusedIds /\ ~ BusyQueue /\ ~ SlowBinding /\ ~ ManualRecover /\ ~ Reconciler
  /\ RequeueBatch => \A v, w \in Scrapers : v # w => Scope[v] \cap Scope[w] = {}

\* A worker that holds a job is the owner in the job's row ...
Owns(w) ==
  /\ pc[w] \in Holding => cur[w].type = AgentType(w) /\ Processing(cur[w], w)
  /\ pc[w] = "claimed" => jobs[cur[w]].age = "recent"

\* ... and, unless it is a menu parser, has a row that says so: no sweep finds
\* its job detached, except between claim()'s two writes, when it is recent.
Attached(w) ==
  w \notin Parsers =>
    /\ pc[w] # "off" => workers[w].status # "none"
    /\ pc[w] \in Working => workers[w] = [status |-> "working", current |-> cur[w]]

\* A job in processing is in its owner's hands, or the owner has crashed for good.
Accounted(w) ==
  /\ pc[w] # "off" => w \in started
  /\ \A j \in JobId : Processing(j, w) =>
       \/ pc[w] \in Holding /\ cur[w] = j
       \/ pc[w] = "off" /\ w \in started

\* A scraper's batch holds jobs of its own scope, which have remained failed.
BatchFailed(w) ==
  /\ batch[w] # {} => pc[w] = "requeue"
  /\ pc[w] \in {"swept", "requeue"} => RequeueBatch /\ w \in Scrapers
  /\ \A j \in batch[w] : j.type = "scrape" /\ j.place \in Scope[w] /\ jobs[j].status = "failed"

WorkerInv(w) == Owns(w) /\ Attached(w) /\ Accounted(w) /\ BatchFailed(w)

ExclusiveInv == ClientInv /\ doomed = {} /\ \A w \in Workers : WorkerInv(w)

\* What a step must leave of the tables for worker v to keep its invariant.
Spared(v) ==
  /\ \A j \in JobId : (jobs'[j].status = "processing" /\ jobs'[j].worker = v) => Processing(j, v)
  /\ pc[v] \in Holding => jobs'[cur[v]].status = "processing" /\ jobs'[cur[v]].worker = v
  /\ pc[v] = "claimed" => jobs'[cur[v]].age = "recent"
  /\ \A j \in batch[v] : jobs'[j].status = "failed"
  /\ (v \notin Parsers /\ pc[v] # "off") => workers'[v].status # "none"
  /\ (v \notin Parsers /\ pc[v] \in Working) => workers'[v] = workers[v]

LEMMA SparedKeepsInv ==
  ASSUME ExclusiveInv, NEW v \in Workers, Spared(v), started \subseteq started',
         pc'[v] = pc[v], cur'[v] = cur[v], batch'[v] = batch[v]
  PROVE  WorkerInv(v)'
<1> USE DEF ExclusiveInv, WorkerInv, Spared, Holding
<1>1. Owns(v)'
  BY DEF Owns, Processing
<1>2. Attached(v)'
  BY DEF Attached
<1>3. Accounted(v)'
  BY DEF Accounted, Processing
<1>4. BatchFailed(v)'
  BY DEF BatchFailed
<1>5. QED
  BY <1>1, <1>2, <1>3, <1>4

\* What the invariant says of worker v, as the operations are held against it.
Facts(v) ==
  /\ pc[v] \in Holding => /\ cur[v] \in JobId
                          /\ cur[v].type = AgentType(v)
                          /\ jobs[cur[v]].status = "processing"
                          /\ jobs[cur[v]].worker = v
  /\ pc[v] = "claimed" => jobs[cur[v]].age = "recent"
  /\ \A j \in batch[v] : /\ j \in JobId
                         /\ jobs[j].status = "failed"
                         /\ j.type = "scrape"
                         /\ v \in Scrapers
                         /\ j.place \in Scope[v]
  /\ (v \notin Parsers /\ pc[v] # "off") => workers[v].status # "none"
  /\ (v \notin Parsers /\ pc[v] \in Working) =>
       workers[v] = [status |-> "working", current |-> cur[v]]

LEMMA FactsHold ==
  ExclusiveInv => /\ jobs \in [JobId -> JobRow]
                  /\ workers \in [Workers -> WorkerRow]
                  /\ \A v \in Workers : Facts(v)
<1> SUFFICES ASSUME ExclusiveInv
             PROVE  /\ jobs \in [JobId -> JobRow]
                    /\ workers \in [Workers -> WorkerRow]
                    /\ \A v \in Workers : Facts(v)
  OBVIOUS
<1>1. /\ jobs \in [JobId -> JobRow]
      /\ workers \in [Workers -> WorkerRow]
      /\ batch \in [Workers -> SUBSET JobId]
  BY DEF ExclusiveInv, ClientInv, TypeOKWorkers, TypeOK
<1>2. ASSUME NEW v \in Workers PROVE Facts(v)
  <2>1. pc[v] \in Holding => cur[v] \in JobId
    BY DEF ExclusiveInv, ClientInv
  <2>2. Owns(v) /\ Attached(v) /\ BatchFailed(v)
    BY DEF ExclusiveInv, WorkerInv
  <2>3. QED
    BY <1>1, <2>1, <2>2 DEF Owns, Attached, BatchFailed, Processing, Facts
<1>3. QED
  BY <1>1, <1>2

\* Operations that spare every worker.
LEMMA HarmlessSpares ==
  ASSUME ExclusiveInv, NEW v \in Workers,
         \/ UNCHANGED qvars
         \/ \E k \in JobId : AddJob(k) \/ RequeueCompleted(k)
         \/ \E scope \in SUBSET Places : CleanupUnclaimable(scope)
  PROVE  Spared(v)
<1>0. jobs \in [JobId -> JobRow] /\ workers \in [Workers -> WorkerRow] /\ Facts(v)
  BY FactsHold
<1> USE DEF Spared, Processing, Facts, Holding
<1>1. CASE UNCHANGED qvars
  BY <1>0, <1>1 DEF qvars
<1>2. ASSUME NEW k \in JobId, AddJob(k) PROVE Spared(v)
  BY <1>0, <1>2 DEF AddJob, Row
<1>3. ASSUME NEW k \in JobId, RequeueCompleted(k) PROVE Spared(v)
  <2>1. jobs[k].status = "completed" /\ jobs' = [jobs EXCEPT ![k] = Reopened(@)]
        /\ workers' = workers
    BY <1>3 DEF RequeueCompleted
  <2>2. Reopened(jobs[k]).status = "pending"
    BY <1>0 DEF Reopened, Pending, JobRow
  <2>3. QED
    BY <1>0, <2>1, <2>2
<1>4. ASSUME NEW scope \in SUBSET Places, CleanupUnclaimable(scope) PROVE Spared(v)
  BY <1>0, <1>4 DEF CleanupUnclaimable, Exhausted, JobRow
<1>5. QED
  BY <1>1, <1>2, <1>3, <1>4

\* Another worker's registration, claim and release spare v.
LEMMA LoopOfOthersSpares ==
  ASSUME ExclusiveInv, NEW v \in Workers, NEW x \in Workers, x # v,
         \/ RegisterWorker(x) \/ UnregisterWorker(x)
         \/ \E k \in JobId : (\E scope \in SUBSET Places : Claim(x, k, scope)) \/ BindWorker(x, k)
  PROVE  Spared(v)
<1>0. jobs \in [JobId -> JobRow] /\ workers \in [Workers -> WorkerRow] /\ Facts(v)
  BY FactsHold
<1> USE DEF Spared, Processing, Facts, Holding
<1>1. CASE RegisterWorker(x)
  BY <1>0, <1>1 DEF RegisterWorker
<1>2. CASE UnregisterWorker(x)
  <2>1. \A j \in JobId : Pending(jobs[j]).status = "pending"
    BY <1>0 DEF Pending, JobRow
  <2>2. /\ \A j \in JobId : jobs'[j] = IF Processing(j, x) THEN Pending(jobs[j]) ELSE jobs[j]
        /\ workers'[v] = workers[v]
    BY <1>0, <1>2 DEF UnregisterWorker
  <2>3. \A j \in JobId : jobs[j].worker = v \/ jobs[j].status = "failed" => jobs'[j] = jobs[j]
    BY <2>2
  <2>4. QED
    BY <1>0, <2>1, <2>2, <2>3
<1>3. ASSUME NEW k \in JobId, NEW scope \in SUBSET Places, Claim(x, k, scope) PROVE Spared(v)
  <2>1. jobs[k].status = "pending" /\ jobs' = [jobs EXCEPT ![k] = ClaimedBy(@, x)]
        /\ workers' = workers
    BY <1>3 DEF Claim, Claimable
  <2>2. ClaimedBy(jobs[k], x).worker = x
    BY <1>0 DEF ClaimedBy, JobRow
  <2>3. QED
    BY <1>0, <2>1, <2>2
<1>4. ASSUME NEW k \in JobId, BindWorker(x, k) PROVE Spared(v)
  BY <1>0, <1>4 DEF BindWorker
<1>5. QED
  BY <1>1, <1>2, <1>3, <1>4

\* So does another worker's finishing with its job, which is not v's.
LEMMA FinishOfOthersSpares ==
  ASSUME ExclusiveInv, NEW v \in Workers, NEW x \in Workers, x # v, pc[x] \in Holding,
         \/ \E output \in {"none", "evidence"} : Complete(cur[x], output)
         \/ \E error \in {"transient", "permanent"} : Fail(cur[x], error)
         \/ Retry(cur[x])
  PROVE  Spared(v)
<1> DEFINE k == cur[x]
<1>0. jobs \in [JobId -> JobRow] /\ workers \in [Workers -> WorkerRow] /\ Facts(v) /\ Facts(x)
  BY FactsHold
<1>1. PICK row : /\ jobs' = [jobs EXCEPT ![k] = row]
                 /\ row.status # "processing"
                 /\ workers' = Idled({x})
  <2>1. k \in JobId /\ jobs[k] \in JobRow /\ jobs[k].worker = x
    BY <1>0 DEF Facts
  <2>2. ASSUME NEW output \in {"none", "evidence"}, Complete(k, output)
        PROVE  /\ jobs' = [jobs EXCEPT ![k] = Completed(jobs[k], output)]
               /\ Completed(jobs[k], output).status # "processing"
               /\ workers' = Idled({x})
    BY <2>1, <2>2 DEF Complete, Completed, JobRow
  <2>3. ASSUME NEW error \in {"transient", "permanent"}, Fail(k, error)
        PROVE  /\ jobs' = [jobs EXCEPT ![k] = Failed(jobs[k], error)]
               /\ Failed(jobs[k], error).status # "processing"
               /\ workers' = Idled({x})
    BY <2>1, <2>3 DEF Fail, Failed, JobRow
  <2>4. ASSUME Retry(k)
        PROVE  /\ jobs' = [jobs EXCEPT ![k] = Refunded(jobs[k])]
               /\ Refunded(jobs[k]).status # "processing"
               /\ workers' = Idled({x})
    BY <2>1, <2>4 DEF Retry, Refunded, Pending, JobRow
  <2>5. QED
    BY <2>2, <2>3, <2>4
<1>2. k \in JobId /\ (pc[v] \in Holding => cur[v] # k) /\ k \notin batch[v]
  BY <1>0 DEF Facts
<1>3. /\ \A j \in JobId : j # k => jobs'[j] = jobs[j]
      /\ jobs'[k].status # "processing"
      /\ workers'[v] = workers[v]
  BY <1>0, <1>1, <1>2 DEF Idled
<1>4. QED
  BY <1>0, <1>2, <1>3 DEF Spared, Facts, Processing, Holding

\* A sweep finds no job that a worker holds.
LEMMA SweepSpares ==
  ASSUME ExclusiveInv, NEW v \in Workers, NEW scope \in SUBSET JobId,
         \A j \in scope : j.type # "menu_parse", RecoverOrphaned(scope, TRUE)
  PROVE  Spared(v)
<1> DEFINE orphans == Orphans(scope, TRUE)
<1>0. jobs \in [JobId -> JobRow] /\ workers \in [Workers -> WorkerRow] /\ \A w \in Workers : Facts(w)
  BY FactsHold
<1>1. /\ jobs' = [j \in JobId |-> IF j \in orphans THEN Recovered(j) ELSE jobs[j]]
      /\ workers' = Idled({jobs[j].worker : j \in orphans})
  BY DEF RecoverOrphaned
<1>2. ASSUME NEW w \in Workers, pc[w] \in Holding PROVE cur[w] \notin orphans
  <2>1. CASE w \in Parsers
    <3>1. AgentType(w) = "menu_parse"
      BY <2>1 DEF AgentType
    <3>2. cur[w].type = "menu_parse"
      BY <1>0, <1>2, <3>1 DEF Facts
    <3>3. QED
      BY <3>2 DEF Orphans
  <2>2. CASE pc[w] = "claimed"
    BY <1>0, <2>2 DEF Orphans, Facts
  <2>3. CASE w \notin Parsers /\ pc[w] \in Working
    <3>1. jobs[cur[w]].worker = w /\ workers[w] = [status |-> "working", current |-> cur[w]]
      BY <1>0, <2>3 DEF Facts, Holding
    <3>2. w # None
      OBVIOUS
    <3>3. QED
      BY <3>1, <3>2 DEF Orphans, Detached
  <2>4. QED
    BY <1>2, <2>1, <2>2, <2>3 DEF Holding
<1>3. pc[v] \in Holding => v \notin {jobs[j].worker : j \in orphans}
  <2>1. ASSUME pc[v] \in Holding, NEW j \in orphans, jobs[j].worker = v PROVE FALSE
    <3>1. j \in JobId /\ Processing(j, v)
      BY <2>1 DEF Orphans, Processing
    <3>2. cur[v] = j
      BY <2>1, <3>1 DEF ExclusiveInv, WorkerInv, Accounted, Holding, Working
    <3>3. QED
      BY <1>2, <2>1, <3>2
  <2>2. QED
    BY <2>1
<1>4. \A j \in orphans : jobs[j].status = "processing"
  BY DEF Orphans
<1>5. \A j \in JobId : Recovered(j).status # "processing"
  BY <1>0 DEF Recovered, Pending, JobRow
<1>6. /\ \A j \in JobId \ orphans : jobs'[j] = jobs[j]
      /\ \A j \in orphans : jobs'[j].status # "processing"
      /\ pc[v] \in Holding => workers'[v] = workers[v]
      /\ workers[v].status # "none" => workers'[v].status # "none"
  BY <1>1, <1>3, <1>5 DEF Idled, IdleRow, Orphans
<1>7. pc[v] \in Holding => cur[v] \notin orphans /\ cur[v] \in JobId
  BY <1>0, <1>2 DEF Facts
<1>8. \A j \in batch[v] : j \in JobId \ orphans
  BY <1>0, <1>4 DEF Facts
<1>9. \A j \in JobId : (jobs'[j].status = "processing" /\ jobs'[j].worker = v) => Processing(j, v)
  BY <1>6 DEF Processing
<1>10. /\ pc[v] \in Holding => jobs'[cur[v]] = jobs[cur[v]]
       /\ \A j \in batch[v] : jobs'[j] = jobs[j]
  BY <1>6, <1>7, <1>8
<1>11. Facts(v)
  BY <1>0
<1>12. pc[v] \in Working \/ pc[v] = "claimed" => pc[v] \in Holding
  BY DEF Holding
<1>13. QED
  BY <1>6, <1>9, <1>10, <1>11, <1>12 DEF Spared, Facts

\* Another scraper's batch is of another scope.
LEMMA RequeueSpares ==
  ASSUME ExclusiveInv, SafeDeployment, NEW v \in Workers, NEW x \in Workers, x # v,
         RequeueFailed(batch[x])
  PROVE  Spared(v)
<1>0. jobs \in [JobId -> JobRow] /\ Facts(v) /\ Facts(x)
  BY FactsHold
<1>1. \A j \in batch[x] : jobs[j].status = "failed" /\ j \notin batch[v]
  <2>1. \A w \in Workers : BatchFailed(w)
    BY DEF ExclusiveInv, WorkerInv
  <2>2. QED
    BY <1>0, <2>1 DEF SafeDeployment, Facts, BatchFailed
<1>2. \A j \in JobId : Requeued(jobs[j]).status = "pending"
  BY <1>0 DEF Requeued, Pending, JobRow
<1>3. /\ \A j \in JobId : jobs'[j] = IF j \in batch[x] THEN Requeued(jobs[j]) ELSE jobs[j]
      /\ workers' = workers
  BY <1>0 DEF RequeueFailed
<1>4. QED
  BY <1>0, <1>1, <1>2, <1>3 DEF Spared, Facts, Processing, Holding

\* Time does not pass the cutoff between claim()'s writes.
LEMMA ElapseSpares ==
  ASSUME ExclusiveInv, SafeDeployment, NEW v \in Workers, NEW k \in JobId, Elapse(k)
  PROVE  Spared(v)
<1>0. jobs \in [JobId -> JobRow] /\ workers \in [Workers -> WorkerRow] /\ Facts(v)
  BY FactsHold
<1>1. /\ jobs[k].status = "processing"
      /\ jobs' = [jobs EXCEPT ![k].age = "stale"]
      /\ workers' = workers
      /\ pc[v] = "claimed" => cur[v] # k
  BY DEF Elapse, Age, SafeDeployment
<1>2. \A j \in JobId : jobs'[j].status = jobs[j].status /\ jobs'[j].worker = jobs[j].worker
  BY <1>0, <1>1 DEF JobRow
<1>3. \A j \in JobId : j # k => jobs'[j] = jobs[j]
  BY <1>0, <1>1
<1>4. QED
  BY <1>0, <1>1, <1>2, <1>3 DEF Spared, Facts, Processing, Holding

\* A worker that moves between locations without holding a job.
LEMMA MoveKeepsInv ==
  ASSUME ExclusiveInv, NEW w \in Workers, Spared(w), w \in started', pc[w] \notin Holding,
         pc[w] # "off", pc'[w] \in {"loop", "swept", "requeue"},
         pc'[w] # "loop" => RequeueBatch /\ w \in Scrapers,
         \/ batch'[w] = {}
         \/ pc'[w] = "requeue" /\ \A j \in batch'[w] : /\ j.type = "scrape"
                                                       /\ j.place \in Scope[w]
                                                       /\ jobs'[j].status = "failed"
  PROVE  WorkerInv(w)'
<1> USE DEF ExclusiveInv, WorkerInv, Spared, Holding, Working
<1>1. Owns(w)'
  BY DEF Owns
<1>2. Attached(w)'
  BY DEF Attached
<1>3. Accounted(w)'
  BY DEF Accounted, Processing
<1>4. BatchFailed(w)'
  BY DEF BatchFailed
<1>5. QED
  BY <1>1, <1>2, <1>3, <1>4

\* A worker that goes on with the job it holds.
LEMMA WorkKeepsInv ==
  ASSUME ExclusiveInv, NEW w \in Workers, Spared(w), w \in started',
         pc[w] \in Working, pc'[w] \in Working, cur'[w] = cur[w], batch'[w] = batch[w]
  PROVE  WorkerInv(w)'
<1> USE DEF ExclusiveInv, WorkerInv, Spared, Holding, Working
<1>1. Owns(w)'
  BY DEF Owns, Processing
<1>2. Attached(w)'
  BY DEF Attached
<1>3. Accounted(w)'
  BY DEF Accounted, Processing
<1>4. BatchFailed(w)'
  BY DEF BatchFailed
<1>5. QED
  BY <1>1, <1>2, <1>3, <1>4

\* Starting, stopping and crashing.
LEMMA LifeKeepsInv ==
  ASSUME ExclusiveInv, SafeDeployment, NEW w \in Workers, Start(w) \/ Stop(w) \/ Crash(w),
         NEW v \in Workers
  PROVE  WorkerInv(v)'
<1>0. /\ jobs \in [JobId -> JobRow] /\ workers \in [Workers -> WorkerRow]
      /\ pc \in [Workers -> Locations] /\ cur \in [Workers -> JobId \cup {None}]
      /\ batch \in [Workers -> SUBSET JobId]
      /\ WorkerInv(w)
  BY FactsHold DEF ExclusiveInv, ClientInv, TypeOKWorkers
<1>1. CASE v # w
  <2>1. Spared(v)
    <3>1. UNCHANGED qvars \/ RegisterWorker(w) \/ UnregisterWorker(w)
      BY DEF Start, Stop, Crash
    <3>2. QED
      BY <1>1, <3>1, HarmlessSpares, LoopOfOthersSpares
  <2>2. pc'[v] = pc[v] /\ cur'[v] = cur[v] /\ batch'[v] = batch[v] /\ started \subseteq started'
    BY <1>0, <1>1 DEF Start, Stop, Crash, Goto
  <2>3. QED
    BY <2>1, <2>2, SparedKeepsInv
<1>2. CASE v = w /\ Start(w)
  <2>1. /\ pc[w] = "off" /\ w \notin started /\ pc'[w] = "loop" /\ w \in started'
        /\ batch'[w] = batch[w] /\ jobs' = jobs
        /\ w \notin Parsers => workers'[w].status = "idle"
    BY <1>0, <1>2 DEF Start, Goto, SafeDeployment, RegisterWorker, WorkerRow, qvars
  <2>2. (\A j \in JobId : ~ Processing(j, w)) /\ batch[w] = {}
    BY <1>0, <2>1 DEF WorkerInv, Accounted, BatchFailed, Holding, Working
  <2>3. QED
    BY <1>2, <2>1, <2>2 DEF WorkerInv, Owns, Attached, Accounted, BatchFailed, Processing, Holding,
                            Working
<1>3. CASE v = w /\ Stop(w)
  <2>1. /\ pc[w] = "loop" /\ pc'[w] = "off" /\ batch'[w] = batch[w]
        /\ jobs' = [j \in JobId |-> IF Processing(j, w) THEN Pending(jobs[j]) ELSE jobs[j]]
           \/ jobs' = jobs
    BY <1>0, <1>3 DEF Stop, Goto, UnregisterWorker, qvars
  <2>2. (\A j \in JobId : ~ Processing(j, w)) /\ batch[w] = {}
    BY <1>0, <2>1 DEF WorkerInv, Accounted, BatchFailed, Holding, Working
  <2>3. \A j \in JobId : jobs'[j] = jobs[j]
    BY <1>0, <2>1, <2>2
  <2>4. QED
    BY <1>3, <2>1, <2>2, <2>3 DEF WorkerInv, Owns, Attached, Accounted, BatchFailed, Processing,
                                  Holding, Working
<1>4. CASE v = w /\ Crash(w)
  <2>1. pc[w] # "off" /\ pc'[w] = "off" /\ batch'[w] = {} /\ jobs' = jobs /\ started' = started
    BY <1>0, <1>4, FactsHold DEF Crash, Goto, qvars, ExclusiveInv, ClientInv, TypeOKWorkers
  <2>2. QED
    BY <1>0, <1>4, <2>1 DEF WorkerInv, Owns, Attached, Accounted, BatchFailed, Processing, Holding,
                            Working
<1>5. QED
  BY <1>1, <1>2, <1>3, <1>4

\* The head of the loop.
LEMMA LoopKeepsInv ==
  ASSUME ExclusiveInv, SafeDeployment, NEW w \in Workers, LoopStep(w), NEW v \in Workers
  PROVE  WorkerInv(v)'
<1>0. /\ jobs \in [JobId -> JobRow] /\ workers \in [Workers -> WorkerRow]
      /\ pc \in [Workers -> Locations] /\ cur \in [Workers -> JobId \cup {None}]
      /\ batch \in [Workers -> SUBSET JobId]
      /\ Facts(w) /\ WorkerInv(w)
  BY FactsHold DEF ExclusiveInv, ClientInv, TypeOKWorkers
<1>1. pc[w] # "off" => w \in started
  BY <1>0 DEF WorkerInv, Accounted
<1>2. CASE Sweep(w)
  <2>1. ScopeOf(w) \subseteq Places /\ AgentType(w) # "menu_parse"
    BY <1>2 DEF Sweep, ScopeOf, AgentType
  <2>2. Spared(v)
    BY <1>2, <2>1, SweepSpares DEF Sweep
  <2>3. QED
    BY <1>2, <2>2, SparedKeepsInv DEF Sweep, pvars
<1>3. ASSUME v # w, Spared(v), ~ Sweep(w) PROVE WorkerInv(v)'
  <2>1. pc'[v] = pc[v] /\ cur'[v] = cur[v] /\ batch'[v] = batch[v] /\ started' = started
    BY <1>0, <1>3 DEF LoopStep, SweepExhausted, ReadFailed, RequeueRead, ClaimJob, BindJob, Goto
  <2>2. QED
    BY <1>3, <2>1, SparedKeepsInv
<1>4. CASE SweepExhausted(w)
  <2>1. Spared(v)
    BY <1>4, HarmlessSpares DEF SweepExhausted, SafeDeployment
  <2>2. /\ pc[w] = "loop" /\ pc'[w] \in {"loop", "swept"} /\ RequeueBatch /\ w \in Scrapers
        /\ batch[w] = {} /\ batch' = batch /\ started' = started
    BY <1>0, <1>4 DEF SweepExhausted, Goto, WorkerInv, BatchFailed
  <2>3. v = w => WorkerInv(v)'
    BY <1>1, <2>1, <2>2, MoveKeepsInv DEF Holding, Working
  <2>4. QED
    BY <1>2, <1>3, <2>1, <2>3
<1>5. CASE ReadFailed(w)
  <2>1. Spared(v)
    BY <1>5, HarmlessSpares DEF ReadFailed
  <2>2. /\ pc[w] = "swept" /\ w \in Scrapers /\ RequeueBatch /\ started' = started /\ jobs' = jobs
        /\ batch'[w] \subseteq RequeueCandidates(Scope[w])
        /\ pc'[w] = IF RequeueCandidates(Scope[w]) = {} THEN "loop" ELSE "requeue"
    BY <1>0, <1>5 DEF ReadFailed, Goto, WorkerInv, BatchFailed, qvars
  <2>3. batch'[w] = {} \/ pc'[w] = "requeue"
    BY <2>2
  <2>4. \A j \in batch'[w] : j.type = "scrape" /\ j.place \in Scope[w] /\ jobs'[j].status = "failed"
    BY <2>2 DEF RequeueCandidates
  <2>5. pc'[w] \in {"loop", "requeue"}
    BY <2>2
  <2>6. v = w => WorkerInv(v)'
    BY <1>1, <2>1, <2>2, <2>3, <2>4, <2>5, MoveKeepsInv DEF Holding, Working
  <2>7. QED
    BY <1>3, <2>1, <2>2, <2>6 DEF Sweep
<1>6. CASE RequeueRead(w)
  <2>1. /\ pc[w] = "requeue" /\ pc'[w] = "loop" /\ batch'[w] = {} /\ started' = started
        /\ RequeueFailed(batch[w])
    BY <1>0, <1>6 DEF RequeueRead, Goto, SafeDeployment
  <2>2. CASE v # w
    BY <1>3, <2>1, <2>2, RequeueSpares DEF Sweep
  <2>3. CASE v = w
    <3>1. (\A j \in JobId : ~ Processing(j, w)) /\ workers' = workers
      BY <1>0, <2>1 DEF WorkerInv, Accounted, Holding, Working, RequeueFailed
    <3>2. \A j \in JobId : Requeued(jobs[j]).status = "pending"
      BY <1>0 DEF Requeued, Pending, JobRow
    <3>3. \A j \in JobId : ~ Processing(j, w)'
      BY <2>1, <3>1, <3>2 DEF RequeueFailed, Processing
    <3>4. QED
      BY <1>0, <1>1, <2>1, <2>3, <3>1, <3>3 DEF WorkerInv, Owns, Attached, Accounted, BatchFailed,
                                                Holding, Working
  <2>4. QED
    BY <2>2, <2>3
<1>7. CASE ClaimJob(w)
  <2>1. PICK j \in JobId : Claim(w, j, ScopeOf(w)) /\ j.type = AgentType(w) /\ cur'[w] = j
    BY <1>0, <1>7 DEF ClaimJob
  <2>2. /\ pc[w] = "loop" /\ pc'[w] = "claimed" /\ batch'[w] = batch[w] /\ started' = started
        /\ jobs' = [jobs EXCEPT ![j] = ClaimedBy(@, w)] /\ workers' = workers
    BY <1>0, <1>7, <2>1 DEF ClaimJob, Goto, Claim
  <2>3. CASE v # w
    <3>1. ScopeOf(w) \in SUBSET Places
      BY DEF ScopeOf
    <3>2. Spared(v)
      BY <2>1, <2>3, <3>1, LoopOfOthersSpares
    <3>3. QED
      BY <1>3, <2>2, <2>3, <3>2 DEF Sweep, pvars
  <2>4. CASE v = w
    <3>1. (\A k \in JobId : ~ Processing(k, w)) /\ batch[w] = {}
      BY <1>0, <2>2 DEF WorkerInv, Accounted, BatchFailed, Holding, Working
    <3>2. jobs'[j].status = "processing" /\ jobs'[j].worker = w /\ jobs'[j].age = "recent"
      BY <1>0, <2>2 DEF ClaimedBy, JobRow
    <3>3. \A k \in JobId : k # j => ~ Processing(k, w)'
      BY <1>0, <2>2, <3>1 DEF Processing
    <3>4. QED
      BY <1>0, <1>1, <2>1, <2>2, <2>4, <3>1, <3>2, <3>3
         DEF WorkerInv, Owns, Attached, Accounted, BatchFailed, Processing, Holding, Working
  <2>5. QED
    BY <2>3, <2>4
<1>8. CASE BindJob(w)
  <2>1. /\ pc[w] = "claimed" /\ pc'[w] = "work" /\ cur'[w] = cur[w] /\ batch'[w] = batch[w]
        /\ started' = started /\ jobs' = jobs /\ BindWorker(w, cur[w]) /\ cur[w] \in JobId
    BY <1>0, <1>8 DEF BindJob, Goto, BindWorker, Facts, Holding
  <2>2. CASE v # w
    BY <1>3, <1>8, <2>1, <2>2, LoopOfOthersSpares DEF Sweep
  <2>3. CASE v = w
    <3>1. w \notin Parsers => workers'[w] = [status |-> "working", current |-> cur[w]]
      BY <1>0, <2>1 DEF BindWorker, Facts
    <3>2. QED
      BY <1>0, <1>1, <2>1, <2>3, <3>1 DEF WorkerInv, Owns, Attached, Accounted, BatchFailed,
                                          Processing, Holding, Working
  <2>4. QED
    BY <2>2, <2>3
<1>9. QED
  BY <1>2, <1>4, <1>5, <1>6, <1>7, <1>8 DEF LoopStep

\* processJob().
LEMMA ProcessKeepsInv ==
  ASSUME ExclusiveInv, NEW w \in Workers, ProcessStep(w), NEW v \in Workers
  PROVE  WorkerInv(v)'
<1>0. /\ jobs \in [JobId -> JobRow] /\ workers \in [Workers -> WorkerRow]
      /\ pc \in [Workers -> Locations] /\ cur \in [Workers -> JobId \cup {None}]
      /\ Facts(w) /\ WorkerInv(w)
  BY FactsHold DEF ExclusiveInv, ClientInv, TypeOKWorkers
<1>1. ASSUME v # w, Spared(v) PROVE WorkerInv(v)'
  <2>1. pc'[v] = pc[v] /\ cur'[v] = cur[v] /\ batch' = batch /\ started' = started
    BY <1>0, <1>1 DEF ProcessStep, ReadPlace, HandOff, FileMenu, WriteCanonical, WriteMenu,
                      FinishWithOutput, FinishEmpty, FinishFailed, GiveBack, LetGo, Goto
  <2>2. QED
    BY <1>1, <2>1, SparedKeepsInv
<1>2. CASE ReadPlace(w) \/ HandOff(w) \/ FileMenu(w) \/ WriteCanonical(w) \/ WriteMenu(w)
  <2>1. pc[w] \in Working /\ pc'[w] \in Working /\ cur' = cur /\ batch' = batch /\ started' = started
    BY <1>0, <1>2 DEF ReadPlace, HandOff, FileMenu, WriteCanonical, WriteMenu, Goto, Working
  <2>2. UNCHANGED qvars \/ \E k \in JobId : AddJob(k)
    <3>1. JobOf("classify", cur[w]) \in JobId /\ JobOf("menu_parse", cur[w]) \in JobId
      BY <1>0, <2>1, JobOfIsJob DEF Facts, Holding, JobTypes
    <3>2. QED
      BY <1>2, <3>1 DEF ReadPlace, HandOff, FileMenu, WriteCanonical, WriteMenu
  <2>3. Spared(v)
    BY <2>2, HarmlessSpares
  <2>4. w \in started
    BY <1>0, <2>1 DEF WorkerInv, Accounted, Working
  <2>5. v = w => WorkerInv(v)'
    BY <2>1, <2>3, <2>4, WorkKeepsInv
  <2>6. QED
    BY <1>1, <2>3, <2>5
<1>3. CASE FinishWithOutput(w) \/ FinishEmpty(w) \/ FinishFailed(w) \/ GiveBack(w)
  <2>1. /\ pc[w] \in Working /\ pc'[w] = "loop" /\ batch' = batch /\ started' = started
        /\ \/ \E output \in {"none", "evidence"} : Complete(cur[w], output)
           \/ \E error \in {"transient", "permanent"} : Fail(cur[w], error)
           \/ Retry(cur[w])
    BY <1>0, <1>3 DEF FinishWithOutput, FinishEmpty, FinishFailed, GiveBack, LetGo, Goto, Working
  <2>2. CASE v # w
    BY <1>1, <2>1, <2>2, FinishOfOthersSpares DEF Holding
  <2>3. CASE v = w
    <3>1. cur[w] \in JobId /\ jobs[cur[w]] \in JobRow
      BY <1>0, <2>1 DEF Facts, Holding
    <3>2. jobs'[cur[w]].status # "processing" /\ \A j \in JobId : j # cur[w] => jobs'[j] = jobs[j]
      <4>1. ASSUME NEW output \in {"none", "evidence"}
            PROVE  Completed(jobs[cur[w]], output).status # "processing"
        BY <3>1 DEF Completed, JobRow
      <4>2. ASSUME NEW error \in {"transient", "permanent"}
            PROVE  Failed(jobs[cur[w]], error).status # "processing"
        BY <3>1 DEF Failed, JobRow
      <4>3. Refunded(jobs[cur[w]]).status # "processing"
        BY <3>1 DEF Refunded, Pending, JobRow
      <4>4. QED
        BY <1>0, <2>1, <3>1, <4>1, <4>2, <4>3 DEF Complete, Fail, Retry
    <3>3. \A j \in JobId : ~ (jobs'[j].status = "processing" /\ jobs'[j].worker = w)
      BY <1>0, <2>1, <3>2 DEF WorkerInv, Accounted, Processing, Working
    <3>4. w \notin Parsers => workers'[w].status # "none"
      BY <1>0, <2>1 DEF Complete, Fail, Retry, Idled, IdleRow, Facts, Working
    <3>5. batch[w] = {} /\ w \in started
      BY <1>0, <2>1 DEF WorkerInv, BatchFailed, Accounted, Working
    <3>6. QED
      BY <2>1, <2>3, <3>3, <3>4, <3>5 DEF WorkerInv, Owns, Attached, Accounted, BatchFailed,
                                          Processing, Holding, Working
  <2>4. QED
    BY <2>2, <2>3
<1>4. QED
  BY <1>2, <1>3 DEF ProcessStep

\* The other processes.
LEMMA OthersKeepInv ==
  ASSUME ExclusiveInv, SafeDeployment, NEW j \in JobId, OtherStep(j), NEW v \in Workers
  PROVE  WorkerInv(v)'
<1>1. ~ ReconcileRetry(j)
  BY DEF ReconcileRetry, ExclusiveInv
<1>2. Spared(v)
  BY <1>1, HarmlessSpares, ElapseSpares DEF OtherStep, Populate, FeedPartial
<1>3. UNCHANGED pvars
  BY <1>1 DEF OtherStep, Populate, FeedPartial, Elapse
<1>4. QED
  BY <1>2, <1>3, SparedKeepsInv DEF pvars

LEMMA ExclusiveInvInitially == InitWorkers => ExclusiveInv
<1> SUFFICES ASSUME InitWorkers PROVE ExclusiveInv
  OBVIOUS
<1>1. ASSUME NEW w \in Workers PROVE WorkerInv(w)
  BY DEF InitWorkers, Init, Row, WorkerInv, Owns, Attached, Accounted, BatchFailed, Processing,
         Holding, Working
<1>2. QED
  BY <1>1, ClientInvInitially DEF ExclusiveInv, InitWorkers

LEMMA ExclusiveInvStep ==
  ASSUME SafeDeployment
  PROVE  ExclusiveInv /\ [NextWorkers]_vars => ExclusiveInv'
<1> SUFFICES ASSUME ExclusiveInv, [NextWorkers]_vars PROVE ExclusiveInv'
  OBVIOUS
<1>1. ~ OperatorRecover /\ ~ ReconcileList
  BY DEF OperatorRecover, ReconcileList, SafeDeployment
<1>2. \A w \in Workers : ~ Abandon(w)
  BY DEF Abandon, SafeDeployment
<1>3. ASSUME NEW v \in Workers PROVE WorkerInv(v)'
  <2>1. ASSUME UNCHANGED vars PROVE WorkerInv(v)'
    BY <2>1, HarmlessSpares, SparedKeepsInv DEF vars, pvars
  <2>2. ASSUME NEW w \in Workers, Start(w) \/ Stop(w) \/ Crash(w) PROVE WorkerInv(v)'
    BY <2>2, LifeKeepsInv
  <2>3. QED
    BY <1>1, <1>2, <2>1, <2>2, LoopKeepsInv, ProcessKeepsInv, OthersKeepInv DEF NextWorkers
<1>4. doomed' = {}
  <2>1. doomed = {}
    BY DEF ExclusiveInv
  <2>2. ASSUME NEW w \in Workers, Start(w) \/ Stop(w) \/ Crash(w) \/ LoopStep(w)
        PROVE  doomed' = doomed
    BY <2>2 DEF Start, Stop, Crash, LoopStep, Sweep, SweepExhausted, ReadFailed, RequeueRead,
                ClaimJob, BindJob, pvars
  <2>4. ASSUME NEW w \in Workers, ProcessStep(w) PROVE doomed' = doomed
    BY <2>4 DEF ProcessStep, ReadPlace, HandOff, FileMenu, WriteCanonical, WriteMenu,
      FinishWithOutput,
                FinishEmpty, FinishFailed, GiveBack, LetGo
  <2>3. ASSUME NEW j \in JobId, OtherStep(j) PROVE doomed' = doomed
    BY <2>1, <2>3 DEF OtherStep, Populate, FeedPartial, ReconcileRetry, Elapse, pvars
  <2>5. QED
    BY <1>1, <1>2, <2>1, <2>2, <2>3, <2>4 DEF NextWorkers, vars, pvars
<1>5. ClientInv'
  BY ClientInvStep DEF ExclusiveInv
<1>6. QED
  BY <1>3, <1>4, <1>5 DEF ExclusiveInv

\* Two workers that hold a job are both its owner in its row, which has one.
LEMMA ExclusiveInvExcludes == ExclusiveInv => ClaimExclusive
<1> SUFFICES ASSUME ExclusiveInv, NEW v \in Workers, NEW w \in Workers, v # w,
                    pc[v] \in Holding, pc[w] \in Holding
             PROVE  cur[v] # cur[w]
  BY DEF ClaimExclusive
<1>1. Facts(v) /\ Facts(w)
  BY FactsHold
<1>2. QED
  BY <1>1 DEF Facts

\* In a safe deployment no two workers are ever at work on the same job: for any
\* number of workers, places, crashes and attempts.
THEOREM PipelineClaimExclusive ==
  ASSUME SafeDeployment
  PROVE  SpecWorkers => []ClaimExclusive
<1>1. ExclusiveInv /\ [NextWorkers]_vars => ExclusiveInv'
  BY ExclusiveInvStep
<1>2. QED
  BY <1>1, ExclusiveInvInitially, ExclusiveInvExcludes, PTL DEF SpecWorkers

(***************************************************************************)
(* What stands in the queue, in every deployment.                          *)
(***************************************************************************)

\* Of a row that stands, a statement that goes by what rows say leaves the status.
LEMMA StandingRows ==
  ASSUME TypeOK, NEW j \in JobId, Stands(j), jobs'[j].status # jobs[j].status
  PROVE  /\ jobs[j] \in JobRow
         /\ jobs' # jobs
         /\ \A k \in JobId : ~ AddJob(k) /\ ~ Age(k)
         /\ \A w \in Workers, k \in JobId, scope \in SUBSET Places : ~ Claim(w, k, scope)
         /\ \A scope \in SUBSET JobId, b \in BOOLEAN : ~ RecoverOrphaned(scope, b)
         /\ \A scope \in SUBSET Places : ~ CleanupUnclaimable(scope)
<1>1. jobs \in [JobId -> JobRow] /\ jobs[j] \in JobRow /\ jobs' # jobs
  BY DEF TypeOK
<1>2. ASSUME NEW k \in JobId PROVE ~ AddJob(k) /\ ~ Age(k)
  BY <1>1 DEF Stands, AddJob, Age, JobRow
<1>3. ASSUME NEW w \in Workers, NEW k \in JobId, NEW scope \in SUBSET Places
      PROVE  ~ Claim(w, k, scope)
  BY <1>1 DEF Stands, Claim, Claimable
<1>4. ASSUME NEW scope \in SUBSET JobId, NEW b \in BOOLEAN PROVE ~ RecoverOrphaned(scope, b)
  BY <1>1 DEF Stands, RecoverOrphaned, Orphans
<1>5. ASSUME NEW scope \in SUBSET Places PROVE ~ CleanupUnclaimable(scope)
  BY <1>1 DEF Stands, CleanupUnclaimable, Exhausted
<1>6. QED
  BY <1>1, <1>2, <1>3, <1>4, <1>5

\* complete(), fail() and retry() change the status of the job they are called for.
LEMMA FinishedJobOnly ==
  ASSUME TypeOK, NEW k \in JobId, NEW j \in JobId, jobs'[j].status # jobs[j].status,
         \/ \E output \in {"none", "evidence"} : Complete(k, output)
         \/ \E error \in {"transient", "permanent"} : Fail(k, error)
         \/ Retry(k)
  PROVE  k = j
  BY DEF TypeOK, Complete, Fail, Retry

LEMMA StandsWorkerStep ==
  ASSUME ClientInv, NEW w \in Workers, NEW j \in JobId,
         Stands(j), jobs'[j].status # jobs[j].status,
         Start(w) \/ Stop(w) \/ Crash(w) \/ Abandon(w) \/ LoopStep(w) \/ ProcessStep(w)
  PROVE  UsesUp(w, j)
<1>0. TypeOK /\ pc \in [Workers -> Locations] /\ batch \in [Workers -> SUBSET JobId]
  BY DEF ClientInv, TypeOKWorkers
<1>1. jobs[j] \in JobRow /\ jobs' # jobs
  BY <1>0, StandingRows
<1>2. CASE Start(w) \/ Crash(w) \/ Abandon(w)
  BY <1>1, <1>2 DEF Start, Crash, Abandon, RegisterWorker, qvars
<1>3. CASE Stop(w)
  <2>1. UnregisterWorker(w) /\ pc[w] = "loop" /\ pc'[w] = "off"
    BY <1>0, <1>1, <1>3 DEF Stop, Goto, qvars
  <2>2. Processing(j, w)
    BY <1>1, <2>1 DEF UnregisterWorker
  <2>3. QED
    BY <2>1, <2>2 DEF UsesUp
<1>4. CASE LoopStep(w)
  <2>1. ~ Sweep(w)
    <3>1. {k \in JobId : k.type = AgentType(w) /\ k.place \in ScopeOf(w)} \in SUBSET JobId
      OBVIOUS
    <3>2. QED
      BY <1>0, <3>1, StandingRows DEF Sweep
  <2>2. ~ SweepExhausted(w)
    <3>1. SweepExhausted(w) => w \in Scrapers
      BY DEF SweepExhausted
    <3>2. w \in Scrapers => Scope[w] \in SUBSET Places
      OBVIOUS
    <3>3. QED
      BY <1>0, <1>1, <3>1, <3>2, StandingRows DEF SweepExhausted, qvars
  <2>3. ~ ReadFailed(w) /\ ~ BindJob(w)
    BY <1>1 DEF ReadFailed, BindJob, BindWorker, qvars
  <2>4. ~ ClaimJob(w)
    <3>1. ScopeOf(w) \in SUBSET Places
      BY DEF ScopeOf
    <3>2. QED
      BY <1>0, <3>1, StandingRows DEF ClaimJob
  <2>5. CASE RequeueRead(w)
    <3>1. RequeueFailed(batch[w]) /\ pc[w] = "requeue" /\ batch'[w] = {}
      BY <1>0, <1>1, <2>5 DEF RequeueRead, Goto, qvars
    <3>2. j \in batch[w]
      BY <3>1 DEF RequeueFailed
    <3>3. QED
      BY <3>1, <3>2 DEF UsesUp
  <2>6. QED
    BY <1>4, <2>1, <2>2, <2>3, <2>4, <2>5 DEF LoopStep
<1>5. CASE ProcessStep(w)
  <2>1. ~ (ReadPlace(w) \/ WriteCanonical(w) \/ WriteMenu(w))
    BY <1>1 DEF ReadPlace, WriteCanonical, WriteMenu, qvars
  <2>2. ~ (HandOff(w) \/ FileMenu(w))
    <3>1. HandOff(w) \/ FileMenu(w) => cur[w] \in JobId
      BY DEF HandOff, FileMenu, Goto, ClientInv, Holding, Working
    <3>2. cur[w] \in JobId => JobOf("classify", cur[w]) \in JobId /\ JobOf("menu_parse", cur[w]) \in JobId
      BY JobOfIsJob DEF JobTypes
    <3>3. \A k \in JobId : ~ AddJob(k)
      BY <1>0, StandingRows
    <3>4. QED
      BY <1>1, <3>1, <3>2, <3>3 DEF HandOff, FileMenu, qvars
  <2>3. CASE FinishWithOutput(w) \/ FinishEmpty(w) \/ FinishFailed(w) \/ GiveBack(w)
    <3>1. /\ pc[w] \in Working /\ pc'[w] = "loop"
          /\ \/ \E output \in {"none", "evidence"} : Complete(cur[w], output)
             \/ \E error \in {"transient", "permanent"} : Fail(cur[w], error)
             \/ Retry(cur[w])
      BY <1>0, <2>3 DEF FinishWithOutput, FinishEmpty, FinishFailed, GiveBack, LetGo, Goto, Working
    <3>2. cur[w] \in JobId
      BY <3>1 DEF ClientInv, Holding
    <3>3. cur[w] = j
      BY <1>0, <3>1, <3>2, FinishedJobOnly
    <3>4. QED
      BY <3>1, <3>3 DEF UsesUp
  <2>4. QED
    BY <1>5, <2>1, <2>2, <2>3 DEF ProcessStep
<1>6. QED
  BY <1>2, <1>3, <1>4, <1>5

LEMMA StandsOtherStep ==
  ASSUME ClientInv, NEW k \in JobId, OtherStep(k), NEW j \in JobId,
         Stands(j), jobs'[j].status # jobs[j].status
  PROVE  \/ jobs[j].status = "completed" /\ jobs'[j].requeues = jobs[j].requeues + 1
         \/ j \in doomed \ doomed'
<1>0. TypeOK
  BY DEF ClientInv, TypeOKWorkers
<1>1. jobs \in [JobId -> JobRow] /\ jobs[j] \in JobRow /\ ~ AddJob(k) /\ ~ Age(k)
  BY <1>0, StandingRows DEF TypeOK
<1>2. CASE FeedPartial(k)
  <2>1. k = j /\ jobs[j].status = "completed" /\ jobs'[j] = Reopened(jobs[j])
    BY <1>1, <1>2 DEF FeedPartial, RequeueCompleted
  <2>2. Pending(jobs[j]) \in JobRow
    BY <1>1, UpdatesAreRows
  <2>3. Pending(jobs[j]).requeues = jobs[j].requeues
    BY <1>1 DEF Pending, JobRow
  <2>4. Reopened(jobs[j]).requeues = Pending(jobs[j]).requeues + 1
    BY <2>2 DEF Reopened, JobRow
  <2>5. QED
    BY <2>1, <2>3, <2>4
<1>3. CASE ReconcileRetry(k)
  <2>1. k = j
    BY <1>0, <1>3, FinishedJobOnly DEF ReconcileRetry
  <2>2. QED
    BY <1>3, <2>1 DEF ReconcileRetry
<1>4. QED
  BY <1>1, <1>2, <1>3 DEF OtherStep, Populate, Elapse

LEMMA StandsEachStep == ClientInv /\ [NextWorkers]_vars => StandsStep
<1> SUFFICES ASSUME ClientInv, [NextWorkers]_vars, NEW j \in JobId,
                    Stands(j), jobs'[j].status # jobs[j].status
             PROVE  \/ jobs[j].status = "completed" /\ jobs'[j].requeues = jobs[j].requeues + 1
                    \/ j \in doomed \ doomed'
                    \/ \E w \in Workers : UsesUp(w, j)
  BY DEF StandsStep
<1>1. TypeOK /\ jobs' # jobs
  BY DEF ClientInv, TypeOKWorkers
<1>2. ~ ReconcileList
  BY <1>1 DEF ReconcileList, qvars
<1>3. ~ OperatorRecover
  BY <1>1, StandingRows DEF OperatorRecover
<1>4. QED
  BY <1>1, <1>2, <1>3, StandsWorkerStep, StandsOtherStep DEF NextWorkers, vars, qvars

\* In every deployment, with reused ids, the reconciler, the scrapers' batches, the
\* operator's recovery and a busy queue: a completed or recently claimed job is taken
\* out of its state only by the feeder's counted requeue, or by a process that had
\* its id from before and uses that up.
THEOREM PipelineLosesOnlyToHolders == SpecWorkers => LostOnlyToHolders
<1>1. ClientInv /\ [NextWorkers]_vars => [StandsStep]_vars
  BY StandsEachStep
<1>2. QED
  BY <1>1, ClientInvariant, PTL DEF SpecWorkers, LostOnlyToHolders

(***************************************************************************)
(* The hand-off from scraper to classifier, in every deployment.           *)
(***************************************************************************)

ScrapeOf(p) == [type |-> "scrape", place |-> p]

\* A scraper past the hand-off has made it, and evidence is recorded only then.
HandOffInv ==
  /\ ClientInv
  /\ \A w \in Workers :
       /\ pc[w] \in Holding => cur[w].type = AgentType(w) /\ jobs[cur[w]].status # "absent"
       /\ (w \in Scrapers /\ pc[w] \in {"known", "handed", "filed"}) => Handed(cur[w].place)
       /\ (w \in Scrapers) => pc[w] # "written"
  /\ \A p \in Places : jobs[ScrapeOf(p)].output = "evidence" => Handed(p)

\* Only a completion with output records output.
LEMMA OutputKept ==
  ASSUME TypeOK, NEW k \in JobId,
         \/ UNCHANGED jobs
         \/ \E j \in JobId : \/ AddJob(j) \/ Complete(j, "none") \/ Retry(j) \/ RequeueCompleted(j)
                             \/ Age(j) \/ \E error \in {"transient", "permanent"} : Fail(j, error)
                             \/ \E w \in Workers, scope \in SUBSET Places : Claim(w, j, scope)
         \/ \E w \in Workers : UnregisterWorker(w)
         \/ MaintenanceStep
  PROVE  jobs'[k].output = "evidence" => jobs[k].output = "evidence"
<1>0. jobs \in [JobId -> JobRow] /\ \A j \in JobId : jobs[j] \in JobRow
  BY DEF TypeOK
<1>1. ASSUME NEW row \in JobRow
      PROVE  /\ Pending(row).output = row.output
             /\ Completed(row, "none").output = row.output
             /\ \A error \in {"transient", "permanent"} : Failed(row, error).output = row.output
             /\ \A w \in Workers : ClaimedBy(row, w).output = row.output
             /\ [row EXCEPT !.age = "stale"].output = row.output
             /\ [row EXCEPT !.status = "failed"].output = row.output
  BY DEF Pending, Completed, Failed, ClaimedBy, JobRow
<1>2. ASSUME NEW row \in JobRow
      PROVE  Refunded(row).output = row.output /\ Reopened(row).output = row.output
             /\ Requeued(row).output = row.output
  <2>1. Pending(row) \in JobRow /\ Pending(row).output = row.output
    BY <1>1, UpdatesAreRows
  <2>2. QED
    BY <2>1 DEF Refunded, Reopened, Requeued, JobRow
<1>3. ASSUME NEW j \in JobId PROVE Recovered(j).output = jobs[j].output
  <2>1. Pending(jobs[j]) \in JobRow /\ Pending(jobs[j]).output = jobs[j].output
    BY <1>0, <1>1, UpdatesAreRows
  <2>2. QED
    BY <2>1 DEF Recovered, JobRow
<1>4. ASSUME NEW j \in JobId, AddJob(j) PROVE jobs'[k].output = "evidence" => jobs[k].output = "evidence"
  BY <1>0, <1>4 DEF AddJob, Row
<1>5. ASSUME NEW j \in JobId, Complete(j, "none") \/ Retry(j) \/ RequeueCompleted(j) \/ Age(j)
      PROVE  jobs'[k].output = jobs[k].output
  <2>1. CASE Complete(j, "none")
    BY <1>0, <1>1, <2>1 DEF Complete
  <2>2. CASE Retry(j)
    BY <1>0, <1>2, <2>2 DEF Retry
  <2>3. CASE RequeueCompleted(j)
    BY <1>0, <1>2, <2>3 DEF RequeueCompleted
  <2>4. CASE Age(j)
    BY <1>0, <1>1, <2>4 DEF Age
  <2>5. QED
    BY <1>5, <2>1, <2>2, <2>3, <2>4
<1>6. ASSUME NEW j \in JobId, NEW error \in {"transient", "permanent"}, Fail(j, error)
      PROVE  jobs'[k].output = jobs[k].output
  BY <1>0, <1>1, <1>6 DEF Fail
<1>7. ASSUME NEW j \in JobId, NEW w \in Workers, NEW scope \in SUBSET Places, Claim(w, j, scope)
      PROVE  jobs'[k].output = jobs[k].output
  BY <1>0, <1>1, <1>7 DEF Claim
<1>8. ASSUME NEW w \in Workers, UnregisterWorker(w) PROVE jobs'[k].output = jobs[k].output
  BY <1>0, <1>1, <1>8 DEF UnregisterWorker
<1>9. CASE MaintenanceStep
  <2>1. ASSUME NEW scope \in SUBSET JobId, NEW d \in BOOLEAN, RecoverOrphaned(scope, d)
        PROVE  jobs'[k].output = jobs[k].output
    BY <1>0, <1>3, <2>1 DEF RecoverOrphaned
  <2>2. ASSUME NEW scope \in SUBSET Places, CleanupUnclaimable(scope)
        PROVE  jobs'[k].output = jobs[k].output
    BY <1>0, <1>1, <2>2 DEF CleanupUnclaimable
  <2>3. ASSUME NEW ids \in SUBSET Known, RequeueFailed(ids)
        PROVE  jobs'[k].output = jobs[k].output
    BY <1>0, <1>2, <2>3 DEF RequeueFailed
  <2>4. QED
    BY <1>9, <2>1, <2>2, <2>3 DEF MaintenanceStep
<1>10. QED
  BY <1>4, <1>5, <1>6, <1>7, <1>8, <1>9

\* Nothing undoes a hand-off: rows stay, and a classifier that writes nulls has a job.
LEMMA HandedStays ==
  ASSUME HandOffInv, [NextWorkers]_vars, NEW p \in Places, Handed(p)
  PROVE  Handed(p)'
<1> DEFINE k == [type |-> "classify", place |-> p]
<1>1. k \in JobId
  BY DEF JobId, JobTypes
<1>2. Known \subseteq Known'
  BY ProcessIsClient, KnownGrows DEF HandOffInv, ClientInv
<1>3. CASE jobs[k].status # "absent"
  BY <1>1, <1>2, <1>3 DEF Known, Handed
<1>4. CASE p \in classified /\ p \notin classified'
  <2>1. PICK w \in Workers : WriteCanonical(w)
    <3>1. ASSUME NEW w \in Workers, Start(w) \/ Stop(w) \/ Crash(w) \/ Abandon(w) \/ LoopStep(w)
          PROVE  classified' = classified
      BY <3>1 DEF Start, Stop, Crash, Abandon, LetGo, LoopStep, Sweep, SweepExhausted, ReadFailed,
                  RequeueRead, ClaimJob, BindJob, pvars
    <3>2. ASSUME NEW w \in Workers, ProcessStep(w), ~ WriteCanonical(w)
          PROVE  classified' = classified
      BY <3>2 DEF ProcessStep, ReadPlace, HandOff, FileMenu, WriteMenu, FinishWithOutput,
        FinishEmpty,
                  FinishFailed, GiveBack, LetGo
    <3>3. ASSUME (\E j \in JobId : OtherStep(j)) \/ ReconcileList \/ OperatorRecover
          PROVE  classified' = classified
      BY <3>3 DEF OtherStep, Populate, FeedPartial, ReconcileRetry, Elapse, ReconcileList,
                  OperatorRecover, pvars
    <3>4. QED
      BY <1>4, <3>1, <3>2, <3>3 DEF NextWorkers, vars, pvars
  <2>2. /\ w \in Classifiers /\ pc[w] \in Holding /\ cur[w].place = p /\ cur[w] \in JobId
        /\ jobs' = jobs /\ jobs[cur[w]].status # "absent" /\ cur[w].type = AgentType(w)
    BY <1>4, <2>1 DEF WriteCanonical, Goto, Holding, Working, qvars, HandOffInv, ClientInv
  <2>3. cur[w].type = "classify"
    BY <2>2 DEF AgentType
  <2>4. cur[w] = k
    BY <2>2, <2>3 DEF JobId
  <2>5. QED
    BY <2>2, <2>4 DEF Handed
<1>5. QED
  BY <1>3, <1>4 DEF Handed

\* The hand-off itself: the place has a classify job afterwards, or needs none.
LEMMA HandOffHands ==
  ASSUME HandOffInv, NEW w \in Workers, HandOff(w)
  PROVE  Handed(cur[w].place)'
<1> DEFINE k == JobOf("classify", cur[w])
<1>1. cur[w] \in JobId /\ cur' = cur /\ classified' = classified
  BY DEF HandOff, Goto, Holding, Working, HandOffInv, ClientInv
<1>2. k \in JobId /\ k = [type |-> "classify", place |-> cur[w].place]
  BY <1>1, JobOfIsJob DEF JobOf, JobTypes
<1>3. CASE pc[w] = "known"
  BY <1>1, <1>3 DEF Handed, HandOff, HandOffInv, qvars
<1>4. CASE AddJob(k)
  <2>1. jobs'[k].status # "absent"
    BY <1>2, <1>4 DEF AddJob, Row, HandOffInv, ClientInv, QueueInv, TypeOK
  <2>2. QED
    BY <1>1, <1>2, <2>1 DEF Handed
<1>5. QED
  BY <1>3, <1>4 DEF HandOff

\* What a worker's location says of its job.
LEMMA LocationsStep ==
  ASSUME HandOffInv, [NextWorkers]_vars, NEW v \in Workers
  PROVE  /\ pc'[v] \in Holding => cur'[v].type = AgentType(v) /\ jobs'[cur'[v]].status # "absent"
         /\ (v \in Scrapers /\ pc'[v] \in {"known", "handed", "filed"}) =>
               Handed(cur[v].place)' /\ cur'[v] = cur[v]
         /\ v \in Scrapers => pc'[v] # "written"
<1>0. /\ jobs \in [JobId -> JobRow]
      /\ pc \in [Workers -> Locations] /\ cur \in [Workers -> JobId \cup {None}]
      /\ pc[v] \in Holding => /\ cur[v].type = AgentType(v) /\ cur[v] \in JobId
                              /\ jobs[cur[v]].status # "absent"
      /\ (v \in Scrapers /\ pc[v] \in {"known", "handed", "filed"}) => Handed(cur[v].place)
      /\ v \in Scrapers => pc[v] # "written"
  BY DEF HandOffInv, ClientInv, TypeOKWorkers, TypeOK
<1>1. pc[v] \in Holding => jobs'[cur[v]].status # "absent" /\ cur[v].place \in Places
  <2>1. Known \subseteq Known'
    BY ProcessIsClient, KnownGrows DEF HandOffInv, ClientInv
  <2>2. QED
    BY <1>0, <2>1 DEF Known, JobId
<1>2. (v \in Scrapers /\ pc[v] \in {"known", "handed", "filed"} /\ cur'[v] = cur[v]) =>
        Handed(cur[v].place)'
  <2>1. ASSUME v \in Scrapers, pc[v] \in {"known", "handed", "filed"}, cur'[v] = cur[v]
        PROVE  Handed(cur[v].place)'
    <3>1. Handed(cur[v].place) /\ cur[v].place \in Places
      BY <1>0, <1>1, <2>1 DEF Holding, Working
    <3>2. \A p \in Places : Handed(p) => Handed(p)'
      BY HandedStays
    <3>3. QED
      BY <2>1, <3>1, <3>2 DEF Handed
  <2>2. QED
    BY <2>1
<1> DEFINE Goal == /\ pc'[v] \in Holding => /\ cur'[v].type = AgentType(v)
                                            /\ jobs'[cur'[v]].status # "absent"
                   /\ (v \in Scrapers /\ pc'[v] \in {"known", "handed", "filed"}) =>
                         Handed(cur[v].place)' /\ cur'[v] = cur[v]
                   /\ v \in Scrapers => pc'[v] # "written"
<1>3. ASSUME pc'[v] = pc[v], cur'[v] = cur[v] PROVE Goal
  BY <1>0, <1>1, <1>2, <1>3
<1>4. ASSUME pc'[v] \notin Holding PROVE Goal
  BY <1>4 DEF Holding, Working
<1>5. ASSUME NEW w \in Workers, Start(w) \/ Stop(w) \/ Crash(w) \/ Abandon(w) PROVE Goal
  <2>1. \/ pc'[v] = pc[v] /\ cur'[v] = cur[v]
        \/ pc'[v] \notin Holding
    BY <1>0, <1>5 DEF Start, Stop, Crash, Abandon, LetGo, Goto, Holding, Working
  <2>2. QED
    BY <1>3, <1>4, <2>1
<1>6. ASSUME NEW w \in Workers, LoopStep(w) PROVE Goal
  <2>1. CASE ClaimJob(w) /\ v = w
    <3>1. PICK j \in JobId : Claim(w, j, ScopeOf(w)) /\ j.type = AgentType(w) /\ cur'[w] = j
      BY <1>0, <2>1 DEF ClaimJob
    <3>2. jobs[j].status = "pending" /\ j \in Known
      BY <3>1 DEF Claim, Claimable, Known
    <3>3. jobs'[j].status # "absent"
      BY <3>2, ProcessIsClient, KnownGrows DEF HandOffInv, ClientInv, Known
    <3>4. pc'[w] = "claimed"
      BY <1>0, <2>1 DEF ClaimJob, Goto
    <3>5. QED
      BY <2>1, <3>1, <3>3, <3>4
  <2>2. CASE BindJob(w) /\ v = w
    <3>1. pc[v] = "claimed" /\ pc'[v] = "work" /\ cur'[v] = cur[v]
      BY <1>0, <2>2 DEF BindJob, Goto
    <3>2. QED
      BY <1>0, <1>1, <3>1 DEF Holding
  <2>3. CASE (ClaimJob(w) \/ BindJob(w)) /\ v # w
    BY <1>0, <1>3, <2>3 DEF ClaimJob, BindJob, Goto
  <2>4. CASE Sweep(w) \/ SweepExhausted(w) \/ ReadFailed(w) \/ RequeueRead(w)
    <3>1. \/ pc'[v] = pc[v] /\ cur'[v] = cur[v]
          \/ pc'[v] \notin Holding
      BY <1>0, <2>4 DEF Sweep, SweepExhausted, ReadFailed, RequeueRead, Goto, pvars, Holding,
        Working
    <3>2. QED
      BY <1>3, <1>4, <3>1
  <2>5. QED
    BY <1>6, <2>1, <2>2, <2>3, <2>4 DEF LoopStep
<1>7. ASSUME NEW w \in Workers, ProcessStep(w) PROVE Goal
  <2>1. CASE HandOff(w) /\ v = w
    <3>1. /\ pc[v] \in {"known", "bare"} /\ pc'[v] = "handed" /\ cur'[v] = cur[v]
          /\ Handed(cur[v].place)'
      BY <1>0, <2>1, HandOffHands DEF HandOff, Goto
    <3>2. QED
      BY <1>0, <1>1, <3>1 DEF Holding, Working
  <2>2. CASE FileMenu(w) /\ v = w
    <3>1. v \in Scrapers /\ pc[v] = "handed" /\ pc'[v] = "filed" /\ cur'[v] = cur[v]
      BY <1>0, <2>2 DEF FileMenu, Goto
    <3>2. QED
      BY <1>0, <1>1, <1>2, <3>1 DEF Holding, Working
  <2>3. CASE (WriteCanonical(w) \/ WriteMenu(w)) /\ v = w
    <3>1. v \notin Scrapers /\ pc[v] = "work" /\ pc'[v] = "written" /\ cur'[v] = cur[v]
      BY <1>0, <2>3, WorkersAssumption DEF WriteCanonical, WriteMenu, Goto
    <3>2. QED
      BY <1>0, <1>1, <3>1 DEF Holding, Working
  <2>7. CASE ReadPlace(w) /\ v = w
    <3>1. /\ v \in Scrapers /\ pc[v] = "work" /\ cur' = cur /\ classified' = classified
          /\ jobs' = jobs
          /\ pc'[v] = IF cur[v].place \in classified THEN "known" ELSE "bare"
      BY <1>0, <2>7 DEF ReadPlace, Goto, qvars
    <3>2. pc'[v] = "known" => Handed(cur[v].place)'
      BY <3>1 DEF Handed
    <3>3. pc[v] \in Holding
      BY <3>1 DEF Holding, Working
    <3>4. QED
      BY <1>0, <1>1, <3>1, <3>2, <3>3
  <2>4. CASE FinishWithOutput(w) \/ FinishEmpty(w) \/ FinishFailed(w) \/ GiveBack(w)
    <3>1. \/ pc'[v] = pc[v] /\ cur'[v] = cur[v]
          \/ pc'[v] \notin Holding
      BY <1>0, <2>4 DEF FinishWithOutput, FinishEmpty, FinishFailed, GiveBack, LetGo, Goto, Holding,
                        Working
    <3>2. QED
      BY <1>3, <1>4, <3>1
  <2>5. CASE (ReadPlace(w) \/ HandOff(w) \/ FileMenu(w) \/ WriteCanonical(w) \/ WriteMenu(w)) /\ v # w
    BY <1>0, <1>3, <2>5 DEF ReadPlace, HandOff, FileMenu, WriteCanonical, WriteMenu, Goto
  <2>6. QED
    BY <1>7, <2>1, <2>2, <2>3, <2>4, <2>5, <2>7 DEF ProcessStep
<1>8. ASSUME (\E j \in JobId : OtherStep(j)) \/ ReconcileList \/ OperatorRecover \/ UNCHANGED vars
      PROVE  Goal
  BY <1>3, <1>8 DEF OtherStep, Populate, FeedPartial, ReconcileRetry, Elapse, ReconcileList,
                    OperatorRecover, pvars, vars
<1>9. QED
  BY <1>5, <1>6, <1>7, <1>8 DEF NextWorkers

\* Evidence is recorded by a scraper past the hand-off, and by nobody else.
LEMMA EvidenceStep ==
  ASSUME HandOffInv, [NextWorkers]_vars, NEW p \in Places, jobs'[ScrapeOf(p)].output = "evidence"
  PROVE  Handed(p)'
<1> DEFINE k == ScrapeOf(p)
<1>0. /\ k \in JobId /\ TypeOK /\ jobs \in [JobId -> JobRow]
      /\ pc \in [Workers -> Locations]
      /\ (\A w \in Workers : pc[w] \in Holding => cur[w] \in JobId /\ cur[w].type = AgentType(w))
      /\ (\A w \in Workers : batch[w] \subseteq Known)
  BY DEF ScrapeOf, JobId, JobTypes, HandOffInv, ClientInv, TypeOKWorkers, TypeOK
<1>1. ASSUME jobs[k].output = "evidence" PROVE Handed(p)'
  BY <1>1, HandedStays DEF HandOffInv
<1>2. ASSUME NEW w \in Workers, FinishWithOutput(w), jobs[k].output # "evidence"
      PROVE  Handed(p)'
  <2>1. pc[w] \in {"filed", "written"} /\ pc[w] \in Holding /\ cur[w] \in JobId
    BY <1>0, <1>2 DEF FinishWithOutput, LetGo, Goto, Holding, Working
  <2>2. cur[w] = k
    BY <1>0, <1>2, <2>1 DEF FinishWithOutput, Complete
  <2>3. AgentType(w) = "scrape" /\ cur[w].place = p
    BY <1>0, <2>1, <2>2 DEF ScrapeOf
  <2>4. w \in Scrapers
    BY <2>3 DEF AgentType
  <2>5. Handed(p)
    BY <2>1, <2>3, <2>4 DEF HandOffInv
  <2>6. QED
    BY <2>5, HandedStays
<1>3. ASSUME NEW w \in Workers, ProcessStep(w), ~ FinishWithOutput(w)
      PROVE  jobs[k].output = "evidence"
  <2>1. CASE ReadPlace(w) \/ HandOff(w) \/ FileMenu(w) \/ WriteCanonical(w) \/ WriteMenu(w)
    <3>1. UNCHANGED jobs \/ (cur[w] \in JobId
                            /\ (AddJob(JobOf("classify", cur[w])) \/ AddJob(JobOf("menu_parse", cur[w]))))
      BY <1>0, <2>1 DEF ReadPlace, HandOff, FileMenu, WriteCanonical, WriteMenu, Goto, Holding,
                        Working, qvars
    <3>2. UNCHANGED jobs \/ \E j \in JobId : AddJob(j)
      BY <3>1, JobOfIsJob DEF JobTypes
    <3>3. QED
      BY <1>0, <3>2, OutputKept
  <2>2. CASE FinishEmpty(w) \/ FinishFailed(w) \/ GiveBack(w)
    <3>1. pc[w] \in Holding
      BY <2>2 DEF FinishEmpty, FinishFailed, GiveBack, LetGo, Goto, Holding, Working
    <3>2. \E j \in JobId : \/ Complete(j, "none") \/ Retry(j)
                           \/ \E error \in {"transient", "permanent"} : Fail(j, error)
      BY <1>0, <2>2, <3>1 DEF FinishEmpty, FinishFailed, GiveBack
    <3>3. QED
      BY <1>0, <3>2, OutputKept
  <2>3. QED
    BY <1>3, <2>1, <2>2 DEF ProcessStep
<1>4. ASSUME NEW w \in Workers, LoopStep(w) PROVE jobs[k].output = "evidence"
  <2>1. UNCHANGED jobs \/ MaintenanceStep
        \/ \E j \in JobId, scope \in SUBSET Places : Claim(w, j, scope)
    <3>1. CASE Sweep(w)
      BY <3>1 DEF Sweep, MaintenanceStep
    <3>2. CASE SweepExhausted(w)
      BY <3>2, WorkersAssumption DEF SweepExhausted, MaintenanceStep, qvars
    <3>3. CASE RequeueRead(w)
      BY <1>0, <3>3 DEF RequeueRead, MaintenanceStep, qvars
    <3>4. CASE ReadFailed(w) \/ BindJob(w)
      BY <3>4 DEF ReadFailed, BindJob, BindWorker, qvars
    <3>5. CASE ClaimJob(w)
      <4>1. ScopeOf(w) \in SUBSET Places
        BY DEF ScopeOf
      <4>2. QED
        BY <3>5, <4>1 DEF ClaimJob
    <3>6. QED
      BY <1>4, <3>1, <3>2, <3>3, <3>4, <3>5 DEF LoopStep
  <2>2. QED
    BY <1>0, <2>1, OutputKept
<1>5. ASSUME NEW w \in Workers, Start(w) \/ Stop(w) \/ Crash(w) \/ Abandon(w)
      PROVE  jobs[k].output = "evidence"
  <2>1. UNCHANGED jobs \/ UnregisterWorker(w)
    BY <1>5 DEF Start, Stop, Crash, Abandon, RegisterWorker, qvars
  <2>2. QED
    BY <1>0, <2>1, OutputKept
<1>6. ASSUME NEW j \in JobId, OtherStep(j) PROVE jobs[k].output = "evidence"
  <2>1. AddJob(j) \/ RequeueCompleted(j) \/ Retry(j) \/ Age(j)
    BY <1>6 DEF OtherStep, Populate, FeedPartial, ReconcileRetry, Elapse
  <2>2. QED
    BY <1>0, <2>1, OutputKept
<1>7. ASSUME ReconcileList \/ OperatorRecover \/ UNCHANGED vars PROVE jobs[k].output = "evidence"
  <2>1. UNCHANGED jobs \/ MaintenanceStep
    BY <1>7 DEF ReconcileList, OperatorRecover, MaintenanceStep, qvars, vars
  <2>2. QED
    BY <1>0, <2>1, OutputKept
<1>8. QED
  BY <1>1, <1>2, <1>3, <1>4, <1>5, <1>6, <1>7 DEF NextWorkers

LEMMA HandOffInvInitially == InitWorkers => HandOffInv
<1> SUFFICES ASSUME InitWorkers PROVE HandOffInv
  OBVIOUS
<1>1. \A p \in Places : ScrapeOf(p) \in JobId
  BY DEF ScrapeOf, JobId, JobTypes
<1>2. QED
  BY <1>1, ClientInvInitially DEF InitWorkers, Init, Row, HandOffInv, Holding, Working

LEMMA HandOffInvStep == HandOffInv /\ [NextWorkers]_vars => HandOffInv'
<1> SUFFICES ASSUME HandOffInv, [NextWorkers]_vars PROVE HandOffInv'
  OBVIOUS
<1>1. ClientInv'
  BY ClientInvStep DEF HandOffInv
<1>2. ASSUME NEW v \in Workers
      PROVE  /\ pc'[v] \in Holding => cur'[v].type = AgentType(v) /\ jobs'[cur'[v]].status # "absent"
             /\ (v \in Scrapers /\ pc'[v] \in {"known", "handed", "filed"}) => Handed(cur[v].place)'
             /\ v \in Scrapers => pc'[v] # "written"
  BY LocationsStep
<1>3. \A p \in Places : (jobs[ScrapeOf(p)].output = "evidence" => Handed(p))'
  BY EvidenceStep DEF ScrapeOf
<1>4. QED
  BY <1>1, <1>2, <1>3 DEF HandOffInv, AgentType, ScrapeOf

\* A place whose scrape was completed with evidence has been handed to the classifier,
\* wherever workers crash and whoever recovers, retries or requeues their jobs.
THEOREM PipelineHandsOff == SpecWorkers => []HandedOff
<1>1. HandOffInv => HandedOff
  BY DEF HandOffInv, HandedOff, ScrapeOf
<1>2. QED
  BY <1>1, HandOffInvInitially, HandOffInvStep, PTL DEF SpecWorkers

===============================================================================
