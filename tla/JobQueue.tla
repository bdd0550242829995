------------------------------ MODULE JobQueue ------------------------------
(***************************************************************************)
(* The SQLite job queue of the enrichment pipeline (class JobQueue of      *)
(* enrichment/queue.mjs): the rows of its tables "jobs" and "workers" and  *)
(* one action per statement or transaction that writes them.  SQLite runs  *)
(* each of them atomically, so an action is one write transaction.         *)
(*                                                                         *)
(* No operation but claim() and requeueCompleted() looks at a job's        *)
(* status, and none at the caller's identity: any client that knows an id  *)
(* may complete, fail or retry the job, however late.  Next is that most   *)
(* general client; EnrichmentWorkers restricts it to the real ones.        *)
(***************************************************************************)
EXTENDS Naturals

CONSTANTS
  Places,       \* the (place_type, osm_id) pairs that jobs are about
  Workers,      \* worker ids
  MaxAttempts,  \* jobs.max_attempts
  MaxRequeues,  \* the maxRequeues option of requeueCompleted()
  Priority,     \* [Places -> Nat], jobs.priority
  None          \* SQL NULL

ASSUME QueueAssumption ==
  /\ MaxAttempts \in Nat \ {0}
  /\ MaxRequeues \in Nat
  /\ Priority \in [Places -> Nat]
  /\ None \notin Workers

JobTypes == {"scrape", "classify", "menu_parse"}

\* UNIQUE(job_type, place_type, osm_id): a job is named by its type and place.
JobId == [type : JobTypes, place : Places]

ASSUME NoneIsNoJob == None \notin JobId

Statuses == {"absent", "pending", "processing", "completed", "failed"}

\* last_error, as far as any query tells its values apart: NULL, a text the
\* scraper's requeue query takes for transient, or one it does not.
Errors == {"none", "transient", "permanent"}

\* "output" and "requeues" stand for data: whether it holds what a worker
\* extracted or inferred, and its partial_reprocess_count.  "age" is whether
\* started_at is older than the cutoff of the recovery queries, which look at
\* it only while the job is in processing: any other row is "recent".  An id
\* without a row has status "absent".
JobRow == [status : Statuses, worker : Workers \cup {None}, attempts : Nat,
           error : Errors, output : {"none", "evidence"}, requeues : Nat,
           age : {"recent", "stale"}]

WorkerRow == [status : {"none", "idle", "working"}, current : JobId \cup {None}]

NoRow  == [status |-> "none", current |-> None]
IdleRow == [status |-> "idle", current |-> None]

Row(status) == [status |-> status, worker |-> None, attempts |-> 0, error |-> "none",
                output |-> "none", requeues |-> 0, age |-> "recent"]

VARIABLES
  jobs,     \* table jobs
  workers   \* table workers

qvars == <<jobs, workers>>

TypeOK == /\ jobs \in [JobId -> JobRow]
          /\ workers \in [Workers -> WorkerRow]

Init == /\ jobs = [j \in JobId |-> Row("absent")]
        /\ workers = [w \in Workers |-> NoRow]

-----------------------------------------------------------------------------
(* Row updates shared by several statements. *)

\* UPDATE workers SET status = 'idle', current_job_id = NULL WHERE worker_id IN ws.
Idled(ws) == [w \in Workers |-> IF w \in ws /\ workers[w].status # "none"
                                THEN IdleRow ELSE workers[w]]

\* The row of a job given back to the queue.
Pending(row) == [row EXCEPT !.status = "pending", !.worker = None, !.age = "recent"]

Processing(j, w) == jobs[j].status = "processing" /\ jobs[j].worker = w

\* LEFT JOIN workers: no row of the owner says it is working on the job.
Detached(j) == ~ /\ jobs[j].worker # None
                 /\ workers[jobs[j].worker].status = "working"
                 /\ workers[jobs[j].worker].current = j

-----------------------------------------------------------------------------
(* Claiming. *)

\* INSERT ... ON CONFLICT DO NOTHING.
AddJob(j) ==
  /\ jobs' = [jobs EXCEPT ![j] = IF @.status = "absent" THEN Row("pending") ELSE @]
  /\ UNCHANGED workers

\* Mutant of Claimable: max_attempts is not compared.
ClaimableForever(t, scope) == {j \in JobId : /\ j.type = t
                                             /\ j.place \in scope
                                             /\ jobs[j].status = "pending"}

\* scope is the places of the placeType option, all of them without it.
Claimable(t, scope) == {j \in JobId : /\ j.type = t
                                      /\ j.place \in scope
                                      /\ jobs[j].status = "pending"
                                      /\ jobs[j].attempts < MaxAttempts}

\* ORDER BY: fresh scrape jobs first, then priority.  created_at, which orders
\* the rest, is left to chance.
Fresh(j) == j.type = "scrape" /\ jobs[j].error = "none"

Precedes(i, j) ==
  IF Fresh(i) = Fresh(j) THEN Priority[i.place] > Priority[j.place] ELSE Fresh(i)

ClaimedBy(row, w) == [row EXCEPT !.status = "processing", !.worker = w,
                                 !.attempts = @ + 1, !.age = "recent"]

\* The UPDATE ... RETURNING of claim().
Claim(w, j, scope) ==
  /\ j \in Claimable(j.type, scope)
  /\ \A i \in Claimable(j.type, scope) : ~ Precedes(i, j)
  /\ jobs' = [jobs EXCEPT ![j] = ClaimedBy(@, w)]
  /\ UNCHANGED workers

\* Mutant of BindWorker: the row says "working", not on what.
BindStatusOnly(w, j) ==
  /\ workers' = [workers EXCEPT ![w] = IF @.status = "none" THEN @
                                       ELSE [status |-> "working", current |-> None]]
  /\ UNCHANGED jobs

\* The second, separate write of claim(): the worker's row, if it has one.
BindWorker(w, j) ==
  /\ workers' = [workers EXCEPT ![w] = IF @.status = "none" THEN @
                                       ELSE [status |-> "working", current |-> j]]
  /\ UNCHANGED jobs

-----------------------------------------------------------------------------
(* Finishing.  The job is whatever its row says at that time. *)

\* Mutant of Completed: outputData replaces data, and with it the requeue count.
CompletedReplacing(row, output) ==
  [row EXCEPT !.status = "completed", !.age = "recent", !.output = output, !.requeues = 0]

\* outputData is merged into data.
Completed(row, output) ==
  [row EXCEPT !.status = "completed", !.age = "recent",
              !.output = IF output = "none" THEN @ ELSE output]

\* complete(): the owner stays recorded.
Complete(j, output) ==
  /\ jobs[j].status # "absent"
  /\ jobs' = [jobs EXCEPT ![j] = Completed(@, output)]
  /\ workers' = Idled({jobs[j].worker})

Failed(row, error) ==
  [row EXCEPT !.status = IF row.attempts < MaxAttempts THEN "pending" ELSE "failed",
              !.worker = None, !.age = "recent", !.error = error]

\* fail(): pending again while attempts remain, else failed.
Fail(j, error) ==
  /\ jobs[j].status # "absent"
  /\ jobs' = [jobs EXCEPT ![j] = Failed(@, error)]
  /\ workers' = Idled({jobs[j].worker})

Refunded(row) == [Pending(row) EXCEPT !.error = "transient",
                                      !.attempts = IF @ > 0 THEN @ - 1 ELSE @]

\* retry() with refundAttempt: pending, and the attempt is given back.
Retry(j) ==
  /\ jobs[j].status # "absent"
  /\ jobs' = [jobs EXCEPT ![j] = Refunded(@)]
  /\ workers' = Idled({jobs[j].worker})

Reopened(row) == [Pending(row) EXCEPT !.error = "permanent", !.requeues = @ + 1]

\* requeueCompleted(): one bounded second chance for a completed job.
RequeueCompleted(j) ==
  /\ jobs[j].status = "completed"
  /\ jobs[j].requeues < MaxRequeues
  /\ jobs' = [jobs EXCEPT ![j] = Reopened(@)]
  /\ UNCHANGED workers

-----------------------------------------------------------------------------
(* Recovery and maintenance. *)

\* Mutant of Orphans: requireDetachedWorker is ignored.
OrphansIgnoringWorker(scope, requireDetached) ==
  {j \in scope : jobs[j].status = "processing" /\ jobs[j].age = "stale"}

\* Mutant of Orphans: the cutoff is not compared.
OrphansOfAnyAge(scope, requireDetached) ==
  {j \in scope : jobs[j].status = "processing" /\ (requireDetached => Detached(j))}

\* recoverOrphaned(): menu_parse jobs fail, the others are pending again, and
\* every owner is idled.  Its error text contains "timeout", which the
\* scraper's requeue query takes for transient.
Orphans(scope, requireDetached) ==
  {j \in scope : /\ jobs[j].status = "processing"
                 /\ jobs[j].age = "stale"
                 /\ requireDetached => Detached(j)}

Recovered(j) == [Pending(jobs[j]) EXCEPT
                   !.error = "transient",
                   !.status = IF j.type = "menu_parse" THEN "failed" ELSE @]

RecoverOrphaned(scope, requireDetached) ==
  LET orphans == Orphans(scope, requireDetached)
  IN  /\ orphans # {}
      /\ jobs' = [j \in JobId |-> IF j \in orphans THEN Recovered(j) ELSE jobs[j]]
      /\ workers' = Idled({jobs[j].worker : j \in orphans})

\* Mutant of Exhausted: off by one.
ExhaustedBeyond(j) == /\ j.type = "scrape"
                      /\ jobs[j].status = "pending"
                      /\ jobs[j].attempts > MaxAttempts

\* The scraper's cleanupUnclaimablePending(), for the places of its scope.
Exhausted(j) == /\ j.type = "scrape"
                /\ jobs[j].status = "pending"
                /\ jobs[j].attempts >= MaxAttempts

CleanupUnclaimable(scope) ==
  /\ jobs' = [j \in JobId |-> IF Exhausted(j) /\ j.place \in scope
                              THEN [jobs[j] EXCEPT !.status = "failed"] ELSE jobs[j]]
  /\ UNCHANGED workers

\* The candidates of maybeRequeueFailedBatch() and the transaction that requeues
\* the ids it read: WHERE id = ?, whatever the row has become meanwhile.
RequeueCandidates(scope) == {j \in JobId : /\ j.type = "scrape"
                                           /\ j.place \in scope
                                           /\ jobs[j].status = "failed"
                                           /\ jobs[j].error = "transient"}

\* Its new last_error quotes the old one, and stays transient with it.
Requeued(row) == [Pending(row) EXCEPT !.attempts = 0]

RequeueFailed(ids) ==
  /\ jobs' = [j \in JobId |-> IF j \in ids THEN Requeued(jobs[j]) ELSE jobs[j]]
  /\ UNCHANGED workers

\* registerWorker(): an existing row becomes idle and keeps its current_job_id.
RegisterWorker(w) ==
  /\ workers' = [workers EXCEPT ![w].status = "idle"]
  /\ UNCHANGED jobs

\* unregisterWorker(): release the worker's jobs and delete its row.
UnregisterWorker(w) ==
  /\ jobs' = [j \in JobId |-> IF Processing(j, w) THEN Pending(jobs[j]) ELSE jobs[j]]
  /\ workers' = [workers EXCEPT ![w] = NoRow]

\* Time: a claim becomes older than the cutoff.
Age(j) ==
  /\ jobs[j].status = "processing"
  /\ jobs' = [jobs EXCEPT ![j].age = "stale"]
  /\ UNCHANGED workers

-----------------------------------------------------------------------------
(* The most general client. *)

\* Ids come from rows the client has read.
Known == {j \in JobId : jobs[j].status # "absent"}

WorkerStep(w) ==
  \/ \E j \in JobId, scope \in SUBSET Places : Claim(w, j, scope)
  \/ \E j \in JobId : BindWorker(w, j)
  \/ RegisterWorker(w)
  \/ UnregisterWorker(w)

JobStep(j) ==
  \/ AddJob(j)
  \/ \E output \in {"none", "evidence"} : Complete(j, output)
  \/ \E error \in {"transient", "permanent"} : Fail(j, error)
  \/ Retry(j)
  \/ RequeueCompleted(j)
  \/ Age(j)

MaintenanceStep ==
  \/ \E scope \in SUBSET JobId, requireDetached \in BOOLEAN :
       RecoverOrphaned(scope, requireDetached)
  \/ \E scope \in SUBSET Places : CleanupUnclaimable(scope)
  \/ \E ids \in SUBSET Known : RequeueFailed(ids)

Next ==
  \/ \E w \in Workers : WorkerStep(w)
  \/ \E j \in JobId : JobStep(j)
  \/ MaintenanceStep

Spec == Init /\ [][Next]_qvars

-----------------------------------------------------------------------------
(* What the queue promises to every client. *)

\* A job in processing names its owner, a waiting or failed one names nobody:
\* whatever order the unguarded updates come in, no row is left in processing
\* with no worker to recover it from, and unregisterWorker() finds what it owns.
OwnerRecorded ==
  \A j \in JobId : /\ jobs[j].status = "processing" => jobs[j].worker # None
                   /\ jobs[j].status \in {"absent", "pending", "failed"} => jobs[j].worker = None

\* The attempt budget survives every mix of claims, refunds, recoveries and
\* requeues: attempts never exceed max_attempts, and a job that is being
\* processed has paid for its attempt.
AttemptBudget ==
  \A j \in JobId : /\ jobs[j].attempts <= MaxAttempts
                   /\ jobs[j].status = "processing" => jobs[j].attempts >= 1

\* The count that stops the partial-retry feeder from looping
\* (requeueCompleted) is bounded, and neither a completion's new data nor a
\* requeue, a retry or a recovery ever resets it.
RequeueCountStep == \A j \in JobId : /\ jobs'[j].requeues >= jobs[j].requeues
                                     /\ jobs'[j].requeues <= MaxRequeues

\* The same of every step of the queue: requeueCompleted()'s count never resets.
RequeueCountNeverReset == [][RequeueCountStep]_qvars

=============================================================================
