------------------------- MODULE EnrichmentWorkers -------------------------
(***************************************************************************)
(* The processes that work on the queue: scrapers (agents/web-scraper.mjs),*)
(* classifiers (agents/llm-classifier.mjs) and menu parsers                *)
(* (slowlane/menu-parse-worker.mjs), the reconciler and the feeders, and   *)
(* an operator's "queue.mjs recover".  A worker's step ends at each write  *)
(* to the queue or to Postgres: between two of them any other process may  *)
(* run, and the worker may crash.                                          *)
(*                                                                         *)
(* The Boolean constants are choices of deployment and environment, so     *)
(* that a run (and a theorem) says which of them a property needs.         *)
(***************************************************************************)
EXTENDS JobQueue, FiniteSets

CONSTANTS
  Scrapers, Classifiers, Parsers,  \* the worker ids by agent
  Scope,            \* [Scrapers -> SUBSET Places], --place-type
  ReusedIds,        \* a restarted worker has its old --worker-id
  RequeueBatch,     \* SCRAPE_REQUEUE_BATCH > 0
  PendingMax,       \* SCRAPE_REQUEUE_PENDING_MAX
  BusyQueue,        \* a write may still meet SQLITE_BUSY after its retries
  SlowBinding,      \* claim()'s second write may come later than the cutoff
  ManualRecover,    \* the operator may run "queue.mjs recover"
  Reconciler,       \* reconcile-classifier-queue.mjs is scheduled
  MaxCrashes        \* bound on crashes, for TLC only

ASSUME WorkersAssumption ==
  /\ Workers = Scrapers \cup Classifiers \cup Parsers
  /\ Scrapers \cap Classifiers = {}
  /\ Scrapers \cap Parsers = {}
  /\ Classifiers \cap Parsers = {}
  /\ Scope \in [Scrapers -> SUBSET Places]
  /\ {ReusedIds, RequeueBatch, BusyQueue, SlowBinding, ManualRecover, Reconciler} \subseteq BOOLEAN
  /\ PendingMax \in Nat
  /\ MaxCrashes \in Nat

VARIABLES
  pc,         \* where each worker is in its loop
  cur,        \* the job it has claimed and not let go
  batch,      \* the ids a scraper read for maybeRequeueFailedBatch()
  started,    \* the worker ids that have been used
  classified, \* the places whose Postgres row has a style or a price
  doomed,     \* the reconciler's list of candidates
  crashes     \* crashes so far

pvars == <<pc, cur, batch, started, classified, doomed, crashes>>
vars == <<qvars, pvars>>

\* "claimed": between claim()'s two writes.  The others are inside processJob():
\* "known" and "bare" after a scraper has read the place's row, with and without a
\* style or a price; "handed" after its hand-off, "filed" after its menu job;
\* "written" after a classifier's or a menu parser's write to Postgres.
Working == {"work", "known", "bare", "handed", "filed", "written"}
Holding == Working \cup {"claimed"}
Locations == Holding \cup {"off", "loop", "swept", "requeue"}

TypeOKWorkers ==
  /\ TypeOK
  /\ pc \in [Workers -> Locations]
  /\ cur \in [Workers -> JobId \cup {None}]
  /\ batch \in [Workers -> SUBSET JobId]
  /\ started \subseteq Workers
  /\ classified \subseteq Places
  /\ doomed \subseteq JobId
  /\ crashes \in Nat
  /\ \A w \in Workers : (cur[w] # None) <=> (pc[w] \in Holding)

InitWorkers ==
  /\ Init
  /\ pc = [w \in Workers |-> "off"]
  /\ cur = [w \in Workers |-> None]
  /\ batch = [w \in Workers |-> {}]
  /\ started = {}
  /\ classified \in SUBSET Places
  /\ doomed = {}
  /\ crashes = 0

JobOf(t, j) == [type |-> t, place |-> j.place]

AgentType(w) == CASE w \in Scrapers -> "scrape"
                  [] w \in Classifiers -> "classify"
                  [] OTHER -> "menu_parse"

ScopeOf(w) == IF w \in Scrapers THEN Scope[w] ELSE Places

Goto(w, from, to) == pc[w] \in from /\ pc' = [pc EXCEPT ![w] = to]

\* Mutant of LetGo: the current job is not forgotten.
LetGoKeepingJob(w, from) ==
  /\ Goto(w, from, "loop")
  /\ UNCHANGED <<cur, batch, started, classified, doomed, crashes>>

\* The worker is back at the head of its loop and has no current job.
LetGo(w, from) ==
  /\ Goto(w, from, "loop")
  /\ cur' = [cur EXCEPT ![w] = None]
  /\ UNCHANGED <<batch, started, classified, doomed, crashes>>

-----------------------------------------------------------------------------
(* Start, stop, crash. *)

\* init(): the menu parser does not register.
Start(w) ==
  /\ ReusedIds \/ w \notin started
  /\ Goto(w, {"off"}, "loop")
  /\ started' = started \cup {w}
  /\ IF w \in Parsers THEN UNCHANGED qvars ELSE RegisterWorker(w)
  /\ UNCHANGED <<cur, batch, classified, doomed, crashes>>

\* Mutant of Stop: the worker's row goes, the jobs it may own stay with it.
StopWithoutRelease(w) ==
  /\ Goto(w, {"loop"}, "off")
  /\ workers' = [workers EXCEPT ![w] = NoRow]
  /\ UNCHANGED <<jobs, cur, batch, started, classified, doomed, crashes>>

\* The end of run(): every path to it has let the current job go.
Stop(w) ==
  /\ Goto(w, {"loop"}, "off")
  /\ IF w \in Parsers THEN UNCHANGED qvars ELSE UnregisterWorker(w)
  /\ UNCHANGED <<cur, batch, started, classified, doomed, crashes>>

Crash(w) ==
  /\ crashes < MaxCrashes
  /\ Goto(w, Locations \ {"off"}, "off")
  /\ cur' = [cur EXCEPT ![w] = None]
  /\ batch' = [batch EXCEPT ![w] = {}]
  /\ crashes' = crashes + 1
  /\ UNCHANGED <<qvars, started, classified, doomed>>

-----------------------------------------------------------------------------
(* The head of the loop. *)

\* Every 60 s a scraper or classifier recovers detached jobs of its own type.
Sweep(w) ==
  /\ w \notin Parsers
  /\ pc[w] = "loop"
  /\ RecoverOrphaned({j \in JobId : j.type = AgentType(w) /\ j.place \in ScopeOf(w)}, TRUE)
  /\ UNCHANGED pvars

\* maybeRequeueFailedBatch() up to the cleanup of unclaimable jobs, whose errors
\* are swallowed.
SweepExhausted(w) ==
  LET waiting == {j \in JobId : /\ j.type = "scrape"
                                /\ j.place \in Scope[w]
                                /\ jobs[j].status = "pending"}
  IN  /\ RequeueBatch
      /\ w \in Scrapers
      /\ Goto(w, {"loop"}, IF Cardinality(waiting) > PendingMax THEN "loop" ELSE "swept")
      /\ CleanupUnclaimable(Scope[w]) \/ (BusyQueue /\ UNCHANGED qvars)
      /\ UNCHANGED <<cur, batch, started, classified, doomed, crashes>>

\* Its SELECT of the failed jobs to requeue, up to a limit ...
ReadFailed(w) ==
  LET found == RequeueCandidates(Scope[w])
  IN  /\ w \in Scrapers
      /\ Goto(w, {"swept"}, IF found = {} THEN "loop" ELSE "requeue")
      /\ \E ids \in SUBSET found : /\ found # {} => ids # {}
                                   /\ batch' = [batch EXCEPT ![w] = ids]
      /\ UNCHANGED <<qvars, cur, started, classified, doomed, crashes>>

\* ... and its transaction, once the writer lock is free.  If that is busy to the
\* end, the main loop logs it and goes on.
RequeueRead(w) ==
  /\ Goto(w, {"requeue"}, "loop")
  /\ RequeueFailed(batch[w]) \/ (BusyQueue /\ UNCHANGED qvars)
  /\ batch' = [batch EXCEPT ![w] = {}]
  /\ UNCHANGED <<cur, started, classified, doomed, crashes>>

ClaimJob(w) ==
  /\ Goto(w, {"loop"}, "claimed")
  /\ \E j \in JobId : /\ j.type = AgentType(w)
                      /\ Claim(w, j, ScopeOf(w))
                      /\ cur' = [cur EXCEPT ![w] = j]
  /\ UNCHANGED <<batch, started, classified, doomed, crashes>>

BindJob(w) ==
  /\ Goto(w, {"claimed"}, "work")
  /\ BindWorker(w, cur[w])
  /\ UNCHANGED <<cur, batch, started, classified, doomed, crashes>>

\* claim()'s second write, complete() or fail() throws SQLITE_BUSY out of the
\* job: the main loop logs it and goes on, and the row stays as it is.
Abandon(w) ==
  /\ BusyQueue
  /\ LetGo(w, Holding)
  /\ UNCHANGED qvars

-----------------------------------------------------------------------------
(* processJob() *)

\* Scraper: the place's row, read before the page is fetched.
ReadPlace(w) ==
  /\ w \in Scrapers
  /\ Goto(w, {"work"}, IF cur[w].place \in classified THEN "known" ELSE "bare")
  /\ UNCHANGED <<qvars, cur, batch, started, classified, doomed, crashes>>

\* Scraper: evidence was extracted, and the place is handed to the classifier
\* unless the row had a style or a price when it was read.
HandOff(w) ==
  /\ w \in Scrapers
  /\ Goto(w, {"known", "bare"}, "handed")
  /\ IF pc[w] = "known" THEN UNCHANGED qvars ELSE AddJob(JobOf("classify", cur[w]))
  /\ UNCHANGED <<cur, batch, started, classified, doomed, crashes>>

\* Scraper: a pizza place without menu data is filed for the menu parser, unless
\* that is paused or the page came from the browser fallback.
FileMenu(w) ==
  /\ w \in Scrapers
  /\ Goto(w, {"handed"}, "filed")
  /\ \/ AddJob(JobOf("menu_parse", cur[w]))
     \/ UNCHANGED qvars
  /\ UNCHANGED <<cur, batch, started, classified, doomed, crashes>>

\* Classifier: updateCanonicalRow() writes style and price to Postgres, the
\* nulls included.
WriteCanonical(w) ==
  /\ w \in Classifiers
  /\ Goto(w, {"work"}, "written")
  /\ classified' \in {classified \cup {cur[w].place}, classified \ {cur[w].place}}
  /\ UNCHANGED <<qvars, cur, batch, started, doomed, crashes>>

\* Menu parser: the parsed menu, or that there is none, goes to Postgres.
WriteMenu(w) ==
  /\ w \in Parsers
  /\ Goto(w, {"work"}, "written")
  /\ UNCHANGED <<qvars, cur, batch, started, classified, doomed, crashes>>

\* Mutant of FinishWithOutput: completed before the hand-off.
FinishBeforeHandOff(w) ==
  /\ LetGo(w, {"bare", "known", "written"})
  /\ Complete(cur[w], "evidence")

\* complete() with a result, the last write of each agent's successful path.
FinishWithOutput(w) ==
  /\ LetGo(w, {"filed", "written"})
  /\ Complete(cur[w], "evidence")

\* complete() without one: no website, page that cannot be scraped, no signal, no
\* menu evidence; also after the hand-off, when the cached page had no data or an
\* error of the browser path falls back to that of the fetch.
FinishEmpty(w) ==
  /\ LetGo(w, Working \ {"written"})
  /\ Complete(cur[w], "none")

\* fail(), also for whatever processJob() throws.
FinishFailed(w) ==
  /\ LetGo(w, Working)
  /\ \E error \in {"transient", "permanent"} : Fail(cur[w], error)

\* Classifier: Ollama is unreachable or the request was aborted by a shutdown.
GiveBack(w) ==
  /\ w \in Classifiers
  /\ LetGo(w, {"work"})
  /\ Retry(cur[w])

-----------------------------------------------------------------------------
(* Other processes. *)

\* populate-scrape-from-db.mjs and populate-classify-from-db.mjs.
Populate(j) ==
  /\ j.type \in {"scrape", "classify"}
  /\ jobs[j].status = "absent"
  /\ AddJob(j)
  /\ UNCHANGED pvars

\* populate-classify-from-db.mjs --retry-partial, run by feed-classifier-retries.mjs:
\* a style or a price of the place is still missing.
FeedPartial(j) ==
  /\ j.type = "classify"
  /\ RequeueCompleted(j)
  /\ UNCHANGED pvars

\* reconcile-classifier-queue.mjs lists stale classify jobs whose worker is not
\* among the running processes, or whose row contradicts it.
ReconcileList ==
  /\ Reconciler
  /\ doomed = {}
  /\ doomed' = {j \in Orphans(JobId, FALSE) : /\ j.type = "classify"
                                              /\ (pc[jobs[j].worker] = "off" \/ Detached(j))}
  /\ UNCHANGED <<qvars, pc, cur, batch, started, classified, crashes>>

\* ... and retries each of them.
ReconcileRetry(j) ==
  /\ j \in doomed
  /\ Retry(j)
  /\ doomed' = doomed \ {j}
  /\ UNCHANGED <<pc, cur, batch, started, classified, crashes>>

\* "node queue.mjs recover": recoverOrphaned() with its defaults.
OperatorRecover ==
  /\ ManualRecover
  /\ RecoverOrphaned(JobId, FALSE)
  /\ UNCHANGED pvars

\* Time passes: without SlowBinding, never as long as the cutoff between
\* claim()'s two writes.
Elapse(j) ==
  /\ SlowBinding \/ \A w \in Workers : ~ (pc[w] = "claimed" /\ cur[w] = j)
  /\ jobs[j].age = "recent"
  /\ Age(j)
  /\ UNCHANGED pvars

-----------------------------------------------------------------------------
LoopStep(w) ==
  Sweep(w) \/ SweepExhausted(w) \/ ReadFailed(w) \/ RequeueRead(w) \/ ClaimJob(w) \/ BindJob(w)

ProcessStep(w) ==
  \/ ReadPlace(w) \/ HandOff(w) \/ FileMenu(w) \/ WriteCanonical(w) \/ WriteMenu(w)
  \/ FinishWithOutput(w) \/ FinishEmpty(w) \/ FinishFailed(w) \/ GiveBack(w)

OtherStep(j) == Populate(j) \/ FeedPartial(j) \/ ReconcileRetry(j) \/ Elapse(j)

NextWorkers ==
  \/ \E w \in Workers :
       Start(w) \/ Stop(w) \/ Crash(w) \/ Abandon(w) \/ LoopStep(w) \/ ProcessStep(w)
  \/ \E j \in JobId : OtherStep(j)
  \/ ReconcileList
  \/ OperatorRecover

SpecWorkers == InitWorkers /\ [][NextWorkers]_vars

(* Fairness: launchd starts its workers again; a loop that keeps turning does  *)
(* everything its timers allow infinitely often, so what happens at the head   *)
(* of the loop, between visits to other locations, is strongly fair; time       *)
(* passes.  Nothing else is: not stops, crashes, operators or feeders.          *)

FairWorker(w) ==
  /\ WF_vars(Start(w))
  /\ SF_vars(Sweep(w))
  /\ SF_vars(SweepExhausted(w))
  /\ SF_vars(ClaimJob(w))
  /\ WF_vars(ReadFailed(w) \/ RequeueRead(w) \/ BindJob(w) \/ ProcessStep(w))

FairSpecWorkers ==
  /\ SpecWorkers
  /\ \A w \in Workers : FairWorker(w)
  /\ \A j \in JobId : WF_vars(Elapse(j))

-----------------------------------------------------------------------------
(* Properties. *)

\* claim() hands a job to one worker at a time ("atomic job claiming",
\* queue.mjs:4): no two workers are ever at work on the same job, through
\* recoveries, restarts, requeues and shutdowns.
ClaimExclusive ==
  \A v, w \in Workers : (v # w /\ pc[v] \in Holding /\ pc[w] \in Holding) => cur[v] # cur[w]

\* What stands is done, or was claimed less than the cutoff ago.
Stands(j) == \/ jobs[j].status = "completed"
             \/ jobs[j].status = "processing" /\ jobs[j].age = "recent"

\* In this step the worker uses up what it had of the job from before: it finishes
\* what it had claimed, requeues what it had read, or leaves and gives up its own.
UsesUp(w, j) ==
  \/ cur[w] = j /\ pc[w] \in Working /\ pc'[w] = "loop"
  \/ j \in batch[w] /\ pc[w] = "requeue" /\ batch'[w] = {}
  \/ Processing(j, w) /\ pc[w] = "loop" /\ pc'[w] = "off"

\* No statement but requeueCompleted()'s takes the status from a row that stands
\* because of what the row says: complete(), fail(), retry() and the batch's UPDATE
\* go by id alone, so a worker that lost the job, the reconciler's list (of a job
\* completed since) and a scraper's batch may reopen it.  In every deployment those
\* are all: each has the id from before and acts on it once, and neither a sweep,
\* an operator's "recover", a cleanup, a restart nor the feeders touch such a row,
\* but for the feeder's counted requeue.
StandsStep ==
  \A j \in JobId : (Stands(j) /\ jobs'[j].status # jobs[j].status) =>
    \/ jobs[j].status = "completed" /\ jobs'[j].requeues = jobs[j].requeues + 1
    \/ j \in doomed \ doomed'
    \/ \E w \in Workers : UsesUp(w, j)

\* The same of every step: what stands is lost only to those who had the job's id.
LostOnlyToHolders == [][StandsStep]_vars

\* A scrape job that is completed with evidence has been handed off: the place has
\* a classify job, or needs none.  It holds across crashes because complete()
\* comes after the hand-off.
Handed(p) == jobs[[type |-> "classify", place |-> p]].status # "absent" \/ p \in classified

\* The same for every place.
HandedOff ==
  \A p \in Places : LET scrape == jobs[[type |-> "scrape", place |-> p]]
                    IN  (scrape.status = "completed" /\ scrape.output = "evidence") => Handed(p)

\* The pipeline implements the queue: each step of each process is one operation of
\* JobQueue, made with ids and places that its client may use, or leaves both tables
\* alone.
UsesQueue == Spec

\* Every scrape job that waits is eventually completed or failed, though workers
\* crash and their attempts run out: an orphan is released, an exhausted pending
\* job is failed.
ScrapeSettles ==
  \A p \in Places : LET j == [type |-> "scrape", place |-> p]
                    IN  jobs[j].status = "pending" ~> jobs[j].status \in {"completed", "failed"}

-----------------------------------------------------------------------------
(* What comments of the code say of it and the model refutes. *)

\* "Periodically requeue failed jobs before claiming" (web-scraper.mjs:722): the
\* jobs that the batch requeues are at least not being processed when it does.
RequeuesOnlyFailed ==
  [][\A w \in Workers : RequeueRead(w) =>
       \A j \in batch[w] : jobs[j].status \in {"failed", "pending"}]_vars

\* "It never requeues a job while the matching worker process is still present"
\* (reconcile-classifier-queue.mjs:6): the reconciler takes no job that a running
\* worker is at work on.
ReconcileSparesWorkers ==
  [][\A j \in doomed, w \in Workers :
       (ReconcileRetry(j) /\ pc[w] \in Working) => cur[w] # j]_vars

\* "Recover orphaned jobs (from crashed workers)" (queue.mjs:400): with
\* requireDetachedWorker, a sweep takes no job from the worker it belongs to while
\* that is at work on it.
RecoversOnlyOrphans ==
  [][\A v, w \in Workers :
       (Sweep(w) /\ pc[v] \in Working /\ Processing(cur[v], v)) => Processing(cur[v], v)']_vars

\* "Give a completed classification job one bounded retry" (queue.mjs:286): a job
\* that gets the retry can be claimed for it.
SecondChanceClaimable ==
  [][\A j \in JobId : FeedPartial(j) => jobs'[j].attempts < MaxAttempts]_vars

=============================================================================
