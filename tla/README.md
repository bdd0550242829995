# Verification of the map data pipeline

TLA+ modules that model the enrichment pipeline of this repository, TLC
configurations that check them on small instances, and TLAPS proofs of what
matters most for every size. Each definition that models code has an entry in
`PROJECT.json` ("map") with the lines it stands for. Paths below are under the
repository's root; `fr/` abbreviates `packages/food-runtime/scripts/`.

## 1. The system and its parts

The repository aggregates place data (OpenStreetMap, Foursquare, Overture, city
registers) into a local Postgres database, enriches it by scraping and by a
local language model, and publishes it to Supabase. It is not a server: it is a
set of Node and Python processes, started by launchd from
`packages/food-runtime/config/production-tasks.json`, which meet in a SQLite
queue, in Postgres, in state files, and in lock files.

| Component | State | Operations | Meets others through |
|---|---|---|---|
| Job queue, `fr/enrichment/queue.mjs` | SQLite tables `jobs`, `workers` | add, claim (two writes), complete, fail, retry, requeueCompleted, recoverOrphaned, register, unregister | every agent calls it |
| Web scraper, `fr/enrichment/agents/web-scraper.mjs` | current job, batch of failed ids, last sweep times | loop: sweep, cleanup, batch requeue, claim; job: read place, fetch, hand-off, menu job, complete or fail | queue; adds classify and menu jobs |
| LLM classifier, `fr/enrichment/agents/llm-classifier.mjs` | current job | loop: sweep, claim; job: ask Ollama, write Postgres, complete, fail, give back | queue; Postgres row read by scrapers |
| Menu parser, `fr/enrichment/slowlane/menu-parse-worker.mjs` | current job | claim, parse, write, complete, fail; never registers | queue |
| Reconciler, population, feeder, `fr/ops/reconcile-classifier-queue.mjs`, `fr/enrichment/populate-*.mjs`, `fr/ops/feed-classifier-retries.mjs` | a list read before acting | retry, add, requeueCompleted | queue |
| Host resource gate, `packages/executor/host-resource-gate.mjs` | ticket files, lease link, reaper file | create ticket, recover dead lease, list, link, release | shared by the processes of all products |
| Trusted host, `packages/executor/trusted-host.mjs` | none | order stages, prepare | executor |
| Executor and preview broker, `packages/executor/src/index.ts` | position in the run, registry of datasets, the broker's acquisitions and outputs | run stages in order with timeouts, validate, store artifacts | state store, artifact store, plugins |
| Run state store, `packages/state-sqlite/src/index.ts` | SQLite tables of runs and stages | begin, complete, fail a stage or a run; checkpoints | executors of several processes |
| Artifact store, `packages/artifacts-filesystem/src/index.ts` | directories `staging/`, `objects/`, `manifests/` | stage, commit, discard, read | broker |
| Core, `packages/core/src` | in apply mode: frozen contexts, open stage invocations, one-shot subjects | validate, check readiness, admit; begin and close a stage, bind a subject, authorise an effect, validate outputs | executor, SDK, CLI; no executor of apply mode exists yet |
| Source pipeline, `fr/ops/run-source-pipeline.mjs` | lock directory, state file with due times and region indexes | per source due and region: acquire, prepare, review, commit; record; finish | exporters, imports, Postgres |
| Exporters, `fr/ops/export-*`, `fr/lib/overture-delivery.mjs` | Foursquare cursor with its pending page; Overture manifest and delivery checkpoint; OSM tile results | export a page, acknowledge it; split a tile, resume | source pipeline |
| Source review, `fr/ops/source-input-sample-report.mjs`, `import-source-review-queue.mjs`, `auto-link-*`, `accept-*`, `preflight-*`, `promote-*` | `places`, `place_sources`, `source_review_queue` | report, import, link, accept, import new places, promote contacts | Postgres, with the source pipeline and each other |
| Publication, `fr/sync-local-to-supabase.mjs`, `fr/lib/supabase-sync-*`, `fr/ops/*guarded-supabase-sync.mjs` | lock directory, checkpoint file, the website's table | lock, repair, quality gate, readiness, dry run, write, checkpoint | Postgres, Supabase, launchd |
| BuiltHere runner, `packages/builthere-runtime` | checkpoint with pending batch, ledger of versions, review files | per city: fetch, transform, save, publish, checkpoint; then tips | trusted host, the website's SQL contract |
| Postgres adapter, `packages/adapter-postgres/src` | pool, transaction, rows read | connect, begin, attest, page, roll back, abort | shadow host |
| A Pizza Michigan, `profiles/apizzamichigan/src` | shadow host's lock, resources | lock, compose, run the stages, match, clean up | Postgres adapter, executor |
| Supervisor, `packages/food-runtime/production.mjs` | child process group | start, stop, kill a group | every task |

### What is hard

* **Interleaving without a server.** Workers, sweeps, reconcilers and feeders
  change the same rows; each statement is atomic, their sequences are not.
  `complete`, `fail` and `retry` look neither at the status nor at the owner.
* **Crashes.** A worker may die between any two writes; what it held must be
  released by somebody, and only once it is really dead.
* **Stale reads.** Candidates are read first and updated by id later.
* **Lock files.** The gate has no server: leases of dead owners are recovered
  by waiters that race with each other and with new owners.
* **Plugins.** A stage's plugin may abandon operations, never end, or be aborted
  at any await, while ledger and artifact store are written one after the other.
* **Budgets.** Attempts, requeues and refunds must agree over any history.
* **Cursors.** A page is exported, imported and acknowledged by different
  processes; each of them may die, and the source moves on meanwhile.
* **Data under several policies.** What is published may come from sources that
  expire at different times and permit different things, through stages that may
  be slow or claim too much.
* **Two stores.** Publication writes the website first and its checkpoint then;
  BuiltHere a website, a ledger and a checkpoint; answers get lost, writes
  arrive late.
* **Paging a changing table**, of a snapshot by its cursor, of enriched rows by
  their time of enrichment, which is taken before the row can be seen.

### What makes each part correct

| Component | Properties |
|---|---|
| Job queue | rows well formed; processing has an owner; attempts within budget; the requeue count never resets |
| Agents together | one worker per job; evidence is handed off before it is recorded; a job that is done or freshly claimed is lost only to who had its id before; every scrape job settles |
| Gate | one user at a time, children of dead owners counted; only dead leases are recovered; no stray tickets; nobody starves |
| Run ledger | settled runs and attempts are consistent and final, whoever calls |
| Executor and artifact store | stages run once and in order; manifests have objects and recorded outputs manifests; files are written for running attempts only and none that the store knows is left staged by a settled one; in-memory datasets live until their last consumer; every run settles |
| Core, apply mode | what may be published honours every source it came from; effects stay within what was reviewed; reservations keep the disk's watermarks; an admitted pipeline can go on |
| Source pipeline and exporters | nothing skipped whatever crashes between output and cursor; pending pages replayed unchanged; one run at a time until one dies; every scan ends |
| Source review | one place for one source record, no twins within reach, imports as their rows were accepted, contacts never replaced |
| Publication | the website shows what the checkpoint has passed, and what is enriched is published, but for rows committed after their stamp was passed; another restaurant's row is never overwritten |
| BuiltHere runner | a key names one command for ever; ledger and website agree; the cursor passes only what was delivered or filed; every scan ends |
| Shadow host and reader | one snapshot; one run at a time, nothing left behind unless the lock file itself fails; every run ends |
| Matcher | prefetch by tiles equals the legacy scan; its output is admitted; it decides as the legacy report might |

`PROJECT.json` lists the hazards one by one, at their lines, with the
properties that would catch them.

## 2. Plan

1. `JobQueue` and `EnrichmentWorkers`.
2. `HostResourceGate`, and `ExclusiveResource`, which it refines.
3. `RunStateStore` and `PreviewRun`, which EXTENDS the ledger and implements its
   general client.
4. `SourceRegions`, `FsqCursor`, `OvertureDelivery`, `OsmTiles`, composed by
   `SourcePipeline`.
5. `SourceMatching` and `SourceReview`.
6. `Publication`, the guarded sync and what it calls.
7. `TrustedHost` and `BuiltHereRunner`.
8. `SnapshotReader`, `ShadowHost`, `ApizzaMatching`.
9. `ApplyReadiness` and `ApplyAuthorization`.

All are written and model-checked, and every safety property that a run checks is
proved. What is left: promises stated as specifications of their own where, so
far, invariants say them (a ledger that names one command per key, a mirror of a
table up to a mark), the hazards that no property covers, and the reads of the
shadow plugins, of which only the matcher is modelled.

Modules to be proved about declare no RECURSIVE operator and state their
invariants as conjunctions of named parts.

## 3. Modules

### JobQueue

The two tables, one action per write statement or transaction. A job is named
by its type and place (the UNIQUE constraint); `Row("absent")` is a missing
row. `data` is reduced to whether it holds evidence and to the requeue count,
`last_error` to whether the scraper's requeue query takes it for transient,
`started_at` to whether it is older than the cutoff. Ties of `ORDER BY` beyond
priority (`created_at`) are left to chance. Heartbeats, counters, the stats
table and the pause flags are left out. `withBusyRetry` and its lock file only
decide when a write happens, not whether it is atomic. `Next` is the most
general client: anybody may complete, fail or retry any job it has seen.

### EnrichmentWorkers

The processes. A step of a worker ends at each write to the queue or Postgres.
`pc` is where it is: `loop`, `swept` and `requeue` at the head of the loop,
`claimed` between claim()'s two writes, then inside processJob(). What a page
holds or the model answers is a free choice between the ends of processJob();
page cache and retries of fetches end in one of them. The pending count of
maybeRequeueFailedBatch() is read in the same step as its cleanup of
unclaimable jobs; its read of the failed jobs and its transaction are separate
steps. The reconciler's list is one atomic read, as in the code.

Deployment switches are constants, so that a run or a theorem names those it
needs: `ReusedIds` (workers restart under a fixed `--worker-id`, as launchd's
tasks do), `RequeueBatch`, `BusyQueue` (a write may fail after its retries),
`SlowBinding` (ten minutes may pass between claim()'s two writes),
`ManualRecover`, `Reconciler`. `MaxCrashes` bounds crashes for TLC.

### HostResourceGate

`withHostResource()`, one step per file operation: naming a ticket, publishing
it by rename, reading the lease, opening the reaper file, checking and
unlinking a dead lease, listing names, reading the lease's inode, inspecting one
ticket after the other in their order, deciding, linking, the callback,
verifying, unlinking, removing the ticket; an abort or a timeout in between. A
process is a process group; `life` says whether it runs, is dead with children
in its group (`orphans`), or gone. `before` is the order of names, given when a
name is stamped, which is before its file exists. `ino` is the inode number of
a ticket's file, which `lease` shares as a hard link; with `ReusedInodes` a new
file may get a number that no file has any more. `ExclusiveResource` is what the
gate promises: a set of users, entered only when it is empty. `IsExclusiveResource`
maps the users to the processes whose callback, or its children, may still run.

### RunStateStore

The tables `runs` and `stage_attempts`, one action per call that writes them;
attempts are a sequence, since their numbers are. A call that throws changes
nothing. `StoreNext` is any client, so that the theorems about the ledger assume
nothing of the executor. Checkpoints are left out.

### PreviewRun

The processes that run pipelines on one ledger and one artifact store. `pc` is
where run() awaits: `next` between stages, `admitting` for the free disk space,
`invoked` for the plugin, `closing` for the drain, `closed` before it tells the
ledger, `failing` before failRun(). The signal of a stage is aborted, and its
broker closed, exactly from the end of `invoked` on: the timer, the host's
signal and the plugin's end all act in one turn of the event loop, so one
operator, `Open`, stands for both checks.

A plugin is any program: `PluginCall` starts broker operations in any order and
number, `Operation` ends the ones in flight, in the order of commitJson()'s file
operations (object, manifest, staged file). Each output port has one state in
`out`: once claimed, it never becomes free again in its stage; `read` is the
stage's acquisition or the input being read. An operation that is past its
check when the signal fires still writes its file; the next check fails it.
`ephemeral` counts the remaining consumers of in-memory datasets.
`staging`, `objects` and `manifests` are the files; an object's name is
`Content` of its output, so that two outputs may share one. stageJson() describes
a value after its file is written and outside of the catch that would remove it:
`KeepUntracked` is a value that recordMetadata() refuses (two arrays of records),
whose file stays in `staging` without an entry in the store's map; `untracked`
names these, and discard() finds only the others.

Left out: checks of definitions, grants and locks before a run, receipts,
byte limits, temporary files, corrupted files, errors of rm().

### SourceRegions, FsqCursor, OvertureDelivery, OsmTiles, SourcePipeline

The first four are the durable state of the exporters, one operator or action per
call that writes it; `SourcePipeline` EXTENDS them and adds the runs: `run[p].pc`
is `start`, `own` and `lock` around the lock directory (mkdir and owner.json are
two steps, and taking over a dead owner's is more), `next` at the head of the
loop over sources, then one value per stage of a work unit, `failed`, `finish`,
`release`. A run has loaded the state file before it locks (`mine`) and writes
its copy back. Every stage may fail, a process may be killed at any step, the Hub
and Overture may publish a release at any time. Rows of a source are numbers, and
`reviewed` is the history of what the review import accepted. Time passes
(`Age`) only while nobody runs, which is when the code looks at it; scheduled
starts are unbounded, manual ones bounded. sourceCadence() is called outside of
the catch of a source: where it throws for Overture (`CadenceThrows`: no region
before the refused one has a backlog) the run ends without saving its state.

### SourceMatching and SourceReview

`SourceMatching` is the report's matching as operators over positions on a line,
names with a table of scores, and one contact. `SourceReview` has the three
tables, and its processes read a tool's whole input in one step and write it
later, row by row or in the transactions of the code; `job` is what a tool holds
in between. Reviewers decide, records move or close (`Correct`), and others fill
contacts: those actions are external. A queue row that is decided on has two
histories: `judged`, the evidence that its tool had read, and `accepted`, what the
row held when the update by id and status reached it. An imported place is named
as its row was, or by the brand whose report it came in (`CanonicalName`, over the
table `BrandNames`). Left out: report files, `--limit`, filters
by state, provenance of website and wikidata fields.

### Publication

The local rows, the website's rows, the checkpoint and the runs. A row's
published value is its time of enrichment, since that is what decides what is
published. An agent's UPDATE takes NOW() when it starts (`StartEnriching`) and is
seen when it commits (`CommitEnrichment`), in any order with others and with a
run's reads, so that a row may commit with a stamp that the checkpoint, or the
batch being sent, has passed; the window never selects it again. `passed` is the
history of these rows, until a later enrichment or a read by the window. A write may fail, be applied
although it seems to have failed, or still be in flight when its run is killed,
when it is applied then or never. The website adds rows of its own, under any id
that was never used. Bulk and row-level writes are the same to the properties;
the lifecycle-only mode and the report files are left out. A behaviour has one
plan: places, faults and bounds. `MirrorBehindCheckpoint` is claimed for plans
whose runs do not overlap (`plan.alone`), `EnrichmentPublished` for plans in
which nothing fails after a write and there is no reconciliation by id
(`plan.tidy`), both except for passed rows; section 4 says what happens without
each exception. launchd's task does not ask for the reconciliation, which is opt-in
(auto-guarded-supabase-sync.mjs:56).

### TrustedHost and BuiltHereRunner

`TrustedHost` says which stage comes next: the first of the plan that is not
complete and whose dependencies are, so that the stages run in the stable topological
order. The runner is one process: `pc` is where it awaits, `complete` the stages of the
batch that have run. `disk` is a city's
checkpoint, `ledgerOf` the website's versions, `sent` the history of what was
sent under a key. A page, a batch's commands and its receipts are functions from object ids,
whose order is that of the code's lists; an id of a page has what the server held then: a
record (its identity and version), `Malformed` or `Gone`. A refused command makes the batch go one by one. Time passes, and tips
are approved, only between runs, since only load() and the last step look.

### SnapshotReader and ShadowHost

The reader's transaction: a query and its answer are one step, and any query may
fail. `snapshot` is what the open transaction sees, from BEGIN's first query on.
An abort destroys a leased connection at once, but a connection being made is
waited for. `ShadowHost` adds the lock file (open, then write), the composition,
the stages and the cleanups. The lock of a killed run stays until an operator
removes it (`OperatorUnlocks`), which the code wants. Writing the opened file may
fail, after which nobody removes it, and so may reading or removing it at the
release; `lockFailed` is the history of that.

### ApizzaMatching

The matcher as operators, with its longitude padding, distances and name scores
as tables. The nearest rows are a set, those with fewer closer ones than the limit, of
which the decisions look at the nearest and at the best. `input` is what one match is given;
`TypedInput` says what the snapshot's parser lets through, ids in strict order above all. `MCShadowHost` starts
`ShadowHost`, whose stage `Match` it is, with each of the inputs; its host only goes on
with the empty one, for what a run matches is not in its host's state.

### ApplyReadiness and ApplyAuthorization

`ApplyReadiness` is what validation and readiness require, as predicates over a
definition, a plugin catalog, a profile, a deployment and a host policy. Digests
are the documents themselves or, of a profile, a field that no two profiles share.
`ApplyAuthorization` is the capability context made from such an input, which
`snapshot` holds by its name. Its invocations and subjects are the code's two kinds of
handles; `MayRead` and `MayConsume` are authorisations that leave no trace, so that
the properties speak of whatever they would admit at the time. The executor that
would call them is not in the repository: `Return`, `Store` and `Tick` let a stage
propose any restrictions, ancestry of one profile and expiry for its outputs, fill
its reservation and take time. That datasets start when they are registered, and that an executor asks
for admission before it begins a stage, are assumptions about it.
`MCHostResourceGate` checks the modules beside the gate: no state is shared, and
one moves only while the other rests in its initial state.

## 4. Runs

| Run | Shows | Bounds |
|---|---|---|
| `pipeline` | TypeOKWorkers, HandedOff, AttemptBudget, RequeueCountNeverReset, LostOnlyToHolders; UsesQueue: the pipeline implements JobQueue's specification; all with reused ids, a busy queue, operator recoveries, the reconciler and batch requeues | one scraper, one classifier, one place, two attempts, one requeue, one crash |
| `agents` | ClaimExclusive with unique ids, without batch requeues and the reconciler | two scrapers, two menu parsers, two attempts, one crash |
| `scrape_liveness` | ScrapeSettles: every waiting scrape job completes or fails | one scraper, three attempts, two crashes |
| `gate` | ExclusiveUse, NoStrayTicket, IsExclusiveResource (refinement), Served; WritesHonourSources, ReservationsHonoured, ChecksAgree (EffectsReviewed and CanGoOn) | two processes that return for ever, two tokens, two crashes anywhere. Apply mode: two contexts, three stage invocations, three datasets, one subject, times 0 and 1, lifetimes of one and two |
| `preview` | LedgerConsistent, ArtifactsBacked, SettledStageIsClean, RegistryExact, AbortedRunIsNotServed, RunSettles | one process, two runs, three stages, two ports, calls of the ledger that throw, one crash |
| `sources` | NothingSkipped, OneRunUnlessCrashed, ExportsKept (PendingPageReplayed and SplitProgressKept), ScansComplete | eight plans of one or two sources; two regions, three rows, two releases, two tiles of two pieces; one or two processes, one fault |
| `review` | NoDuplicates (UniqueIdentity and NoTwins), ImportedAsAccepted, ContactKept | four plans; two records, at most three places, two processes with up to two tools each, four tool runs, one of each event |
| `publication` | MirrorBehindCheckpoint, NeverOverwritesAnother, EnrichmentPublished | seven plans; two places, batches of one, one or two enrichments, at most two faults, one import, one row of the website |
| `shadow` | ReturnsOneSnapshot, LockCoversRun, ShadowSettles; PrefetchIsBoxScan, ReplacesLegacy (OutputsAdmitted and PortOfLegacy) | two processes with one run each, one kill, one commit, one rewrite of the projection; five views of up to three rows. Matcher: up to two of seven candidates with up to three of nine rows, the nearest two compete |
| `builthere` | KeyNamesOneCommand, LedgerIsWebsite, CursorPassesDelivered, ScanEnds | two cities with two and one object ids, two scans of the first, three versions of which one is refused, one tip, one stop |
| `overture_renewal`, `publication_stall` | findings, below | the smallest that show them |

Two workers and one job are enough for two workers to meet on a job. Two attempts give an
attempt that is the last and one that is not; the third in the liveness run
makes an attempt that is neither. In `gate` two processes come back without end,
so that a waiter meets an owner, a dead owner, its orphans and a reaper that died;
its safety for any number of processes is proved. An invocation's name is used
again only when nobody remembers it.

Apply mode has a source stage with two sources, a transform and a sink: three
invocations are one run of the pipeline, or a transform that is tried twice at
once, for which the disk has no room, or a source of one context whose data a
second one would take. One source's data expire before the other's. Of six inputs
two are ready, the second with a permission withdrawn; the rest are refused for a
stage before its producer, a policy that is not approved or too long, and a request
that its profile does not allow.

In `preview` a dataset has three references by two stages, two of them by one, and
an optional output decides whether the third stage can resolve its inputs:
released at once, twice or never would each show. Several processes share only
the ledger's rows, whose theorems are for any number of them.

In `sources` each plan enables the sources whose interplay it is about; two
regions make a rotation, a page ends at a file's end, at its row limit or at its
scan limit, and the first Overture release has a tile of two pages and an empty
one. A run takes one tile and, of Overture, two regions (`source-pipeline-taco.json`
has two and one), so that
each can be cut short by its budget or not. One plan has Overture after Foursquare,
so that its refusal meets another source's rotation. In `review` the records are 20 m apart, 90 m and
5 m from a place, on both sides of the rules' 25 m and 100 m, and the report of one
gives it a brand's name. In `publication` a batch of one has a row before it and
after it, and two statements commit in both orders of their stamps. In `shadow` the views hold
nothing, a row in two versions, a row too many or a cursor twice, so that the page
of one row meets each limit in the middle of a read; a unit of the matcher's
plane is 25 m, its tiles are eight units wide, and two rows compete for the
best match instead of ten, so that ties fall on the cut. In `builthere` a page
holds two ids of one permit, and the source changes between any two of its reads.

`CHECK_DEADLOCK FALSE` appears where ids, runs or events are bounded (`agents`,
`preview`, `review`, `publication`, `shadow`) and in `gate`, where all processes
may be dead with their files left: once each has been used, the system stops.

**Fairness.** `FairSpecWorkers`: launchd restarts workers (`Start`), started jobs
go on, time passes, and what the loop does on a timer at its head (sweep,
cleanup, claim) happens infinitely often if it is possible infinitely often,
which is strong fairness because the worker keeps leaving the head. `FairSpec`
of the gate: a running process goes on and callbacks end (they make requests
with timeouts), also in children that outlive their parent. `FairSpec` of
`PreviewRun`: Node's event loop takes the executor's steps that are ready and
fires its timers, and operations in flight end. The last is what the code
assumes of readers and of the file system: the drain waits for every operation
without a limit, so that a reader that ignores its signal would keep the run
open. The plugin owes nothing, as the timer ends its stage. Nobody has to
arrive, give up, crash or be restarted. `Served` leaves out behaviours in which a
reaper died at its file, and `RunSettles` runs whose process died.
`SpecSources`: launchd starts apply runs for ever, the steps of a run go on, and
Foursquare's cadence ends again and again if it may between runs;
ScansComplete leaves out the orphaned lock, a run killed between making the lock
directory and naming its owner, which blocks all runs until somebody removes it,
and an Overture cadence that has come to throw, which ends every run before its
state is saved.
`Publication`'s `Spec`: launchd starts the wrapper, steps go on, the lock ages;
no fault has to happen. `FairSpec` of `ShadowHost`: a process takes its steps,
its queries end with an answer or a timeout; no signal, deadline, commit, kill or
operator is owed. `FairSpec` of `BuiltHereRunner`: runs are started and go on;
stops are bounded, so a city whose every scan fails is not covered, and in the
code it does block the cities after it.

### Findings

* `overture_renewal`: the exporter's manifest says that its release is complete as
  soon as the last page is written, the delivery checkpoint only when that page
  is acknowledged. After a crash in between and a newer release, the exporter
  replaces the release, and `stateFor()` then refuses every later start.
* `publication_stall`: readiness looks at the first batch after the checkpoint
  only. If that batch is public already but its checkpoint was lost, every run
  stops as idle, while rows behind it wait, until a row of the batch changes. The
  same happens with no fault at all where the reconciliation by id is switched on,
  since it publishes rows ahead of the checkpoint: `EnrichmentPublished` fails in a
  tidy plan that allows it.

TLC refutes more statements, of comments and help texts or such as one would
expect. Their properties are in the modules, or are the ones of a run without an
exception, and can be checked with the constants given here:

| Property | Constants | What happens |
|---|---|---|
| RequeuesOnlyFailed | MCAgents.cfg, RequeueBatch TRUE, two scrapers, one attempt | the batch requeue updates by id what it read before taking the writer lock (web-scraper.mjs:192), and puts a job back that another scraper is processing |
| ReconcileSparesWorkers | MCAgents.cfg, Reconciler and ReusedIds TRUE, one classifier, two places | the reconciler retries from a list (reconcile-classifier-queue.mjs:53); a worker started in between may have the job |
| RecoversOnlyOrphans | MCAgents.cfg, ReusedIds TRUE, two scrapers, two places | recovering the orphan of a reused worker id idles the row of the live worker (queue.mjs:457), whose job the next sweep takes |
| SecondChanceClaimable | MCAgents.cfg, one classifier | a job that completed on its last attempt is reopened but can never be claimed (queue.mjs:306) |
| ReapsOnlyDead | MCGate.cfg, ReusedInodes TRUE, four processes | where inode numbers are reused, a late reaper removes a live owner's lease (host-resource-gate.mjs:102) |
| A completed job is reopened by requeueCompleted() only | MCPipeline.cfg, `StandsStep` reduced to its first alternative | the reconciler retries by id a job completed since its list was read (reconcile-classifier-queue.mjs:53); so may a batch requeue and a worker that lost the job |
| LinksOnlyPending | MCReview.cfg, Plans <- RacePlans | auto-linking writes a link for a row that was decided since it was read (auto-link-source-review-queue.mjs:585) |
| ScheduledRunsExclusive | MCPublication.cfg, Plans <- SlowPlan | the lock of a run older than 25 minutes is taken over while it publishes (auto-guarded-supabase-sync.mjs:90) |
| ImportedAsJudged | MCReview.cfg | a report refreshes a candidate between the accept tool's reading and its update by id and status (accept-likely-new-source-candidates.mjs:501), and what is imported was judged by nobody |
| MirrorBehindCheckpoint, EnrichmentPublished without `passed` | MCPublication.cfg | a row commits after another with an earlier stamp; the checkpoint has passed it (supabase-sync-policy.mjs:229), and the window never reads it |
| SettledStageIsClean of `staging` instead of `Tracked` | MCPreview.cfg | a value with two arrays of records is refused after its file was written (artifacts-filesystem/src/index.ts:150) |
| ScansComplete without the exception for Overture | MCSources.cfg | after the refusal of `overture_renewal` sourceCadence() ends every run (run-source-pipeline.mjs:429), and Foursquare's rotation stands still |
| LockCoversRun without `lockFailed` | MCShadow.cfg | the lock file stays when writing it fails after open (fsq-shadow-host-v1.ts:691) or when the release does (fsq-shadow-host-v1.ts:727) |

Met while modelling, and in the models as they are in the code: an OSM refresh never
asks again for a tile whose pieces all succeeded (export-osm-tiles.mjs:235); the
quality gate inspects the newest rows while publication writes the oldest
(classification-qa-report.mjs:235); an import updates its queue row by id without
a look at the status (preflight-reviewed-new-place-import.mjs:795); a promoted
contact does not make its place newly enriched, so that it is not published by
itself; a BuiltHere record seen again in a page with a version the website
refused counts as unchanged (runner.mjs:113); and the shadow reader's budget counts
jsonb text and its commas generously (adapter-postgres/src/index.ts:844).

## 5. Proofs

Every theorem is for any number of workers, places, processes, records, attempts and
crashes. Assumptions are the named ASSUMEs of the modules, which TLC evaluates in the
runs: finite switches and natural bounds, agents that are distinct, `None` outside of the
sets it is added to, and what a module's section below names.

* **EnrichmentWorkersProofs, the queue.** `QueueInv` is TypeOK and `RowInv` of each row: what the
  status says of the owner, attempts within budget, at least one while
  processing, requeues within bound. It is inductive row by row:
  `UpdatesKeepRowInv` shows it once for each kind of update and each action
  cites it. `RowStep` adds that the requeue count does not fall.
* **EnrichmentWorkersProofs, the agents.**
  * `PipelineImplementsQueue`: every step of every process is an operation of
    `JobQueue` or leaves its tables alone. `ClientInv` is needed because
    operations are for jobs that exist: who holds a job holds one, and batches
    consist of known ids. The queue's theorems so carry over.
  * `PipelineClaimExclusive`, under `SafeDeployment` (unique ids, no busy queue, no
    slow binding, no manual recovery, no reconciler, and either no batch
    requeue or scrapers of disjoint scopes). ClaimExclusive alone is not
    inductive: `Owns` says that who works on a job is its row's owner,
    `Attached` that its own row says so, so that no sweep finds the job
    detached, `Accounted` that an owned job is being worked on or its worker is
    off, `BatchFailed` that ids in a batch are still failed. Each
    condition of SafeDeployment is used; the table of section 4 shows what
    happens without some of them.
  * `PipelineLosesOnlyToHolders`, in every deployment: whatever takes the status of a
    job that is done or freshly claimed is a worker, a batch or the reconciler's list that
    had its id before and gives it up in the same step (`UsesUp`), or the counted requeue.
    Each action is shown to be one of these, or to leave such rows alone because its
    own condition looks at status and age.
  * `PipelineHandsOff`, in every deployment: `HandOffInv` adds where each kind of
    worker can be, and that evidence in a scrape row implies the hand-off.
* **AdmissionProofs, the gate.** `GateInv`: who is in its turn has the lease
  (`Holders`), and so have the children of a dead owner (`Orphans`); one reaper
  at a time (`OneReaper`); and between its check and its unlink a reaper is right
  (`Recovered`), since only recovery removes the lease of a process that is gone.
  The last needs equal inode numbers to mean the same file, hence
  `~ ReusedInodes` in `GateExclusiveUse`, `GateReapsOnlyDead` and
  `GateNoStrayTicket`; without it TLC refutes ReapsOnlyDead.
  `GateIsExclusiveResource`: with that invariant every step of the gate is an
  acquisition by one user when there is none (`OneAtATime`), a release, or
  changes nothing that `ExclusiveResource` sees (`ResourceStep`).
* **AdmissionProofs, apply mode.** For any documents whose inventories number their
  stages and whose reservations are natural numbers (`InputAssumption`), and whatever
  stages propose.
  * `WritesAreWithinPolicies` and `ChecksAlwaysAgree`, from `ApplyInv`: an admitted
    context's documents passed the checks (`Contexts`); a dataset of a source stage is
    under the terms of an approved policy (`ReadUnder`), any other has the stamps of each
    dataset it was made from, and terms no weaker than theirs (`Carries`), and it came from
    one source at least (`Roots`); the inputs of an open invocation carry stamps of its own
    context only (`Invocations`); and a subject is written once at most, within what was
    reviewed for its invocation (`Subjects`). The terms of all sources then follow along
    the ancestry, however long.
  * `ReservationsAreHonoured`, where all contexts are of one host (`OneHost`), as admission
    adds up what is reserved on the machine: what is reserved and not yet written never
    exceeds what the disk has beyond each watermark (`ReservationInv`, over the set
    `Unwritten`, so that a stage that fills its reservation takes an element of it).
* **PreviewRunProofs, the ledger.** For any client of the ledger. LedgerConsistent is
  inductive only with `OnlyLatestRuns`: all attempts but the last are settled,
  because completeRun() looks at the last ones only.
* **PreviewRunProofs, the executor.** For any pipeline, any number of processes, runs, stages
  and crashes, and a ledger whose calls may throw.
  * `PreviewImplementsLedger`: every step is a call of the ledger or leaves it
    alone, so that LedgerConsistent and LedgerIsFinal follow from the theorems
    about any client. It needs `Control`: a run has one owner, its row is
    running, the stages before the owner's position succeeded, those after it
    were not attempted, and a stage being served has one running attempt.
    `LocalStep` reduces this to the process that moves and to its run.
    `PreviewStagesInOrder` is a part of it.
  * `PreviewArtifactsBacked`, `PreviewSettledStageIsClean` and
    `PreviewWritesWhileRunning`: `Outputs` says which files an output has in each
    of its states, `Quiet` that nothing is in flight outside of `invoked` and
    `closing`, and `Clean` that nothing tracked of the run is staged then, which is why
    failRun() may settle attempts that failStage() could not. `Effect` is
    proved once for each broker operation and used for all of them. Type
    correctness needs `Quiet` too: a late operation would name no stage.
  * `PreviewRegistryExact`: the executor counts references down as stages end, and the count
    it has is that of the consumers in the stages to come. `RegistryInv` adds what
    the count is while its stage is still running, and `ConsumersSplit` that the
    consumers from a stage on are its own references and the later ones.
  * `PreviewAbortedRunIsNotServed`: no plugin of an aborted run is served, whenever the
    signal fired.
* **SourcePipelineProofs.** For any regions, rows, releases, tiles, processes and faults.
  * `LockKeepsRunsApart`: until a process dies, who works made the lock and
    nobody else works (`LockInv`); no lock is dead until then, so that none is taken over.
  * `ExportersKeep`, an action property: a pending page is replaced by itself only, and what
    was fetched of a tile stays. `TileInv` says that the rows of a piece marked as
    fetched are in its file.
  * `NothingIsSkipped`: what cursor and checkpoint passed was imported. It needs that rows in
    a process's hands are of the release of its cursor, although other processes may
    finish that scan and start another meanwhile (`Pinning`), that they
    were reviewed before they are acknowledged (`RowsImported`), and that cursors,
    manifests and pages fit together (`CursorInv`, `DeliveryInv`). The rows of a
    page are found again in any interval, by the arithmetic of offsets.
* **SourceReviewProofs.** For any plan that `PlansAssumption` admits: places that have
  identities of their own to begin with, unless a reviewer closed them. `ReviewInv` has `Typed`;
  `Reviewed`, that a decided row keeps the evidence it was decided on and that what an import
  holds of it is that; `IdentityInv`, one place in use for one record; and `TwinInv`, that
  what an import has still to create keeps its distance from the new places and from each
  other (`KeepsClear`), where no two processes run batches. `OneRestaurantOnePlace`, `PlacesAreAsAccepted` and `ContactsStay` follow.
* **PublicationProofs.** `CheckpointIsHonest`: the website shows what the
  checkpoint has passed. Where one process publishes (`AloneInv`), a row of its batch still has
  the value it was read with, or a stamp that comes after the batch, or was passed (`ReadInv`); no
  other row between the checkpoint and the batch is left out (`Covered`), which is what the order
  by stamp and id is for. The only step that can put a row there is a commit, and
  `passed` takes it exactly then; and before the checkpoint is saved all of the batch is public
  (`ShownInv`), so that an answer that was lost or a write that arrives late does no harm.
  `OthersAreKept` is for all plans, whoever else publishes. In plans
  of one process, `PlansAssumption` has that rows the website adds are other restaurants by the
  code's own measures.
* **BuiltHereProofs.** For any cities, ids, versions and batch sizes. `RunnerInv` has, for
  each city, `KeysInv`: a key of this scan is of an id that the cursor passed or of
  the pending command itself; `DeliveryInv`: the website has the checkpoint's versions
  overlaid with those pending commands that were applied, the first of the accepted ones; and
  `BatchInv`: the pending batch was made of the page that was fetched for it. `MemoryInv`
  is what the stages hand on. A crash leaves the first three, so that a batch is
  replayed as it was (`KeysNameOneCommand`, `LedgerAgrees`), and `PageDelivered`, with
  `OverlaidInParts`, gives `CursorIsHonest` when the checkpoint moves. The plan of stages
  needs to be executable (`DefinitionAssumption`).
* **ShadowHostProofs.**
  * `ReadIsOneSnapshot`, for any page size and any commits between two queries: the pages put
    together are, at every step, the first rows of the open snapshot in the order of
    their cursors (`ReadInv`).
  * `LockIsHeld`, for any number of processes: the lock names a process from when it
    opens the file until it releases it, and what it holds is open only in phases whose
    cleanup is still to come (`LockInv`), so that a process that exits with its lock has
    failed to write or to release it.
  * `PrefetchFindsAll`: looking at the boxes of a row's tile and of its eight neighbours finds
    every row that lies in any box, on both sides of zero, since a box exceeds its
    tile by less than a tile (`MatcherAssumption`).
  * `MatcherReplacesLegacy`, for any input that the snapshot's parser lets through: the
    validators admit every decision, the counts of the report add up, and what is decided
    is possible for the legacy report, which leaves ties to the order of its rows. Every
    finite set of competing rows has a nearest, a farthest and a best one
    (`ExtremesExist`); those with fewer closer ones than the limit are the first
    few, as many as there are up to the limit (`FirstFew`); and decisions are counted
    by their candidates (`CountedByCandidate`). TLC checks `TypedInput` of every input
    the run starts with (`SomeInputsTyped`).

Left to TLC: liveness (`ScrapeSettles`, `Served`, `RunSettles`, `ScansComplete`,
`EnrichmentPublished`, `ShadowSettles`, `ScanEnds`), which is outside TLAPS's
reach, and the two findings, which are counterexamples.

## 6. Not modelled

See "components" in `PROJECT.json`. Whole components without control of their own:
the core's digests, identifiers, migration verdicts and audit records, static profiles, read-only reports and
backups, CLI, SDK and repository scripts; and the supervisor, a thin layer over
child processes whose effect is in the models' fairness and process groups.

Within the modelled parts: the contents of pages and answers, wording of errors,
heartbeats and statistics, the contention lock of the queue, I/O errors other than
those the code expects, validation of options and of records' contents, the age
of a source policy (looked at once, at composition), timeouts inside a stage
beyond its failing, and the feeder's SQL selection.
