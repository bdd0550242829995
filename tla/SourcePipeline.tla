--------------------------- MODULE SourcePipeline ---------------------------
(***************************************************************************)
(* Runs of the source pipeline (scripts/ops/run-source-pipeline.mjs) over  *)
(* the durable state of its sources.  A behaviour has one plan: the        *)
(* sources that are enabled, in the order of the configuration, and the    *)
(* processes, manual runs, faults and releases it may have.                *)
(***************************************************************************)
EXTENDS FsqCursor, OvertureDelivery, OsmTiles, Sequences

CONSTANTS
  Procs,          \* processes that may run the pipeline
  Launchd,        \* the one launchd starts
  Plans,          \* the plans considered
  Threshold,      \* failure_rotation_threshold of a source, 0 when unset
  RegionsPerRun,  \* regions_per_run of a source
  TilesPerRun,    \* tiles_per_run of osm
  Spiders,        \* enabled All the Places spiders
  SpidersPerRun,  \* spiders_per_run
  MaxUnits        \* --max-work-units

VARIABLES
  plan,       \* the sources of this behaviour
  run,        \* the process-local state of a run
  lock,       \* the lock directory
  stateFile,  \* the scheduler state of a source, as last saved
  reviewed,   \* ghost: rows of a region whose review import succeeded
  manual, faults, crashed

pipelineVars == <<plan, run, lock, stateFile, reviewed, manual, faults, crashed>>
sourceVars == <<fsqVars, overtureVars, tile, pipelineVars>>

Sources == {"osm", "fsq", "overture", "website", "atp"}
Ages == {"new", "resume", "due"}   \* since last_success; "due" also when there is none
NewEntry == [region |-> 0, failures |-> 0, rotated |-> FALSE, age |-> "due", spider |-> 0]
Entries == [region : 0..(RegionCount - 1), failures : Nat, rotated : BOOLEAN, age : Ages,
            spider : 0..(Spiders - 1)]
Idle == [pc |-> "off", apply |-> FALSE, at |-> 1, units |-> 0, offset |-> 0, region |-> 0,
         mem |-> [s \in Sources |-> NewEntry], page |-> None, tried |-> {}]
Handouts == [page : DeliveryPages, release : Nat]
NoLock == [held |-> FALSE, owner |-> None, dead |-> FALSE]

ASSUME PipelineAssumption ==
  /\ Plans \subseteq [sources : Seq(Sources), procs : SUBSET Procs, manual : Nat, faults : Nat,
                      releases : Nat, catalogs : Nat]
  /\ Threshold \in [Sources -> Nat] /\ RegionsPerRun \in [Sources -> Nat]
  /\ {TilesPerRun, SpidersPerRun, MaxUnits} \subseteq Nat /\ Spiders \in Nat \ {0}
  /\ None \notin Handouts

Source(p) == plan.sources[run[p].at]
Entry(p) == run[p].mem[Source(p)]
Step(p, pc) == run' = [run EXCEPT ![p] = IF pc = "off" THEN Idle ELSE [@ EXCEPT !.pc = pc]]
Closing(p) == run' = [run EXCEPT ![p] = [Idle EXCEPT !.pc = "release"]]
Fault == faults < plan.faults /\ faults' = faults + 1 /\ UNCHANGED <<plan, lock, stateFile, manual, crashed>>
Quiet == UNCHANGED <<plan, lock, stateFile, reviewed, manual, faults, crashed>>
DataStays == UNCHANGED <<fsqVars, overtureVars, tile>>

---------------------------------------------------------------------------
(* Starting: the state is read first, then the lock directory is made.     *)

(* launchd starts apply runs as often as it likes, an operator a few. *)
Manual(p, apply) == p # Launchd \/ ~apply

Start(p, apply) ==
  /\ p \in plan.procs /\ run[p].pc = "off"
  /\ Manual(p, apply) => manual < plan.manual
  /\ manual' = IF Manual(p, apply) THEN manual + 1 ELSE manual
  /\ run' = [run EXCEPT ![p] = [Idle EXCEPT !.pc = "lock", !.apply = apply, !.mem = stateFile]]
  /\ UNCHANGED <<plan, lock, stateFile, reviewed, faults, crashed>>
  /\ DataStays

\* Mutant of Abandoned: a lock whose owner is not written yet counts as dead.
AbandonedOrNew == lock.owner = None \/ lock.dead
Abandoned == lock.owner # None /\ lock.dead

MakeLock(p) ==
  /\ run[p].pc \in {"lock", "relock"}
  /\ IF ~lock.held
     THEN lock' = [NoLock EXCEPT !.held = TRUE] /\ Step(p, "own")
     ELSE UNCHANGED lock /\ Step(p, IF run[p].pc = "lock" /\ Abandoned THEN "steal" ELSE "off")
  /\ UNCHANGED <<plan, stateFile, reviewed, manual, faults, crashed>>
  /\ DataStays

OwnLock(p) ==
  /\ run[p].pc = "own"
  /\ IF lock.held THEN lock' = [lock EXCEPT !.owner = p, !.dead = FALSE] /\ Step(p, "next")
     ELSE UNCHANGED lock /\ Step(p, "off")
  /\ UNCHANGED <<plan, stateFile, reviewed, manual, faults, crashed>>
  /\ DataStays

StealLock(p) ==
  /\ run[p].pc = "steal"
  /\ lock' = NoLock
  /\ Step(p, "relock")
  /\ UNCHANGED <<plan, stateFile, reviewed, manual, faults, crashed>>
  /\ DataStays

(* The finally block removes the directory, whoever owns it. *)
ReleaseLock(p) ==
  /\ run[p].pc = "release"
  /\ lock' = NoLock
  /\ Step(p, "off")
  /\ UNCHANGED <<plan, stateFile, reviewed, manual, faults, crashed>>
  /\ DataStays

---------------------------------------------------------------------------
(* Choosing the next source and its region.                                *)

Backlog(source) ==
  \/ source = "fsq" /\ \E r \in Regions : FsqBacklog(r)
  \/ source = "overture" /\ \E r \in Regions : OvertureBacklog(r)

\* sourceCadence() asks the regions in their order, and asks no further once one has a
\* backlog.
CadenceThrows(source) ==
  /\ source = "overture"
  /\ \E r \in Regions : OvertureRefuses(r) /\ \A q \in Regions : q < r => ~OvertureBacklog(q)

Due(p) ==
  \/ Entry(p).age = "due"
  \/ Entry(p).age = "resume" /\ Backlog(Source(p))

RotationDue(source, entry) ==
  RegionCount > 1 /\ Threshold[source] > 0 /\ entry.failures >= Threshold[source]

\* Mutant of Following: a finished page does not advance the index.
FollowingStays(r) == r
(* advanceSourceRegionIndex() *)
Following(r) == (r + 1) % RegionCount

(* sourceRegionIndexForRun() and the bookkeeping of a rotation. *)
AtRun(source, entry) ==
  IF RotationDue(source, entry)
  THEN [entry EXCEPT !.region = Following(@), !.failures = 0, !.rotated = TRUE]
  ELSE entry

(* selectSourceRegionIndex(): the largest backlog, the first of equals.    *)
OsmRegion(entry) ==
  LET waiting == {r \in Regions : OsmBacklog(r) > 0}
      largest == {r \in waiting : \A q \in waiting : OsmBacklog(q) <= OsmBacklog(r)}
  IN IF entry.rotated \/ waiting = {} THEN entry.region
     ELSE CHOOSE r \in largest : \A q \in largest : r <= q

FirstRegion(source, entry) == IF source = "osm" THEN OsmRegion(entry) ELSE entry.region

NextSource(p) ==
  /\ run[p].pc = "next"
  /\ Quiet /\ DataStays
  /\ IF run[p].at > Len(plan.sources) THEN Step(p, "finish")
     ELSE LET entry == AtRun(Source(p), Entry(p))
          IN \/ /\ run[p].units >= MaxUnits
                /\ run' = [run EXCEPT ![p].at = @ + 1]
             \/ /\ run[p].units < MaxUnits /\ CadenceThrows(Source(p))
                /\ Closing(p)
             \/ /\ run[p].units < MaxUnits /\ ~CadenceThrows(Source(p))
                /\ IF Due(p)
                   THEN run' = [run EXCEPT ![p] = [@ EXCEPT
                          !.pc = "acquire", !.offset = 0, !.mem[Source(p)] = entry,
                          !.region = FirstRegion(Source(p), entry)]]
                   ELSE run' = [run EXCEPT ![p].at = @ + 1]

---------------------------------------------------------------------------
(* Acquisition: one at a time under the host compute gate.                 *)

GateFree(p) == \A q \in Procs \ {p} : run[q].pc \notin {"prepare", "tiles"}
AtStep(p, pc, source) == run[p].pc = pc /\ Source(p) = source
Handed(p, page) == run' = [run EXCEPT ![p].pc = "review", ![p].page = page]

AcquireFsq(p) ==
  /\ AtStep(p, "acquire", "fsq") /\ GateFree(p)
  /\ \E page \in PagesOf(Pinned(run[p].region)) :
       /\ IF run[p].apply THEN ExportPage(run[p].region, page) ELSE PreviewPage(run[p].region, page)
       /\ Handed(p, [page |-> page, release |-> Pinned(run[p].region).release])
  /\ Quiet /\ UNCHANGED <<overtureVars, tile>>

AcquireOverture(p) ==
  /\ AtStep(p, "acquire", "overture") /\ GateFree(p)
  /\ IF OvertureRefuses(run[p].region)
     THEN UNCHANGED overtureVars /\ Step(p, "failed")
     ELSE /\ Step(p, "prepare")
          /\ IF NeedsAcquisition(run[p].region) THEN AcquireTilePage(run[p].region)
             ELSE UNCHANGED overtureVars
  /\ Quiet /\ UNCHANGED <<fsqVars, tile>>

PrepareOverture(p) ==
  /\ AtStep(p, "prepare", "overture")
  /\ IF OvertureRefuses(run[p].region)
     THEN UNCHANGED overtureVars /\ Step(p, "failed")
     ELSE /\ PreparePage(run[p].region)
          /\ Handed(p, [page |-> checkpoint'[run[p].region].pending,
                        release |-> checkpoint'[run[p].region].release])
  /\ Quiet /\ UNCHANGED <<fsqVars, tile>>

StartOsm(p) ==
  /\ AtStep(p, "acquire", "osm") /\ GateFree(p)
  /\ run' = [run EXCEPT ![p].pc = "tiles", ![p].tried = {}]
  /\ Quiet /\ DataStays

RequestTile(p) ==
  /\ AtStep(p, "tiles", "osm")
  /\ Cardinality(run[p].tried) < TilesPerRun
  /\ \E t \in NextTiles(run[p].region, run[p].tried) :
       /\ AttemptTile(run[p].region, t)
       /\ run' = [run EXCEPT ![p].tried = @ \cup {t}]
  /\ Quiet /\ UNCHANGED <<fsqVars, overtureVars>>

(* The runtime budget may end the loop before the tiles do. *)
EndOsm(p) ==
  /\ AtStep(p, "tiles", "osm")
  /\ Step(p, IF ExporterFails(run[p].region) THEN "failed" ELSE "review")
  /\ Quiet /\ DataStays

AcquireNational(p) ==
  /\ run[p].pc = "acquire" /\ Source(p) \in {"website", "atp"}
  /\ Step(p, "review")
  /\ Quiet /\ DataStays

---------------------------------------------------------------------------
(* Match, review import, automatic links and reviewed-new processing.      *)

RowsHanded(p) ==
  IF ~run[p].apply \/ run[p].page = None THEN {}
  ELSE LET page == run[p].page.page
       IN {<<Source(p), run[p].page.release, row>> :
             row \in IF Source(p) = "fsq" THEN RowsOf(page) ELSE (page.start + 1)..page.end}

Imported(p) == reviewed' = [reviewed EXCEPT ![run[p].region] = @ \cup RowsHanded(p)]

Review(p) ==
  /\ run[p].pc = "review"
  /\ Imported(p)
  /\ Step(p, "commit")
  /\ UNCHANGED <<plan, lock, stateFile, manual, faults, crashed>>
  /\ DataStays

(* A stage fails before the import, or after it. *)
StageFails(p) ==
  /\ run[p].pc \in {"acquire", "review"}
  /\ Fault
  /\ UNCHANGED reviewed \/ (run[p].pc = "review" /\ Imported(p))
  /\ Step(p, "failed")
  /\ DataStays

(* Advance the region index, and take the next page or record the success. *)
UnitDone(p) ==
  LET source == Source(p)
      next == Following(run[p].region)
      more == /\ source \notin {"website", "atp"}
              /\ run[p].offset + 1 < RegionsPerRun[source]
              /\ run[p].units + 1 < MaxUnits
      advanced == [Entry(p) EXCEPT !.region = IF source = "website" THEN @ ELSE next]
      done == [advanced EXCEPT !.age = "new",
                 !.failures = IF source = "website" THEN @ ELSE 0,
                 !.rotated = IF source = "website" THEN @ ELSE FALSE,
                 !.spider = IF source = "atp" THEN (@ + SpidersPerRun) % Spiders ELSE @]
  IN run' = [run EXCEPT ![p] = [@ EXCEPT
       !.units = run[p].units + 1, !.page = None, !.tried = {},
       !.pc = IF more THEN "acquire" ELSE "next",
       !.at = IF more THEN run[p].at ELSE run[p].at + 1,
       !.offset = IF more THEN run[p].offset + 1 ELSE 0,
       !.region = IF more THEN next ELSE run[p].region,
       !.mem[source] = IF more THEN advanced ELSE done]]

(* Acknowledge the page that was handed out, on an apply run. *)
Commit(p) ==
  /\ run[p].pc = "commit"
  /\ LET r == run[p].region
         handed == run[p].page
     IN IF ~run[p].apply \/ Source(p) \notin {"fsq", "overture"}
        THEN UnitDone(p) /\ UNCHANGED <<fsqVars, overtureVars>>
        ELSE \/ /\ Source(p) = "fsq" /\ UNCHANGED overtureVars
                /\ IF CanAcknowledge(r, handed.page)
                   THEN AcknowledgePage(r, handed.page) /\ UnitDone(p)
                   ELSE UNCHANGED fsqVars /\ Step(p, "failed")
             \/ /\ Source(p) = "overture" /\ UNCHANGED fsqVars
                /\ IF CanCommit(r, handed.release, handed.page)
                   THEN CommitPage(r, handed.release, handed.page) /\ UnitDone(p)
                   ELSE UNCHANGED overtureVars /\ Step(p, "failed")
  /\ Quiet /\ UNCHANGED tile

(* The catch block of a source. *)
RecordFailure(p) ==
  /\ run[p].pc = "failed"
  /\ LET source == Source(p)
         failures == Entry(p).failures + 1
         rotate == Threshold[source] > 0 /\ failures >= Threshold[source] /\ RegionCount > 1
     IN run' = [run EXCEPT ![p] = [@ EXCEPT
          !.pc = "next", !.at = run[p].at + 1, !.page = None, !.tried = {},
          !.mem[source] = [Entry(p) EXCEPT
            !.failures = IF rotate THEN 0 ELSE IF failures > plan.faults THEN plan.faults ELSE failures,
            !.rotated = rotate,
            !.region = IF rotate THEN Following(run[p].region) ELSE Entry(p).region]]]
  /\ Quiet /\ DataStays

---------------------------------------------------------------------------
(* The end of a run: promotion and queue population, then the state file.  *)

Finish(p) ==
  /\ run[p].pc = "finish"
  /\ stateFile' = IF run[p].apply THEN run[p].mem ELSE stateFile
  /\ Closing(p)
  /\ UNCHANGED <<plan, lock, reviewed, manual, faults, crashed>>
  /\ DataStays

FinishFails(p) ==
  /\ run[p].pc = "finish" /\ run[p].apply
  /\ Fault /\ UNCHANGED reviewed
  /\ Closing(p)
  /\ DataStays

Crash(p) ==
  /\ run[p].pc # "off"
  /\ faults < plan.faults /\ faults' = faults + 1
  /\ crashed' = TRUE
  /\ run' = [run EXCEPT ![p] = Idle]
  /\ lock' = IF lock.owner = p THEN [lock EXCEPT !.dead = TRUE] ELSE lock
  /\ UNCHANGED <<plan, stateFile, reviewed, manual>>
  /\ DataStays

(* Time passes between runs: a cadence or a refresh interval ends. *)
Older(age) == IF age = "new" THEN "resume" ELSE "due"
AllIdle == \A p \in Procs : run[p].pc = "off"

Planned(source) == \E i \in DOMAIN plan.sources : plan.sources[i] = source

TimePasses(source) ==
  /\ AllIdle /\ Planned(source)
  /\ stateFile[source].age \in {"new", "resume"}
  /\ stateFile' = [stateFile EXCEPT ![source].age = Older(@)]
  /\ UNCHANGED <<plan, run, lock, reviewed, manual, faults, crashed>>
  /\ DataStays

(* A plan of no releases has no refresh of Foursquare's scan either. *)
FsqMoves ==
  /\ AllIdle /\ Planned("fsq")
  /\ (hub < plan.releases /\ PublishRelease) \/ (plan.releases > 0 /\ \E r \in Regions : RefreshDue(r))
  /\ UNCHANGED <<overtureVars, tile, pipelineVars>>

OvertureMoves ==
  /\ Planned("overture") /\ catalog < plan.catalogs
  /\ PublishCatalog
  /\ UNCHANGED <<fsqVars, tile, pipelineVars>>

OsmMoves ==
  /\ AllIdle /\ Planned("osm")
  /\ \E r \in Regions : \E t \in CellsOf[r] : TileAges(r, t)
  /\ UNCHANGED <<fsqVars, overtureVars, pipelineVars>>

---------------------------------------------------------------------------
InitSources ==
  /\ FsqInit /\ OvertureInit /\ OsmInit
  /\ plan \in Plans
  /\ run = [p \in Procs |-> Idle]
  /\ lock = NoLock
  /\ stateFile = [s \in Sources |-> NewEntry]
  /\ reviewed = [r \in Regions |-> {}]
  /\ manual = 0 /\ faults = 0 /\ crashed = FALSE

ProcStep(p) ==
  \/ MakeLock(p) \/ OwnLock(p) \/ StealLock(p) \/ ReleaseLock(p)
  \/ NextSource(p)
  \/ AcquireFsq(p) \/ AcquireOverture(p) \/ PrepareOverture(p)
  \/ StartOsm(p) \/ RequestTile(p) \/ EndOsm(p) \/ AcquireNational(p)
  \/ Review(p) \/ Commit(p) \/ RecordFailure(p) \/ Finish(p)

NextSources ==
  \/ \E p \in Procs, apply \in BOOLEAN : Start(p, apply)
  \/ \E p \in Procs : ProcStep(p)
  \/ \E p \in Procs : StageFails(p) \/ FinishFails(p) \/ Crash(p)
  \/ \E source \in Sources : TimePasses(source)
  \/ FsqMoves \/ OvertureMoves \/ OsmMoves

(* launchd starts apply runs for ever, the steps of a run go on, and the   *)
(* cadence of Foursquare ends again and again.                             *)
SpecSources ==
  /\ InitSources /\ [][NextSources]_sourceVars
  /\ \A p \in Procs : WF_sourceVars(ProcStep(p))
  /\ WF_sourceVars(Start(Launchd, TRUE))
  /\ SF_sourceVars(TimePasses("fsq"))

TypeOKSources ==
  /\ TypeOKFsq /\ TypeOKOverture /\ TypeOKOsm
  /\ stateFile \in [Sources -> Entries]
  /\ \A p \in Procs :
       /\ run[p].pc \in {"off", "lock", "relock", "own", "steal", "next", "acquire", "prepare", "tiles",
                         "review", "commit", "failed", "finish", "release"}
       /\ run[p].mem \in [Sources -> Entries]
       /\ run[p].region \in Regions /\ run[p].units \in 0..MaxUnits
       /\ run[p].tried \subseteq CellsOf[run[p].region]

(* Nothing is skipped: what a cursor has passed was imported for review by *)
(* an import that succeeded, for no page is acknowledged that was lost to  *)
(* a failed stage, a crash or a concurrent run.  For Foursquare every row  *)
(* before the cursor, and all rows of a finished cycle; for Overture every *)
(* row before the checkpoint's offset, which is the number of rows when a  *)
(* release is called complete.                                             *)
NothingSkipped ==
  \A r \in Regions :
    /\ cursor[r] # None =>
         \A row \in Matching :
           row <= cursor[r].position \/ cursor[r].complete =>
             <<"fsq", cursor[r].release, row>> \in reviewed[r]
    /\ checkpoint[r] # None =>
         /\ \A row \in 1..checkpoint[r].offset :
              <<"overture", checkpoint[r].release, row>> \in reviewed[r]
         /\ checkpoint[r].complete => checkpoint[r].offset = AllRows(checkpoint[r].release)

(* Until a process dies, the lock directory keeps runs apart. *)
Working == {"own", "next", "acquire", "prepare", "tiles", "review", "commit", "failed", "finish", "release"}
OneRunUnlessCrashed ==
  ~crashed => \A p, q \in Procs : run[p].pc \in Working /\ run[q].pc \in Working => p = q

(* A page once pending is replayed unchanged until it is acknowledged, and *)
(* a release is not replaced in the middle of its scan.                    *)
PendingPageReplayed ==
  [][\A r \in Regions : cursor[r] # None =>
       /\ cursor[r].pending # None /\ cursor'[r].pending # None => cursor'[r].pending = cursor[r].pending
       /\ cursor'[r].release # cursor[r].release =>
            cursor[r].complete /\ cursor[r].pending = None]_sourceVars

(* A piece of a split tile that was fetched stays fetched, whatever its    *)
(* siblings do and however often the exporter is stopped.                  *)
SplitProgressKept ==
  [][\A r \in Regions : \A t \in CellsOf[r] :
       tile[r][t] # None /\ tile[r][t].pieces # None =>
         /\ tile'[r][t].pieces # None
         /\ \A piece \in Pieces :
              tile[r][t].pieces[piece] = "success" =>
                tile'[r][t].pieces[piece] = "success" /\ piece \in tile'[r][t].rows]_sourceVars

(* Neither exporter takes back what it has handed over or fetched.          *)
ExportsKept == PendingPageReplayed /\ SplitProgressKept

(* Every operational region's Foursquare scan is finished again and again: *)
(* the rotation reaches each of them and each page makes progress, unless  *)
(* a run died between making the lock directory and naming its owner, or   *)
(* sourceCadence() has come to throw for Overture: it is called outside of *)
(* the catch of a source, so that from then on every run ends before its   *)
(* state is saved, and Foursquare stays at the region it has reached.      *)
Orphaned == lock.held /\ lock.owner = None
ScansComplete ==
  \/ <>[]Orphaned
  \/ <>[](Planned("overture") /\ CadenceThrows("overture"))
  \/ \A r \in Regions : []<>(Planned("fsq") => (cursor[r] # None /\ cursor[r].complete))

(* A release of a manifest is replaced only after its delivery was         *)
(* acknowledged as complete (docs/TACO_OVERTURE.md:20).                    *)
RenewedOnlyAfterDelivery ==
  [][\A r \in Regions :
       manifest[r] # None /\ manifest'[r].release # manifest[r].release =>
         checkpoint[r] # None /\ checkpoint[r].complete]_sourceVars
=============================================================================
