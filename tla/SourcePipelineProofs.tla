------------------------ MODULE SourcePipelineProofs ------------------------
(***************************************************************************)
(* What a Foursquare cursor or an Overture checkpoint has passed was       *)
(* imported for review, and neither exporter takes back what it handed     *)
(* over, however many runs overlap, crash or fail; and the lock directory  *)
(* keeps runs apart until a process dies.                                  *)
(***************************************************************************)
EXTENDS SourcePipeline, FiniteSetTheorems, TLAPS

Pcs == {"off", "lock", "relock", "own", "steal", "next", "acquire", "prepare", "tiles",
        "review", "commit", "failed", "finish", "release"}
Runs == [pc : Pcs, apply : BOOLEAN, at : Nat \ {0}, units : 0..MaxUnits, offset : Nat,
         region : Regions, mem : [Sources -> Entries], page : Handouts \cup {None},
         tried : SUBSET UNION {CellsOf[r] : r \in Regions}]

\* The processes and the scheduler state.
RunsType ==
  /\ plan \in Plans
  /\ run \in [Procs -> Runs]
  /\ stateFile \in [Sources -> Entries]

DataType == TypeOKFsq /\ TypeOKOverture /\ TypeOKOsm

\* A lock is dead when a process died, and until then the process that works has made the
\* lock and no other process works.
LockInv ==
  ~crashed =>
    /\ ~lock.dead
    /\ \A p \in Procs : run[p].pc \notin {"steal", "relock"}
    /\ \A p \in Procs : run[p].pc \in Working => lock.held
    /\ \A p, q \in Procs : run[p].pc \in Working /\ run[q].pc \in Working => p = q

\* A page is held while its rows are reviewed and acknowledged, by a source with pages.
Holding == {"review", "commit", "failed"}
Paged == {"fsq", "overture"}
Handling == Holding \cup {"acquire", "prepare", "tiles"}
HeldBy(x) ==
  /\ x.page # None => x.pc \in Holding /\ plan.sources[x.at] \in Paged
  /\ x.pc \in {"review", "commit"} /\ plan.sources[x.at] \in Paged => x.page # None
  /\ x.pc \in Handling => x.at \in 1..Len(plan.sources) /\ x.units < MaxUnits
  /\ x.tried \subseteq CellsOf[x.region]
  /\ x.tried # {} => x.pc \in Holding \cup {"tiles"}
PageHeld(p) == HeldBy(run[p])

\* A pending page continues the scan at its position, to the end of a file, a budget or the
\* release; that of a finished scan is the empty page.
SoundCursor(c) ==
  /\ c.complete => c.position = 0 /\ (c.pending # None => c.pending = DeferredPage(0))
  /\ ~c.complete =>
       /\ ~c.waiting
       /\ c.pending # None => /\ c.pending.start = c.position
                              /\ c.pending.start < c.pending.end
                              /\ c.pending.complete <=> c.pending.end = Total

CursorInv == \A r \in Regions : cursor[r] # None => SoundCursor(cursor[r])

\* A process that holds rows of a scan holds them of the release of its cursor, for a scan
\* that finished meanwhile waits, and a cursor stops waiting only when every process is off.
Pinning(p) ==
  run[p].apply /\ run[p].pc \in {"review", "commit"} /\ Source(p) = "fsq"
    /\ run[p].page.page.start < run[p].page.page.end =>
      LET c == cursor[run[p].region] IN
      /\ c # None /\ c.release = run[p].page.release
      /\ c.complete => c.waiting

\* A page is acknowledged after its rows were imported.
RowsImported(p) == run[p].pc = "commit" => RowsHanded(p) \subseteq reviewed[run[p].region]

\* A manifest is complete when it has every row; and a delivery page continues the rows
\* delivered, to the last row of the release when it says so.
DeliveryInv == \A r \in Regions :
  /\ manifest[r] # None /\ Complete(manifest[r]) => manifest[r].rows = AllRows(manifest[r].release)
  /\ checkpoint[r] # None /\ checkpoint[r].pending # None =>
       LET page == checkpoint[r].pending IN
       /\ page.start = checkpoint[r].offset
       /\ page.complete => page.end = AllRows(checkpoint[r].release)

SourcesInv ==
  /\ DOMAIN reviewed = Regions
  /\ \A p \in Procs : Pinning(p) /\ RowsImported(p)
  /\ CursorInv /\ DeliveryInv /\ NothingSkipped

\* The rows of a piece that was fetched are in the tile's file.
TileInv == \A r \in Regions : \A t \in CellsOf[r] :
  tile[r][t] # None /\ tile[r][t].pieces # None =>
    \A piece \in Pieces : tile[r][t].pieces[piece] = "success" => piece \in tile[r][t].rows

-----------------------------------------------------------------------------
(* Regions. *)

LEMMA FollowingRegion ==
  ASSUME NEW r \in Regions
  PROVE  Following(r) \in Regions
BY RegionAssumption DEF Following, Regions

\* Some region of a set that is not empty has the least index, and some has the largest
\* backlog.
LEMMA LeastRegion ==
  ASSUME NEW S \in SUBSET Regions, S # {}
  PROVE  \E r \in S : \A q \in S : r <= q
<1>1. S \subseteq Nat
  BY RegionAssumption DEF Regions
<1>2. PICK r \in S : \A q \in S : ~ (<<q, r>> \in OpToRel(<, Nat))
  BY <1>1, NatLessThanWellFounded, WFMin
<1>3. \A q \in S : ~ (q < r)
  BY <1>1, <1>2 DEF OpToRel
<1> QED BY <1>1, <1>3

LEMMA BacklogType ==
  ASSUME NEW r \in Regions
  PROVE  OsmBacklog(r) \in Nat
<1>1. IsFiniteSet({t \in CellsOf[r] : ~Fresh(tile[r][t])})
  BY OsmAssumption, FS_Subset
<1> QED BY <1>1, FS_CardinalityType DEF OsmBacklog

LEMMA LargestBacklog ==
  ASSUME NEW S \in SUBSET Regions, S # {}
  PROVE  \E r \in S : \A q \in S : OsmBacklog(q) <= OsmBacklog(r)
<1> DEFINE Without == {T \in SUBSET S : T # {} /\
                         ~ \E r \in T : \A q \in T : OsmBacklog(q) <= OsmBacklog(r)}
<1>1. IsFiniteSet(S)
  <2>1. IsFiniteSet(Regions)
    BY RegionAssumption, FS_Interval DEF Regions
  <2> QED BY <2>1, FS_Subset
<1>2. Without = {}
  <2> SUFFICES ASSUME Without # {} PROVE FALSE
    OBVIOUS
  <2>1. IsWellFoundedOn(StrictSubsetOrdering(S), SUBSET S)
    BY <1>1, FS_FiniteSubsetsOfFinite, FS_StrictSubsetOrderingWellFounded
  <2>2. PICK T \in Without : \A U \in Without : <<U, T>> \notin StrictSubsetOrdering(S)
    <3>1. Without \subseteq SUBSET S
      OBVIOUS
    <3> HIDE DEF Without
    <3> QED BY <2>1, <3>1, WFMin
  <2>3. PICK r \in T : TRUE
    OBVIOUS
  <2>4. PICK U : U = T \ {r}
    OBVIOUS
  <2>5. U \notin Without
    <3>1. U \in SUBSET S /\ T \in SUBSET S /\ U \subseteq T /\ U # T
      BY <2>4
    <3>2. <<U, T>> \in StrictSubsetOrdering(S)
      BY <3>1 DEF StrictSubsetOrdering
    <3> QED BY <2>2, <3>2
  <2>6. \A q \in T : OsmBacklog(q) \in Nat
    BY BacklogType
  <2>7. CASE U = {}
    <3>1. \A q \in T : q = r
      BY <2>4, <2>7
    <3> QED BY <2>6, <3>1
  <2>8. CASE U # {}
    <3>1. PICK u \in U : \A q \in U : OsmBacklog(q) <= OsmBacklog(u)
      BY <2>4, <2>5, <2>8
    <3>2. u \in T /\ \A q \in T : q = r \/ q \in U
      BY <2>4
    <3>3. CASE OsmBacklog(r) <= OsmBacklog(u)
      BY <3>1, <3>2, <3>3
    <3>4. CASE ~ (OsmBacklog(r) <= OsmBacklog(u))
      <4>1. \A q \in T : OsmBacklog(q) <= OsmBacklog(r)
        BY <2>6, <3>1, <3>2, <3>4
      <4> QED BY <4>1
    <3> QED BY <3>3, <3>4
  <2> QED BY <2>7, <2>8
<1> QED BY <1>2

LEMMA FirstRegionType ==
  ASSUME NEW source \in Sources, NEW entry \in Entries
  PROVE  FirstRegion(source, entry) \in Regions
<1> DEFINE waiting == {r \in Regions : OsmBacklog(r) > 0}
           largest == {r \in waiting : \A q \in waiting : OsmBacklog(q) <= OsmBacklog(r)}
<1>1. entry.region \in Regions
  BY DEF Entries, Regions
<1>2. CASE waiting = {}
  BY <1>1, <1>2 DEF FirstRegion, OsmRegion
<1>3. CASE waiting # {}
  <2>1. largest # {} /\ largest \in SUBSET Regions
    BY <1>3, LargestBacklog
  <2>2. \E r \in largest : \A q \in largest : r <= q
    <3> HIDE DEF largest
    <3> QED BY <2>1, LeastRegion
  <2>3. (CHOOSE r \in largest : \A q \in largest : r <= q) \in Regions
    <3> HIDE DEF largest
    <3> QED BY <2>1, <2>2
  <2> QED BY <1>1, <2>3 DEF FirstRegion, OsmRegion
<1> QED BY <1>2, <1>3

-----------------------------------------------------------------------------
(* Types. *)

LEMMA Idles == NewEntry \in Entries /\ Idle \in Runs
<1>1. 0 \in 0..(Spiders - 1) /\ 0 \in Regions /\ 0 \in 0..MaxUnits
  BY PipelineAssumption, RegionAssumption DEF Regions
<1>2. NewEntry \in Entries
  BY <1>1 DEF NewEntry, Entries, Ages, Regions
<1> QED BY <1>1, <1>2 DEF Idle, Runs, Pcs

LEMMA SourceType ==
  ASSUME RunsType, NEW p \in Procs, run[p].at \in 1..Len(plan.sources)
  PROVE  Source(p) \in Sources /\ Entry(p) \in Entries
<1>1. plan.sources \in Seq(Sources)
  BY PipelineAssumption DEF RunsType
<1>2. Source(p) \in Sources
  BY <1>1 DEF Source
<1> QED BY <1>2 DEF Entry, RunsType, Runs

\* What the exporters read and write.
LEMMA PinnedType ==
  ASSUME TypeOKFsq, NEW r \in Regions
  PROVE  /\ Pinned(r) \in Cursors
         /\ \A page \in PagesOf(Pinned(r)) : page \in Pages /\ page # None
<1>1. Pinned(r) \in Cursors
  BY FsqAssumption, NoCursor DEF TypeOKFsq, Pinned, Cursors
<1>2. ASSUME NEW state \in Cursors, NEW page \in PagesOf(state) PROVE page \in Pages
  <2>1. CASE state.pending # None
    BY <1>2, <2>1 DEF PagesOf, Cursors
  <2>p. PICK n \in 0..Total : n = state.position
    BY DEF Cursors
  <2>2. CASE state.pending = None /\ state.waiting
    <3>1. page = [start |-> n, end |-> n, complete |-> TRUE]
      BY <1>2, <2>p, <2>2 DEF PagesOf, DeferredPage
    <3> QED BY <3>1 DEF Pages
  <2>3. CASE state.pending = None /\ ~ state.waiting
    <3>1. PICK end \in (n + 1)..Total : page = [start |-> n, end |-> end, complete |-> end = Total]
      BY <1>2, <2>p, <2>3 DEF PagesOf, ScanPages
    <3>2. end \in 0..Total /\ (end = Total) \in BOOLEAN
      BY FsqAssumption
    <3> QED BY <3>1, <3>2 DEF Pages
  <2> QED BY <2>1, <2>2, <2>3
<1> QED BY <1>1, <1>2, NoCursor

LEMMA FsqTypes ==
  ASSUME TypeOKFsq, NEW r \in Regions
  PROVE  /\ \A page : ExportPage(r, page) => TypeOKFsq'
         /\ \A page \in DeliveryPages : AcknowledgePage(r, page) => TypeOKFsq'
         /\ RefreshDue(r) => TypeOKFsq'
         /\ PublishRelease => TypeOKFsq'
<1>1. ASSUME NEW page, ExportPage(r, page) PROVE TypeOKFsq'
  <2>1. Pinned(r) \in Cursors /\ page \in Pages
    BY <1>1, PinnedType DEF ExportPage
  <2>2. [Pinned(r) EXCEPT !.pending = page] \in Cursors
    BY <2>1 DEF Cursors
  <2> QED BY <1>1, <2>2 DEF ExportPage, TypeOKFsq
<1>2. ASSUME NEW page \in DeliveryPages, AcknowledgePage(r, page) PROVE TypeOKFsq'
  <2>0. page # None
    BY NoDelivery
  <2>1. cursor[r] \in Cursors /\ cursor[r].pending = page /\ page \in Pages
    BY <1>2, <2>0 DEF AcknowledgePage, CanAcknowledge, TypeOKFsq, Cursors
  <2>2. PICK position \in 0..Total : position = IF page.complete THEN 0 ELSE page.end
    BY <2>1, FsqAssumption DEF Pages
  <2>3. PICK waiting \in BOOLEAN :
          waiting = (cursor[r].waiting \/ (page.complete /\ ~cursor[r].complete))
    BY <2>1 DEF Cursors
  <2>4. PICK complete \in BOOLEAN : complete = page.complete
    BY <2>1 DEF Pages
  <2>5. [cursor[r] EXCEPT !.position = position, !.complete = complete, !.waiting = waiting,
                          !.pending = None] \in Cursors
    BY <2>1 DEF Cursors
  <2>6. cursor' = [cursor EXCEPT ![r] =
          [cursor[r] EXCEPT !.position = position, !.complete = complete, !.waiting = waiting,
                            !.pending = None]]
    <3>1. cursor' = [cursor EXCEPT ![r] =
            [cursor[r] EXCEPT
               !.position = IF page.complete THEN 0 ELSE page.end,
               !.complete = page.complete,
               !.waiting = cursor[r].waiting \/ (page.complete /\ ~cursor[r].complete),
               !.pending = None]]
      BY <1>2 DEF AcknowledgePage
    <3> QED BY <2>2, <2>3, <2>4, <3>1, Zenon
  <2>7. hub' = hub
    BY <1>2 DEF AcknowledgePage
  <2> QED BY <2>5, <2>6, <2>7 DEF TypeOKFsq
<1>3. ASSUME RefreshDue(r) PROVE TypeOKFsq'
  BY ZenonT(60), <1>3 DEF RefreshDue, TypeOKFsq, Cursors
<1>4. ASSUME PublishRelease PROVE TypeOKFsq'
  BY <1>4, FsqAssumption DEF PublishRelease, TypeOKFsq
<1> QED BY <1>1, <1>2, <1>3, <1>4

LEMMA OvertureTypes ==
  ASSUME TypeOKOverture, NEW r \in Regions
  PROVE  /\ AcquireTilePage(r) => TypeOKOverture'
         /\ PreparePage(r) => TypeOKOverture'
         /\ \A release : \A page \in DeliveryPages : CommitPage(r, release, page) => TypeOKOverture'
         /\ PublishCatalog => TypeOKOverture'
<1>1. ASSUME AcquireTilePage(r) PROVE TypeOKOverture'
  <2>1. SelectManifest(r) \in Manifests
    BY OvertureAssumption DEF SelectManifest, TypeOKOverture, Manifests
  <2>2. ASSUME NEW m \in Manifests PROVE WithTilePage(m) \in Manifests
    <3>1. CASE Complete(m)
      BY <3>1 DEF WithTilePage
    <3>2. CASE ~ Complete(m)
      <4>0. Tiles \in Nat /\ PageLimit \in Nat /\ TileEnd \in [1..MaxCatalog -> [0..Tiles -> Nat]]
        BY OvertureAssumption
      <4>1. /\ m.tiles \in 0..Tiles /\ m.tiles # Tiles
            /\ m.release \in 1..MaxCatalog /\ m.rows \in Nat
        BY <3>2 DEF Complete, Manifests
      <4>2. PICK t \in 0..Tiles : t = m.tiles + 1
        BY <4>0, <4>1
      <4>3. PICK end \in Nat : end = TileEnd[m.release][m.tiles + 1]
        BY <4>0, <4>1, <4>2
      <4>4. PICK rows \in Nat : rows = Smaller(m.rows + PageLimit, end)
        BY <4>0, <4>1 DEF Smaller
      <4>5. PICK tiles \in 0..Tiles : tiles = IF rows = end THEN m.tiles + 1 ELSE m.tiles
        BY <4>1, <4>2
      <4>6. WithTilePage(m) = [m EXCEPT !.rows = rows, !.tiles = tiles]
        BY <3>2, <4>3, <4>4, <4>5 DEF WithTilePage
      <4> QED BY <4>6 DEF Manifests
    <3> QED BY <3>1, <3>2
  <2> QED BY <1>1, <2>1, <2>2 DEF AcquireTilePage, TypeOKOverture
<1>2. ASSUME PreparePage(r) PROVE TypeOKOverture'
  <2> DEFINE m == manifest[r]
             state == StateFor(m, checkpoint[r])
  <2>1. m \in Manifests
    BY <1>2 DEF PreparePage, TypeOKOverture
  <2>2. state \in Checkpoints
    BY <2>1 DEF StateFor, FreshCheckpoint, TypeOKOverture, Manifests, Checkpoints
  <2>3. NextDelivery(state, m) \in DeliveryPages
    BY SMTT(40), <2>1, <2>2, OvertureAssumption
    DEF NextDelivery, Smaller, Manifests, Checkpoints, DeliveryPages, Complete
  <2>4. checkpoint' = [checkpoint EXCEPT ![r] =
          IF state.pending # None THEN state ELSE [state EXCEPT !.pending = NextDelivery(state, m)]]
    BY <1>2 DEF PreparePage
  <2> HIDE DEF state, m
  <2>5. [state EXCEPT !.pending = NextDelivery(state, m)] \in Checkpoints
    BY <2>2, <2>3 DEF Checkpoints
  <2> QED BY <1>2, <2>2, <2>4, <2>5 DEF PreparePage, TypeOKOverture
<1>3. ASSUME NEW release, NEW page \in DeliveryPages, CommitPage(r, release, page)
      PROVE  TypeOKOverture'
  <2>1. checkpoint[r] \in Checkpoints /\ page.end \in Nat /\ page.complete \in BOOLEAN
    BY <1>3 DEF CommitPage, CanCommit, TypeOKOverture, DeliveryPages
  <2>2. [checkpoint[r] EXCEPT !.offset = page.end, !.complete = page.complete, !.pending = None]
          \in Checkpoints
    BY <2>1 DEF Checkpoints
  <2> QED BY <1>3, <2>2 DEF CommitPage, TypeOKOverture
<1>4. ASSUME PublishCatalog PROVE TypeOKOverture'
  BY <1>4, OvertureAssumption DEF PublishCatalog, TypeOKOverture
<1> QED BY <1>1, <1>2, <1>3, <1>4

LEMMA TileTypes ==
  ASSUME TypeOKOsm, NEW r \in Regions, NEW t \in CellsOf[r]
  PROVE  /\ AttemptTile(r, t) => TypeOKOsm'
         /\ TileAges(r, t) => TypeOKOsm'
<1>1. WholeEntry \in TileEntries /\ FailedEntry \in TileEntries
  BY DEF WholeEntry, FailedEntry, TileEntries, Outcomes
<1>2. ASSUME NEW pieces \in [Pieces -> Outcomes] PROVE SplitEntry(pieces) \in TileEntries
  BY DEF SplitEntry, CollectedBy, TileEntries, Outcomes
<1>3. \A before, resumed : SplitResults(before, resumed) \subseteq [Pieces -> Outcomes]
  BY DEF SplitResults, Outcomes
<1>4. \A entry \in Attempts(tile[r][t]) : entry \in TileEntries
  BY <1>1, <1>2, <1>3 DEF Attempts
<1>5. ASSUME AttemptTile(r, t) PROVE TypeOKOsm'
  BY <1>4, <1>5 DEF AttemptTile, TypeOKOsm
<1>6. ASSUME TileAges(r, t) PROVE TypeOKOsm'
  <2>1. tile[r][t] \in TileEntries
    BY <1>6 DEF TileAges, TypeOKOsm
  <2>2. [tile[r][t] EXCEPT !.fresh = FALSE, !.cooling = FALSE] \in TileEntries
    BY <2>1 DEF TileEntries
  <2>3. tile' = [tile EXCEPT ![r] = [tile[r] EXCEPT ![t] =
                   [tile[r][t] EXCEPT !.fresh = FALSE, !.cooling = FALSE]]]
    BY <1>6 DEF TileAges
  <2>4. tile' = [q \in Regions |-> IF q = r THEN [tile[r] EXCEPT ![t] =
                   [tile[r][t] EXCEPT !.fresh = FALSE, !.cooling = FALSE]] ELSE tile[q]]
    BY <2>3, Zenon DEF TypeOKOsm
  <2> QED BY <2>2, <2>4 DEF TypeOKOsm
<1> QED BY <1>5, <1>6
-----------------------------------------------------------------------------
(* A step of a process. *)

Whole == RunsType /\ DataType /\ \A p \in Procs : PageHeld(p)

\* A process takes a step of its own.
OwnStep(p) ==
  \/ \E apply \in BOOLEAN : Start(p, apply)
  \/ ProcStep(p) \/ StageFails(p) \/ FinishFails(p) \/ Crash(p)

\* The process is x after a step, and every other process stays.
Becomes(p, x) == x \in Runs /\ HeldBy(x) /\ run' = [run EXCEPT ![p] = x]

LEMMA Stepped ==
  ASSUME RunsType, NEW p \in Procs, PageHeld(p), NEW pc \in Pcs, Step(p, pc),
         run[p].page # None => pc \in Holding \cup {"off"},
         pc \in {"review", "commit"} => run[p].page # None \/ Source(p) \notin Paged,
         pc \in Handling => run[p].at \in 1..Len(plan.sources) /\ run[p].units < MaxUnits,
         run[p].tried # {} => pc \in Holding \cup {"off", "tiles"}
  PROVE  \E x \in Runs : Becomes(p, x) /\ x = IF pc = "off" THEN Idle ELSE [run[p] EXCEPT !.pc = pc]
<1>1. PICK y \in Runs : y = run[p]
  BY DEF RunsType
<1>2. CASE pc = "off"
  <2>1. HeldBy(Idle)
    BY DEF HeldBy, Idle, Holding, Handling
  <2> QED BY <1>2, <2>1, Idles DEF Step, Becomes
<1>3. CASE pc # "off"
  <2>1. PICK x : x = [y EXCEPT !.pc = pc]
    OBVIOUS
  <2>2. /\ x \in Runs /\ x.page = y.page /\ x.at = y.at /\ x.pc = pc
        /\ x.units = y.units /\ x.tried = y.tried /\ x.region = y.region
    BY <1>1, <2>1 DEF Runs
  <2>3. HeldBy(x)
    BY <1>1, <1>3, <2>2 DEF HeldBy, PageHeld, Source
  <2>4. run' = [run EXCEPT ![p] = x]
    BY <1>1, <1>3, <2>1 DEF Step
  <2> QED BY <1>1, <1>3, <2>1, <2>2, <2>3, <2>4 DEF Becomes
<1> QED BY <1>2, <1>3

LEMMA Closed ==
  ASSUME RunsType, NEW p \in Procs, Closing(p)
  PROVE  Becomes(p, [Idle EXCEPT !.pc = "release"])
<1>1. PICK y \in Runs : y = Idle
  BY Idles
<1>2. y.page = None /\ y.tried = {}
  BY <1>1 DEF Idle
<1>3. PICK x : x = [y EXCEPT !.pc = "release"]
  OBVIOUS
<1>4. x \in Runs /\ x.pc = "release" /\ x.page = None /\ x.tried = {}
  BY <1>2, <1>3 DEF Runs, Pcs
<1>5. HeldBy(x)
  BY <1>4 DEF HeldBy, Holding, Handling
<1>6. run' = [run EXCEPT ![p] = x]
  BY <1>1, <1>3 DEF Closing
<1> QED BY <1>1, <1>3, <1>4, <1>5, <1>6 DEF Becomes

LEMMA HandedOver ==
  ASSUME RunsType, NEW p \in Procs, NEW page \in DeliveryPages, NEW release \in Nat,
         Source(p) \in Paged, PageHeld(p), run[p].at \in 1..Len(plan.sources), run[p].units < MaxUnits,
         Handed(p, [page |-> page, release |-> release])
  PROVE  \E x \in Runs : /\ Becomes(p, x)
                         /\ x = [run[p] EXCEPT !.pc = "review",
                                               !.page = [page |-> page, release |-> release]]
<1>1. PICK y \in Runs : y = run[p]
  BY DEF RunsType
<1>2. PICK handout \in Handouts : handout = [page |-> page, release |-> release]
  BY DEF Handouts
<1>3. PICK x : x = [y EXCEPT !.pc = "review", !.page = handout]
  OBVIOUS
<1>4. /\ x \in Runs /\ x.pc = "review" /\ x.page = handout /\ x.at = y.at
      /\ x.units = y.units /\ x.tried = y.tried /\ x.region = y.region
  BY <1>3 DEF Runs, Pcs
<1>5. handout # None
  BY <1>2, PipelineAssumption
<1>6. HeldBy(x)
  BY <1>1, <1>4, <1>5 DEF HeldBy, Holding, Source, PageHeld
<1>7. run' = [run EXCEPT ![p] = x]
  BY <1>1, <1>2, <1>3 DEF Handed, RunsType
<1> QED BY <1>1, <1>2, <1>3, <1>4, <1>6, <1>7 DEF Becomes

\* The run after a unit: the next page of the source, or the next source.
LEMMA Advanced ==
  ASSUME RunsType, NEW p \in Procs, run[p].at \in 1..Len(plan.sources),
         run[p].units < MaxUnits, UnitDone(p)
  PROVE  \E x \in Runs : Becomes(p, x) /\ x.page = None /\ x.pc \in {"acquire", "next"}
<1> DEFINE y == run[p]
           source == Source(p)
           next == Following(y.region)
           more == /\ source \notin {"website", "atp"}
                   /\ y.offset + 1 < RegionsPerRun[source]
                   /\ y.units + 1 < MaxUnits
           advanced == [Entry(p) EXCEPT !.region = IF source = "website" THEN @ ELSE next]
           done == [advanced EXCEPT !.age = "new",
                 !.failures = IF source = "website" THEN @ ELSE 0,
                 !.rotated = IF source = "website" THEN @ ELSE FALSE,
                 !.spider = IF source = "atp" THEN (@ + SpidersPerRun) % Spiders ELSE @]
<1>1. y \in Runs
  BY DEF RunsType
<1>2. source \in Sources /\ Entry(p) \in Entries
  BY SourceType
<1>3. next \in Regions /\ next \in 0..(RegionCount - 1)
  BY <1>1, FollowingRegion DEF Runs, Regions
<1>4. advanced \in Entries
  BY <1>2, <1>3 DEF Entries
<1>5. done \in Entries
  <2>1. PICK e \in Entries : e = advanced
    BY <1>4
  <2>2. PICK spider \in 0..(Spiders - 1) :
          spider = IF source = "atp" THEN (e.spider + SpidersPerRun) % Spiders ELSE e.spider
    BY PipelineAssumption DEF Entries
  <2>3. PICK failures \in Nat : failures = IF source = "website" THEN e.failures ELSE 0
    BY DEF Entries
  <2>4. PICK rotated \in BOOLEAN :
          rotated = IF source = "website" THEN e.rotated ELSE FALSE
    BY DEF Entries
  <2>5. done = [e EXCEPT !.age = "new", !.failures = failures, !.rotated = rotated, !.spider = spider]
    BY <2>1, <2>2, <2>3, <2>4, Zenon
  <2> QED BY ZenonT(60), <2>5 DEF Entries, Ages
<1>6. PICK entry \in Entries : entry = IF more THEN advanced ELSE done
  BY <1>4, <1>5
<1>7. PICK mem \in [Sources -> Entries] : mem = [y.mem EXCEPT ![source] = entry]
  BY <1>1, <1>2 DEF Runs
<1>8. PICK b \in BOOLEAN : b = more
  OBVIOUS
<1>9. run' = [run EXCEPT ![p] = [y EXCEPT
       !.units = y.units + 1, !.page = None, !.tried = {},
       !.pc = IF b THEN "acquire" ELSE "next",
       !.at = IF b THEN y.at ELSE y.at + 1,
       !.offset = IF b THEN y.offset + 1 ELSE 0,
       !.region = IF b THEN next ELSE y.region,
       !.mem = mem]]
  <2>1. run' = [run EXCEPT ![p] = [y EXCEPT
       !.units = y.units + 1, !.page = None, !.tried = {},
       !.pc = IF more THEN "acquire" ELSE "next",
       !.at = IF more THEN y.at ELSE y.at + 1,
       !.offset = IF more THEN y.offset + 1 ELSE 0,
       !.region = IF more THEN next ELSE y.region,
       !.mem = [y.mem EXCEPT ![source] = IF more THEN advanced ELSE done]]]
    BY SMTT(40) DEF UnitDone
  <2> HIDE DEF y, next, source, more, advanced, done
  <2>2. (IF more THEN advanced ELSE done) = entry /\ more = b
    BY <1>6, <1>8
  <2>3. CASE b
    BY <1>6, <1>7, <1>8, <2>1, <2>3, Zenon
  <2>4. CASE ~b
    BY <1>6, <1>7, <1>8, <2>1, <2>4, Zenon
  <2> QED BY <2>3, <2>4
<1> HIDE DEF next, source, more, advanced, done
<1>10. PICK pc \in {"acquire", "next"} : pc = IF b THEN "acquire" ELSE "next"
  OBVIOUS
<1>11. PICK at \in Nat \ {0} : at = IF b THEN y.at ELSE y.at + 1
  BY <1>1 DEF Runs
<1>12. PICK offset \in Nat : offset = IF b THEN y.offset + 1 ELSE 0
  BY <1>1 DEF Runs
<1>13. PICK region \in Regions : region = IF b THEN next ELSE y.region
  BY <1>1, <1>3 DEF Runs
<1>14. PICK units \in 0..MaxUnits : units = y.units + 1
  BY <1>1, PipelineAssumption DEF Runs
<1>15. PICK x : x = [y EXCEPT !.units = units, !.page = None, !.tried = {}, !.pc = pc, !.at = at,
                              !.offset = offset, !.region = region, !.mem = mem]
  OBVIOUS
<1>16. run' = [run EXCEPT ![p] = x]
  BY <1>9, <1>10, <1>11, <1>12, <1>13, <1>14, <1>15, Zenon
<1>17. x \in Runs /\ x.page = None /\ x.pc = pc /\ x.at = at /\ x.units = units /\ x.tried = {}
  <2> HIDE DEF y
  <2> QED BY <1>1, <1>15 DEF Runs, Pcs
<1>18. HeldBy(x)
  <2>1. CASE b
    <3>1. units < MaxUnits /\ x.at \in 1..Len(plan.sources)
      BY <1>1, <1>8, <1>11, <1>14, <1>17, <2>1 DEF more
    <3> QED BY <1>10, <1>17, <3>1 DEF HeldBy, Holding, Handling
  <2>2. CASE ~b
    BY <1>10, <1>17, <2>2 DEF HeldBy, Holding, Handling
  <2> QED BY <2>1, <2>2
<1> QED BY <1>16, <1>17, <1>18 DEF Becomes

LEMMA Failed ==
  ASSUME RunsType, NEW p \in Procs, run[p].at \in 1..Len(plan.sources), RecordFailure(p)
  PROVE  \E x \in Runs : Becomes(p, x) /\ x.page = None /\ x.pc = "next"
<1> DEFINE y == run[p]
           source == Source(p)
           failures == Entry(p).failures + 1
           rotate == Threshold[source] > 0 /\ failures >= Threshold[source] /\ RegionCount > 1
           entry == [Entry(p) EXCEPT
             !.failures = IF rotate THEN 0 ELSE IF failures > plan.faults THEN plan.faults ELSE failures,
             !.rotated = rotate,
             !.region = IF rotate THEN Following(run[p].region) ELSE Entry(p).region]
<1>1. y \in Runs
  BY DEF RunsType
<1>2. source \in Sources /\ Entry(p) \in Entries
  BY SourceType
<1>3. Following(y.region) \in 0..(RegionCount - 1)
  BY <1>1, FollowingRegion DEF Runs, Regions
<1>4. entry \in Entries
  <2>1. PICK e \in Entries : e = Entry(p)
    BY <1>2
  <2>2. plan.faults \in Nat
    BY PipelineAssumption DEF RunsType
  <2>3. PICK b \in BOOLEAN : b = rotate
    OBVIOUS
  <2>4. PICK n \in Nat : n = IF b THEN 0 ELSE IF failures > plan.faults THEN plan.faults ELSE failures
    BY <2>1, <2>2 DEF Entries
  <2>5. PICK region \in 0..(RegionCount - 1) :
          region = IF b THEN Following(run[p].region) ELSE Entry(p).region
    BY <1>2, <1>3 DEF Entries
  <2>6. entry = [e EXCEPT !.failures = n, !.rotated = b, !.region = region]
    BY <2>1, <2>3, <2>4, <2>5, Zenon
  <2> QED BY ZenonT(60), <2>6 DEF Entries
<1>5. PICK mem \in [Sources -> Entries] : mem = [y.mem EXCEPT ![source] = entry]
  BY <1>1, <1>2, <1>4 DEF Runs
<1>6. run' = [run EXCEPT ![p] = [y EXCEPT
        !.pc = "next", !.at = y.at + 1, !.page = None, !.tried = {}, !.mem = mem]]
  BY <1>5, ZenonT(60) DEF RecordFailure
<1>7. PICK x : x = [y EXCEPT !.pc = "next", !.at = y.at + 1, !.page = None, !.tried = {}, !.mem = mem]
  OBVIOUS
<1>8. x \in Runs /\ x.page = None /\ x.pc = "next" /\ x.tried = {}
  <2>1. PICK z \in Runs : z = y
    BY <1>1
  <2>2. PICK at \in Nat \ {0} : at = z.at + 1
    BY DEF Runs
  <2>3. x = [z EXCEPT !.pc = "next", !.at = at, !.page = None, !.tried = {}, !.mem = mem]
    BY <1>7, <2>1, <2>2, Zenon
  <2> HIDE DEF y, entry, rotate, failures, source
  <2> QED BY <2>3 DEF Runs, Pcs
<1>9. HeldBy(x)
  BY <1>8 DEF HeldBy, Holding, Handling
<1> QED BY <1>6, <1>7, <1>8, <1>9 DEF Becomes

LEMMA AtRunType ==
  ASSUME NEW source \in Sources, NEW entry \in Entries
  PROVE  AtRun(source, entry) \in Entries
<1>1. Following(entry.region) \in 0..(RegionCount - 1)
  BY FollowingRegion DEF Entries, Regions
<1>2. [entry EXCEPT !.region = Following(entry.region), !.failures = 0, !.rotated = TRUE] \in Entries
  BY <1>1 DEF Entries
<1> QED BY <1>2 DEF AtRun

LEMMA Chosen ==
  ASSUME RunsType, NEW p \in Procs, PageHeld(p), NextSource(p)
  PROVE  \E x \in Runs : Becomes(p, x) /\ x.page = None
<1>1. PICK y \in Runs : y = run[p]
  BY DEF RunsType
<1>2. y.pc = "next" /\ y.page = None /\ y.tried = {}
  BY <1>1 DEF NextSource, PageHeld, HeldBy, Holding
<1>3. CASE run[p].at > Len(plan.sources)
  <2>1. Step(p, "finish")
    BY <1>3 DEF NextSource
  <2>2. "finish" \in Pcs /\ "finish" \notin Handling /\ "finish" \notin {"review", "commit"}
    BY DEF Pcs, Handling, Holding
  <2>3. PICK x \in Runs : Becomes(p, x) /\ x = [y EXCEPT !.pc = "finish"]
    BY <1>1, <1>2, <2>1, <2>2, Stepped
  <2> QED BY <1>2, <2>3 DEF Runs
<1>4. ASSUME run' = [run EXCEPT ![p].at = @ + 1] PROVE \E x \in Runs : Becomes(p, x) /\ x.page = None
  <2>1. PICK at \in Nat \ {0} : at = y.at + 1
    BY DEF Runs
  <2>2. PICK x : x = [y EXCEPT !.at = at]
    OBVIOUS
  <2>3. x \in Runs /\ x.page = None /\ x.pc = "next" /\ x.tried = {}
    BY <1>2, <2>2 DEF Runs
  <2>4. HeldBy(x)
    BY <2>3 DEF HeldBy, Holding, Handling
  <2>5. run' = [run EXCEPT ![p] = x]
    BY <1>1, <1>4, <2>1, <2>2, Zenon
  <2> QED BY <2>3, <2>4, <2>5 DEF Becomes
<1>5. ASSUME Closing(p) PROVE \E x \in Runs : Becomes(p, x) /\ x.page = None
  <2>1. Becomes(p, [Idle EXCEPT !.pc = "release"])
    BY <1>5, Closed
  <2>2. [Idle EXCEPT !.pc = "release"].page = None
    BY DEF Idle
  <2> QED BY <2>1, <2>2 DEF Becomes
<1>6. ASSUME run[p].at <= Len(plan.sources), run[p].units < MaxUnits,
             run' = [run EXCEPT ![p] = [@ EXCEPT
                          !.pc = "acquire", !.offset = 0,
                          !.mem[Source(p)] = AtRun(Source(p), Entry(p)),
                          !.region = FirstRegion(Source(p), AtRun(Source(p), Entry(p)))]]
      PROVE  \E x \in Runs : Becomes(p, x) /\ x.page = None
  <2>1. run[p].at \in 1..Len(plan.sources)
    <3>1. Len(plan.sources) \in Nat
      BY PipelineAssumption DEF RunsType
    <3> QED BY <1>1, <1>6, <3>1 DEF Runs
  <2>2. Source(p) \in Sources /\ Entry(p) \in Entries
    BY <2>1, SourceType
  <2>3. PICK entry \in Entries : entry = AtRun(Source(p), Entry(p))
    BY <2>2, AtRunType
  <2>4. PICK region \in Regions : region = FirstRegion(Source(p), entry)
    BY <2>2, FirstRegionType
  <2>5. PICK mem \in [Sources -> Entries] : mem = [y.mem EXCEPT ![Source(p)] = entry]
    BY <2>2 DEF Runs
  <2>6. PICK x : x = [y EXCEPT !.pc = "acquire", !.offset = 0, !.mem = mem, !.region = region]
    OBVIOUS
  <2>7. /\ x \in Runs /\ x.page = None /\ x.pc = "acquire" /\ x.tried = {} /\ x.at = y.at
        /\ x.units = y.units
    BY <1>2, <2>6 DEF Runs, Pcs
  <2>8. HeldBy(x)
    BY <1>1, <1>6, <2>1, <2>7 DEF HeldBy, Holding, Handling
  <2>9. run' = [run EXCEPT ![p] = x]
    BY <1>1, <1>6, <2>3, <2>4, <2>5, <2>6, Zenon
  <2> QED BY <2>7, <2>8, <2>9 DEF Becomes
<1>7. Len(plan.sources) \in Nat /\ run[p].at \in Nat
  BY <1>1, PipelineAssumption DEF RunsType, Runs
<1> QED BY <1>3, <1>4, <1>5, <1>6, <1>7 DEF NextSource

LEMMA Acquired ==
  ASSUME RunsType, DataType, NEW p \in Procs, PageHeld(p),
         \/ AcquireFsq(p) \/ AcquireOverture(p) \/ PrepareOverture(p)
         \/ StartOsm(p) \/ RequestTile(p) \/ EndOsm(p) \/ AcquireNational(p)
  PROVE  \E x \in Runs : Becomes(p, x)
<1>1. PICK y \in Runs : y = run[p]
  BY DEF RunsType
<1>2. /\ run[p].pc \in {"acquire", "prepare", "tiles"}
      /\ run[p].page = None
      /\ run[p].at \in 1..Len(plan.sources) /\ run[p].units < MaxUnits
      /\ run[p].tried # {} => run[p].pc = "tiles"
  BY DEF AcquireFsq, AcquireOverture, PrepareOverture, StartOsm, RequestTile, EndOsm, AcquireNational,
         AtStep, PageHeld, HeldBy, Holding, Handling
<1>3. run[p].region \in Regions
  BY <1>1 DEF Runs
<1>4. ASSUME NEW pc \in {"failed", "prepare", "review"}, Step(p, pc),
             pc = "review" => Source(p) \notin Paged,
             pc = "prepare" => run[p].pc = "acquire"
      PROVE  \E x \in Runs : Becomes(p, x)
  BY <1>2, <1>4, Stepped DEF Pcs, Holding, Handling
<1>5. CASE AcquireFsq(p)
  <2>1. PICK page \in PagesOf(Pinned(run[p].region)) :
          Handed(p, [page |-> page, release |-> Pinned(run[p].region).release])
    BY <1>5 DEF AcquireFsq
  <2>2. page \in DeliveryPages /\ Pinned(run[p].region).release \in Nat
    BY <1>3, PinnedType, FsqAssumption DEF DataType, Pages, DeliveryPages, Cursors
  <2>3. Source(p) \in Paged
    BY <1>5 DEF AcquireFsq, AtStep, Paged
  <2> QED BY <1>2, <2>1, <2>2, <2>3, HandedOver
<1>6. CASE AcquireOverture(p)
  BY <1>4, <1>6 DEF AcquireOverture, AtStep
<1>7. CASE PrepareOverture(p)
  <2>1. CASE OvertureRefuses(run[p].region)
    BY <1>4, <1>7, <2>1 DEF PrepareOverture
  <2>2. CASE ~ OvertureRefuses(run[p].region)
    <3>1. PreparePage(run[p].region)
      BY <1>7, <2>2 DEF PrepareOverture
    <3>2. checkpoint'[run[p].region] \in Checkpoints /\ checkpoint'[run[p].region].pending # None
      <4> DEFINE r == run[p].region
                 state == StateFor(manifest[r], checkpoint[r])
                 page == IF state.pending # None THEN state
                         ELSE [state EXCEPT !.pending = NextDelivery(state, manifest[r])]
      <4>1. checkpoint' = [checkpoint EXCEPT ![r] = page] /\ TypeOKOverture'
        BY <1>3, <3>1, OvertureTypes DEF PreparePage, DataType
      <4>2. checkpoint'[r] = page /\ checkpoint'[r] \in Checkpoints \cup {None}
        BY <1>3, <4>1 DEF TypeOKOverture, DataType
      <4>3. manifest[r] \in Manifests
        BY <1>3, <3>1 DEF PreparePage, TypeOKOverture, DataType
      <4>4. state \in Checkpoints
        BY <1>3, <4>3 DEF StateFor, FreshCheckpoint, TypeOKOverture, Manifests, Checkpoints, DataType
      <4>5. NextDelivery(state, manifest[r]) \in DeliveryPages
        BY SMTT(40), <4>3, <4>4, OvertureAssumption
        DEF NextDelivery, Smaller, Manifests, Checkpoints, DeliveryPages, Complete
      <4> HIDE DEF state
      <4>6. page.pending # None /\ page \in Checkpoints
        BY <4>4, <4>5, NoDelivery DEF Checkpoints
      <4> QED BY <4>2, <4>6
    <3>3. /\ checkpoint'[run[p].region].pending \in DeliveryPages
          /\ checkpoint'[run[p].region].release \in Nat
      BY <3>2, OvertureAssumption DEF Checkpoints
    <3>4. /\ Handed(p, [page |-> checkpoint'[run[p].region].pending,
                        release |-> checkpoint'[run[p].region].release])
          /\ Source(p) \in Paged
      BY <1>7, <2>2 DEF PrepareOverture, AtStep, Paged
    <3> QED BY <1>2, <3>3, <3>4, HandedOver
  <2> QED BY <2>1, <2>2
<1>8. CASE StartOsm(p)
  <2>1. PICK x : x = [y EXCEPT !.pc = "tiles", !.tried = {}]
    OBVIOUS
  <2>2. /\ x \in Runs /\ x.page = y.page /\ x.pc = "tiles" /\ x.tried = {} /\ x.at = y.at
        /\ x.units = y.units
    BY <2>1 DEF Runs, Pcs
  <2>3. HeldBy(x)
    BY <1>1, <1>2, <2>2 DEF HeldBy, Holding, Handling
  <2>4. run' = [run EXCEPT ![p] = x]
    BY <1>1, <1>8, <2>1, Zenon DEF StartOsm
  <2> QED BY <2>2, <2>3, <2>4 DEF Becomes
<1>9. CASE RequestTile(p)
  <2>1. PICK t \in CellsOf[run[p].region] : run' = [run EXCEPT ![p].tried = @ \cup {t}]
    BY <1>9 DEF RequestTile, NextTiles
  <2>2. PICK tried : tried = y.tried \cup {t}
    OBVIOUS
  <2>3. y.tried \subseteq CellsOf[y.region] /\ tried \subseteq CellsOf[y.region]
    BY <1>1, <2>1, <2>2 DEF PageHeld, HeldBy
  <2>4. tried \in SUBSET UNION {CellsOf[r] : r \in Regions}
    BY <1>1, <1>3, <2>3
  <2>5. PICK x : x = [y EXCEPT !.tried = tried]
    OBVIOUS
  <2>6. /\ x \in Runs /\ x.page = y.page /\ x.pc = "tiles" /\ x.tried = tried /\ x.at = y.at
        /\ x.units = y.units /\ x.region = y.region
    BY <1>1, <1>9, <2>4, <2>5 DEF Runs, RequestTile, AtStep
  <2>7. HeldBy(x)
    BY <1>1, <1>2, <2>3, <2>6 DEF HeldBy, Holding, Handling
  <2>8. run' = [run EXCEPT ![p] = x]
    BY <1>1, <2>1, <2>2, <2>5, Zenon
  <2> QED BY <2>6, <2>7, <2>8 DEF Becomes
<1>10. CASE EndOsm(p)
  BY <1>4, <1>10 DEF EndOsm, AtStep, Paged
<1>11. CASE AcquireNational(p)
  BY <1>4, <1>11 DEF AcquireNational, Paged
<1> QED BY <1>5, <1>6, <1>7, <1>8, <1>9, <1>10, <1>11

\* Every step of a process leaves a process that holds a page only while it is handled.
LEMMA OwnSteps ==
  ASSUME RunsType, DataType, NEW p \in Procs, PageHeld(p), OwnStep(p)
  PROVE  \E x \in Runs : Becomes(p, x)
<1>1. PICK y \in Runs : y = run[p]
  BY DEF RunsType
<1>2. ASSUME NEW pc \in {"off", "own", "steal", "next", "relock", "failed", "finish"}, Step(p, pc),
             run[p].page # None => pc \in {"off", "failed"},
             run[p].tried # {} => pc \in {"off", "failed"},
             pc = "failed" => run[p].pc \in Handling
      PROVE  \E x \in Runs : Becomes(p, x)
  BY <1>2, Stepped DEF Pcs, Holding, Handling, PageHeld, HeldBy
<1>3. run[p].pc \notin Holding \cup {"tiles"} => run[p].page = None /\ run[p].tried = {}
  BY DEF PageHeld, HeldBy
<1>4. ASSUME NEW apply \in BOOLEAN, Start(p, apply) PROVE \E x \in Runs : Becomes(p, x)
  <2>1. PICK i \in Runs : i = Idle
    BY Idles
  <2>2. PICK x : x = [i EXCEPT !.pc = "lock", !.apply = apply, !.mem = stateFile]
    OBVIOUS
  <2>3. x \in Runs /\ x.pc = "lock" /\ x.page = None /\ x.tried = {}
    <3>1. i.page = None /\ i.tried = {}
      BY <2>1 DEF Idle
    <3> QED BY <2>2, <3>1 DEF Runs, Pcs, RunsType
  <2>4. HeldBy(x)
    BY <2>3 DEF HeldBy, Holding, Handling
  <2>5. run' = [run EXCEPT ![p] = x]
    BY <1>4, <2>1, <2>2 DEF Start
  <2> QED BY <2>3, <2>4, <2>5 DEF Becomes
<1>5. CASE MakeLock(p)
  BY <1>2, <1>3, <1>5 DEF MakeLock, Holding
<1>6. CASE OwnLock(p)
  BY <1>2, <1>3, <1>6 DEF OwnLock, Holding
<1>7. CASE StealLock(p)
  BY <1>2, <1>3, <1>7 DEF StealLock, Holding
<1>8. CASE ReleaseLock(p)
  BY <1>2, <1>8 DEF ReleaseLock
<1>9. CASE NextSource(p)
  BY <1>9, Chosen
<1>10. CASE \/ AcquireFsq(p) \/ AcquireOverture(p) \/ PrepareOverture(p)
            \/ StartOsm(p) \/ RequestTile(p) \/ EndOsm(p) \/ AcquireNational(p)
  BY <1>10, Acquired
<1>11. CASE Review(p)
  BY <1>11, Stepped DEF Review, Pcs, Holding, Handling, PageHeld, HeldBy, Source
<1>12. CASE Commit(p)
  <2>1. run[p].pc = "commit" /\ run[p].at \in 1..Len(plan.sources) /\ run[p].units < MaxUnits
    BY <1>12 DEF Commit, PageHeld, HeldBy, Holding, Handling
  <2>2. UnitDone(p) \/ Step(p, "failed")
    BY <1>12 DEF Commit
  <2>3. CASE UnitDone(p)
    BY <2>1, <2>3, Advanced
  <2>4. CASE Step(p, "failed")
    BY <1>2, <2>1, <2>4 DEF Handling, Holding
  <2> QED BY <2>2, <2>3, <2>4
<1>13. CASE RecordFailure(p)
  <2>1. run[p].at \in 1..Len(plan.sources)
    BY <1>13 DEF RecordFailure, PageHeld, HeldBy, Holding, Handling
  <2> QED BY <1>13, <2>1, Failed
<1>14. CASE Finish(p) \/ FinishFails(p)
  BY <1>14, Closed DEF Finish, FinishFails, Becomes
<1>15. CASE StageFails(p)
  BY <1>2, <1>15 DEF StageFails, Handling, Holding
<1>16. CASE Crash(p)
  <2>1. HeldBy(Idle)
    BY DEF HeldBy, Idle, Holding, Handling
  <2> QED BY <1>16, <2>1, Idles DEF Crash, Becomes
<1> QED BY <1>4, <1>5, <1>6, <1>7, <1>8, <1>9, <1>10, <1>11, <1>12, <1>13, <1>14, <1>15, <1>16
        DEF OwnStep, ProcStep

LEMMA ExporterStep ==
  ASSUME RunsType, DataType, NEW p \in Procs, PageHeld(p), OwnStep(p)
  PROVE  DataType'
<1>1. PICK y \in Runs : y = run[p]
  BY DEF RunsType
<1>2. run[p].region \in Regions
  BY <1>1 DEF Runs
<1>3. CASE DataStays
  BY <1>3 DEF DataStays, fsqVars, overtureVars, DataType, TypeOKFsq, TypeOKOverture, TypeOKOsm
<1>4. CASE AcquireFsq(p)
  <2>1. \/ \E page : ExportPage(run[p].region, page)
        \/ UNCHANGED fsqVars
    BY <1>4 DEF AcquireFsq, PreviewPage
  <2>2. TypeOKFsq'
    <3>1. CASE UNCHANGED fsqVars
      BY <3>1 DEF fsqVars, TypeOKFsq, DataType
    <3> QED BY <1>2, <2>1, <3>1, FsqTypes DEF DataType
  <2>3. UNCHANGED overtureVars /\ UNCHANGED tile
    BY <1>4 DEF AcquireFsq
  <2> QED BY <2>2, <2>3 DEF overtureVars, DataType, TypeOKOverture, TypeOKOsm
<1>5. CASE AcquireOverture(p) \/ PrepareOverture(p)
  <2>1. \/ AcquireTilePage(run[p].region) \/ PreparePage(run[p].region)
        \/ UNCHANGED overtureVars
    BY <1>5 DEF AcquireOverture, PrepareOverture
  <2>2. TypeOKOverture'
    <3>1. CASE UNCHANGED overtureVars
      BY <3>1 DEF overtureVars, TypeOKOverture, DataType
    <3> QED BY <1>2, <2>1, <3>1, OvertureTypes DEF DataType
  <2>3. UNCHANGED fsqVars /\ UNCHANGED tile
    BY <1>5 DEF AcquireOverture, PrepareOverture
  <2> QED BY <2>2, <2>3 DEF fsqVars, DataType, TypeOKFsq, TypeOKOsm
<1>6. CASE RequestTile(p)
  <2>1. PICK t \in CellsOf[run[p].region] : AttemptTile(run[p].region, t)
    BY <1>6 DEF RequestTile, NextTiles
  <2>2. TypeOKOsm'
    BY <1>2, <2>1, TileTypes DEF DataType
  <2>3. UNCHANGED fsqVars /\ UNCHANGED overtureVars
    BY <1>6 DEF RequestTile
  <2> QED BY <2>2, <2>3 DEF fsqVars, overtureVars, DataType, TypeOKFsq, TypeOKOverture
<1>7. CASE Commit(p)
  <2>1. /\ \/ UNCHANGED fsqVars
           \/ AcknowledgePage(run[p].region, run[p].page.page) /\ Source(p) \in Paged
        /\ \/ UNCHANGED overtureVars
           \/ /\ CommitPage(run[p].region, run[p].page.release, run[p].page.page)
              /\ Source(p) \in Paged
        /\ UNCHANGED tile
    BY <1>7 DEF Commit, Paged
  <2>2. Source(p) \in Paged => run[p].page.page \in DeliveryPages
    BY <1>1, <1>7 DEF Commit, PageHeld, HeldBy, Source, Runs, Handouts
  <2>3. TypeOKFsq'
    <3>1. CASE UNCHANGED fsqVars
      BY <3>1 DEF fsqVars, TypeOKFsq, DataType
    <3> QED BY <1>2, <2>1, <2>2, <3>1, FsqTypes DEF DataType
  <2>4. TypeOKOverture'
    <3>1. CASE UNCHANGED overtureVars
      BY <3>1 DEF overtureVars, TypeOKOverture, DataType
    <3> QED BY <1>2, <2>1, <2>2, <3>1, OvertureTypes DEF DataType
  <2> QED BY <2>1, <2>3, <2>4 DEF DataType, TypeOKOsm
<1>8. \/ DataStays \/ AcquireFsq(p) \/ AcquireOverture(p) \/ PrepareOverture(p) \/ RequestTile(p)
      \/ Commit(p)
  BY DEF OwnStep, ProcStep, Start, MakeLock, OwnLock, StealLock, ReleaseLock, NextSource, StartOsm,
         EndOsm, AcquireNational, Review, RecordFailure, Finish, StageFails, FinishFails, Crash
<1> QED BY <1>3, <1>4, <1>5, <1>6, <1>7, <1>8

\* What happens while no process takes a step.
Aside == (\E source \in Sources : TimePasses(source)) \/ FsqMoves \/ OvertureMoves \/ OsmMoves
         \/ UNCHANGED sourceVars

LEMMA AsideStep ==
  ASSUME RunsType, DataType, Aside
  PROVE  /\ DataType' /\ stateFile' \in [Sources -> Entries]
         /\ plan' = plan /\ run' = run /\ lock' = lock /\ reviewed' = reviewed /\ crashed' = crashed
<1>1. CASE \E source \in Sources : TimePasses(source)
  <2>1. PICK source \in Sources : TimePasses(source)
    BY <1>1
  <2>2. Older(stateFile[source].age) \in Ages
    BY DEF Older, Ages
  <2>3. PICK age \in Ages : age = Older(stateFile[source].age)
    BY <2>2
  <2>4. stateFile' = [stateFile EXCEPT ![source] = [stateFile[source] EXCEPT !.age = age]]
    BY <2>1, <2>3 DEF TimePasses
  <2>5. stateFile' \in [Sources -> Entries]
    BY <2>4 DEF RunsType, Entries
  <2> QED BY <2>1, <2>5 DEF TimePasses, DataStays, fsqVars, overtureVars, DataType, TypeOKFsq,
                            TypeOKOverture, TypeOKOsm
<1>2. CASE FsqMoves
  <2>1. TypeOKFsq'
    BY <1>2, FsqTypes, RegionAssumption DEF FsqMoves, DataType, Regions
  <2> QED BY <1>2, <2>1 DEF FsqMoves, pipelineVars, overtureVars, DataType, TypeOKOverture, TypeOKOsm,
                            RunsType
<1>3. CASE OvertureMoves
  <2>1. TypeOKOverture'
    <3>1. 0 \in Regions
      BY RegionAssumption DEF Regions
    <3> QED BY <1>3, <3>1, OvertureTypes DEF OvertureMoves, DataType
  <2> QED BY <1>3, <2>1 DEF OvertureMoves, pipelineVars, fsqVars, DataType, TypeOKFsq, TypeOKOsm,
                            RunsType
<1>4. CASE OsmMoves
  <2>1. TypeOKOsm'
    BY <1>4, TileTypes DEF OsmMoves, DataType
  <2> QED BY <1>4, <2>1 DEF OsmMoves, pipelineVars, fsqVars, overtureVars, DataType, TypeOKFsq,
                            TypeOKOverture, RunsType
<1>5. CASE UNCHANGED sourceVars
  BY <1>5 DEF sourceVars, pipelineVars, fsqVars, overtureVars, DataType, TypeOKFsq, TypeOKOverture,
              TypeOKOsm, RunsType
<1> QED BY <1>1, <1>2, <1>3, <1>4, <1>5 DEF Aside

LEMMA Steps ==
  ASSUME [NextSources]_sourceVars
  PROVE  Aside \/ \E p \in Procs : OwnStep(p)
BY DEF NextSources, Aside, OwnStep

\* Types, and where a page is held.
LEMMA WholeStep ==
  ASSUME Whole, [NextSources]_sourceVars
  PROVE  Whole' /\ plan' = plan
<1>1. CASE Aside
  <2>1. DataType' /\ stateFile' \in [Sources -> Entries] /\ plan' = plan /\ run' = run
    BY <1>1, AsideStep DEF Whole
  <2> QED BY <2>1 DEF Whole, RunsType, PageHeld, HeldBy
<1>2. ASSUME NEW p \in Procs, OwnStep(p) PROVE Whole' /\ plan' = plan
  <2>1. PICK x \in Runs : Becomes(p, x)
    BY <1>2, OwnSteps DEF Whole
  <2>2. plan' = plan
    BY <1>2 DEF OwnStep, ProcStep, Start, MakeLock, OwnLock, StealLock, ReleaseLock, NextSource, StartOsm,
         EndOsm, AcquireNational, Review, RecordFailure, Finish, StageFails, FinishFails, Crash,
         AcquireFsq, AcquireOverture, PrepareOverture, RequestTile, Commit, Quiet, Fault
  <2>3. stateFile' \in [Sources -> Entries]
    <3>1. stateFile' = stateFile \/ stateFile' = run[p].mem
      BY <1>2 DEF OwnStep, ProcStep, Start, MakeLock, OwnLock, StealLock, ReleaseLock, NextSource,
           StartOsm, EndOsm, AcquireNational, Review, RecordFailure, Finish, StageFails, FinishFails,
           Crash, AcquireFsq, AcquireOverture, PrepareOverture, RequestTile, Commit, Quiet, Fault
    <3>2. run[p].mem \in [Sources -> Entries]
      BY DEF Whole, RunsType, Runs
    <3> QED BY <3>1, <3>2 DEF Whole, RunsType
  <2>4. DataType'
    BY <1>2, ExporterStep DEF Whole
  <2>5. run' \in [Procs -> Runs] /\ run'[p] = x /\ \A q \in Procs : q # p => run'[q] = run[q]
    BY <2>1 DEF Becomes, Whole, RunsType
  <2>6. \A q \in Procs : PageHeld(q)'
    <3>1. PageHeld(p)'
      BY <2>1, <2>2, <2>5 DEF Becomes, PageHeld, HeldBy
    <3>2. ASSUME NEW q \in Procs, q # p PROVE PageHeld(q)'
      BY <2>2, <2>5, <3>2 DEF Whole, PageHeld, HeldBy
    <3> QED BY <3>1, <3>2
  <2> QED BY <2>2, <2>3, <2>4, <2>5, <2>6 DEF Whole, RunsType
<1> QED BY <1>1, <1>2, Steps

LEMMA WholeInit == InitSources => Whole
<1> SUFFICES ASSUME InitSources PROVE Whole
  OBVIOUS
<1>1. RunsType
  BY Idles DEF InitSources, RunsType
<1>2. DataType
  BY FsqAssumption, OvertureAssumption
  DEF InitSources, FsqInit, OvertureInit, OsmInit, DataType, TypeOKFsq, TypeOKOverture, TypeOKOsm
<1>3. \A p \in Procs : PageHeld(p)
  BY DEF InitSources, PageHeld, HeldBy, Idle, Holding, Handling
<1> QED BY <1>1, <1>2, <1>3 DEF Whole

LEMMA AlwaysWhole == InitSources /\ [][NextSources]_sourceVars => []Whole
<1>1. Whole /\ [NextSources]_sourceVars => Whole'
  BY WholeStep
<1> QED BY <1>1, WholeInit, PTL

\* The cursors, manifests, checkpoints and tile entries keep their types, and a run stays
\* within its work units and the tiles of its region.
THEOREM SourceTypes == SpecSources => []TypeOKSources
<1>1. Whole => TypeOKSources
  BY DEF Whole, RunsType, DataType, PageHeld, HeldBy, TypeOKSources, Runs, Pcs
<1> QED BY <1>1, AlwaysWhole, PTL DEF SpecSources

-----------------------------------------------------------------------------
(* The lock directory. *)

LEMMA LockStep ==
  ASSUME Whole, LockInv, [NextSources]_sourceVars
  PROVE  LockInv'
<1>1. CASE Aside
  <2>1. run' = run /\ lock' = lock /\ crashed' = crashed
    BY <1>1, AsideStep DEF Whole
  <2> QED BY <2>1 DEF LockInv
<1>2. ASSUME NEW p \in Procs, OwnStep(p), ~crashed' PROVE LockInv'
  <2>1. PICK x \in Runs : Becomes(p, x)
    BY <1>2, OwnSteps DEF Whole
  <2>2. run'[p] = x /\ \A q \in Procs : q # p => run'[q] = run[q]
    BY <2>1 DEF Becomes, Whole, RunsType
  <2>3. ~Crash(p) /\ ~crashed
    <3>1. ~Crash(p)
      BY <1>2 DEF Crash
    <3>2. crashed' = crashed
      BY <1>2, <3>1 DEF OwnStep, ProcStep, Start, MakeLock, OwnLock, StealLock, ReleaseLock, NextSource,
         StartOsm, EndOsm, AcquireNational, Review, RecordFailure, Finish, StageFails, FinishFails,
         AcquireFsq, AcquireOverture, PrepareOverture, RequestTile, Commit, Quiet, Fault
    <3> QED BY <1>2, <3>1, <3>2
  <2>4. /\ ~lock.dead /\ run[p].pc \notin {"steal", "relock"}
        /\ \A q \in Procs : run[q].pc \notin {"steal", "relock"}
        /\ \A q \in Procs : run[q].pc \in Working => lock.held
        /\ \A q, r \in Procs : run[q].pc \in Working /\ run[r].pc \in Working => q = r
    BY <2>3 DEF LockInv
  <2>5. ASSUME NEW pc, Step(p, pc) PROVE x.pc = IF pc = "off" THEN "off" ELSE pc
    <3>1. run'[p] = IF pc = "off" THEN Idle ELSE [run[p] EXCEPT !.pc = pc]
      BY <2>5 DEF Step, Whole, RunsType
    <3>2. run[p] \in Runs
      BY DEF Whole, RunsType
    <3> QED BY <2>2, <3>1, <3>2 DEF Idle, Runs
  <2>6. CASE MakeLock(p)
    <3>1. CASE lock.held
      <4>1. lock' = lock /\ x.pc = "off"
        BY <2>4, <2>5, <2>6, <3>1 DEF MakeLock, Abandoned
      <4> QED BY <2>2, <2>4, <4>1 DEF LockInv, Working
    <3>2. CASE ~lock.held
      <4>1. lock' = [NoLock EXCEPT !.held = TRUE] /\ x.pc = "own"
        BY <2>5, <2>6, <3>2 DEF MakeLock
      <4>2. lock'.held /\ ~lock'.dead
        BY <4>1 DEF NoLock
      <4>3. \A q \in Procs : run'[q].pc \in Working => q = p
        BY <2>2, <2>4, <3>2
      <4> QED BY <2>2, <2>4, <4>1, <4>2, <4>3 DEF LockInv
    <3> QED BY <3>1, <3>2
  <2>7. CASE ReleaseLock(p)
    <3>1. lock' = NoLock /\ x.pc = "off" /\ run[p].pc = "release"
      BY <2>5, <2>7 DEF ReleaseLock
    <3>2. \A q \in Procs : run'[q].pc \notin Working
      BY <2>2, <2>4, <3>1 DEF Working
    <3> QED BY <2>2, <2>4, <3>1, <3>2 DEF LockInv, NoLock
  <2>8. ASSUME lock'.held = lock.held, ~lock'.dead, x.pc \notin {"steal", "relock"},
               x.pc \in Working => run[p].pc \in Working
        PROVE  LockInv'
    BY <2>2, <2>4, <2>8 DEF LockInv
  <2>9. CASE OwnLock(p)
    <3>1. lock' = [lock EXCEPT !.owner = p, !.dead = FALSE] /\ x.pc = "next" /\ run[p].pc = "own"
      BY <2>4, <2>5, <2>9 DEF OwnLock, Working
    <3> QED BY <2>4, <2>8, <3>1 DEF Working
  <2>10. CASE ~ (MakeLock(p) \/ ReleaseLock(p) \/ OwnLock(p))
    <3>1. lock' = lock
      BY <1>2, <2>3, <2>4, <2>10 DEF OwnStep, ProcStep, Start, StealLock, NextSource,
         StartOsm, EndOsm, AcquireNational, Review, RecordFailure, Finish, StageFails, FinishFails,
         AcquireFsq, AcquireOverture, PrepareOverture, RequestTile, Commit, Quiet, Fault
    <3>2. x.pc \notin {"steal", "relock"} /\ (x.pc \in Working => run[p].pc \in Working)
      <4>1. CASE \E apply \in BOOLEAN : Start(p, apply)
        <5>1. run'[p].pc = "lock"
          BY <4>1, Idles DEF Start, Whole, RunsType, Runs
        <5> QED BY <2>2, <5>1 DEF Working
      <4>2. CASE run[p].pc \in Working
        <5>1. x.pc \notin {"steal", "relock"}
          <6>1. ASSUME NEW pc \in {"off", "failed", "prepare", "review", "commit", "finish"}, Step(p, pc)
                PROVE  x.pc \notin {"steal", "relock"}
            BY <2>5, <6>1
          <6>2. ASSUME Closing(p) PROVE x.pc \notin {"steal", "relock"}
            <7>1. x.pc = "release"
              BY <6>2, <2>2, Idles DEF Closing, Whole, RunsType, Runs
            <7> QED BY <7>1
          <6>3. CASE NextSource(p)
            <7>1. ASSUME run' = [run EXCEPT ![p].at = @ + 1] PROVE x.pc \notin {"steal", "relock"}
              BY <2>2, <2>4, <7>1 DEF Whole, RunsType, Runs
            <7>2. ASSUME NEW entry, NEW region, NEW mem,
                         run' = [run EXCEPT ![p] = [@ EXCEPT
                          !.pc = "acquire", !.offset = 0, !.mem[Source(p)] = entry,
                          !.region = region]]
                  PROVE  x.pc \notin {"steal", "relock"}
              BY <2>2, <7>2 DEF Whole, RunsType, Runs
            <7> QED BY <6>1, <6>2, <6>3, <7>1, <7>2 DEF NextSource
          <6>4. CASE AcquireFsq(p) \/ AcquireOverture(p) \/ PrepareOverture(p)
            <7>1. ASSUME NEW page, Handed(p, page) PROVE x.pc \notin {"steal", "relock"}
              <8>1. run'[p].pc = "review"
                BY <7>1 DEF Handed, Whole, RunsType, Runs
              <8> QED BY <2>2, <8>1
            <7> QED BY <6>1, <6>4, <7>1 DEF AcquireFsq, AcquireOverture, PrepareOverture
          <6>5. CASE StartOsm(p) \/ RequestTile(p)
            <7>1. x.pc = "tiles"
              BY <6>5, <2>2 DEF StartOsm, RequestTile, AtStep, Whole, RunsType, Runs
            <7> QED BY <7>1
          <6>6. CASE EndOsm(p) \/ AcquireNational(p) \/ Review(p) \/ StageFails(p)
            BY <6>1, <6>6 DEF EndOsm, AcquireNational, Review, StageFails
          <6>7. CASE Commit(p)
            <7>1. UnitDone(p) \/ Step(p, "failed")
              BY <6>7 DEF Commit
            <7>2. ASSUME UnitDone(p) PROVE x.pc \in {"acquire", "next"}
              <8>1. run[p].at \in 1..Len(plan.sources) /\ run[p].units < MaxUnits
                BY <6>7 DEF Commit, Whole, PageHeld, HeldBy, Handling, Holding
              <8>2. PICK z \in Runs : Becomes(p, z) /\ z.pc \in {"acquire", "next"}
                BY <7>2, <8>1, Advanced DEF Whole
              <8>3. z = run'[p]
                BY <8>2 DEF Becomes, Whole, RunsType
              <8> QED BY <2>2, <8>2, <8>3
            <7> QED BY <6>1, <7>1, <7>2
          <6>8. CASE RecordFailure(p)
            <7>1. run[p].at \in 1..Len(plan.sources)
              BY <6>8 DEF RecordFailure, Whole, PageHeld, HeldBy, Handling, Holding
            <7>2. PICK z \in Runs : Becomes(p, z) /\ z.pc = "next"
              BY <6>8, <7>1, Failed DEF Whole
            <7>3. z = run'[p]
              BY <7>2 DEF Becomes, Whole, RunsType
            <7> QED BY <2>2, <7>2, <7>3
          <6>9. CASE Finish(p) \/ FinishFails(p)
            BY <6>2, <6>9 DEF Finish, FinishFails
          <6>10. ~ (StealLock(p) \/ Crash(p) \/ MakeLock(p) \/ OwnLock(p) \/ ReleaseLock(p)
                    \/ \E apply \in BOOLEAN : Start(p, apply))
            BY <2>3, <2>4, <2>10, <4>2 DEF StealLock, Start, Working
          <6> QED BY <1>2, <6>3, <6>4, <6>5, <6>6, <6>7, <6>8, <6>9, <6>10 DEF OwnStep, ProcStep
        <5> QED BY <4>2, <5>1
      <4>3. (\E apply \in BOOLEAN : Start(p, apply)) \/ run[p].pc \in Working
        BY <1>2, <2>3, <2>4, <2>10 DEF OwnStep, ProcStep, StealLock, NextSource, StartOsm, EndOsm,
           AcquireNational, Review, RecordFailure, Finish, StageFails, FinishFails, AcquireFsq,
           AcquireOverture, PrepareOverture, RequestTile, Commit, AtStep, Working
      <4> QED BY <4>1, <4>2, <4>3
    <3>3. lock'.held = lock.held /\ ~lock'.dead
      BY <2>4, <3>1
    <3> QED BY <2>8, <3>2, <3>3
  <2> QED BY <2>6, <2>7, <2>9, <2>10
<1>3. CASE crashed'
  BY <1>3 DEF LockInv
<1> QED BY <1>1, <1>2, <1>3, Steps

\* Two processes never work at the same time until one dies, however their starts interleave
\* with the making, the owner's name and the removal of the lock directory (claimLock()).
THEOREM LockKeepsRunsApart == SpecSources => []OneRunUnlessCrashed
<1>1. InitSources => LockInv
  BY DEF InitSources, LockInv, NoLock, Idle, Working
<1>2. Whole /\ LockInv /\ [NextSources]_sourceVars => LockInv'
  BY LockStep
<1>3. LockInv => OneRunUnlessCrashed
  BY DEF LockInv, OneRunUnlessCrashed
<1> QED BY <1>1, <1>2, <1>3, AlwaysWhole, PTL DEF SpecSources

-----------------------------------------------------------------------------
(* What the exporters keep. *)

\* What a step does to the cursors and to the tiles.
LEMMA CursorSteps ==
  ASSUME Whole, [NextSources]_sourceVars
  PROVE  \/ cursor' = cursor
         \/ \E r \in Regions : \/ \E page : ExportPage(r, page)
                               \/ \E page \in DeliveryPages : AcknowledgePage(r, page)
                               \/ RefreshDue(r)
<1>1. CASE Aside
  BY <1>1 DEF Aside, TimePasses, FsqMoves, OvertureMoves, OsmMoves, DataStays, fsqVars, sourceVars,
              PublishRelease
<1>2. ASSUME NEW p \in Procs, OwnStep(p), cursor' # cursor
      PROVE  \/ \E page : ExportPage(run[p].region, page)
             \/ \E page \in DeliveryPages : AcknowledgePage(run[p].region, page)
  <2>1. AcquireFsq(p) \/ Commit(p)
    BY <1>2 DEF OwnStep, ProcStep, Start, MakeLock, OwnLock, StealLock, ReleaseLock, NextSource,
       StartOsm, EndOsm, AcquireNational, Review, RecordFailure, Finish, StageFails, FinishFails, Crash,
       AcquireOverture, PrepareOverture, RequestTile, DataStays, fsqVars
  <2>2. CASE AcquireFsq(p)
    BY <1>2, <2>2 DEF AcquireFsq, PreviewPage, fsqVars
  <2>3. CASE Commit(p)
    <3>1. AcknowledgePage(run[p].region, run[p].page.page) /\ Source(p) = "fsq"
      BY <1>2, <2>3 DEF Commit, fsqVars
    <3>2. run[p].page # None
      BY <2>3, <3>1 DEF Commit, Whole, PageHeld, HeldBy, Source, Paged
    <3>3. run[p].page.page \in DeliveryPages
      BY <3>2 DEF Whole, RunsType, Runs, Handouts
    <3> QED BY <3>1, <3>3
  <2> QED BY <2>1, <2>2, <2>3
<1>3. \A p \in Procs : run[p].region \in Regions
  BY DEF Whole, RunsType, Runs
<1> QED BY <1>1, <1>2, <1>3, Steps

LEMMA TileSteps ==
  ASSUME Whole, [NextSources]_sourceVars
  PROVE  \/ tile' = tile
         \/ \E r \in Regions : \E t \in CellsOf[r] : AttemptTile(r, t) \/ TileAges(r, t)
<1>1. CASE Aside
  BY <1>1 DEF Aside, TimePasses, FsqMoves, OvertureMoves, OsmMoves, DataStays, sourceVars
<1>2. ASSUME NEW p \in Procs, OwnStep(p), tile' # tile
      PROVE  \E t \in CellsOf[run[p].region] : AttemptTile(run[p].region, t)
  <2>1. RequestTile(p)
    BY <1>2 DEF OwnStep, ProcStep, Start, MakeLock, OwnLock, StealLock, ReleaseLock, NextSource,
       StartOsm, EndOsm, AcquireNational, Review, RecordFailure, Finish, StageFails, FinishFails, Crash,
       AcquireFsq, AcquireOverture, PrepareOverture, Commit, DataStays
  <2> QED BY <2>1 DEF RequestTile, NextTiles
<1>3. \A p \in Procs : run[p].region \in Regions
  BY DEF Whole, RunsType, Runs
<1> QED BY <1>1, <1>2, <1>3, Steps

LEMMA PageReplayed ==
  ASSUME Whole, [NextSources]_sourceVars, NEW r \in Regions, cursor[r] # None
  PROVE  /\ cursor[r].pending # None /\ cursor'[r].pending # None => cursor'[r].pending = cursor[r].pending
         /\ cursor'[r].release # cursor[r].release => cursor[r].complete /\ cursor[r].pending = None
<1>0. cursor \in [Regions -> Cursors \cup {None}] /\ cursor[r] \in Cursors
  BY DEF Whole, DataType, TypeOKFsq
<1>1. CASE cursor' = cursor
  BY <1>1
<1>2. ASSUME NEW q \in Regions, NEW page, ExportPage(q, page), q = r
      PROVE  /\ cursor[r].pending # None => cursor'[r].pending = cursor[r].pending
             /\ cursor'[r].release # cursor[r].release => cursor[r].complete /\ cursor[r].pending = None
  <2>1. Pinned(r) \in Cursors /\ page \in PagesOf(Pinned(r))
    BY <1>2, PinnedType DEF ExportPage, Whole, DataType
  <2>2. cursor'[r] = [Pinned(r) EXCEPT !.pending = page]
    BY <1>0, <1>2 DEF ExportPage
  <2>3. cursor'[r].pending = page /\ cursor'[r].release = Pinned(r).release
    BY <2>1, <2>2 DEF Cursors
  <2>4. CASE cursor[r].complete /\ cursor[r].pending = None
    BY <2>4
  <2>5. CASE ~ (cursor[r].complete /\ cursor[r].pending = None)
    <3>1. Pinned(r) = cursor[r]
      BY <2>5 DEF Pinned
    <3> QED BY <2>1, <2>3, <3>1 DEF PagesOf
  <2> QED BY <2>4, <2>5
<1>3. ASSUME NEW q \in Regions, NEW page \in DeliveryPages, AcknowledgePage(q, page), q = r
      PROVE  cursor'[r].pending = None /\ cursor'[r].release = cursor[r].release
  <2>1. PICK c \in Cursors : c = cursor[r]
    BY <1>0
  <2>2. PICK position, waiting : cursor' = [cursor EXCEPT ![r] =
          [c EXCEPT !.position = position, !.complete = page.complete, !.waiting = waiting,
                    !.pending = None]]
    <3>1. PICK position : position = IF page.complete THEN 0 ELSE page.end
      OBVIOUS
    <3>2. PICK waiting : waiting = (cursor[r].waiting \/ (page.complete /\ ~cursor[r].complete))
      OBVIOUS
    <3>3. cursor' = [cursor EXCEPT ![r] =
            [cursor[r] EXCEPT
               !.position = IF page.complete THEN 0 ELSE page.end,
               !.complete = page.complete,
               !.waiting = cursor[r].waiting \/ (page.complete /\ ~cursor[r].complete),
               !.pending = None]]
      BY <1>3 DEF AcknowledgePage
    <3> QED BY <2>1, <3>1, <3>2, <3>3, Zenon
  <2>3. cursor'[r] = [c EXCEPT !.position = position, !.complete = page.complete,
                               !.waiting = waiting, !.pending = None]
    BY <1>0, <2>2
  <2> QED BY <2>1, <2>3 DEF Cursors
<1>4. ASSUME NEW q \in Regions, RefreshDue(q), q = r
      PROVE  cursor'[r].pending = cursor[r].pending /\ cursor'[r].release = cursor[r].release
  BY <1>0, <1>4 DEF RefreshDue, Cursors
<1>5. ASSUME NEW q \in Regions, q # r,
             \/ \E page : ExportPage(q, page)
             \/ \E page \in DeliveryPages : AcknowledgePage(q, page)
             \/ RefreshDue(q)
      PROVE  cursor'[r] = cursor[r]
  BY <1>0, <1>5 DEF ExportPage, AcknowledgePage, RefreshDue
<1> QED BY <1>1, <1>2, <1>3, <1>4, <1>5, CursorSteps

\* The manifests after the entry of one tile is replaced.
Changed(r, t, entry) == [tile EXCEPT ![r][t] = entry]

\* The entry of one tile changes, to one whose fetched pieces have their rows.
LEMMA Attempted ==
  ASSUME Whole, TileInv, NEW r \in Regions, NEW t \in CellsOf[r], AttemptTile(r, t)
  PROVE  \E entry \in TileEntries :
           /\ tile' = Changed(r, t, entry)
           /\ entry.pieces # None =>
                \A piece \in Pieces : entry.pieces[piece] = "success" => piece \in entry.rows
           /\ tile[r][t] # None /\ tile[r][t].pieces # None =>
                /\ entry.pieces # None
                /\ \A piece \in Pieces :
                     tile[r][t].pieces[piece] = "success" => entry.pieces[piece] = "success"
<1>1. PICK entry \in Attempts(tile[r][t]) : tile' = Changed(r, t, entry)
  BY DEF AttemptTile, Changed
<1>2. ASSUME NEW pieces \in [Pieces -> Outcomes]
      PROVE  /\ SplitEntry(pieces) \in TileEntries
             /\ SplitEntry(pieces).pieces = pieces /\ pieces # None
             /\ \A piece \in Pieces : pieces[piece] = "success" => piece \in SplitEntry(pieces).rows
  BY OsmAssumption DEF SplitEntry, CollectedBy, TileEntries, Outcomes
<1>3. \A before, resumed : SplitResults(before, resumed) \subseteq [Pieces -> Outcomes]
  BY DEF SplitResults, Outcomes
<1>4. CASE tile[r][t] # None /\ tile[r][t].pieces # None
  <2>1. PICK after \in SplitResults(tile[r][t].pieces, TRUE) : entry = SplitEntry(after)
    BY <1>1, <1>4 DEF Attempts
  <2>2. after \in [Pieces -> Outcomes] /\
        \A piece \in Pieces : tile[r][t].pieces[piece] = "success" => after[piece] = "success"
    BY <2>1, <1>3 DEF SplitResults
  <2>3. /\ entry \in TileEntries /\ entry.pieces = after /\ after # None
        /\ \A piece \in Pieces : after[piece] = "success" => piece \in entry.rows
    BY <1>2, <2>1, <2>2
  <2> QED BY <1>1, <2>2, <2>3, Zenon
<1>5. CASE ~ (tile[r][t] # None /\ tile[r][t].pieces # None)
  <2>1. \/ entry \in {WholeEntry, FailedEntry}
        \/ \E after \in [Pieces -> Outcomes] : entry = SplitEntry(after)
    BY <1>1, <1>3, <1>5 DEF Attempts
  <2>2. /\ WholeEntry \in TileEntries /\ WholeEntry.pieces = None
        /\ FailedEntry \in TileEntries /\ FailedEntry.pieces = None
    BY DEF WholeEntry, FailedEntry, TileEntries, Outcomes
  <2>3. /\ entry \in TileEntries
        /\ entry.pieces # None =>
             \A piece \in Pieces : entry.pieces[piece] = "success" => piece \in entry.rows
    BY <1>2, <2>1, <2>2
  <2> QED BY <1>1, <1>5, <2>3, Zenon
<1> QED BY <1>4, <1>5

LEMMA OneTile ==
  ASSUME Whole, NEW r \in Regions, NEW t \in CellsOf[r], NEW q \in Regions, NEW u \in CellsOf[q]
  PROVE  \A entry : tile' = Changed(r, t, entry) =>
           tile'[q][u] = IF q = r /\ u = t THEN entry ELSE tile[q][u]
<1> SUFFICES ASSUME NEW entry, tile' = Changed(r, t, entry)
             PROVE  tile'[q][u] = IF q = r /\ u = t THEN entry ELSE tile[q][u]
  OBVIOUS
<1>1. DOMAIN tile = Regions /\ tile[r] \in [CellsOf[r] -> TileEntries \cup {None}]
  BY DEF Whole, DataType, TypeOKOsm
<1>2. tile'[q] = IF q = r THEN [tile[r] EXCEPT ![t] = entry] ELSE tile[q]
  <2>1. PICK f : f = [tile[r] EXCEPT ![t] = entry]
    OBVIOUS
  <2>2. tile' = [tile EXCEPT ![r] = f]
    BY <2>1 DEF Changed
  <2>3. \A g, a, b, c : a \in DOMAIN g => [g EXCEPT ![b] = c][a] = IF a = b THEN c ELSE g[a]
    OBVIOUS
  <2> QED BY <1>1, <2>1, <2>2, <2>3
<1> QED BY <1>1, <1>2

LEMMA TileStep ==
  ASSUME Whole, TileInv, [NextSources]_sourceVars
  PROVE  /\ TileInv'
         /\ \A r \in Regions : \A t \in CellsOf[r] :
              tile[r][t] # None /\ tile[r][t].pieces # None =>
                /\ tile'[r][t].pieces # None
                /\ \A piece \in Pieces :
                     tile[r][t].pieces[piece] = "success" =>
                       tile'[r][t].pieces[piece] = "success" /\ piece \in tile'[r][t].rows
<1>1. CASE tile' = tile
  BY <1>1 DEF TileInv
<1>2. ASSUME NEW r \in Regions, NEW t \in CellsOf[r], AttemptTile(r, t),
             NEW q \in Regions, NEW u \in CellsOf[q]
      PROVE  /\ tile'[q][u] # None /\ tile'[q][u].pieces # None =>
                  \A piece \in Pieces : tile'[q][u].pieces[piece] = "success" => piece \in tile'[q][u].rows
             /\ tile[q][u] # None /\ tile[q][u].pieces # None =>
                  /\ tile'[q][u].pieces # None
                  /\ \A piece \in Pieces :
                       tile[q][u].pieces[piece] = "success" =>
                         tile'[q][u].pieces[piece] = "success" /\ piece \in tile'[q][u].rows
  <2>1. PICK entry \in TileEntries :
           /\ tile' = Changed(r, t, entry)
           /\ entry.pieces # None =>
                \A piece \in Pieces : entry.pieces[piece] = "success" => piece \in entry.rows
           /\ tile[r][t] # None /\ tile[r][t].pieces # None =>
                /\ entry.pieces # None
                /\ \A piece \in Pieces :
                     tile[r][t].pieces[piece] = "success" => entry.pieces[piece] = "success"
    BY <1>2, Attempted
  <2>2. tile'[q][u] = IF q = r /\ u = t THEN entry ELSE tile[q][u]
    BY <1>2, <2>1, OneTile
  <2>3. CASE q = r /\ u = t
    BY <2>1, <2>2, <2>3
  <2>4. CASE ~ (q = r /\ u = t)
    BY <2>2, <2>4 DEF TileInv
  <2> QED BY <2>3, <2>4
<1>3. ASSUME NEW r \in Regions, NEW t \in CellsOf[r], TileAges(r, t),
             NEW q \in Regions, NEW u \in CellsOf[q]
      PROVE  /\ tile'[q][u] # None <=> tile[q][u] # None
             /\ tile[q][u] # None => tile'[q][u].pieces = tile[q][u].pieces /\ tile'[q][u].rows = tile[q][u].rows
  <2>1. PICK before \in TileEntries : before = tile[r][t]
    BY <1>3 DEF TileAges, Whole, DataType, TypeOKOsm
  <2>2. PICK entry : entry = [before EXCEPT !.fresh = FALSE, !.cooling = FALSE]
    OBVIOUS
  <2>3. entry # None /\ entry.pieces = before.pieces /\ entry.rows = before.rows
    <3>1. entry \in TileEntries /\ entry.pieces = before.pieces /\ entry.rows = before.rows
      BY <2>2 DEF TileEntries
    <3> QED BY <3>1, OsmAssumption
  <2>4. tile' = Changed(r, t, entry)
    BY <1>3, <2>1, <2>2 DEF TileAges, Changed
  <2>5. tile'[q][u] = IF q = r /\ u = t THEN entry ELSE tile[q][u]
    BY <2>4, OneTile
  <2> QED BY <1>3, <2>1, <2>3, <2>5 DEF TileAges
<1>4. TileInv'
  BY <1>1, <1>2, <1>3, TileSteps DEF TileInv
<1>5. ASSUME NEW r \in Regions, NEW t \in CellsOf[r], tile[r][t] # None /\ tile[r][t].pieces # None
      PROVE  /\ tile'[r][t].pieces # None
             /\ \A piece \in Pieces :
                  tile[r][t].pieces[piece] = "success" =>
                    tile'[r][t].pieces[piece] = "success" /\ piece \in tile'[r][t].rows
  BY <1>1, <1>2, <1>3, <1>5, TileSteps DEF TileInv
<1> QED BY <1>4, <1>5

\* Neither exporter takes back what it handed over or fetched: a pending Foursquare page is
\* replayed unchanged until it is acknowledged, a release is not replaced in the middle of
\* its scan, and a fetched piece of a split OpenStreetMap tile stays fetched.
THEOREM ExportersKeep == SpecSources => ExportsKept
<1> DEFINE Replayed ==
      \A r \in Regions : cursor[r] # None =>
       /\ cursor[r].pending # None /\ cursor'[r].pending # None => cursor'[r].pending = cursor[r].pending
       /\ cursor'[r].release # cursor[r].release =>
            cursor[r].complete /\ cursor[r].pending = None
           Kept ==
      \A r \in Regions : \A t \in CellsOf[r] :
       tile[r][t] # None /\ tile[r][t].pieces # None =>
         /\ tile'[r][t].pieces # None
         /\ \A piece \in Pieces :
              tile[r][t].pieces[piece] = "success" =>
                tile'[r][t].pieces[piece] = "success" /\ piece \in tile'[r][t].rows
<1>1. InitSources => TileInv
  BY DEF InitSources, OsmInit, TileInv
<1>2. Whole /\ TileInv /\ [NextSources]_sourceVars => TileInv' /\ [Replayed]_sourceVars /\ [Kept]_sourceVars
  BY PageReplayed, TileStep
<1>3. InitSources /\ [][NextSources]_sourceVars => [][Replayed]_sourceVars /\ [][Kept]_sourceVars
  BY <1>1, <1>2, AlwaysWhole, PTL
<1> QED BY <1>3, PTL DEF SpecSources, ExportsKept, PendingPageReplayed, SplitProgressKept

-----------------------------------------------------------------------------
(* What a cursor has passed. *)

\* A step that keeps the cursors and the checkpoints, and forgets no import.
LEMMA NothingMoves ==
  ASSUME SourcesInv, UNCHANGED <<cursor, manifest, checkpoint>>,
         \A r \in Regions : reviewed[r] \subseteq reviewed'[r]
  PROVE  CursorInv' /\ DeliveryInv' /\ NothingSkipped'
BY DEF SourcesInv, CursorInv, SoundCursor, DeliveryInv, NothingSkipped

\* A process that takes no step keeps what it held, and so does the import of its rows.
LEMMA BystanderStays ==
  ASSUME NEW q \in Procs, run'[q] = run[q], plan' = plan
  PROVE  /\ RowsHanded(q)' = RowsHanded(q)
         /\ Pinning(q) /\ cursor' = cursor => Pinning(q)'
         /\ RowsImported(q) /\ reviewed[run[q].region] \subseteq reviewed'[run[q].region] =>
              RowsImported(q)'
<1>1. RowsHanded(q)' = RowsHanded(q)
  BY DEF RowsHanded, Source
<1>2. Pinning(q) /\ cursor' = cursor => Pinning(q)'
  BY DEF Pinning, Source
<1> QED BY <1>1, <1>2 DEF RowsImported

\* A page that is scanned takes rows, and says whether it is the last.
LEMMA Scanned ==
  ASSUME NEW position \in 0..Total, NEW page \in ScanPages(position)
  PROVE  /\ page.start = position /\ page.start < page.end
         /\ page.complete <=> page.end = Total
<1>1. PICK end \in (position + 1)..Total :
        page = [start |-> position, end |-> end, complete |-> end = Total]
  BY DEF ScanPages
<1>2. page.start = position /\ page.end = end /\ page.complete = (end = Total)
  BY <1>1
<1>3. position < end
  BY FsqAssumption
<1> QED BY <1>2, <1>3

LEMMA ScanStep ==
  ASSUME Whole, SourcesInv, NEW p \in Procs, AcquireFsq(p), Whole', plan' = plan
  PROVE  CursorInv' /\ NothingSkipped' /\ \A q \in Procs : Pinning(q)'
<1> DEFINE r == run[p].region
           c == cursor[r]
           fresh == c = None \/ (c.complete /\ c.pending = None /\ ~c.waiting)
<1>1. r \in Regions
  BY DEF Whole, RunsType, Runs
<1>2. reviewed' = reviewed /\ manifest' = manifest /\ checkpoint' = checkpoint
  BY DEF AcquireFsq, Quiet, overtureVars
<1>3. PICK page \in PagesOf(Pinned(r)) :
        /\ IF run[p].apply THEN ExportPage(r, page) ELSE PreviewPage(r, page)
        /\ Handed(p, [page |-> page, release |-> Pinned(r).release])
  BY DEF AcquireFsq
<1>4. /\ run'[p] = [run[p] EXCEPT !.pc = "review",
                                  !.page = [page |-> page, release |-> Pinned(r).release]]
      /\ \A q \in Procs : q # p => run'[q] = run[q]
  BY <1>3 DEF Handed, Whole, RunsType, Runs
<1>5. /\ run'[p].page.page = page /\ run'[p].page.release = Pinned(r).release
      /\ run'[p].apply = run[p].apply /\ run'[p].region = r
  BY <1>4 DEF Whole, RunsType, Runs
<1>6. CASE ~ run[p].apply
  <2>1. cursor' = cursor
    BY <1>3, <1>6 DEF PreviewPage, fsqVars
  <2>2. Pinning(p)'
    BY <1>5, <1>6 DEF Pinning
  <2>3. \A q \in Procs : q # p => Pinning(q)'
    BY <1>4, <2>1, BystanderStays DEF SourcesInv
  <2> QED BY <1>2, <2>1, <2>2, <2>3, NothingMoves
<1>7. CASE run[p].apply
  <2>1. cursor' = [cursor EXCEPT ![r] = [Pinned(r) EXCEPT !.pending = page]]
    BY <1>3, <1>7 DEF ExportPage
  <2>2. Pinned(r) \in Cursors /\ page \in Pages /\ page # None
    BY <1>1, PinnedType DEF Whole, DataType
  <2>3. PICK d : d = [Pinned(r) EXCEPT !.pending = page]
    OBVIOUS
  <2>4. /\ d.pending = page /\ d.release = Pinned(r).release /\ d.position = Pinned(r).position
        /\ d.complete = Pinned(r).complete /\ d.waiting = Pinned(r).waiting
    BY <2>2, <2>3 DEF Cursors
  <2>5. cursor'[r] = d /\ \A q \in Regions : q # r => cursor'[q] = cursor[q]
    BY <1>1, <2>1, <2>3 DEF Whole, DataType, TypeOKFsq
  <2>6. d # None
    BY <1>1, <2>2, <2>3, NoCursor DEF Cursors
  <2>7. CASE fresh
    <3>1. /\ Pinned(r).position = 0 /\ ~Pinned(r).complete /\ ~Pinned(r).waiting
          /\ Pinned(r).pending = None
      BY <2>7 DEF Pinned
    <3>2. page \in ScanPages(0)
      BY <1>3, <3>1 DEF PagesOf
    <3>3. page.start = 0 /\ page.start < page.end /\ (page.complete <=> page.end = Total)
      BY <3>2, Scanned, FsqAssumption
    <3>4. CursorInv'
      BY <2>4, <2>5, <3>1, <3>3 DEF CursorInv, SoundCursor, SourcesInv
    <3>5. NothingSkipped'
      <4>1. \A row \in Matching : ~ (row <= 0)
        BY FsqAssumption
      <4> QED BY <1>2, <2>4, <2>5, <3>1, <4>1 DEF NothingSkipped, SourcesInv
    <3>6. Pinning(p)'
      BY <1>5, <2>4, <2>5, <2>6, <3>1 DEF Pinning
    <3>7. ASSUME NEW q \in Procs, q # p PROVE Pinning(q)'
      <4>1. Pinning(q)
        BY DEF SourcesInv
      <4>2. run'[q] = run[q] /\ Source(q)' = Source(q)
        BY <1>4, <3>7 DEF Source
      <4> QED BY <1>1, <2>5, <2>7, <4>1, <4>2 DEF Pinning, Whole, RunsType, Runs
    <3> QED BY <3>4, <3>5, <3>6, <3>7
  <2>8. CASE ~fresh
    <3>1. Pinned(r) = c /\ c # None /\ c \in Cursors
      BY <1>1, <2>8 DEF Pinned, Whole, DataType, TypeOKFsq
    <3>2. /\ c.complete => c.position = 0 /\ (c.pending # None => c.pending = DeferredPage(0))
          /\ ~c.complete =>
               /\ ~c.waiting
               /\ c.pending # None => /\ c.pending.start = c.position
                                      /\ c.pending.start < c.pending.end
                                      /\ c.pending.complete <=> c.pending.end = Total
      BY <1>1, <3>1 DEF SourcesInv, CursorInv, SoundCursor
    <3>3. c.complete => page = DeferredPage(0)
      BY <1>3, <2>8, <3>1, <3>2 DEF PagesOf
    <3>4. ~c.complete => /\ page.start = c.position /\ page.start < page.end
                         /\ page.complete <=> page.end = Total
      <4>1. CASE c.pending # None
        BY <1>3, <3>1, <3>2, <4>1 DEF PagesOf
      <4>2. CASE c.pending = None /\ ~c.complete
        <5>1. page \in ScanPages(c.position)
          BY <1>3, <3>1, <3>2, <4>2 DEF PagesOf
        <5>2. c.position \in 0..Total
          BY <3>1 DEF Cursors
        <5> QED BY <5>1, <5>2, Scanned
      <4> QED BY <4>1, <4>2
    <3>5. CursorInv'
      BY <2>4, <2>5, <3>1, <3>2, <3>3, <3>4 DEF CursorInv, SoundCursor, SourcesInv
    <3>6. NothingSkipped'
      BY <1>2, <1>1, <2>4, <2>5, <3>1 DEF NothingSkipped, SourcesInv
    <3>7. Pinning(p)'
      <4>1. CASE c.complete
        <5>1. ~ (page.start < page.end)
          BY <3>3, <4>1 DEF DeferredPage
        <5> QED BY <1>5, <5>1 DEF Pinning
      <4>2. CASE ~c.complete
        BY <1>5, <2>4, <2>5, <2>6, <3>1, <4>2 DEF Pinning
      <4> QED BY <4>1, <4>2
    <3>8. ASSUME NEW q \in Procs, q # p PROVE Pinning(q)'
      <4>1. Pinning(q)
        BY DEF SourcesInv
      <4>2. run'[q] = run[q] /\ Source(q)' = Source(q)
        BY <1>4, <3>8 DEF Source
      <4>3. run[q].region = r \/ cursor'[run[q].region] = cursor[run[q].region]
        BY <2>5 DEF Whole, RunsType, Runs
      <4> QED BY <2>4, <2>5, <2>6, <3>1, <4>1, <4>2, <4>3 DEF Pinning
    <3> QED BY <3>5, <3>6, <3>7, <3>8
  <2> QED BY <2>7, <2>8
<1> QED BY <1>6, <1>7

\* The acknowledgement of the page a process committed: its rows were imported, of the
\* release of the cursor.
LEMMA AcknowledgeStep ==
  ASSUME Whole, SourcesInv, NEW p \in Procs, Commit(p), run[p].apply, Source(p) = "fsq",
         AcknowledgePage(run[p].region, run[p].page.page), UnitDone(p), reviewed' = reviewed,
         plan' = plan
  PROVE  CursorInv' /\ NothingSkipped' /\ \A q \in Procs : Pinning(q)'
<1> DEFINE r == run[p].region
           page == run[p].page.page
<1>1. r \in Regions
  BY DEF Whole, RunsType, Runs
<1>2. run[p].pc = "commit" /\ run[p].page \in Handouts /\ page \in DeliveryPages
  <2>1. run[p].pc = "commit"
    BY DEF Commit
  <2>2. run[p].page # None
    BY <2>1 DEF Whole, PageHeld, HeldBy, Source, Paged
  <2>3. run[p].page \in Handouts
    BY <2>2 DEF Whole, RunsType, Runs
  <2> QED BY <2>1, <2>3 DEF Handouts
<1>3. page # None
  BY <1>2, NoDelivery
<1>4. PICK c \in Cursors : c = cursor[r] /\ c # None /\ c.pending = page /\ page \in Pages
  BY <1>1, <1>3 DEF AcknowledgePage, CanAcknowledge, Whole, DataType, TypeOKFsq, Cursors
<1>5. /\ c.complete => c.position = 0 /\ page = DeferredPage(0)
      /\ ~c.complete => /\ ~c.waiting
                        /\ page.start = c.position /\ page.start < page.end
                        /\ page.complete <=> page.end = Total
  BY <1>1, <1>3, <1>4 DEF SourcesInv, CursorInv, SoundCursor
<1>6. PICK position : position = IF page.complete THEN 0 ELSE page.end
  OBVIOUS
<1>7. PICK waiting : waiting = (c.waiting \/ (page.complete /\ ~c.complete))
  OBVIOUS
<1>8. PICK d : d = [c EXCEPT !.position = position, !.complete = page.complete,
                             !.waiting = waiting, !.pending = None]
  OBVIOUS
<1>9. cursor' = [cursor EXCEPT ![r] = d]
  <2>1. cursor' = [cursor EXCEPT ![r] =
          [cursor[r] EXCEPT
             !.position = IF page.complete THEN 0 ELSE page.end,
             !.complete = page.complete,
             !.waiting = cursor[r].waiting \/ (page.complete /\ ~cursor[r].complete),
             !.pending = None]]
    BY DEF AcknowledgePage
  <2> QED BY <1>4, <1>6, <1>7, <1>8, <2>1, Zenon
<1>10. cursor'[r] = d /\ \A q \in Regions : q # r => cursor'[q] = cursor[q]
  BY <1>1, <1>9 DEF Whole, DataType, TypeOKFsq
<1>11. /\ d.release = c.release /\ d.position = position /\ d.complete = page.complete
       /\ d.waiting = waiting /\ d.pending = None
  BY <1>8 DEF Cursors
<1>12. d # None
  <2>1. PICK n \in 0..Total : n = position
    BY <1>4, <1>6, FsqAssumption DEF Pages
  <2>2. PICK w \in BOOLEAN : w = waiting
    BY <1>7
  <2>3. PICK b \in BOOLEAN : b = page.complete
    BY <1>4 DEF Pages
  <2>4. d \in Cursors
    BY <1>8, <2>1, <2>2, <2>3 DEF Cursors
  <2> QED BY <2>4, NoCursor
<1>13. ASSUME NEW q \in Procs PROVE Pinning(q)'
  <2>1. CASE q = p
    <3>1. run[p].at \in 1..Len(plan.sources) /\ run[p].units < MaxUnits
      BY <1>2 DEF Whole, PageHeld, HeldBy, Handling, Holding
    <3>2. PICK z \in Runs : Becomes(p, z) /\ z.pc \in {"acquire", "next"}
      BY <3>1, Advanced DEF Whole
    <3>3. z = run'[p]
      BY <3>2 DEF Becomes, Whole, RunsType
    <3> QED BY <2>1, <3>2, <3>3 DEF Pinning
  <2>2. CASE q # p
    <3>1. run'[q] = run[q] /\ Source(q)' = Source(q)
      BY <2>2 DEF UnitDone, Source, Whole, RunsType
    <3>2. Pinning(q)
      BY DEF SourcesInv
    <3>3. CASE run[q].region # r
      <4>1. cursor'[run[q].region] = cursor[run[q].region]
        BY <1>10, <3>3 DEF Whole, RunsType, Runs
      <4> QED BY <3>1, <3>2, <4>1 DEF Pinning
    <3>4. CASE run[q].region = r
      <4>1. d.complete => waiting \/ (c.complete /\ ~c.waiting)
        BY <1>7, <1>11
      <4> QED BY <1>4, <1>10, <1>11, <1>12, <3>1, <3>2, <3>4, <4>1 DEF Pinning
    <3> QED BY <3>3, <3>4
  <2> QED BY <2>1, <2>2
<1>14. CASE c.complete
  <2>1. page.complete /\ position = 0 /\ waiting = c.waiting
    BY <1>5, <1>6, <1>7, <1>14, <1>4 DEF DeferredPage, Cursors
  <2>2. CursorInv'
    <3>1. SoundCursor(d)
      BY <1>4, <1>11, <2>1 DEF SoundCursor
    <3> QED BY <1>10, <3>1 DEF CursorInv, SourcesInv
  <2>3. NothingSkipped'
    <3>1. UNCHANGED <<reviewed, checkpoint>>
      BY DEF Commit, overtureVars
    <3> QED BY <1>1, <1>4, <1>10, <1>11, <1>14, <2>1, <3>1 DEF NothingSkipped, SourcesInv
  <2> QED BY <1>13, <2>2, <2>3
<1>15. CASE ~c.complete
  <2>1. CursorInv'
    <3>1. page.complete => position = 0
      BY <1>6
    <3>2. ~page.complete => ~waiting
      BY <1>5, <1>7, <1>15
    <3> QED BY <1>10, <1>11, <3>1, <3>2 DEF CursorInv, SoundCursor, SourcesInv
  <2>2. checkpoint' = checkpoint
    BY DEF Commit, overtureVars
  <2>3. \A row \in RowsOf(page) : <<"fsq", c.release, row>> \in reviewed[r]
    <3>1. run[p].page.release = c.release
      BY <1>1, <1>2, <1>4, <1>5, <1>15 DEF SourcesInv, Pinning
    <3>2. RowsHanded(p) = {<<"fsq", c.release, row>> : row \in RowsOf(page)}
      BY <1>2, <3>1, PipelineAssumption DEF RowsHanded
    <3>3. RowsHanded(p) \subseteq reviewed[r]
      BY <1>2 DEF SourcesInv, RowsImported
    <3> QED BY <3>2, <3>3
  <2>4. ASSUME NEW row \in Matching, row <= d.position \/ d.complete
        PROVE  <<"fsq", d.release, row>> \in reviewed[r]
    <3>1. row \in 1..Total /\ page.end \in 0..Total /\ Total \in Nat /\ page.start \in 0..Total
      BY <1>4, FsqAssumption DEF Pages
    <3>2. row <= page.end
      BY <1>5, <1>6, <1>11, <1>15, <2>4, <3>1
    <3>3. CASE row <= c.position
      BY <1>1, <1>4, <1>11, <3>3 DEF SourcesInv, NothingSkipped
    <3>4. CASE ~ (row <= c.position)
      <4>1. row \in RowsOf(page)
        BY <1>5, <1>15, <3>1, <3>2, <3>4 DEF RowsOf
      <4> QED BY <1>11, <2>3, <4>1
    <3> QED BY <3>3, <3>4
  <2>5. NothingSkipped'
    BY <1>10, <2>2, <2>4 DEF NothingSkipped, SourcesInv
  <2> QED BY <1>13, <2>1, <2>5
<1> QED BY <1>14, <1>15

\* What a step does to the manifest and the checkpoint of a region.
LEMMA DeliveryStep ==
  ASSUME Whole, DeliveryInv, NEW r \in Regions, AcquireTilePage(r) \/ PreparePage(r)
  PROVE  /\ DeliveryInv'
         /\ \A q \in Regions : q # r => checkpoint'[q] = checkpoint[q]
         /\ \/ checkpoint'[r] = checkpoint[r]
            \/ checkpoint'[r].offset = 0 /\ ~checkpoint'[r].complete
            \/ /\ checkpoint[r] # None
               /\ checkpoint'[r].offset = checkpoint[r].offset
               /\ checkpoint'[r].release = checkpoint[r].release
               /\ checkpoint'[r].complete = checkpoint[r].complete
<1>0. TypeOKOverture
  BY DEF Whole, DataType
<1>1. CASE AcquireTilePage(r)
  <2>1. manifest' = [manifest EXCEPT ![r] = WithTilePage(SelectManifest(r))] /\ checkpoint' = checkpoint
    BY <1>1 DEF AcquireTilePage
  <2>2. PICK m \in Manifests : /\ m = SelectManifest(r)
                               /\ Complete(m) => m.rows = AllRows(m.release)
    <3>1. SelectManifest(r) \in Manifests
      BY <1>0, OvertureAssumption DEF SelectManifest, TypeOKOverture, Manifests
    <3>2. CASE SelectManifest(r) = manifest[r] /\ manifest[r] # None
      BY <3>1, <3>2 DEF DeliveryInv
    <3>3. CASE SelectManifest(r) = [release |-> catalog, tiles |-> 0, rows |-> 0]
      BY <3>1, <3>3, OvertureAssumption DEF Complete
    <3> QED BY <3>1, <3>2, <3>3 DEF SelectManifest
  <2>3. PICK n : n = WithTilePage(m)
    OBVIOUS
  <2>4. Complete(n) => n.rows = AllRows(n.release)
    <3>1. CASE Complete(m)
      BY <2>2, <2>3, <3>1 DEF WithTilePage
    <3>2. CASE ~ Complete(m)
      <4>1. PICK end : end = TileEnd[m.release][m.tiles + 1]
        OBVIOUS
      <4>2. PICK rows : rows = Smaller(m.rows + PageLimit, end)
        OBVIOUS
      <4>3. PICK tiles : tiles = IF rows = end THEN m.tiles + 1 ELSE m.tiles
        OBVIOUS
      <4>4. n = [m EXCEPT !.rows = rows, !.tiles = tiles]
        BY <2>3, <3>2, <4>1, <4>2, <4>3 DEF WithTilePage
      <4>5. n.rows = rows /\ n.tiles = tiles /\ n.release = m.release
        BY <4>4 DEF Manifests
      <4>6. CASE rows = end
        <5>1. tiles = m.tiles + 1
          BY <4>3, <4>6
        <5> QED BY <4>1, <4>5, <4>6, <5>1 DEF Complete, AllRows
      <4>7. CASE rows # end
        BY <3>2, <4>3, <4>5, <4>7 DEF Complete
      <4> QED BY <4>6, <4>7
    <3> QED BY <3>1, <3>2
  <2>5. manifest'[r] = n /\ \A q \in Regions : q # r => manifest'[q] = manifest[q]
    BY <1>0, <2>1, <2>2, <2>3 DEF TypeOKOverture
  <2>6. DeliveryInv'
    BY <2>1, <2>4, <2>5 DEF DeliveryInv, Complete, AllRows
  <2> QED BY <2>1, <2>6
<1>2. CASE PreparePage(r)
  <2> DEFINE state == StateFor(manifest[r], checkpoint[r])
  <2>1. PICK m \in Manifests : m = manifest[r] /\ (Complete(m) => m.rows = AllRows(m.release))
    BY <1>0, <1>2 DEF PreparePage, TypeOKOverture, DeliveryInv
  <2>2. PICK s \in Checkpoints : s = state
    <3>1. state \in Checkpoints
      BY <1>0, <2>1 DEF StateFor, FreshCheckpoint, TypeOKOverture, Manifests, Checkpoints
    <3> QED BY <3>1
  <2>3. PICK page : page = NextDelivery(s, m)
    OBVIOUS
  <2>4. PICK d : d = IF s.pending # None THEN s ELSE [s EXCEPT !.pending = page]
    OBVIOUS
  <2>5. manifest' = manifest /\ checkpoint' = [checkpoint EXCEPT ![r] = d]
    BY <1>2, <2>1, <2>2, <2>3, <2>4 DEF PreparePage
  <2>6. checkpoint'[r] = d /\ \A q \in Regions : q # r => checkpoint'[q] = checkpoint[q]
    BY <1>0, <2>5 DEF TypeOKOverture
  <2>7. d.offset = s.offset /\ d.complete = s.complete /\ d.release = s.release
    BY <2>4 DEF Checkpoints
  <2>8. /\ \/ s = checkpoint[r] /\ checkpoint[r] # None
           \/ s.offset = 0 /\ ~s.complete /\ s.pending = None
        /\ s.release = m.release
    BY <2>1, <2>2 DEF StateFor, FreshCheckpoint
  <2>9. /\ page.start = s.offset
        /\ page.complete => page.end = AllRows(s.release)
    <3>1. PICK end : end = Smaller(s.offset + PageLimit, m.rows)
      OBVIOUS
    <3>2. page = [start |-> s.offset, end |-> end, complete |-> Complete(m) /\ end = m.rows]
      BY <2>3, <3>1 DEF NextDelivery
    <3>3. page.start = s.offset /\ page.end = end /\ page.complete = (Complete(m) /\ end = m.rows)
      BY <3>2
    <3> QED BY <2>1, <2>8, <3>3
  <2>10. d.pending.start = d.offset /\ (d.pending.complete => d.pending.end = AllRows(d.release))
    <3>1. CASE s.pending # None
      BY <2>4, <2>8, <3>1 DEF DeliveryInv
    <3>2. CASE s.pending = None
      <4>1. d.pending = page
        BY <2>4, <3>2 DEF Checkpoints
      <4> QED BY <2>7, <2>9, <4>1
    <3> QED BY <3>1, <3>2
  <2>11. DeliveryInv'
    BY <2>5, <2>6, <2>10 DEF DeliveryInv, Complete, AllRows
  <2> QED BY <2>6, <2>7, <2>8, <2>11
<1> QED BY <1>1, <1>2

LEMMA DeliveredStep ==
  ASSUME Whole, SourcesInv, NEW p \in Procs, AcquireOverture(p) \/ PrepareOverture(p)
  PROVE  CursorInv' /\ DeliveryInv' /\ NothingSkipped'
<1>1. run[p].region \in Regions
  BY DEF Whole, RunsType, Runs
<1>2. UNCHANGED <<cursor, reviewed>>
  BY DEF AcquireOverture, PrepareOverture, fsqVars, Quiet
<1>3. \A r \in Regions : reviewed[r] \subseteq reviewed'[r]
  BY <1>2
<1>4. CASE UNCHANGED overtureVars
  BY <1>2, <1>3, <1>4, NothingMoves DEF overtureVars
<1>5. CASE AcquireTilePage(run[p].region) \/ PreparePage(run[p].region)
  <2>1. DeliveryInv'
    BY <1>1, <1>5, DeliveryStep DEF SourcesInv
  <2>2. CursorInv'
    BY <1>2 DEF CursorInv, SoundCursor, SourcesInv
  <2>3. ASSUME NEW r \in Regions, checkpoint'[r] # None
        PROVE  /\ \A row \in 1..checkpoint'[r].offset :
                    <<"overture", checkpoint'[r].release, row>> \in reviewed[r]
               /\ checkpoint'[r].complete => checkpoint'[r].offset = AllRows(checkpoint'[r].release)
    <3>1. \/ checkpoint'[r] = checkpoint[r]
          \/ checkpoint'[r].offset = 0 /\ ~checkpoint'[r].complete
          \/ /\ checkpoint[r] # None
             /\ checkpoint'[r].offset = checkpoint[r].offset
             /\ checkpoint'[r].release = checkpoint[r].release
             /\ checkpoint'[r].complete = checkpoint[r].complete
      BY <1>1, <1>5, DeliveryStep DEF SourcesInv
    <3>2. /\ checkpoint[r] # None =>
               /\ \A row \in 1..checkpoint[r].offset :
                    <<"overture", checkpoint[r].release, row>> \in reviewed[r]
               /\ checkpoint[r].complete => checkpoint[r].offset = AllRows(checkpoint[r].release)
      BY DEF SourcesInv, NothingSkipped
    <3>3. CASE checkpoint'[r].offset = 0 /\ ~checkpoint'[r].complete
      <4>1. 1..checkpoint'[r].offset = {}
        BY <3>3
      <4> QED BY <3>3, <4>1
    <3> QED BY <2>3, <3>1, <3>2, <3>3
  <2>4. NothingSkipped'
    BY <1>2, <2>3 DEF NothingSkipped, SourcesInv, AllRows
  <2> QED BY <2>1, <2>2, <2>4
<1> QED BY <1>4, <1>5 DEF AcquireOverture, PrepareOverture

\* The commit of a delivery page: its rows follow the rows delivered, and were imported.
LEMMA DeliveryCommitted ==
  ASSUME Whole, SourcesInv, NEW p \in Procs, Commit(p), run[p].apply, Source(p) = "overture",
         CommitPage(run[p].region, run[p].page.release, run[p].page.page)
  PROVE  CursorInv' /\ DeliveryInv' /\ NothingSkipped'
<1> DEFINE r == run[p].region
           page == run[p].page.page
<1>1. r \in Regions
  BY DEF Whole, RunsType, Runs
<1>2. run[p].pc = "commit" /\ run[p].page # None /\ page \in DeliveryPages
  <2>1. run[p].pc = "commit"
    BY DEF Commit
  <2>2. run[p].page # None
    BY <2>1 DEF Whole, PageHeld, HeldBy, Source, Paged
  <2>3. run[p].page \in Handouts
    BY <2>2 DEF Whole, RunsType, Runs
  <2> QED BY <2>1, <2>2, <2>3 DEF Handouts
<1>3. page # None
  BY <1>2, NoDelivery
<1>4. PICK c \in Checkpoints : c = checkpoint[r] /\ c # None /\ c.pending = page
                               /\ c.release = run[p].page.release
  BY <1>1 DEF CommitPage, CanCommit, Whole, DataType, TypeOKOverture
<1>5. page.start = c.offset /\ (page.complete => page.end = AllRows(c.release))
  BY <1>1, <1>3, <1>4 DEF SourcesInv, DeliveryInv
<1>6. PICK d : d = [c EXCEPT !.offset = page.end, !.complete = page.complete, !.pending = None]
  OBVIOUS
<1>7. UNCHANGED <<cursor, reviewed, manifest>> /\ checkpoint' = [checkpoint EXCEPT ![r] = d]
  <2>1. UNCHANGED <<cursor, reviewed>>
    BY DEF Commit, Quiet, fsqVars
  <2> QED BY <1>4, <1>6, <2>1 DEF CommitPage
<1>8. checkpoint'[r] = d /\ \A q \in Regions : q # r => checkpoint'[q] = checkpoint[q]
  BY <1>1, <1>7 DEF Whole, DataType, TypeOKOverture
<1>9. d.offset = page.end /\ d.complete = page.complete /\ d.pending = None /\ d.release = c.release
  BY <1>6 DEF Checkpoints
<1>10. CursorInv' /\ DeliveryInv'
  BY SMTT(40), <1>7, <1>8, <1>9 DEF CursorInv, SoundCursor, DeliveryInv, SourcesInv, Complete, AllRows
<1>11. \A row \in (c.offset + 1)..page.end : <<"overture", c.release, row>> \in reviewed[r]
  <2>1. RowsHanded(p) = {<<"overture", c.release, row>> : row \in (c.offset + 1)..page.end}
    BY <1>2, <1>4, <1>5 DEF RowsHanded
  <2>2. RowsHanded(p) \subseteq reviewed[r]
    BY <1>2 DEF SourcesInv, RowsImported
  <2> QED BY <2>1, <2>2
<1>12. ASSUME NEW row \in 1..d.offset PROVE <<"overture", d.release, row>> \in reviewed[r]
  <2>1. row \in Nat /\ page.end \in Nat /\ c.offset \in Nat /\ row <= page.end /\ 1 <= row
    BY <1>2, <1>9 DEF DeliveryPages, Checkpoints
  <2>2. CASE row <= c.offset
    <3>1. row \in 1..c.offset
      BY <2>1, <2>2
    <3> QED BY <1>1, <1>4, <1>9, <3>1 DEF SourcesInv, NothingSkipped
  <2>3. CASE ~ (row <= c.offset)
    <3>1. row \in (c.offset + 1)..page.end
      BY <2>1, <2>3
    <3> QED BY <1>9, <1>11, <3>1
  <2> QED BY <2>2, <2>3
<1>13. NothingSkipped'
  <2>1. d.complete => d.offset = AllRows(d.release)
    BY <1>5, <1>9
  <2> QED BY <1>7, <1>8, <1>12, <2>1 DEF NothingSkipped, SourcesInv, AllRows
<1> QED BY <1>10, <1>13

\* The import of what a process holds.
LEMMA ImportGrows ==
  ASSUME SourcesInv, NEW p \in Procs, run[p].region \in Regions, Imported(p)
  PROVE  /\ DOMAIN reviewed' = Regions
         /\ \A r \in Regions : reviewed[r] \subseteq reviewed'[r]
         /\ RowsHanded(p) \subseteq reviewed'[run[p].region]
BY DEF Imported, SourcesInv

LEMMA SourcesStep ==
  ASSUME Whole, SourcesInv, [NextSources]_sourceVars
  PROVE  SourcesInv'
<1>0. Whole' /\ plan' = plan /\ DOMAIN reviewed = Regions
  BY WholeStep DEF SourcesInv
<1>1. CASE Aside
  <2>1. run' = run /\ reviewed' = reviewed
    BY <1>1, AsideStep DEF Whole
  <2>2. manifest' = manifest /\ checkpoint' = checkpoint
    BY <1>1 DEF Aside, TimePasses, FsqMoves, OvertureMoves, OsmMoves, DataStays, overtureVars, sourceVars,
                PublishCatalog
  <2>3. CASE cursor' = cursor
    <3>1. CursorInv' /\ DeliveryInv' /\ NothingSkipped'
      BY <2>1, <2>2, <2>3, NothingMoves
    <3>2. \A p \in Procs : Pinning(p)' /\ RowsImported(p)'
      BY <1>0, <2>1, <2>3, BystanderStays DEF SourcesInv
    <3> QED BY <1>0, <2>1, <3>1, <3>2 DEF SourcesInv
  <2>4. CASE cursor' # cursor
    <3>1. PICK r \in Regions : RefreshDue(r) /\ AllIdle
      BY <1>1, <2>4 DEF Aside, TimePasses, FsqMoves, OvertureMoves, OsmMoves, DataStays, fsqVars,
                        sourceVars, PublishRelease
    <3>2. PICK c \in Cursors : c = cursor[r]
      BY <3>1 DEF RefreshDue, Whole, DataType, TypeOKFsq
    <3>3. PICK d : d = [c EXCEPT !.waiting = FALSE]
      OBVIOUS
    <3>4. cursor' = [cursor EXCEPT ![r] = d]
      BY <3>1, <3>2, <3>3 DEF RefreshDue
    <3>5. cursor'[r] = d /\ \A q \in Regions : q # r => cursor'[q] = cursor[q]
      BY <3>4 DEF Whole, DataType, TypeOKFsq
    <3>6. /\ d.complete = c.complete /\ d.position = c.position /\ d.pending = c.pending
          /\ d.release = c.release /\ ~d.waiting
      BY <3>3 DEF Cursors
    <3>7. \A p \in Procs : Pinning(p)' /\ RowsImported(p)'
      BY <2>1, <3>1 DEF AllIdle, Pinning, RowsImported
    <3>8. CursorInv'
      BY <3>2, <3>5, <3>6, NoCursor DEF CursorInv, SoundCursor, SourcesInv
    <3>9. DeliveryInv'
      BY <2>2 DEF DeliveryInv, SourcesInv
    <3>10. NothingSkipped'
      BY <2>1, <2>2, <3>2, <3>5, <3>6, NoCursor DEF NothingSkipped, SourcesInv
    <3> QED BY <1>0, <2>1, <3>7, <3>8, <3>9, <3>10 DEF SourcesInv
  <2> QED BY <2>3, <2>4
<1>2. ASSUME NEW p \in Procs, OwnStep(p) PROVE SourcesInv'
  <2>1. PICK x \in Runs : Becomes(p, x)
    BY <1>2, OwnSteps DEF Whole
  <2>2. run'[p] = x /\ \A q \in Procs : q # p => run'[q] = run[q]
    BY <2>1 DEF Becomes, Whole, RunsType
  <2>3. \A q \in Procs : run[q].region \in Regions
    BY DEF Whole, RunsType, Runs
  <2>4. /\ DOMAIN reviewed' = Regions
        /\ \A r \in Regions : reviewed[r] \subseteq reviewed'[r]
    <3>1. reviewed' = reviewed \/ Imported(p)
      BY <1>2 DEF OwnStep, ProcStep, Start, MakeLock, OwnLock, StealLock, ReleaseLock, NextSource,
         StartOsm, EndOsm, AcquireNational, Review, RecordFailure, Finish, StageFails, FinishFails,
         Crash, AcquireFsq, AcquireOverture, PrepareOverture, RequestTile, Commit, Quiet
    <3> QED BY <1>0, <2>3, <3>1, ImportGrows
  <2>5. \A q \in Procs : q # p => RowsImported(q)'
    BY <1>0, <2>2, <2>3, <2>4, BystanderStays DEF SourcesInv
  <2>6. ASSUME x.pc # "commit" PROVE \A q \in Procs : RowsImported(q)'
    BY <2>2, <2>5, <2>6 DEF RowsImported
  <2>7. CASE AcquireFsq(p)
    <3>1. CursorInv' /\ NothingSkipped' /\ \A q \in Procs : Pinning(q)'
      BY <1>0, <2>7, ScanStep
    <3>2. x.pc # "commit"
      <4>1. PICK page : Handed(p, page)
        BY <2>7 DEF AcquireFsq
      <4>2. run'[p].pc = "review"
        BY <4>1 DEF Handed, Whole, RunsType, Runs
      <4> QED BY <2>2, <4>2
    <3>3. DeliveryInv'
      BY <2>7 DEF AcquireFsq, overtureVars, DeliveryInv, SourcesInv
    <3> QED BY <2>4, <2>6, <3>1, <3>2, <3>3 DEF SourcesInv
  <2>8. CASE AcquireOverture(p) \/ PrepareOverture(p)
    <3>1. CursorInv' /\ DeliveryInv' /\ NothingSkipped' /\ cursor' = cursor
      BY <2>8, DeliveredStep DEF AcquireOverture, PrepareOverture, fsqVars
    <3>2. x.pc # "commit" /\ x.at = run[p].at
      <4>1. (\E page : Handed(p, page)) \/ \E pc \in {"failed", "prepare"} : Step(p, pc)
        BY <2>8 DEF AcquireOverture, PrepareOverture
      <4>2. run'[p].pc \in {"review", "failed", "prepare"} /\ run'[p].at = run[p].at
        <5>1. ASSUME NEW page, Handed(p, page)
              PROVE  run'[p].pc = "review" /\ run'[p].at = run[p].at
          BY <5>1 DEF Handed, Whole, RunsType, Runs
        <5>2. ASSUME NEW pc \in {"failed", "prepare"}, Step(p, pc)
              PROVE  run'[p].pc = pc /\ run'[p].at = run[p].at
          <6>1. run' = [run EXCEPT ![p] = [run[p] EXCEPT !.pc = pc]]
            BY <5>2 DEF Step
          <6> QED BY <6>1 DEF Whole, RunsType, Runs
        <5> QED BY <4>1, <5>1, <5>2
      <4> QED BY <2>2, <4>2
    <3>3. Source(p)' = "overture"
      BY <1>0, <2>2, <2>8, <3>2 DEF Source, AcquireOverture, PrepareOverture, AtStep
    <3>4. Pinning(p)'
      BY <3>3 DEF Pinning
    <3>5. \A q \in Procs : q # p => Pinning(q)'
      BY <1>0, <2>2, <3>1, BystanderStays DEF SourcesInv
    <3> QED BY <2>4, <2>6, <3>1, <3>2, <3>4, <3>5 DEF SourcesInv
  <2>9. CASE Commit(p) /\ ~ UNCHANGED <<cursor, manifest, checkpoint>>
    <3>1. /\ run[p].apply /\ UnitDone(p)
          /\ \/ /\ Source(p) = "fsq" /\ UNCHANGED overtureVars
                /\ AcknowledgePage(run[p].region, run[p].page.page)
             \/ /\ Source(p) = "overture" /\ UNCHANGED fsqVars
                /\ CommitPage(run[p].region, run[p].page.release, run[p].page.page)
      BY <2>9 DEF Commit, fsqVars, overtureVars
    <3>2. x.pc \in {"acquire", "next"}
      <4>1. run[p].at \in 1..Len(plan.sources) /\ run[p].units < MaxUnits
        BY <2>9 DEF Commit, Whole, PageHeld, HeldBy, Handling, Holding
      <4>2. PICK z \in Runs : Becomes(p, z) /\ z.pc \in {"acquire", "next"}
        BY <3>1, <4>1, Advanced DEF Whole
      <4>3. z = run'[p]
        BY <4>2 DEF Becomes, Whole, RunsType
      <4> QED BY <2>2, <4>2, <4>3
    <3>3. reviewed' = reviewed
      BY <2>9 DEF Commit, Quiet
    <3>4. CASE Source(p) = "fsq"
      <4>1. CursorInv' /\ NothingSkipped' /\ \A q \in Procs : Pinning(q)'
        BY <1>0, <2>9, <3>1, <3>3, <3>4, AcknowledgeStep
      <4>2. DeliveryInv'
        BY <3>1, <3>4 DEF overtureVars, DeliveryInv, SourcesInv
      <4> QED BY <2>4, <2>6, <3>2, <4>1, <4>2 DEF SourcesInv
    <3>5. CASE Source(p) = "overture"
      <4>1. CursorInv' /\ DeliveryInv' /\ NothingSkipped' /\ cursor' = cursor
        BY <2>9, <3>1, <3>5, DeliveryCommitted DEF fsqVars
      <4>2. Pinning(p)'
        BY <2>2, <3>2 DEF Pinning
      <4>3. \A q \in Procs : q # p => Pinning(q)'
        BY <1>0, <2>2, <4>1, BystanderStays DEF SourcesInv
      <4> QED BY <2>4, <2>6, <3>2, <4>1, <4>2, <4>3 DEF SourcesInv
    <3> QED BY <3>1, <3>4, <3>5
  <2>10. CASE UNCHANGED <<cursor, manifest, checkpoint>> /\ ~AcquireFsq(p) /\ ~PrepareOverture(p)
    <3>1. CursorInv' /\ DeliveryInv' /\ NothingSkipped'
      BY <2>4, <2>10, NothingMoves
    <3>2. \A q \in Procs : q # p => Pinning(q)'
      BY <1>0, <2>2, <2>10, BystanderStays DEF SourcesInv
    <3>3. CASE Review(p)
      <4>1. run'[p] = [run[p] EXCEPT !.pc = "commit"] /\ run[p].pc = "review"
        BY <3>3 DEF Review, Step, Whole, RunsType
      <4>2. /\ run'[p].page = run[p].page /\ run'[p].apply = run[p].apply /\ run'[p].at = run[p].at
            /\ run'[p].region = run[p].region
        BY <4>1 DEF Whole, RunsType, Runs
      <4>3. Source(p)' = Source(p)
        BY <1>0, <4>2 DEF Source
      <4>4. Pinning(p)'
        BY ZenonT(60), <2>10, <4>1, <4>2, <4>3 DEF Pinning, SourcesInv
      <4>5. RowsHanded(p)' = RowsHanded(p)
        BY <4>2, <4>3 DEF RowsHanded
      <4>6. RowsImported(p)'
        BY <2>3, <3>3, <4>2, <4>5, ImportGrows DEF Review, RowsImported
      <4> QED BY <2>4, <2>5, <3>1, <3>2, <4>4, <4>6 DEF SourcesInv
    <3>4. CASE ~Review(p)
      <4>1. x.pc # "commit" /\ (x.pc = "review" => Source(p)' # "fsq")
        <5>1. ASSUME NEW pc, Step(p, pc)
              PROVE  x.pc = IF pc = "off" THEN "off" ELSE pc
          <6>1. run'[p] = IF pc = "off" THEN Idle ELSE [run[p] EXCEPT !.pc = pc]
            BY <5>1 DEF Step, Whole, RunsType
          <6> QED BY <2>2, <6>1 DEF Idle, Whole, RunsType, Runs
        <5>2. CASE EndOsm(p) \/ AcquireNational(p)
          <6>1. PICK pc \in {"failed", "review"} : Step(p, pc)
            BY <5>2 DEF EndOsm, AcquireNational
          <6>2. run' = [run EXCEPT ![p] = [run[p] EXCEPT !.pc = pc]]
            BY <6>1 DEF Step
          <6>3. x.pc = pc /\ x.at = run[p].at
            BY <2>2, <6>2 DEF Whole, RunsType, Runs
          <6>4. Source(p)' = Source(p)
            BY <1>0, <2>2, <6>3 DEF Source
          <6> QED BY <5>2, <6>3, <6>4 DEF EndOsm, AcquireNational, AtStep
        <5>3. CASE NextSource(p)
          <6>1. ASSUME run' = [run EXCEPT ![p].at = @ + 1] PROVE x.pc \notin {"review", "commit"}
            BY <2>2, <5>3, <6>1 DEF NextSource, Whole, RunsType, Runs
          <6>2. ASSUME NEW entry, NEW region,
                       run' = [run EXCEPT ![p] = [@ EXCEPT
                          !.pc = "acquire", !.offset = 0, !.mem[Source(p)] = entry,
                          !.region = region]]
                PROVE  x.pc \notin {"review", "commit"}
            BY <2>2, <6>2 DEF Whole, RunsType, Runs
          <6>3. ASSUME Closing(p) PROVE x.pc \notin {"review", "commit"}
            <7>1. x.pc = "release"
              BY <6>3, <2>2, Idles DEF Closing, Whole, RunsType, Runs
            <7> QED BY <7>1
          <6>4. ASSUME Step(p, "finish") PROVE x.pc \notin {"review", "commit"}
            BY <5>1, <6>4
          <6>5. x.pc \notin {"review", "commit"}
            BY <5>3, <6>1, <6>2, <6>3, <6>4 DEF NextSource
          <6> QED BY <6>5
        <5>4. CASE Commit(p)
          <6>1. run[p].at \in 1..Len(plan.sources) /\ run[p].units < MaxUnits
            BY <5>4 DEF Commit, Whole, PageHeld, HeldBy, Handling, Holding
          <6>2. ASSUME UnitDone(p) PROVE x.pc \in {"acquire", "next"}
            <7>1. PICK z \in Runs : Becomes(p, z) /\ z.pc \in {"acquire", "next"}
              BY <6>1, <6>2, Advanced DEF Whole
            <7>2. z = run'[p]
              BY <7>1 DEF Becomes, Whole, RunsType
            <7> QED BY <2>2, <7>1, <7>2
          <6> QED BY <5>1, <5>4, <6>2 DEF Commit
        <5>5. CASE RecordFailure(p)
          <6>1. run[p].at \in 1..Len(plan.sources)
            BY <5>5 DEF RecordFailure, Whole, PageHeld, HeldBy, Handling, Holding
          <6>2. PICK z \in Runs : Becomes(p, z) /\ z.pc = "next"
            BY <5>5, <6>1, Failed DEF Whole
          <6>3. z = run'[p]
            BY <6>2 DEF Becomes, Whole, RunsType
          <6> QED BY <2>2, <6>2, <6>3
        <5>6. CASE Finish(p) \/ FinishFails(p)
          <6>1. Closing(p)
            BY <5>6 DEF Finish, FinishFails
          <6>2. x.pc = "release"
            BY <6>1, <2>2, Idles DEF Closing, Whole, RunsType, Runs
          <6> QED BY <6>2
        <5>7. CASE \E apply \in BOOLEAN : Start(p, apply)
          <6>1. PICK apply \in BOOLEAN : Start(p, apply)
            BY <5>7
          <6>2. x = [Idle EXCEPT !.pc = "lock", !.apply = apply, !.mem = stateFile]
            BY <2>2, <6>1 DEF Start, Whole, RunsType
          <6>3. x.pc = "lock"
            BY <6>2, Idles DEF Runs
          <6> QED BY <6>3
        <5>8. CASE StartOsm(p) \/ RequestTile(p)
          <6>1. x.pc = "tiles"
            BY <5>8, <2>2 DEF StartOsm, RequestTile, AtStep, Whole, RunsType, Runs
          <6> QED BY <6>1
        <5>9. CASE MakeLock(p) \/ OwnLock(p) \/ StealLock(p) \/ ReleaseLock(p) \/ StageFails(p)
          BY <5>1, <5>9 DEF MakeLock, OwnLock, StealLock, ReleaseLock, StageFails
        <5>10. CASE Crash(p)
          <6>1. x = Idle
            BY <2>2, <5>10 DEF Crash, Whole, RunsType
          <6> QED BY <6>1 DEF Idle
        <5>11. CASE AcquireOverture(p)
          BY <5>1, <5>11 DEF AcquireOverture
        <5> QED BY <1>2, <2>10, <3>4, <5>2, <5>3, <5>4, <5>5, <5>6, <5>7, <5>8, <5>9, <5>10, <5>11
                DEF OwnStep, ProcStep
      <4>2. Pinning(p)'
        BY <2>2, <4>1 DEF Pinning
      <4> QED BY <2>4, <2>6, <3>1, <3>2, <4>1, <4>2 DEF SourcesInv
    <3> QED BY <3>3, <3>4
  <2>11. \/ AcquireFsq(p) \/ AcquireOverture(p) \/ PrepareOverture(p) \/ Commit(p)
         \/ UNCHANGED <<cursor, manifest, checkpoint>>
    BY <1>2 DEF OwnStep, ProcStep, Start, MakeLock, OwnLock, StealLock, ReleaseLock, NextSource,
         StartOsm, EndOsm, AcquireNational, Review, RecordFailure, Finish, StageFails, FinishFails,
         Crash, RequestTile, DataStays, fsqVars, overtureVars
  <2> QED BY <2>7, <2>8, <2>9, <2>10, <2>11
<1> QED BY <1>1, <1>2, Steps

\* Nothing is skipped: what a Foursquare cursor or an Overture checkpoint has passed was
\* imported for review, whatever processes overlap, crash, fail or take over the lock.
THEOREM NothingIsSkipped == SpecSources => []NothingSkipped
<1>1. InitSources => SourcesInv
  BY DEF InitSources, FsqInit, OvertureInit, SourcesInv, Pinning, RowsImported, Idle, CursorInv, SoundCursor,
         DeliveryInv, NothingSkipped
<1>2. Whole /\ SourcesInv /\ [NextSources]_sourceVars => SourcesInv'
  BY SourcesStep
<1>3. SourcesInv => NothingSkipped
  BY DEF SourcesInv
<1> QED BY <1>1, <1>2, <1>3, AlwaysWhole, PTL DEF SpecSources
=============================================================================
