------------------------------ MODULE OsmTiles ------------------------------
(***************************************************************************)
(* The tile manifest of the OpenStreetMap exporter                         *)
(* (scripts/ops/export-osm-tiles.mjs).  A tile whose request times out is  *)
(* split once into pieces that are requested one by one.                   *)
(***************************************************************************)
EXTENDS SourceRegions, FiniteSets

CONSTANTS
  CellsOf,      \* the tiles of a region
  Pieces,       \* the subtiles of a tile that is split
  RetryFailed   \* --retry-failed: the cooldown of a failed tile is ignored

VARIABLES
  tile     \* an entry of a region's manifest, None before the first attempt

Outcomes == {"success", "partial", "failed"}
TileEntries ==
  [status : Outcomes, fresh : BOOLEAN, cooling : BOOLEAN,
   pieces : [Pieces -> Outcomes] \cup {None}, rows : SUBSET Pieces]

ASSUME OsmAssumption ==
  /\ DOMAIN CellsOf = Regions /\ \A r \in Regions : IsFiniteSet(CellsOf[r])
  /\ None \notin TileEntries /\ None \notin [Pieces -> Outcomes]

Retryable(entry) == entry # None /\ entry.status \in {"failed", "partial"}
Fresh(entry) == entry # None /\ entry.status = "success" /\ entry.fresh
Deferred(entry) == ~RetryFailed /\ Retryable(entry) /\ entry.cooling
Wanted(r, t) == ~Fresh(tile[r][t]) /\ ~Deferred(tile[r][t])

RetryPriority(entry) ==
  IF ~Retryable(entry) THEN 1
  ELSE IF RetryFailed \/ ~entry.cooling THEN 0
  ELSE 2

(* The tiles the sorted loop may take next. *)
NextTiles(r, tried) ==
  {t \in CellsOf[r] \ tried : Wanted(r, t) /\
     \A u \in CellsOf[r] \ tried : Wanted(r, u) => RetryPriority(tile[r][t]) <= RetryPriority(tile[r][u])}

\* Mutant of SplitResults: a resumed tile starts over.
SplitResultsAnew(before, resumed) == [Pieces -> IF resumed THEN Outcomes ELSE {"success", "failed"}]
(* runSubtiles(): a piece that succeeded is kept, the others are requested *)
(* again; a resumed piece may be split once more and end up partial.       *)
SplitResults(before, resumed) ==
  {after \in [Pieces -> IF resumed THEN Outcomes ELSE {"success", "failed"}] :
     \A piece \in Pieces : before[piece] = "success" => after[piece] = "success"}

CollectedBy(pieces) == {piece \in Pieces : pieces[piece] # "failed"}

SplitEntry(pieces) ==
  LET whole == \A piece \in Pieces : pieces[piece] = "success"
  IN [status |-> IF whole THEN "success" ELSE "partial", fresh |-> whole, cooling |-> ~whole,
      pieces |-> pieces, rows |-> CollectedBy(pieces)]

WholeEntry ==
  [status |-> "success", fresh |-> TRUE, cooling |-> FALSE, pieces |-> None, rows |-> Pieces]

(* The catch block of the loop. *)
FailedEntry ==
  [status |-> "failed", fresh |-> FALSE, cooling |-> TRUE, pieces |-> None, rows |-> {}]

(* runTile(): what an attempt may leave in the manifest. *)
Attempts(entry) ==
  IF entry # None /\ entry.pieces # None
  THEN {SplitEntry(after) : after \in SplitResults(entry.pieces, TRUE)}
  ELSE {WholeEntry, FailedEntry} \cup
       {SplitEntry(after) : after \in SplitResults([piece \in Pieces |-> "failed"], FALSE)}

(* One turn of the loop ends with a manifest write. *)
AttemptTile(r, t) ==
  \E entry \in Attempts(tile[r][t]) : tile' = [tile EXCEPT ![r][t] = entry]

(* The exit code: nothing but failures. *)
ExporterFails(r) ==
  /\ \E t \in CellsOf[r] : tile[r][t] # None /\ tile[r][t].status = "failed"
  /\ \A t \in CellsOf[r] : tile[r][t] # None => tile[r][t].status # "success"

(* refreshQueueTiles of summarizeOsmManifest(): unprocessed, retryable and *)
(* stale tiles; a region without a manifest has none.                      *)
OsmBacklog(r) ==
  IF \A t \in CellsOf[r] : tile[r][t] = None THEN 0
  ELSE Cardinality({t \in CellsOf[r] : ~Fresh(tile[r][t])})

(* refresh_after_hours or the retry cooldown of a tile pass. *)
TileAges(r, t) ==
  /\ tile[r][t] # None /\ (tile[r][t].fresh \/ tile[r][t].cooling)
  /\ tile' = [tile EXCEPT ![r][t] = [@ EXCEPT !.fresh = FALSE, !.cooling = FALSE]]

OsmInit == tile = [r \in Regions |-> [t \in CellsOf[r] |-> None]]

TypeOKOsm ==
  /\ DOMAIN tile = Regions
  /\ \A r \in Regions : tile[r] \in [CellsOf[r] -> TileEntries \cup {None}]
=============================================================================
