-------------------------- MODULE OvertureDelivery --------------------------
(***************************************************************************)
(* The Overture manifest of each region (ops/export-overture-tiles.py) and *)
(* the checkpoint that delivers its rows page by page                      *)
(* (lib/overture-delivery.mjs).  The rows of a release are numbered in     *)
(* manifest order; one tile page is acquired per work unit (tiles_per_run  *)
(* is 1), so every tile before the one in progress is final.               *)
(***************************************************************************)
EXTENDS SourceRegions

CONSTANTS
  Tiles,         \* number of tiles of a region
  TileEnd,       \* rows of a release up to the end of a tile
  PageLimit,     \* candidate_rows_per_source, of a tile page and of a delivery page
  MaxCatalog     \* bound: releases in the catalog

ASSUME OvertureAssumption ==
  /\ Tiles \in Nat \ {0}
  /\ PageLimit \in Nat \ {0}
  /\ MaxCatalog \in Nat \ {0}
  /\ TileEnd \in [1..MaxCatalog -> [0..Tiles -> Nat]]
  /\ \A release \in 1..MaxCatalog :
       /\ TileEnd[release][0] = 0
       /\ \A t \in 1..Tiles : TileEnd[release][t - 1] <= TileEnd[release][t]

VARIABLES
  manifest,    \* the manifest of a region: its release, the tiles done, the rows taken
  checkpoint,  \* the delivery checkpoint of a region
  catalog      \* the release the STAC catalog calls latest

overtureVars == <<manifest, checkpoint, catalog>>

AllRows(release) == TileEnd[release][Tiles]
Smaller(a, b) == IF a < b THEN a ELSE b

Manifests == [release : 1..MaxCatalog, tiles : 0..Tiles, rows : Nat]
DeliveryPages == [start : Nat, end : Nat, complete : BOOLEAN]
Checkpoints == [release : 1..MaxCatalog, offset : Nat, complete : BOOLEAN,
                pending : DeliveryPages \cup {None}]

ASSUME NoDelivery ==
  None \notin Manifests /\ None \notin DeliveryPages /\ None \notin Checkpoints

Complete(m) == m.tiles = Tiles

(* select_manifest(): an unfinished manifest stays on its release, a       *)
(* finished one is archived when the catalog has a newer release.          *)
SelectManifest(r) ==
  IF manifest[r] = None \/ (Complete(manifest[r]) /\ manifest[r].release # catalog)
  THEN [release |-> catalog, tiles |-> 0, rows |-> 0]
  ELSE manifest[r]

(* tile_page(): the next page of the first unfinished tile. *)
WithTilePage(m) ==
  IF Complete(m) THEN m
  ELSE LET end == TileEnd[m.release][m.tiles + 1]
           rows == Smaller(m.rows + PageLimit, end)
       IN [m EXCEPT !.rows = rows, !.tiles = IF rows = end THEN @ + 1 ELSE @]

FreshCheckpoint(release) ==
  [release |-> release, offset |-> 0, complete |-> FALSE, pending |-> None]

(* stateFor() *)
Undelivered(m, c) == c # None /\ c.release # m.release /\ (c.pending # None \/ ~c.complete)
\* Mutant of StateFor: the offset of the last release is kept.
StateForKeepsOffset(m, c) ==
  IF c = None THEN FreshCheckpoint(m.release) ELSE [c EXCEPT !.release = m.release, !.complete = FALSE]
StateFor(m, c) ==
  IF c = None \/ c.release # m.release THEN FreshCheckpoint(m.release) ELSE c

NeedsAcquisition(r) ==
  IF manifest[r] = None THEN TRUE
  ELSE LET state == StateFor(manifest[r], checkpoint[r])
       IN state.pending = None /\ manifest[r].rows = state.offset

OvertureRefuses(r) == manifest[r] # None /\ Undelivered(manifest[r], checkpoint[r])

(* prepareOvertureDelivery() up to the exporter's last manifest write. *)
AcquireTilePage(r) ==
  /\ ~OvertureRefuses(r) /\ NeedsAcquisition(r)
  /\ manifest' = [manifest EXCEPT ![r] = WithTilePage(SelectManifest(r))]
  /\ UNCHANGED <<checkpoint, catalog>>

NextDelivery(state, m) ==
  LET end == Smaller(state.offset + PageLimit, m.rows)
  IN [start |-> state.offset, end |-> end, complete |-> Complete(m) /\ end = m.rows]

(* The rest of it: the page is made pending before it is handed out. *)
PreparePage(r) ==
  /\ manifest[r] # None /\ ~OvertureRefuses(r)
  /\ LET state == StateFor(manifest[r], checkpoint[r])
     IN checkpoint' = [checkpoint EXCEPT ![r] =
          IF state.pending # None THEN state
          ELSE [state EXCEPT !.pending = NextDelivery(state, manifest[r])]]
  /\ UNCHANGED <<manifest, catalog>>

CanCommit(r, release, page) ==
  checkpoint[r] # None /\ checkpoint[r].release = release /\ checkpoint[r].pending = page

CommitPage(r, release, page) ==
  /\ CanCommit(r, release, page)
  /\ checkpoint' = [checkpoint EXCEPT ![r] =
       [@ EXCEPT !.offset = page.end, !.complete = page.complete, !.pending = None]]
  /\ UNCHANGED <<manifest, catalog>>

(* overtureHasBacklog(), where it does not throw. *)
OvertureBacklog(r) ==
  IF manifest[r] = None \/ ~Complete(manifest[r]) THEN TRUE
  ELSE LET state == StateFor(manifest[r], checkpoint[r])
       IN state.pending # None \/ state.offset < manifest[r].rows

PublishCatalog ==
  /\ catalog < MaxCatalog
  /\ catalog' = catalog + 1
  /\ UNCHANGED <<manifest, checkpoint>>

OvertureInit ==
  /\ manifest = [r \in Regions |-> None]
  /\ checkpoint = [r \in Regions |-> None]
  /\ catalog = 1

TypeOKOverture ==
  /\ manifest \in [Regions -> Manifests \cup {None}]
  /\ checkpoint \in [Regions -> Checkpoints \cup {None}]
  /\ catalog \in 1..MaxCatalog
=============================================================================
