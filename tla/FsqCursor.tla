----------------------------- MODULE FsqCursor -----------------------------
(***************************************************************************)
(* The durable Foursquare cursor of each region                            *)
(* (scripts/ops/export-fsq-hf-parquet-sample.py).  The rows of the pinned  *)
(* Parquet files of a release are numbered 1..Total in file order, and     *)
(* (file_index, row_offset) is the number of rows before the position.     *)
(***************************************************************************)
EXTENDS SourceRegions, FiniteSets

CONSTANTS
  Total,       \* rows of a release
  FileEnds,    \* positions at which a file ends
  Matching,    \* rows that matches() keeps
  Limit,       \* --limit
  MaxScan,     \* --max-scan-rows
  MaxFiles,    \* --max-files
  MaxRelease   \* bound: releases published on the Hub

ASSUME FsqAssumption ==
  /\ Total \in Nat \ {0}
  /\ FileEnds \subseteq 1..Total /\ Total \in FileEnds
  /\ Matching \subseteq 1..Total
  /\ {Limit, MaxScan, MaxFiles} \subseteq Nat \ {0}
  /\ MaxRelease \in Nat \ {0}

VARIABLES
  cursor,  \* the cursor file of a region, None before its first page
  hub      \* the release the dataset server answers with

fsqVars == <<cursor, hub>>

Pages == [start : 0..Total, end : 0..Total, complete : BOOLEAN]
Cursors == [release : 1..MaxRelease, position : 0..Total, complete : BOOLEAN,
            waiting : BOOLEAN, pending : Pages \cup {None}]

ASSUME NoCursor == None \notin Pages /\ None \notin Cursors

RowsOf(page) == {row \in Matching : page.start < row /\ row <= page.end}

Exhausted(start, end) ==
  \/ end = Total
  \/ end - start >= MaxScan
  \/ Cardinality({row \in Matching : start < row /\ row <= end}) >= Limit
  \/ Cardinality({last \in FileEnds : start < last /\ last <= end}) >= MaxFiles

(* scan_page(): the page ends at the first row that exhausts a budget. *)
ScanPages(start) ==
  {[start |-> start, end |-> end, complete |-> end = Total] :
     end \in {e \in (start + 1)..Total :
                Exhausted(start, e) /\ \A d \in (start + 1)..(e - 1) : ~Exhausted(start, d)}}

DeferredPage(position) == [start |-> position, end |-> position, complete |-> TRUE]

\* Mutant of Pinned: a newer release replaces an unfinished scan.
PinnedToLatest(r) ==
  IF cursor[r] = None \/ cursor[r].release # hub
  THEN [release |-> hub, position |-> 0, complete |-> FALSE, waiting |-> FALSE, pending |-> None]
  ELSE cursor[r]

(* export_page(): a missing or finished cycle starts over on the release   *)
(* the Hub has now; every other cycle stays on the files it pinned.        *)
Pinned(r) ==
  IF cursor[r] = None \/ (cursor[r].complete /\ cursor[r].pending = None /\ ~cursor[r].waiting)
  THEN [release |-> hub, position |-> 0, complete |-> FALSE, waiting |-> FALSE, pending |-> None]
  ELSE cursor[r]

PagesOf(state) ==
  IF state.pending # None THEN {state.pending}
  ELSE IF state.waiting THEN {DeferredPage(state.position)}
  ELSE ScanPages(state.position)

(* The page an apply run hands out is committed before it is written out. *)
ExportPage(r, page) ==
  /\ page \in PagesOf(Pinned(r))
  /\ cursor' = [cursor EXCEPT ![r] = [Pinned(r) EXCEPT !.pending = page]]
  /\ UNCHANGED hub

(* --preview leaves the cursor alone. *)
PreviewPage(r, page) ==
  /\ page \in PagesOf(Pinned(r))
  /\ UNCHANGED fsqVars

CanAcknowledge(r, page) == cursor[r] # None /\ cursor[r].pending = page

AcknowledgePage(r, page) ==
  /\ CanAcknowledge(r, page)
  /\ cursor' = [cursor EXCEPT ![r] =
       [@ EXCEPT !.position = IF page.complete THEN 0 ELSE page.end,
                 !.complete = page.complete,
                 !.waiting = cursor[r].waiting \/ (page.complete /\ ~cursor[r].complete),
                 !.pending = None]]
  /\ UNCHANGED hub

(* --refresh-hours have passed since completed_at. *)
RefreshDue(r) ==
  /\ cursor[r] # None /\ cursor[r].waiting
  /\ cursor' = [cursor EXCEPT ![r].waiting = FALSE]
  /\ UNCHANGED hub

PublishRelease ==
  /\ hub < MaxRelease
  /\ hub' = hub + 1
  /\ UNCHANGED cursor

(* The scheduler's view of a cursor (sourceCadence()). *)
FsqBacklog(r) == cursor[r] = None \/ ~cursor[r].complete \/ cursor[r].pending # None

FsqInit ==
  /\ cursor = [r \in Regions |-> None]
  /\ hub = 1

TypeOKFsq ==
  /\ cursor \in [Regions -> Cursors \cup {None}]
  /\ hub \in 1..MaxRelease
=============================================================================
