--------------------------- MODULE ApizzaMatching ---------------------------
(***************************************************************************)
(* How A Pizza Michigan matches source candidates with the canonical rows  *)
(* of a snapshot (profiles/apizzamichigan/src/matching-v1.ts): a prefetch  *)
(* of the rows in boxes around the candidates, a grid to find the nearby   *)
(* ones, the best of the nearest few, and a decision that its validator    *)
(* has to admit.                                                           *)
(*                                                                         *)
(* A position is a pair of numbers, latitude and longitude in some unit;   *)
(* the haversine is a table, a score a percentage, and the longitude       *)
(* padding a table of the latitude at the centre of a box (twice that).    *)
(***************************************************************************)
EXTENDS Integers, FiniteSets

CONSTANTS
  NoValue,
  Name, ScoreOf,     \* apizzaNameScore()
  Tile, Cell,        \* prefetchTileDegrees and gridCellDegrees in units
  CellRadius,        \* in cells, from the maximal distance
  LatPad, LngPad,    \* what the maximal distance comes to in units, rounded down
  Metres,            \* apizzaHaversineMeters()
  NearbyLimit        \* rows that compete to be the best match (10)

VARIABLE input       \* the candidates and the canonical rows of one match

\* A row next to a candidate, evaluated.
Methods == {"exact_identifier_nearby", "exact_name_nearby", "strong_spatial_name",
            "weak_spatial_name", "spatial_only_review", "no_match"}
Evaluation == [id : Int, distance : Nat, score : 0..100, same : BOOLEAN, method : Methods]

\* normalizeConfig() and its defaults: a tile is a degree, and 100 m never come to 0.1
\* degrees, for the cosine is taken as at least 0.01.
ASSUME MatcherAssumption ==
  /\ Tile \in Nat \ {0} /\ Cell \in Nat \ {0} /\ NearbyLimit \in Nat \ {0}
  /\ LatPad \in Nat /\ LatPad < Tile
  /\ \A c \in DOMAIN LngPad : LngPad[c] \in Nat /\ LngPad[c] < Tile
  /\ ScoreOf \in [Name \X Name -> 0..100]
  /\ \A far \in DOMAIN Metres : Metres[far] \in Nat
  /\ NoValue \notin Evaluation

Lowest(S) == CHOOSE x \in S : \A y \in S : x <= y
Highest(S) == CHOOSE x \in S : \A y \in S : x >= y

-----------------------------------------------------------------------------
(* Candidates. *)

(* classifyApizzaCandidateRouteV1() *)
Route(c) ==
  IF c.name = NoValue \/ c.pos = NoValue THEN "excluded_unusable"
  ELSE IF ~c.inScope THEN "excluded_out_of_scope"
  ELSE IF ~c.pizza THEN "filtered_non_pizza"
  ELSE IF c.closed THEN "closed_evidence_candidate" ELSE "ready_for_match"

MatchableRoutes == {"ready_for_match", "closed_evidence_candidate"}
Matchable(candidates) == {c \in candidates : Route(c) \in MatchableRoutes}

\* What the projection and the snapshot parse to: positions that are numbers, and rows with
\* ids of their own.
TypedInput(i) ==
  /\ IsFiniteSet(i.candidates) /\ IsFiniteSet(i.rows)
  /\ \A c \in Matchable(i.candidates) :
       c.pos \in Int \X Int /\ c.name \in Name /\ c.closed \in BOOLEAN
  /\ \A c, d \in Matchable(i.candidates) : c.pos[1] + d.pos[1] \in DOMAIN LngPad
  /\ \A r \in i.rows : r.pos \in Int \X Int /\ r.name \in Name /\ r.id \in Int
  /\ \A r, s \in i.rows : r.id = s.id => r = s
  /\ \A c \in Matchable(i.candidates), r \in i.rows : <<c.pos, r.pos>> \in DOMAIN Metres

-----------------------------------------------------------------------------
(* The prefetch. *)

TileOf(pos) == <<pos[1] \div Tile, pos[2] \div Tile>>

(* The box around the candidates of one tile. *)
Box(tile, positions) ==
  LET lats == {p[1] : p \in positions}
      lngs == {p[2] : p \in positions}
      pad == LngPad[Lowest(lats) + Highest(lats)]
  IN [tile |-> tile,
      minLat |-> Lowest(lats) - LatPad, maxLat |-> Highest(lats) + LatPad,
      minLng |-> Lowest(lngs) - pad, maxLng |-> Highest(lngs) + pad]

Boxes(candidates) ==
  LET positions == {c.pos : c \in Matchable(candidates)}
  IN {Box(t, {p \in positions : TileOf(p) = t}) : t \in {TileOf(p) : p \in positions}}

Inside(pos, box) == /\ box.minLat <= pos[1] /\ pos[1] <= box.maxLat
                    /\ box.minLng <= pos[2] /\ pos[2] <= box.maxLng

\* Mutant of Prefetched: only the box of a row's own tile is looked at.
PrefetchedInTile(rows, boxes) ==
  {r \in rows : \E b \in boxes : b.tile = TileOf(r.pos) /\ Inside(r.pos, b)}

(* Only boxes of a row's tile and its neighbours are looked at. *)
Prefetched(rows, boxes) ==
  {r \in rows : \E b \in boxes :
     /\ b.tile[1] - TileOf(r.pos)[1] \in -1..1 /\ b.tile[2] - TileOf(r.pos)[2] \in -1..1
     /\ Inside(r.pos, b)}

(* The join of the legacy query. *)
BoxScan(rows, boxes) == {r \in rows : \E b \in boxes : Inside(r.pos, b)}

-----------------------------------------------------------------------------
(* A candidate's match. *)

SameIdentifier(c, row) == c.contact # NoValue /\ c.contact = row.contact

(* apizzaMatchMethod(): the first rule that applies. *)
Method(distance, score, sameIdentifier) ==
  IF sameIdentifier /\ distance <= 100 /\ score = 0 THEN "spatial_only_review"
  ELSE IF sameIdentifier /\ distance <= 100 THEN "exact_identifier_nearby"
  ELSE IF distance <= 25 /\ score >= 99 THEN "exact_name_nearby"
  ELSE IF distance <= 75 /\ score >= 99 THEN "strong_spatial_name"
  ELSE IF distance <= 50 /\ score >= 60 THEN "strong_spatial_name"
  ELSE IF distance <= 100 /\ score >= 35 THEN "weak_spatial_name"
  ELSE IF distance <= 25 THEN "spatial_only_review" ELSE "no_match"

Evaluated(c, row) ==
  LET distance == Metres[c.pos, row.pos]
      score == ScoreOf[c.name, row.name]
  IN [id |-> row.id, distance |-> distance, score |-> score, same |-> SameIdentifier(c, row),
      method |-> Method(distance, score, SameIdentifier(c, row))]

Nearer(m, n) == m.distance < n.distance \/ (m.distance = n.distance /\ m.id < n.id)

CellOf(pos) == <<pos[1] \div Cell, pos[2] \div Cell>>

(* The rows of the cells around a candidate that are in reach. *)
InReach(c, rows) ==
  {Evaluated(c, r) : r \in {r \in rows :
     /\ CellOf(r.pos)[1] - CellOf(c.pos)[1] \in -CellRadius..CellRadius
     /\ CellOf(r.pos)[2] - CellOf(c.pos)[2] \in -CellRadius..CellRadius
     /\ Metres[c.pos, r.pos] <= 100}}

Closer(m, near) == {n \in near : Nearer(n, m)}

(* nearbyPlaces(): the nearest few. *)
Nearby(c, rows) ==
  LET near == InReach(c, rows)
  IN {m \in near : Cardinality(Closer(m, near)) < NearbyLimit}

Nearest(nearby) ==
  IF nearby = {} THEN NoValue ELSE CHOOSE m \in nearby : \A n \in nearby \ {m} : Nearer(m, n)

Good(m) == m.method # "no_match"

(* bestMatch(): any method before none, then the score, then the distance. *)
Better(m, n) ==
  \/ Good(m) /\ ~Good(n)
  \/ /\ Good(m) <=> Good(n)
     /\ m.score > n.score \/ (m.score = n.score /\ Nearer(m, n))

\* Mutant of Best: a row of the best score, whatever its method.
BestName(nearby) ==
  IF nearby = {} THEN NoValue
  ELSE CHOOSE m \in nearby : \A n \in nearby \ {m} :
         m.score > n.score \/ (m.score = n.score /\ Nearer(m, n))

Best(nearby) ==
  IF nearby = {} THEN NoValue
  ELSE CHOOSE m \in nearby : \A n \in nearby \ {m} : Better(m, n)

Accepted == {"exact_identifier_nearby", "exact_name_nearby", "strong_spatial_name"}
Doubtful == {"weak_spatial_name", "spatial_only_review"}
AcceptedMatch(best) == best # NoValue /\ best.method \in Accepted

ActiveDisposition(best) ==
  IF best = NoValue \/ ~Good(best) THEN "likely_new"
  ELSE IF best.method \in Doubtful THEN "ambiguous_review" ELSE "matched_existing"

\* Mutant of ClosedDisposition: evidence that no source id identifies.
ClosedByMatch(c, best) ==
  IF AcceptedMatch(best) THEN "closed_evidence" ELSE "closed_evidence_dropped"

ClosedDisposition(c, best) ==
  IF c.sourceId /\ AcceptedMatch(best) THEN "closed_evidence" ELSE "closed_evidence_dropped"

Decision(c, prefetched) ==
  IF Route(c) \notin MatchableRoutes
  THEN [candidate |-> c, disposition |-> "not_compared", best |-> NoValue, nearest |-> NoValue]
  ELSE LET nearby == Nearby(c, prefetched)
           best == Best(nearby)
       IN [candidate |-> c, best |-> best, nearest |-> Nearest(nearby),
           disposition |-> IF Route(c) = "closed_evidence_candidate"
                           THEN ClosedDisposition(c, best) ELSE ActiveDisposition(best)]

(* matchApizzaCandidatesV1() *)
Decisions(candidates, rows) ==
  LET prefetched == Prefetched(rows, Boxes(candidates))
  IN {Decision(c, prefetched) : c \in candidates}

Report(candidates, rows) ==
  LET count(disposition) ==
        Cardinality({d \in Decisions(candidates, rows) : d.disposition = disposition})
      prefetched == Prefetched(rows, Boxes(candidates))
  IN [compared |-> [closed \in BOOLEAN |->
                      Cardinality({c \in Matchable(candidates) : c.closed = closed})],
      rows |-> Cardinality(rows), prefetched |-> Cardinality(prefetched),
      tiles |-> Cardinality(Boxes(candidates)),
      cells |-> Cardinality({CellOf(r.pos) : r \in prefetched}),
      matched |-> count("matched_existing"), ambiguous |-> count("ambiguous_review"),
      new |-> count("likely_new"), evidence |-> count("closed_evidence"),
      dropped |-> count("closed_evidence_dropped")]

-----------------------------------------------------------------------------
(* The validators of the two outputs. *)

(* validateDecisions() *)
Admitted(d) ==
  LET route == Route(d.candidate)
      method == IF d.best = NoValue THEN "none" ELSE d.best.method
  IN
  /\ d.disposition = "not_compared" <=> route \notin MatchableRoutes
  /\ d.disposition = "not_compared" => d.best = NoValue /\ d.nearest = NoValue
  /\ d.disposition = "matched_existing" => route = "ready_for_match" /\ method \in Accepted
  /\ d.disposition = "ambiguous_review" => route = "ready_for_match" /\ method \in Doubtful
  /\ d.disposition = "likely_new" => route = "ready_for_match" /\ method \in {"none", "no_match"}
  /\ d.disposition = "closed_evidence" =>
       route = "closed_evidence_candidate" /\ method \in Accepted /\ d.candidate.sourceId
  /\ d.disposition = "closed_evidence_dropped" =>
       route = "closed_evidence_candidate" /\ ~(method \in Accepted /\ d.candidate.sourceId)
  /\ d.best = NoValue <=> d.nearest = NoValue
  /\ d.best # NoValue => /\ d.nearest.distance <= d.best.distance
                         /\ d.best.distance <= 100
                         /\ d.best.method = Method(d.best.distance, d.best.score, d.best.same)

(* validateMatchReport() *)
Reconciled(r) ==
  /\ r.matched + r.ambiguous + r.new = r.compared[FALSE]
  /\ r.evidence + r.dropped = r.compared[TRUE]
  /\ r.cells <= r.prefetched /\ r.prefetched <= r.rows
  /\ r.tiles <= r.compared[FALSE] + r.compared[TRUE]
  /\ r.tiles = 0 <=> r.compared[FALSE] + r.compared[TRUE] = 0
  /\ r.tiles = 0 => r.prefetched = 0
  /\ r.cells = 0 <=> r.prefetched = 0

-----------------------------------------------------------------------------
(* Properties, of every input. *)

\* The prefetch by tiles selects what the legacy query selected, also for rows and boxes
\* on the two sides of a tile's edge ("optimized prefetch membership equals the legacy
\* box scan at tile edges", matching-v1.test.ts:427).
PrefetchIsBoxScan ==
  LET boxes == Boxes(input.candidates)
  IN Prefetched(input.rows, boxes) = BoxScan(input.rows, boxes)

\* What the matcher writes, the validators of its artifacts admit, for every combination
\* of routes, methods and authority: a stage does not fail over its own output.
OutputsAdmitted ==
  /\ \A d \in Decisions(input.candidates, input.rows) : Admitted(d)
  /\ Reconciled(Report(input.candidates, input.rows))

(* The best matches that the legacy report may find, whose query has no    *)
(* order: stable sorts keep rows that tie as they came.                    *)
LegacyBest(c, rows) ==
  LET near == InReach(c, rows)
      heads == {S \in SUBSET near :
                  /\ Cardinality(S) = IF Cardinality(near) < NearbyLimit
                                      THEN Cardinality(near) ELSE NearbyLimit
                  /\ \A m \in S, n \in near \ S : m.distance <= n.distance}
      beats(m, n) == \/ Good(m) /\ ~Good(n)
                     \/ /\ Good(m) <=> Good(n)
                        /\ \/ m.score > n.score
                           \/ m.score = n.score /\ m.distance < n.distance
  IN UNION {{m \in S : \A n \in S : ~beats(n, m)} : S \in heads}

\* The port decides as the legacy report might have, on some order of its rows: the
\* tie-breaks "can change only cases for which the legacy result was unspecified"
\* (APIZZA_MATCHING_V1.md), before and after the cut.
PortOfLegacy ==
  \A d \in Decisions(input.candidates, input.rows) :
    d.disposition # "not_compared" =>
      LET possible == LegacyBest(d.candidate, BoxScan(input.rows, Boxes(input.candidates)))
      IN IF possible = {} THEN d.best = NoValue ELSE d.best \in possible

\* Both: the port replaces the legacy report, and no run fails over its own decisions.
ReplacesLegacy == OutputsAdmitted /\ PortOfLegacy
=============================================================================
