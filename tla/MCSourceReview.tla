--------------------------- MODULE MCSourceReview ---------------------------
(* Values for model-checking SourceReview. *)
EXTENDS SourceReview, TLC

CONSTANTS a, b, r1, r2, luigi, pizzeria, c1, c2

(* Two names that share a token. *)
Similar == [pair \in Names \X Names |-> IF pair[1] = pair[2] THEN 100 ELSE 50]
OsmAndAtp == (r1 :> "osm") @@ (r2 :> "all_the_places")
PizzeriasAreLuigis == [pair \in Names \X Names |-> IF pair = <<pizzeria, luigi>> THEN 25 ELSE 0]
(* The report of r2 is about luigi. *)
LuigisReport == [pair \in Records \X Names |-> IF pair[1] = r2 THEN luigi ELSE pair[2]]
OsmFirst == [osm |-> 2, all_the_places |-> 1, fsq |-> 1]

At0(pos, name, contact) == [pos |-> pos, name |-> name, contact |-> contact, closed |-> FALSE]
Seed(pos, name, contact, key) ==
  [pos |-> pos, name |-> name, contact |-> contact, key |-> key, historical |-> FALSE,
   life |-> "active", closedOnce |-> FALSE, via |-> "seed"]
Bounds(jobs, decisions, closures, fills, corrections, faults) ==
  [jobs |-> jobs, decisions |-> decisions, closures |-> closures, fills |-> fills,
   corrections |-> corrections, faults |-> faults]

(* Two new records near each other; reports, decisions and two batches. *)
NewNeighbours(source, tools) ==
  [tools |-> tools, source |-> [r \in Records |-> source], places |-> <<>>,
   feed |-> (r1 :> At0(0, luigi, None)) @@ (r2 :> At0(20, pizzeria, c1)),
   corrections |-> (r1 :> {At0(400, luigi, None)}) @@ (r2 :> {}),
   bounds |-> Bounds(4, 1, 1, 0, 1, 1)]
(* A record that matches a place, and one at the edge of it. *)
NearPlace(tools) ==
  [tools |-> tools, source |-> OsmAndAtp, places |-> <<Seed(0, luigi, None, r1)>>,
   feed |-> (r1 :> At0(90, luigi, c1)) @@ (r2 :> At0(5, pizzeria, c2)),
   corrections |-> (r1 :> {At0(10, luigi, c1), At0(500, luigi, c1)}) @@ (r2 :> {[At0(5, luigi, c2) EXCEPT !.closed = TRUE]}),
   bounds |-> Bounds(4, 1, 1, 1, 1, 0)]

Both(first, second) == [q \in Procs |-> IF q = a THEN first ELSE second]

ReviewPlans ==
  {NewNeighbours("osm", Both({"pipeline"}, {"batch"})), NewNeighbours("fsq", Both({"batch"}, {"pipeline", "batch"})),
   NewNeighbours("all_the_places", Both({"pipeline"}, {"batch"})),
   NearPlace(Both({"pipeline", "batch"}, {"promote", "auto_link"}))}
RacePlans == {NearPlace(Both({"pipeline"}, {"auto_link"}))}
=============================================================================
