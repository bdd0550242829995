-------------------------- MODULE MCSourcePipeline --------------------------
(* Values for model-checking SourcePipeline. *)
EXTENDS SourcePipeline, TLC

CONSTANTS a, b

Alone(sources, extra, bad) ==
  [sources |-> sources, procs |-> {a}, manual |-> extra, faults |-> bad,
   releases |-> 2, catalogs |-> 2]
Paired(sources, bad) ==
  [sources |-> sources, procs |-> {a, b}, manual |-> 1, faults |-> bad,
   releases |-> 1, catalogs |-> 1]
(* Foursquare before Overture in one run: Overture has a new release, and *)
(* Foursquare's first scan of each region is followed to its end.         *)
Together == [Alone(<<"fsq", "overture">>, 0, 1) EXCEPT !.releases = 0]

EveryPlan == {Alone(<<"fsq">>, 0, 1), Paired(<<"fsq">>, 1),
         Alone(<<"overture">>, 1, 1), Paired(<<"overture">>, 1), Alone(<<"overture", "atp">>, 0, 1), Together,
         Alone(<<"osm">>, 0, 0), Alone(<<"website", "atp">>, 0, 0)}
TacoOverture == {Alone(<<"overture">>, 0, 1)}

(* Tile 1 of the first release takes two pages, its tile 2 is empty. *)
SmallReleases == <<(0 :> 0) @@ (1 :> 2) @@ (2 :> 2), (0 :> 0) @@ (1 :> 0) @@ (2 :> 1)>>
OneCell == (0 :> {1}) @@ (1 :> {1})
OnlyOsmRotates == [s \in Sources |-> IF s = "osm" THEN 1 ELSE 0]
OnePage == [s \in Sources |-> 1]
TwoOverturePages == [s \in Sources |-> IF s = "overture" THEN 2 ELSE 1]
=============================================================================
