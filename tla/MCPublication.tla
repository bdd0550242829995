--------------------------- MODULE MCPublication ---------------------------
(* Values for model-checking Publication. *)
EXTENDS Publication, TLC

CONSTANTS a, b, k1, k2, alien, luigi, pizzeria

Luigis == [key |-> k1, name |-> luigi, pos |-> 0]
Pizzeria == [key |-> k2, name |-> pizzeria, pos |-> 500]
Nothing == [t |-> 0, graded |-> FALSE, old |-> FALSE, flaw |-> "none", imported |-> FALSE]
Shown(key, place) == [key |-> key, name |-> place.name, pos |-> place.pos, value |-> 0]
Bounds(stamps, manual, faults, imports, weeks, entries) ==
  [stamps |-> stamps, manual |-> manual, faults |-> faults, imports |-> imports, weeks |-> weeks, entries |-> entries]

(* Two public places, one of them without a stable id. *)
Both ==
  [place |-> (1 :> Luigis) @@ (2 :> Pizzeria), local |-> [i \in Ids |-> Nothing],
   public |-> (1 :> Shown(k1, Luigis)) @@ (2 :> Shown(None, Pizzeria)),
   osm |-> Ids, grades |-> {TRUE}, flaws |-> {"none"}, faults |-> {}, entries |-> {}, maintenance |-> FALSE,
   byId |-> FALSE, slow |-> FALSE, tidy |-> FALSE, alone |-> TRUE, bounds |-> Bounds(2, 0, 0, 0, 0, 0)]

Tidy == [Both EXCEPT !.tidy = TRUE, !.flaws = {"none", "unsure"}, !.faults = {"kill", "gate"},
                     !.bounds = Bounds(2, 0, 1, 0, 1, 0)]
(* The first place is not public, and is not to be. *)
Gap == [Tidy EXCEPT !.public[1] = None]
Faulty == [Both EXCEPT !.osm = {1}, !.grades = BOOLEAN, !.flaws = {"none", "wrong"}, !.faults = {"write", "late", "kill"},
                       !.bounds = Bounds(2, 0, 2, 0, 1, 0)]
(* A place is imported and the website takes its id, or another one near. *)
Growing == [Both EXCEPT !.local[2] = None, !.public[2] = None, !.maintenance = TRUE, !.faults = {"write"},
                        !.entries = {[key |-> alien, name |-> pizzeria, pos |-> 500, value |-> 0],
                                     [key |-> None, name |-> luigi, pos |-> 500, value |-> 0],
                                     [key |-> None, name |-> pizzeria, pos |-> 530, value |-> 0]},
                        !.bounds = Bounds(2, 0, 1, 1, 0, 1)]
Crowded == [Growing EXCEPT !.byId = TRUE, !.alone = FALSE, !.bounds = Bounds(1, 1, 0, 1, 0, 1)]
(* The lock is stolen from a run that goes on. *)
Stolen == [Crowded EXCEPT !.slow = TRUE, !.maintenance = FALSE]
Twice == [Crowded EXCEPT !.slow = TRUE, !.bounds.entries = 0]

PublicationPlans == {Tidy, Gap, Faulty, Growing, Crowded, Stolen, Twice}
LatePlan == {[Both EXCEPT !.faults = {"late"}, !.bounds = Bounds(2, 0, 1, 0, 0, 0)]}
SlowPlan == {[Both EXCEPT !.slow = TRUE, !.alone = FALSE, !.bounds = Bounds(1, 1, 0, 0, 0, 0)]}
=============================================================================
