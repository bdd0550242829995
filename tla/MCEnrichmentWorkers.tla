------------------------ MODULE MCEnrichmentWorkers ------------------------
(* Values for model-checking EnrichmentWorkers. *)
EXTENDS EnrichmentWorkers, TLC

CONSTANTS p1, p2, s1, s2, c1, c2, m1, m2

OnePlace == {p1}
TwoPlaces == {p1, p2}
AllScopes == [s \in Scrapers |-> Places]
OnePriority == [p \in Places |-> 1]
Preferred == [p \in Places |-> IF p = p1 THEN 2 ELSE 1]

TwoScrapers == {s1, s2}
OneScraper == {s1}
OneClassifier == {c1}
Nobody == {}
ScraperAndClassifier == {s1, c1}
AllAgents == {s1, s2, m1, m2}
TwoParsers == {m1, m2}
=============================================================================
