--------------------------- MODULE SourceMatching ---------------------------
(***************************************************************************)
(* How a source record is compared with the canonical places: the match    *)
(* report (ops/source-input-sample-report.mjs), the guard of the accept    *)
(* tool and the readiness of the import preflight.  Positions are metres   *)
(* along a line, scores and confidences are percentages.                   *)
(***************************************************************************)
EXTENDS Integers, FiniteSets

CONSTANTS
  None,
  Names,    \* names of records and places
  Score,    \* nameScore(): similarity of two names, in percent
  Contacts  \* phone numbers and store pages

ASSUME MatchingAssumption ==
  /\ Score \in [Names \X Names -> 0..100]
  /\ \A n \in Names : Score[n, n] = 100

Positions == 0..1000
Lives == {"active", "closed", "replaced"}
Evidence == [pos : Positions, name : Names, contact : Contacts \cup {None}, closed : BOOLEAN]

Distance(a, b) == IF a < b THEN b - a ELSE a - b

(* nameScore(): 100 for equal names, less for a shared word, 0 for none. *)
NameScore(a, b) == Score[a, b]

(* sourceMatchMethod() *)
MatchMethod(distance, score, sameContact) ==
  IF sameContact /\ distance <= 100
  THEN IF score = 0 THEN "spatial_only_review" ELSE "exact_identifier_nearby"
  ELSE IF distance <= 25 /\ score >= 99 THEN "exact_name_nearby"
  ELSE IF \/ distance <= 75 /\ score >= 99
          \/ distance <= 50 /\ score >= 60 THEN "strong_spatial_name"
  ELSE IF distance <= 100 /\ score >= 35 THEN "weak_spatial_name"
  ELSE IF distance <= 25 THEN "spatial_only_review" ELSE "no_match"

Accepted == {"exact_identifier_nearby", "exact_name_nearby", "strong_spatial_name"}
Unsure == {"spatial_only_review", "weak_spatial_name"}

(* matchConfidence() *)
Confidence(method, distance, score) ==
  LET blend == (75 * score + 25 * (100 - distance)) \div 100
  IN IF method = "exact_identifier_nearby" /\ blend < 90 THEN 90 ELSE blend

(* sourceIdentifierMatch() *)
SameContact(record, place) == record.contact # None /\ record.contact = place.contact

(* nearbyPlacesFromGrid() *)
Within(places, pos, radius) == {i \in DOMAIN places : Distance(places[i].pos, pos) <= radius}

Match(places, record, i) ==
  LET distance == Distance(places[i].pos, record.pos)
      score == NameScore(record.name, places[i].name)
      method == MatchMethod(distance, score, SameContact(record, places[i]))
  IN [place |-> i, distance |-> distance, score |-> score, method |-> method,
      confidence |-> Confidence(method, distance, score)]

NoPlace == [place |-> 0, distance |-> 0, score |-> 0, method |-> "no_match", confidence |-> 0]

Closer(m, n) == m.distance < n.distance \/ (m.distance = n.distance /\ m.place <= n.place)

(* bestMatch(): a usable method first, then the score, then the distance. *)
Better(m, n) ==
  LET good(x) == x.method # "no_match"
  IN IF good(m) # good(n) THEN good(m)
     ELSE IF m.score # n.score THEN m.score > n.score ELSE Closer(m, n)

Matches(places, record) == {Match(places, record, i) : i \in Within(places, record.pos, 100)}

BestMatch(places, record) ==
  LET all == Matches(places, record)
  IN IF all = {} THEN NoPlace ELSE CHOOSE m \in all : \A n \in all : Better(m, n)

Nearest(places, record) ==
  LET all == Matches(places, record)
  IN IF all = {} THEN NoPlace ELSE CHOOSE m \in all : \A n \in all : Closer(m, n)

(* The three buckets of an active record; a closed record is evidence for  *)
(* a confident match and nothing else.                                     *)
Linked(places, record) == BestMatch(places, record).method \in Accepted
Ambiguous(places, record) == ~record.closed /\ BestMatch(places, record).method \in Unsure
LikelyNew(places, record) == ~record.closed /\ BestMatch(places, record).method = "no_match"

---------------------------------------------------------------------------
(* The guards before a place is created.                                   *)

Open(place) == place.life = "active"
Holders(places, key) == {i \in DOMAIN places : places[i].key = key /\ ~places[i].historical}

(* filterImportReadyCandidates() of the accept tool: every place counts,   *)
(* and so does an accepted or linked row of the source at the same spot.   *)
ClearOfPlaces(places, row) ==
  /\ row.nearest = 0 \/ row.distance > 150
  /\ Within(places, row.data.pos, 150) = {}

(* readiness() of the preflight: only open places count. *)
Readiness(places, key, row) ==
  IF \E i \in Holders(places, key) : Open(places[i]) THEN "duplicate_source_id"
  ELSE IF Holders(places, key) # {} THEN "replacement_candidate_ready"
  ELSE IF \E i \in Within(places, row.data.pos, 150) : Open(places[i])
       THEN "nearby_canonical_review" ELSE "candidate_ready"

(* annotateAcceptedSourceCoordinateDuplicates(): both of two rows within   *)
(* 25 m are held back, a replacement is not.                               *)
\* Mutant of HeldBack: the distance between rows is not compared.
HeldBackNever(key, pos, others) == FALSE
HeldBack(key, pos, others) ==
  \E other \in others : other.key # key /\ Distance(other.pos, pos) <= 25
=============================================================================
