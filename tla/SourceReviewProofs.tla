------------------------- MODULE SourceReviewProofs -------------------------
(***************************************************************************)
(* However the review tools of several processes interleave, are killed or *)
(* are repeated: one restaurant is one place, it is created as it was      *)
(* reviewed, and a contact it has is not replaced.                         *)
(***************************************************************************)
EXTENDS SourceReview, FiniteSetTheorems, TLAPS

(* The types, with the ids that occur in the tables taken from P, the ids  *)
(* of the canonical table.                                                 *)
PlaceTable == \E n \in 0..MaxPlaces : places \in [1..n -> Places]

MatchMethods == {"exact_identifier_nearby", "exact_name_nearby", "strong_spatial_name",
                 "weak_spatial_name", "spatial_only_review", "no_match"}
Methods == MatchMethods \cup
  {"closed_signal", "auto_reviewed_link", "auto_brand_reviewed_link",
   "auto_exact_identifiers", "auto_exact_source_id", "reviewed_new_import"}
LinkRow(P) ==
  [place : P, method : Methods, confidence : Int, contact : Contacts \cup {None}]
RowOver(P) ==
  [status : Statuses, data : Evidence, nearest : P \cup {0}, distance : 0..100, score : 0..100,
   place : P \cup {0}, imported : BOOLEAN,
   judged : Evidence \cup {None}, accepted : Evidence \cup {None}]

\* What the tools hold: links to be written, rows to be queued, rows to be linked,
\* rows to be accepted with what they were judged by, candidates to be imported and contacts to be filled in.
Modes == {"score_distance", "brand_rules", "exact_identifiers", "exact_source_id"}
Readinesses == {"duplicate_source_id", "replacement_candidate_ready",
                "nearby_canonical_review", "candidate_ready"}
LinkItem(P) ==
  [record : Records, place : P, confidence : Int, contact : Contacts \cup {None}, method : Methods]
QueueItem(P) ==
  [record : Records, kind : Kinds, data : Evidence, nearest : P \cup {0},
   distance : 0..100, score : 0..100]
Choice(P) == [record : Records, place : P, contact : Contacts \cup {None}, fresh : BOOLEAN]
Judgment == [record : Records, judged : Evidence]
Candidate == [key : Records, pos : Positions, data : Evidence, readiness : Readinesses]
Filling == [place : Nat, contact : Contacts]

Pcs == {"idle", "link", "refresh", "queue", "candidates", "auto_link",
        "accept", "accepting", "preflight", "import", "fill"}
Items(P) == LinkItem(P) \cup Choice(P) \cup Judgment \cup Candidate \cup Filling
JobOver(P) ==
  [pc : Pcs, source : Sources \cup {None}, mode : Modes \cup {None},
   todo : SUBSET Items(P), rows : SUBSET QueueItem(P), ids : SUBSET Records]
Holds(x, P) ==
  /\ x.pc = "link" => x.todo \subseteq LinkItem(P)
  /\ x.pc = "auto_link" => x.todo \subseteq Choice(P)
  /\ x.pc = "accepting" => x.todo \subseteq Judgment
  /\ x.pc = "import" => x.todo \subseteq Candidate
  /\ x.pc = "fill" => x.todo \subseteq Filling
  /\ x.pc \in {"link", "refresh", "queue", "candidates", "auto_link"} => x.source \in Sources
  /\ x.pc \in {"candidates", "auto_link"} => x.mode \in Modes

JobsOver(jobs, P) ==
  /\ jobs \in [Procs -> JobOver(P)]
  /\ \A p \in Procs : Holds(jobs[p], P)

\* A row that was decided keeps the evidence it was decided on, a place that was imported is
\* made of it, and a candidate of an import is made of a decided row.
Unchanged(r, data) ==
  LET row == Row(r, "likely_new") IN
  row \in RowOver(DOMAIN places) /\ row.status # "pending" /\ row.data = data
MadeOf(place, r, data) ==
  place.key = r /\ place.pos = data.pos /\ place.name = CanonicalName(r, data.name)
Reviewed ==
  /\ \A r \in Records :
       LET row == Row(r, "likely_new") IN row # None /\ row.status # "pending" => row.accepted = row.data
  /\ \A r \in Records :
       LET row == Row(r, "likely_new") IN row # None /\ row.imported =>
         /\ row.status # "pending"
         /\ row.place \in DOMAIN places /\ MadeOf(places[row.place], r, row.data)
  /\ \A p \in Procs : job[p].pc = "import" =>
       \A c \in job[p].todo : Unchanged(c.key, c.data) /\ c.pos = c.data.pos

Typed ==
  /\ plan \in Plans
  /\ PlaceTable
  /\ feed \in [Records -> Evidence]
  /\ links \in [LinkKeys -> LinkRow(DOMAIN places) \cup {None}]
  /\ queue \in [Records \X Kinds -> RowOver(DOMAIN places) \cup {None}]
  /\ JobsOver(job, DOMAIN places)

-----------------------------------------------------------------------------
(* Best matches. *)

\* A finite set with a total preorder has a best element.
LEMMA HasBest ==
  ASSUME NEW S, IsFiniteSet(S), S # {}, NEW R,
         \A x, y \in S : <<x, y>> \in R \/ <<y, x>> \in R,
         \A x, y, z \in S : <<x, y>> \in R /\ <<y, z>> \in R => <<x, z>> \in R
  PROVE  \E m \in S : \A n \in S : <<m, n>> \in R
<1> DEFINE Without == {T \in SUBSET S : T # {} /\ ~ \E m \in T : \A n \in T : <<m, n>> \in R}
<1>0. IsFiniteSet(S)
  OBVIOUS
<1>1. Without = {}
  <2> SUFFICES ASSUME Without # {} PROVE FALSE
    OBVIOUS
  <2>1. IsWellFoundedOn(StrictSubsetOrdering(S), SUBSET S)
    <3>1. FiniteSubsetsOf(S) = SUBSET S
      BY <1>0, FS_FiniteSubsetsOfFinite
    <3>2. IsWellFoundedOn(StrictSubsetOrdering(S), FiniteSubsetsOf(S))
      BY FS_StrictSubsetOrderingWellFounded
    <3> QED BY <3>1, <3>2
  <2>2. PICK T \in Without : \A U \in Without : <<U, T>> \notin StrictSubsetOrdering(S)
    <3>1. Without \subseteq SUBSET S
      OBVIOUS
    <3> HIDE DEF Without
    <3> QED BY <2>1, <3>1, WFMin
  <2>3. PICK r \in T : TRUE
    OBVIOUS
  <2>4. PICK U : U = T \ {r}
    OBVIOUS
  <2>5. U \notin Without
    <3>1. U \in SUBSET S /\ T \in SUBSET S /\ U \subseteq T /\ U # T
      BY <2>4
    <3>2. <<U, T>> \in StrictSubsetOrdering(S)
      BY <3>1 DEF StrictSubsetOrdering
    <3> QED BY <2>2, <3>2
  <2>6. <<r, r>> \in R
    OBVIOUS
  <2>7. CASE U = {}
    <3>1. \A n \in T : n = r
      BY <2>4, <2>7
    <3> QED BY <2>6, <3>1
  <2>8. CASE U # {}
    <3>1. PICK u \in U : \A n \in U : <<u, n>> \in R
      BY <2>4, <2>5, <2>8
    <3>2. u \in T /\ \A n \in T : n = r \/ n \in U
      BY <2>4
    <3>3. CASE <<u, r>> \in R
      BY <3>1, <3>2, <3>3
    <3>4. CASE <<r, u>> \in R
      <4>1. \A n \in T : <<r, n>> \in R
        BY <2>6, <3>1, <3>2, <3>4
      <4> QED BY <4>1
    <3> QED BY <3>2, <3>3, <3>4
  <2> QED BY <2>7, <2>8
<1> QED BY <1>1

MatchOver(P) == [place : P, distance : 0..100, score : 0..100, method : MatchMethods, confidence : Int]

\* What a record is matched with is a place of the table within 100 m.
LEMMA MatchesAreTyped ==
  ASSUME PlaceTable, NEW record \in Evidence
  PROVE  /\ Matches(places, record) \subseteq MatchOver(DOMAIN places)
         /\ IsFiniteSet(Matches(places, record))
         /\ \A i \in DOMAIN places : i \in Nat /\ i # 0
<1>1. PICK n \in 0..MaxPlaces : places \in [1..n -> Places]
  BY DEF PlaceTable
<1>2. DOMAIN places = 1..n /\ n \in Nat
  BY <1>1, ReviewAssumption
<1>3. ASSUME NEW i \in Within(places, record.pos, 100)
      PROVE  Match(places, record, i) \in MatchOver(DOMAIN places)
  <2>1. i \in DOMAIN places /\ Distance(places[i].pos, record.pos) <= 100
    BY <1>3 DEF Within
  <2>2. places[i] \in Places
    BY <1>1, <1>2, <2>1
  <2>3. PICK a, b \in Positions : a = places[i].pos /\ b = record.pos
    BY <2>2 DEF Places, Evidence
  <2>4. PICK d \in 0..100 : d = Distance(places[i].pos, record.pos)
    <3>1. Distance(a, b) <= 100
      BY <2>1, <2>3
    <3>2. Distance(a, b) \in Nat
      BY DEF Distance, Positions
    <3>3. Distance(a, b) \in 0..100
      BY <3>1, <3>2
    <3> QED BY <2>3, <3>3
  <2>5. PICK s \in 0..100 : s = NameScore(record.name, places[i].name)
    BY ZenonT(60), <2>2, MatchingAssumption DEF Places, Evidence, NameScore
  <2>6. PICK m \in MatchMethods : m = MatchMethod(d, s, SameContact(record, places[i]))
    <3>1. MatchMethod(d, s, SameContact(record, places[i])) \in MatchMethods
      BY DEF MatchMethod, MatchMethods
    <3> QED BY <3>1
  <2>7. PICK c \in Int : c = Confidence(m, d, s)
    <3>1. ((75 * s + 25 * (100 - d)) \div 100) \in Int
      OBVIOUS
    <3> QED BY <3>1 DEF Confidence
  <2>8. Match(places, record, i) =
          [place |-> i, distance |-> d, score |-> s, method |-> m, confidence |-> c]
    BY <2>4, <2>5, <2>6, <2>7 DEF Match
  <2> QED BY <2>1, <2>8 DEF MatchOver
<1>4. IsFiniteSet(Within(places, record.pos, 100))
  <2>1. IsFiniteSet(1..n)
    BY <1>2, FS_Interval
  <2> QED BY <1>2, <2>1, FS_Subset DEF Within
<1>5. IsFiniteSet(Matches(places, record))
  <2> DEFINE f == [i \in Within(places, record.pos, 100) |-> Match(places, record, i)]
  <2>1. f \in Surjection(Within(places, record.pos, 100), Matches(places, record))
    BY DEF Surjection, Matches
  <2> QED BY <1>4, <2>1, FS_Surjection
<1> QED BY <1>2, <1>3, <1>5 DEF Matches

\* The order of bestMatch() and that of the nearest place compare any two matches.
LEMMA OrdersAreTotal ==
  ASSUME NEW P \in SUBSET Nat
  PROVE  /\ \A m, n \in MatchOver(P) : /\ Better(m, n) \/ Better(n, m)
                                       /\ Closer(m, n) \/ Closer(n, m)
         /\ \A l, m, n \in MatchOver(P) : /\ Better(l, m) /\ Better(m, n) => Better(l, n)
                                          /\ Closer(l, m) /\ Closer(m, n) => Closer(l, n)
<1>1. \A m \in MatchOver(P) : m.distance \in Int /\ m.score \in Int /\ m.place \in Int
  <2>1. ASSUME NEW m \in MatchOver(P) PROVE m.distance \in 0..100 /\ m.score \in 0..100 /\ m.place \in P
    BY DEF MatchOver
  <2>2. \A i \in P : i \in Int
    OBVIOUS
  <2>3. \A d \in 0..100 : d \in Int
    OBVIOUS
  <2> QED BY <2>1, <2>2, <2>3
<1>2. ASSUME NEW m \in MatchOver(P), NEW n \in MatchOver(P) PROVE Closer(m, n) \/ Closer(n, m)
  BY <1>1 DEF Closer
<1>3. ASSUME NEW l \in MatchOver(P), NEW m \in MatchOver(P), NEW n \in MatchOver(P),
             Closer(l, m), Closer(m, n)
      PROVE  Closer(l, n)
  BY <1>1, <1>3 DEF Closer
<1>4. ASSUME NEW m \in MatchOver(P), NEW n \in MatchOver(P) PROVE Better(m, n) \/ Better(n, m)
  BY <1>1, <1>2 DEF Better
<1>5. ASSUME NEW l \in MatchOver(P), NEW m \in MatchOver(P), NEW n \in MatchOver(P),
             Better(l, m), Better(m, n)
      PROVE  Better(l, n)
  <2>1. Closer(l, m) /\ Closer(m, n) => Closer(l, n)
    BY <1>3
  <2> QED BY <1>1, <1>5, <2>1 DEF Better
<1> QED BY <1>2, <1>3, <1>4, <1>5

\* The best and the nearest match are matches, where there are any.
LEMMA BestIsMatch ==
  ASSUME PlaceTable, NEW record \in Evidence
  PROVE  /\ BestMatch(places, record) \in MatchOver(DOMAIN places) \cup {NoPlace}
         /\ Nearest(places, record) \in MatchOver(DOMAIN places) \cup {NoPlace}
<1> DEFINE all == Matches(places, record)
           better == {pair \in all \X all : Better(pair[1], pair[2])}
           closer == {pair \in all \X all : Closer(pair[1], pair[2])}
<1>1. all \subseteq MatchOver(DOMAIN places) /\ IsFiniteSet(all) /\ DOMAIN places \in SUBSET Nat
  BY MatchesAreTyped
<1>2. /\ \A m, n \in all : /\ Better(m, n) \/ Better(n, m)
                           /\ Closer(m, n) \/ Closer(n, m)
      /\ \A l, m, n \in all : /\ Better(l, m) /\ Better(m, n) => Better(l, n)
                              /\ Closer(l, m) /\ Closer(m, n) => Closer(l, n)
  BY <1>1, OrdersAreTotal
<1>3. CASE all = {}
  BY <1>3 DEF BestMatch, Nearest
<1>4. CASE all # {}
  <2>1. \A m, n \in all : /\ <<m, n>> \in better <=> Better(m, n)
                          /\ <<m, n>> \in closer <=> Closer(m, n)
    OBVIOUS
  <2> HIDE DEF better, closer
  <2>2. \E m \in all : \A n \in all : Better(m, n)
    <3>1. \E m \in all : \A n \in all : <<m, n>> \in better
      <4>1. \A x, y \in all : <<x, y>> \in better \/ <<y, x>> \in better
        BY <1>2, <2>1
      <4>2. \A x, y, z \in all : <<x, y>> \in better /\ <<y, z>> \in better => <<x, z>> \in better
        BY <1>2, <2>1
      <4> HIDE DEF all
      <4> QED BY <1>1, <1>4, <4>1, <4>2, HasBest
    <3> QED BY <2>1, <3>1
  <2>3. \E m \in all : \A n \in all : Closer(m, n)
    <3>1. \E m \in all : \A n \in all : <<m, n>> \in closer
      <4>1. \A x, y \in all : <<x, y>> \in closer \/ <<y, x>> \in closer
        BY <1>2, <2>1
      <4>2. \A x, y, z \in all : <<x, y>> \in closer /\ <<y, z>> \in closer => <<x, z>> \in closer
        BY <1>2, <2>1
      <4> HIDE DEF all
      <4> QED BY <1>1, <1>4, <4>1, <4>2, HasBest
    <3> QED BY <2>1, <3>1
  <2>4. BestMatch(places, record) \in all
    BY <1>4, <2>2 DEF BestMatch
  <2>5. Nearest(places, record) \in all
    BY <1>4, <2>3 DEF Nearest
  <2> QED BY <1>1, <2>4, <2>5
<1> QED BY <1>3, <1>4

-----------------------------------------------------------------------------
(* What the tools compute from the tables is of the types of the tables.   *)

LEMMA PlanIsTyped ==
  ASSUME Typed
  PROVE  /\ plan.source \in [Records -> Sources]
         /\ plan.corrections \in [Records -> SUBSET Evidence]
         /\ plan.tools \in [Procs -> SUBSET Tools]
BY PlansAssumption DEF Typed

LEMMA IdsArePositive ==
  ASSUME PlaceTable
  PROVE  \A i \in DOMAIN places : i \in Nat /\ i # 0 /\ places[i] \in Places
<1>1. PICK n \in 0..MaxPlaces : places \in [1..n -> Places]
  BY DEF PlaceTable
<1> QED BY <1>1, ReviewAssumption

LEMMA LaterIds ==
  ASSUME Typed'
  PROVE  \A i \in DOMAIN places' : places'[i] \in Places
<1>1. PICK n \in 0..MaxPlaces : places' \in [1..n -> Places]
  BY DEF Typed, PlaceTable
<1> QED BY <1>1

LEMMA LinkItemsTyped ==
  ASSUME Typed, NEW source
  PROVE  LinkItems(source) \subseteq LinkItem(DOMAIN places)
<1>1. SUFFICES ASSUME NEW r \in RecordsOf(source), Linked(places, feed[r]) PROVE
        [record |-> r, place |-> BestMatch(places, feed[r]).place,
         confidence |-> BestMatch(places, feed[r]).confidence, contact |-> feed[r].contact,
         method |-> IF feed[r].closed THEN "closed_signal" ELSE BestMatch(places, feed[r]).method]
           \in LinkItem(DOMAIN places)
  BY DEF LinkItems
<1>2. r \in Records /\ feed[r] \in Evidence
  BY DEF RecordsOf, Typed
<1>3. PICK best : best = BestMatch(places, feed[r])
  OBVIOUS
<1>4. best \in MatchOver(DOMAIN places)
  <2>1. best \in MatchOver(DOMAIN places) \cup {NoPlace}
    BY <1>2, <1>3, BestIsMatch DEF Typed
  <2>2. best.method \in Accepted
    BY <1>1, <1>3 DEF Linked
  <2> QED BY <2>1, <2>2 DEF NoPlace, Accepted
<1>5. feed[r].contact \in Contacts \cup {None}
  BY <1>2 DEF Evidence
<1>6. (IF feed[r].closed THEN "closed_signal" ELSE best.method) \in Methods
  BY <1>4 DEF MatchOver, Methods
<1> QED BY <1>2, <1>3, <1>4, <1>5, <1>6 DEF LinkItem, MatchOver

LEMMA ReviewItemTyped ==
  ASSUME Typed, NEW r \in Records, NEW kind \in Kinds,
         NEW match \in MatchOver(DOMAIN places) \cup {NoPlace}
  PROVE  ReviewItem(r, kind, match) \in QueueItem(DOMAIN places)
<1>1. feed[r] \in Evidence
  BY DEF Typed
<1>2. match.place \in DOMAIN places \cup {0} /\ match.distance \in 0..100 /\ match.score \in 0..100
  BY DEF MatchOver, NoPlace
<1> QED BY <1>1, <1>2 DEF ReviewItem, QueueItem

LEMMA ReviewItemsTyped ==
  ASSUME Typed, NEW source
  PROVE  ReviewItems(source) \subseteq QueueItem(DOMAIN places)
<1>1. ASSUME NEW r \in RecordsOf(source)
      PROVE  /\ ReviewItem(r, "ambiguous", BestMatch(places, feed[r])) \in QueueItem(DOMAIN places)
             /\ ReviewItem(r, "likely_new", Nearest(places, feed[r])) \in QueueItem(DOMAIN places)
  <2>1. r \in Records /\ feed[r] \in Evidence
    BY DEF RecordsOf, Typed
  <2>2. /\ BestMatch(places, feed[r]) \in MatchOver(DOMAIN places) \cup {NoPlace}
        /\ Nearest(places, feed[r]) \in MatchOver(DOMAIN places) \cup {NoPlace}
    BY <2>1, BestIsMatch DEF Typed
  <2>3. "ambiguous" \in Kinds /\ "likely_new" \in Kinds
    BY DEF Kinds
  <2> QED BY <2>1, <2>2, <2>3, ReviewItemTyped
<1> QED BY <1>1 DEF ReviewItems

LEMMA RowIsTyped ==
  ASSUME Typed, NEW r \in Records, NEW kind \in Kinds, Row(r, kind) # None
  PROVE  Row(r, kind) \in RowOver(DOMAIN places)
BY DEF Typed, Row

LEMMA ChoicesTyped ==
  ASSUME Typed, NEW source, NEW mode
  PROVE  {[record |-> r, place |-> Row(r, "ambiguous").nearest,
           contact |-> Row(r, "ambiguous").data.contact, fresh |-> links[Exported(r)] = None] :
            r \in {q \in RecordsOf(source) : AutoLinkable(q, mode)}} \subseteq Choice(DOMAIN places)
<1>1. SUFFICES ASSUME NEW r \in RecordsOf(source), AutoLinkable(r, mode) PROVE
        [record |-> r, place |-> Row(r, "ambiguous").nearest,
         contact |-> Row(r, "ambiguous").data.contact, fresh |-> links[Exported(r)] = None]
          \in Choice(DOMAIN places)
  OBVIOUS
<1>2. r \in Records
  BY DEF RecordsOf
<1>3. PICK row : row = Row(r, "ambiguous")
  OBVIOUS
<1>4. row \in RowOver(DOMAIN places) /\ row.nearest # 0
  BY <1>1, <1>2, <1>3, RowIsTyped DEF AutoLinkable, HasRow, Kinds
<1>5. row.nearest \in DOMAIN places /\ row.data \in Evidence
  BY <1>4 DEF RowOver
<1>6. row.data.contact \in Contacts \cup {None}
  BY <1>5 DEF Evidence
<1> QED BY <1>2, <1>3, <1>5, <1>6 DEF Choice

LEMMA CandidatesTyped ==
  ASSUME Typed, NEW ids \in SUBSET Records
  PROVE  Candidates(ids) \subseteq Candidate
<1>1. ASSUME NEW r \in ids, HasRow(r, "likely_new", "accepted")
      PROVE  [key |-> r, pos |-> Row(r, "likely_new").data.pos, data |-> Row(r, "likely_new").data,
              readiness |-> Readiness(places, r, Row(r, "likely_new"))] \in Candidate
  <2>1. Row(r, "likely_new") \in RowOver(DOMAIN places)
    BY <1>1, RowIsTyped DEF HasRow, Kinds
  <2>2. Row(r, "likely_new").data \in Evidence
    BY <2>1 DEF RowOver
  <2>3. Row(r, "likely_new").data.pos \in Positions
    BY <2>2 DEF Evidence
  <2>4. Readiness(places, r, Row(r, "likely_new")) \in Readinesses
    BY DEF Readiness, Readinesses
  <2> QED BY <2>2, <2>3, <2>4 DEF Candidate
<1> QED BY <1>1 DEF Candidates

LEMMA ReadyTyped ==
  ASSUME Typed, NEW ids \in SUBSET Records
  PROVE  Ready(Candidates(ids)) \subseteq Candidate
BY CandidatesTyped DEF Ready

\* Where there is evidence for a place, some of it has the highest priority.
LEMMA SomePreferred ==
  ASSUME Typed, NEW i, EvidenceFor(i) # {}
  PROVE  Preferred(i) # {}
<1> DEFINE from == {plan.source[k[1]] : k \in EvidenceFor(i)}
           higher == {pair \in from \X from : Priority[pair[2]] <= Priority[pair[1]]}
<1>1. \A k \in EvidenceFor(i) : plan.source[k[1]] \in Sources
  BY PlanIsTyped DEF EvidenceFor, LinkKeys
<1>2. from \subseteq Sources /\ from # {}
  BY <1>1
<1>3. IsFiniteSet(Sources)
  <2>1. IsFiniteSet({"osm"})
    BY FS_Singleton
  <2>2. IsFiniteSet({"osm"} \cup {"all_the_places"})
    BY <2>1, FS_AddElement
  <2>3. IsFiniteSet(({"osm"} \cup {"all_the_places"}) \cup {"fsq"})
    BY <2>2, FS_AddElement
  <2>4. Sources = ({"osm"} \cup {"all_the_places"}) \cup {"fsq"}
    BY DEF Sources
  <2> QED BY <2>3, <2>4
<1>4. IsFiniteSet(from)
  <2> HIDE DEF from
  <2> QED BY <1>2, <1>3, FS_Subset
<1>5. \A x \in from : Priority[x] \in Int
  BY <1>2, ReviewAssumption
<1>6. \A x, y \in from : <<x, y>> \in higher <=> Priority[y] <= Priority[x]
  OBVIOUS
<1> HIDE DEF higher
<1>7. \A x, y \in from : <<x, y>> \in higher \/ <<y, x>> \in higher
  <2> HIDE DEF from
  <2>1. SUFFICES ASSUME NEW x \in from, NEW y \in from PROVE <<x, y>> \in higher \/ <<y, x>> \in higher
    OBVIOUS
  <2>2. PICK a, b \in Int : a = Priority[x] /\ b = Priority[y]
    BY <1>5
  <2>3. a <= b \/ b <= a
    OBVIOUS
  <2> QED BY <1>6, <2>2, <2>3
<1>8. \A x, y, z \in from : <<x, y>> \in higher /\ <<y, z>> \in higher => <<x, z>> \in higher
  <2> HIDE DEF from
  <2> QED BY <1>5, <1>6
<1>9. \E x \in from : \A y \in from : <<x, y>> \in higher
  <2> HIDE DEF from
  <2> QED BY <1>2, <1>4, <1>7, <1>8, HasBest
<1>10. PICK k \in EvidenceFor(i) : \A y \in from : Priority[y] <= Priority[plan.source[k[1]]]
  BY <1>6, <1>9
<1>11. \A o \in EvidenceFor(i) : Priority[plan.source[o[1]]] <= Priority[plan.source[k[1]]]
  BY <1>10
<1> QED BY <1>11 DEF Preferred

LEMMA FillingsTyped ==
  ASSUME Typed
  PROVE  {[place |-> i, contact |-> links[CHOOSE k \in Preferred(i) : TRUE].contact] :
            i \in {j \in DOMAIN places : places[j].contact = None /\ EvidenceFor(j) # {}}}
         \subseteq Filling
<1>1. SUFFICES ASSUME NEW i \in DOMAIN places, EvidenceFor(i) # {} PROVE
        [place |-> i, contact |-> links[CHOOSE k \in Preferred(i) : TRUE].contact] \in Filling
  OBVIOUS
<1>2. PICK k : k = CHOOSE j \in Preferred(i) : TRUE
  OBVIOUS
<1>3. k \in Preferred(i)
  BY <1>1, <1>2, SomePreferred
<1>4. links[k] # None /\ links[k].contact # None /\ k \in LinkKeys
  BY <1>3 DEF Preferred, EvidenceFor
<1>5. links[k] \in LinkRow(DOMAIN places)
  BY <1>4 DEF Typed
<1>6. links[k].contact \in Contacts
  BY <1>4, <1>5 DEF LinkRow
<1>7. i \in Nat
  BY IdsArePositive DEF Typed
<1> QED BY <1>2, <1>6, <1>7 DEF Filling

LEMMA IdleIsTyped ==
  ASSUME NEW P
  PROVE  Idle \in JobOver(P) /\ Holds(Idle, P)
BY DEF Idle, JobOver, Holds, Pcs

\* A process goes on, or ends.
LEMMA JobMoves ==
  ASSUME NEW P, JobsOver(job, P), NEW p \in Procs, NEW x, Goes(p, x),
         x \in JobOver(P), Holds(x, P)
  PROVE  JobsOver(job', P)
BY DEF JobsOver, Goes

\* When a place is added, the tables and the tools know its id, too.
LEMMA TypesGrow ==
  ASSUME NEW P, NEW Q, P \subseteq Q
  PROVE  /\ LinkRow(P) \subseteq LinkRow(Q)
         /\ RowOver(P) \subseteq RowOver(Q)
         /\ \A jobs : JobsOver(jobs, P) => JobsOver(jobs, Q)
<1>1. LinkRow(P) \subseteq LinkRow(Q)
  BY DEF LinkRow
<1>2. RowOver(P) \subseteq RowOver(Q)
  BY DEF RowOver
<1>3. LinkItem(P) \subseteq LinkItem(Q)
  BY DEF LinkItem
<1>4. QueueItem(P) \subseteq QueueItem(Q)
  BY DEF QueueItem
<1>5. Choice(P) \subseteq Choice(Q)
  BY DEF Choice
<1>6. Items(P) \subseteq Items(Q)
  BY <1>3, <1>5 DEF Items
<1>7. ASSUME NEW x \in JobOver(P), Holds(x, P)
      PROVE  x \in JobOver(Q) /\ Holds(x, Q)
  <2>1. x \in JobOver(Q)
    BY <1>4, <1>6 DEF JobOver
  <2>2. Holds(x, Q)
    BY <1>3, <1>5, <1>7 DEF Holds
  <2> QED BY <2>1, <2>2
<1>8. ASSUME NEW jobs, JobsOver(jobs, P) PROVE JobsOver(jobs, Q)
  BY <1>7, <1>8 DEF JobsOver
<1> QED BY <1>1, <1>2, <1>8

-----------------------------------------------------------------------------
(* Every step keeps the types. *)

\* A step that leaves the tables alone and lets a process go on.
LEMMA OnlyJobTyped ==
  ASSUME Typed, NEW p \in Procs, NEW x \in JobOver(DOMAIN places), Holds(x, DOMAIN places),
         Goes(p, x), UNCHANGED <<plan, places, links, queue, feed>>
  PROVE  Typed'
<1>1. JobsOver(job', DOMAIN places)
  BY JobMoves DEF Typed
<1>2. PlaceTable'
  BY DEF Typed, PlaceTable
<1> QED BY <1>1, <1>2 DEF Typed

LEMMA ReportTyped ==
  ASSUME Typed, NEW p \in Procs, NEW source \in Sources, Report(p, source)
  PROVE  Typed'
<1>1. PICK x : x = [Idle EXCEPT !.pc = "link", !.source = source,
                          !.todo = LinkItems(source), !.rows = ReviewItems(source)]
  OBVIOUS
<1>2. x = [pc |-> "link", source |-> source, mode |-> None, todo |-> LinkItems(source),
           rows |-> ReviewItems(source), ids |-> {}]
  BY <1>1 DEF Idle
<1>3. LinkItems(source) \subseteq LinkItem(DOMAIN places)
  BY LinkItemsTyped
<1>4. ReviewItems(source) \subseteq QueueItem(DOMAIN places)
  BY ReviewItemsTyped
<1>5. x \in JobOver(DOMAIN places)
  BY <1>2, <1>3, <1>4 DEF JobOver, Items, Pcs
<1>6. Holds(x, DOMAIN places)
  BY <1>2, <1>3 DEF Holds
<1> QED BY <1>1, <1>5, <1>6, OnlyJobTyped DEF Report

LEMMA WriteLinkTyped ==
  ASSUME Typed, NEW p \in Procs, WriteLink(p)
  PROVE  Typed'
<1> DEFINE D == DOMAIN places
<1>1. PICK x \in JobOver(D) : x = job[p]
  BY DEF Typed, JobsOver
<1>2. Holds(x, D) /\ x.pc = "link"
  BY <1>1 DEF Typed, JobsOver, WriteLink, At
<1>3. x.todo \subseteq LinkItem(D) /\ x.source \in Sources
  BY <1>2 DEF Holds
<1>4. CASE x.todo = {}
  <2>1. PICK next \in {"refresh", "queue"} : next = IF x.source = "osm" THEN "refresh" ELSE "queue"
    OBVIOUS
  <2>2. PICK y : y = [x EXCEPT !.pc = next]
    OBVIOUS
  <2>3. y \in JobOver(D) /\ y.pc = next /\ y.source = x.source
    BY <2>1, <2>2 DEF JobOver, Pcs
  <2>4. Holds(y, D)
    BY <1>3, <2>3 DEF Holds
  <2> HIDE DEF D
  <2>5. Goes(p, y) /\ UNCHANGED <<plan, places, links, queue, feed>>
    BY <1>1, <1>4, <2>1, <2>2 DEF WriteLink
  <2> QED BY <2>3, <2>4, <2>5, OnlyJobTyped DEF D
<1>5. CASE x.todo # {}
  <2>1. PICK item \in x.todo :
          /\ links' = [links EXCEPT ![Exported(item.record)] =
                         LinkTo(item.place, item.method, item.confidence, item.contact)]
          /\ Goes(p, [x EXCEPT !.todo = @ \ {item}])
    BY <1>1, <1>5 DEF WriteLink
  <2>2. item \in LinkItem(D)
    BY <1>3, <2>1
  <2>3. LinkTo(item.place, item.method, item.confidence, item.contact) \in LinkRow(D)
    BY <2>2 DEF LinkTo, LinkItem, LinkRow
  <2>4. links' \in [LinkKeys -> LinkRow(D) \cup {None}]
    BY <2>1, <2>3 DEF Typed
  <2>5. PICK y : y = [x EXCEPT !.todo = x.todo \ {item}]
    OBVIOUS
  <2>6. y \in JobOver(D) /\ y.pc = x.pc /\ y.source = x.source /\ y.todo \subseteq x.todo
    BY <2>5 DEF JobOver
  <2>7. Holds(y, D)
    BY <1>2, <1>3, <2>6 DEF Holds
  <2>8. Goes(p, y)
    BY <2>1, <2>5
  <2>9. JobsOver(job', D)
    BY <2>6, <2>7, <2>8, JobMoves DEF Typed
  <2>10. PlaceTable' /\ UNCHANGED <<plan, places, queue, feed>>
    BY DEF WriteLink, Typed, PlaceTable
  <2> QED BY <2>4, <2>9, <2>10 DEF Typed
<1> QED BY <1>4, <1>5

LEMMA RefreshEvidenceTyped ==
  ASSUME Typed, NEW p \in Procs, RefreshEvidence(p)
  PROVE  Typed'
<1> DEFINE D == DOMAIN places
<1>1. PICK x \in JobOver(D) : x = job[p]
  BY DEF Typed, JobsOver
<1>2. Holds(x, D) /\ x.pc = "refresh"
  BY <1>1 DEF Typed, JobsOver, RefreshEvidence, At
<1>3. ASSUME NEW k \in LinkKeys
      PROVE  links'[k] \in LinkRow(D) \cup {None}
  <2>1. links[k] \in LinkRow(D) \cup {None}
    BY DEF Typed
  <2>2. feed[k[1]].contact \in Contacts \cup {None}
    BY DEF Typed, LinkKeys, Evidence
  <2>3. links[k] \in LinkRow(D) => [links[k] EXCEPT !.contact = feed[k[1]].contact] \in LinkRow(D)
    BY <2>2 DEF LinkRow
  <2>4. \/ links'[k] = links[k]
        \/ links[k] # None /\ links'[k] = [links[k] EXCEPT !.contact = feed[k[1]].contact]
    BY DEF RefreshEvidence
  <2> QED BY <2>1, <2>3, <2>4
<1>4. links' \in [LinkKeys -> LinkRow(D) \cup {None}]
  <2>1. DOMAIN links' = LinkKeys /\ links' = [k \in LinkKeys |-> links'[k]]
    BY DEF RefreshEvidence
  <2> QED BY <1>3, <2>1
<1>5. PICK y : y = [x EXCEPT !.pc = "queue"]
  OBVIOUS
<1>6. y \in JobOver(D) /\ y.pc = "queue" /\ y.source = x.source
  BY <1>5 DEF JobOver, Pcs
<1>7. Holds(y, D)
  BY <1>2, <1>6 DEF Holds
<1>8. JobsOver(job', D)
  BY <1>1, <1>5, <1>6, <1>7, JobMoves DEF Typed, RefreshEvidence
<1>9. PlaceTable' /\ UNCHANGED <<plan, places, queue, feed>>
  BY DEF RefreshEvidence, Typed, PlaceTable
<1> QED BY <1>4, <1>8, <1>9 DEF Typed

LEMMA UpsertedTyped ==
  ASSUME NEW P, NEW row \in RowOver(P) \cup {None}, NEW item \in QueueItem(P)
  PROVE  Upserted(row, item) \in RowOver(P) \cup {None}
<1>1. NewRow(item) \in RowOver(P)
  BY DEF NewRow, QueueItem, RowOver, Statuses
<1>2. ASSUME row # None
      PROVE [row EXCEPT !.data = item.data, !.nearest = item.nearest,
                        !.distance = item.distance, !.score = item.score] \in RowOver(P)
  BY <1>2 DEF QueueItem, RowOver
<1> QED BY <1>1, <1>2 DEF Upserted

LEMMA QueueRowTyped ==
  ASSUME Typed, NEW p \in Procs, QueueRow(p)
  PROVE  Typed'
<1> DEFINE D == DOMAIN places
<1>1. PICK x \in JobOver(D) : x = job[p]
  BY DEF Typed, JobsOver
<1>2. Holds(x, D) /\ x.pc = "queue"
  BY <1>1 DEF Typed, JobsOver, QueueRow, At
<1>3. x.source \in Sources /\ x.rows \subseteq QueueItem(D)
  BY <1>2 DEF Holds, JobOver
<1>4. CASE x.rows = {}
  <2>1. CASE ModeOf(x.source) = None
    <3>1. Goes(p, Idle) /\ UNCHANGED <<plan, places, links, queue, feed>>
      BY <1>1, <1>4, <2>1 DEF QueueRow, Ends
    <3> QED BY <3>1, IdleIsTyped, OnlyJobTyped
  <2>2. CASE ModeOf(x.source) # None
    <3>1. PICK mode : mode = ModeOf(x.source)
      OBVIOUS
    <3>2. mode \in Modes
      BY <1>3, <2>2, <3>1 DEF ModeOf, Sources, Modes
    <3>3. PICK y : y = [x EXCEPT !.pc = "candidates", !.mode = mode]
      OBVIOUS
    <3>4. y \in JobOver(D) /\ y.pc = "candidates" /\ y.mode = mode /\ y.source = x.source
      BY <3>2, <3>3 DEF JobOver, Pcs
    <3>5. Holds(y, D)
      BY <1>3, <3>2, <3>4 DEF Holds
    <3> HIDE DEF D
    <3>6. Goes(p, y) /\ UNCHANGED <<plan, places, links, queue, feed>>
      BY <1>1, <1>4, <2>2, <3>1, <3>3 DEF QueueRow
    <3> QED BY <3>4, <3>5, <3>6, OnlyJobTyped DEF D
  <2> QED BY <2>1, <2>2
<1>5. CASE x.rows # {}
  <2>1. PICK item \in x.rows :
          /\ queue' = [queue EXCEPT ![<<item.record, item.kind>>] = Upserted(@, item)]
          /\ Goes(p, [x EXCEPT !.rows = @ \ {item}])
    BY <1>1, <1>5 DEF QueueRow
  <2>2. PICK k : k = <<item.record, item.kind>>
    OBVIOUS
  <2>3. item \in QueueItem(D) /\ k \in Records \X Kinds
    BY <1>3, <2>1, <2>2 DEF QueueItem
  <2>4. Upserted(queue[k], item) \in RowOver(D) \cup {None}
    BY <2>3, UpsertedTyped DEF Typed
  <2>5. queue' \in [Records \X Kinds -> RowOver(D) \cup {None}]
    BY <2>1, <2>2, <2>3, <2>4 DEF Typed
  <2>6. PICK y : y = [x EXCEPT !.rows = x.rows \ {item}]
    OBVIOUS
  <2>7. y \in JobOver(D) /\ y.pc = x.pc /\ y.source = x.source
    BY <2>6 DEF JobOver
  <2>8. Holds(y, D)
    BY <1>2, <1>3, <2>7 DEF Holds
  <2>9. JobsOver(job', D)
    BY <2>1, <2>6, <2>7, <2>8, JobMoves DEF Typed
  <2>10. PlaceTable' /\ UNCHANGED <<plan, places, links, feed>>
    BY DEF QueueRow, Typed, PlaceTable
  <2> QED BY <2>5, <2>9, <2>10 DEF Typed
<1> QED BY <1>4, <1>5

LEMMA AutoLinkTyped ==
  ASSUME Typed, NEW p \in Procs, NEW source \in Sources,
         NEW mode \in {"score_distance", "brand_rules"}, AutoLink(p, source, mode)
  PROVE  Typed'
<1>1. PICK x : x = [Idle EXCEPT !.pc = "candidates", !.source = source, !.mode = mode]
  OBVIOUS
<1>2. x = [pc |-> "candidates", source |-> source, mode |-> mode, todo |-> {}, rows |-> {}, ids |-> {}]
  BY <1>1 DEF Idle
<1>3. x \in JobOver(DOMAIN places) /\ Holds(x, DOMAIN places)
  BY <1>2 DEF JobOver, Pcs, Holds, Modes
<1> QED BY <1>1, <1>3, OnlyJobTyped DEF AutoLink

LEMMA AutoLinkReadTyped ==
  ASSUME Typed, NEW p \in Procs, AutoLinkRead(p)
  PROVE  Typed'
<1> DEFINE D == DOMAIN places
<1>1. PICK x \in JobOver(D) : x = job[p]
  BY DEF Typed, JobsOver
<1>2. Holds(x, D) /\ x.pc = "candidates"
  BY <1>1 DEF Typed, JobsOver, AutoLinkRead, At
<1>3. PICK chosen : chosen =
        {[record |-> r, place |-> Row(r, "ambiguous").nearest,
          contact |-> Row(r, "ambiguous").data.contact, fresh |-> links[Exported(r)] = None] :
            r \in {q \in RecordsOf(x.source) : AutoLinkable(q, x.mode)}}
  OBVIOUS
<1>4. chosen \subseteq Choice(D)
  BY <1>3, ChoicesTyped
<1>5. PICK y : y = [x EXCEPT !.pc = "auto_link", !.todo = chosen]
  OBVIOUS
<1>6. y \in JobOver(D) /\ y.pc = "auto_link" /\ y.todo = chosen /\ y.mode = x.mode /\ y.source = x.source
  BY <1>4, <1>5 DEF JobOver, Pcs, Items
<1>7. Holds(y, D)
  BY <1>2, <1>4, <1>6 DEF Holds
<1>8. Goes(p, y) /\ UNCHANGED <<plan, places, links, queue, feed>>
  BY <1>1, <1>3, <1>5 DEF AutoLinkRead
<1> QED BY <1>6, <1>7, <1>8, OnlyJobTyped

LEMMA AutoLinkApplyTyped ==
  ASSUME Typed, NEW p \in Procs, AutoLinkApply(p)
  PROVE  Typed'
<1> DEFINE D == DOMAIN places
<1>1. PICK x \in JobOver(D) : x = job[p]
  BY DEF Typed, JobsOver
<1>2. Holds(x, D) /\ x.pc = "auto_link"
  BY <1>1 DEF Typed, JobsOver, AutoLinkApply, At
<1>3. x.todo \subseteq Choice(D) /\ AutoMethod(x.mode) \in Methods
  BY <1>2 DEF Holds, AutoMethod, Modes, Methods
<1> DEFINE chosen(r) == {c \in x.todo : c.record = r}
           written == {c \in x.todo : c.fresh \/ x.mode = "exact_source_id"}
           linkOf(k) == CHOOSE c \in written : k = Exported(c.record)
           chosenFor(k) == CHOOSE c \in chosen(k[1]) : TRUE
<1>4. /\ links' = [k \in LinkKeys |->
             IF \E c \in written : k = Exported(c.record)
             THEN LinkTo(linkOf(k).place, AutoMethod(x.mode), 100, linkOf(k).contact)
             ELSE links[k]]
      /\ queue' = [k \in DOMAIN queue |->
             IF k[2] = "ambiguous" /\ chosen(k[1]) # {} /\ HasRow(k[1], k[2], "pending")
             THEN [queue[k] EXCEPT !.status = "linked", !.place = chosenFor(k).place]
             ELSE queue[k]]
      /\ Goes(p, Idle) /\ UNCHANGED <<plan, places, feed>>
  BY ZenonT(60), <1>1 DEF AutoLinkApply, Ends
<1>5. ASSUME NEW k \in LinkKeys, \E c \in written : k = Exported(c.record)
      PROVE  LinkTo(linkOf(k).place, AutoMethod(x.mode), 100, linkOf(k).contact) \in LinkRow(D)
  <2>1. linkOf(k) \in Choice(D)
    BY <1>3, <1>5
  <2> HIDE DEF linkOf
  <2> QED BY <1>3, <2>1 DEF LinkTo, Choice, LinkRow
<1>6. ASSUME NEW k \in Records \X Kinds, chosen(k[1]) # {}, queue[k] # None
      PROVE  [queue[k] EXCEPT !.status = "linked", !.place = chosenFor(k).place] \in RowOver(D)
  <2>1. chosenFor(k) \in Choice(D)
    BY <1>3, <1>6
  <2>2. chosenFor(k).place \in D
    BY <2>1 DEF Choice
  <2>3. queue[k] \in RowOver(D)
    BY <1>6 DEF Typed
  <2> HIDE DEF chosenFor
  <2> QED BY <2>2, <2>3 DEF RowOver, Statuses
<1>7. links' \in [LinkKeys -> LinkRow(D) \cup {None}]
  <2> HIDE DEF written, linkOf
  <2> QED BY <1>4, <1>5 DEF Typed
<1>8. queue' \in [Records \X Kinds -> RowOver(D) \cup {None}]
  <2>1. \A k \in Records \X Kinds : k = <<k[1], k[2]>>
    OBVIOUS
  <2>2. \A k \in Records \X Kinds : HasRow(k[1], k[2], "pending") => queue[k] # None
    BY <2>1 DEF HasRow, Row
  <2> HIDE DEF chosen, chosenFor
  <2> QED BY <1>4, <1>6, <2>2 DEF Typed
<1>9. JobsOver(job', D)
  BY <1>4, IdleIsTyped, JobMoves DEF Typed
<1>10. PlaceTable'
  BY <1>4 DEF Typed, PlaceTable
<1> QED BY <1>4, <1>7, <1>8, <1>9, <1>10 DEF Typed

LEMMA BatchTyped ==
  ASSUME Typed, NEW p \in Procs, NEW source \in Sources, Batch(p, source)
  PROVE  Typed'
<1>1. PICK x : x = [Idle EXCEPT !.pc = "accept", !.source = source, !.ids = Acceptable(source)]
  OBVIOUS
<1>2. x = [pc |-> "accept", source |-> source, mode |-> None, todo |-> {}, rows |-> {},
           ids |-> Acceptable(source)]
  BY <1>1 DEF Idle
<1>3. Acceptable(source) \subseteq Records
  BY DEF Acceptable, RecordsOf
<1>4. x \in JobOver(DOMAIN places) /\ Holds(x, DOMAIN places)
  BY <1>2, <1>3 DEF JobOver, Pcs, Holds
<1> QED BY <1>1, <1>4, OnlyJobTyped DEF Batch

LEMMA AcceptReadTyped ==
  ASSUME Typed, NEW p \in Procs, AcceptRead(p)
  PROVE  Typed'
<1> DEFINE D == DOMAIN places
<1>1. PICK x \in JobOver(D) : x = job[p]
  BY DEF Typed, JobsOver
<1>0. PICK judgments : judgments =
        {[record |-> r, judged |-> Row(r, "likely_new").data] : r \in Acceptable(x.source)}
  OBVIOUS
<1>2. judgments \subseteq Judgment
  <2>1. ASSUME NEW r \in Acceptable(x.source)
        PROVE  [record |-> r, judged |-> Row(r, "likely_new").data] \in Judgment
    <3>1. r \in Records /\ Row(r, "likely_new") # None
      BY DEF Acceptable, RecordsOf, HasRow
    <3>2. Row(r, "likely_new") \in RowOver(D)
      BY <3>1, RowIsTyped DEF Kinds
    <3> QED BY <3>1, <3>2 DEF RowOver, Judgment
  <2> QED BY <1>0, <2>1
<1>3. PICK y : y = [x EXCEPT !.pc = "accepting", !.todo = judgments]
  OBVIOUS
<1>4. y \in JobOver(D) /\ y.pc = "accepting" /\ y.todo = judgments
  BY <1>2, <1>3 DEF JobOver, Pcs, Items
<1>5. Holds(y, D)
  BY <1>2, <1>4 DEF Holds
<1>6. Goes(p, y)
  BY <1>0, <1>1, <1>3 DEF AcceptRead
<1> QED BY <1>4, <1>5, <1>6, OnlyJobTyped DEF AcceptRead

LEMMA DecidedTyped ==
  ASSUME NEW P, NEW row \in RowOver(P), NEW status \in Statuses, NEW data \in Evidence
  PROVE  Decided(row, status, data) \in RowOver(P)
BY DEF Decided, RowOver

LEMMA AcceptWriteTyped ==
  ASSUME Typed, NEW p \in Procs, AcceptWrite(p)
  PROVE  Typed'
<1> DEFINE D == DOMAIN places
<1>1. PICK x \in JobOver(D) : x = job[p]
  BY DEF Typed, JobsOver
<1>2. \A k \in Records \X Kinds : HasRow(k[1], k[2], "pending") => queue[k] \in RowOver(D)
  <2>1. \A k \in Records \X Kinds : k = <<k[1], k[2]>>
    OBVIOUS
  <2> QED BY <2>1 DEF HasRow, Row, Typed
<1>9. \A k \in Records \X Kinds : (\E c \in x.todo : c.record = k[1]) =>
        (CHOOSE c \in x.todo : c.record = k[1]).judged \in Evidence
  <2>1. x.todo \subseteq Judgment
    BY <1>1 DEF AcceptWrite, At, Typed, JobsOver, Holds
  <2> QED BY <2>1 DEF Judgment
<1>3. queue' \in [Records \X Kinds -> RowOver(D) \cup {None}]
  <2>1. queue' = [k \in Records \X Kinds |-> queue'[k]]
    BY DEF AcceptWrite, Typed
  <2>2. ASSUME NEW k \in Records \X Kinds PROVE queue'[k] \in RowOver(D) \cup {None}
    <3>1. \/ queue'[k] = queue[k]
          \/ /\ HasRow(k[1], k[2], "pending") /\ \E c \in x.todo : c.record = k[1]
             /\ queue'[k] = Decided(queue[k], "accepted", (CHOOSE c \in x.todo : c.record = k[1]).judged)
      BY <1>1 DEF AcceptWrite, Typed
    <3>2. PICK data : data = (CHOOSE c \in x.todo : c.record = k[1]).judged
      OBVIOUS
    <3>3. (\E c \in x.todo : c.record = k[1]) => data \in Evidence
      BY <1>9, <3>2
    <3>4. queue[k] \in RowOver(D) \cup {None}
      BY DEF Typed
    <3>5. "accepted" \in Statuses
      BY DEF Statuses
    <3> QED BY <1>2, <3>1, <3>2, <3>3, <3>4, <3>5, DecidedTyped
  <2> QED BY <2>1, <2>2
<1>4. PICK y : y = [x EXCEPT !.pc = "preflight", !.todo = {}]
  OBVIOUS
<1>5. y \in JobOver(D) /\ y.pc = "preflight"
  BY <1>4 DEF JobOver, Pcs
<1>6. Holds(y, D)
  BY <1>5 DEF Holds
<1>7. JobsOver(job', D)
  BY <1>1, <1>4, <1>5, <1>6, JobMoves DEF Typed, AcceptWrite
<1>8. PlaceTable' /\ UNCHANGED <<plan, places, links, feed>>
  BY DEF AcceptWrite, Typed, PlaceTable
<1> QED BY <1>3, <1>7, <1>8 DEF Typed

LEMMA PreflightTyped ==
  ASSUME Typed, NEW p \in Procs, Preflight(p)
  PROVE  Typed'
<1> DEFINE D == DOMAIN places
<1>1. PICK x \in JobOver(D) : x = job[p]
  BY DEF Typed, JobsOver
<1>2. PICK ready : ready = Ready(Candidates(x.ids))
  OBVIOUS
<1>3. ready \subseteq Candidate
  BY <1>2, ReadyTyped DEF JobOver
<1>4. PICK y : y = [x EXCEPT !.pc = "import", !.todo = ready]
  OBVIOUS
<1>5. y \in JobOver(D) /\ y.pc = "import" /\ y.todo = ready
  BY <1>3, <1>4 DEF JobOver, Pcs, Items
<1>6. Holds(y, D)
  BY <1>3, <1>5 DEF Holds
<1> QED BY <1>1, <1>2, <1>4, <1>5, <1>6, OnlyJobTyped DEF Preflight

\* An import adds the next id to the table, or an id stands for a place that is there.
LEMMA ImportAdds ==
  ASSUME Typed, NEW p \in Procs, NEW c, Import(p, c)
  PROVE  LET id == Cardinality(DOMAIN places) + 1 IN
         /\ id \in 1..MaxPlaces /\ id \notin DOMAIN places
         /\ DOMAIN places = 1..(id - 1) /\ DOMAIN places' = 1..id
         /\ places'[id] = NewPlace(c)
         /\ \A i \in DOMAIN places :
              places'[i] = IF i \in Holders(places, c.key)
                           THEN [places[i] EXCEPT !.historical = TRUE, !.life = "replaced"]
                           ELSE places[i]
<1>1. PICK n \in 0..MaxPlaces : places \in [1..n -> Places]
  BY DEF Typed, PlaceTable
<1>2. n \in Nat /\ DOMAIN places = 1..n
  BY <1>1, ReviewAssumption
<1>3. Cardinality(1..n) = n
  BY <1>2, FS_Interval
<1>4. n < MaxPlaces
  BY <1>2, <1>3 DEF Import
<1>5. places' = [i \in 1..(n + 1) |->
                   IF i = n + 1 THEN NewPlace(c)
                   ELSE IF i \in Holders(places, c.key)
                        THEN [places[i] EXCEPT !.historical = TRUE, !.life = "replaced"] ELSE places[i]]
  BY <1>2, <1>3 DEF Import
<1>6. /\ DOMAIN places' = 1..(n + 1)
      /\ places'[n + 1] = NewPlace(c)
      /\ \A i \in 1..n : places'[i] = IF i \in Holders(places, c.key)
                           THEN [places[i] EXCEPT !.historical = TRUE, !.life = "replaced"]
                           ELSE places[i]
  <2>1. n + 1 \in 1..(n + 1) /\ \A i \in 1..n : i \in 1..(n + 1) /\ i # n + 1
    BY <1>2
  <2> QED BY <1>5, <2>1
<1>7. n + 1 \in 1..MaxPlaces /\ n + 1 \notin 1..n /\ (n + 1) - 1 = n
  BY <1>2, <1>4, ReviewAssumption
<1> QED BY <1>2, <1>3, <1>6, <1>7

LEMMA ImportTyped ==
  ASSUME Typed, Reviewed, NEW p \in Procs, NEW c \in job[p].todo, Import(p, c)
  PROVE  Typed'
<1> DEFINE D == DOMAIN places
<1>0. MaxPlaces \in Nat
  BY ReviewAssumption
<1>1. PICK x \in JobOver(D) : x = job[p]
  BY DEF Typed, JobsOver
<1>2. Holds(x, D) /\ x.pc = "import"
  BY <1>1 DEF Typed, JobsOver, Import, At
<1>3. c \in Candidate
  BY <1>1, <1>2 DEF Holds
<1>4. PICK id \in 1..MaxPlaces : id = Cardinality(DOMAIN places) + 1
  BY ImportAdds
<1>5. /\ D = 1..(id - 1) /\ DOMAIN places' = 1..id
      /\ places'[id] = NewPlace(c)
      /\ \A i \in D : places'[i] = IF i \in Holders(places, c.key)
                                   THEN [places[i] EXCEPT !.historical = TRUE, !.life = "replaced"]
                                   ELSE places[i]
  BY <1>4, ImportAdds
<1> HIDE DEF D
<1>6. id \in Nat /\ id # 0 /\ D \subseteq DOMAIN places' /\ id \in DOMAIN places'
  <2>1. id \in Nat /\ id # 0
    BY <1>0
  <2>2. \A i \in 1..(id - 1) : i \in 1..id
    BY <2>1
  <2>3. id \in 1..id
    BY <2>1
  <2> QED BY <1>5, <2>1, <2>2, <2>3
<1>7. NewPlace(c) \in Places
  <2>1. c.key \in Records /\ c.data \in Evidence
    BY <1>3 DEF Candidate
  <2>2. CanonicalName(c.key, c.data.name) \in Names
    BY <2>1, ReviewAssumption DEF CanonicalName, Evidence
  <2> QED BY <2>1, <2>2 DEF NewPlace, Evidence, Places, Lives
<1>8. \A i \in D : places'[i] \in Places
  <2>1. \A i \in D : places[i] \in Places
    BY IdsArePositive DEF Typed, D
  <2>2. \A q \in Places : [q EXCEPT !.historical = TRUE, !.life = "replaced"] \in Places
    BY DEF Places, Lives
  <2> QED BY <1>5, <2>1, <2>2
<1>9. \A i \in DOMAIN places' : i \in D \/ i = id
  <2>1. \A i \in 1..id : i \in 1..(id - 1) \/ i = id
    BY <1>6
  <2> QED BY <1>5, <2>1
<1>10. places' \in [1..id -> Places]
  <2>1. places' = [i \in 1..id |-> places'[i]]
    BY <1>4, <1>5 DEF Import
  <2> QED BY <1>5, <1>7, <1>8, <1>9, <2>1
<1>11. PlaceTable'
  <2>1. id \in 0..MaxPlaces
    BY <1>0
  <2> QED BY <1>10, <2>1 DEF PlaceTable
<1>12. links' \in [LinkKeys -> LinkRow(DOMAIN places') \cup {None}]
  <2>1. links' = [links EXCEPT ![Bare(c.key)] = LinkTo(id, "reviewed_new_import", 100, c.data.contact)]
    BY <1>4 DEF Import
  <2>2. c.data.contact \in Contacts \cup {None}
    BY <1>3 DEF Candidate, Evidence
  <2>3. LinkTo(id, "reviewed_new_import", 100, c.data.contact) \in LinkRow(DOMAIN places')
    BY <1>6, <2>2 DEF LinkTo, LinkRow, Methods
  <2>4. LinkRow(D) \subseteq LinkRow(DOMAIN places')
    BY <1>6, TypesGrow
  <2> QED BY <2>1, <2>3, <2>4 DEF Typed, D
<1>13. queue' \in [Records \X Kinds -> RowOver(DOMAIN places') \cup {None}]
  <2>1. PICK k : k = <<c.key, "likely_new">>
    OBVIOUS
  <2>2. queue' = [queue EXCEPT ![k] = [queue[k] EXCEPT !.status = "linked", !.imported = TRUE, !.place = id]]
    BY <1>4, <2>1 DEF Import
  <2>3. k \in Records \X Kinds
    BY <1>3, <2>1 DEF Candidate, Kinds
  <2>4. RowOver(D) \subseteq RowOver(DOMAIN places')
    BY <1>6, TypesGrow
  <2>5. queue[k] \in RowOver(DOMAIN places')
    <3>1. queue[k] \in RowOver(D)
      BY <1>1, <1>2, <2>1 DEF Reviewed, Unchanged, Row, D
    <3> QED BY <2>4, <3>1
  <2>6. [queue[k] EXCEPT !.status = "linked", !.imported = TRUE, !.place = id] \in RowOver(DOMAIN places')
    BY <1>6, <2>5 DEF RowOver, Statuses
  <2> QED BY <2>2, <2>4, <2>6 DEF Typed, D
<1>14. JobsOver(job', DOMAIN places')
  <2>1. PICK y : y = [x EXCEPT !.todo = x.todo \ {c}]
    OBVIOUS
  <2>2. y \in JobOver(D) /\ y.pc = "import" /\ y.todo \subseteq x.todo
    BY <1>2, <2>1 DEF JobOver
  <2>3. Holds(y, D)
    BY <1>2, <2>2 DEF Holds
  <2>4. Goes(p, y)
    BY <1>1, <2>1 DEF Import
  <2>5. JobsOver(job', D)
    BY <2>2, <2>3, <2>4, JobMoves DEF Typed, D
  <2> QED BY <1>6, <2>5, TypesGrow
<1>15. plan' = plan /\ feed' = feed
  BY DEF Import
<1> QED BY <1>11, <1>12, <1>13, <1>14, <1>15 DEF Typed

LEMMA EndsTyped ==
  ASSUME Typed, NEW p \in Procs, Ends(p), UNCHANGED <<plan, places, links, queue, feed>>
  PROVE  Typed'
BY IdleIsTyped, OnlyJobTyped DEF Ends

LEMMA PromoteTyped ==
  ASSUME Typed, NEW p \in Procs, Promote(p)
  PROVE  Typed'
<1>1. PICK fill : fill =
        {[place |-> i, contact |-> links[CHOOSE k \in Preferred(i) : TRUE].contact] :
            i \in {j \in DOMAIN places : places[j].contact = None /\ EvidenceFor(j) # {}}}
  OBVIOUS
<1>2. fill \subseteq Filling
  BY <1>1, FillingsTyped
<1>3. PICK x : x = [Idle EXCEPT !.pc = "fill", !.todo = fill]
  OBVIOUS
<1>4. x = [pc |-> "fill", source |-> None, mode |-> None, todo |-> fill, rows |-> {}, ids |-> {}]
  BY <1>3 DEF Idle
<1>5. x \in JobOver(DOMAIN places) /\ Holds(x, DOMAIN places)
  BY <1>2, <1>4 DEF JobOver, Pcs, Items, Holds
<1>6. Goes(p, x) /\ UNCHANGED <<plan, places, links, queue, feed>>
  BY <1>1, <1>3 DEF Promote
<1> QED BY <1>5, <1>6, OnlyJobTyped

\* One row of the canonical table changes to another.
LEMMA PlaceChanges ==
  ASSUME PlaceTable, NEW i, NEW new, i \in DOMAIN places => new \in Places,
         places' = [places EXCEPT ![i] = new]
  PROVE  PlaceTable' /\ DOMAIN places' = DOMAIN places
<1>1. PICK n \in 0..MaxPlaces : places \in [1..n -> Places]
  BY DEF PlaceTable
<1>2. places' \in [1..n -> Places]
  BY <1>1
<1> QED BY <1>1, <1>2 DEF PlaceTable

LEMMA PromoteWriteTyped ==
  ASSUME Typed, NEW p \in Procs, PromoteWrite(p)
  PROVE  Typed'
<1> DEFINE D == DOMAIN places
<1>1. PICK x \in JobOver(D) : x = job[p]
  BY DEF Typed, JobsOver
<1>2. Holds(x, D) /\ x.pc = "fill"
  BY <1>1 DEF Typed, JobsOver, PromoteWrite, At
<1>3. CASE x.todo = {}
  BY <1>1, <1>3, EndsTyped DEF PromoteWrite
<1>4. CASE x.todo # {}
  <2>1. PICK item \in x.todo :
          /\ places' = [places EXCEPT ![item.place].contact = Filled(@, item.contact)]
          /\ Goes(p, [x EXCEPT !.todo = @ \ {item}])
    BY <1>1, <1>4 DEF PromoteWrite
  <2>2. item.contact \in Contacts
    BY <1>2, <2>1 DEF Holds, Filling
  <2>3. PICK i : i = item.place
    OBVIOUS
  <2>4. PICK new : new = [places[i] EXCEPT !.contact = Filled(places[i].contact, item.contact)]
    OBVIOUS
  <2>5. i \in D => new \in Places
    <3>1. ASSUME i \in D PROVE places[i] \in Places
      BY <3>1, IdsArePositive DEF Typed
    <3>2. ASSUME i \in D PROVE Filled(places[i].contact, item.contact) \in Contacts \cup {None}
      BY <2>2, <3>1, <3>2 DEF Filled, Places
    <3> QED BY <2>4, <3>1, <3>2 DEF Places
  <2>6. places' = [places EXCEPT ![i] = new]
    BY <2>1, <2>3, <2>4
  <2>7. PlaceTable' /\ DOMAIN places' = D
    BY <2>5, <2>6, PlaceChanges DEF Typed
  <2>8. PICK y : y = [x EXCEPT !.todo = x.todo \ {item}]
    OBVIOUS
  <2>9. y \in JobOver(D) /\ y.pc = "fill" /\ y.todo \subseteq x.todo
    BY <1>2, <2>8 DEF JobOver
  <2>10. Holds(y, D)
    BY <1>2, <2>9 DEF Holds
  <2>11. JobsOver(job', D)
    BY <2>1, <2>8, <2>9, <2>10, JobMoves DEF Typed
  <2>12. UNCHANGED <<plan, links, queue, feed>>
    BY DEF PromoteWrite
  <2> QED BY <2>7, <2>11, <2>12 DEF Typed
<1> QED BY <1>3, <1>4

LEMMA DecideTyped ==
  ASSUME Typed, NEW k \in Records \X Kinds, NEW status \in {"accepted", "rejected", "ignored"},
         Decide(k, status)
  PROVE  Typed'
<1>1. queue[k] \in RowOver(DOMAIN places)
  BY DEF Decide, Typed
<1>2. Decided(queue[k], status, queue[k].data) \in RowOver(DOMAIN places)
  BY <1>1, DecidedTyped DEF Statuses, RowOver
<1>3. queue' \in [Records \X Kinds -> RowOver(DOMAIN places) \cup {None}]
  BY <1>2 DEF Decide, Typed
<1>4. PlaceTable' /\ UNCHANGED <<plan, places, links, feed, job>>
  BY DEF Decide, Typed, PlaceTable
<1> QED BY <1>3, <1>4 DEF Typed

LEMMA CloseTyped ==
  ASSUME Typed, NEW i \in DOMAIN places, Close(i)
  PROVE  Typed' /\ places' = [places EXCEPT ![i] = [places[i] EXCEPT !.life = "closed", !.closedOnce = TRUE]]
<1>1. PICK new : new = [places[i] EXCEPT !.life = "closed", !.closedOnce = TRUE]
  OBVIOUS
<1>2. new \in Places
  BY <1>1, IdsArePositive DEF Typed, Places, Lives
<1>3. places' = [places EXCEPT ![i] = new]
  BY <1>1 DEF Close
<1>4. PlaceTable' /\ DOMAIN places' = DOMAIN places
  BY <1>2, <1>3, PlaceChanges DEF Typed
<1>5. UNCHANGED <<plan, links, queue, feed, job>>
  BY DEF Close
<1> QED BY <1>1, <1>3, <1>4, <1>5 DEF Typed

LEMMA FillContactTyped ==
  ASSUME Typed, NEW i \in DOMAIN places, NEW contact \in Contacts, FillContact(i, contact)
  PROVE  Typed' /\ places' = [places EXCEPT ![i] = [places[i] EXCEPT !.contact = contact]]
<1>1. PICK new : new = [places[i] EXCEPT !.contact = contact]
  OBVIOUS
<1>2. new \in Places
  BY <1>1, IdsArePositive DEF Typed, Places
<1>3. places' = [places EXCEPT ![i] = new]
  BY <1>1 DEF FillContact
<1>4. PlaceTable' /\ DOMAIN places' = DOMAIN places
  BY <1>2, <1>3, PlaceChanges DEF Typed
<1>5. UNCHANGED <<plan, links, queue, feed, job>>
  BY DEF FillContact
<1> QED BY <1>1, <1>3, <1>4, <1>5 DEF Typed

LEMMA CorrectTyped ==
  ASSUME Typed, NEW r \in Records, Correct(r)
  PROVE  Typed'
<1>1. PICK new \in plan.corrections[r] : feed' = [feed EXCEPT ![r] = new]
  BY DEF Correct
<1>2. new \in Evidence
  BY <1>1, PlanIsTyped
<1>3. feed' \in [Records -> Evidence]
  BY <1>1, <1>2 DEF Typed
<1>4. PlaceTable' /\ UNCHANGED <<plan, places, links, queue, job>>
  BY DEF Correct, Typed, PlaceTable
<1> QED BY <1>3, <1>4 DEF Typed

LEMMA TypedKept ==
  ASSUME Typed, Reviewed, [Next]_vars
  PROVE  Typed'
<1>1. ASSUME NEW p \in Procs, ToolStep(p) PROVE Typed'
  <2>1. ASSUME NEW source \in Sources, Report(p, source) PROVE Typed'
    BY <2>1, ReportTyped
  <2>2. ASSUME NEW source \in Sources, Batch(p, source) PROVE Typed'
    BY <2>2, BatchTyped
  <2>3. ASSUME NEW source \in Sources, NEW mode \in {"score_distance", "brand_rules"},
               AutoLink(p, source, mode)
        PROVE  Typed'
    BY <2>3, AutoLinkTyped
  <2>4. CASE WriteLink(p)
    BY <2>4, WriteLinkTyped
  <2>5. CASE RefreshEvidence(p)
    BY <2>5, RefreshEvidenceTyped
  <2>6. CASE QueueRow(p)
    BY <2>6, QueueRowTyped
  <2>7. CASE AutoLinkRead(p)
    BY <2>7, AutoLinkReadTyped
  <2>8. CASE AutoLinkApply(p)
    BY <2>8, AutoLinkApplyTyped
  <2>9. CASE AcceptRead(p)
    BY <2>9, AcceptReadTyped
  <2>10. CASE AcceptWrite(p)
    BY <2>10, AcceptWriteTyped
  <2>11. CASE Preflight(p)
    BY <2>11, PreflightTyped
  <2>12. ASSUME NEW c \in job[p].todo, Import(p, c) PROVE Typed'
    BY <2>12, ImportTyped
  <2>13. CASE ImportEnds(p)
    BY <2>13, EndsTyped DEF ImportEnds
  <2>14. CASE Promote(p)
    BY <2>14, PromoteTyped
  <2>15. CASE PromoteWrite(p)
    BY <2>15, PromoteWriteTyped
  <2>16. CASE Kill(p)
    BY <2>16, EndsTyped DEF Kill
  <2> QED
    BY <1>1, <2>1, <2>2, <2>3, <2>4, <2>5, <2>6, <2>7, <2>8, <2>9, <2>10, <2>11, <2>12, <2>13,
       <2>14, <2>15, <2>16 DEF ToolStep
<1>2. ASSUME Around PROVE Typed'
  <2>1. DOMAIN queue = Records \X Kinds
    BY DEF Typed
  <2> QED BY <1>2, <2>1, DecideTyped, CloseTyped, FillContactTyped, CorrectTyped DEF Around
<1>3. CASE UNCHANGED vars
  BY <1>3 DEF vars, Typed, PlaceTable
<1> QED BY <1>1, <1>2, <1>3 DEF Next

-----------------------------------------------------------------------------
(* What becomes of a place: it keeps its identity, its position and its    *)
(* name, it is not reopened, and only a place that is not in use or that a *)
(* reviewer closes is no longer in use.                                    *)
InUse(place) == Open(place) /\ ~place.historical
Later(old, new) ==
  /\ new.pos = old.pos /\ new.name = old.name /\ new.key = old.key /\ new.via = old.via
  /\ old.closedOnce => new.closedOnce
  /\ InUse(old) => InUse(new) \/ new.closedOnce
  /\ Open(new) => Open(old)
  /\ old.contact # None => new.contact = old.contact

LEMMA Same ==
  ASSUME UNCHANGED places
  PROVE  /\ DOMAIN places' = DOMAIN places
         /\ \A i \in DOMAIN places : places'[i] = places[i] /\ Later(places[i], places'[i])
BY DEF Later

LEMMA ImportLater ==
  ASSUME Typed, NEW p \in Procs, NEW c, Import(p, c), NEW i \in DOMAIN places
  PROVE  i \in DOMAIN places' /\ Later(places[i], places'[i])
<1>1. PICK id : id = Cardinality(DOMAIN places) + 1
  OBVIOUS
<1>2. /\ id \in 1..MaxPlaces
      /\ DOMAIN places = 1..(id - 1) /\ DOMAIN places' = 1..id
      /\ places'[i] = IF i \in Holders(places, c.key)
                      THEN [places[i] EXCEPT !.historical = TRUE, !.life = "replaced"]
                      ELSE places[i]
  BY <1>1, ImportAdds
<1>3. i \in 1..id
  <2>1. id \in Nat /\ i \in 1..(id - 1)
    BY <1>2, ReviewAssumption
  <2> QED BY <2>1
<1>4. places[i] \in Places
  BY IdsArePositive DEF Typed
<1>5. CASE i \in Holders(places, c.key)
  <2>1. ~Open(places[i])
    BY <1>5 DEF Import, Refused
  <2>2. places'[i] = [places[i] EXCEPT !.historical = TRUE, !.life = "replaced"]
    BY <1>2, <1>5
  <2> QED BY <1>2, <1>3, <1>4, <2>1, <2>2 DEF Later, InUse, Open, Places
<1>6. CASE i \notin Holders(places, c.key)
  BY <1>2, <1>3, <1>6 DEF Later
<1> QED BY <1>5, <1>6

LEMMA PromoteWriteLater ==
  ASSUME Typed, NEW p \in Procs, PromoteWrite(p), NEW i \in DOMAIN places
  PROVE  /\ DOMAIN places' = DOMAIN places
         /\ Later(places[i], places'[i]) /\ places'[i].historical = places[i].historical
<1>1. CASE UNCHANGED places
  BY <1>1, Same
<1>2. CASE \E item \in job[p].todo :
             places' = [places EXCEPT ![item.place].contact = Filled(@, item.contact)]
  <2>1. PICK item \in job[p].todo :
             places' = [places EXCEPT ![item.place].contact = Filled(@, item.contact)]
    BY <1>2
  <2>2. places[i] \in Places
    BY IdsArePositive DEF Typed
  <2>3. \/ places'[i] = places[i]
        \/ places'[i] = [places[i] EXCEPT !.contact = Filled(places[i].contact, item.contact)]
    BY <2>1
  <2> QED BY <2>1, <2>2, <2>3 DEF Later, InUse, Open, Places, Filled
<1> QED BY <1>1, <1>2 DEF PromoteWrite

\* An import adds one place, made of its candidate.
LEMMA ImportedPlace ==
  ASSUME Typed, NEW p \in Procs, NEW c, Import(p, c)
  PROVE  \E id : /\ \A i \in DOMAIN places' : i \in DOMAIN places \/ i = id
                 /\ id \in DOMAIN places' /\ id \notin DOMAIN places
                 /\ places'[id] = NewPlace(c)
<1>1. PICK id : id = Cardinality(DOMAIN places) + 1
  OBVIOUS
<1>2. /\ id \in 1..MaxPlaces /\ id \notin DOMAIN places
      /\ DOMAIN places = 1..(id - 1) /\ DOMAIN places' = 1..id
      /\ places'[id] = NewPlace(c)
  BY <1>1, ImportAdds
<1>3. id \in 1..id /\ \A i \in 1..id : i \in 1..(id - 1) \/ i = id
  <2>1. id \in Nat /\ id # 0
    BY <1>2, ReviewAssumption
  <2> QED BY <2>1
<1> QED BY <1>2, <1>3

LEMMA DistanceIsInt ==
  ASSUME NEW a \in Positions, NEW b \in Positions
  PROVE  Distance(a, b) \in Nat /\ Distance(a, b) = Distance(b, a)
BY DEF Distance, Positions

\* Only an import adds to the table, and every step keeps what is there.
TableGrows ==
  /\ \A i \in DOMAIN places : i \in DOMAIN places' /\ Later(places[i], places'[i])
  /\ \/ /\ DOMAIN places' = DOMAIN places
        /\ \A i \in DOMAIN places : places'[i].historical = places[i].historical
     \/ \E p \in Procs : \E c \in job[p].todo : Import(p, c)

LEMMA PlacesGetLater ==
  ASSUME Typed, [Next]_vars
  PROVE  TableGrows
<1>1. CASE UNCHANGED places
  BY <1>1, Same DEF TableGrows
<1>2. ASSUME NEW p \in Procs, NEW c \in job[p].todo, Import(p, c) PROVE TableGrows
  BY <1>2, ImportLater DEF TableGrows
<1>3. ASSUME NEW p \in Procs, PromoteWrite(p) PROVE TableGrows
  <2>1. CASE DOMAIN places = {}
    BY <1>3, <2>1 DEF PromoteWrite, TableGrows
  <2>2. CASE DOMAIN places # {}
    BY <1>3, <2>2, PromoteWriteLater DEF TableGrows
  <2> QED BY <2>1, <2>2
<1>4. ASSUME NEW i \in DOMAIN places, Close(i) PROVE TableGrows
  <2>1. places' = [places EXCEPT ![i] = [places[i] EXCEPT !.life = "closed", !.closedOnce = TRUE]]
    BY <1>4, CloseTyped
  <2>2. ASSUME NEW j \in DOMAIN places PROVE Later(places[j], places'[j]) /\ places'[j].historical = places[j].historical
    <3>1. places[j] \in Places /\ Open(places[i])
      BY <1>4, IdsArePositive DEF Typed, Close
    <3>2. CASE j = i
      BY <2>1, <3>1, <3>2 DEF Later, InUse, Open, Places
    <3>3. CASE j # i
      BY <2>1, <3>3 DEF Later
    <3> QED BY <3>2, <3>3
  <2> QED BY <2>1, <2>2 DEF TableGrows
<1>5. ASSUME NEW i \in DOMAIN places, NEW contact \in Contacts, FillContact(i, contact) PROVE TableGrows
  <2>1. places' = [places EXCEPT ![i] = [places[i] EXCEPT !.contact = contact]]
    BY <1>5, FillContactTyped
  <2>2. ASSUME NEW j \in DOMAIN places PROVE Later(places[j], places'[j]) /\ places'[j].historical = places[j].historical
    <3>1. places[j] \in Places /\ places[i].contact = None
      BY <1>5, IdsArePositive DEF Typed, FillContact
    <3>2. CASE j = i
      BY <2>1, <3>1, <3>2 DEF Later, InUse, Open, Places
    <3>3. CASE j # i
      BY <2>1, <3>3 DEF Later
    <3> QED BY <3>2, <3>3
  <2> QED BY <2>1, <2>2 DEF TableGrows
<1>6. ASSUME NEW p \in Procs, ToolStep(p) PROVE TableGrows
  <2>1. ASSUME NEW source \in Sources, Report(p, source) PROVE TableGrows
    BY <1>1, <2>1 DEF Report
  <2>2. ASSUME NEW source \in Sources, Batch(p, source) PROVE TableGrows
    BY <1>1, <2>2 DEF Batch
  <2>3. ASSUME NEW source \in Sources, NEW mode, AutoLink(p, source, mode) PROVE TableGrows
    BY <1>1, <2>3 DEF AutoLink
  <2>4. CASE WriteLink(p) \/ RefreshEvidence(p) \/ QueueRow(p)
    BY <1>1, <2>4 DEF WriteLink, RefreshEvidence, QueueRow
  <2>5. CASE AutoLinkRead(p) \/ AutoLinkApply(p) \/ AcceptRead(p)
    BY <1>1, <2>5 DEF AutoLinkRead, AutoLinkApply, AcceptRead
  <2>6. CASE AcceptWrite(p) \/ Preflight(p) \/ ImportEnds(p)
    BY <1>1, <2>6 DEF AcceptWrite, Preflight, ImportEnds
  <2>7. CASE Promote(p) \/ Kill(p)
    BY <1>1, <2>7 DEF Promote, Kill
  <2> QED BY <1>2, <1>3, <1>6, <2>1, <2>2, <2>3, <2>4, <2>5, <2>6, <2>7 DEF ToolStep
<1>7. ASSUME Around PROVE TableGrows
  <2>1. ASSUME NEW k, NEW status, Decide(k, status) PROVE TableGrows
    BY <1>1, <2>1 DEF Decide
  <2>2. ASSUME NEW r \in Records, Correct(r) PROVE TableGrows
    BY <1>1, <2>2 DEF Correct
  <2> QED BY <1>4, <1>5, <1>7, <2>1, <2>2 DEF Around
<1>8. CASE UNCHANGED vars
  BY <1>1, <1>8 DEF vars
<1> QED BY <1>6, <1>7, <1>8 DEF Next

-----------------------------------------------------------------------------
(* What becomes of a process and of a row. *)

BatchPcs == {"accept", "accepting", "preflight", "import"}

\* Only a tool that may run batches accepts and imports, and it imports what its preflight
\* found.
BatchGoesOn(q) ==
  /\ job'[q].pc \in BatchPcs => job[q].pc \in BatchPcs \/ "batch" \in plan.tools[q]
  /\ job'[q].pc = "import" =>
       Preflight(q) \/ (job[q].pc = "import" /\ job'[q].todo \subseteq job[q].todo)

LEMMA StaysOnBatch ==
  ASSUME NEW q, job'[q] = job[q]
  PROVE  BatchGoesOn(q)
BY DEF BatchGoesOn

LEMMA LeavesBatch ==
  ASSUME NEW q, job'[q].pc \notin BatchPcs
  PROVE  BatchGoesOn(q)
BY DEF BatchGoesOn, BatchPcs

LEMMA BatchesGoOn ==
  ASSUME Typed, [Next]_vars, NEW q \in Procs
  PROVE  BatchGoesOn(q)
<1>1. CASE UNCHANGED job
  BY <1>1, StaysOnBatch
<1>2. ASSUME NEW p \in Procs, ToolStep(p), p # q PROVE BatchGoesOn(q)
  <2>1. \E x : Goes(p, x)
    BY <1>2 DEF ToolStep, Report, Batch, AutoLink, WriteLink, RefreshEvidence, QueueRow, AutoLinkRead,
                AutoLinkApply, AcceptRead, AcceptWrite, Preflight, Import, ImportEnds, Promote,
                PromoteWrite, Kill, Ends
  <2>2. job'[q] = job[q]
    BY <1>2, <2>1 DEF Goes, Typed, JobsOver
  <2> QED BY <2>2, StaysOnBatch
<1>3. ASSUME ToolStep(q) PROVE BatchGoesOn(q)
  <2>1. \A x : Goes(q, x) => job'[q] = x
    BY DEF Goes, Typed, JobsOver
  <2>2. PICK x \in JobOver(DOMAIN places) : x = job[q]
    BY DEF Typed, JobsOver
  <2>3. ASSUME Ends(q) PROVE BatchGoesOn(q)
    BY <2>1, <2>3, LeavesBatch DEF Ends, Idle, BatchPcs
  <2>4. ASSUME NEW source \in Sources, Report(q, source) PROVE BatchGoesOn(q)
    <3>1. job'[q].pc = "link"
      BY <2>1, <2>4 DEF Report, Idle
    <3> QED BY <3>1, LeavesBatch DEF BatchPcs
  <2>5. ASSUME NEW source \in Sources, NEW mode, AutoLink(q, source, mode) PROVE BatchGoesOn(q)
    <3>1. job'[q].pc = "candidates"
      BY <2>1, <2>5 DEF AutoLink, Idle
    <3> QED BY <3>1, LeavesBatch DEF BatchPcs
  <2>6. ASSUME NEW source \in Sources, Batch(q, source) PROVE BatchGoesOn(q)
    <3>1. job'[q].pc = "accept" /\ "batch" \in plan.tools[q]
      BY <2>1, <2>6 DEF Batch, Begins, Idle
    <3> QED BY <3>1 DEF BatchGoesOn
  <2>7. CASE WriteLink(q)
    <3>1. job'[q].pc \in {"link", "refresh", "queue"}
      BY <2>1, <2>2, <2>7 DEF WriteLink, At, JobOver
    <3> QED BY <3>1, LeavesBatch DEF BatchPcs
  <2>8. CASE RefreshEvidence(q)
    <3>1. job'[q].pc = "queue"
      BY <2>1, <2>2, <2>8 DEF RefreshEvidence, JobOver
    <3> QED BY <3>1, LeavesBatch DEF BatchPcs
  <2>9. CASE QueueRow(q)
    <3>0. x.pc = "queue"
      BY <2>2, <2>9 DEF QueueRow, At
    <3>1. CASE Goes(q, Idle)
      BY <2>1, <2>3, <3>1 DEF Ends
    <3>2. CASE Goes(q, [x EXCEPT !.pc = "candidates", !.mode = ModeOf(x.source)])
      <4>1. job'[q].pc = "candidates"
        BY <2>1, <3>2 DEF JobOver
      <4> QED BY <4>1, LeavesBatch DEF BatchPcs
    <3>3. ASSUME NEW item, Goes(q, [x EXCEPT !.rows = @ \ {item}]) PROVE BatchGoesOn(q)
      <4>1. job'[q].pc = "queue"
        BY <2>1, <3>0, <3>3 DEF JobOver
      <4> QED BY <4>1, LeavesBatch DEF BatchPcs
    <3> QED BY <2>2, <2>9, <3>1, <3>2, <3>3 DEF QueueRow, Ends
  <2>10. CASE AutoLinkRead(q)
    <3>1. job'[q].pc = "auto_link"
      BY <2>1, <2>2, <2>10 DEF AutoLinkRead, JobOver
    <3> QED BY <3>1, LeavesBatch DEF BatchPcs
  <2>11. CASE AutoLinkApply(q) \/ ImportEnds(q) \/ Kill(q)
    BY <2>3, <2>11 DEF AutoLinkApply, ImportEnds, Kill
  <2>12. CASE AcceptRead(q)
    <3>1. job'[q].pc = "accepting" /\ job[q].pc = "accept"
      BY <2>1, <2>2, <2>12 DEF AcceptRead, At, JobOver
    <3> QED BY <3>1 DEF BatchGoesOn, BatchPcs
  <2>13. CASE AcceptWrite(q)
    <3>1. job'[q].pc = "preflight" /\ job[q].pc = "accepting"
      BY <2>1, <2>2, <2>13 DEF AcceptWrite, At, JobOver
    <3> QED BY <3>1 DEF BatchGoesOn, BatchPcs
  <2>14. CASE Preflight(q)
    <3>1. job[q].pc = "preflight"
      BY <2>14 DEF Preflight, At
    <3> QED BY <2>14, <3>1 DEF BatchGoesOn, BatchPcs
  <2>15. ASSUME NEW c \in job[q].todo, Import(q, c) PROVE BatchGoesOn(q)
    <3>1. job[q].pc = "import" /\ job'[q].todo \subseteq job[q].todo
      BY <2>1, <2>2, <2>15 DEF Import, At, JobOver
    <3> QED BY <3>1 DEF BatchGoesOn, BatchPcs
  <2>16. CASE Promote(q)
    <3>1. job'[q].pc = "fill"
      BY <2>1, <2>16 DEF Promote, Idle
    <3> QED BY <3>1, LeavesBatch DEF BatchPcs
  <2>17. CASE PromoteWrite(q)
    <3>0. x.pc = "fill"
      BY <2>2, <2>17 DEF PromoteWrite, At
    <3>1. CASE Ends(q)
      BY <2>3, <3>1
    <3>2. ASSUME NEW item, Goes(q, [x EXCEPT !.todo = @ \ {item}]) PROVE BatchGoesOn(q)
      <4>1. job'[q].pc = "fill"
        BY <2>1, <3>0, <3>2 DEF JobOver
      <4> QED BY <4>1, LeavesBatch DEF BatchPcs
    <3> QED BY <2>2, <2>17, <3>1, <3>2 DEF PromoteWrite
  <2> QED
    BY <1>3, <2>4, <2>5, <2>6, <2>7, <2>8, <2>9, <2>10, <2>11, <2>12, <2>13, <2>14, <2>15, <2>16,
       <2>17 DEF ToolStep
<1>4. CASE Around
  <2>1. UNCHANGED job
    BY <1>4 DEF Around, Decide, Close, FillContact, Correct
  <2> QED BY <1>1, <2>1
<1> QED BY <1>1, <1>2, <1>3, <1>4 DEF Next, vars

\* A row of a new place is refreshed or decided while it is pending, and linked by an import.
Touched(old, new) ==
  \/ new = old
  \/ /\ old = None \/ old.status = "pending"
     /\ new.imported => old # None /\ old.imported
     /\ new.status # "pending" => new.accepted = new.data
RowGoesOn(r) ==
  \/ Touched(queue[<<r, "likely_new">>], queue'[<<r, "likely_new">>])
  \/ \E p \in Procs : \E c \in job[p].todo : Import(p, c) /\ c.key = r

LEMMA UpsertedTouches ==
  ASSUME NEW P, NEW row \in RowOver(P) \cup {None}, NEW item
  PROVE  Touched(row, Upserted(row, item))
<1>1. NewRow(item).status = "pending" /\ ~NewRow(item).imported
  BY DEF NewRow
<1>2. ASSUME row # None, row.status = "pending"
      PROVE  LET new == [row EXCEPT !.data = item.data, !.nearest = item.nearest,
                                    !.distance = item.distance, !.score = item.score]
             IN new.status = "pending" /\ new.imported = row.imported
  BY <1>2 DEF RowOver
<1> QED BY <1>1, <1>2 DEF Touched, Upserted

LEMMA DecidedTouches ==
  ASSUME NEW P, NEW row \in RowOver(P), NEW status, NEW data, row # None, row.status = "pending"
  PROVE  Touched(row, Decided(row, status, data))
<1>1. /\ Decided(row, status, data).imported = row.imported
      /\ Decided(row, status, data).accepted = Decided(row, status, data).data
  BY DEF Decided, RowOver
<1> QED BY <1>1 DEF Touched

LEMMA RowsGoOn ==
  ASSUME Typed, [Next]_vars, NEW r \in Records
  PROVE  RowGoesOn(r)
<1>1. PICK l : l = <<r, "likely_new">>
  OBVIOUS
<1>2. l \in Records \X Kinds /\ l[1] = r /\ l[2] = "likely_new"
  BY <1>1 DEF Kinds
<1>3. queue[l] \in RowOver(DOMAIN places) \cup {None}
  BY <1>2 DEF Typed
<1>4. CASE queue'[l] = queue[l]
  BY <1>1, <1>4 DEF RowGoesOn, Touched
<1>5. ASSUME Touched(queue[l], queue'[l]) PROVE RowGoesOn(r)
  BY <1>1, <1>5 DEF RowGoesOn
<1>6. ASSUME NEW p \in Procs, ToolStep(p) PROVE RowGoesOn(r)
  <2>1. CASE UNCHANGED queue
    BY <1>4, <2>1
  <2>2. ASSUME NEW item, queue' = [queue EXCEPT ![<<item.record, item.kind>>] = Upserted(@, item)]
        PROVE  RowGoesOn(r)
    <3>1. queue'[l] = queue[l] \/ queue'[l] = Upserted(queue[l], item)
      BY <2>2
    <3>2. Touched(queue[l], Upserted(queue[l], item))
      BY <1>3, UpsertedTouches
    <3> QED BY <1>4, <1>5, <3>1, <3>2
  <2>3. CASE AutoLinkApply(p)
    <3>1. queue'[l] = queue[l]
      BY <1>2, <2>3 DEF AutoLinkApply, Typed
    <3> QED BY <1>4, <3>1
  <2>4. CASE AcceptWrite(p)
    <3>1. \/ queue'[l] = queue[l]
          \/ /\ HasRow(l[1], l[2], "pending")
             /\ \E data : queue'[l] = Decided(queue[l], "accepted", data)
      BY <1>2, <2>4 DEF AcceptWrite, Typed
    <3>2. HasRow(l[1], l[2], "pending") =>
            queue[l] \in RowOver(DOMAIN places) /\ queue[l] # None /\ queue[l].status = "pending"
      BY <1>1, <1>3 DEF HasRow, Row
    <3>3. ASSUME NEW data
          PROVE  HasRow(l[1], l[2], "pending") => Touched(queue[l], Decided(queue[l], "accepted", data))
      BY <3>2, DecidedTouches
    <3> QED BY <1>4, <1>5, <3>1, <3>3
  <2>5. ASSUME NEW c \in job[p].todo, Import(p, c) PROVE RowGoesOn(r)
    <3>1. CASE c.key = r
      BY <2>5, <3>1 DEF RowGoesOn
    <3>2. CASE c.key # r
      <4>1. <<c.key, "likely_new">> # l
        BY <1>1, <3>2
      <4>2. \E new : queue' = [queue EXCEPT ![<<c.key, "likely_new">>] = new]
        BY <2>5 DEF Import
      <4>3. l \in DOMAIN queue
        BY <1>2 DEF Typed
      <4>4. queue'[l] = queue[l]
        BY <4>1, <4>2, <4>3
      <4> QED BY <1>4, <4>4
    <3> QED BY <3>1, <3>2
  <2>6. QueueRow(p) => \/ UNCHANGED queue
                       \/ \E item : queue' = [queue EXCEPT ![<<item.record, item.kind>>] = Upserted(@, item)]
    BY DEF QueueRow
  <2>7. \/ UNCHANGED queue
        \/ QueueRow(p) \/ AutoLinkApply(p) \/ AcceptWrite(p)
        \/ \E c \in job[p].todo : Import(p, c)
    BY <1>6 DEF ToolStep, Report, Batch, AutoLink, WriteLink, RefreshEvidence, AutoLinkRead, AcceptRead,
                Preflight, ImportEnds, Promote, PromoteWrite, Kill
  <2> QED BY <2>1, <2>2, <2>3, <2>4, <2>5, <2>6, <2>7
<1>7. ASSUME Around PROVE RowGoesOn(r)
  <2>1. ASSUME NEW k \in DOMAIN queue, NEW status, Decide(k, status) PROVE RowGoesOn(r)
    <3>1. CASE k = l
      <4>1. queue[l] \in RowOver(DOMAIN places) /\ queue[l] # None /\ queue[l].status = "pending"
        BY <1>3, <2>1, <3>1 DEF Decide
      <4>2. queue'[l] = Decided(queue[l], status, queue[l].data)
        BY <2>1, <3>1 DEF Decide
      <4> QED BY <1>5, <4>1, <4>2, DecidedTouches
    <3>2. CASE k # l
      <4>1. queue'[l] = queue[l]
        BY <2>1, <3>2 DEF Decide
      <4> QED BY <1>4, <4>1
    <3> QED BY <3>1, <3>2
  <2>2. (\E k \in DOMAIN queue, status \in {"accepted", "rejected", "ignored"} : Decide(k, status))
          \/ UNCHANGED queue
    BY <1>7 DEF Around, Close, FillContact, Correct
  <2> QED BY <1>4, <2>1, <2>2
<1> QED BY <1>4, <1>6, <1>7 DEF Next, vars

-----------------------------------------------------------------------------
(* A place is created as its row was reviewed. *)

\* What an import does to its row and makes of it.
LEMMA ImportedRow ==
  ASSUME Typed, Reviewed, NEW p \in Procs, NEW c \in job[p].todo, Import(p, c)
  PROVE  LET old == Row(c.key, "likely_new")
             new == Row(c.key, "likely_new")'
         IN /\ c.key \in Records /\ c.pos = c.data.pos
            /\ old \in RowOver(DOMAIN places) /\ old.status # "pending" /\ old.data = c.data
            /\ new.status = "linked" /\ new.imported
            /\ new.accepted = old.accepted /\ new.data = old.data
            /\ new \in RowOver(DOMAIN places')
            /\ new.place \in DOMAIN places' /\ places'[new.place] = NewPlace(c)
<1>1. Unchanged(c.key, c.data) /\ c.pos = c.data.pos /\ job[p].pc = "import"
  BY DEF Import, At, Reviewed
<1>2. c.key \in Records
  BY <1>1 DEF Typed, JobsOver, Holds, Candidate
<1>3. PICK old : old = Row(c.key, "likely_new")
  OBVIOUS
<1>4. old \in RowOver(DOMAIN places) /\ old.status # "pending" /\ old.data = c.data
  BY <1>1, <1>3 DEF Unchanged
<1>5. PICK id \in 1..MaxPlaces : id = Cardinality(DOMAIN places) + 1
  BY ImportAdds
<1>6. id \in DOMAIN places' /\ places'[id] = NewPlace(c)
  <2>1. DOMAIN places' = 1..id /\ places'[id] = NewPlace(c)
    BY <1>5, ImportAdds
  <2>2. id \in 1..id
    BY ReviewAssumption
  <2> QED BY <2>1, <2>2
<1>7. Row(c.key, "likely_new")' = [old EXCEPT !.status = "linked", !.imported = TRUE, !.place = id]
  <2>1. PICK k : k = <<c.key, "likely_new">>
    OBVIOUS
  <2>2. k \in DOMAIN queue
    BY <1>2, <2>1 DEF Typed, Kinds
  <2>3. queue' = [queue EXCEPT ![k] = [queue[k] EXCEPT !.status = "linked", !.imported = TRUE, !.place = id]]
    BY <1>5, <2>1 DEF Import
  <2>4. queue'[k] = [queue[k] EXCEPT !.status = "linked", !.imported = TRUE, !.place = id]
    BY <2>2, <2>3
  <2> QED BY <1>3, <2>1, <2>4 DEF Row
<1>8. PICK new : new = Row(c.key, "likely_new")'
  OBVIOUS
<1>9. new.status = "linked" /\ new.imported /\ new.accepted = old.accepted /\ new.data = old.data
        /\ new.place = id
  BY <1>4, <1>7, <1>8 DEF RowOver
<1>10. new \in RowOver(DOMAIN places')
  <2>1. DOMAIN places \subseteq DOMAIN places'
    BY ImportLater
  <2>2. old \in RowOver(DOMAIN places')
    BY <1>4, <2>1, TypesGrow
  <2> QED BY <1>6, <1>7, <1>8, <2>2 DEF RowOver, Statuses
<1> QED BY <1>1, <1>2, <1>3, <1>4, <1>6, <1>8, <1>9, <1>10

\* No row is the absence of one.
LEMMA RowsAreRows ==
  ASSUME Typed
  PROVE  RowOver(DOMAIN places) \subseteq Rows /\ None \notin RowOver(DOMAIN places)
<1>1. PICK n \in 0..MaxPlaces : DOMAIN places = 1..n
  BY DEF Typed, PlaceTable
<1>2. DOMAIN places \cup {0} \subseteq 0..MaxPlaces
  <2>1. MaxPlaces \in Nat
    BY ReviewAssumption
  <2>2. \A i \in 1..n : i \in 0..MaxPlaces
    BY <2>1
  <2>3. 0 \in 0..MaxPlaces
    BY <2>1
  <2> QED BY <1>1, <2>2, <2>3
<1>3. RowOver(DOMAIN places) \subseteq Rows
  BY <1>2 DEF RowOver, Rows
<1> QED BY <1>3, ReviewAssumption

LEMMA CandidatesReviewed ==
  ASSUME Typed, NEW ids \in SUBSET Records, NEW c \in Candidates(ids)
  PROVE  c.key \in ids /\ Unchanged(c.key, c.data) /\ c.pos = c.data.pos
<1>1. PICK r \in ids : /\ HasRow(r, "likely_new", "accepted")
                       /\ c = [key |-> r, pos |-> Row(r, "likely_new").data.pos,
                               data |-> Row(r, "likely_new").data,
                               readiness |-> Readiness(places, r, Row(r, "likely_new"))]
  BY DEF Candidates
<1>2. Row(r, "likely_new") \in RowOver(DOMAIN places)
  BY <1>1, RowIsTyped DEF HasRow, Kinds
<1> QED BY <1>1, <1>2 DEF Unchanged, HasRow

LEMMA ReviewedKept ==
  ASSUME Typed, Reviewed, [Next]_vars
  PROVE  Reviewed'
<1>1. Typed' /\ TableGrows
  BY TypedKept, PlacesGetLater
<1>2. ASSUME NEW r \in Records,
             LET row == Row(r, "likely_new")' IN row # None /\ row.status # "pending"
      PROVE  Row(r, "likely_new")'.accepted = Row(r, "likely_new")'.data
  <2>1. PICK old, new : old = Row(r, "likely_new") /\ new = Row(r, "likely_new")'
    OBVIOUS
  <2>2. old # None /\ old.status # "pending" => old.accepted = old.data
    BY <2>1 DEF Reviewed
  <2>3. CASE Touched(old, new)
    BY <1>2, <2>1, <2>2, <2>3 DEF Touched
  <2>4. ASSUME NEW p \in Procs, NEW c \in job[p].todo, Import(p, c), c.key = r
        PROVE  new.accepted = new.data
    <3>1. /\ old \in RowOver(DOMAIN places) /\ old.status # "pending"
          /\ new.accepted = old.accepted /\ new.data = old.data
      BY <2>1, <2>4, ImportedRow
    <3> QED BY <2>2, <3>1, RowsAreRows
  <2> QED BY <2>1, <2>3, <2>4, RowsGoOn DEF RowGoesOn, Row
<1>3. ASSUME NEW r \in Records,
             LET row == Row(r, "likely_new")' IN row # None /\ row.imported
      PROVE  LET row == Row(r, "likely_new")' IN
             /\ row.status # "pending"
             /\ row.place \in DOMAIN places' /\ MadeOf(places'[row.place], r, row.data)
  <2>1. PICK old, new : old = Row(r, "likely_new") /\ new = Row(r, "likely_new")'
    OBVIOUS
  <2>2. old # None /\ old.imported =>
          /\ old.status # "pending"
          /\ old.place \in DOMAIN places /\ MadeOf(places[old.place], r, old.data)
    BY <2>1 DEF Reviewed
  <2>3. CASE Touched(old, new)
    <3>1. new = old
      BY <1>3, <2>1, <2>2, <2>3 DEF Touched
    <3>2. old.place \in DOMAIN places' /\ Later(places[old.place], places'[old.place])
      BY <1>1, <1>3, <2>1, <2>2, <3>1 DEF TableGrows
    <3> QED BY <1>3, <2>1, <2>2, <3>1, <3>2 DEF MadeOf, Later
  <2>4. ASSUME NEW p \in Procs, NEW c \in job[p].todo, Import(p, c), c.key = r
        PROVE  new.status # "pending" /\ new.place \in DOMAIN places' /\ MadeOf(places'[new.place], r, new.data)
    <3>1. /\ new.status = "linked" /\ new.data = c.data
          /\ new.place \in DOMAIN places' /\ places'[new.place] = NewPlace(c)
      BY <2>1, <2>4, ImportedRow
    <3> QED BY <2>4, <3>1 DEF MadeOf, NewPlace
  <2> QED BY <2>1, <2>3, <2>4, RowsGoOn DEF RowGoesOn, Row
<1>4. ASSUME NEW r \in Records, NEW data, Unchanged(r, data) PROVE Unchanged(r, data)'
  <2>1. PICK old, new : old = Row(r, "likely_new") /\ new = Row(r, "likely_new")'
    OBVIOUS
  <2>2. old \in RowOver(DOMAIN places) /\ old.status # "pending" /\ old.data = data
    BY <1>4, <2>1 DEF Unchanged
  <2>3. RowOver(DOMAIN places) \subseteq RowOver(DOMAIN places')
    BY <1>1, TypesGrow DEF TableGrows
  <2>4. CASE Touched(old, new)
    <3>1. new = old
      BY <2>2, <2>4, RowsAreRows DEF Touched
    <3> QED BY <2>1, <2>2, <2>3, <3>1 DEF Unchanged
  <2>5. ASSUME NEW p \in Procs, NEW c \in job[p].todo, Import(p, c), c.key = r
        PROVE  Unchanged(r, data)'
    <3>1. new.status = "linked" /\ new.data = data
      BY <2>1, <2>2, <2>5, ImportedRow
    <3>2. new \in RowOver(DOMAIN places')
      BY <2>1, <2>5, ImportedRow
    <3> QED BY <2>1, <3>1, <3>2 DEF Unchanged
  <2> QED BY <2>1, <2>4, <2>5, RowsGoOn DEF RowGoesOn, Row
<1>5. ASSUME NEW q \in Procs, job'[q].pc = "import", NEW c \in job'[q].todo
      PROVE  Unchanged(c.key, c.data)' /\ c.pos = c.data.pos
  <2>1. CASE Preflight(q)
    <3>1. PICK x \in JobOver(DOMAIN places) : x = job[q]
      BY DEF Typed, JobsOver
    <3>2. job'[q] = [x EXCEPT !.pc = "import", !.todo = Ready(Candidates(x.ids))]
      BY <2>1, <3>1 DEF Preflight, Goes, Typed, JobsOver
    <3>3. c \in Candidates(x.ids) /\ x.ids \in SUBSET Records
      BY <1>5, <3>1, <3>2 DEF JobOver, Ready
    <3> QED BY <1>4, <3>3, CandidatesReviewed
  <2>2. CASE job[q].pc = "import" /\ job'[q].todo \subseteq job[q].todo
    <3>1. c \in job[q].todo
      BY <1>5, <2>2
    <3>2. Unchanged(c.key, c.data) /\ c.pos = c.data.pos
      BY <2>2, <3>1 DEF Reviewed
    <3>3. c.key \in Records
      BY <2>2, <3>1 DEF Typed, JobsOver, Holds, Candidate
    <3> QED BY <1>4, <3>2, <3>3
  <2> QED BY <1>5, <2>1, <2>2, BatchesGoOn DEF BatchGoesOn
<1>6. plan' = plan
  BY ZenonT(60) DEF Next, vars, ToolStep, Around, Report, Batch, AutoLink, WriteLink, RefreshEvidence, QueueRow,
         AutoLinkRead, AutoLinkApply, AcceptRead, AcceptWrite, Preflight, Import, ImportEnds, Promote,
         PromoteWrite, Kill, Decide, Close, FillContact, Correct
<1> QED BY <1>2, <1>3, <1>5, <1>6 DEF Reviewed, MadeOf, CanonicalName

-----------------------------------------------------------------------------
(* One restaurant is one place. *)

IdentityInv ==
  /\ \A i \in DOMAIN places : ~InUse(places[i]) => places[i].closedOnce
  /\ UniqueIdentity

LEMMA IdentityKept ==
  ASSUME Typed, IdentityInv, [Next]_vars
  PROVE  IdentityInv'
<1>1. TableGrows
  BY PlacesGetLater
<1>2. \A i \in DOMAIN places : i \in DOMAIN places' /\ Later(places[i], places'[i])
  BY <1>1 DEF TableGrows
<1>3. \A i \in DOMAIN places : ~InUse(places'[i]) => places'[i].closedOnce
  BY <1>2 DEF IdentityInv, Later
<1>4. ASSUME NEW i \in DOMAIN places, NEW j \in DOMAIN places, i # j,
             places'[i].key # None, places'[i].key = places'[j].key
      PROVE  places'[i].closedOnce \/ places'[j].closedOnce
  <2>1. places[i].closedOnce \/ places[j].closedOnce
    BY <1>2, <1>4 DEF Later, IdentityInv, UniqueIdentity
  <2> QED BY <1>2, <2>1 DEF Later
<1>5. CASE DOMAIN places' = DOMAIN places
  BY <1>3, <1>4, <1>5 DEF IdentityInv, UniqueIdentity
<1>6. ASSUME NEW p \in Procs, NEW c \in job[p].todo, Import(p, c) PROVE IdentityInv'
  <2>1. PICK id : /\ \A i \in DOMAIN places' : i \in DOMAIN places \/ i = id
                  /\ id \in DOMAIN places' /\ id \notin DOMAIN places
                  /\ places'[id] = NewPlace(c)
    BY <1>6, ImportedPlace
  <2>2. InUse(places'[id]) /\ places'[id].key = c.key
    BY <2>1 DEF NewPlace, InUse, Open
  <2>3. ASSUME NEW j \in DOMAIN places, places'[j].key = c.key PROVE places'[j].closedOnce
    <3>1. places[j].key = c.key
      BY <1>2, <2>3 DEF Later
    <3>2. ~InUse(places[j])
      BY <1>6, <3>1, IdsArePositive DEF Import, Refused, Holders, InUse
    <3> QED BY <1>2, <3>2 DEF IdentityInv, Later
  <2> QED BY <1>3, <1>4, <2>1, <2>2, <2>3 DEF IdentityInv, UniqueIdentity
<1> QED BY <1>1, <1>5, <1>6 DEF TableGrows

Alone == Cardinality({p \in Procs : "batch" \in plan.tools[p]}) <= 1

\* The candidates of an import that make new places keep clear of each other and of the new
\* places there are.
KeepsClear(p) ==
  \A c \in job[p].todo : Holders(places, c.key) = {} =>
    /\ \A i \in DOMAIN places : places[i].via = "new" /\ Open(places[i]) /\ places[i].key # c.key =>
         Distance(places[i].pos, c.pos) > 25
    /\ \A d \in job[p].todo : d.key # c.key => Distance(d.pos, c.pos) > 25

TwinInv ==
  /\ \A p \in Procs : job[p].pc \in BatchPcs => "batch" \in plan.tools[p]
  /\ Alone => \A p \in Procs : job[p].pc = "import" => KeepsClear(p)
  /\ NoTwins

LEMMA OnlyBatch ==
  ASSUME Alone, NEW p \in Procs, NEW q \in Procs, "batch" \in plan.tools[p], "batch" \in plan.tools[q]
  PROVE  p = q
<1> DEFINE S == {r \in Procs : "batch" \in plan.tools[r]}
<1>1. SUFFICES ASSUME p # q PROVE FALSE
  OBVIOUS
<1>2. IsFiniteSet(S) /\ {p, q} \in SUBSET S
  BY ReviewAssumption, FS_Subset
<1>3. Cardinality({p, q}) = 2
  <2>1. IsFiniteSet({p}) /\ Cardinality({p}) = 1
    BY FS_Singleton
  <2>2. Cardinality({p} \cup {q}) = 2
    <3>1. q \notin {p}
      BY <1>1
    <3>2. Cardinality({p} \cup {q}) = Cardinality({p}) + 1
      BY <2>1, <3>1, FS_AddElement
    <3> QED BY <2>1, <3>2
  <2>3. {p} \cup {q} = {p, q}
    OBVIOUS
  <2> QED BY <2>2, <2>3
<1>4. Cardinality({p, q}) <= Cardinality(S) /\ Cardinality(S) \in Nat
  BY <1>2, FS_Subset, FS_CardinalityType
<1> QED BY <1>3, <1>4 DEF Alone

\* The new places and the candidates of a preflight that make places keep clear.
LEMMA PreflightKeepsClear ==
  ASSUME Typed, NEW q \in Procs, Preflight(q)
  PROVE  KeepsClear(q)'
<1>1. PICK x \in JobOver(DOMAIN places) : x = job[q]
  BY DEF Typed, JobsOver
<1>2. PICK ready : ready = Ready(Candidates(x.ids))
  OBVIOUS
<1>3. job'[q].todo = ready /\ places' = places
  BY <1>1, <1>2 DEF Preflight, Goes, Typed, JobsOver, JobOver
<1>4. ASSUME NEW c \in ready, Holders(places, c.key) = {}
      PROVE  /\ \A i \in DOMAIN places : Open(places[i]) => Distance(places[i].pos, c.pos) > 25
             /\ \A d \in ready : d.key # c.key => Distance(d.pos, c.pos) > 25
  <2>1. c \in Candidates(x.ids) /\ c \in Candidate
    BY <1>1, <1>2, ReadyTyped DEF Ready, JobOver
  <2>2. PICK r \in x.ids : c = [key |-> r, pos |-> Row(r, "likely_new").data.pos,
                                data |-> Row(r, "likely_new").data,
                                readiness |-> Readiness(places, r, Row(r, "likely_new"))]
    BY <2>1 DEF Candidates
  <2>3. c.key = r /\ c.pos = Row(r, "likely_new").data.pos /\ c.readiness = Readiness(places, r, Row(r, "likely_new"))
    BY <2>2
  <2>4. c.readiness # "replacement_candidate_ready"
    BY <1>4, <2>3 DEF Readiness
  <2>5. c.readiness = "candidate_ready" /\ ~HeldBack(c.key, c.pos, Candidates(x.ids))
    BY <1>2, <2>4 DEF Ready
  <2>6. \A d \in ready : d.key # c.key => Distance(d.pos, c.pos) > 25
    <3>1. SUFFICES ASSUME NEW d \in ready, d.key # c.key PROVE Distance(d.pos, c.pos) > 25
      OBVIOUS
    <3>2. d \in Candidates(x.ids) /\ d \in Candidate
      BY <1>1, <1>2, ReadyTyped DEF Ready, JobOver
    <3>3. ~ (Distance(d.pos, c.pos) <= 25)
      BY <2>5, <3>1, <3>2 DEF HeldBack
    <3> QED BY <2>1, <3>2, <3>3, DistanceIsInt DEF Candidate
  <2>7. ASSUME NEW i \in DOMAIN places, Open(places[i]) PROVE Distance(places[i].pos, c.pos) > 25
    <3>1. i \notin Within(places, c.pos, 150)
      BY <2>3, <2>5, <2>7 DEF Readiness
    <3>2. ~ (Distance(places[i].pos, c.pos) <= 150)
      BY <3>1 DEF Within
    <3>3. places[i].pos \in Positions /\ c.pos \in Positions
      BY <2>1, IdsArePositive DEF Typed, Places, Candidate
    <3> QED BY <3>2, <3>3, DistanceIsInt
  <2> QED BY <2>6, <2>7
<1> QED BY <1>3, <1>4 DEF KeepsClear

\* An identity that has a current holder goes on having one, and an import gives it one.
LEMMA HoldersStay ==
  ASSUME Typed, [Next]_vars, NEW key, Holders(places, key) # {}
  PROVE  Holders(places', key) # {}
<1>1. TableGrows
  BY PlacesGetLater
<1>2. PICK i \in DOMAIN places : places[i].key = key /\ ~places[i].historical
  BY DEF Holders
<1>3. i \in DOMAIN places' /\ places'[i].key = key
  BY <1>1, <1>2 DEF TableGrows, Later
<1>4. CASE places'[i].historical = places[i].historical
  BY <1>2, <1>3, <1>4 DEF Holders
<1>5. ASSUME NEW p \in Procs, NEW c \in job[p].todo, Import(p, c)
      PROVE  Holders(places', key) # {}
  <2>1. PICK id : /\ \A j \in DOMAIN places' : j \in DOMAIN places \/ j = id
                  /\ id \in DOMAIN places' /\ id \notin DOMAIN places
                  /\ places'[id] = NewPlace(c)
    BY <1>5, ImportedPlace
  <2>2. CASE c.key = key
    <3>1. places'[id].key = key /\ ~places'[id].historical
      BY <2>1, <2>2 DEF NewPlace
    <3> QED BY <2>1, <3>1 DEF Holders
  <2>3. CASE c.key # key
    <3>1. i \notin Holders(places, c.key)
      BY <1>2, <2>3 DEF Holders
    <3>2. places'[i] = places[i]
      BY <1>2, <1>5, <3>1, ImportAdds
    <3> QED BY <1>2, <1>3, <3>2 DEF Holders
  <2> QED BY <2>2, <2>3
<1> QED BY <1>1, <1>2, <1>4, <1>5 DEF TableGrows

LEMMA ImportHolds ==
  ASSUME Typed, NEW p \in Procs, NEW c, Import(p, c)
  PROVE  Holders(places', c.key) # {}
<1>1. PICK id : id \in DOMAIN places' /\ places'[id] = NewPlace(c)
  BY ImportedPlace
<1>2. places'[id].key = c.key /\ ~places'[id].historical
  BY <1>1 DEF NewPlace
<1> QED BY <1>1, <1>2 DEF Holders

LEMMA ClearKept ==
  ASSUME Typed, Reviewed, TwinInv, [Next]_vars, Alone, NEW q \in Procs, job'[q].pc = "import"
  PROVE  KeepsClear(q)'
<1>1. CASE Preflight(q)
  BY <1>1, PreflightKeepsClear
<1>2. CASE job[q].pc = "import" /\ job'[q].todo \subseteq job[q].todo
  <2>1. TableGrows
    BY PlacesGetLater
  <2>2. KeepsClear(q)
    BY <1>2 DEF TwinInv
  <2>3. ASSUME NEW c \in job'[q].todo, Holders(places', c.key) = {}
        PROVE  /\ c \in job[q].todo /\ Holders(places, c.key) = {}
               /\ \A d \in job'[q].todo : d.key # c.key => Distance(d.pos, c.pos) > 25
               /\ \A i \in DOMAIN places :
                    places'[i].via = "new" /\ Open(places'[i]) /\ places'[i].key # c.key =>
                      Distance(places'[i].pos, c.pos) > 25
    <3>1. c \in job[q].todo
      BY <1>2, <2>3
    <3>2. Holders(places, c.key) = {}
      BY <2>3, HoldersStay
    <3>3. \A d \in job'[q].todo : d.key # c.key => Distance(d.pos, c.pos) > 25
      BY <1>2, <2>2, <3>1, <3>2 DEF KeepsClear
    <3>4. ASSUME NEW i \in DOMAIN places,
                 places'[i].via = "new", Open(places'[i]), places'[i].key # c.key
          PROVE  Distance(places'[i].pos, c.pos) > 25
      <4>1. /\ places[i].via = "new" /\ Open(places[i]) /\ places[i].key # c.key
            /\ places'[i].pos = places[i].pos
        BY <2>1, <3>4 DEF TableGrows, Later
      <4> QED BY <2>2, <3>1, <3>2, <4>1 DEF KeepsClear
    <3> QED BY <3>1, <3>2, <3>3, <3>4
  <2>4. CASE DOMAIN places' = DOMAIN places
    BY <2>3, <2>4 DEF KeepsClear
  <2>5. ASSUME NEW p \in Procs, NEW d \in job[p].todo, Import(p, d) PROVE KeepsClear(q)'
    <3>1. job[p].pc = "import"
      BY <2>5 DEF Import, At
    <3>2. p = q
      BY <1>2, <3>1, OnlyBatch DEF TwinInv, BatchPcs
    <3>3. PICK id : /\ \A i \in DOMAIN places' : i \in DOMAIN places \/ i = id
                    /\ id \in DOMAIN places' /\ id \notin DOMAIN places
                    /\ places'[id] = NewPlace(d)
      BY <2>5, ImportedPlace
    <3>4. places'[id].key = d.key /\ places'[id].pos = d.pos
      <4>1. d.pos = d.data.pos
        BY <2>5, <3>1 DEF Reviewed
      <4> QED BY <3>3, <4>1 DEF NewPlace
    <3>5. ASSUME NEW c \in job'[q].todo, Holders(places', c.key) = {}
          PROVE  c.key # d.key /\ Distance(places'[id].pos, c.pos) > 25
      <4>1. c.key # d.key
        BY <2>5, <3>5, ImportHolds
      <4>2. Distance(d.pos, c.pos) > 25
        BY <2>2, <2>3, <2>5, <3>2, <3>5, <4>1 DEF KeepsClear
      <4> QED BY <3>4, <4>1, <4>2
    <3> QED BY <2>3, <3>3, <3>5 DEF KeepsClear
  <2> QED BY <2>1, <2>4, <2>5 DEF TableGrows
<1> QED BY <1>1, <1>2, BatchesGoOn DEF BatchGoesOn

\* New places for different records, in use both, are more than 25 m apart.
Apart(a, b) ==
  a.via = "new" /\ b.via = "new" /\ Open(a) /\ Open(b) /\ a.key # b.key => Distance(a.pos, b.pos) > 25

LEMMA TwinKept ==
  ASSUME Typed, Reviewed, TwinInv, [Next]_vars
  PROVE  TwinInv'
<1>1. Typed' /\ TableGrows
  BY TypedKept, PlacesGetLater
<1>2. plan' = plan
  BY ZenonT(60) DEF Next, vars, ToolStep, Around, Report, Batch, AutoLink, WriteLink, RefreshEvidence, QueueRow,
         AutoLinkRead, AutoLinkApply, AcceptRead, AcceptWrite, Preflight, Import, ImportEnds, Promote,
         PromoteWrite, Kill, Decide, Close, FillContact, Correct
<1>3. ASSUME NEW p \in Procs, job'[p].pc \in BatchPcs PROVE "batch" \in plan'.tools[p]
  BY <1>2, <1>3, BatchesGoOn DEF BatchGoesOn, TwinInv
<1>4. Alone' = Alone
  BY <1>2 DEF Alone
<1>5. ASSUME Alone', NEW p \in Procs, job'[p].pc = "import" PROVE KeepsClear(p)'
  BY <1>4, <1>5, ClearKept
<1>6. ASSUME Alone PROVE \A i, j \in DOMAIN places' : Apart(places'[i], places'[j])
  <2>1. ASSUME NEW i \in DOMAIN places, NEW j \in DOMAIN places PROVE Apart(places'[i], places'[j])
    <3>1. Later(places[i], places'[i]) /\ Later(places[j], places'[j])
      BY <1>1 DEF TableGrows
    <3> QED BY <1>6, <3>1 DEF Later, TwinInv, NoTwins, Alone, Apart
  <2>2. CASE DOMAIN places' = DOMAIN places
    BY <2>1, <2>2
  <2>3. ASSUME NEW p \in Procs, NEW c \in job[p].todo, Import(p, c),
               NEW i \in DOMAIN places', NEW j \in DOMAIN places'
        PROVE  Apart(places'[i], places'[j])
    <3>1. job[p].pc = "import"
      BY <2>3 DEF Import, At
    <3>2. PICK id : /\ \A k \in DOMAIN places' : k \in DOMAIN places \/ k = id
                    /\ id \in DOMAIN places' /\ id \notin DOMAIN places
                    /\ places'[id] = NewPlace(c)
      BY <2>3, ImportedPlace
    <3>3. places'[id].key = c.key /\ places'[id].pos = c.pos
      <4>1. c.pos = c.data.pos
        BY <2>3, <3>1 DEF Reviewed
      <4> QED BY <3>2, <4>1 DEF NewPlace
    <3>4. ASSUME NEW k \in DOMAIN places,
                 places'[id].via = "new", places'[k].via = "new", Open(places'[k]), places'[k].key # c.key
          PROVE  /\ Distance(places'[k].pos, places'[id].pos) > 25
                 /\ Distance(places'[id].pos, places'[k].pos) > 25
      <4>1. Holders(places, c.key) = {}
        BY <3>2, <3>4 DEF NewPlace
      <4>2. /\ places[k].via = "new" /\ Open(places[k]) /\ places[k].key # c.key
            /\ places'[k].pos = places[k].pos
        BY <1>1, <3>4 DEF TableGrows, Later
      <4>3. KeepsClear(p)
        BY <1>6, <3>1 DEF TwinInv
      <4>4. Distance(places'[k].pos, places'[id].pos) > 25
        BY <2>3, <3>3, <4>1, <4>2, <4>3 DEF KeepsClear
      <4>5. places'[k].pos \in Positions /\ places'[id].pos \in Positions
        <5>1. \A m \in DOMAIN places' : places'[m] \in Places
          BY <1>1, LaterIds
        <5> QED BY <1>1, <3>2, <5>1 DEF Places, TableGrows
      <4> QED BY <4>4, <4>5, DistanceIsInt
    <3>5. CASE i = id /\ j = id
      BY <3>5 DEF Apart
    <3>6. CASE i = id /\ j \in DOMAIN places
      BY <3>3, <3>4, <3>6 DEF Apart
    <3>7. CASE i \in DOMAIN places /\ j = id
      BY <3>3, <3>4, <3>7 DEF Apart
    <3>8. CASE i \in DOMAIN places /\ j \in DOMAIN places
      BY <2>1, <3>8
    <3> QED BY <3>2, <3>5, <3>6, <3>7, <3>8
  <2> QED BY <1>1, <2>2, <2>3 DEF TableGrows
<1>7. NoTwins'
  BY <1>4, <1>6 DEF NoTwins, Alone, Apart
<1> QED BY <1>3, <1>5, <1>7 DEF TwinInv

-----------------------------------------------------------------------------
(* The theorems. *)

ReviewInv == Typed /\ Reviewed /\ IdentityInv /\ TwinInv

LEMMA ReviewInit ==
  ASSUME Init
  PROVE  ReviewInv
<1>1. PICK n \in 0..MaxPlaces : plan.places \in [1..n -> Places]
  BY PlansAssumption DEF Init
<1>2. PlaceTable
  BY <1>1 DEF Init, PlaceTable
<1>3. JobsOver(job, DOMAIN places)
  BY IdleIsTyped DEF Init, JobsOver
<1>4. Typed
  BY <1>2, <1>3, PlansAssumption DEF Init, Typed
<1>5. /\ \A r \in Records : Row(r, "likely_new") = None
      /\ \A p \in Procs : job[p].pc = "idle"
  BY DEF Init, Row, Kinds, Idle
<1>6. Reviewed
  BY <1>5 DEF Reviewed
<1>7. IdentityInv
  BY PlansAssumption DEF Init, IdentityInv, UniqueIdentity, InUse
<1>8. NoTwins
  BY PlansAssumption DEF Init, NoTwins
<1>9. TwinInv
  BY <1>5, <1>8 DEF TwinInv, BatchPcs
<1> QED BY <1>4, <1>6, <1>7, <1>9 DEF ReviewInv

\* What holds of types, rows, identities and twins holds whatever tools interleave.
THEOREM ReviewInvariant == Spec => []ReviewInv
<1>1. Init => ReviewInv
  BY ReviewInit
<1>2. ReviewInv /\ [Next]_vars => ReviewInv'
  BY TypedKept, ReviewedKept, IdentityKept, TwinKept DEF ReviewInv
<1> QED BY <1>1, <1>2, PTL DEF Spec

(* The tables stay of their types: a report links and queues what its best *)
(* matches are, and an id in place_sources or in the queue is that of a    *)
(* canonical place.                                                        *)
THEOREM ReviewTypes == Spec => []TypeOKReview
<1>1. ReviewInv => TypeOKReview
  <2>1. SUFFICES ASSUME ReviewInv PROVE TypeOKReview
    OBVIOUS
  <2>2. Typed
    BY <2>1 DEF ReviewInv
  <2>3. PICK n \in 0..MaxPlaces : places \in [1..n -> Places]
    BY <2>2 DEF Typed, PlaceTable
  <2>4. DOMAIN places \in {1..m : m \in 0..MaxPlaces} /\ \A i \in DOMAIN places : places[i] \in Places
    BY <2>3
  <2>5. queue \in [Records \X Kinds -> Rows \cup {None}]
    BY <2>2, RowsAreRows DEF Typed
  <2>6. \A k \in LinkKeys : links[k] # None => links[k].place \in DOMAIN places
    BY <2>2 DEF Typed, LinkRow
  <2> QED BY <2>2, <2>4, <2>5, <2>6 DEF Typed, TypeOKReview
<1> QED BY <1>1, ReviewInvariant, PTL

(* One restaurant is one place: importCandidate() looks the identity up    *)
(* again under the lock, and the preflight holds neighbours back.          *)
THEOREM OneRestaurantOnePlace == Spec => []NoDuplicates
<1>1. ReviewInv => NoDuplicates
  BY DEF ReviewInv, IdentityInv, TwinInv, NoDuplicates
<1> QED BY <1>1, ReviewInvariant, PTL

(* A place is created from what its row held when it was accepted, for      *)
(* upsertRows() leaves decided rows alone.                                  *)
THEOREM PlacesAreAsAccepted == Spec => []ImportedAsAccepted
<1>1. ReviewInv => ImportedAsAccepted
  <2>1. SUFFICES ASSUME ReviewInv, NEW r \in Records, Row(r, "likely_new") # None,
                        Row(r, "likely_new").imported
                 PROVE  LET row == Row(r, "likely_new") IN
                        /\ places[row.place].key = r
                        /\ row.accepted # None
                        /\ places[row.place].pos = row.accepted.pos
                        /\ places[row.place].name = CanonicalName(r, row.accepted.name)
    BY DEF ImportedAsAccepted
  <2>2. PICK row : row = Row(r, "likely_new")
    OBVIOUS
  <2>3. row \in RowOver(DOMAIN places)
    BY <2>1, <2>2, RowIsTyped DEF ReviewInv, Kinds
  <2>4. row.accepted = row.data /\ MadeOf(places[row.place], r, row.data)
    BY <2>1, <2>2 DEF ReviewInv, Reviewed
  <2>5. row.data \in Evidence
    BY <2>3 DEF RowOver
  <2> QED BY <2>2, <2>4, <2>5, ReviewAssumption DEF MadeOf
<1> QED BY <1>1, ReviewInvariant, PTL

(* A contact once in the canonical table is not replaced: applyCandidates()*)
(* of the promotion tests the blank again in its update.                   *)
THEOREM ContactsStay == Spec => ContactKept
<1>1. ReviewInv /\ [Next]_vars =>
        [\A i \in DOMAIN places : places[i].contact # None => places'[i].contact = places[i].contact]_vars
  BY PlacesGetLater DEF ReviewInv, TableGrows, Later
<1> QED BY <1>1, ReviewInvariant, PTL DEF Spec, ContactKept
=============================================================================
