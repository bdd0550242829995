---------------------------- MODULE SourceReview ----------------------------
(***************************************************************************)
(* Source records on their way to the canonical places of one entity: the  *)
(* match report and its review queue, the automatic linking, the accept    *)
(* and import batch and the promotion of contact fields (scripts/ops/).    *)
(* Every tool reads, decides on what it read and writes later; tools of    *)
(* several processes and the reviewers in Admin run at the same time.      *)
(***************************************************************************)
EXTENDS SourceMatching

CONSTANTS
  Records,   \* source records, each with its stable source id
  Priority,  \* priority of a source for promotion (config/source-policy.json)
  BrandNames, \* names of the brand that a record's report of a spider is about
  BrandRules, \* distance within which a name of a spider stands for a place's name
  Procs,     \* processes that run tools
  Plans,     \* the plans considered
  MaxPlaces  \* bound: canonical places

Tools == {"pipeline", "auto_link", "batch", "promote"}
Sources == {"osm", "all_the_places", "fsq"}

Statuses == {"pending", "accepted", "linked", "rejected", "ignored"}

(* The rows of the canonical table and of the review queue. *)
Places ==
  [pos : Positions, name : Names, contact : Contacts \cup {None}, key : Records \cup {None},
   historical : BOOLEAN, life : Lives, closedOnce : BOOLEAN, via : {"seed", "new", "replacement"}]

Rows ==
  [status : Statuses, data : Evidence, nearest : 0..MaxPlaces, distance : 0..100, score : 0..100,
   place : 0..MaxPlaces, imported : BOOLEAN,
   judged : Evidence \cup {None},    \* what the decision was made on
   accepted : Evidence \cup {None}]  \* what the row held when it was written

ASSUME ReviewAssumption ==
  /\ BrandNames \in [Records \X Names -> Names]
  /\ BrandRules \in [Names \X Names -> 0..100]
  /\ Priority \in [Sources -> Int]
  /\ MaxPlaces \in Nat
  /\ IsFiniteSet(Procs)
  /\ None \notin Evidence /\ None \notin Rows

(* The table a plan starts from: the places in use have identities of      *)
(* their own, the others were closed by a reviewer.                        *)
ASSUME PlansAssumption ==
  \A p \in Plans :
    /\ \E n \in 0..MaxPlaces : p.places \in [1..n -> Places]
    /\ \A i \in DOMAIN p.places :
         /\ p.places[i].via = "seed"
         /\ p.places[i].historical \/ ~Open(p.places[i]) => p.places[i].closedOnce
    /\ \A i, j \in DOMAIN p.places :
         i # j /\ p.places[i].key # None /\ p.places[i].key = p.places[j].key =>
           p.places[i].closedOnce \/ p.places[j].closedOnce
    /\ p.tools \in [Procs -> SUBSET Tools]
    /\ p.source \in [Records -> Sources]
    /\ p.feed \in [Records -> Evidence]
    /\ p.corrections \in [Records -> SUBSET Evidence]

VARIABLES
  plan,    \* the tools and events of this behaviour
  places,  \* the canonical table
  links,   \* place_sources
  queue,   \* source_review_queue
  feed,    \* the records as the sources have them now
  job,     \* the process-local state of a tool
  left     \* bound: events left of the plan

vars == <<plan, places, links, queue, feed, job, left>>

Kinds == {"ambiguous", "likely_new"}

(* OSM ids carry their namespace in the queue and in the report's links,   *)
(* the import and the refresh strip it.                                    *)
LinkKeys == Records \X {"exported", "bare"}
Exported(r) == <<r, "exported">>
Bare(r) == IF plan.source[r] = "osm" THEN <<r, "bare">> ELSE Exported(r)

Idle == [pc |-> "idle", source |-> None, mode |-> None, todo |-> {}, rows |-> {}, ids |-> {}]

RecordsOf(source) == {r \in Records : plan.source[r] = source}
Row(r, kind) == queue[<<r, kind>>]
HasRow(r, kind, status) == Row(r, kind) # None /\ Row(r, kind).status = status

Spend(what) == left[what] > 0 /\ left' = [left EXCEPT ![what] = @ - 1]
Begins(p, tool) == job[p].pc = "idle" /\ tool \in plan.tools[p] /\ Spend("jobs")
At(p, pc) == job[p].pc = pc /\ UNCHANGED left
Goes(p, new) == job' = [job EXCEPT ![p] = new]
Ends(p) == Goes(p, Idle)

---------------------------------------------------------------------------
(* The review stage of the pipeline.                                       *)

LinkItems(source) ==
  {LET best == BestMatch(places, feed[r])
   IN [record |-> r, place |-> best.place, confidence |-> best.confidence, contact |-> feed[r].contact,
       method |-> IF feed[r].closed THEN "closed_signal" ELSE best.method] :
     r \in {q \in RecordsOf(source) : Linked(places, feed[q])}}

ReviewItem(r, kind, match) ==
  [record |-> r, kind |-> kind, data |-> feed[r], nearest |-> match.place,
   distance |-> match.distance, score |-> match.score]

ReviewItems(source) ==
  {ReviewItem(r, "ambiguous", BestMatch(places, feed[r])) :
     r \in {q \in RecordsOf(source) : Ambiguous(places, feed[q])}} \cup
  {ReviewItem(r, "likely_new", Nearest(places, feed[r])) :
     r \in {q \in RecordsOf(source) : LikelyNew(places, feed[q])}}

Report(p, source) ==
  /\ Begins(p, "pipeline")
  /\ RecordsOf(source) # {}
  /\ Goes(p, [Idle EXCEPT !.pc = "link", !.source = source,
                          !.todo = LinkItems(source), !.rows = ReviewItems(source)])
  /\ UNCHANGED <<plan, places, links, queue, feed>>

(* upsertPlaceSources(): each row is a statement of its own. *)
LinkTo(place, method, confidence, contact) ==
  [place |-> place, method |-> method, confidence |-> confidence, contact |-> contact]

WriteLink(p) ==
  /\ At(p, "link")
  /\ IF job[p].todo = {}
     THEN /\ Goes(p, [job[p] EXCEPT !.pc = IF job[p].source = "osm" THEN "refresh" ELSE "queue"])
          /\ UNCHANGED links
     ELSE \E item \in job[p].todo :
            /\ links' = [links EXCEPT ![Exported(item.record)] =
                           LinkTo(item.place, item.method, item.confidence, item.contact)]
            /\ Goes(p, [job[p] EXCEPT !.todo = @ \ {item}])
  /\ UNCHANGED <<plan, places, queue, feed>>

(* refresh-osm-place-sources.mjs: the ids it looks for have no namespace. *)
RefreshEvidence(p) ==
  /\ At(p, "refresh")
  /\ links' = [k \in LinkKeys |->
       IF links[k] # None /\ k \in {<<r, "bare">> : r \in RecordsOf("osm")}
       THEN [links[k] EXCEPT !.contact = feed[k[1]].contact] ELSE links[k]]
  /\ Goes(p, [job[p] EXCEPT !.pc = "queue"])
  /\ UNCHANGED <<plan, places, queue, feed>>

NewRow(item) ==
  [status |-> "pending", data |-> item.data, nearest |-> item.nearest, distance |-> item.distance,
   score |-> item.score, place |-> 0, imported |-> FALSE,
   judged |-> None, accepted |-> None]

\* Mutant of Upserted: the evidence of a decided row is refreshed, too.
UpsertedAlways(row, item) ==
  IF row = None THEN NewRow(item)
  ELSE [row EXCEPT !.data = item.data, !.nearest = item.nearest,
                   !.distance = item.distance, !.score = item.score]
(* upsertRows(): ON CONFLICT ... WHERE status = 'pending'. *)
Upserted(row, item) ==
  IF row = None THEN NewRow(item)
  ELSE IF row.status = "pending"
       THEN [row EXCEPT !.data = item.data, !.nearest = item.nearest,
                        !.distance = item.distance, !.score = item.score]
       ELSE row

(* sourceAutoLinkArguments() *)
ModeOf(source) ==
  [osm |-> "exact_source_id", all_the_places |-> "exact_identifiers", fsq |-> None][source]

QueueRow(p) ==
  /\ At(p, "queue")
  /\ IF job[p].rows = {}
     THEN /\ IF ModeOf(job[p].source) = None THEN Ends(p)
             ELSE Goes(p, [job[p] EXCEPT !.pc = "candidates", !.mode = ModeOf(job[p].source)])
          /\ UNCHANGED queue
     ELSE \E item \in job[p].rows :
            /\ queue' = [queue EXCEPT ![<<item.record, item.kind>>] = Upserted(@, item)]
            /\ Goes(p, [job[p] EXCEPT !.rows = @ \ {item}])
  /\ UNCHANGED <<plan, places, links, feed>>

---------------------------------------------------------------------------
(* auto-link-source-review-queue.mjs                                       *)

(* By hand: by score and distance, or by the rules for a brand's names. *)
AutoLink(p, source, mode) ==
  /\ Begins(p, "auto_link")
  /\ Goes(p, [Idle EXCEPT !.pc = "candidates", !.source = source, !.mode = mode])
  /\ UNCHANGED <<plan, places, links, queue, feed>>

UnlinkedOrSame(r, place) == links[Exported(r)] = None \/ links[Exported(r)].place = place

(* brandRuleSql() *)
Branded(name, placeName, distance) ==
  BrandRules[name, placeName] > 0 /\ distance <= BrandRules[name, placeName]

(* fetchCandidates() *)
AutoLinkable(r, mode) ==
  LET row == Row(r, "ambiguous") IN
  /\ HasRow(r, "ambiguous", "pending")
  /\ row.nearest # 0
  /\ \/ /\ mode = "score_distance"
        /\ links[Exported(r)] = None
        /\ row.score >= 98 /\ row.distance <= 100
     \/ /\ mode = "brand_rules" /\ plan.source[r] = "all_the_places"
        /\ links[Exported(r)] = None
        /\ Branded(row.data.name, places[row.nearest].name, row.distance)
     \/ /\ mode = "exact_identifiers"
        /\ UnlinkedOrSame(r, row.nearest)
        /\ SameContact(row.data, places[row.nearest]) /\ row.distance <= 10
     \/ /\ mode = "exact_source_id"
        /\ UnlinkedOrSame(r, row.nearest)
        /\ places[row.nearest].key = r /\ ~places[row.nearest].historical
        /\ row.distance <= 100 /\ Open(places[row.nearest])
        /\ row.data.name = places[row.nearest].name

AutoLinkRead(p) ==
  /\ At(p, "candidates")
  /\ Goes(p, [job[p] EXCEPT !.pc = "auto_link", !.todo =
       {[record |-> r, place |-> Row(r, "ambiguous").nearest, contact |-> Row(r, "ambiguous").data.contact,
         fresh |-> links[Exported(r)] = None] :
          r \in {q \in RecordsOf(job[p].source) : AutoLinkable(q, job[p].mode)}}])
  /\ UNCHANGED <<plan, places, links, queue, feed>>

AutoMethod(mode) ==
  [score_distance |-> "auto_reviewed_link", brand_rules |-> "auto_brand_reviewed_link",
   exact_identifiers |-> "auto_exact_identifiers",
   exact_source_id |-> "auto_exact_source_id"][mode]

(* applyCandidates(): one transaction.  Only the queue's update looks at   *)
(* the status again; the link is written, or moved, whatever it is now.    *)
AutoLinkApply(p) ==
  /\ At(p, "auto_link")
  /\ LET chosen(r) == {c \in job[p].todo : c.record = r}
         written == {c \in job[p].todo : c.fresh \/ job[p].mode = "exact_source_id"}
     IN /\ links' = [k \in LinkKeys |->
             IF \E c \in written : k = Exported(c.record)
             THEN LET c == CHOOSE c \in written : k = Exported(c.record)
                  IN LinkTo(c.place, AutoMethod(job[p].mode), 100, c.contact)
             ELSE links[k]]
        /\ queue' = [k \in DOMAIN queue |->
             IF k[2] = "ambiguous" /\ chosen(k[1]) # {} /\ HasRow(k[1], k[2], "pending")
             THEN [queue[k] EXCEPT !.status = "linked", !.place = (CHOOSE c \in chosen(k[1]) : TRUE).place]
             ELSE queue[k]]
  /\ Ends(p)
  /\ UNCHANGED <<plan, places, feed>>

---------------------------------------------------------------------------
(* process-reviewed-new-batch.mjs: accept preview, accept, preflight and   *)
(* import of the rows of the preview.                                      *)

SpotTaken(r, source) ==
  \E q \in RecordsOf(source), kind \in Kinds :
    /\ HasRow(q, kind, "accepted") \/ HasRow(q, kind, "linked")
    /\ Row(q, kind).data.pos = Row(r, "likely_new").data.pos

Acceptable(source) ==
  {r \in RecordsOf(source) :
     /\ HasRow(r, "likely_new", "pending")
     /\ ClearOfPlaces(places, Row(r, "likely_new"))
     /\ ~SpotTaken(r, source)}

Batch(p, source) ==
  /\ Begins(p, "batch")
  /\ Acceptable(source) # {}
  /\ Goes(p, [Idle EXCEPT !.pc = "accept", !.source = source, !.ids = Acceptable(source)])
  /\ UNCHANGED <<plan, places, links, queue, feed>>

AcceptRead(p) ==
  /\ At(p, "accept")
  /\ Goes(p, [job[p] EXCEPT !.pc = "accepting", !.todo =
       {[record |-> r, judged |-> Row(r, "likely_new").data] : r \in Acceptable(job[p].source)}])
  /\ UNCHANGED <<plan, places, links, queue, feed>>

Decided(row, status, data) == [row EXCEPT !.status = status, !.judged = data, !.accepted = row.data]

(* By id and status: a row that was refreshed after it was read is         *)
(* accepted for what it says now.                                          *)
AcceptWrite(p) ==
  /\ At(p, "accepting")
  /\ queue' = [k \in DOMAIN queue |->
       IF HasRow(k[1], k[2], "pending") /\ k[2] = "likely_new" /\ \E c \in job[p].todo : c.record = k[1]
       THEN Decided(queue[k], "accepted", (CHOOSE c \in job[p].todo : c.record = k[1]).judged)
       ELSE queue[k]]
  /\ Goes(p, [job[p] EXCEPT !.pc = "preflight", !.todo = {}])
  /\ UNCHANGED <<plan, places, links, feed>>

(* buildReport(): readiness on one reading of the queue and of the places. *)
Candidates(ids) ==
  {[key |-> r, pos |-> Row(r, "likely_new").data.pos, data |-> Row(r, "likely_new").data,
    readiness |-> Readiness(places, r, Row(r, "likely_new"))] :
     r \in {q \in ids : HasRow(q, "likely_new", "accepted")}}

Ready(candidates) ==
  {c \in candidates :
     \/ c.readiness = "replacement_candidate_ready"
     \/ c.readiness = "candidate_ready" /\ ~HeldBack(c.key, c.pos, candidates)}

Preflight(p) ==
  /\ At(p, "preflight")
  /\ Goes(p, [job[p] EXCEPT !.pc = "import", !.todo = Ready(Candidates(job[p].ids))])
  /\ UNCHANGED <<plan, places, links, queue, feed>>

\* Mutant of Refused: the identity is not looked up again under the lock.
RefusedNever(c) == FALSE
Refused(c) == \E i \in Holders(places, c.key) : Open(places[i])

(* canonicalSourceName(): a spider's report may name its rows by the brand. *)
CanonicalName(r, name) == IF plan.source[r] = "all_the_places" THEN BrandNames[r, name] ELSE name

NewPlace(c) ==
  [pos |-> c.data.pos, name |-> CanonicalName(c.key, c.data.name), contact |-> c.data.contact, key |-> c.key,
   historical |-> FALSE, life |-> "active", closedOnce |-> FALSE,
   via |-> IF Holders(places, c.key) = {} THEN "new" ELSE "replacement"]

(* importCandidate(): one transaction under the lock of the table.  The    *)
(* queue row is updated by its id, whatever its status is now.             *)
Import(p, c) ==
  /\ At(p, "import") /\ c \in job[p].todo /\ ~Refused(c)
  /\ Cardinality(DOMAIN places) < MaxPlaces
  /\ LET id == Cardinality(DOMAIN places) + 1
     IN /\ places' = [i \in 1..id |->
             IF i = id THEN NewPlace(c)
             ELSE IF i \in Holders(places, c.key)
                  THEN [places[i] EXCEPT !.historical = TRUE, !.life = "replaced"] ELSE places[i]]
        /\ links' = [links EXCEPT ![Bare(c.key)] = LinkTo(id, "reviewed_new_import", 100, c.data.contact)]
        /\ queue' = [queue EXCEPT ![<<c.key, "likely_new">>] =
             [@ EXCEPT !.status = "linked", !.imported = TRUE, !.place = id]]
  /\ Goes(p, [job[p] EXCEPT !.todo = @ \ {c}])
  /\ UNCHANGED <<plan, feed>>

(* A refused row ends the tool with an error, an empty list with success. *)
ImportEnds(p) ==
  /\ At(p, "import")
  /\ job[p].todo = {} \/ \E c \in job[p].todo : Refused(c)
  /\ Ends(p)
  /\ UNCHANGED <<plan, places, links, queue, feed>>

---------------------------------------------------------------------------
(* promote-source-contact-fields.mjs                                       *)

Promotable == {"exact_name_nearby", "strong_spatial_name", "reviewed_new_import"}

(* The highest source first; one value for a blank field of a place. *)
EvidenceFor(i) ==
  {k \in LinkKeys : /\ links[k] # None /\ links[k].place = i
                    /\ links[k].method \in Promotable /\ links[k].confidence >= 90
                    /\ links[k].contact # None}
Preferred(i) ==
  {k \in EvidenceFor(i) : \A o \in EvidenceFor(i) : Priority[plan.source[o[1]]] <= Priority[plan.source[k[1]]]}

Promote(p) ==
  /\ Begins(p, "promote")
  /\ Goes(p, [Idle EXCEPT !.pc = "fill", !.todo =
       {[place |-> i, contact |-> links[CHOOSE k \in Preferred(i) : TRUE].contact] :
          i \in {j \in DOMAIN places : places[j].contact = None /\ EvidenceFor(j) # {}}}])
  /\ UNCHANGED <<plan, places, links, queue, feed>>

\* Mutant of Filled: the blank is not tested again by the update.
FilledAlways(old, new) == new
(* COALESCE(NULLIF(phone, ''), $n) *)
Filled(old, new) == IF old = None THEN new ELSE old

PromoteWrite(p) ==
  /\ At(p, "fill")
  /\ IF job[p].todo = {} THEN Ends(p) /\ UNCHANGED places
     ELSE \E item \in job[p].todo :
            /\ places' = [places EXCEPT ![item.place].contact = Filled(@, item.contact)]
            /\ Goes(p, [job[p] EXCEPT !.todo = @ \ {item}])
  /\ UNCHANGED <<plan, links, queue, feed>>

---------------------------------------------------------------------------
(* What happens around the tools.                                          *)

(* A tool is killed, by its timeout or by a crash, between two statements. *)
Kill(p) ==
  /\ job[p].pc # "idle" /\ Spend("faults")
  /\ Ends(p)
  /\ UNCHANGED <<plan, places, links, queue, feed>>

(* Admin decides a pending row. *)
Decide(k, status) ==
  /\ Spend("decisions")
  /\ queue[k] # None /\ queue[k].status = "pending"
  /\ status = "accepted" => k[2] = "likely_new"
  /\ queue' = [queue EXCEPT ![k] = Decided(@, status, queue[k].data)]
  /\ UNCHANGED <<plan, places, links, feed, job>>

(* Admin closes a place, Admin or the scraper fills in its contact. *)
Close(i) ==
  /\ Spend("closures")
  /\ Open(places[i])
  /\ places' = [places EXCEPT ![i].life = "closed", ![i].closedOnce = TRUE]
  /\ UNCHANGED <<plan, links, queue, feed, job>>

FillContact(i, contact) ==
  /\ Spend("fills")
  /\ places[i].contact = None
  /\ places' = [places EXCEPT ![i].contact = contact]
  /\ UNCHANGED <<plan, links, queue, feed, job>>

(* A source publishes a correction of a record. *)
Correct(r) ==
  /\ Spend("corrections")
  /\ feed' \in {[feed EXCEPT ![r] = new] : new \in plan.corrections[r]}
  /\ feed' # feed
  /\ UNCHANGED <<plan, places, links, queue, job>>

---------------------------------------------------------------------------
Init ==
  /\ plan \in Plans
  /\ places = plan.places
  /\ feed = plan.feed
  /\ left = plan.bounds
  /\ links = [k \in LinkKeys |-> None]
  /\ queue = [k \in Records \X Kinds |-> None]
  /\ job = [p \in Procs |-> Idle]

ToolStep(p) ==
  \/ \E source \in Sources : Report(p, source) \/ Batch(p, source)
       \/ \E mode \in {"score_distance", "brand_rules"} : AutoLink(p, source, mode)
  \/ WriteLink(p) \/ RefreshEvidence(p) \/ QueueRow(p)
  \/ AutoLinkRead(p) \/ AutoLinkApply(p)
  \/ AcceptRead(p) \/ AcceptWrite(p) \/ Preflight(p)
  \/ \E c \in job[p].todo : Import(p, c)
  \/ ImportEnds(p)
  \/ Promote(p) \/ PromoteWrite(p)
  \/ Kill(p)

Around ==
  \/ \E k \in DOMAIN queue, status \in {"accepted", "rejected", "ignored"} : Decide(k, status)
  \/ \E i \in DOMAIN places : Close(i) \/ \E contact \in Contacts : FillContact(i, contact)
  \/ \E r \in Records : Correct(r)

Next == (\E p \in Procs : ToolStep(p)) \/ Around

Spec == Init /\ [][Next]_vars

---------------------------------------------------------------------------
(* The ids of canonical places are consecutive. *)
TypeOKReview ==
  /\ DOMAIN places \in {1..n : n \in 0..MaxPlaces}
  /\ \A i \in DOMAIN places : places[i] \in Places
  /\ queue \in [Records \X Kinds -> Rows \cup {None}]
  /\ \A k \in LinkKeys : links[k] # None => links[k].place \in DOMAIN places
  /\ feed \in [Records -> Evidence]

(* Of the places that were given one source identity, all but one have     *)
(* been closed by a reviewer: imports of the same row that overlap, are    *)
(* killed or are repeated neither duplicate a place in use nor retire it   *)
(* (importCandidate() looks the identity up again under the lock).         *)
UniqueIdentity ==
  \A i, j \in DOMAIN places :
    i # j /\ places[i].key # None /\ places[i].key = places[j].key =>
      places[i].closedOnce \/ places[j].closedOnce

(* While batches do not overlap, no two places are created within 25 m of  *)
(* each other for different records: neither of two accepted rows at one   *)
(* spot is imported, nor a row next to a place of an earlier batch.        *)
NoTwins ==
  Cardinality({p \in Procs : "batch" \in plan.tools[p]}) <= 1 =>
    \A i, j \in DOMAIN places :
      places[i].via = "new" /\ places[j].via = "new" /\ Open(places[i]) /\ Open(places[j])
        /\ places[i].key # places[j].key => Distance(places[i].pos, places[j].pos) > 25

(* Together: however imports interleave, one restaurant is one place.      *)
NoDuplicates == UniqueIdentity /\ NoTwins

(* A place is created from its row as that stood when it was accepted, with *)
(* the position and, but for a brand's own name, the name it had then: no   *)
(* report that comes between acceptance, preflight and import changes it.   *)
ImportedAsAccepted ==
  \A r \in Records :
    LET row == Row(r, "likely_new") IN
    row # None /\ row.imported =>
      /\ places[row.place].key = r
      /\ row.accepted # None
      /\ places[row.place].pos = row.accepted.pos
      /\ places[row.place].name = CanonicalName(r, row.accepted.name)

(* A contact once in the canonical table is not replaced by promoted       *)
(* evidence, even when it was filled in after the evidence was read.       *)
ContactKept ==
  [][\A i \in DOMAIN places : places[i].contact # None => places'[i].contact = places[i].contact]_vars

(* "Candidate selection runs the same nearby-canonical duplicate guard used *)
(* by import preflight" (the accept tool's help): what it accepts is what   *)
(* it has judged.  A report that refreshes the row between its reading and  *)
(* its update refutes it.                                                  *)
ImportedAsJudged ==
  \A r \in Records :
    LET row == Row(r, "likely_new") IN row # None /\ row.imported => row.judged = row.accepted

(* auto-link considers only pending rows and records without a link (its   *)
(* help text): a link it writes is that of a row pending at that time.     *)
LinksOnlyPending ==
  [][\A p \in Procs : AutoLinkApply(p) =>
       \A r \in Records : links'[Exported(r)] # links[Exported(r)] => HasRow(r, "ambiguous", "pending")]_vars
=============================================================================
