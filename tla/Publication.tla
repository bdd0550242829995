---------------------------- MODULE Publication ----------------------------
(***************************************************************************)
(* Publication of enriched places to the public table: the scheduled       *)
(* wrapper with its lock (ops/auto-guarded-supabase-sync.mjs), the guarded *)
(* runner and its gates (ops/guarded-supabase-sync.mjs) and the batches    *)
(* behind a checkpoint (sync-local-to-supabase.mjs).  The value of a row   *)
(* is the stamp of its last enrichment (last_enriched_at), which the       *)
(* agents' statements take when they start, not when they commit.          *)
(***************************************************************************)
EXTENDS Integers, FiniteSets

CONSTANTS
  None,
  Ids,         \* ids of places, shared by the local and the public table
  Keys,        \* stable external ids
  Names,
  Procs,       \* processes that may publish
  Launchd,     \* the one that runs the wrapper on a schedule
  Plans,       \* the plans considered
  Limit,       \* --batch
  MaxBatches,  \* --max-batches
  QaLimit      \* rows inspected by the QA report

ASSUME PublicationAssumption ==
  /\ Ids \subseteq Nat \ {0} /\ IsFiniteSet(Ids)
  /\ {Limit, MaxBatches, QaLimit} \subseteq Nat \ {0}
  /\ Launchd \in Procs

Modes == {"reviewed", "window", "reconcile", "ids"}
Flaws == {"none", "unsure", "wrong"}
Budgets == {"stamps", "manual", "faults", "imports", "weeks", "entries"}

Distance(a, b) == IF a < b THEN b - a ELSE a - b

\* Mutant of SameRestaurant: an equal id stands for the same restaurant.
SameId(place, row) == TRUE
(* assertSupabasePlaceIdentity() *)
SameRestaurant(place, row) ==
  /\ place.key # None
  /\ IF row.key = None
     THEN row.name = place.name /\ Distance(row.pos, place.pos) <= 25
     ELSE row.key = place.key /\ Distance(row.pos, place.pos) <= 250

(* A canonical place, and its rows in the two tables. *)
Places == [key : Keys \cup {None}, name : Names, pos : Int]
LocalRows == [t : Nat, graded : BOOLEAN, old : BOOLEAN, flaw : Flaws, imported : BOOLEAN]
PublicRows == [key : Keys \cup {None}, name : Names, pos : Int, value : Nat]
Marks == [t : Nat, id : Ids]

ASSUME NoneIsNoRow == None \notin LocalRows /\ None \notin PublicRows /\ None \notin Marks

(* A plan starts before the first enrichment.  In a plan with one process  *)
(* nothing is published by hand, and what the website adds is not the      *)
(* restaurant that has the id locally.  In a tidy one nothing fails after  *)
(* a write and there is no reconciliation by id.                           *)
ASSUME PlansAssumption ==
  \A p \in Plans :
    /\ p.place \in [Ids -> Places]
    /\ p.local \in [Ids -> LocalRows \cup {None}]
    /\ \A i \in Ids : p.local[i] # None => p.local[i].t = 0
    /\ p.public \in [Ids -> PublicRows \cup {None}]
    /\ p.entries \subseteq PublicRows
    /\ p.grades \subseteq BOOLEAN /\ p.flaws \subseteq Flaws
    /\ p.bounds \in [Budgets -> Nat]
    /\ p.tidy => p.alone /\ ~p.maintenance /\ p.faults \subseteq {"kill", "gate"}
    /\ p.alone => /\ p.bounds.manual = 0
                  /\ \A i \in Ids : \A row \in p.entries :
                       /\ row.key # p.place[i].key
                       /\ row.key = None /\ row.name = p.place[i].name =>
                            Distance(row.pos, p.place[i].pos) > 25

VARIABLES
  plan,      \* the places, modes, faults and events of this behaviour
  local,     \* the canonical table, as committed
  pending,   \* statements of the agents that have started and not committed
  public,    \* the public table
  after,     \* the checkpoint file of the enrichment window
  afterId,   \* the checkpoint file of the reconciliation
  lock,      \* the lock directory of the wrapper
  run,       \* the process-local state of a publication
  clock,     \* stamps given
  passed,    \* history: rows committed when their stamp had been passed
  left       \* bound: events left of the plan

vars == <<plan, local, pending, public, after, afterId, lock, run, clock, passed, left>>
table == <<local, pending, passed>>

NoLock == [held |-> FALSE, owner |-> None, old |-> FALSE]
Off == [pc |-> "off", mode |-> "window", wrapped |-> FALSE, ids |-> {}, tries |-> 0,
        batches |-> 0, rows |-> {}, missing |-> {}, dirty |-> {}]

Spend(what) == left[what] > 0 /\ left' = [left EXCEPT ![what] = @ - 1]
At(p, pc) == run[p].pc = pc /\ UNCHANGED <<plan, clock, pending, passed, left>>
Goes(p, new) == run' = [run EXCEPT ![p] = new]
To(p, pc) == Goes(p, [run[p] EXCEPT !.pc = pc])

---------------------------------------------------------------------------
(* The rows a mode selects.                                                *)

Precedes(i, j) == local[i].t < local[j].t \/ (local[i].t = local[j].t /\ i < j)

\* Mutant of Behind: rows of one stamp are not told apart by their ids.
BehindStamp(i, mark) == mark # None /\ local[i].t <= mark.t
UpTo(t, i, mark) == t < mark.t \/ (t = mark.t /\ i <= mark.id)
(* (last_enriched_at, id) is at or below the checkpoint. *)
Behind(i, mark) == mark # None /\ UpTo(local[i].t, i, mark)

Window == {i \in Ids : local[i] # None /\ local[i].t > 0 /\ local[i].graded /\ ~local[i].old}

(* localSyncSelect(): what a mode may still publish, and its first rows. *)
Eligible(p) ==
  CASE run[p].mode = "window" -> {i \in Window : ~Behind(i, after)}
    [] run[p].mode = "reconcile" -> {i \in Ids : local[i] # None /\ local[i].t > 0 /\ i > afterId}
    [] OTHER -> {i \in run[p].ids : local[i] # None /\ local[i].t > 0}

First(p, n) ==
  LET before(i) == IF run[p].mode = "window" THEN {j \in Eligible(p) : Precedes(j, i)}
                   ELSE {j \in Eligible(p) : j < i}
  IN IF run[p].mode \in {"ids", "reviewed"} THEN Eligible(p)
     ELSE {i \in Eligible(p) : Cardinality(before(i)) < n}

Absent(ids) == {i \in ids : public[i] = None}
Conflict(ids) == \E i \in ids \ Absent(ids) : ~SameRestaurant(plan.place[i], public[i])

(* buildSupabasePayload(): an unchanged row gives no payload. *)
Payloads(rows) == {r \in rows : public[r.id] # None /\ public[r.id].value # r.value}
Snapshot(ids) == {[id |-> i, value |-> local[i].t] : i \in ids}
IdsOf(rows) == {r.id : r \in rows}

---------------------------------------------------------------------------
(* The wrapper: one phase of guarded publication after the other.          *)

Phase(p, mode, ids) ==
  Goes(p, [Off EXCEPT !.pc = "qa", !.mode = mode, !.ids = ids, !.wrapped = run[p].wrapped])

(* A failed reviewed-new step does not suppress the main sync; only a      *)
(* successful main sync is followed by the reconciliation by id.           *)
Leaves(p, ok) ==
  IF ~run[p].wrapped THEN Goes(p, Off)
  ELSE IF run[p].mode = "reviewed" THEN Phase(p, "window", {})
  ELSE IF run[p].mode = "window" /\ ok /\ plan.maintenance THEN Phase(p, "reconcile", {})
  ELSE To(p, "release")

Begin(p) ==
  /\ p = Launchd /\ run[p].pc = "off"
  /\ Goes(p, [Off EXCEPT !.pc = "lock", !.wrapped = TRUE])
  /\ UNCHANGED <<plan, table, public, after, afterId, lock, clock, left>>

(* The same by hand, or the guarded runner for ids, without the lock. *)
BeginByHand(p) ==
  /\ p # Launchd /\ run[p].pc = "off" /\ Spend("manual")
  /\ \/ Goes(p, [Off EXCEPT !.pc = "lock", !.wrapped = TRUE])
     \/ plan.byId /\ Goes(p, [Off EXCEPT !.pc = "qa", !.mode = "ids", !.ids = Ids])
  /\ UNCHANGED <<plan, table, public, after, afterId, lock, clock>>

(* acquireLock() *)
TakeLock(p) ==
  /\ At(p, "lock")
  /\ IF ~lock.held
     THEN lock' = [NoLock EXCEPT !.held = TRUE, !.owner = p] /\ To(p, "repair")
     ELSE UNCHANGED lock /\ Goes(p, IF lock.old THEN [run[p] EXCEPT !.pc = "steal"] ELSE Off)
  /\ UNCHANGED <<local, public, after, afterId>>

StealLock(p) ==
  /\ At(p, "steal")
  /\ lock' = NoLock /\ To(p, "lock")
  /\ UNCHANGED <<local, public, after, afterId>>

(* The finally block removes the directory, whoever made it. *)
ReleaseLock(p) ==
  /\ At(p, "release")
  /\ lock' = NoLock /\ Goes(p, Off)
  /\ UNCHANGED <<local, public, after, afterId>>

(* repair-missing-classification-confidence.mjs: rows of OSM in the        *)
(* window; their stamps stay as they are.                                  *)
Inspectable == {i \in Ids : local[i] # None /\ local[i].t > 0 /\ ~local[i].old /\ i \in plan.osm}
Repaired ==
  [i \in Ids |-> IF i \in Inspectable /\ local[i].flaw = "unsure"
                 THEN [local[i] EXCEPT !.flaw = "none"] ELSE local[i]]

(* reconcile-reviewed-new-supabase.mjs *)
ReviewedMissing == {i \in Absent(Ids) : local[i] # None /\ local[i].imported /\ local[i].t > 0 /\ local[i].graded}

RepairConfidence(p) ==
  /\ At(p, "repair")
  /\ local' = Repaired
  /\ IF plan.maintenance /\ ReviewedMissing # {}
     THEN Phase(p, "reviewed", ReviewedMissing) ELSE Phase(p, "window", {})
  /\ UNCHANGED <<public, after, afterId, lock>>

---------------------------------------------------------------------------
(* The gates of the guarded runner.                                        *)

(* classification-qa-report.mjs: the rows named, or the newest of OSM. *)
Inspected(p) ==
  IF run[p].ids # {} THEN {i \in run[p].ids : local[i] # None}
  ELSE {i \in Inspectable : Cardinality({j \in Inspectable : Precedes(i, j)}) < QaLimit}

QaFails(rows) == \E i \in rows : local[i].flaw # "none"
Repairable(rows) == \A i \in rows : local[i].flaw # "wrong"

QaPasses(p) ==
  /\ At(p, "qa") /\ ~QaFails(Inspected(p))
  /\ Goes(p, [run[p] EXCEPT !.pc = "ready", !.tries = 0])
  /\ UNCHANGED <<local, public, after, afterId, lock>>

(* A blocking issue of the health report, or a bulk RPC that is not ready. *)
HealthStops(p) ==
  /\ run[p].pc = "qa" /\ "gate" \in plan.faults /\ Spend("faults")
  /\ Leaves(p, FALSE)
  /\ UNCHANGED <<plan, table, public, after, afterId, lock, clock>>

RpcStops(p) ==
  /\ run[p].pc = "ready" /\ "gate" \in plan.faults /\ Spend("faults")
  /\ Leaves(p, FALSE)
  /\ UNCHANGED <<plan, table, public, after, afterId, lock, clock>>

(* runQaWithRepair() *)
MayRepair(p) == run[p].tries < 3 /\ run[p].ids = {} /\ Repairable(Inspected(p))

QaRepairs(p) ==
  /\ At(p, "qa") /\ QaFails(Inspected(p)) /\ MayRepair(p)
  /\ local' = Repaired
  /\ Goes(p, [run[p] EXCEPT !.tries = @ + 1])
  /\ UNCHANGED <<public, after, afterId, lock>>

QaStops(p) ==
  /\ At(p, "qa") /\ QaFails(Inspected(p)) /\ ~MayRepair(p)
  /\ Leaves(p, FALSE)
  /\ UNCHANGED <<local, public, after, afterId, lock>>

\* Mutant of NothingReady: rows missing from the public table do not count.
NothingReadyToUpdate(p) == Payloads(Snapshot(First(p, Limit))) = {}
(* The readiness report looks at the first batch and at no other. *)
NothingReady(p) == LET ids == First(p, Limit) IN Payloads(Snapshot(ids)) = {} /\ Absent(ids) = {}

StopsClean(p) ==
  /\ At(p, "ready")
  /\ ~Conflict(First(p, Limit))
  /\ run[p].mode # "reconcile" /\ NothingReady(p)
  /\ Leaves(p, TRUE)
  /\ UNCHANGED <<local, public, after, afterId, lock>>

(* Both the readiness report and the dry run throw on a conflict. *)
ConflictStops(p) ==
  /\ At(p, "ready")
  /\ Conflict(First(p, Limit * MaxBatches))
  /\ Leaves(p, FALSE)
  /\ UNCHANGED <<local, public, after, afterId, lock>>

DryRunPasses(p) ==
  /\ At(p, "ready")
  /\ ~Conflict(First(p, Limit * MaxBatches))
  /\ run[p].mode = "reconcile" \/ ~NothingReady(p)
  /\ To(p, "select")
  /\ UNCHANGED <<local, public, after, afterId, lock>>

---------------------------------------------------------------------------
(* The batches.                                                            *)

(* A row that the window reads was not passed after all. *)
SelectRows(p) ==
  /\ run[p].pc = "select"
  /\ IF run[p].batches = MaxBatches \/ First(p, Limit) = {} THEN To(p, "post") /\ UNCHANGED passed
     ELSE LET rows == Snapshot(First(p, Limit))
          IN /\ Goes(p, [run[p] EXCEPT !.pc = "compare", !.batches = @ + 1, !.rows = rows])
             /\ passed' = IF run[p].mode = "window" THEN passed \ IdsOf(rows) ELSE passed
  /\ UNCHANGED <<plan, local, pending, public, after, afterId, lock, clock, left>>

(* The public rows are read and every payload is made before any write;    *)
(* a missing row is inserted for reviewed-new places only, and skipped     *)
(* otherwise.                                                              *)
Insertable(p, rows) ==
  IF run[p].mode = "reviewed" THEN {r \in rows : public[r.id] = None /\ local[r.id].imported} ELSE {}

Compare(p) ==
  /\ At(p, "compare")
  /\ LET rows == run[p].rows
     IN IF Conflict(IdsOf(rows)) THEN Leaves(p, FALSE)
        ELSE Goes(p, [run[p] EXCEPT !.pc = "write", !.dirty = Payloads(rows),
                                    !.missing = Insertable(p, rows)])
  /\ UNCHANGED <<local, public, after, afterId, lock>>

Inserted(r) ==
  [key |-> plan.place[r.id].key, name |-> plan.place[r.id].name, pos |-> plan.place[r.id].pos, value |-> r.value]

Written(rows) ==
  [i \in Ids |->
     IF i \notin IdsOf(rows) THEN public[i]
     ELSE LET r == CHOOSE r \in rows : r.id = i
          IN IF public[i] = None THEN Inserted(r) ELSE [public[i] EXCEPT !.value = r.value]]

Taken(p) == {r \in run[p].missing : public[r.id] # None}

(* Inserts first, then the updates.  A primary key that is taken by now    *)
(* ends the run before the updates.                                        *)
Write(p) ==
  /\ At(p, "write")
  /\ IF Taken(p) = {}
     THEN public' = Written(run[p].missing \cup run[p].dirty) /\ To(p, "save")
     ELSE public' = Written(run[p].missing \ Taken(p)) /\ Leaves(p, FALSE)
  /\ UNCHANGED <<local, after, afterId, lock>>

(* A request is lost, before or after the server has done its part. *)
WriteFails(p) ==
  /\ run[p].pc = "write" /\ "write" \in plan.faults /\ Spend("faults")
  /\ \E done \in SUBSET ((run[p].missing \ Taken(p)) \cup run[p].dirty) :
       /\ done \cap run[p].dirty # {} => Taken(p) = {} /\ run[p].missing \subseteq done
       /\ public' = Written(done)
  /\ Leaves(p, FALSE)
  /\ UNCHANGED <<plan, table, after, afterId, lock, clock>>

(* A lost insert is confirmed by its primary key alone. *)
InsertConfirmed(p) ==
  /\ run[p].pc = "write" /\ Taken(p) # {} /\ "write" \in plan.faults /\ Spend("faults")
  /\ public' = Written((run[p].missing \ Taken(p)) \cup run[p].dirty)
  /\ To(p, "save")
  /\ UNCHANGED <<plan, table, after, afterId, lock, clock>>

(* writeSyncCheckpoint() of the last row of the batch; ids have none. *)
LastOf(rows) ==
  CHOOSE r \in rows : \A q \in rows : q.value < r.value \/ (q.value = r.value /\ q.id <= r.id)

SaveCheckpoint(p) ==
  /\ At(p, "save")
  /\ LET rows == run[p].rows
     IN /\ after' = IF run[p].mode = "window" THEN [t |-> LastOf(rows).value, id |-> LastOf(rows).id] ELSE after
        /\ afterId' = IF run[p].mode = "reconcile"
                      THEN CHOOSE i \in IdsOf(rows) : \A j \in IdsOf(rows) : j <= i ELSE afterId
  /\ Goes(p, [run[p] EXCEPT !.pc = IF run[p].mode \in {"ids", "reviewed"} THEN "post" ELSE "select",
                            !.rows = {}, !.dirty = {}, !.missing = {}])
  /\ UNCHANGED <<local, public, lock>>

(* The second QA decides the result, not what was written. *)
PostChecks(p) ==
  /\ At(p, "post")
  /\ IF QaFails(Inspected(p)) /\ MayRepair(p)
     THEN local' = Repaired /\ Goes(p, [run[p] EXCEPT !.tries = @ + 1])
     ELSE UNCHANGED local /\ Leaves(p, ~QaFails(Inspected(p)))
  /\ UNCHANGED <<public, after, afterId, lock>>

---------------------------------------------------------------------------
(* What happens around a publication.                                      *)

(* A process dies; "late" is between a write and its checkpoint. *)
Kill(p) ==
  /\ run[p].pc # "off" /\ Spend("faults")
  /\ IF run[p].pc = "save" THEN "late" \in plan.faults ELSE "kill" \in plan.faults
  /\ Goes(p, Off)
  /\ UNCHANGED <<plan, table, public, after, afterId, lock, clock>>

InWrapper(p) == run[p].wrapped /\ run[p].pc \notin {"off", "lock", "steal"}

(* 25 minutes pass: less than a run may take when the plan is slow. *)
LockAges ==
  /\ lock.held /\ ~lock.old
  /\ plan.slow \/ ~InWrapper(lock.owner)
  /\ lock' = [lock EXCEPT !.old = TRUE]
  /\ UNCHANGED <<plan, table, public, after, afterId, run, clock, left>>

(* Agents finish places.  NOW() is the start of the statement, and two of  *)
(* one microsecond share a stamp.                                          *)
StartEnriching(ids, graded, flaw) ==
  /\ Spend("stamps") /\ clock' = clock + 1
  /\ \A i \in ids : local[i] # None
  /\ pending' = pending \cup {[id |-> i, t |-> clock + 1, graded |-> graded, flaw |-> flaw] : i \in ids}
  /\ UNCHANGED <<plan, local, public, after, afterId, lock, run, passed>>

(* The stamp is behind the checkpoint, or behind a row that is being sent. *)
Sending(p) == run[p].mode = "window" /\ run[p].pc \in {"compare", "write", "save"}
PassedBy(t, i) ==
  \/ after # None /\ UpTo(t, i, after)
  \/ \E p \in Procs : Sending(p) /\ \E r \in run[p].rows : UpTo(t, i, [t |-> r.value, id |-> r.id])

(* The row is seen when the statement commits. *)
CommitEnrichment(s) ==
  /\ pending' = pending \ {s}
  /\ local' = [local EXCEPT ![s.id].t = s.t, ![s.id].old = FALSE, ![s.id].graded = @ \/ s.graded,
                            ![s.id].flaw = IF s.graded THEN s.flaw ELSE @]
  /\ passed' = IF PassedBy(s.t, s.id) THEN passed \cup {s.id} ELSE passed \ {s.id}
  /\ UNCHANGED <<plan, public, after, afterId, lock, run, clock, left>>

(* A reviewed source record becomes a place. *)
ImportPlace(i) ==
  /\ Spend("imports") /\ local[i] = None
  /\ local' = [local EXCEPT ![i] =
       [t |-> 0, graded |-> FALSE, old |-> FALSE, flaw |-> "none", imported |-> TRUE]]
  /\ UNCHANGED <<plan, pending, passed, public, after, afterId, lock, run, clock>>

(* 168 hours have passed since the oldest stamp of the window. *)
LeavesWindow(i) ==
  /\ Spend("weeks")
  /\ local[i] # None /\ local[i].t > 0 /\ ~local[i].old
  /\ \A j \in Ids : local[j] # None /\ local[j].t > 0 /\ local[j].t < local[i].t => local[j].old
  /\ \A s \in pending : s.t > local[i].t
  /\ local' = [local EXCEPT ![i].old = TRUE]
  /\ UNCHANGED <<plan, pending, passed, public, after, afterId, lock, run, clock>>

(* The website adds a place of its own under the next id it has. *)
WebsiteAdds(i) ==
  /\ Spend("entries") /\ public[i] = None
  /\ public' \in {[public EXCEPT ![i] = row] : row \in plan.entries}
  /\ UNCHANGED <<plan, table, after, afterId, lock, run, clock>>

---------------------------------------------------------------------------
Init ==
  /\ plan \in Plans
  /\ local = plan.local /\ pending = {} /\ passed = {}
  /\ public = plan.public
  /\ after = None /\ afterId = 0
  /\ lock = NoLock
  /\ run = [p \in Procs |-> Off]
  /\ clock = 0
  /\ left = plan.bounds

Step(p) ==
  \/ TakeLock(p) \/ StealLock(p) \/ ReleaseLock(p) \/ RepairConfidence(p)
  \/ QaPasses(p) \/ QaRepairs(p) \/ QaStops(p)
  \/ StopsClean(p) \/ ConflictStops(p) \/ DryRunPasses(p)
  \/ SelectRows(p) \/ Compare(p) \/ Write(p) \/ SaveCheckpoint(p) \/ PostChecks(p)

Next ==
  \/ \E p \in Procs : Begin(p) \/ BeginByHand(p) \/ Step(p)
  \/ \E p \in Procs : HealthStops(p) \/ RpcStops(p) \/ WriteFails(p) \/ InsertConfirmed(p) \/ Kill(p)
  \/ LockAges
  \/ \E ids \in SUBSET Ids \ {{}}, graded \in plan.grades, flaw \in plan.flaws : StartEnriching(ids, graded, flaw)
  \/ \E s \in pending : CommitEnrichment(s)
  \/ \E i \in Ids : ImportPlace(i) \/ LeavesWindow(i) \/ WebsiteAdds(i)

(* launchd starts the wrapper for ever, steps go on, and time passes. *)
Spec ==
  /\ Init /\ [][Next]_vars
  /\ \A p \in Procs : WF_vars(Begin(p)) /\ WF_vars(Step(p))
  /\ WF_vars(LockAges)

---------------------------------------------------------------------------
(* Wherever the checkpoint has passed a row of the window, the public row  *)
(* of the same restaurant carries the value of its last enrichment: after  *)
(* lost requests, kills and repeated batches, with stamps that are equal   *)
(* and enrichments that commit in the middle of a batch.  Not so a row     *)
(* whose enrichment commits only when its stamp has been passed            *)
(* (sync-local-to-supabase.mjs looks after the checkpoint only), nor the   *)
(* publications of two processes at a time: one process is assumed.        *)
MirrorBehindCheckpoint ==
  plan.alone =>
    \A i \in Window :
      Behind(i, after) /\ i \notin passed /\ public[i] # None /\ SameRestaurant(plan.place[i], public[i]) =>
        public[i].value = local[i].t

(* No publication changes a public row of another restaurant, be it one    *)
(* the website adds under an id that was free when the batch was read.     *)
Unrelated(place, row) == ~(IF row.key = None THEN row.name = place.name ELSE row.key = place.key)
NeverOverwritesAnother ==
  [][\A i \in Ids :
       public[i] # None /\ Unrelated(plan.place[i], public[i]) => public'[i] = public[i]]_vars

(* While nothing fails after a write, each enrichment of a place that is   *)
(* public is published in the end, or the place has left the window: the   *)
(* lock of a dead run is taken over, missing confidence is repaired, and   *)
(* rows missing from the public table are passed.  Not so one that commits *)
(* only when its stamp has been passed (supabase-sync-policy.mjs:229), nor *)
(* with the reconciliation by id, which publishes ahead of the checkpoint  *)
(* and so may make the first batch look idle (StopsOnlyWhenIdle).          *)
Published(i) == i \notin Window \/ public[i].value = local[i].t
EnrichmentPublished ==
  \A i \in Ids :
    (plan.tidy /\ i \in Window /\ public[i] # None) ~> (public[i] # None /\ (Published(i) \/ i \in passed))

(* A run that stops with "No rows to update" leaves none to be updated     *)
(* (guarded-supabase-sync.mjs:265): no public row waits behind the batch   *)
(* that was looked at.                                                     *)
Waiting(i) == i \in Window /\ ~Behind(i, after) /\ public[i] # None /\ public[i].value # local[i].t
StopsOnlyWhenIdle ==
  [][\A p \in Procs : run[p].mode = "window" /\ StopsClean(p) => \A i \in Ids : ~Waiting(i)]_vars

(* The wrapper "prevents overlapping scheduled runs"                       *)
(* (auto-guarded-supabase-sync.mjs:5).                                     *)
ScheduledRunsExclusive == \A p, q \in Procs : InWrapper(p) /\ InWrapper(q) => p = q
=============================================================================
