--------------------------- MODULE BuiltHereRunner --------------------------
(***************************************************************************)
(* The BuiltHere runner: a scan of each city's official source, a batch of *)
(* object ids at a time, into commands for the website's database, with a  *)
(* checkpoint in the private workspace; then the approved tips.  A run     *)
(* may stop at any step, by an error of any call, a signal or a crash,     *)
(* and loses what is not on disk; the database may have committed by then. *)
(*                                                                         *)
(* One run at a time (the builthere-run resource, see HostResourceGate).   *)
(* A mapped payload is a Version: the map to it, and the hash kept for it, *)
(* are one to one.  Records and commands come in the order of their object *)
(* ids, so that lists of them are functions of object ids.  Budgets and    *)
(* the storage guard are ways to stop.                                     *)
(***************************************************************************)
EXTENDS Naturals, FiniteSets, Sequences, SequencesExt, FiniteSetsExt, Functions, TrustedHost

CONSTANTS
  Cities,     \* the sources, in the order of a run
  Obj,        \* the object ids a city's source may have, numbers
  Identity,   \* sourceId: permits and plans
  Version,    \* mapped payloads
  Refused,    \* SUBSET Version: those apply_official_v1 finds invalid (22023)
  Malformed,  \* a record without a valid mapping
  Gone,       \* an id the source no longer has
  BatchSize, MaxBatches,
  Tip,        \* tips an approver may release
  MaxScans,   \* bound on the scans of each city
  MaxStops,   \* bound on the runs that stop
  None

City == ToSet(Cities)
Record == [identity : Identity, version : Version]

ASSUME RunnerAssumption ==
  /\ Cities \in Seq(City) /\ Cities # <<>>
  /\ Refused \subseteq Version
  /\ BatchSize \in Nat \ {0} /\ MaxBatches \in Nat \ {0}
  /\ Obj \in [City -> SUBSET Nat] /\ \A c \in City : IsFiniteSet(Obj[c])
  /\ Malformed \notin Record \cup {Gone} /\ Gone \notin Record
  /\ MaxScans \in [City -> Nat \ {0}]
  /\ MaxStops \in Nat

VARIABLES
  disk,     \* the checkpoint of each city
  reviews,  \* the review files: outcomes of a batch
  ledgerOf, \* website: the proposal last accepted for an identity of a city
  sent,     \* website: the command of each idempotency key
  tips,     \* website: approved tips that are not published
  due,      \* the refresh interval has passed since a completed scan
  scans,
  pc, city, \* where the run is, in which of the cities
  complete, \* the stages of the batch that are complete
  state,    \* the checkpoint in memory
  acquired, \* what the stage before this one returned
  receipts, \* of the commands sent
  batches,  \* of this city in this run
  fetched,  \* history: what the source held when the pending batch was acquired
  stops

disks == <<disk, reviews>>
website == <<ledgerOf, sent, tips>>
memory == <<pc, city, complete, state, acquired, receipts, batches>>
vars == <<disks, website, due, scans, memory, fetched, stops>>

Empty == [o \in {} |-> None]
NoBatch == [start |-> 0, end |-> 0, commands |-> Empty, quarantine |-> {}, missing |-> {}]

Scan(c, ids, versions) ==
  [cycle |-> scans[c] + 1, ids |-> ids, cursor |-> 0, pending |-> NoBatch, versions |-> versions]

\* No checkpoint file: like a scan that found nothing.
NoScan ==
  [cycle |-> 0, ids |-> <<>>, cursor |-> 0, pending |-> NoBatch,
   versions |-> [i \in Identity |-> None]]

Pending(s) == s.pending # NoBatch
Scanned(s) == s.cursor = Len(s.ids)
Idling(s) == ~Pending(s) /\ Scanned(s)

Stages == <<"acquire", "transform", "review", "publish">>
DependsOn == [s \in ToSet(Stages) |->
  CASE s = "acquire" -> {} [] s = "transform" -> {"acquire"}
    [] s = "review" -> {"transform"} [] s = "publish" -> {"review"}]

ASSUME DefinitionAssumption == Executable(Stages, DependsOn)

Init ==
  /\ disk = [c \in City |-> NoScan]
  /\ reviews = {}
  /\ ledgerOf = [c \in City |-> [i \in Identity |-> None]]
  /\ sent = Empty
  /\ tips = {}
  /\ due = [c \in City |-> TRUE]
  /\ scans = [c \in City |-> 0]
  /\ pc = "idle" /\ city = 1 /\ complete = {} /\ state = None
  /\ acquired = None /\ receipts = Empty /\ batches = 0
  /\ fetched = [c \in City |-> None]
  /\ stops = 0

C == Cities[city]
At(s) == pc = "batch" /\ IsNext(s, Stages, DependsOn, complete)

Forget ==
  /\ complete' = {} /\ state' = None /\ acquired' = None /\ receipts' = Empty /\ batches' = 0

-----------------------------------------------------------------------------
(* A run goes through the cities. *)

BeginRun ==
  /\ pc = "idle"
  /\ pc' = "city" /\ city' = 1
  /\ UNCHANGED <<disks, website, due, scans, complete, state, acquired, receipts, batches,
                 fetched, stops>>

NextCity ==
  /\ IF city = Len(Cities) THEN pc' = "tips" /\ UNCHANGED city
     ELSE pc' = "city" /\ city' = city + 1
  /\ Forget

\* load(): a scan that completed is left alone for refreshHours.
Defer ==
  /\ pc = "city" /\ ~due[C]
  /\ Idling(disk[C])
  /\ NextCity
  /\ UNCHANGED <<disks, website, due, scans, fetched, stops>>

\* discoverArcgisIds() sorts them.
Ascending(ids) ==
  {s \in [1..Cardinality(ids) -> ids] : \A i, j \in DOMAIN s : i < j => s[i] < s[j]}

\* A scan begins with the ids the source has, in their order, and the ledger of the
\* last one.
Discover ==
  /\ pc = "city" /\ due[C]
  /\ Idling(disk[C])
  /\ \E ids \in SUBSET Obj[C] : \E sorted \in Ascending(ids) :
       /\ state' = Scan(C, sorted, disk[C].versions)
       /\ due' = [due EXCEPT ![C] = ids # {}]
  /\ disk' = [disk EXCEPT ![C] = state']
  /\ scans' = [scans EXCEPT ![C] = @ + 1]
  /\ pc' = "batch"
  /\ UNCHANGED <<reviews, website, city, complete, acquired, receipts, batches, fetched, stops>>

Resume ==
  /\ pc = "city" /\ ~Scanned(disk[C])
  /\ state' = disk[C]
  /\ pc' = "batch"
  /\ UNCHANGED <<disks, website, due, scans, city, complete, acquired, receipts, batches,
                 fetched, stops>>

\* The batches of this run, or of the scan, are done.
LeaveCity ==
  /\ pc = "batch" /\ complete = {}
  /\ Scanned(state) \/ batches = MaxBatches
  /\ NextCity
  /\ UNCHANGED <<disks, website, due, scans, fetched, stops>>

-----------------------------------------------------------------------------
(* The stages of a batch. *)

\* The versions of identities after those of writes, of which a later one of an identity
\* replaces an earlier one.
Overlaid(versions, writes) ==
  [i \in Identity |->
     LET of == {o \in DOMAIN writes : writes[o].identity = i}
     IN IF of = {} THEN versions[i] ELSE writes[Max(of)].version]

\* Mutant of End: the last id is never reached.
EndBeforeLast(s) == IF s.cursor + BatchSize < Len(s.ids)
                    THEN s.cursor + BatchSize ELSE Len(s.ids) - 1

End(s) == IF s.cursor + BatchSize < Len(s.ids) THEN s.cursor + BatchSize ELSE Len(s.ids)
BatchIds(s) == {s.ids[k] : k \in (s.cursor + 1)..End(s)}

Acquire ==
  /\ At("acquire") /\ ~Scanned(state) /\ batches < MaxBatches
  /\ IF Pending(state) THEN UNCHANGED <<acquired, fetched>>
     ELSE /\ acquired' \in [BatchIds(state) -> Record \cup {Malformed, Gone}]
          /\ fetched' = [fetched EXCEPT ![C] = acquired']
  /\ complete' = complete \cup {"acquire"}
  /\ UNCHANGED <<disks, website, due, scans, pc, city, state, receipts, batches, stops>>

Records(page) == {o \in DOMAIN page : page[o] \notin {Malformed, Gone}}

\* Mutant of Unchanged: against the ledger alone.
UnchangedInLedger(versions, page, o) == versions[page[o].identity] = page[o].version

\* A record whose identity has this version, in the ledger or earlier in the batch.
Unchanged(versions, page, o) ==
  Overlaid(versions, Restrict(page, {p \in Records(page) : p < o}))[page[o].identity]
    = page[o].version

\* A command for every other record.
Batch(s, page) ==
  [start |-> s.cursor, end |-> End(s),
   commands |-> Restrict(page, {o \in Records(page) : ~Unchanged(s.versions, page, o)}),
   quarantine |-> {o \in DOMAIN page : page[o] = Malformed},
   missing |-> {o \in DOMAIN page : page[o] = Gone}]

Transform ==
  /\ At("transform")
  /\ complete' = complete \cup {"transform"}
  /\ acquired' = IF Pending(state) THEN state.pending ELSE Batch(state, acquired)
  /\ UNCHANGED <<disks, website, due, scans, pc, city, state, receipts, batches, fetched, stops>>

\* Mutant of SavedBatch: the batch is kept in memory only.
SavedBatchInMemory == disk[C]

SavedBatch == state'

\* The batch is on disk before the first of its commands is sent.
Review ==
  /\ At("review")
  /\ complete' = complete \cup {"review"}
  /\ state' = [state EXCEPT !.pending = acquired]
  /\ disk' = [disk EXCEPT ![C] = SavedBatch]
  /\ UNCHANGED <<reviews, website, due, scans, pc, city, acquired, receipts, batches,
                 fetched, stops>>

-----------------------------------------------------------------------------
(* The last stage: publication. *)

Commands == state.pending.commands
Key(o) == <<C, state.cycle, o>>

\* apply_official_v1() of commands: a key that has a receipt is answered from it.
Applied(commands) ==
  LET fresh == Restrict(commands, {o \in DOMAIN commands : Key(o) \notin DOMAIN sent})
  IN
  /\ ledgerOf' = [ledgerOf EXCEPT ![C] = Overlaid(@, fresh)]
  /\ sent' = [k \in DOMAIN sent \cup {Key(o) : o \in DOMAIN fresh} |->
                IF k \in DOMAIN sent THEN sent[k] ELSE fresh[k[3]]]

\* One statement for the batch; an invalid command rolls all of it back.
Send ==
  /\ At("publish") /\ receipts = Empty /\ Commands # Empty
  /\ IF \E o \in DOMAIN Commands : Commands[o].version \in Refused
     THEN pc' = "isolating" /\ UNCHANGED <<website, receipts>>
     ELSE /\ Applied(Commands)
          /\ receipts' = [o \in DOMAIN Commands |-> "applied"]
          /\ UNCHANGED <<pc, tips>>
  /\ UNCHANGED <<disks, due, scans, city, complete, state, acquired, batches, fetched, stops>>

Receive(o, receipt) ==
  receipts' = [p \in DOMAIN receipts \cup {o} |-> IF p = o THEN receipt ELSE receipts[p]]

\* Then one for each, in order.
Isolate ==
  /\ pc = "isolating"
  /\ \E o \in DOMAIN Commands \ DOMAIN receipts :
       /\ \A q \in DOMAIN Commands \ DOMAIN receipts : o <= q
       /\ IF Commands[o].version \in Refused
          THEN Receive(o, "rejected") /\ UNCHANGED website
          ELSE Receive(o, "applied") /\ Applied(Restrict(Commands, {o})) /\ UNCHANGED tips
  /\ pc' = IF DOMAIN receipts' = DOMAIN Commands THEN "batch" ELSE pc
  /\ UNCHANGED <<disks, due, scans, city, complete, state, acquired, batches, fetched, stops>>

AllAnswered == DOMAIN receipts = DOMAIN Commands
With(receipt) == {o \in DOMAIN Commands : receipts[o] = receipt}

\* The outcomes are on disk before the cursor moves.
Archive ==
  LET b == state.pending
  IN
  /\ At("publish") /\ AllAnswered
  /\ pc' = "checkpoint"
  /\ reviews' = IF b.commands = Empty /\ b.quarantine = {} /\ b.missing = {} THEN reviews
                ELSE reviews \cup {[city |-> C, cycle |-> state.cycle, start |-> b.start,
                                    quarantine |-> b.quarantine \cup With("rejected"),
                                    missing |-> b.missing]}
  /\ UNCHANGED <<disk, website, due, scans, city, complete, state, acquired, receipts, batches,
                 fetched, stops>>

\* Mutant of Ledger: of every command that was sent.
LedgerOfSent == Overlaid(state.versions, Commands)

\* The versions the website accepted.
Ledger == Overlaid(state.versions, Restrict(Commands, With("applied")))

Checkpoint ==
  /\ pc = "checkpoint"
  /\ state' = [state EXCEPT !.cursor = state.pending.end, !.pending = NoBatch,
                            !.versions = Ledger]
  /\ disk' = [disk EXCEPT ![C] = state']
  /\ due' = [due EXCEPT ![C] = ~Scanned(state')]
  /\ pc' = "batch" /\ complete' = {} /\ acquired' = None /\ receipts' = Empty
  /\ batches' = batches + 1
  /\ fetched' = [fetched EXCEPT ![C] = None]
  /\ UNCHANGED <<reviews, website, scans, city, stops>>

-----------------------------------------------------------------------------
(* The tips, and what happens around a run. *)

\* publish_tip_v1() of every pending tip, in one statement; a published tip is not
\* pending, and its key answers for it.
PublishTips ==
  /\ pc = "tips"
  /\ tips' = {}
  /\ pc' = "idle"
  /\ UNCHANGED <<disks, ledgerOf, sent, due, scans, city, complete, state, acquired, receipts,
                 batches, fetched, stops>>

\* An approver releases a tip.  Only a run's last step looks, so before a run will do.
Approve ==
  /\ pc = "idle"
  /\ \E t \in Tip \ tips : tips' = tips \cup {t}
  /\ UNCHANGED <<disks, ledgerOf, sent, due, scans, memory, fetched, stops>>

\* refreshHours pass, for the city to be scanned again.
RefreshDue ==
  /\ pc = "idle"
  /\ \E c \in City : ~due[c] /\ scans[c] < MaxScans[c] /\ due' = [due EXCEPT ![c] = TRUE]
  /\ UNCHANGED <<disks, website, scans, memory, fetched, stops>>

\* The run ends where it is.
Stop ==
  /\ pc # "idle" /\ stops < MaxStops
  /\ stops' = stops + 1
  /\ pc' = "idle" /\ city' = 1
  /\ Forget
  /\ UNCHANGED <<disks, website, due, scans, fetched>>

RunStep ==
  \/ BeginRun \/ Defer \/ Discover \/ Resume \/ LeaveCity
  \/ Acquire \/ Transform \/ Review \/ Send \/ Isolate \/ Archive \/ Checkpoint
  \/ PublishTips

Next == RunStep \/ Stop \/ Approve \/ RefreshDue

Spec == Init /\ [][Next]_vars

\* launchd starts the next run, and a run goes on.
FairSpec == Spec /\ WF_vars(RunStep)

-----------------------------------------------------------------------------
(* Properties. *)

\* An idempotency key names one command for ever: what is sent again after a stop is
\* what was sent before it, whatever the source holds by then.
KeyNamesOneCommand ==
  pc \in {"batch", "isolating", "checkpoint"} =>
    \A o \in DOMAIN Commands : Key(o) \in DOMAIN sent => sent[Key(o)] = Commands[o]

\* Between batches the ledger holds what the website last accepted, so that a record
\* found unchanged is on the website.
LedgerIsWebsite ==
  \A c \in City : ~Pending(disk[c]) => disk[c].versions = ledgerOf[c]

\* When the cursor passes a batch, the website has, for each identity, the version of
\* the last of its acceptable records, and every id without one is in a review file.
BatchDelivered(c) ==
  LET page == fetched[c]
      good(i) == {o \in Records(page) : page[o].identity = i /\ page[o].version \notin Refused}
      filed(o) == \E r \in reviews :
                    /\ r.city = c /\ r.cycle = disk[c].cycle /\ r.start = disk[c].cursor
                    /\ o \in r.quarantine \cup r.missing
  IN /\ \A i \in Identity : good(i) # {} => ledgerOf[c][i] = page[Max(good(i))].version
     /\ \A o \in DOMAIN page \ Records(page) : filed(o)

CursorPassesDelivered ==
  [][\A c \in City :
       disk'[c].cycle = disk[c].cycle /\ disk'[c].cursor # disk[c].cursor
       => BatchDelivered(c)]_vars

\* A scan that has begun ends, however its runs stop.
ScanEnds ==
  \A c \in City : ~Scanned(disk[c]) ~> Scanned(disk[c])
=============================================================================
