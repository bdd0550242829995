-------------------------- MODULE PublicationProofs --------------------------
(***************************************************************************)
(* What a publication keeps true, for every set of places, processes and   *)
(* plans and every size of a batch: no restaurant is overwritten by        *)
(* another one, and behind the checkpoint of the enrichment window the     *)
(* public table mirrors the canonical one.                                 *)
(***************************************************************************)
EXTENDS Publication, FiniteSetTheorems, FunctionTheorems, WellFoundedInduction, TLAPS

(***************************************************************************)
(* The inductive invariant.                                                *)
(***************************************************************************)

Rows == [id : Ids, value : Nat]
Pcs == {"off", "lock", "steal", "repair", "qa", "ready", "select", "compare", "write", "save", "post", "release"}
InBatch == {"compare", "write", "save"}
Runs == [pc : Pcs, mode : Modes, wrapped : BOOLEAN, ids : SUBSET Ids, tries : Int, batches : Int,
         rows : SUBSET Rows, missing : SUBSET Rows, dirty : SUBSET Rows]

\* A statement has a row to change.
Statements == {s \in [id : Ids, t : Nat, graded : BOOLEAN, flaw : Flaws] : local[s.id] # None}

TypeOKPublication ==
  /\ plan \in Plans
  /\ local \in [Ids -> LocalRows \cup {None}]
  /\ pending \subseteq Statements
  /\ public \in [Ids -> PublicRows \cup {None}]
  /\ after \in Marks \cup {None}
  /\ run \in [Procs -> Runs]
  /\ clock \in Nat
  /\ left \in [Budgets -> Int]

\* The rows of a batch are some, and no two of them have one id; what is
\* to be written is among them, and what is to be updated was compared.
SameAsPublic(i) == public[i] # None /\ SameRestaurant(plan.place[i], public[i])
RowsInv(p) ==
  /\ run[p].pc \in InBatch =>
       /\ run[p].rows # {} /\ IsFiniteSet(run[p].rows)
       /\ \A q, r \in run[p].rows : q.id = r.id => q = r
  /\ run[p].pc \in {"write", "save"} => run[p].dirty \subseteq run[p].rows /\ run[p].missing \subseteq run[p].rows
  /\ run[p].pc = "write" => \A r \in run[p].dirty : SameAsPublic(r.id)

\* Where one process publishes, no other one does.
AloneInv == plan.alone => left.manual = 0 /\ \A p \in Procs \ {Launchd} : run[p].pc = "off"

\* A row of the batch still has the value it was read with, or is ahead of
\* the checkpoint, or its new stamp has been passed.
ReadInv(p) ==
  \A r \in run[p].rows :
    local[r.id] # None /\ (local[r.id].t = r.value \/ r.id \in passed \/ ~Behind(r.id, after))

\* A batch of the window skips nothing between the checkpoint and its rows.
NotAbove(i, r) == local[i].t < r.value \/ (local[i].t = r.value /\ i <= r.id)
Covered(p) ==
  \A i \in Window \ passed :
    ~Behind(i, after) /\ (\E r \in run[p].rows : NotAbove(i, r)) =>
      [id |-> i, value |-> local[i].t] \in run[p].rows

\* What a batch does not update shows its value already, and before the
\* checkpoint is saved all of it does.
Shows(r) == SameAsPublic(r.id) => public[r.id].value = r.value
ShownInv(p) ==
  /\ run[p].pc = "write" => run[p].missing = {} /\ \A r \in run[p].rows \ run[p].dirty : Shows(r)
  /\ run[p].pc = "save" => \A r \in run[p].rows : Shows(r)

BatchInv ==
  plan.alone /\ run[Launchd].pc \in InBatch =>
    /\ ReadInv(Launchd)
    /\ run[Launchd].mode = "window" => Covered(Launchd) /\ ShownInv(Launchd)

PublicationInv ==
  /\ TypeOKPublication
  /\ \A p \in Procs : RowsInv(p)
  /\ AloneInv /\ BatchInv
  /\ MirrorBehindCheckpoint

-----------------------------------------------------------------------------
(* Batches.                                                                *)

LEMMA IdsArePositive == Ids \subseteq Nat \ {0} /\ IsFiniteSet(Ids)
BY PublicationAssumption

\* A finite batch has a last row, in the order of the window.
LEMMA LastIsARow ==
  ASSUME NEW rows, rows \subseteq Rows, rows # {}, IsFiniteSet(rows)
  PROVE  /\ LastOf(rows) \in rows
         /\ \A q \in rows : q.value < LastOf(rows).value
                            \/ (q.value = LastOf(rows).value /\ q.id <= LastOf(rows).id)
<1> DEFINE upto(q, r) == q.value < r.value \/ (q.value = r.value /\ q.id <= r.id)
           Endless == {T \in SUBSET rows : T # {} /\ ~ \E r \in T : \A q \in T : upto(q, r)}
<1>1. \A q \in rows : q.value \in Int /\ q.id \in Int
  <2>1. \A q \in rows : q.value \in Nat /\ q.id \in Ids
    BY DEF Rows
  <2>2. \A i \in Ids : i \in Int
    BY IdsArePositive
  <2> HIDE DEF upto, Endless
  <2> QED BY <2>1, <2>2
<1>2. Endless = {}
  <2> SUFFICES ASSUME Endless # {} PROVE FALSE
    OBVIOUS
  <2>1. IsWellFoundedOn(StrictSubsetOrdering(rows), SUBSET rows)
    <3>1. FiniteSubsetsOf(rows) = SUBSET rows
      BY FS_FiniteSubsetsOfFinite
    <3>2. IsWellFoundedOn(StrictSubsetOrdering(rows), FiniteSubsetsOf(rows))
      BY FS_StrictSubsetOrderingWellFounded
    <3> QED BY <3>1, <3>2
  <2>2. PICK T \in Endless : \A U \in Endless : <<U, T>> \notin StrictSubsetOrdering(rows)
    <3>1. Endless \subseteq SUBSET rows
      OBVIOUS
    <3> HIDE DEF Endless
    <3> QED BY <2>1, <3>1, WFMin
  <2>3. PICK r \in T : TRUE
    OBVIOUS
  <2>4. PICK U : U = T \ {r}
    OBVIOUS
  <2>5. U \notin Endless
    <3>1. U \in SUBSET rows /\ T \in SUBSET rows /\ U \subseteq T /\ U # T
      BY <2>4
    <3>2. <<U, T>> \in StrictSubsetOrdering(rows)
      BY <3>1 DEF StrictSubsetOrdering
    <3> QED BY <2>2, <3>2
  <2>6. upto(r, r)
    BY <1>1
  <2>7. CASE U = {}
    <3>1. \A q \in T : q = r
      BY <2>4, <2>7
    <3> QED BY <2>6, <3>1
  <2>8. CASE U # {}
    <3>1. PICK u \in U : \A q \in U : upto(q, u)
      BY <2>4, <2>5, <2>8
    <3>2. u \in T /\ u \in rows /\ r \in rows /\ T \subseteq rows /\ \A q \in T : q = r \/ q \in U
      BY <2>4
    <3>3. CASE upto(r, u)
      BY <3>1, <3>2, <3>3
    <3>4. CASE upto(u, r)
      <4>1. \A q \in T : upto(q, r)
        BY <1>1, <2>6, <3>1, <3>2, <3>4
      <4> QED BY <4>1
    <3>5. upto(r, u) \/ upto(u, r)
      <4>1. u.value \in Int /\ u.id \in Int /\ r.value \in Int /\ r.id \in Int
        BY <1>1, <3>2
      <4> QED BY <4>1
    <3> QED BY <3>3, <3>4, <3>5
  <2> QED BY <2>7, <2>8
<1>3. rows \notin Endless
  BY <1>2
<1>4. \E r \in rows : \A q \in rows : upto(q, r)
  BY <1>3
<1> QED BY <1>4 DEF LastOf

\* The rows read for a set of ids are one for each.
LEMMA SnapshotsAreBatches ==
  ASSUME TypeOKPublication, NEW ids, ids \subseteq Ids, ids # {}, \A i \in ids : local[i] # None
  PROVE  /\ Snapshot(ids) \subseteq Rows
         /\ Snapshot(ids) # {} /\ IsFiniteSet(Snapshot(ids))
         /\ \A r \in Snapshot(ids) : r.id \in ids /\ r.value = local[r.id].t
         /\ \A q, r \in Snapshot(ids) : q.id = r.id => q = r
         /\ \A i \in ids : [id |-> i, value |-> local[i].t] \in Snapshot(ids)
<1>1. \A i \in ids : local[i].t \in Nat
  BY DEF TypeOKPublication, LocalRows
<1>2. IsFiniteSet(ids)
  BY PublicationAssumption, FS_Subset
<1>3. IsFiniteSet(Snapshot(ids))
  <2> DEFINE f == [i \in ids |-> [id |-> i, value |-> local[i].t]]
  <2>1. f \in Surjection(ids, Snapshot(ids))
    BY DEF Surjection, Snapshot
  <2> QED BY <1>2, <2>1, FS_Surjection
<1>4. \A i \in ids : [id |-> i, value |-> local[i].t] \in Rows /\ [id |-> i, value |-> local[i].t] \in Snapshot(ids)
  BY <1>1 DEF Snapshot, Rows
<1>5. ASSUME NEW r \in Snapshot(ids)
      PROVE  r \in Rows /\ r.id \in ids /\ r.value = local[r.id].t /\ r = [id |-> r.id, value |-> local[r.id].t]
  <2>1. PICK i \in ids : r = [id |-> i, value |-> local[i].t]
    BY <1>5 DEF Snapshot
  <2> QED BY <1>4, <2>1
<1>6. \A q, r \in Snapshot(ids) : q.id = r.id => q = r
  BY <1>5
<1>7. Snapshot(ids) # {}
  BY <1>4
<1> QED BY <1>3, <1>4, <1>5, <1>6, <1>7

\* What a mode selects are ids of rows of the canonical table.
LEMMA SelectedIds ==
  ASSUME TypeOKPublication, NEW p \in Procs, NEW n
  PROVE  /\ First(p, n) \subseteq Ids
         /\ \A i \in First(p, n) : local[i] # None
<1>1. run[p].ids \subseteq Ids
  BY DEF TypeOKPublication, Runs
<1>2. Eligible(p) \subseteq Ids /\ \A i \in Eligible(p) : local[i] # None
  BY <1>1 DEF Eligible, Window
<1> QED BY <1>2 DEF First

-----------------------------------------------------------------------------
(* What the steps do.                                                      *)

\* A step of one process leaves the others where they are.
Turns(p) == run' \in [Procs -> Runs] /\ \A q \in Procs \ {p} : run'[q] = run[q]
Idles(p) == Turns(p) /\ run'[p].pc \notin InBatch

\* The plan stays, and no budget grows.
Frame == plan' = plan /\ left' \in [Budgets -> Int] /\ (left.manual = 0 => left'.manual = 0)

\* A canonical row keeps what the window reads of it, or an enrichment of it
\* is committed; a new row has none.
Kept(i) ==
  /\ local'[i].t = local[i].t /\ local'[i].graded = local[i].graded /\ (local[i].old => local'[i].old)
  /\ i \in passed' <=> i \in passed
Committed(i) == i \in passed' \/ ~PassedBy(local'[i].t, i)
LocalMoves ==
  /\ local' \in [Ids -> LocalRows \cup {None}]
  /\ pending' \subseteq Statements
  /\ clock' \in Nat
  /\ \A i \in Ids : IF local[i] # None THEN local'[i] # None /\ (Kept(i) \/ Committed(i))
                    ELSE local'[i] # None => local'[i].t = 0

\* Steps that leave the canonical table alone.
Same == UNCHANGED <<local, pending, clock>>
Goods == Same /\ UNCHANGED passed

LEMMA GoesIsATurn ==
  ASSUME TypeOKPublication, NEW p \in Procs, NEW new \in Runs, Goes(p, new)
  PROVE  Turns(p) /\ run'[p] = new
BY DEF TypeOKPublication, Goes, Turns

LEMMA OffIsARun == Off \in Runs /\ Off.pc = "off"
BY DEF Off, Runs, Pcs, Modes

LEMMA ToIsATurn ==
  ASSUME TypeOKPublication, NEW p \in Procs, NEW pc \in Pcs, To(p, pc)
  PROVE  Turns(p) /\ run'[p] = [run[p] EXCEPT !.pc = pc] /\ run'[p].pc = pc
<1>1. run[p] \in Runs
  BY DEF TypeOKPublication
<1>2. [run[p] EXCEPT !.pc = pc] \in Runs /\ [run[p] EXCEPT !.pc = pc].pc = pc
  BY <1>1 DEF Runs
<1> QED BY <1>2, GoesIsATurn DEF To

LEMMA PhaseIdles ==
  ASSUME TypeOKPublication, NEW p \in Procs, NEW mode \in Modes, NEW ids \in SUBSET Ids, Phase(p, mode, ids)
  PROVE  Idles(p)
<1>1. run[p] \in Runs
  BY DEF TypeOKPublication
<1> DEFINE new == [Off EXCEPT !.pc = "qa", !.mode = mode, !.ids = ids, !.wrapped = run[p].wrapped]
<1>2. new \in Runs /\ new.pc = "qa"
  <2>1. PICK w \in BOOLEAN : w = run[p].wrapped
    BY <1>1 DEF Runs
  <2>2. PICK off : off = Off
    OBVIOUS
  <2>3. off \in Runs /\ "qa" \in Pcs
    BY <2>2, OffIsARun DEF Pcs
  <2>4. new = [off EXCEPT !.pc = "qa", !.mode = mode, !.ids = ids, !.wrapped = w]
    BY <2>1, <2>2
  <2> HIDE DEF new
  <2> QED BY <2>3, <2>4 DEF Runs
<1>3. Goes(p, new)
  BY DEF Phase
<1> HIDE DEF new
<1>4. Turns(p) /\ run'[p] = new
  BY <1>2, <1>3, GoesIsATurn
<1> QED BY <1>2, <1>4 DEF Idles, InBatch

LEMMA LeavesIdles ==
  ASSUME TypeOKPublication, NEW p \in Procs, NEW ok, Leaves(p, ok)
  PROVE  Idles(p)
<1>1. CASE Goes(p, Off)
  BY <1>1, OffIsARun, GoesIsATurn DEF Idles, InBatch
<1>2. CASE Phase(p, "window", {}) \/ Phase(p, "reconcile", {})
  BY <1>2, PhaseIdles DEF Modes
<1>3. CASE To(p, "release")
  <2>1. "release" \in Pcs
    BY DEF Pcs
  <2>2. Turns(p) /\ run'[p].pc = "release"
    BY <1>3, <2>1, ToIsATurn
  <2> QED BY <2>2 DEF Idles, InBatch
<1> QED BY <1>1, <1>2, <1>3 DEF Leaves

LEMMA ToIdles ==
  ASSUME TypeOKPublication, NEW p \in Procs, NEW pc \in Pcs \ InBatch, To(p, pc)
  PROVE  Idles(p)
BY ToIsATurn DEF Idles

LEMMA SpendIsFramed ==
  ASSUME TypeOKPublication, NEW what \in Budgets, Spend(what), plan' = plan
  PROVE  Frame
<1>1. left \in [Budgets -> Int] /\ left[what] > 0
  BY DEF TypeOKPublication, Spend
<1>2. left' \in [Budgets -> Int]
  BY <1>1 DEF Spend
<1>3. left.manual = 0 => what # "manual"
  BY <1>1
<1>4. left.manual = 0 => left'.manual = 0
  BY <1>1, <1>3 DEF Spend, Budgets
<1> QED BY <1>2, <1>4 DEF Frame

LEMMA UnspentIsFramed ==
  ASSUME TypeOKPublication, UNCHANGED <<plan, left>>
  PROVE  Frame
BY DEF TypeOKPublication, Frame

LEMMA StillIsAMove ==
  ASSUME TypeOKPublication, Goods
  PROVE  LocalMoves
BY DEF TypeOKPublication, LocalMoves, Kept, Goods, Same

LEMMA RepairIsAMove ==
  ASSUME TypeOKPublication, local' = Repaired, UNCHANGED <<clock, pending, passed>>
  PROVE  LocalMoves
<1>1. ASSUME NEW i \in Ids
      PROVE  /\ local'[i] \in LocalRows \cup {None}
             /\ IF local[i] # None THEN local'[i] # None /\ Kept(i) ELSE local'[i] = None
  <2>1. PICK row : row = local[i]
    OBVIOUS
  <2>2. row \in LocalRows \cup {None}
    BY <2>1 DEF TypeOKPublication
  <2>3. local'[i] = IF i \in Inspectable /\ row.flaw = "unsure" THEN [row EXCEPT !.flaw = "none"] ELSE row
    BY <2>1 DEF Repaired
  <2>4. i \in Inspectable => row # None
    BY <2>1 DEF Inspectable
  <2>5. CASE row = None
    BY <2>1, <2>3, <2>4, <2>5
  <2>6. CASE row # None
    <3>1. row \in LocalRows
      BY <2>2, <2>6
    <3>2. local'[i] \in LocalRows /\ local'[i].t = row.t /\ local'[i].graded = row.graded /\ local'[i].old = row.old
      BY <2>3, <3>1 DEF LocalRows, Flaws
    <3> QED BY <2>1, <2>6, <3>2, NoneIsNoRow DEF Kept
  <2> QED BY <2>5, <2>6
<1>2. local' = [i \in Ids |-> local'[i]]
  BY DEF Repaired
<1> QED BY <1>1, <1>2 DEF LocalMoves, TypeOKPublication

\* Steps that only move a publication on, and perhaps repair rows.
Controls(p) == Idles(p) /\ Frame /\ LocalMoves /\ UNCHANGED <<public, after>>

LEMMA StartsAreControls ==
  ASSUME TypeOKPublication, NEW p \in Procs,
         Begin(p) \/ BeginByHand(p) \/ TakeLock(p) \/ StealLock(p) \/ ReleaseLock(p)
  PROVE  Controls(p)
<1>1. [Off EXCEPT !.pc = "lock", !.wrapped = TRUE] \in Runs
  <2>1. PICK off : off = Off
    OBVIOUS
  <2>2. off \in Runs /\ "lock" \in Pcs
    BY <2>1, OffIsARun DEF Pcs
  <2>3. [off EXCEPT !.pc = "lock", !.wrapped = TRUE] \in Runs
    BY <2>2 DEF Runs
  <2> QED BY <2>1, <2>3
<1>2. [Off EXCEPT !.pc = "lock", !.wrapped = TRUE].pc = "lock"
  BY DEF Off
<1>3. Goes(p, [Off EXCEPT !.pc = "lock", !.wrapped = TRUE]) => Idles(p)
  BY <1>1, <1>2, GoesIsATurn DEF Idles, InBatch
<1>4. Goes(p, Off) => Idles(p)
  BY OffIsARun, GoesIsATurn DEF Idles, InBatch
<1>5. {"lock", "steal", "repair"} \subseteq Pcs \ InBatch
  BY DEF Pcs, InBatch
<1>6. CASE Begin(p)
  <2>1. Idles(p) /\ Frame
    BY <1>3, <1>6, UnspentIsFramed DEF Begin
  <2>2. LocalMoves /\ UNCHANGED <<public, after>>
    BY <1>6, StillIsAMove DEF Begin, table, Goods, Same
  <2> QED BY <2>1, <2>2 DEF Controls
<1>7. CASE BeginByHand(p)
  <2>1. Frame
    BY <1>7, SpendIsFramed DEF BeginByHand, Budgets
  <2>2. Goes(p, [Off EXCEPT !.pc = "qa", !.mode = "ids", !.ids = Ids]) => Idles(p)
    <3>1. PICK new : new = [Off EXCEPT !.pc = "qa", !.mode = "ids", !.ids = Ids]
      OBVIOUS
    <3>2. PICK off : off = Off
      OBVIOUS
    <3>3. off \in Runs /\ "qa" \in Pcs /\ "ids" \in Modes /\ Ids \in SUBSET Ids
      BY <3>2, OffIsARun DEF Pcs, Modes
    <3>4. new = [off EXCEPT !.pc = "qa", !.mode = "ids", !.ids = Ids]
      BY <3>1, <3>2
    <3>5. new \in Runs /\ new.pc = "qa"
      BY <3>3, <3>4 DEF Runs
    <3>6. Goes(p, new) => Idles(p)
      BY <3>5, GoesIsATurn DEF Idles, InBatch
    <3> QED BY <3>1, <3>6
  <2>3. Idles(p)
    BY <1>3, <1>7, <2>2 DEF BeginByHand
  <2>4. LocalMoves /\ UNCHANGED <<public, after>>
    BY <1>7, StillIsAMove DEF BeginByHand, table, Goods, Same
  <2> QED BY <2>1, <2>3, <2>4 DEF Controls
<1>8. CASE TakeLock(p)
  <2>1. To(p, "steal") => Idles(p)
    BY <1>5, ToIdles
  <2>2. To(p, "repair") => Idles(p)
    BY <1>5, ToIdles
  <2>3. Idles(p)
    BY <1>4, <1>8, <2>1, <2>2 DEF TakeLock, To
  <2>4. Frame /\ LocalMoves /\ UNCHANGED <<public, after>>
    BY <1>8, UnspentIsFramed, StillIsAMove DEF TakeLock, At, Goods, Same
  <2> QED BY <2>3, <2>4 DEF Controls
<1>9. CASE StealLock(p)
  <2>1. Idles(p)
    BY <1>5, <1>9, ToIdles DEF StealLock
  <2>2. Frame /\ LocalMoves /\ UNCHANGED <<public, after>>
    BY <1>9, UnspentIsFramed, StillIsAMove DEF StealLock, At, Goods, Same
  <2> QED BY <2>1, <2>2 DEF Controls
<1>10. CASE ReleaseLock(p)
  <2>1. Idles(p)
    BY <1>4, <1>10 DEF ReleaseLock
  <2>2. Frame /\ LocalMoves /\ UNCHANGED <<public, after>>
    BY <1>10, UnspentIsFramed, StillIsAMove DEF ReleaseLock, At, Goods, Same
  <2> QED BY <2>1, <2>2 DEF Controls
<1> QED BY <1>6, <1>7, <1>8, <1>9, <1>10

LEMMA GatesAreControls ==
  ASSUME TypeOKPublication, NEW p \in Procs,
         \/ RepairConfidence(p) \/ QaPasses(p) \/ QaRepairs(p) \/ QaStops(p)
         \/ StopsClean(p) \/ ConflictStops(p) \/ DryRunPasses(p) \/ PostChecks(p)
         \/ HealthStops(p) \/ RpcStops(p) \/ Kill(p)
  PROVE  Controls(p)
<1>0. run[p] \in Runs
  BY DEF TypeOKPublication
<1>1. CASE RepairConfidence(p)
  <2>1. ReviewedMissing \in SUBSET Ids /\ {} \in SUBSET Ids
    BY DEF ReviewedMissing, Absent
  <2>2. "reviewed" \in Modes /\ "window" \in Modes
    BY DEF Modes
  <2>3. Phase(p, "reviewed", ReviewedMissing) \/ Phase(p, "window", {})
    BY <1>1 DEF RepairConfidence
  <2>4. Idles(p)
    BY <2>1, <2>2, <2>3, PhaseIdles
  <2>5. local' = Repaired /\ UNCHANGED <<plan, left, clock, pending, passed, public, after>>
    BY <1>1 DEF RepairConfidence, At
  <2> QED BY <2>4, <2>5, UnspentIsFramed, RepairIsAMove DEF Controls
<1>2. CASE QaPasses(p)
  <2>1. PICK new : new = [run[p] EXCEPT !.pc = "ready", !.tries = 0]
    OBVIOUS
  <2>2. new \in Runs /\ new.pc = "ready"
    <3>1. PICK r : r = run[p]
      OBVIOUS
    <3>2. r \in Runs /\ "ready" \in Pcs /\ 0 \in Int
      BY <1>0, <3>1 DEF Pcs
    <3>3. new = [r EXCEPT !.pc = "ready", !.tries = 0]
      BY <2>1, <3>1
    <3> QED BY <3>2, <3>3 DEF Runs
  <2>3. Goes(p, new)
    BY <1>2, <2>1 DEF QaPasses
  <2>4. Idles(p)
    BY <2>2, <2>3, GoesIsATurn DEF Idles, InBatch
  <2>5. Goods /\ UNCHANGED <<plan, left, public, after>>
    BY <1>2 DEF QaPasses, At, Goods, Same
  <2> QED BY <2>4, <2>5, UnspentIsFramed, StillIsAMove DEF Controls
<1>3. ASSUME Goes(p, [run[p] EXCEPT !.tries = @ + 1]), run[p].pc \notin InBatch
      PROVE  Idles(p)
  <2>1. PICK new : new = [run[p] EXCEPT !.tries = @ + 1]
    OBVIOUS
  <2>2. new \in Runs /\ new.pc = run[p].pc
    BY <1>0, <2>1 DEF Runs
  <2>3. Goes(p, new)
    BY <1>3, <2>1
  <2> QED BY <1>3, <2>2, <2>3, GoesIsATurn DEF Idles
<1>4. CASE QaRepairs(p)
  <2>1. Idles(p)
    BY <1>3, <1>4 DEF QaRepairs, At, InBatch
  <2>2. local' = Repaired /\ UNCHANGED <<plan, left, clock, pending, passed, public, after>>
    BY <1>4 DEF QaRepairs, At
  <2> QED BY <2>1, <2>2, UnspentIsFramed, RepairIsAMove DEF Controls
<1>5. CASE QaStops(p)
  <2>1. Idles(p)
    BY <1>5, LeavesIdles DEF QaStops
  <2>2. Goods /\ UNCHANGED <<plan, left, public, after>>
    BY <1>5 DEF QaStops, At, Goods, Same
  <2> QED BY <2>1, <2>2, UnspentIsFramed, StillIsAMove DEF Controls
<1>6. CASE StopsClean(p)
  <2>1. Idles(p)
    BY <1>6, LeavesIdles DEF StopsClean
  <2>2. Goods /\ UNCHANGED <<plan, left, public, after>>
    BY <1>6 DEF StopsClean, At, Goods, Same
  <2> QED BY <2>1, <2>2, UnspentIsFramed, StillIsAMove DEF Controls
<1>7. CASE ConflictStops(p)
  <2>1. Idles(p)
    BY <1>7, LeavesIdles DEF ConflictStops
  <2>2. Goods /\ UNCHANGED <<plan, left, public, after>>
    BY <1>7 DEF ConflictStops, At, Goods, Same
  <2> QED BY <2>1, <2>2, UnspentIsFramed, StillIsAMove DEF Controls
<1>8. CASE DryRunPasses(p)
  <2>1. "select" \in Pcs \ InBatch
    BY DEF Pcs, InBatch
  <2>2. Idles(p)
    BY <1>8, <2>1, ToIdles DEF DryRunPasses
  <2>3. Goods /\ UNCHANGED <<plan, left, public, after>>
    BY <1>8 DEF DryRunPasses, At, Goods, Same
  <2> QED BY <2>2, <2>3, UnspentIsFramed, StillIsAMove DEF Controls
<1>9. CASE PostChecks(p)
  <2>1. UNCHANGED <<plan, left, clock, pending, passed, public, after>> /\ run[p].pc = "post"
    BY <1>9 DEF PostChecks, At
  <2>2. CASE QaFails(Inspected(p)) /\ MayRepair(p)
    <3>1. Idles(p)
      BY <1>3, <1>9, <2>1, <2>2 DEF PostChecks, InBatch
    <3>2. local' = Repaired
      BY <1>9, <2>2 DEF PostChecks
    <3> QED BY <2>1, <3>1, <3>2, UnspentIsFramed, RepairIsAMove DEF Controls
  <2>3. CASE ~(QaFails(Inspected(p)) /\ MayRepair(p))
    <3>1. Leaves(p, ~QaFails(Inspected(p))) /\ UNCHANGED local
      BY <1>9, <2>3 DEF PostChecks
    <3>2. Idles(p)
      BY <3>1, LeavesIdles
    <3> QED BY <2>1, <3>1, <3>2, UnspentIsFramed, StillIsAMove DEF Controls, Goods, Same
  <2> QED BY <2>2, <2>3
<1>10. CASE HealthStops(p) \/ RpcStops(p)
  <2>1. Idles(p)
    BY <1>10, LeavesIdles DEF HealthStops, RpcStops
  <2>2. Spend("faults") /\ Goods /\ UNCHANGED <<plan, public, after>>
    BY <1>10 DEF HealthStops, RpcStops, table, Goods, Same
  <2> QED BY <2>1, <2>2, SpendIsFramed, StillIsAMove DEF Controls, Budgets
<1>11. CASE Kill(p)
  <2>1. Idles(p)
    BY <1>11, OffIsARun, GoesIsATurn DEF Kill, Idles, InBatch
  <2>2. Spend("faults") /\ Goods /\ UNCHANGED <<plan, public, after>>
    BY <1>11 DEF Kill, table, Goods, Same
  <2> QED BY <2>1, <2>2, SpendIsFramed, StillIsAMove DEF Controls, Budgets
<1> QED BY <1>1, <1>2, <1>4, <1>5, <1>6, <1>7, <1>8, <1>9, <1>10, <1>11

\* Steps of a batch.
Reads(p) ==
  /\ Turns(p) /\ Frame /\ Same /\ UNCHANGED <<public, after>>
  /\ run'[p].pc = "compare" /\ run'[p].mode = run[p].mode
  /\ First(p, Limit) # {} /\ run'[p].rows = Snapshot(First(p, Limit))
  /\ passed' = IF run[p].mode = "window" THEN passed \ IdsOf(Snapshot(First(p, Limit))) ELSE passed

Compares(p) ==
  /\ Turns(p) /\ Frame /\ Goods /\ UNCHANGED <<public, after>>
  /\ run[p].pc = "compare" /\ ~Conflict(IdsOf(run[p].rows))
  /\ run'[p].pc = "write" /\ run'[p].mode = run[p].mode /\ run'[p].rows = run[p].rows
  /\ run'[p].dirty = Payloads(run[p].rows) /\ run'[p].missing = Insertable(p, run[p].rows)

Writable(p) == (run[p].missing \ Taken(p)) \cup run[p].dirty
Writes(p) ==
  /\ Turns(p) /\ Frame /\ Goods /\ UNCHANGED after
  /\ run[p].pc = "write"
  /\ \E rows \in SUBSET Writable(p) :
       /\ public' = Written(rows)
       /\ \/ Idles(p)
          \/ /\ rows = Writable(p)
             /\ run'[p] = [run[p] EXCEPT !.pc = "save"]

Saves(p) ==
  /\ Idles(p) /\ Frame /\ Goods /\ UNCHANGED public
  /\ run[p].pc = "save"
  /\ after' = IF run[p].mode = "window" THEN [t |-> LastOf(run[p].rows).value, id |-> LastOf(run[p].rows).id]
              ELSE after

LEMMA SelectReads ==
  ASSUME TypeOKPublication, NEW p \in Procs, SelectRows(p)
  PROVE  Controls(p) \/ Reads(p)
<1>1. Frame /\ Same /\ UNCHANGED <<public, after>>
  BY UnspentIsFramed DEF SelectRows, Same
<1>2. CASE run[p].batches = MaxBatches \/ First(p, Limit) = {}
  <2>1. "post" \in Pcs \ InBatch /\ To(p, "post") /\ Goods
    BY <1>1, <1>2 DEF SelectRows, Pcs, InBatch, Goods
  <2> QED BY <1>1, <2>1, ToIdles, StillIsAMove DEF Controls
<1>3. CASE ~(run[p].batches = MaxBatches \/ First(p, Limit) = {})
  <2>1. PICK r : r = run[p]
    OBVIOUS
  <2>2. PICK rows : rows = Snapshot(First(p, Limit))
    OBVIOUS
  <2>3. rows \subseteq Rows
    BY <1>3, <2>2, SelectedIds, SnapshotsAreBatches
  <2>4. PICK new : new = [r EXCEPT !.pc = "compare", !.batches = @ + 1, !.rows = rows]
    OBVIOUS
  <2>5. new \in Runs /\ new.pc = "compare" /\ new.mode = r.mode /\ new.rows = rows
    <3>1. r \in Runs /\ "compare" \in Pcs
      BY <2>1 DEF TypeOKPublication, Pcs
    <3>2. PICK n \in Int : n = r.batches + 1
      BY <3>1 DEF Runs
    <3>3. new = [r EXCEPT !.pc = "compare", !.batches = n, !.rows = rows]
      BY <2>4, <3>2
    <3> HIDE <2>4
    <3> QED BY <2>3, <3>1, <3>3 DEF Runs
  <2>6. Goes(p, new)
    BY <1>3, <2>1, <2>2, <2>4 DEF SelectRows
  <2>7. Turns(p) /\ run'[p] = new
    BY <2>5, <2>6, GoesIsATurn
  <2>8. passed' = IF r.mode = "window" THEN passed \ IdsOf(rows) ELSE passed
    BY <1>3, <2>1, <2>2 DEF SelectRows
  <2> QED BY <1>1, <1>3, <2>1, <2>2, <2>5, <2>7, <2>8 DEF Reads
<1> QED BY <1>2, <1>3

LEMMA CompareCompares ==
  ASSUME TypeOKPublication, NEW p \in Procs, Compare(p)
  PROVE  Controls(p) \/ Compares(p)
<1>1. Frame /\ Goods /\ LocalMoves /\ UNCHANGED <<public, after>> /\ run[p].pc = "compare"
  BY UnspentIsFramed, StillIsAMove DEF Compare, At, Goods, Same
<1>2. CASE Conflict(IdsOf(run[p].rows))
  <2>1. Idles(p)
    BY <1>2, LeavesIdles DEF Compare
  <2> QED BY <1>1, <2>1 DEF Controls
<1>3. CASE ~Conflict(IdsOf(run[p].rows))
  <2>1. PICK r : r = run[p]
    OBVIOUS
  <2>2. PICK dirty, missing : dirty = Payloads(r.rows) /\ missing = Insertable(p, r.rows)
    OBVIOUS
  <2>3. r \in Runs /\ "write" \in Pcs
    BY <2>1 DEF TypeOKPublication, Pcs
  <2>4. dirty \subseteq Rows /\ missing \subseteq Rows
    <3>1. dirty \subseteq r.rows /\ missing \subseteq r.rows
      BY <2>2 DEF Payloads, Insertable
    <3>2. r.rows \subseteq Rows
      BY <2>3 DEF Runs
    <3> QED BY <3>1, <3>2
  <2>5. PICK new : new = [r EXCEPT !.pc = "write", !.dirty = dirty, !.missing = missing]
    OBVIOUS
  <2>6. /\ new \in Runs /\ new.pc = "write" /\ new.mode = r.mode /\ new.rows = r.rows
        /\ new.dirty = dirty /\ new.missing = missing
    BY <2>3, <2>4, <2>5 DEF Runs
  <2>7. Goes(p, new)
    BY <1>3, <2>1, <2>2, <2>5 DEF Compare
  <2>8. Turns(p) /\ run'[p] = new
    BY <2>6, <2>7, GoesIsATurn
  <2> QED BY <1>1, <1>3, <2>1, <2>2, <2>6, <2>8 DEF Compares
<1> QED BY <1>2, <1>3

LEMMA WritesWrite ==
  ASSUME TypeOKPublication, NEW p \in Procs, Write(p) \/ WriteFails(p) \/ InsertConfirmed(p)
  PROVE  Writes(p)
<1>1. "save" \in Pcs
  BY DEF Pcs
<1>2. CASE Write(p)
  <2>1. Frame /\ Goods /\ UNCHANGED after /\ run[p].pc = "write"
    BY <1>2, UnspentIsFramed DEF Write, At, Goods, Same
  <2>2. CASE Taken(p) = {}
    <3>1. public' = Written(Writable(p))
      <4>1. Writable(p) = run[p].missing \cup run[p].dirty
        BY <2>2 DEF Writable
      <4> QED BY <1>2, <2>2, <4>1 DEF Write
    <3>2. Turns(p) /\ run'[p] = [run[p] EXCEPT !.pc = "save"]
      BY <1>1, <1>2, <2>2, ToIsATurn DEF Write
    <3> QED BY <2>1, <3>1, <3>2 DEF Writes
  <2>3. CASE Taken(p) # {}
    <3>1. public' = Written(run[p].missing \ Taken(p)) /\ Leaves(p, FALSE)
      BY <1>2, <2>3 DEF Write
    <3>2. Idles(p)
      BY <3>1, LeavesIdles
    <3>3. run[p].missing \ Taken(p) \in SUBSET Writable(p)
      BY DEF Writable
    <3> QED BY <2>1, <3>1, <3>2, <3>3 DEF Writes, Idles
  <2> QED BY <2>2, <2>3
<1>3. CASE WriteFails(p)
  <2>1. Spend("faults") /\ Goods /\ UNCHANGED <<plan, after>> /\ run[p].pc = "write" /\ Leaves(p, FALSE)
    BY <1>3 DEF WriteFails, table, Goods, Same
  <2>2. Frame
    BY <2>1, SpendIsFramed DEF Budgets
  <2>3. Idles(p)
    BY <2>1, LeavesIdles
  <2>4. \E rows \in SUBSET Writable(p) : public' = Written(rows)
    BY <1>3 DEF WriteFails, Writable
  <2> QED BY <2>1, <2>2, <2>3, <2>4 DEF Writes, Idles
<1>4. CASE InsertConfirmed(p)
  <2>1. Spend("faults") /\ Goods /\ UNCHANGED <<plan, after>> /\ run[p].pc = "write" /\ To(p, "save")
    BY <1>4 DEF InsertConfirmed, table, Goods, Same
  <2>2. Frame
    BY <2>1, SpendIsFramed DEF Budgets
  <2>3. Turns(p) /\ run'[p] = [run[p] EXCEPT !.pc = "save"]
    BY <1>1, <2>1, ToIsATurn
  <2>4. public' = Written(Writable(p))
    BY <1>4 DEF InsertConfirmed, Writable
  <2> QED BY <2>1, <2>2, <2>3, <2>4 DEF Writes
<1> QED BY <1>2, <1>3, <1>4

LEMMA SaveSaves ==
  ASSUME TypeOKPublication, NEW p \in Procs, SaveCheckpoint(p)
  PROVE  Saves(p)
<1>1. Frame /\ Goods /\ UNCHANGED public /\ run[p].pc = "save"
  BY UnspentIsFramed DEF SaveCheckpoint, At, Goods, Same
<1>2. PICK r, pc : r = run[p] /\ pc = IF r.mode \in {"ids", "reviewed"} THEN "post" ELSE "select"
  OBVIOUS
<1>3. r \in Runs /\ pc \in Pcs \ InBatch
  BY <1>2 DEF TypeOKPublication, Pcs, InBatch
<1>4. PICK new : new = [r EXCEPT !.pc = pc, !.rows = {}, !.dirty = {}, !.missing = {}]
  OBVIOUS
<1>5. new \in Runs /\ new.pc = pc
  BY <1>3, <1>4 DEF Runs
<1>6. Goes(p, new)
  BY <1>2, <1>4 DEF SaveCheckpoint
<1>7. Idles(p)
  BY <1>3, <1>5, <1>6, GoesIsATurn DEF Idles
<1>8. after' = IF run[p].mode = "window" THEN [t |-> LastOf(run[p].rows).value, id |-> LastOf(run[p].rows).id]
               ELSE after
  BY DEF SaveCheckpoint
<1> QED BY <1>1, <1>7, <1>8 DEF Saves

\* Steps around a publication.
Outside == LocalMoves /\ Frame /\ UNCHANGED <<run, public, after>>
Adds ==
  /\ Frame /\ Goods /\ UNCHANGED <<run, after>>
  /\ \E i \in Ids, row \in plan.entries : public[i] = None /\ public' = [public EXCEPT ![i] = row]

LEMMA StartIsAMove ==
  ASSUME TypeOKPublication, NEW ids \in SUBSET Ids, NEW graded \in plan.grades, NEW flaw \in plan.flaws,
         StartEnriching(ids, graded, flaw)
  PROVE  Outside
<1>1. plan \in Plans /\ clock \in Nat
  BY DEF TypeOKPublication
<1>2. graded \in BOOLEAN /\ flaw \in Flaws
  <2>1. plan.grades \subseteq BOOLEAN /\ plan.flaws \subseteq Flaws
    BY <1>1, PlansAssumption
  <2> QED BY <2>1
<1>3. Frame /\ UNCHANGED <<local, passed, run, public, after>> /\ clock' = clock + 1
  BY SpendIsFramed DEF StartEnriching, Budgets
<1>4. clock' \in Nat
  BY <1>1, <1>3
<1>5. pending' \subseteq Statements
  <2>1. \A i \in ids : i \in Ids /\ local[i] # None
    BY DEF StartEnriching
  <2>2. PICK t \in Nat : t = clock + 1
    BY <1>1
  <2>3. pending' = pending \cup {[id |-> i, t |-> t, graded |-> graded, flaw |-> flaw] : i \in ids}
    BY <2>2 DEF StartEnriching
  <2>4. \A i \in ids : [id |-> i, t |-> t, graded |-> graded, flaw |-> flaw] \in Statements
    BY <1>2, <2>1 DEF Statements
  <2>5. pending \subseteq Statements
    BY DEF TypeOKPublication
  <2> QED BY <2>3, <2>4, <2>5
<1>6. LocalMoves
  BY <1>3, <1>4, <1>5 DEF LocalMoves, Kept, TypeOKPublication
<1> QED BY <1>3, <1>6 DEF Outside

LEMMA CommitIsAMove ==
  ASSUME TypeOKPublication, NEW s \in pending, CommitEnrichment(s)
  PROVE  Outside
<1>1. Frame /\ UNCHANGED <<run, public, after, clock>>
  BY UnspentIsFramed DEF CommitEnrichment
<1>2. PICK i, row : i = s.id /\ row = local[i]
  OBVIOUS
<1>3. s \in Statements /\ pending \subseteq Statements
  BY DEF TypeOKPublication
<1>4. i \in Ids /\ s.t \in Nat /\ s.graded \in BOOLEAN /\ s.flaw \in Flaws /\ row # None
  BY <1>2, <1>3 DEF Statements
<1>5. row \in LocalRows
  BY <1>2, <1>4 DEF TypeOKPublication
<1>6. PICK t \in Nat : t = s.t
  BY <1>4
<1>7. PICK new \in LocalRows : local' = [local EXCEPT ![i] = new] /\ new.t = t
  <2>1. PICK g \in BOOLEAN : g = (row.graded \/ s.graded)
    OBVIOUS
  <2>2. PICK f \in Flaws : f = IF s.graded THEN s.flaw ELSE row.flaw
    BY <1>4, <1>5 DEF LocalRows
  <2>3. PICK new : new = [row EXCEPT !.t = t, !.old = FALSE, !.graded = g, !.flaw = f]
    OBVIOUS
  <2>4. new \in LocalRows /\ new.t = t
    BY <1>5, <2>3 DEF LocalRows
  <2>5. local' = [local EXCEPT ![i].t = t, ![i].old = FALSE, ![i].graded = @ \/ s.graded,
                               ![i].flaw = IF s.graded THEN s.flaw ELSE @]
    BY <1>2, <1>6 DEF CommitEnrichment
  <2>6. local' = [local EXCEPT ![i] = new]
    BY <1>2, <1>4, <1>5, <2>1, <2>2, <2>3, <2>5 DEF TypeOKPublication, LocalRows
  <2> QED BY <2>4, <2>6
<1>8. local' \in [Ids -> LocalRows \cup {None}]
  BY <1>4, <1>7 DEF TypeOKPublication
<1>9. local'[i] # None /\ local'[i].t = t
  BY <1>4, <1>7, NoneIsNoRow DEF TypeOKPublication
<1>10. passed' = IF PassedBy(t, i) THEN passed \cup {i} ELSE passed \ {i}
  BY <1>2, <1>6 DEF CommitEnrichment
<1>11. Committed(i)
  BY <1>9, <1>10 DEF Committed
<1>12. \A j \in Ids : j # i => local'[j] = local[j] /\ (j \in passed' <=> j \in passed)
  BY <1>7, <1>10 DEF TypeOKPublication
<1>13. \A j \in Ids : IF local[j] # None THEN local'[j] # None /\ (Kept(j) \/ Committed(j))
                       ELSE local'[j] # None => local'[j].t = 0
  BY <1>2, <1>4, <1>9, <1>11, <1>12 DEF Kept
<1>14. pending' \subseteq Statements /\ clock' \in Nat
  BY <1>1, <1>3 DEF CommitEnrichment, TypeOKPublication
<1>15. LocalMoves
  BY <1>8, <1>13, <1>14 DEF LocalMoves
<1> QED BY <1>1, <1>15 DEF Outside

LEMMA ImportIsAMove ==
  ASSUME TypeOKPublication, NEW i \in Ids, ImportPlace(i)
  PROVE  Outside
<1>1. Frame /\ UNCHANGED <<run, public, after, clock, pending, passed>>
  BY SpendIsFramed DEF ImportPlace, Budgets
<1>2. PICK row : row = [t |-> 0, graded |-> FALSE, old |-> FALSE, flaw |-> "none", imported |-> TRUE]
  OBVIOUS
<1>3. row \in LocalRows /\ row.t = 0
  BY <1>2 DEF LocalRows, Flaws
<1>4. local[i] = None /\ local' = [local EXCEPT ![i] = row]
  BY <1>2 DEF ImportPlace
<1>5. local' \in [Ids -> LocalRows \cup {None}]
  BY <1>3, <1>4 DEF TypeOKPublication
<1>6. \A j \in Ids : IF local[j] # None THEN local'[j] # None /\ (Kept(j) \/ Committed(j))
                     ELSE local'[j] # None => local'[j].t = 0
  BY <1>1, <1>3, <1>4 DEF TypeOKPublication, Kept
<1>7. LocalMoves
  BY <1>1, <1>5, <1>6 DEF LocalMoves, TypeOKPublication
<1> QED BY <1>1, <1>7 DEF Outside

LEMMA LeavingIsAMove ==
  ASSUME TypeOKPublication, NEW i \in Ids, LeavesWindow(i)
  PROVE  Outside
<1>1. Frame /\ UNCHANGED <<run, public, after, clock, pending, passed>>
  BY SpendIsFramed DEF LeavesWindow, Budgets
<1>2. PICK row : row = local[i]
  OBVIOUS
<1>3. row # None /\ row \in LocalRows
  BY <1>2 DEF LeavesWindow, TypeOKPublication
<1>4. PICK new : new = [row EXCEPT !.old = TRUE]
  OBVIOUS
<1>5. new \in LocalRows /\ new.t = row.t /\ new.graded = row.graded /\ new.old
  BY <1>3, <1>4 DEF LocalRows
<1>6. local' = [local EXCEPT ![i] = new]
  BY <1>2, <1>4 DEF LeavesWindow, TypeOKPublication
<1>7. local' \in [Ids -> LocalRows \cup {None}]
  BY <1>5, <1>6 DEF TypeOKPublication
<1>8. local'[i] # None /\ Kept(i)
  BY <1>1, <1>2, <1>5, <1>6, NoneIsNoRow DEF TypeOKPublication, Kept
<1>9. \A j \in Ids : j # i => local'[j] = local[j]
  BY <1>6 DEF TypeOKPublication
<1>10. \A j \in Ids : IF local[j] # None THEN local'[j] # None /\ (Kept(j) \/ Committed(j))
                      ELSE local'[j] # None => local'[j].t = 0
  BY <1>1, <1>2, <1>3, <1>8, <1>9 DEF Kept
<1>11. LocalMoves
  BY <1>1, <1>7, <1>10 DEF LocalMoves, TypeOKPublication
<1> QED BY <1>1, <1>11 DEF Outside

LEMMA WebsiteStepAdds ==
  ASSUME TypeOKPublication, NEW i \in Ids, WebsiteAdds(i)
  PROVE  Adds
<1>1. Frame /\ Goods /\ UNCHANGED <<run, after>>
  BY SpendIsFramed DEF WebsiteAdds, Budgets, table, Goods, Same
<1>2. \E row \in plan.entries : public[i] = None /\ public' = [public EXCEPT ![i] = row]
  BY DEF WebsiteAdds
<1> QED BY <1>1, <1>2 DEF Adds

\* Every step is one of these, and where one process publishes it is its step.
BatchStep(p) == Controls(p) \/ Reads(p) \/ Compares(p) \/ Writes(p) \/ Saves(p)

LEMMA Steps ==
  ASSUME TypeOKPublication, AloneInv, [Next]_vars
  PROVE  \/ \E p \in Procs : BatchStep(p) /\ (plan.alone => p = Launchd)
         \/ Outside \/ Adds
<1>1. ASSUME NEW p \in Procs, Begin(p) \/ BeginByHand(p) \/ Step(p)
      PROVE  BatchStep(p) /\ (plan.alone => p = Launchd)
  <2>1. BatchStep(p)
    BY <1>1, StartsAreControls, GatesAreControls, SelectReads, CompareCompares, WritesWrite, SaveSaves
    DEF Step, BatchStep
  <2>2. CASE Begin(p)
    BY <2>1, <2>2 DEF Begin
  <2>3. CASE BeginByHand(p)
    <3>1. left.manual > 0
      BY <2>3 DEF BeginByHand, Spend
    <3> QED BY <2>1, <3>1 DEF AloneInv
  <2>4. CASE Step(p)
    <3>1. run[p].pc # "off"
      BY <2>4 DEF Step, At, TakeLock, StealLock, ReleaseLock, RepairConfidence, QaPasses, QaRepairs, QaStops,
                  StopsClean, ConflictStops, DryRunPasses, SelectRows, Compare, Write, SaveCheckpoint, PostChecks
    <3> QED BY <2>1, <3>1 DEF AloneInv
  <2> QED BY <1>1, <2>2, <2>3, <2>4
<1>2. ASSUME NEW p \in Procs, HealthStops(p) \/ RpcStops(p) \/ WriteFails(p) \/ InsertConfirmed(p) \/ Kill(p)
      PROVE  BatchStep(p) /\ (plan.alone => p = Launchd)
  <2>1. BatchStep(p)
    BY <1>2, GatesAreControls, WritesWrite DEF BatchStep
  <2>2. run[p].pc # "off"
    BY <1>2 DEF HealthStops, RpcStops, WriteFails, InsertConfirmed, Kill
  <2> QED BY <2>1, <2>2 DEF AloneInv
<1>3. CASE LockAges
  <2>1. Goods /\ UNCHANGED <<plan, public, after, run, left>>
    BY <1>3 DEF LockAges, table, Goods, Same
  <2> QED BY <2>1, UnspentIsFramed, StillIsAMove DEF Outside
<1>4. CASE UNCHANGED vars
  <2>1. Goods /\ UNCHANGED <<plan, public, after, run, left>>
    BY <1>4 DEF vars, Goods, Same
  <2> QED BY <2>1, UnspentIsFramed, StillIsAMove DEF Outside
<1>5. ASSUME NEW ids \in SUBSET Ids \ {{}}, NEW graded \in plan.grades, NEW flaw \in plan.flaws,
             StartEnriching(ids, graded, flaw)
      PROVE  Outside
  BY <1>5, StartIsAMove
<1>6. ASSUME NEW i \in Ids, ImportPlace(i) \/ LeavesWindow(i) \/ WebsiteAdds(i)
      PROVE  Outside \/ Adds
  BY <1>6, ImportIsAMove, LeavingIsAMove, WebsiteStepAdds
<1>7. ASSUME NEW s \in pending, CommitEnrichment(s) PROVE Outside
  BY <1>7, CommitIsAMove
<1> QED BY <1>1, <1>2, <1>3, <1>4, <1>5, <1>6, <1>7 DEF Next

-----------------------------------------------------------------------------
(* Types, and whose rows are written.                                      *)

SameIdentity(new, old) == new.key = old.key /\ new.name = old.name /\ new.pos = old.pos

\* A request changes the rows it has and no other, and of a row that is there
\* already nothing but the value.
LEMMA WrittenRows ==
  ASSUME TypeOKPublication, NEW rows, rows \subseteq Rows
  PROVE  /\ Written(rows) \in [Ids -> PublicRows \cup {None}]
         /\ \A i \in Ids \ IdsOf(rows) : Written(rows)[i] = public[i]
         /\ \A i \in IdsOf(rows) :
              /\ i \in Ids /\ Written(rows)[i] # None
              /\ \E r \in rows : r.id = i /\ Written(rows)[i].value = r.value
              /\ public[i] # None => SameIdentity(Written(rows)[i], public[i])
<1>1. ASSUME NEW i \in IdsOf(rows)
      PROVE  /\ i \in Ids /\ Written(rows)[i] \in PublicRows
             /\ \E r \in rows : r.id = i /\ Written(rows)[i].value = r.value
             /\ public[i] # None => SameIdentity(Written(rows)[i], public[i])
  <2>1. PICK r : r = CHOOSE q \in rows : q.id = i
    OBVIOUS
  <2>2. r \in rows /\ r.id = i
    <3>1. \E q \in rows : q.id = i
      BY <1>1 DEF IdsOf
    <3> QED BY <2>1, <3>1
  <2>3. i \in Ids /\ r.value \in Nat
    BY <2>2 DEF Rows
  <2>4. PICK w : w = Written(rows)[i]
    OBVIOUS
  <2>5. PICK row : row = public[i]
    OBVIOUS
  <2>6. w = IF row = None THEN Inserted(r) ELSE [row EXCEPT !.value = r.value]
    BY <1>1, <2>1, <2>3, <2>4, <2>5 DEF Written
  <2>7. CASE row = None
    <3>1. PICK place : place = plan.place[i]
      OBVIOUS
    <3>2. place \in Places
      <4>1. plan \in Plans
        BY DEF TypeOKPublication
      <4>2. plan.place \in [Ids -> Places]
        BY <4>1, PlansAssumption
      <4> QED BY <2>3, <3>1, <4>2
    <3>3. w = [key |-> place.key, name |-> place.name, pos |-> place.pos, value |-> r.value]
      BY <2>2, <2>6, <2>7, <3>1 DEF Inserted
    <3>4. w \in PublicRows /\ w.value = r.value
      BY <2>3, <3>2, <3>3 DEF Places, PublicRows
    <3> QED BY <2>2, <2>3, <2>4, <2>5, <2>7, <3>4
  <2>8. CASE row # None
    <3>1. row \in PublicRows
      BY <2>3, <2>5, <2>8 DEF TypeOKPublication
    <3>2. PICK v \in Nat : v = r.value
      BY <2>3
    <3>3. w = [row EXCEPT !.value = v]
      BY <2>6, <2>8, <3>2
    <3>4. w \in PublicRows /\ w.value = v /\ w.key = row.key /\ w.name = row.name /\ w.pos = row.pos
      BY <3>1, <3>3 DEF PublicRows
    <3> QED BY <2>2, <2>3, <2>4, <2>5, <3>2, <3>4 DEF SameIdentity
  <2> QED BY <2>7, <2>8
<1>2. \A i \in Ids \ IdsOf(rows) : Written(rows)[i] = public[i]
  BY DEF Written
<1>3. \A i \in Ids : Written(rows)[i] \in PublicRows \cup {None}
  BY <1>1, <1>2 DEF TypeOKPublication
<1>4. Written(rows) = [i \in Ids |-> Written(rows)[i]]
  BY DEF Written
<1>5. Written(rows) \in [Ids -> PublicRows \cup {None}]
  BY <1>3, <1>4
<1> QED BY <1>1, <1>2, <1>5, NoneIsNoRow

LEMMA WritableRows ==
  ASSUME TypeOKPublication, NEW p \in Procs, RowsInv(p), run[p].pc = "write"
  PROVE  /\ Writable(p) \subseteq Rows /\ Writable(p) \subseteq run[p].rows
         /\ \A r \in Writable(p) : public[r.id] # None => SameAsPublic(r.id)
<1>1. run[p].dirty \subseteq run[p].rows /\ run[p].missing \subseteq run[p].rows /\ run[p].rows \subseteq Rows
  BY DEF RowsInv, TypeOKPublication, Runs
<1>2. \A r \in run[p].dirty : SameAsPublic(r.id)
  BY DEF RowsInv
<1>3. \A r \in run[p].missing \ Taken(p) : public[r.id] = None
  BY DEF Taken
<1> QED BY <1>1, <1>2, <1>3 DEF Writable

\* The identity of a public row stays.
PublicKeeps ==
  /\ public' \in [Ids -> PublicRows \cup {None}]
  /\ \A i \in Ids : public[i] # None => public'[i] # None /\ SameIdentity(public'[i], public[i])

LEMMA PublicMoves ==
  ASSUME TypeOKPublication, \A p \in Procs : RowsInv(p), AloneInv, [Next]_vars
  PROVE  PublicKeeps
<1>1. CASE UNCHANGED public
  BY <1>1 DEF TypeOKPublication, PublicKeeps, SameIdentity
<1>2. ASSUME NEW p \in Procs, Writes(p) PROVE PublicKeeps
  <2>1. PICK rows \in SUBSET Writable(p) : public' = Written(rows)
    BY <1>2 DEF Writes
  <2>2. rows \subseteq Rows
    BY <1>2, <2>1, WritableRows DEF Writes
  <2>3. \A i \in Ids : public[i] # None => public'[i] # None /\ SameIdentity(public'[i], public[i])
    BY <2>1, <2>2, WrittenRows DEF SameIdentity
  <2>4. public' \in [Ids -> PublicRows \cup {None}]
    BY <2>1, <2>2, WrittenRows
  <2> QED BY <2>3, <2>4 DEF PublicKeeps
<1>3. CASE Adds
  <2>1. PICK i \in Ids, row \in plan.entries : public[i] = None /\ public' = [public EXCEPT ![i] = row]
    BY <1>3 DEF Adds
  <2>2. row \in PublicRows
    <3>1. plan \in Plans
      BY DEF TypeOKPublication
    <3>2. plan.entries \subseteq PublicRows
      BY <3>1, PlansAssumption
    <3> QED BY <2>1, <3>2
  <2> QED BY <2>1, <2>2 DEF TypeOKPublication, PublicKeeps, SameIdentity
<1> QED BY <1>1, <1>2, <1>3, Steps DEF BatchStep, Controls, Reads, Compares, Saves, Outside

LEMMA TypesStay ==
  ASSUME TypeOKPublication, \A p \in Procs : RowsInv(p), AloneInv, [Next]_vars
  PROVE  TypeOKPublication'
<1>1. public' \in [Ids -> PublicRows \cup {None}]
  BY PublicMoves DEF PublicKeeps
<1>2. Same => /\ local' \in [Ids -> LocalRows \cup {None}] /\ clock' \in Nat
              /\ pending' \subseteq Statements'
  BY DEF Same, TypeOKPublication, Statements
<1>3. LocalMoves => /\ local' \in [Ids -> LocalRows \cup {None}] /\ clock' \in Nat
                    /\ pending' \subseteq Statements'
  <2> SUFFICES ASSUME LocalMoves, NEW s \in pending' PROVE s \in Statements'
    BY DEF LocalMoves
  <2>1. s \in [id : Ids, t : Nat, graded : BOOLEAN, flaw : Flaws] /\ local[s.id] # None
    BY DEF LocalMoves, Statements
  <2>2. s.id \in Ids
    BY <2>1
  <2>3. local'[s.id] # None
    BY <2>1, <2>2 DEF LocalMoves
  <2> QED BY <2>1, <2>3 DEF Statements
<1>4. Frame => plan' \in Plans /\ left' \in [Budgets -> Int]
  BY DEF Frame, TypeOKPublication
<1>5. ASSUME NEW p \in Procs, Saves(p) PROVE after' \in Marks \cup {None}
  <2>1. CASE run[p].mode # "window"
    BY <1>5, <2>1 DEF Saves, TypeOKPublication
  <2>2. CASE run[p].mode = "window"
    <3>1. run[p].rows \subseteq Rows /\ run[p].rows # {} /\ IsFiniteSet(run[p].rows)
      BY <1>5 DEF Saves, RowsInv, InBatch, TypeOKPublication, Runs
    <3>2. LastOf(run[p].rows) \in Rows
      BY <3>1, LastIsARow
    <3>3. after' = [t |-> LastOf(run[p].rows).value, id |-> LastOf(run[p].rows).id]
      BY <1>5, <2>2 DEF Saves
    <3> QED BY <3>2, <3>3 DEF Rows, Marks
  <2> QED BY <2>1, <2>2
<1>6. UNCHANGED run => run' \in [Procs -> Runs]
  BY DEF TypeOKPublication
<1>7. UNCHANGED after => after' \in Marks \cup {None}
  BY DEF TypeOKPublication
<1>8. ASSUME NEW p \in Procs, BatchStep(p) PROVE TypeOKPublication'
  <2>1. run' \in [Procs -> Runs] /\ Frame /\ (Same \/ LocalMoves)
    BY <1>8 DEF BatchStep, Controls, Reads, Compares, Writes, Saves, Idles, Turns, Goods
  <2>2. after' \in Marks \cup {None}
    BY <1>5, <1>7, <1>8 DEF BatchStep, Controls, Reads, Compares, Writes
  <2> QED BY <1>1, <1>2, <1>3, <1>4, <2>1, <2>2 DEF TypeOKPublication
<1>9. CASE Outside \/ Adds
  BY <1>1, <1>2, <1>3, <1>4, <1>6, <1>7, <1>9 DEF TypeOKPublication, Outside, Adds, Goods
<1> QED BY <1>8, <1>9, Steps

LEMMA OneStaysAlone ==
  ASSUME TypeOKPublication, AloneInv, [Next]_vars
  PROVE  AloneInv'
<1> SUFFICES ASSUME plan'.alone PROVE left'.manual = 0 /\ \A p \in Procs \ {Launchd} : run'[p].pc = "off"
  BY DEF AloneInv
<1>1. Frame
  BY Steps DEF BatchStep, Controls, Reads, Compares, Writes, Saves, Outside, Adds
<1>2. plan.alone /\ left.manual = 0 /\ \A p \in Procs \ {Launchd} : run[p].pc = "off"
  BY <1>1 DEF AloneInv, Frame
<1>3. left'.manual = 0
  BY <1>1, <1>2 DEF Frame
<1>4. \A q \in Procs \ {Launchd} : run'[q] = run[q]
  <2>1. CASE UNCHANGED run
    BY <2>1
  <2>2. CASE BatchStep(Launchd) /\ Launchd \in Procs
    BY <2>2 DEF BatchStep, Controls, Reads, Compares, Writes, Saves, Idles, Turns
  <2> QED BY <1>2, <2>1, <2>2, Steps DEF Outside, Adds
<1> QED BY <1>2, <1>3, <1>4

\* What is the restaurant's row now stays the restaurant's row.
LEMMA SameStaysSame ==
  ASSUME TypeOKPublication, \A p \in Procs : RowsInv(p), AloneInv, [Next]_vars, NEW i \in Ids
  PROVE  /\ SameAsPublic(i) => SameAsPublic(i)'
         /\ SameAsPublic(i)' => SameAsPublic(i) \/ public[i] = None
<1>1. plan' = plan
  BY Steps DEF BatchStep, Controls, Reads, Compares, Writes, Saves, Outside, Adds, Frame
<1>2. public[i] # None => public'[i] # None /\ SameIdentity(public'[i], public[i])
  BY PublicMoves DEF PublicKeeps
<1>3. public[i] # None => (SameRestaurant(plan.place[i], public'[i]) <=> SameRestaurant(plan.place[i], public[i]))
  BY <1>2 DEF SameIdentity, SameRestaurant
<1> QED BY <1>1, <1>2, <1>3 DEF SameAsPublic

LEMMA RowsStay ==
  ASSUME TypeOKPublication, \A p \in Procs : RowsInv(p), AloneInv, [Next]_vars
  PROVE  \A p \in Procs : RowsInv(p)'
<1>1. ASSUME NEW q \in Procs, run'[q] = run[q] PROVE RowsInv(q)'
  <2>1. RowsInv(q) /\ run[q].rows \subseteq Rows /\ run[q].dirty \subseteq Rows
    BY DEF TypeOKPublication, Runs
  <2>2. run[q].pc = "write" => \A r \in run[q].dirty : SameAsPublic(r.id)'
    <3>1. \A r \in run[q].dirty : r.id \in Ids
      BY <2>1 DEF Rows
    <3> QED BY <2>1, <3>1, SameStaysSame DEF RowsInv
  <2> QED BY <1>1, <2>1, <2>2 DEF RowsInv
<1>2. ASSUME NEW p \in Procs, BatchStep(p) PROVE RowsInv(p)'
  <2>1. CASE run'[p].pc \notin InBatch
    BY <2>1 DEF RowsInv, InBatch
  <2>2. CASE Reads(p)
    <3>1. PICK ids : ids = First(p, Limit)
      OBVIOUS
    <3>2. ids \subseteq Ids /\ ids # {} /\ \A i \in ids : local[i] # None
      BY <2>2, <3>1, SelectedIds DEF Reads
    <3>3. run'[p].rows = Snapshot(ids) /\ run'[p].pc = "compare"
      BY <2>2, <3>1 DEF Reads
    <3>4. Snapshot(ids) # {} /\ IsFiniteSet(Snapshot(ids)) /\ \A q, r \in Snapshot(ids) : q.id = r.id => q = r
      BY <3>2, SnapshotsAreBatches
    <3> QED BY <3>3, <3>4 DEF RowsInv
  <2>3. CASE Compares(p)
    <3>1. PICK rows : rows = run[p].rows
      OBVIOUS
    <3>2. rows \subseteq Rows
      BY <3>1 DEF TypeOKPublication, Runs
    <3>3. /\ run[p].pc = "compare" /\ run'[p].pc = "write" /\ run'[p].rows = rows
          /\ run'[p].dirty = Payloads(rows) /\ run'[p].missing = Insertable(p, rows)
          /\ ~Conflict(IdsOf(rows)) /\ UNCHANGED <<public, plan>>
      BY <2>3, <3>1 DEF Compares, Frame
    <3>4. Payloads(rows) \subseteq rows /\ Insertable(p, rows) \subseteq rows
      BY DEF Payloads, Insertable
    <3>5. \A r \in Payloads(rows) : SameAsPublic(r.id)
      BY <3>3 DEF Payloads, Conflict, Absent, IdsOf, SameAsPublic
    <3>6. \A r \in Payloads(rows) : SameAsPublic(r.id)'
      BY <3>3, <3>5 DEF SameAsPublic
    <3>7. rows # {} /\ IsFiniteSet(rows) /\ \A q, r \in rows : q.id = r.id => q = r
      BY <3>1, <3>3 DEF RowsInv, InBatch
    <3> QED BY <3>3, <3>4, <3>6, <3>7 DEF RowsInv
  <2>4. CASE Writes(p) /\ run'[p] = [run[p] EXCEPT !.pc = "save"]
    <3>1. PICK r : r = run[p]
      OBVIOUS
    <3>2. r \in Runs
      BY <3>1 DEF TypeOKPublication
    <3>3. /\ run'[p].pc = "save" /\ run'[p].rows = r.rows /\ run'[p].dirty = r.dirty
          /\ run'[p].missing = r.missing
      BY <2>4, <3>1, <3>2 DEF Runs
    <3>4. r.pc = "write"
      BY <2>4, <3>1 DEF Writes
    <3> QED BY <3>1, <3>3, <3>4 DEF RowsInv, InBatch
  <2> QED BY <1>2, <2>1, <2>2, <2>3, <2>4 DEF BatchStep, Controls, Writes, Saves, Idles
<1>3. ASSUME NEW p \in Procs, BatchStep(p) PROVE \A q \in Procs \ {p} : run'[q] = run[q]
  BY <1>3 DEF BatchStep, Controls, Reads, Compares, Writes, Saves, Idles, Turns
<1> QED BY <1>1, <1>2, <1>3, Steps DEF Outside, Adds

-----------------------------------------------------------------------------
(* Behind the checkpoint, where one process publishes.                     *)

\* The canonical row of a place in the window is the one it was, or an
\* enrichment of it is committed.
Stays(i) == i \in Window /\ local'[i].t = local[i].t /\ (i \in passed' <=> i \in passed)
LEMMA WindowMoves ==
  ASSUME TypeOKPublication, LocalMoves \/ Goods, NEW i \in Ids, i \in Window'
  PROVE  Stays(i) \/ Committed(i)
<1>1. local'[i] # None /\ local'[i].t > 0 /\ local'[i].graded /\ ~local'[i].old
  BY DEF Window
<1>2. CASE Goods
  BY <1>1, <1>2 DEF Goods, Same, Window, Stays
<1>3. CASE LocalMoves
  <2>1. local[i] # None
    BY <1>1, <1>3 DEF LocalMoves
  <2>2. Kept(i) => Stays(i)
    BY <1>1, <2>1 DEF Kept, Window, Stays
  <2> QED BY <1>3, <2>1, <2>2 DEF LocalMoves
<1> QED BY <1>2, <1>3

LEMMA RowsAreTyped ==
  ASSUME TypeOKPublication, NEW p \in Procs, RowsInv(p), run[p].pc \in InBatch
  PROVE  /\ run[p].rows \subseteq Rows /\ run[p].rows # {} /\ IsFiniteSet(run[p].rows)
         /\ \A r \in run[p].rows : r.id \in Ids /\ r.id \in Int /\ r.value \in Int
<1>1. run[p].rows \subseteq Rows
  BY DEF TypeOKPublication, Runs
<1>2. \A r \in run[p].rows : r.id \in Ids /\ r.value \in Int
  BY <1>1 DEF Rows
<1>3. \A i \in Ids : i \in Int
  BY IdsArePositive
<1> QED BY <1>1, <1>2, <1>3 DEF RowsInv

\* What is committed after a batch was read is ahead of it, or passed.
LEMMA BatchIsKept ==
  ASSUME TypeOKPublication, NEW p \in Procs, RowsInv(p), run[p].pc \in InBatch,
         LocalMoves \/ Goods, UNCHANGED after, run'[p].rows = run[p].rows
  PROVE  /\ ReadInv(p) => ReadInv(p)'
         /\ run[p].mode = "window" /\ Covered(p) => Covered(p)'
<1>0. \A i \in Ids : Committed(i) => i \in passed' \/ ~Behind(i, after)'
  BY DEF Committed, PassedBy, Behind
<1>1. ASSUME ReadInv(p), NEW r \in run[p].rows
      PROVE  local'[r.id] # None /\ (local'[r.id].t = r.value \/ r.id \in passed' \/ ~Behind(r.id, after)')
  <2>1. r.id \in Ids /\ local[r.id] # None /\ (local[r.id].t = r.value \/ r.id \in passed \/ ~Behind(r.id, after))
    BY <1>1, RowsAreTyped DEF ReadInv
  <2>2. PICK i \in Ids : i = r.id
    BY <2>1
  <2>3. CASE Goods
    BY <2>1, <2>3 DEF Goods, Same, Behind
  <2>4. CASE LocalMoves /\ Kept(i)
    BY <2>1, <2>2, <2>4 DEF LocalMoves, Kept, Behind
  <2>5. CASE LocalMoves /\ Committed(i)
    BY <1>0, <2>1, <2>2, <2>5 DEF LocalMoves
  <2> QED BY <2>1, <2>2, <2>3, <2>4, <2>5 DEF LocalMoves
<1>2. ASSUME run[p].mode = "window", Covered(p), NEW i \in Ids, i \in Window', i \notin passed', ~Behind(i, after)',
             NEW r \in run[p].rows, NotAbove(i, r)'
      PROVE  [id |-> i, value |-> local'[i].t] \in run[p].rows
  <2>1. ~Committed(i)
    <3>1. Sending(p)
      BY <1>2 DEF Sending, InBatch
    <3>2. UpTo(local'[i].t, i, [t |-> r.value, id |-> r.id])
      BY <1>2 DEF NotAbove, UpTo
    <3> QED BY <1>2, <3>1, <3>2 DEF Committed, PassedBy
  <2>2. i \in Window /\ local'[i].t = local[i].t /\ i \notin passed
    BY <1>2, <2>1, WindowMoves DEF Stays
  <2>3. ~Behind(i, after) /\ NotAbove(i, r)
    BY <1>2, <2>2 DEF Behind, NotAbove
  <2> QED BY <1>2, <2>2, <2>3 DEF Covered
<1>3. ReadInv(p) => ReadInv(p)'
  BY <1>1 DEF ReadInv, Behind
<1>4. Window' \subseteq Ids
  BY DEF Window
<1>5. run[p].mode = "window" /\ Covered(p) => Covered(p)'
  BY <1>2, <1>4 DEF Covered
<1> QED BY <1>3, <1>5

\* A batch of the window is read without a gap.
LEMMA BatchIsCovered ==
  ASSUME TypeOKPublication, Reads(Launchd), Launchd \in Procs
  PROVE  /\ ReadInv(Launchd)'
         /\ run[Launchd].mode = "window" => Covered(Launchd)'
<1>1. PICK p, ids : p = Launchd /\ ids = First(p, Limit)
  OBVIOUS
<1>2. ids \subseteq Ids /\ ids # {} /\ \A i \in ids : local[i] # None
  BY <1>1, SelectedIds DEF Reads
<1>3. run'[p].rows = Snapshot(ids) /\ UNCHANGED <<local, after>>
  BY <1>1 DEF Reads, Same
<1>4. \A r \in Snapshot(ids) : r.id \in ids /\ r.value = local[r.id].t
  BY <1>2, SnapshotsAreBatches
<1>5. ReadInv(p)'
  BY <1>2, <1>3, <1>4 DEF ReadInv
<1>6. ASSUME run[p].mode = "window", NEW i \in Window, ~Behind(i, after), NEW r \in Snapshot(ids), NotAbove(i, r)
      PROVE  [id |-> i, value |-> local[i].t] \in Snapshot(ids)
  <2> DEFINE before(j) == {k \in Eligible(p) : Precedes(k, j)}
  <2>1. PICK l \in ids : l = r.id /\ r.value = local[l].t
    BY <1>4
  <2>2. ids = {j \in Eligible(p) : Cardinality(before(j)) < Limit}
    BY <1>1, <1>6 DEF First
  <2>3. i \in Eligible(p) /\ Eligible(p) \subseteq Ids
    BY <1>6 DEF Eligible, Window
  <2>4. \A k \in Eligible(p) : local[k].t \in Int /\ k \in Int
    <3>1. \A k \in Eligible(p) : local[k] # None /\ k \in Ids
      BY <1>6 DEF Eligible, Window
    <3>2. \A k \in Eligible(p) : local[k] \in LocalRows
      BY <3>1 DEF TypeOKPublication
    <3>3. \A k \in Ids : k \in Int
      BY IdsArePositive
    <3> QED BY <3>1, <3>2, <3>3 DEF LocalRows
  <2>5. before(i) \subseteq before(l)
    <3>1. l \in Eligible(p)
      BY <2>1, <2>2
    <3>2. i = l \/ Precedes(i, l)
      BY <1>6, <2>1, <2>3, <2>4, <3>1 DEF NotAbove, Precedes
    <3>3. ASSUME NEW k \in before(i), Precedes(i, l) PROVE Precedes(k, l)
      BY <2>3, <2>4, <3>1, <3>3 DEF Precedes
    <3> QED BY <3>2, <3>3
  <2>6. IsFiniteSet(before(l)) /\ before(l) \subseteq Ids
    BY <2>3, IdsArePositive, FS_Subset
  <2>7. Cardinality(before(i)) <= Cardinality(before(l)) /\ Cardinality(before(i)) \in Nat /\ Cardinality(before(l)) \in Nat
    <3>1. IsFiniteSet(before(i))
      BY <2>5, <2>6, FS_Subset
    <3> HIDE DEF before
    <3> QED BY <2>5, <2>6, <3>1, FS_Subset, FS_CardinalityType
  <2>8. Cardinality(before(l)) < Limit
    BY <2>2
  <2>9. Limit \in Nat
    BY PublicationAssumption
  <2>10. Cardinality(before(i)) < Limit
    <3> HIDE DEF before
    <3> QED BY <2>7, <2>8, <2>9
  <2>11. i \in ids
    BY <2>2, <2>3, <2>10
  <2> QED BY <1>2, <2>11, SnapshotsAreBatches
<1>7. Window' = Window /\ \A i \in Ids : Behind(i, after)' <=> Behind(i, after)
  BY <1>3 DEF Window, Behind
<1>8. Window \subseteq Ids
  BY DEF Window
<1>9. run[p].mode = "window" => Covered(p)'
  BY <1>3, <1>6, <1>7, <1>8 DEF Covered, NotAbove
<1> QED BY <1>1, <1>5, <1>9

\* Before the checkpoint is saved every row of the batch shows its value.
LEMMA BatchIsShown ==
  ASSUME TypeOKPublication, Launchd \in Procs, RowsInv(Launchd), run[Launchd].mode = "window"
  PROVE  /\ Compares(Launchd) => ShownInv(Launchd)'
         /\ Writes(Launchd) /\ run'[Launchd] = [run[Launchd] EXCEPT !.pc = "save"] /\ ShownInv(Launchd) =>
              ShownInv(Launchd)'
<1>1. PICK p : p = Launchd
  OBVIOUS
<1>2. ASSUME Compares(p) PROVE ShownInv(p)'
  <2>1. PICK rows : rows = run[p].rows
    OBVIOUS
  <2>2. /\ run'[p].pc = "write" /\ run'[p].rows = rows /\ UNCHANGED <<public, plan>>
        /\ run'[p].dirty = Payloads(rows) /\ run'[p].missing = Insertable(p, rows)
    BY <1>2, <2>1 DEF Compares, Frame
  <2>3. run'[p].missing = {}
    BY <1>1, <2>2 DEF Insertable
  <2>4. \A r \in rows \ Payloads(rows) : Shows(r)
    BY DEF Payloads, Shows, SameAsPublic
  <2>5. \A r \in rows \ Payloads(rows) : Shows(r)'
    BY <2>2, <2>4 DEF Shows, SameAsPublic
  <2> QED BY <2>2, <2>3, <2>5 DEF ShownInv
<1>3. ASSUME Writes(p), run'[p] = [run[p] EXCEPT !.pc = "save"], ShownInv(p)
      PROVE  ShownInv(p)'
  <2>1. PICK b : b = run[p]
    OBVIOUS
  <2>2. b \in Runs /\ b.pc = "write"
    BY <1>1, <1>3, <2>1 DEF TypeOKPublication, Writes
  <2>3. run'[p].pc = "save" /\ run'[p].rows = b.rows
    BY <1>3, <2>1, <2>2 DEF Runs
  <2>4. b.missing = {} /\ \A r \in b.rows \ b.dirty : Shows(r)
    BY <1>3, <2>1, <2>2 DEF ShownInv
  <2>5. /\ b.dirty \subseteq b.rows /\ b.rows \subseteq Rows
        /\ \A q, r \in b.rows : q.id = r.id => q = r
        /\ \A r \in b.dirty : SameAsPublic(r.id)
    BY <1>1, <2>1, <2>2 DEF RowsInv, InBatch, Runs
  <2>6. public' = Written(b.dirty) /\ plan' = plan
    <3>1. PICK rows \in SUBSET Writable(p) : public' = Written(rows) /\ (Idles(p) \/ rows = Writable(p))
      BY <1>3 DEF Writes
    <3>2. ~Idles(p)
      BY <2>3 DEF Idles, InBatch
    <3>3. Writable(p) = b.dirty
      BY <2>1, <2>4 DEF Writable
    <3>4. plan' = plan
      BY <1>3 DEF Writes, Frame
    <3> QED BY <3>1, <3>2, <3>3, <3>4
  <2>7. ASSUME NEW r \in b.rows, SameAsPublic(r.id)' PROVE public'[r.id].value = r.value
    <3>0. r.id \in Ids /\ b.dirty \subseteq Rows
      BY <2>5 DEF Rows
    <3>1. CASE r \in b.dirty
      <4>1. r.id \in IdsOf(b.dirty)
        BY <3>1 DEF IdsOf
      <4>2. PICK q \in b.dirty : q.id = r.id /\ Written(b.dirty)[r.id].value = q.value
        BY <3>0, <4>1, WrittenRows
      <4>3. q = r
        BY <2>5, <4>2
      <4> QED BY <2>6, <4>2, <4>3
    <3>2. CASE r \notin b.dirty
      <4>1. r.id \notin IdsOf(b.dirty)
        BY <2>5, <3>2 DEF IdsOf
      <4>2. public'[r.id] = public[r.id]
        BY <2>6, <3>0, <4>1, WrittenRows
      <4>3. SameAsPublic(r.id)
        BY <2>6, <2>7, <4>2 DEF SameAsPublic
      <4>4. public[r.id].value = r.value
        BY <2>4, <3>2, <4>3 DEF Shows
      <4> QED BY <4>2, <4>4
    <3> QED BY <3>1, <3>2
  <2> QED BY <2>3, <2>7 DEF ShownInv, Shows
<1> QED BY <1>1, <1>2, <1>3

\* Where one process publishes, what the website adds is no place of the
\* canonical table.
LEMMA AddedIsAnother ==
  ASSUME TypeOKPublication, plan.alone, Adds, NEW i \in Ids, SameAsPublic(i)'
  PROVE  public'[i] = public[i] /\ SameAsPublic(i)
<1>1. PICK j \in Ids, row \in plan.entries : public[j] = None /\ public' = [public EXCEPT ![j] = row]
  BY DEF Adds
<1>2. plan' = plan /\ plan \in Plans
  BY DEF Adds, Frame, TypeOKPublication
<1>3. ~SameRestaurant(plan.place[j], row)
  <2>1. PICK place : place = plan.place[j]
    OBVIOUS
  <2>2. /\ row.key # place.key
        /\ row.key = None /\ row.name = place.name => Distance(row.pos, place.pos) > 25
    BY <1>1, <1>2, <2>1, PlansAssumption
  <2>3. row.pos \in Int /\ place.pos \in Int
    BY <1>1, <1>2, <2>1, PlansAssumption DEF PublicRows, Places
  <2>4. ~SameRestaurant(place, row)
    BY <2>2, <2>3 DEF SameRestaurant, Distance
  <2> QED BY <2>1, <2>4
<1>4. public'[j] = row
  BY <1>1 DEF TypeOKPublication
<1>5. i # j
  BY <1>2, <1>3, <1>4 DEF SameAsPublic
<1>6. public'[i] = public[i]
  BY <1>1, <1>5 DEF TypeOKPublication
<1> QED BY <1>2, <1>6 DEF SameAsPublic

LEMMA BatchStays ==
  ASSUME PublicationInv, [Next]_vars
  PROVE  BatchInv'
<1> SUFFICES ASSUME plan'.alone, run'[Launchd].pc \in InBatch
             PROVE  /\ ReadInv(Launchd)'
                    /\ run'[Launchd].mode = "window" => Covered(Launchd)' /\ ShownInv(Launchd)'
  BY DEF BatchInv
<1>0. TypeOKPublication /\ (\A p \in Procs : RowsInv(p)) /\ AloneInv /\ BatchInv
  BY DEF PublicationInv
<1>1. Launchd \in Procs
  BY PublicationAssumption
<1>2. plan.alone
  BY <1>0, Steps DEF BatchStep, Controls, Reads, Compares, Writes, Saves, Outside, Adds, Frame
<1>3. CASE Reads(Launchd)
  <2>1. run'[Launchd].mode = run[Launchd].mode /\ run'[Launchd].pc = "compare"
    BY <1>3 DEF Reads
  <2>2. ReadInv(Launchd)' /\ (run[Launchd].mode = "window" => Covered(Launchd)')
    BY <1>0, <1>1, <1>3, BatchIsCovered
  <2> QED BY <2>1, <2>2 DEF ShownInv
<1>4. CASE Compares(Launchd)
  <2>1. run[Launchd].pc \in InBatch /\ Goods /\ UNCHANGED after
        /\ run'[Launchd].rows = run[Launchd].rows /\ run'[Launchd].mode = run[Launchd].mode
    BY <1>4 DEF Compares, InBatch
  <2>2. ReadInv(Launchd) /\ (run[Launchd].mode = "window" => Covered(Launchd))
    BY <1>0, <1>2, <2>1 DEF BatchInv
  <2>3. ReadInv(Launchd)' /\ (run[Launchd].mode = "window" => Covered(Launchd)')
    BY <1>0, <1>1, <2>1, <2>2, BatchIsKept
  <2>4. run[Launchd].mode = "window" => ShownInv(Launchd)'
    BY <1>0, <1>1, <1>4, BatchIsShown
  <2> QED BY <2>1, <2>3, <2>4
<1>5. CASE Writes(Launchd)
  <2>1. run'[Launchd] = [run[Launchd] EXCEPT !.pc = "save"]
    BY <1>5 DEF Writes, Idles
  <2>2. PICK b : b = run[Launchd]
    OBVIOUS
  <2>3. b \in Runs
    BY <1>0, <1>1, <2>2 DEF TypeOKPublication
  <2>4. run'[Launchd].rows = run[Launchd].rows /\ run'[Launchd].mode = run[Launchd].mode
    BY <2>1, <2>2, <2>3 DEF Runs
  <2>5. run[Launchd].pc \in InBatch /\ Goods /\ UNCHANGED after
    BY <1>5 DEF Writes, InBatch
  <2>6. ReadInv(Launchd) /\ (run[Launchd].mode = "window" => Covered(Launchd) /\ ShownInv(Launchd))
    BY <1>0, <1>2, <2>5 DEF BatchInv
  <2>7. ReadInv(Launchd)' /\ (run[Launchd].mode = "window" => Covered(Launchd)')
    BY <1>0, <1>1, <2>4, <2>5, <2>6, BatchIsKept
  <2>8. run[Launchd].mode = "window" => ShownInv(Launchd)'
    BY <1>0, <1>1, <1>5, <2>1, <2>6, BatchIsShown
  <2> QED BY <2>4, <2>7, <2>8
<1>6. CASE Outside \/ Adds
  <2>1. run' = run /\ UNCHANGED after /\ (LocalMoves \/ Goods) /\ plan' = plan
    BY <1>6 DEF Outside, Adds, Frame
  <2>2. ReadInv(Launchd) /\ (run[Launchd].mode = "window" => Covered(Launchd) /\ ShownInv(Launchd))
    BY <1>0, <1>2, <2>1 DEF BatchInv
  <2>3. ReadInv(Launchd)' /\ (run[Launchd].mode = "window" => Covered(Launchd)')
    BY <1>0, <1>1, <2>1, <2>2, BatchIsKept
  <2>4. ASSUME NEW r \in run[Launchd].rows, Shows(r) PROVE Shows(r)'
    <3>1. PICK i \in Ids : i = r.id
      BY <1>0, <1>1, <2>1, RowsAreTyped
    <3>2. SameAsPublic(i)' => public'[i] = public[i] /\ SameAsPublic(i)
      <4>1. CASE Outside
        BY <2>1, <4>1 DEF Outside, SameAsPublic
      <4>2. CASE Adds
        BY <1>0, <1>2, <4>2, AddedIsAnother
      <4> QED BY <1>6, <4>1, <4>2
    <3> QED BY <2>4, <3>1, <3>2 DEF Shows
  <2>5. run[Launchd].mode = "window" => ShownInv(Launchd)'
    <3>1. ASSUME ShownInv(Launchd) PROVE ShownInv(Launchd)'
      BY <2>1, <2>4, <3>1 DEF ShownInv
    <3> QED BY <2>2, <3>1
  <2> QED BY <2>1, <2>3, <2>5
<1>7. ~Controls(Launchd) /\ ~Saves(Launchd)
  BY DEF Controls, Saves, Idles
<1> QED BY <1>0, <1>2, <1>3, <1>4, <1>5, <1>6, <1>7, Steps DEF BatchStep

LEMMA MirrorStays ==
  ASSUME PublicationInv, [Next]_vars
  PROVE  MirrorBehindCheckpoint'
<1> SUFFICES ASSUME plan'.alone, NEW i \in Ids, i \in Window', Behind(i, after)', i \notin passed', SameAsPublic(i)'
             PROVE  public'[i].value = local'[i].t
  BY DEF MirrorBehindCheckpoint, SameAsPublic, Window
<1>0. TypeOKPublication /\ (\A p \in Procs : RowsInv(p)) /\ AloneInv /\ BatchInv /\ MirrorBehindCheckpoint
  BY DEF PublicationInv
<1>1. Launchd \in Procs
  BY PublicationAssumption
<1>2. plan.alone
  BY <1>0, Steps DEF BatchStep, Controls, Reads, Compares, Writes, Saves, Outside, Adds, Frame
<1>3. i \in Ids
  OBVIOUS
<1>4. ASSUME LocalMoves \/ Goods, after' = after
      PROVE  i \in Window /\ i \notin passed /\ local'[i].t = local[i].t /\ Behind(i, after)
  <2>1. ~Committed(i)
    BY <1>4 DEF Committed, PassedBy, Behind
  <2>2. Stays(i)
    BY <1>0, <1>4, <2>1, WindowMoves
  <2> QED BY <1>4, <2>2 DEF Behind, Stays
<1>5. ASSUME i \in Window, i \notin passed, Behind(i, after), SameAsPublic(i) PROVE public[i].value = local[i].t
  BY <1>0, <1>2, <1>5 DEF MirrorBehindCheckpoint, SameAsPublic
<1>6. ASSUME LocalMoves \/ Goods, after' = after, public' = public, plan' = plan
      PROVE  public'[i].value = local'[i].t
  <2>1. SameAsPublic(i)
    BY <1>6 DEF SameAsPublic
  <2> QED BY <1>4, <1>5, <1>6, <2>1
<1>7. CASE Adds
  <2>1. Goods /\ after' = after /\ plan' = plan
    BY <1>7 DEF Adds, Frame
  <2>2. public'[i] = public[i] /\ SameAsPublic(i)
    BY <1>0, <1>2, <1>7, AddedIsAnother
  <2> QED BY <1>4, <1>5, <2>1, <2>2
<1>8. CASE Writes(Launchd)
  <2>1. Goods /\ after' = after /\ plan' = plan /\ run[Launchd].pc = "write"
    BY <1>8 DEF Writes, Frame
  <2>2. PICK rows \in SUBSET Writable(Launchd) : public' = Written(rows)
    BY <1>8 DEF Writes
  <2>3. rows \subseteq Rows /\ rows \subseteq run[Launchd].rows
    BY <1>0, <1>1, <2>1, <2>2, WritableRows
  <2>4. i \in Window /\ i \notin passed /\ local'[i].t = local[i].t /\ Behind(i, after)
    BY <1>4, <2>1
  <2>5. CASE i \notin IdsOf(rows)
    <3>1. public'[i] = public[i]
      BY <1>0, <2>2, <2>3, <2>5, WrittenRows
    <3>2. SameAsPublic(i)
      BY <2>1, <3>1 DEF SameAsPublic
    <3> QED BY <1>5, <2>4, <3>1, <3>2
  <2>6. CASE i \in IdsOf(rows)
    <3>1. PICK r \in rows : r.id = i /\ public'[i].value = r.value
      BY <1>0, <2>2, <2>3, <2>6, WrittenRows
    <3>2. local[i].t = r.value \/ i \in passed \/ ~Behind(i, after)
      BY <1>0, <1>2, <2>1, <2>3, <3>1 DEF BatchInv, InBatch, ReadInv
    <3> QED BY <2>4, <3>1, <3>2
  <2> QED BY <2>5, <2>6
<1>9. CASE Saves(Launchd)
  <2>1. Goods /\ public' = public /\ plan' = plan /\ run[Launchd].pc = "save"
    BY <1>9 DEF Saves, Frame
  <2>2. CASE run[Launchd].mode # "window"
    <3>1. after' = after
      BY <1>9, <2>2 DEF Saves
    <3> QED BY <1>6, <2>1, <3>1
  <2>3. CASE run[Launchd].mode = "window"
    <3>1. PICK rows : rows = run[Launchd].rows
      OBVIOUS
    <3>2. PICK last : last = LastOf(rows)
      OBVIOUS
    <3>3. after' = [t |-> last.value, id |-> last.id]
      BY <1>9, <2>3, <3>1, <3>2 DEF Saves
    <3>4. last \in rows
      <4>1. rows \subseteq Rows /\ rows # {} /\ IsFiniteSet(rows)
        BY <1>0, <1>1, <2>1, <3>1, RowsAreTyped DEF InBatch
      <4> QED BY <3>2, <4>1, LastIsARow
    <3>5. i \in Window /\ i \notin passed /\ local' = local /\ SameAsPublic(i)
      BY <2>1 DEF Goods, Same, Window, SameAsPublic
    <3>6. NotAbove(i, last)
      BY <3>3, <3>5 DEF Behind, UpTo, NotAbove
    <3>7. CASE Behind(i, after)
      BY <1>5, <2>1, <3>5, <3>7
    <3>8. CASE ~Behind(i, after)
      <4>1. Covered(Launchd) /\ ShownInv(Launchd)
        BY <1>0, <1>2, <2>1, <2>3 DEF BatchInv, InBatch
      <4>2. PICK r : r = [id |-> i, value |-> local[i].t]
        OBVIOUS
      <4>3. r \in rows /\ r.id = i /\ r.value = local[i].t
        BY <3>1, <3>4, <3>5, <3>6, <3>8, <4>1, <4>2 DEF Covered
      <4>4. Shows(r)
        BY <2>1, <3>1, <4>1, <4>3 DEF ShownInv
      <4> QED BY <2>1, <3>5, <4>3, <4>4 DEF Shows
    <3> QED BY <3>7, <3>8
  <2> QED BY <2>2, <2>3
<1>10. CASE Controls(Launchd) \/ Compares(Launchd) \/ Outside
  <2>1. (LocalMoves \/ Goods) /\ after' = after /\ public' = public /\ plan' = plan
    BY <1>10 DEF Controls, Compares, Outside, Frame
  <2> QED BY <1>6, <2>1
<1>11. CASE Reads(Launchd)
  <2>1. Same /\ after' = after /\ public' = public /\ plan' = plan
    BY <1>11 DEF Reads, Frame
  <2>2. i \in Window /\ Behind(i, after) /\ SameAsPublic(i) /\ local'[i].t = local[i].t
    BY <2>1 DEF Same, Window, Behind, SameAsPublic
  <2>3. i \notin passed
    <3>1. CASE run[Launchd].mode # "window"
      BY <1>11, <3>1 DEF Reads
    <3>2. CASE run[Launchd].mode = "window"
      <4>1. PICK ids : ids = First(Launchd, Limit)
        OBVIOUS
      <4>2. i \notin ids
        <5>1. ids \subseteq Eligible(Launchd)
          BY <3>2, <4>1 DEF First
        <5>2. i \notin Eligible(Launchd)
          BY <2>2, <3>2 DEF Eligible
        <5> QED BY <5>1, <5>2
      <4>3. i \notin IdsOf(Snapshot(ids))
        BY <4>2 DEF IdsOf, Snapshot
      <4>4. passed' = passed \ IdsOf(Snapshot(ids))
        BY <1>11, <3>2, <4>1 DEF Reads
      <4> QED BY <4>3, <4>4
    <3> QED BY <3>1, <3>2
  <2> QED BY <1>5, <2>1, <2>2, <2>3
<1> QED BY <1>0, <1>2, <1>7, <1>8, <1>9, <1>10, <1>11, Steps DEF BatchStep

-----------------------------------------------------------------------------
(* The theorems.                                                           *)

LEMMA InvStarts == Init => PublicationInv
<1> SUFFICES ASSUME Init PROVE PublicationInv
  OBVIOUS
<1>1. plan \in Plans /\ local = plan.local /\ public = plan.public /\ after = None
      /\ run = [p \in Procs |-> Off] /\ clock = 0 /\ left = plan.bounds /\ pending = {}
  BY DEF Init
<1>2. /\ plan.local \in [Ids -> LocalRows \cup {None}] /\ plan.public \in [Ids -> PublicRows \cup {None}]
      /\ \A i \in Ids : plan.local[i] # None => plan.local[i].t = 0
      /\ plan.bounds \in [Budgets -> Nat] /\ (plan.alone => plan.bounds.manual = 0)
  BY <1>1, PlansAssumption
<1>3. \A p \in Procs : run[p] = Off
  BY <1>1
<1>4. run \in [Procs -> Runs]
  BY <1>1, OffIsARun
<1>5. TypeOKPublication
  BY <1>1, <1>2, <1>4 DEF TypeOKPublication
<1>6. \A p \in Procs : RowsInv(p)
  BY <1>3, OffIsARun DEF RowsInv, InBatch
<1>7. AloneInv
  BY <1>1, <1>2, <1>3, OffIsARun DEF AloneInv
<1>8. BatchInv
  <2>1. Launchd \in Procs
    BY PublicationAssumption
  <2> QED BY <1>3, <2>1, OffIsARun DEF BatchInv, InBatch
<1>9. MirrorBehindCheckpoint
  BY <1>1 DEF MirrorBehindCheckpoint, Behind
<1> QED BY <1>5, <1>6, <1>7, <1>8, <1>9 DEF PublicationInv

LEMMA InvStays == PublicationInv /\ [Next]_vars => PublicationInv'
<1> SUFFICES ASSUME PublicationInv, [Next]_vars PROVE PublicationInv'
  OBVIOUS
<1>1. TypeOKPublication /\ (\A p \in Procs : RowsInv(p)) /\ AloneInv
  BY DEF PublicationInv
<1>2. TypeOKPublication' /\ AloneInv' /\ \A p \in Procs : RowsInv(p)'
  BY <1>1, TypesStay, OneStaysAlone, RowsStay
<1>3. BatchInv' /\ MirrorBehindCheckpoint'
  BY BatchStays, MirrorStays
<1> QED BY <1>2, <1>3 DEF PublicationInv

\* A publication keeps the invariant, whatever fails in it and around it.
THEOREM PublicationInvariant == Spec => []PublicationInv
<1>1. Init => PublicationInv
  BY InvStarts
<1>2. PublicationInv /\ [Next]_vars => PublicationInv'
  BY InvStays
<1> QED BY <1>1, <1>2, PTL DEF Spec

\* The checkpoint of the enrichment window claims no more than was published:
\* a public row of the same restaurant behind it has the value of the last
\* enrichment (sync-local-to-supabase.mjs saves it after the batch).
THEOREM CheckpointIsHonest == Spec => []MirrorBehindCheckpoint
<1>1. PublicationInv => MirrorBehindCheckpoint
  BY DEF PublicationInv
<1> QED BY <1>1, PublicationInvariant, PTL

\* A step of any number of publications changes no public row of another
\* restaurant (assertSupabasePlaceIdentity and the primary key).
LEMMA StepKeepsOthers ==
  ASSUME PublicationInv, [Next]_vars, NEW i \in Ids, public[i] # None, Unrelated(plan.place[i], public[i])
  PROVE  public'[i] = public[i]
<1>0. TypeOKPublication /\ (\A p \in Procs : RowsInv(p)) /\ AloneInv
  BY DEF PublicationInv
<1>1. ~SameAsPublic(i)
  BY DEF Unrelated, SameAsPublic, SameRestaurant
<1>2. CASE public' = public
  BY <1>2
<1>3. CASE Adds
  BY <1>0, <1>3 DEF Adds, TypeOKPublication
<1>4. ASSUME NEW p \in Procs, Writes(p) PROVE public'[i] = public[i]
  <2>1. run[p].pc = "write"
    BY <1>4 DEF Writes
  <2>2. PICK rows \in SUBSET Writable(p) : public' = Written(rows)
    BY <1>4 DEF Writes
  <2>3. rows \subseteq Rows /\ \A r \in rows : public[r.id] # None => SameAsPublic(r.id)
    BY <1>0, <2>1, <2>2, WritableRows
  <2>4. i \notin IdsOf(rows)
    BY <1>1, <2>3 DEF IdsOf
  <2> QED BY <1>0, <2>2, <2>3, <2>4, WrittenRows
<1> QED BY <1>0, <1>2, <1>3, <1>4, Steps DEF BatchStep, Controls, Reads, Compares, Saves, Outside

\* A publication never changes the public row of another restaurant, also one that the
\* website adds under an id that was free when the batch was read.
THEOREM OthersAreKept == Spec => NeverOverwritesAnother
<1>1. PublicationInv /\ [Next]_vars =>
        [\A i \in Ids : public[i] # None /\ Unrelated(plan.place[i], public[i]) => public'[i] = public[i]]_vars
  BY StepKeepsOthers
<1> QED BY <1>1, PublicationInvariant, PTL DEF Spec, NeverOverwritesAnother

=============================================================================
