--------------------------- MODULE SnapshotReader ---------------------------
(***************************************************************************)
(* The PostgreSQL snapshot adapter: a reader with a pool of one connection *)
(* reads a whole view inside one repeatable-read transaction, page after   *)
(* page by its cursor column, while other transactions change the view,    *)
(* the server drops connections and the host aborts the read at any await. *)
(* Each process has one reader and awaits its reads.                       *)
(*                                                                         *)
(* A query and the handling of its answer are one step.  A row is          *)
(* identified by Row: a changed row is another member with the same        *)
(* cursor.  Rows are transferred as jsonb text, Padding bytes longer than  *)
(* their canonical form.                                                   *)
(***************************************************************************)
EXTENDS Naturals, FiniteSets, Sequences, SequencesExt

CONSTANTS
  Proc,        \* processes
  Row,         \* rows of the view
  Views,       \* SUBSET (SUBSET Row): what the view may hold
  Cursor,      \* [Row -> Nat]: its cursor column, 0 for an empty text
  Bytes,       \* [Row -> Nat]: its canonical form
  Malformed,   \* SUBSET Row: a column violates its attested type or nullability
  Padding,     \* the bytes by which jsonb text exceeds the canonical form
  PageSize,    \* resource.pageSize
  MaxRowBytes, \* resource.maxRowBytes
  MaxRecords,  \* of the grant
  MaxBytes,    \* of the grant, net of the empty document
  MaxCommits   \* bound on the commits of other transactions

\* validateResource() and the limits read() checks.
ASSUME SnapshotAssumption ==
  /\ Views \subseteq SUBSET Row
  /\ \A S \in Views : IsFiniteSet(S)
  /\ Cursor \in [Row -> Nat]
  /\ Bytes \in [Row -> Nat]
  /\ Malformed \subseteq Row
  /\ Padding \in Nat
  /\ PageSize \in Nat \ {0}
  /\ MaxRowBytes \in Nat \ {0}
  /\ MaxRecords \in Nat
  /\ MaxBytes \in Nat
  /\ MaxCommits \in Nat

VARIABLES
  view,       \* the rows of the view, as committed
  commits,
  stage,      \* where the read is
  aborted,    \* input.signal.aborted
  connection, \* the pool's client: "none", "leased" or "idle"
  snapshot,   \* the rows the open transaction sees
  rows,       \* the rows read so far
  seen        \* history: what the view has held since the read began

readerVars == <<view, commits, stage, aborted, connection, snapshot, rows, seen>>

Stages == {"idle", "connecting", "leased", "attesting", "paging", "unwinding",
           "returned", "failed"}

ReaderInit ==
  /\ view \in Views
  /\ commits = 0
  /\ stage = [p \in Proc |-> "idle"]
  /\ aborted = [p \in Proc |-> FALSE]
  /\ connection = [p \in Proc |-> "none"]
  /\ snapshot = [p \in Proc |-> {}]
  /\ rows = [p \in Proc |-> <<>>]
  /\ seen = [p \in Proc |-> {}]

Awaits(p) == stage[p] \in {"connecting", "leased", "attesting", "paging"}
InTransaction(p) == stage[p] \in {"attesting", "paging"}

-----------------------------------------------------------------------------
(* The queries. *)

SumBytes(s) == FoldLeft(LAMBDA sum, r : sum + Bytes[r], 0, s)

\* ORDER BY cursor COLLATE "C".
Ordered(S) ==
  CHOOSE s \in [1..Cardinality(S) -> S] :
    \A i, j \in DOMAIN s : i < j => s[i] # s[j] /\ Cursor[s[i]] <= Cursor[s[j]]

\* uniquenessQuery: no cursor is empty, none appears twice.
UniqueCursors(S) == \A r, q \in S : Cursor[r] # 0 /\ (Cursor[r] = Cursor[q] => r = q)

After(s) == IF s = <<>> THEN 0 ELSE Cursor[Last(s)]

Beyond(S, s) == {r \in S : Cursor[r] > After(s)}

\* firstPageQuery and nextPageQuery: the first rows after the cursor.
PageOf(S, s, limit) ==
  LET rest == Ordered(Beyond(S, s))
  IN SubSeq(rest, 1, IF Len(rest) < limit THEN Len(rest) ELSE limit)

\* remainingBytes, with a comma for every row so far; a first row has none.
TransferBudget(s) ==
  LET used == SumBytes(s) + Len(s)
  IN (IF MaxBytes > used THEN MaxBytes - used ELSE 0) + (IF s = <<>> THEN 1 ELSE 0)

\* encodedSelect(): a row whose payload, or with the rows before it and a comma
\* for each, exceeds the budget arrives without it.
Delivered(page, i, budget) ==
  /\ Bytes[page[i]] + Padding <= MaxRowBytes
  /\ Bytes[page[i]] + Padding <= budget
  /\ SumBytes(SubSeq(page, 1, i)) + i * (Padding + 1) <= budget

\* assertColumnValue() on every column, and the strictly increasing cursor.
Acceptable(s, page, i) ==
  /\ page[i] \notin Malformed
  /\ Cursor[page[i]] > IF i = 1 THEN After(s) ELSE Cursor[page[i - 1]]

Fits(s) == SumBytes(s) + (IF s = <<>> THEN 0 ELSE Len(s) - 1) <= MaxBytes

-----------------------------------------------------------------------------
(* The connection. *)

\* Mutant of Visible: every statement sees what is committed.
VisibleCommitted(p) == view

\* REPEATABLE READ: the queries of a transaction see its snapshot.
Visible(p) == snapshot[p]

To(p, s) == stage' = [stage EXCEPT ![p] = s]
Connection(p, c) == connection' = [connection EXCEPT ![p] = c]

\* read() and pool.connect(); an aborted signal is refused at once.
BeginRead(p) ==
  /\ connection[p] \in {"none", "idle"}
  /\ IF aborted[p] THEN To(p, "failed") ELSE To(p, "connecting")
  /\ rows' = [rows EXCEPT ![p] = <<>>]
  /\ seen' = [seen EXCEPT ![p] = {view}]
  /\ UNCHANGED <<view, commits, aborted, connection, snapshot>>

\* Mutant of Leased: a lease that arrives after the abort is forgotten.
LeasedAnyway(p) ==
  /\ Connection(p, "leased")
  /\ To(p, IF aborted[p] THEN "failed" ELSE "leased")

\* connect(): pool.connect() cannot be cancelled; a lease that arrives after the
\* abort is destroyed, and only then does the read fail.
Leased(p) ==
  IF aborted[p]
  THEN Connection(p, "none") /\ To(p, "failed")
  ELSE Connection(p, "leased") /\ To(p, "leased")

Connect(p) ==
  /\ stage[p] = "connecting"
  /\ Leased(p)
  /\ UNCHANGED <<view, commits, aborted, snapshot, rows, seen>>

\* The pool has no client in connectionTimeoutMillis, or the server refuses it.
ConnectFails(p) ==
  /\ stage[p] = "connecting"
  /\ To(p, "failed")
  /\ UNCHANGED <<view, commits, aborted, connection, snapshot, rows, seen>>

\* BEGIN, and set_config(), the first query of the transaction.
Begin(p) ==
  /\ stage[p] = "leased"
  /\ To(p, "attesting")
  /\ snapshot' = [snapshot EXCEPT ![p] = view]
  /\ UNCHANGED <<view, commits, aborted, connection, rows, seen>>

\* The settings, the identity and the uniqueness query.
Attest(p) ==
  /\ stage[p] = "attesting"
  /\ UniqueCursors(Visible(p))
  /\ To(p, "paging")
  /\ UNCHANGED <<view, commits, aborted, connection, snapshot, rows, seen>>

-----------------------------------------------------------------------------
(* The pages. *)

PageLimit(p) ==
  LET left == MaxRecords + 1 - Len(rows[p])
  IN IF PageSize < left THEN PageSize ELSE left

NextPage(p) == PageOf(Visible(p), rows[p], PageLimit(p))

\* Every row arrived, is as attested, and the limits of the grant hold.
Taken(p, page) ==
  /\ \A i \in DOMAIN page :
       /\ Delivered(page, i, TransferBudget(rows[p]))
       /\ Acceptable(rows[p], page, i)
       /\ Fits(rows[p] \o SubSeq(page, 1, i))
  /\ Len(rows[p]) + Len(page) <= MaxRecords

Short(p, page) == Len(page) < PageLimit(p)

Page(p) ==
  LET page == NextPage(p)
  IN
  /\ stage[p] = "paging"
  /\ Taken(p, page) /\ ~Short(p, page)
  /\ rows' = [rows EXCEPT ![p] = @ \o page]
  /\ UNCHANGED <<view, commits, stage, aborted, connection, snapshot, seen>>

\* The last page, the ROLLBACK and release(false).
Finish(p) ==
  LET page == NextPage(p)
  IN
  /\ stage[p] = "paging"
  /\ Taken(p, page) /\ Short(p, page)
  /\ rows' = [rows EXCEPT ![p] = @ \o page]
  /\ To(p, "returned")
  /\ Connection(p, "idle")
  /\ snapshot' = [snapshot EXCEPT ![p] = {}]
  /\ UNCHANGED <<view, commits, aborted, seen>>

\* A check fails, or a query does (a statement or lock timeout, the connection is
\* lost, the identity does not match): ROLLBACK, and the connection is destroyed.
ReadFails(p) ==
  /\ stage[p] \in {"leased", "attesting", "paging"}
  /\ To(p, "failed")
  /\ Connection(p, "none")
  /\ snapshot' = [snapshot EXCEPT ![p] = {}]
  /\ UNCHANGED <<view, commits, aborted, rows, seen>>

\* The abort listener destroys a leased connection under the query in flight,
\* whose rejection unwinds the read; a connection being made is waited for.
Abort(p) ==
  /\ ~aborted[p]
  /\ aborted' = [aborted EXCEPT ![p] = TRUE]
  /\ IF connection[p] = "leased"
     THEN /\ Connection(p, "none")
          /\ To(p, "unwinding")
          /\ snapshot' = [snapshot EXCEPT ![p] = {}]
     ELSE UNCHANGED <<connection, stage, snapshot>>
  /\ UNCHANGED <<view, commits, rows, seen>>

Unwind(p) ==
  /\ stage[p] = "unwinding"
  /\ To(p, "failed")
  /\ UNCHANGED <<view, commits, aborted, connection, snapshot, rows, seen>>

-----------------------------------------------------------------------------
(* The database and the pool. *)

\* Other transactions commit whatever they like.
Commit ==
  /\ commits < MaxCommits
  /\ commits' = commits + 1
  /\ view' \in Views \ {view}
  /\ seen' = [p \in Proc |-> IF Awaits(p) THEN seen[p] \cup {view'} ELSE seen[p]]
  /\ UNCHANGED <<stage, aborted, connection, snapshot, rows>>

\* The server or idleTimeoutMillis closes an idle connection.
IdleClosed(p) ==
  /\ connection[p] = "idle"
  /\ Connection(p, "none")
  /\ UNCHANGED <<view, commits, stage, aborted, snapshot, rows, seen>>

ReadSteps(p) ==
  \/ Connect(p) \/ ConnectFails(p) \/ Begin(p) \/ Attest(p)
  \/ Page(p) \/ Finish(p) \/ ReadFails(p) \/ Unwind(p)

-----------------------------------------------------------------------------
(* Properties. *)

Increasing(s) == \A i, j \in DOMAIN s : i < j => Cursor[s[i]] < Cursor[s[j]]

\* A read that returns holds exactly the rows the view had at one instant of the
\* read, each once, in the order of the cursor, within both limits of the grant.
ReturnsOneSnapshot ==
  \A p \in Proc : stage[p] = "returned" =>
    /\ \E S \in seen[p] : UniqueCursors(S) /\ ToSet(rows[p]) = S
    /\ Increasing(rows[p])
    /\ Len(rows[p]) <= MaxRecords
    /\ Fits(rows[p])
=============================================================================
