----------------------------- MODULE ShadowHost -----------------------------
(***************************************************************************)
(* The host of the read-only Foursquare shadow run: each process takes the *)
(* host-wide lock file, loads and preflights its composition, reads the    *)
(* registered projection file and the canonical view, and cleans up,       *)
(* whatever happened.  A process may be told to terminate at any await,    *)
(* and may be killed anywhere; an operator removes the lock it leaves.     *)
(*                                                                         *)
(* The stages of the executor are in PreviewRun: here a stage with a       *)
(* source awaits its read, and the stages after them end well or not.      *)
(***************************************************************************)
EXTENDS SnapshotReader

CONSTANTS
  Contents,   \* what the projection file may hold
  Registered, \* the content with the digest of the host manifest
  MaxWrites,  \* bound on the changes of the projection file
  MaxRuns,    \* bound on the runs of a process
  MaxKills,   \* bound on the processes killed
  None

ASSUME HostAssumption ==
  /\ Registered \in Contents
  /\ None \notin [owner : Proc \X Nat, written : BOOLEAN]
  /\ MaxWrites \in Nat /\ MaxRuns \in Nat /\ MaxKills \in Nat

VARIABLES
  lock,       \* apizza-fsq-shadow.lock: its owner, and whether that is written
  projection, \* the content of the projection file
  writes,
  phase,      \* where a process is
  run,        \* the nonce of its run
  terminated, \* it was told to terminate
  poolOpen, stateOpen,
  lockFailed, \* history: writing or releasing the lock of its run failed
  kills

hostVars == <<lock, projection, writes, phase, run, terminated, poolOpen, stateOpen,
              lockFailed, kills>>
vars == <<readerVars, hostVars>>

\* The cleanups run in this order, each after the one before has settled.
\* Mutant of Cleanups: in the order in which the resources were taken.
CleanupsInOrder == <<"lock", "state", "pool">>

Cleanups == <<"pool", "state", "lock">>

Working == {"composing", "preparing", "starting", "projecting", "matching"}
Phases == {"down", "locking", "writing", "canonical"} \cup Working
          \cup {"pool", "state", "lock", "exited"}

\* The process was killed, or exited by itself, with a report or an error.
Exited(p) == phase[p] \in {"down", "exited"}
Mine(p) == [owner |-> <<p, run[p]>>, written |-> TRUE]

Init ==
  /\ ReaderInit
  /\ lock = None
  /\ projection = Registered
  /\ writes = 0
  /\ phase = [p \in Proc |-> "down"]
  /\ run = [p \in Proc |-> 0]
  /\ terminated = [p \in Proc |-> FALSE]
  /\ poolOpen = [p \in Proc |-> FALSE]
  /\ stateOpen = [p \in Proc |-> FALSE]
  /\ lockFailed = [p \in Proc |-> FALSE]
  /\ kills = 0

Goto(p, ph) == phase' = [phase EXCEPT ![p] = ph]

\* The work throws: the cleanups begin.
Throw(p) == Goto(p, Cleanups[1])

\* What the read returned is dropped.
Drop(p) ==
  /\ stage' = [stage EXCEPT ![p] = "idle"]
  /\ rows' = [rows EXCEPT ![p] = <<>>]
  /\ seen' = [seen EXCEPT ![p] = {}]
  /\ UNCHANGED <<view, commits, aborted, connection, snapshot>>

-----------------------------------------------------------------------------
(* The lock. *)

Start(p) ==
  /\ Exited(p) /\ run[p] < MaxRuns
  /\ Goto(p, "locking")
  /\ run' = [run EXCEPT ![p] = @ + 1]
  /\ lockFailed' = [lockFailed EXCEPT ![p] = FALSE]
  /\ UNCHANGED <<readerVars, lock, projection, writes, terminated, poolOpen, stateOpen, kills>>

\* attempt(): open with "wx".  A lock that exists, readable or not, its owner alive
\* or not, is an error.
LockAttempt(p) ==
  IF lock = None
  THEN /\ lock' = [owner |-> <<p, run[p]>>, written |-> FALSE]
       /\ Goto(p, "writing")
  ELSE Throw(p) /\ UNCHANGED lock

Lock(p) ==
  /\ phase[p] = "locking"
  /\ LockAttempt(p)
  /\ UNCHANGED <<readerVars, projection, writes, run, terminated, poolOpen, stateOpen,
                 lockFailed, kills>>

\* The file is written, synced and closed, or one of these fails: the file stays, and
\* the run ends without a lock to release.
WriteLock(p) ==
  /\ phase[p] = "writing"
  /\ \/ /\ lock' = Mine(p)
        /\ Goto(p, "composing")
        /\ UNCHANGED lockFailed
     \/ /\ lock' \in {lock, Mine(p)}
        /\ Throw(p)
        /\ lockFailed' = [lockFailed EXCEPT ![p] = TRUE]
  /\ UNCHANGED <<readerVars, projection, writes, run, terminated, poolOpen, stateOpen,
                 kills>>

-----------------------------------------------------------------------------
(* The work. *)

\* read() of the file adapter: a file that changes under it, or is not the
\* registered one, is an error.
ProjectionReadable(p) == ~terminated[p] /\ projection = Registered

\* loadApizzaFsqShadowHostComposition(): the manifest, the source policy and the
\* contract are valid or it throws; the projection is read in full.
Compose(p) ==
  /\ phase[p] = "composing"
  /\ \/ ProjectionReadable(p) /\ Goto(p, "preparing")
     \/ Throw(p)
  /\ UNCHANGED <<readerVars, lock, projection, writes, run, terminated, poolOpen,
                 stateOpen, lockFailed, kills>>

\* preparePrivateRuntimeRoot(), and the reader with its pool.
Prepare(p) ==
  /\ phase[p] = "preparing"
  /\ \/ /\ Goto(p, "starting")
        /\ poolOpen' = [poolOpen EXCEPT ![p] = TRUE]
     \/ Throw(p) /\ UNCHANGED poolOpen
  /\ UNCHANGED <<readerVars, lock, projection, writes, run, terminated, stateOpen,
                 lockFailed, kills>>

\* The run state store and the executor, which refuses an aborted signal.
BeginRun(p) ==
  /\ phase[p] = "starting"
  /\ \/ /\ ~terminated[p]
        /\ Goto(p, "projecting")
     \/ Throw(p)
  /\ stateOpen' = [stateOpen EXCEPT ![p] = TRUE]
  /\ UNCHANGED <<readerVars, lock, projection, writes, run, terminated, poolOpen,
                 lockFailed, kills>>

\* The first stage reads the projection again; the second begins its read.
Project(p) ==
  /\ phase[p] = "projecting"
  /\ \/ /\ ProjectionReadable(p)
        /\ BeginRead(p)
        /\ Goto(p, "canonical")
     \/ Throw(p) /\ UNCHANGED readerVars
  /\ UNCHANGED <<lock, projection, writes, run, terminated, poolOpen, stateOpen,
                 lockFailed, kills>>

\* The executor awaits the read, also one it has aborted.
Canonical(p) ==
  /\ phase[p] = "canonical"
  /\ \/ ReadSteps(p) /\ UNCHANGED phase
     \/ /\ stage[p] = "returned"
        /\ Goto(p, "matching")
        /\ UNCHANGED readerVars
     \/ /\ stage[p] = "failed"
        /\ Throw(p)
        /\ Drop(p)
  /\ UNCHANGED <<lock, projection, writes, run, terminated, poolOpen, stateOpen,
                 lockFailed, kills>>

\* The stages after the sources, and the terminal report.
Match(p) ==
  /\ phase[p] = "matching"
  /\ Goto(p, Cleanups[1])
  /\ Drop(p)
  /\ UNCHANGED <<lock, projection, writes, run, terminated, poolOpen, stateOpen,
                 lockFailed, kills>>

\* The time limit of the stage.
StageDeadline(p) ==
  /\ phase[p] = "canonical"
  /\ Abort(p)
  /\ UNCHANGED hostVars

\* SIGINT or SIGTERM, at any time: it aborts the signal of everything awaited.
Terminate(p) ==
  /\ ~Exited(p) /\ ~terminated[p]
  /\ terminated' = [terminated EXCEPT ![p] = TRUE]
  /\ IF aborted[p] THEN UNCHANGED readerVars ELSE Abort(p)
  /\ UNCHANGED <<lock, projection, writes, phase, run, poolOpen, stateOpen,
                 lockFailed, kills>>

-----------------------------------------------------------------------------
(* The cleanups. *)

Following(p) ==
  LET i == CHOOSE i \in DOMAIN Cleanups : Cleanups[i] = phase[p]
  IN IF i = Len(Cleanups) THEN "exited" ELSE Cleanups[i + 1]

\* A cleanup that throws is collected like one that ends, and the next one runs.  Of
\* the first two, end() and close() throw only when they were called before.
CleanupEnds(p) == Goto(p, Following(p))

\* pool.end() waits until no client is leased; its idle client is closed.
ClosePool(p) ==
  /\ phase[p] = "pool"
  /\ poolOpen[p] => connection[p] # "leased"
  /\ poolOpen' = [poolOpen EXCEPT ![p] = FALSE]
  /\ connection' = [connection EXCEPT ![p] = "none"]
  /\ CleanupEnds(p)
  /\ UNCHANGED <<view, commits, stage, aborted, snapshot, rows, seen,
                 lock, projection, writes, run, terminated, stateOpen, lockFailed, kills>>

CloseState(p) ==
  /\ phase[p] = "state"
  /\ stateOpen' = [stateOpen EXCEPT ![p] = FALSE]
  /\ CleanupEnds(p)
  /\ UNCHANGED <<readerVars, lock, projection, writes, run, terminated, poolOpen,
                 lockFailed, kills>>

\* release(), of a lock that was acquired: the file must still be its own; reading,
\* parsing or removing it may fail, which is collected.
ReleaseLock(p) ==
  /\ phase[p] = "lock"
  /\ \/ /\ lock' = IF lock = Mine(p) /\ ~lockFailed[p] THEN None ELSE lock
        /\ UNCHANGED lockFailed
     \/ /\ lock = Mine(p)
        /\ lockFailed' = [lockFailed EXCEPT ![p] = TRUE]
        /\ UNCHANGED lock
  /\ CleanupEnds(p)
  /\ aborted' = [aborted EXCEPT ![p] = FALSE]
  /\ terminated' = [terminated EXCEPT ![p] = FALSE]
  /\ UNCHANGED <<view, commits, stage, connection, snapshot, rows, seen, projection,
                 writes, run, poolOpen, stateOpen, kills>>

-----------------------------------------------------------------------------
(* What happens around the processes. *)

\* The process is killed; the server drops its connection.
Kill(p) ==
  /\ ~Exited(p) /\ kills < MaxKills
  /\ kills' = kills + 1
  /\ Goto(p, "down")
  /\ stage' = [stage EXCEPT ![p] = "idle"]
  /\ connection' = [connection EXCEPT ![p] = "none"]
  /\ snapshot' = [snapshot EXCEPT ![p] = {}]
  /\ poolOpen' = [poolOpen EXCEPT ![p] = FALSE]
  /\ stateOpen' = [stateOpen EXCEPT ![p] = FALSE]
  /\ rows' = [rows EXCEPT ![p] = <<>>]
  /\ seen' = [seen EXCEPT ![p] = {}]
  /\ aborted' = [aborted EXCEPT ![p] = FALSE]
  /\ terminated' = [terminated EXCEPT ![p] = FALSE]
  /\ UNCHANGED <<view, commits, lock, projection, writes, run, lockFailed>>

\* An operator removes the lock after making sure that its run is gone.
OperatorUnlocks ==
  /\ lock # None
  /\ LET p == lock.owner[1] IN Exited(p) \/ run[p] # lock.owner[2]
  /\ lock' = None
  /\ UNCHANGED <<readerVars, projection, writes, phase, run, terminated, poolOpen,
                 stateOpen, lockFailed, kills>>

\* A new release is projected into the file.
WriteProjection ==
  /\ writes < MaxWrites
  /\ writes' = writes + 1
  /\ projection' \in Contents \ {projection}
  /\ UNCHANGED <<readerVars, lock, phase, run, terminated, poolOpen, stateOpen,
                 lockFailed, kills>>

ProcStep(p) ==
  \/ Lock(p) \/ WriteLock(p) \/ Compose(p) \/ Prepare(p) \/ BeginRun(p) \/ Project(p)
  \/ Canonical(p) \/ Match(p) \/ ClosePool(p) \/ CloseState(p) \/ ReleaseLock(p)

Next ==
  \/ \E p \in Proc : Start(p) \/ ProcStep(p) \/ StageDeadline(p) \/ Terminate(p) \/ Kill(p)
  \/ \E p \in Proc : IdleClosed(p) /\ UNCHANGED hostVars
  \/ Commit /\ UNCHANGED hostVars
  \/ OperatorUnlocks \/ WriteProjection

Spec == Init /\ [][Next]_vars

\* The steps of a process go on: its awaits end, by an answer or a time limit.
FairSpec == Spec /\ \A p \in Proc : WF_vars(ProcStep(p))

-----------------------------------------------------------------------------
(* Properties. *)

UsesHost(p) ==
  phase[p] \in Working \cup {"canonical"} \/ poolOpen[p] \/ stateOpen[p]
  \/ connection[p] # "none"

\* The lock file names a process from before it reads the first manifest until the
\* last of its resources is closed, so that no two runs of the host overlap.  A process
\* that exits by itself, whatever failed in its work, leaves no lock, and hence no pool,
\* store or connection; unless what failed was writing the lock file or releasing it,
\* after which the file stays until an operator removes it.
LockCoversRun ==
  \A p \in Proc :
    /\ UsesHost(p) => lock = Mine(p)
    /\ phase[p] = "exited" /\ lock # None =>
         lockFailed[p] \/ lock.owner # <<p, run[p]>>

\* Every process that starts exits, whatever await it was told to terminate in: no
\* late connection is left for pool.end() to wait for.
ShadowSettles == \A p \in Proc : ~Exited(p) ~> Exited(p)
=============================================================================
