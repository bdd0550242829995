----------------------------- MODULE PreviewRun -----------------------------
(***************************************************************************)
(* The executor of preview and shadow runs (OrderedArtifactExecutor), the  *)
(* broker through which a stage's plugin reads and writes                  *)
(* (PreviewStageBroker), the registry of in-memory datasets and the        *)
(* filesystem artifact store.  Several processes share the run ledger and  *)
(* the artifact store; each runs one executor.                             *)
(*                                                                         *)
(* A plugin is any program that calls the broker: it may start operations  *)
(* without awaiting them, return, throw or never end.  Every await of the  *)
(* executor and of a broker operation is a point where the others proceed. *)
(* The broker takes new operations, and lets running ones pass their next  *)
(* check of the abort signal, exactly while the executor awaits the        *)
(* plugin: whatever ends that wait aborts the signal and closes the broker *)
(* in the same turn of the event loop.                                     *)
(***************************************************************************)
EXTENDS RunStateStore, FiniteSets

CONSTANTS
  Proc,         \* processes
  StageCount,   \* the stages are 1..StageCount, in the order of the definition
  Source,       \* the stages whose plugin has a source adapter
  Inputs,       \* [Stage -> Seq(Stage \X Port)]: the references of its inputs
  Declared,     \* [Stage -> SUBSET Port]: outputs of the plugin's manifest
  Required,     \* [Stage -> SUBSET Port]: those it must return
  Ephemeral,    \* SUBSET (Stage \X Port): outputs with artifactPolicy "forbidden"
  Content,      \* [Stage \X Port -> digests]: what the output serializes to
  StoreFaults,  \* TRUE if calls of the ledger may throw (SQLITE_BUSY, a full disk)
  MaxCrashes,   \* bound on the crashes of a behaviour
  None

ASSUME PreviewAssumption ==
  /\ StageCount \in Nat \ {0}
  /\ Stage = 1..StageCount
  /\ Inputs \in [Stage -> Seq(Stage \X Port)]
  /\ Declared \in [Stage -> SUBSET Port]
  /\ Ephemeral \subseteq Stage \X Port
  /\ StoreFaults \in BOOLEAN
  /\ MaxCrashes \in Nat
  /\ None \notin Run

VARIABLES
  pc,          \* where the executor is, "idle" when it has no run
  run,         \* its runId
  at,          \* its position in the stages
  attempt,     \* what beginStage() returned
  hostAborted, \* input.signal.aborted
  verdict,     \* how the plugin ended
  read,        \* the broker's read: a source's acquisition, an input being read
  out,         \* the broker's outputs: claimed, staged, finalized
  outputsByStage, \* outputs of the stages that completed
  ephemeral,   \* remainingConsumers of the registered ephemeral datasets
  staging,     \* staging/: a file per output of an attempt
  objects,     \* objects/: the digests
  manifests,   \* manifests/: each holds a timestamp, so it is one output's
  untracked,   \* the files of staging/ that #staged has no entry for
  crashes

vars == <<runs, attempts, pc, run, at, attempt, hostAborted, verdict, read, out,
          outputsByStage, ephemeral, staging, objects, manifests, untracked, crashes>>

files == <<staging, objects, manifests, untracked>>

\* next: between stages; admitting: awaits the free disk space; invoked: awaits the
\* plugin; closing: drains the broker; closed: settles the stage; failing: failRun().
Locations == {"idle", "next", "admitting", "invoked", "closing", "closed", "failing"}

\* "staging", "discarding", "committing", "linked" and "removing" are operations in
\* flight; a port that is no longer "free" is claimed.
InFlight == {"staging", "discarding", "committing", "linked", "removing"}
OutputStates == {"free", "staged", "finalized", "failed"} \cup InFlight

ReadStates == {"none", "reading", "open", "finalizing", "finalized", "failed"}

NoOutputs == [o \in Port |-> "free"]
NothingDone == [s \in Stage |-> {}]
NothingRegistered == [x \in Ephemeral |-> 0]
Threw == [ok |-> FALSE, outputs |-> {}]

Artifacts == Run \X Stage \X Port

TypeOK ==
  /\ StoreTypeOK
  /\ pc \in [Proc -> Locations]
  /\ run \in [Proc -> Run \cup {None}]
  /\ at \in [Proc -> Nat]
  /\ attempt \in [Proc -> Nat]
  /\ hostAborted \in [Proc -> BOOLEAN]
  /\ verdict \in [Proc -> [ok : BOOLEAN, outputs : SUBSET Port]]
  /\ read \in [Proc -> ReadStates]
  /\ out \in [Proc -> [Port -> OutputStates]]
  /\ outputsByStage \in [Proc -> [Stage -> SUBSET Port]]
  /\ ephemeral \in [Proc -> [Ephemeral -> Nat]]
  /\ staging \subseteq Artifacts
  /\ manifests \subseteq Artifacts
  /\ untracked \subseteq Artifacts
  /\ crashes \in Nat

Init ==
  /\ StoreInit
  /\ pc = [p \in Proc |-> "idle"]
  /\ run = [p \in Proc |-> None]
  /\ at = [p \in Proc |-> 0]
  /\ attempt = [p \in Proc |-> 0]
  /\ hostAborted = [p \in Proc |-> FALSE]
  /\ verdict = [p \in Proc |-> Threw]
  /\ read = [p \in Proc |-> "none"]
  /\ out = [p \in Proc |-> NoOutputs]
  /\ outputsByStage = [p \in Proc |-> NothingDone]
  /\ ephemeral = [p \in Proc |-> NothingRegistered]
  /\ staging = {} /\ objects = {} /\ manifests = {} /\ untracked = {}
  /\ crashes = 0

-----------------------------------------------------------------------------
(* The registry of ephemeral datasets. *)

PortsOf(s) == {<<s, i>> : i \in DOMAIN Inputs[s]}
InputPorts == UNION {PortsOf(s) : s \in Stage}

\* The references to output x by the stages from the given one on.
Consumers(x, from) ==
  Cardinality({u \in InputPorts : u[1] >= from /\ Inputs[u[1]][u[2]] = x})

References(s, x) == Cardinality({i \in DOMAIN Inputs[s] : Inputs[s][i] = x})

\* Mutant of Released: a dataset goes with its first consumer.
ReleasedAtOnce(registered, s) ==
  [x \in Ephemeral |-> IF References(s, x) > 0 THEN 0 ELSE registered[x]]

\* releaseConsumed(): a dataset whose count reaches 0 is dropped, and the next
\* reference to it is skipped.
Released(registered, s) ==
  [x \in Ephemeral |-> IF registered[x] > References(s, x)
                       THEN registered[x] - References(s, x) ELSE 0]

\* verifyDataset(): artifacts stay registered for the whole run.
Registered(p, x) == x \in Ephemeral => ephemeral[p][x] > 0

-----------------------------------------------------------------------------
(* The broker of the stage that process p is in. *)

Own(p, o) == <<run[p], at[p], o>>

\* The staged files that the store can still find.
Tracked == staging \ untracked

\* #assertOpen(), and throwIfAborted() of the artifact store.
Open(p) == pc[p] = "invoked"

\* Mutant of Busy: an operation counts from the staging of an output to its commit.
BusyUntilCommitted(p) ==
  read[p] = "reading" \/ \E o \in Port : out[p][o] \in InFlight \cup {"staged"}

\* #activeOperations > 0.
Busy(p) == read[p] = "reading" \/ \E o \in Port : out[p][o] \in InFlight

Finalized(p) == {o \in Port : out[p][o] = "finalized"}

MoveOutput(p, o, state) == out' = [out EXCEPT ![p][o] = state]

IfOpen(p, state, otherwise) == IF Open(p) THEN state ELSE otherwise

\* What the source's acquisition becomes with the output that is finalized from it.
MoveRead(p, state) ==
  read' = [read EXCEPT ![p] = IF at[p] \in Source THEN state ELSE @]

executor == <<pc, run, at, attempt, hostAborted, verdict, outputsByStage, crashes>>

\* acquire(), which its cumulative record bound grants once, and readDatasetJson().
StartRead(p) ==
  /\ Open(p)
  /\ read[p] = "none"
  /\ at[p] \notin Source => Inputs[at[p]] # << >>
  /\ read' = [read EXCEPT ![p] = "reading"]
  /\ UNCHANGED <<storeVars, executor, out, ephemeral, files>>

EndRead(p) ==
  /\ read[p] = "reading"
  /\ \E got \in BOOLEAN :
       read' = [read EXCEPT ![p] = IF at[p] \notin Source THEN "none"
                                   ELSE IF got /\ Open(p) THEN "open" ELSE "failed"]
  /\ UNCHANGED <<storeVars, executor, out, ephemeral, files>>

\* An output is claimed before anything else happens to it.
Claimable(p, o) ==
  /\ Open(p)
  /\ out[p][o] = "free"
  /\ o \in Declared[at[p]]
  /\ IF at[p] \in Source THEN read[p] = "open" ELSE Inputs[at[p]] # << >>

\* The payload's validator refuses it: the port stays claimed.
RejectOutput(p, o) ==
  /\ Claimable(p, o)
  /\ MoveOutput(p, o, "failed")
  /\ UNCHANGED <<storeVars, executor, read, ephemeral, files>>

\* #stageJson(), one at a time.
StageJson(p, o) ==
  /\ Claimable(p, o)
  /\ \A other \in Port : out[p][other] \notin {"staging", "discarding"}
  /\ MoveOutput(p, o, "staging")
  /\ UNCHANGED <<storeVars, executor, read, ephemeral, files>>

\* writeFile() ends; after an abort the file is removed again.
WriteStaged(p, o) ==
  /\ out[p][o] = "staging"
  /\ staging' = staging \cup {Own(p, o)}
  /\ MoveOutput(p, o, IfOpen(p, "staged", "discarding"))
  /\ UNCHANGED <<storeVars, executor, read, ephemeral, objects, manifests, untracked>>

\* recordMetadata() refuses a value with two arrays of records: the file is written, and
\* neither removed nor entered in #staged.
KeepUntracked(p, o) ==
  /\ Open(p)
  /\ out[p][o] = "staging"
  /\ staging' = staging \cup {Own(p, o)}
  /\ untracked' = untracked \cup {Own(p, o)}
  /\ MoveOutput(p, o, "failed")
  /\ UNCHANGED <<storeVars, executor, read, ephemeral, objects, manifests>>

RemoveWritten(p, o) ==
  /\ out[p][o] = "discarding"
  /\ staging' = staging \ {Own(p, o)}
  /\ MoveOutput(p, o, "failed")
  /\ UNCHANGED <<storeVars, executor, read, ephemeral, objects, manifests, untracked>>

\* finalizeSourceEphemeral(): the outputs that no stage consumes are refused.
FinalizeEphemeral(p, o) ==
  /\ Claimable(p, o)
  /\ at[p] \in Source
  /\ <<at[p], o>> \in Ephemeral
  /\ Consumers(<<at[p], o>>, 1) > 0
  /\ ephemeral' = [ephemeral EXCEPT ![p][<<at[p], o>>] = Consumers(<<at[p], o>>, 1)]
  /\ MoveOutput(p, o, "finalized")
  /\ read' = [read EXCEPT ![p] = "finalized"]
  /\ UNCHANGED <<storeVars, executor, files>>

\* finalizeSourceArtifactAndCommitAcquisition(), finalizeDerivedArtifact() and
\* commitStagedOutput() up to commitJson().
StartCommit(p, o) ==
  /\ Open(p)
  /\ out[p][o] = "staged"
  /\ <<at[p], o>> \notin Ephemeral
  /\ IF at[p] \in Source THEN read[p] = "open"
     ELSE \A i \in DOMAIN Inputs[at[p]] : Registered(p, Inputs[at[p]][i])
  /\ MoveOutput(p, o, "committing")
  /\ MoveRead(p, "finalizing")
  /\ UNCHANGED <<storeVars, executor, ephemeral, files>>

\* An output that must not be persisted is refused after the acquisition is marked,
\* outside of the try that would mark it failed.
RefuseForbidden(p, o) ==
  /\ Open(p)
  /\ out[p][o] = "staged"
  /\ <<at[p], o>> \in Ephemeral
  /\ at[p] \in Source
  /\ read[p] = "open"
  /\ read' = [read EXCEPT ![p] = "finalizing"]
  /\ UNCHANGED <<storeVars, executor, out, ephemeral, files>>

\* Mutant of LinkObject: the manifest is written before its object.
LinkManifestFirst(p, o) ==
  /\ out[p][o] = "committing"
  /\ manifests' = manifests \cup {Own(p, o)}
  /\ MoveOutput(p, o, IfOpen(p, "linked", "failed"))
  /\ UNCHANGED <<storeVars, executor, read, ephemeral, staging, objects, untracked>>

\* writeImmutable(objectPath): link(), or EEXIST and equal contents.  A link that is
\* under way when the signal fires still happens; the next check then throws.
LinkObject(p, o) ==
  /\ out[p][o] = "committing"
  /\ objects' = objects \cup {Content[<<at[p], o>>]}
  /\ MoveOutput(p, o, IfOpen(p, "linked", "failed"))
  /\ IF Open(p) THEN UNCHANGED read ELSE MoveRead(p, "failed")
  /\ UNCHANGED <<storeVars, executor, ephemeral, staging, manifests, untracked>>

LinkManifest(p, o) ==
  /\ out[p][o] = "linked"
  /\ manifests' = manifests \cup {Own(p, o)}
  /\ MoveOutput(p, o, IfOpen(p, "removing", "failed"))
  /\ IF Open(p) THEN UNCHANGED read ELSE MoveRead(p, "failed")
  /\ UNCHANGED <<storeVars, executor, ephemeral, staging, objects, untracked>>

\* rm(entry.path), then register() unless the stage has ended meanwhile.
RemoveStaged(p, o) ==
  /\ out[p][o] = "removing"
  /\ staging' = staging \ {Own(p, o)}
  /\ MoveOutput(p, o, IfOpen(p, "finalized", "failed"))
  /\ MoveRead(p, IfOpen(p, "finalized", "failed"))
  /\ UNCHANGED <<storeVars, executor, ephemeral, objects, manifests, untracked>>

\* An I/O error, a limit that is exceeded, or a check of the fired signal.  A failed
\* commit leaves its staged file to the drain.
FailOutput(p, o) ==
  /\ out[p][o] \in {"staging", "committing", "linked", "removing"}
  /\ MoveOutput(p, o, "failed")
  /\ IF out[p][o] = "staging" THEN UNCHANGED read ELSE MoveRead(p, "failed")
  /\ UNCHANGED <<storeVars, executor, ephemeral, files>>

Operation(p) ==
  \/ EndRead(p)
  \/ \E o \in Port : \/ WriteStaged(p, o) \/ KeepUntracked(p, o) \/ RemoveWritten(p, o)
                     \/ LinkObject(p, o) \/ LinkManifest(p, o)
                     \/ RemoveStaged(p, o) \/ FailOutput(p, o)

PluginCall(p) ==
  \/ StartRead(p)
  \/ \E o \in Port : \/ RejectOutput(p, o) \/ StageJson(p, o) \/ FinalizeEphemeral(p, o)
                     \/ StartCommit(p, o) \/ RefuseForbidden(p, o)

-----------------------------------------------------------------------------
(* The executor. *)

broker == <<read, out>>

\* Everything in memory goes with the run: clearEphemeral() in its finally, or the
\* process in a crash.
Leave(p) ==
  /\ pc' = [pc EXCEPT ![p] = "idle"]
  /\ run' = [run EXCEPT ![p] = None]
  /\ at' = [at EXCEPT ![p] = 0]
  /\ attempt' = [attempt EXCEPT ![p] = 0]
  /\ hostAborted' = [hostAborted EXCEPT ![p] = FALSE]
  /\ verdict' = [verdict EXCEPT ![p] = Threw]
  /\ read' = [read EXCEPT ![p] = "none"]
  /\ out' = [out EXCEPT ![p] = NoOutputs]
  /\ outputsByStage' = [outputsByStage EXCEPT ![p] = NothingDone]
  /\ ephemeral' = [ephemeral EXCEPT ![p] = NothingRegistered]

Goto(p, location) == pc' = [pc EXCEPT ![p] = location]

\* A runId that has a row makes beginRun() throw: the executor leaves at once.
StartRun(p, r) ==
  /\ pc[p] = "idle"
  /\ beginRun(r)
  /\ Goto(p, "next")
  /\ run' = [run EXCEPT ![p] = r]
  /\ at' = [at EXCEPT ![p] = 1]
  /\ UNCHANGED <<attempt, hostAborted, verdict, broker, outputsByStage, ephemeral,
                 files, crashes>>

Resolved(p, s) == \A i \in DOMAIN Inputs[s] :
                    Inputs[s][i][2] \in outputsByStage[p][Inputs[s][i][1]]

\* The abort check and the inputs, then the await of the free disk space.
EnterStage(p) ==
  /\ pc[p] = "next"
  /\ at[p] \in Stage
  /\ Goto(p, IF ~ hostAborted[p] /\ Resolved(p, at[p]) THEN "admitting" ELSE "failing")
  /\ UNCHANGED <<storeVars, run, at, attempt, hostAborted, verdict, broker,
                 outputsByStage, ephemeral, files, crashes>>

\* evaluateAdmission() refuses, or beginStage() throws.
RefuseStage(p) ==
  /\ pc[p] = "admitting"
  /\ Goto(p, "failing")
  /\ UNCHANGED <<storeVars, run, at, attempt, hostAborted, verdict, broker,
                 outputsByStage, ephemeral, files, crashes>>

\* Mutant of Invoked: a signal that fired before abortFromHost() listens is missed.
InvokedAnyway(p) == "invoked"

\* After a signal that fired during the await the plugin is still called, but the broker
\* refuses each of its calls.
Invoked(p) == IF hostAborted[p] THEN "closing" ELSE "invoked"

BeginStage(p) ==
  /\ pc[p] = "admitting"
  /\ beginStage(run[p], at[p])
  /\ attempt' = [attempt EXCEPT ![p] = Len(attempts[run[p]][at[p]]) + 1]
  /\ Goto(p, Invoked(p))
  /\ verdict' = [verdict EXCEPT ![p] = Threw]
  /\ read' = [read EXCEPT ![p] = "none"]
  /\ out' = [out EXCEPT ![p] = NoOutputs]
  /\ UNCHANGED <<run, at, hostAborted, outputsByStage, ephemeral, files, crashes>>

EndsWith(p, outputs) == [ok |-> ~ Busy(p), outputs |-> outputs]

\* The plugin resolves with some of the outputs it finalized; close() then rejects it
\* if it left an operation unawaited.
PluginReturns(p) ==
  /\ pc[p] = "invoked"
  /\ \E outputs \in SUBSET Finalized(p) :
       verdict' = [verdict EXCEPT ![p] = EndsWith(p, outputs)]
  /\ Goto(p, "closing")
  /\ UNCHANGED <<storeVars, run, at, attempt, hostAborted, broker, outputsByStage,
                 ephemeral, files, crashes>>

\* The timer fires.  A plugin that rejects, or whose result is invalid for a reason
\* that is not modelled, ends its stage in the same way.
TimeOut(p) ==
  /\ pc[p] = "invoked"
  /\ Goto(p, "closing")
  /\ UNCHANGED <<storeVars, run, at, attempt, hostAborted, verdict, broker,
                 outputsByStage, ephemeral, files, crashes>>

AbortRun(p) ==
  /\ pc[p] # "idle"
  /\ ~ hostAborted[p]
  /\ hostAborted' = [hostAborted EXCEPT ![p] = TRUE]
  /\ Goto(p, IF pc[p] = "invoked" THEN "closing" ELSE pc[p])
  /\ UNCHANGED <<storeVars, run, at, attempt, verdict, broker, outputsByStage,
                 ephemeral, files, crashes>>

Drained(p) == ~ Busy(p)

\* Mutant of Unfinalized: only what is still open is discarded.
StillOpen(p) == {Own(p, o) : o \in {x \in Port : out[p][x] = "staged"}}

\* discard() finds its file by the entry.
Unfinalized(p) == {Own(p, o) : o \in Port \ Finalized(p)} \ untracked

\* #close(): what is staged and not finalized is discarded.
CloseBroker(p) ==
  /\ pc[p] = "closing"
  /\ Drained(p)
  /\ staging' = staging \ Unfinalized(p)
  /\ Goto(p, "closed")
  /\ UNCHANGED <<storeVars, run, at, attempt, hostAborted, verdict, broker,
                 outputsByStage, ephemeral, objects, manifests, untracked, crashes>>

\* #validateResult(): the result is the finalized outputs, the required among them.
Valid(p) == /\ verdict[p].ok
            /\ verdict[p].outputs = Finalized(p)
            /\ Required[at[p]] \subseteq verdict[p].outputs

CompleteStage(p) ==
  /\ pc[p] = "closed"
  /\ Valid(p)
  /\ completeStage(run[p], at[p], attempt[p], verdict[p].outputs)
  /\ outputsByStage' = [outputsByStage EXCEPT ![p][at[p]] = verdict[p].outputs]
  /\ ephemeral' = [ephemeral EXCEPT ![p] = Released(@, at[p])]
  /\ at' = [at EXCEPT ![p] = @ + 1]
  /\ Goto(p, "next")
  /\ UNCHANGED <<run, attempt, hostAborted, verdict, broker, files, crashes>>

\* The stage's error is thrown again.
AfterFailure == "failing"

\* The result is refused, or completeStage() throws; failStage() may throw as well.
FailStage(p) ==
  /\ pc[p] = "closed"
  /\ ~ Valid(p) \/ StoreFaults
  /\ \/ failStage(run[p], at[p], attempt[p])
     \/ StoreFaults /\ UNCHANGED storeVars
  /\ ephemeral' = [ephemeral EXCEPT ![p] = Released(@, at[p])]
  /\ Goto(p, AfterFailure)
  /\ UNCHANGED <<run, at, attempt, hostAborted, verdict, broker, outputsByStage,
                 files, crashes>>

CompleteRun(p) ==
  /\ pc[p] = "next"
  /\ at[p] = StageCount + 1
  /\ completeRun(run[p], Stage)
  /\ Leave(p)
  /\ UNCHANGED <<files, crashes>>

CompleteRunThrows(p) ==
  /\ StoreFaults
  /\ pc[p] = "next"
  /\ at[p] = StageCount + 1
  /\ Goto(p, "failing")
  /\ UNCHANGED <<storeVars, run, at, attempt, hostAborted, verdict, broker,
                 outputsByStage, ephemeral, files, crashes>>

\* The outer catch; when failRun() throws the run keeps its status "running".
FailRun(p) ==
  /\ pc[p] = "failing"
  /\ \/ failRun(run[p])
     \/ StoreFaults /\ UNCHANGED storeVars
  /\ Leave(p)
  /\ UNCHANGED <<files, crashes>>

\* The process dies and is started again: nothing looks at the runs it left.
Crash(p) ==
  /\ pc[p] # "idle"
  /\ crashes < MaxCrashes
  /\ crashes' = crashes + 1
  /\ Leave(p)
  /\ UNCHANGED <<storeVars, files>>

Executor(p) ==
  \/ EnterStage(p) \/ RefuseStage(p) \/ BeginStage(p)
  \/ TimeOut(p) \/ CloseBroker(p)
  \/ CompleteStage(p) \/ FailStage(p)
  \/ CompleteRun(p) \/ CompleteRunThrows(p) \/ FailRun(p)

Environment(p) == \/ PluginReturns(p) \/ AbortRun(p) \/ Crash(p)
                  \/ \E r \in Run : StartRun(p, r)

Next == \E p \in Proc : Executor(p) \/ Operation(p) \/ PluginCall(p) \/ Environment(p)

Spec == Init /\ [][Next]_vars

\* Timers fire and the event loop runs every step of the executor that is ready; a
\* broker operation ends, as the readers and the file system see to.  The plugin owes
\* nothing, and no one has to start a run.
FairSpec == Spec /\ \A p \in Proc : WF_vars(Executor(p)) /\ WF_vars(Operation(p))

-----------------------------------------------------------------------------
(* Properties. *)

\* Whatever is published is whole: a manifest has its object, and each persistent
\* output that the ledger records for a succeeded stage has its manifest, although
\* ledger and file system are written at different times and a crash, a timeout or an
\* abort may come at any point of commitJson().
ArtifactsBacked ==
  /\ \A m \in manifests : Content[<<m[2], m[3]>>] \in objects
  /\ \A r \in Run, s \in Stage : \A n \in DOMAIN attempts[r][s] :
       attempts[r][s][n].status = "succeeded" =>
         \A o \in attempts[r][s][n].outputs :
           <<s, o>> \in Ephemeral \/ <<r, s, o>> \in manifests

\* The broker is drained before the ledger is told: no file is staged, no object or
\* manifest appears for an attempt that the ledger has settled or never saw, however
\* late an operation that the plugin left behind ends.
WritesWhileRunning == [][
  /\ \A a \in (staging' \cup manifests') \ (staging \cup manifests) :
       RunningIn(attempts[a[1]][a[2]])
  /\ objects' # objects => \E p \in Proc : run[p] # None /\ at[p] \in Stage
                                           /\ RunningIn(attempts[run[p]][at[p]])]_vars

\* A settled attempt left no file in staging/ that the store knows of, whether it
\* succeeded, failed, timed out or was aborted, and even if the ledger refused its first
\* report: what a crash leaves there belongs to an attempt that the ledger still shows as
\* running.  A file whose value recordMetadata() refused is not known to the store, and
\* stays whatever the attempt becomes.
SettledStageIsClean == \A a \in Tracked : RunningIn(attempts[a[1]][a[2]])

\* A stage is attempted once, and only after all the stages before it succeeded; a run
\* that succeeded attempted them all.
StagesInOrder == \A r \in Run, s \in Stage :
  /\ Len(attempts[r][s]) <= 1
  /\ attempts[r][s] # << >> => \A t \in Stage : t < s => Succeeded(r, t)
  /\ runs[r] = "succeeded" => Succeeded(r, s)

\* An in-memory dataset lives exactly as long as a stage needs it: while a run goes on,
\* the count of each one that a completed stage handed over is the number of references
\* the remaining stages make to it, so that none is dropped before its last consumer and
\* none outlives it, nor the run.
RegistryExact == \A p \in Proc :
  /\ pc[p] \in {"next", "admitting", "invoked", "closing", "closed"} =>
       \A x \in Ephemeral : x[2] \in outputsByStage[p][x[1]] =>
                              ephemeral[p][x] = Consumers(x, at[p])
  /\ pc[p] = "idle" => ephemeral[p] = NothingRegistered

\* The broker serves no plugin of a run that was aborted, also when the signal fired while
\* the executor was waiting for the free disk space, before it listened to the signal.
AbortedRunIsNotServed == \A p \in Proc : pc[p] = "invoked" => ~ hostAborted[p]

\* Every run is settled, unless its process dies or the ledger refuses the last word on
\* it: a plugin that hangs is timed out, and what it left in flight is waited for.
RunSettles ==
  \A r \in Run : runs[r] = "running" ~> runs[r] \in Settled \/ \A p \in Proc : run[p] # r
=============================================================================
