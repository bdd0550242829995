---------------------------- MODULE RunStateStore ----------------------------
(***************************************************************************)
(* The ledger of pipeline runs (class SqliteRunStateStore): its tables     *)
(* "runs" and "stage_attempts", one action per call that writes them.      *)
(* Each call is one statement or one BEGIN IMMEDIATE transaction; a call   *)
(* that throws rolls back and changes nothing, so it is no action.         *)
(* StoreNext is a client that makes any call at any time; PreviewRun       *)
(* restricts it to the executor.  Checkpoints are not modelled: no run     *)
(* writes them.                                                            *)
(***************************************************************************)
EXTENDS Naturals, Sequences

CONSTANTS
  Run,     \* run ids
  Stage,   \* stage ids of the pipeline
  Port     \* output ports, the keys of outputs_json

VARIABLES
  runs,      \* runs.status, "absent" for an id without a row
  attempts   \* the attempts of each stage of each run, attempt n at index n

storeVars == <<runs, attempts>>

Settled == {"succeeded", "failed"}
Attempt == [status : {"running"} \cup Settled, outputs : SUBSET Port]
Started == [status |-> "running", outputs |-> {}]

StoreTypeOK ==
  /\ runs \in [Run -> {"absent", "running"} \cup Settled]
  /\ attempts \in [Run -> [Stage -> Seq(Attempt)]]

StoreInit == /\ runs = [r \in Run |-> "absent"]
             /\ attempts = [r \in Run |-> [s \in Stage |-> << >>]]

RunningIn(tries) == \E n \in DOMAIN tries : tries[n].status = "running"

\* The latest attempt of the stage succeeded.
Succeeded(r, s) ==
  attempts[r][s] # << >> /\ attempts[r][s][Len(attempts[r][s])].status = "succeeded"

-----------------------------------------------------------------------------
\* INSERT INTO runs: run_id is the primary key.
beginRun(r) == /\ runs[r] = "absent"
               /\ runs' = [runs EXCEPT ![r] = "running"]
               /\ UNCHANGED attempts

beginStage(r, s) ==
  /\ runs[r] = "running"
  /\ ~ RunningIn(attempts[r][s])
  /\ attempts' = [attempts EXCEPT ![r][s] = Append(@, Started)]
  /\ UNCHANGED runs

\* The UPDATE of completeStage() and failStage(): only of a running attempt.
Settle(r, s, n, row) ==
  /\ n \in DOMAIN attempts[r][s]
  /\ attempts[r][s][n].status = "running"
  /\ attempts' = [attempts EXCEPT ![r][s][n] = row]
  /\ UNCHANGED runs

completeStage(r, s, n, outputs) ==
  Settle(r, s, n, [status |-> "succeeded", outputs |-> outputs])

failStage(r, s, n) == Settle(r, s, n, [Started EXCEPT !.status = "failed"])

completeRun(r, expected) ==
  /\ runs[r] = "running"
  /\ {s \in Stage : attempts[r][s] # << >>} = expected
  /\ \A s \in expected : Succeeded(r, s)
  /\ runs' = [runs EXCEPT ![r] = "succeeded"]
  /\ UNCHANGED attempts

\* Mutant of Swept: the attempts are left as they are.
NotSwept(tries) == tries

\* UPDATE stage_attempts SET status = 'failed' WHERE status = 'running'.
Swept(tries) == [n \in DOMAIN tries |->
                   IF tries[n].status = "running" THEN [tries[n] EXCEPT !.status = "failed"]
                   ELSE tries[n]]

failRun(r) ==
  /\ runs[r] = "running"
  /\ runs' = [runs EXCEPT ![r] = "failed"]
  /\ attempts' = [attempts EXCEPT ![r] = [s \in Stage |-> Swept(@[s])]]

StoreNext == \E r \in Run :
  \/ beginRun(r)
  \/ failRun(r)
  \/ \E expected \in SUBSET Stage : completeRun(r, expected)
  \/ \E s \in Stage :
       \/ beginStage(r, s)
       \/ \E n \in DOMAIN attempts[r][s] :
            \/ failStage(r, s, n)
            \/ \E outputs \in SUBSET Port : completeStage(r, s, n, outputs)

StoreSpec == StoreInit /\ [][StoreNext]_storeVars

-----------------------------------------------------------------------------
\* A settled run has no attempt still running, and every stage of a run that
\* succeeded and was attempted at all ended in success: completeRun() reads the
\* latest attempts, failRun() sweeps the running ones, and no call opens an
\* attempt in a settled run.
LedgerConsistent == \A r \in Run :
  /\ runs[r] \in Settled => \A s \in Stage : ~ RunningIn(attempts[r][s])
  /\ runs[r] = "succeeded" => \A s \in Stage : attempts[r][s] # << >> => Succeeded(r, s)

\* What the ledger says of a settled run it says for good, and no attempt that
\* settled is reopened or rewritten, whoever calls the store and however late.
LedgerIsFinal == [][\A r \in Run :
  /\ runs[r] \in Settled => runs'[r] = runs[r] /\ attempts'[r] = attempts[r]
  /\ \A s \in Stage : \A n \in DOMAIN attempts[r][s] :
       attempts[r][s][n].status # "running" =>
         n \in DOMAIN attempts'[r][s] /\ attempts'[r][s][n] = attempts[r][s][n]]_storeVars
=============================================================================
