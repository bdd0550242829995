-------------------------- MODULE PreviewRunProofs --------------------------
(***************************************************************************)
(* The ledger keeps its promises to every client, whatever calls it makes  *)
(* in whatever order.  The executor uses the ledger by its calls only, so  *)
(* that the theorems about the ledger hold of it; stages are attempted in  *)
(* order and once; and ledger and artifact store agree at every instant,   *)
(* however many processes and stages there are, whatever plugins do,       *)
(* wherever a process crashes and whichever calls of the ledger throw.     *)
(***************************************************************************)
EXTENDS PreviewRun, SequenceTheorems, FiniteSetTheorems, TLAPS

-----------------------------------------------------------------------------
(* The ledger: nothing is assumed of its client. *)

LEMMA StoreTypeInitially == StoreInit => StoreTypeOK
  BY DEF StoreInit, StoreTypeOK

\* A call settles a running attempt, opens one, or sweeps a run's: in every case it
\* keeps the types and what is settled.
LEMMA Appended ==
  ASSUME StoreTypeOK, NEW r \in Run, NEW s \in Stage, beginStage(r, s)
  PROVE  /\ Append(attempts[r][s], Started) \in Seq(Attempt)
         /\ attempts'[r][s] = Append(attempts[r][s], Started)
         /\ attempts' \in [Run -> [Stage -> Seq(Attempt)]]
         /\ \A t \in Run, u \in Stage : t # r \/ u # s => attempts'[t][u] = attempts[t][u]
<1>1. attempts[r][s] \in Seq(Attempt) /\ Started \in Attempt
  BY DEF StoreTypeOK, Started, Attempt
<1>2. Append(attempts[r][s], Started) \in Seq(Attempt)
  BY <1>1, AppendProperties
<1>3. attempts' = [attempts EXCEPT ![r][s] = Append(attempts[r][s], Started)]
  BY DEF beginStage, StoreTypeOK
<1>4. PICK tries \in Seq(Attempt) : tries = Append(attempts[r][s], Started)
  BY <1>2
<1>5. /\ attempts' \in [Run -> [Stage -> Seq(Attempt)]]
      /\ attempts'[r][s] = tries
      /\ \A t \in Run, u \in Stage : t # r \/ u # s => attempts'[t][u] = attempts[t][u]
  <2>1. attempts' = [attempts EXCEPT ![r][s] = tries]
    BY <1>3, <1>4
  <2> QED
    BY <2>1 DEF StoreTypeOK
<1> QED
  BY <1>4, <1>5

LEMMA SettledOne ==
  ASSUME StoreTypeOK, NEW r \in Run, NEW s \in Stage, NEW n \in DOMAIN attempts[r][s],
         NEW row \in Attempt, Settle(r, s, n, row)
  PROVE  /\ attempts'[r][s] = [attempts[r][s] EXCEPT ![n] = row]
         /\ attempts'[r][s] \in Seq(Attempt)
         /\ Len(attempts'[r][s]) = Len(attempts[r][s])
         /\ DOMAIN attempts'[r][s] = DOMAIN attempts[r][s]
         /\ attempts' \in [Run -> [Stage -> Seq(Attempt)]]
         /\ \A t \in Run, u \in Stage : t # r \/ u # s => attempts'[t][u] = attempts[t][u]
<1>1. attempts[r][s] \in Seq(Attempt) /\ n \in 1..Len(attempts[r][s])
  BY DEF StoreTypeOK, Settle
<1>2. /\ [attempts[r][s] EXCEPT ![n] = row] \in Seq(Attempt)
      /\ Len([attempts[r][s] EXCEPT ![n] = row]) = Len(attempts[r][s])
  BY <1>1, ExceptSeq
<1>3. attempts' = [attempts EXCEPT ![r][s] = [attempts[r][s] EXCEPT ![n] = row]]
  BY DEF Settle, StoreTypeOK
<1>4. /\ attempts'[r][s] = [attempts[r][s] EXCEPT ![n] = row]
      /\ attempts' \in [Run -> [Stage -> Seq(Attempt)]]
      /\ \A t \in Run, u \in Stage : t # r \/ u # s => attempts'[t][u] = attempts[t][u]
  <2>1. PICK tries \in Seq(Attempt) : tries = [attempts[r][s] EXCEPT ![n] = row]
    BY <1>2
  <2>2. attempts' = [attempts EXCEPT ![r][s] = tries]
    BY <1>3, <2>1
  <2>3. /\ attempts'[r][s] = tries
        /\ attempts' \in [Run -> [Stage -> Seq(Attempt)]]
        /\ \A t \in Run, u \in Stage : t # r \/ u # s => attempts'[t][u] = attempts[t][u]
    BY <2>2 DEF StoreTypeOK
  <2> QED
    BY <2>1, <2>3
<1> QED
  BY <1>2, <1>4

LEMMA SweptTries ==
  ASSUME NEW tries \in Seq(Attempt)
  PROVE  /\ Swept(tries) \in Seq(Attempt)
         /\ Len(Swept(tries)) = Len(tries)
         /\ DOMAIN Swept(tries) = DOMAIN tries
         /\ ~ RunningIn(Swept(tries))
         /\ \A n \in DOMAIN tries : tries[n].status # "running" => Swept(tries)[n] = tries[n]
<1>0. /\ DOMAIN tries = 1..Len(tries)
      /\ \A n \in 1..Len(tries) : tries[n] \in Attempt
  OBVIOUS
<1>1. Swept(tries) \in [1..Len(tries) -> Attempt]
  <2>1. ASSUME NEW a \in Attempt PROVE [a EXCEPT !.status = "failed"] \in Attempt
    BY DEF Attempt, Settled
  <2> QED
    BY <1>0, <2>1 DEF Swept
<1>2. Len(tries) \in Nat
  OBVIOUS
<1>3. Swept(tries) \in Seq(Attempt) /\ Len(Swept(tries)) = Len(tries)
  BY <1>1, <1>2, SeqDef, LenProperties
<1>4. DOMAIN Swept(tries) = DOMAIN tries
  BY DEF Swept
<1>5. ASSUME NEW n \in DOMAIN tries
      PROVE  /\ Swept(tries)[n].status # "running"
             /\ tries[n].status # "running" => Swept(tries)[n] = tries[n]
  BY DEF Swept, Attempt
<1> QED
  BY <1>3, <1>4, <1>5 DEF RunningIn

LEMMA SweptRun ==
  ASSUME StoreTypeOK, NEW r \in Run, failRun(r)
  PROVE  /\ attempts' \in [Run -> [Stage -> Seq(Attempt)]]
         /\ \A s \in Stage : attempts'[r][s] = Swept(attempts[r][s])
         /\ \A t \in Run : t # r => attempts'[t] = attempts[t]
<1>1. attempts' = [attempts EXCEPT ![r] = [s \in Stage |-> Swept(attempts[r][s])]]
  BY DEF failRun, StoreTypeOK
<1>2. \A s \in Stage : Swept(attempts[r][s]) \in Seq(Attempt)
  BY SweptTries DEF StoreTypeOK
<1> QED
  BY <1>1, <1>2 DEF StoreTypeOK

LEMMA StoreTypeStep == StoreTypeOK /\ [StoreNext]_storeVars => StoreTypeOK'
<1> SUFFICES ASSUME StoreTypeOK, [StoreNext]_storeVars PROVE StoreTypeOK'
  OBVIOUS
<1>1. CASE UNCHANGED storeVars
  BY <1>1 DEF StoreTypeOK, storeVars
<1>2. ASSUME NEW r \in Run, beginRun(r) PROVE StoreTypeOK'
  BY <1>2 DEF beginRun, StoreTypeOK
<1>3. ASSUME NEW r \in Run, failRun(r) PROVE StoreTypeOK'
  BY <1>3, SweptRun DEF failRun, StoreTypeOK, Settled
<1>4. ASSUME NEW r \in Run, NEW expected \in SUBSET Stage, completeRun(r, expected)
      PROVE StoreTypeOK'
  BY <1>4 DEF completeRun, StoreTypeOK, Settled
<1>5. ASSUME NEW r \in Run, NEW s \in Stage, beginStage(r, s) PROVE StoreTypeOK'
  BY <1>5, Appended DEF beginStage, StoreTypeOK
<1>6. ASSUME NEW r \in Run, NEW s \in Stage, NEW n \in DOMAIN attempts[r][s],
             NEW row \in Attempt, Settle(r, s, n, row)
      PROVE StoreTypeOK'
  BY <1>6, SettledOne DEF Settle, StoreTypeOK
<1>7. \A outputs \in SUBSET Port : [status |-> "succeeded", outputs |-> outputs] \in Attempt
  BY DEF Attempt, Settled
<1>8. [Started EXCEPT !.status = "failed"] \in Attempt
  BY DEF Attempt, Settled, Started
<1> QED
  BY <1>1, <1>2, <1>3, <1>4, <1>5, <1>6, <1>7, <1>8 DEF StoreNext, completeStage, failStage

\* Every row of the ledger keeps its type, for any client.
THEOREM LedgerTypeCorrect == StoreSpec => []StoreTypeOK
<1> QED
  BY StoreTypeInitially, StoreTypeStep, PTL DEF StoreSpec

-----------------------------------------------------------------------------
\* completeRun() reads the latest attempt of a stage only; what makes that enough is
\* that no earlier one can still be running.
OnlyLatestRuns == \A r \in Run, s \in Stage : \A n \in DOMAIN attempts[r][s] :
  attempts[r][s][n].status = "running" => n = Len(attempts[r][s])

LedgerInv == StoreTypeOK /\ OnlyLatestRuns /\ LedgerConsistent

LEMMA LedgerInitially == StoreInit => LedgerInv
<1> SUFFICES ASSUME StoreInit PROVE OnlyLatestRuns /\ LedgerConsistent
  BY StoreTypeInitially DEF LedgerInv
<1>1. \A r \in Run, s \in Stage : attempts[r][s] = << >> /\ runs[r] = "absent"
  BY DEF StoreInit
<1> QED
  BY <1>1 DEF OnlyLatestRuns, LedgerConsistent, Settled, RunningIn, Succeeded

LEMMA BeginStageStep ==
  ASSUME LedgerInv, NEW r \in Run, NEW s \in Stage, beginStage(r, s)
  PROVE  OnlyLatestRuns' /\ LedgerConsistent'
<1> USE DEF LedgerInv
<1>1. /\ attempts'[r][s] = Append(attempts[r][s], Started)
      /\ \A t \in Run, u \in Stage : t # r \/ u # s => attempts'[t][u] = attempts[t][u]
  BY Appended
<1>2. attempts[r][s] \in Seq(Attempt)
  BY DEF StoreTypeOK
<1>3. \A n \in DOMAIN attempts'[r][s] : attempts'[r][s][n].status = "running" =>
                                          n = Len(attempts'[r][s])
  BY <1>1, <1>2 DEF beginStage, RunningIn
<1>4. runs' = runs /\ runs[r] = "running"
  BY DEF beginStage
<1>5. OnlyLatestRuns'
  BY <1>1, <1>3 DEF OnlyLatestRuns
<1>6. \A t \in Run : t # r => \A u \in Stage : attempts'[t][u] = attempts[t][u]
  BY <1>1
<1>7. LedgerConsistent'
  BY <1>4, <1>6 DEF LedgerConsistent, Succeeded, Settled
<1> QED
  BY <1>5, <1>7

LEMMA SettleStep ==
  ASSUME LedgerInv, NEW r \in Run, NEW s \in Stage, NEW n \in DOMAIN attempts[r][s], NEW row \in Attempt,
         row.status # "running", Settle(r, s, n, row)
  PROVE  OnlyLatestRuns' /\ LedgerConsistent'
<1> USE DEF LedgerInv
<1>1. /\ attempts'[r][s] = [attempts[r][s] EXCEPT ![n] = row]
      /\ Len(attempts'[r][s]) = Len(attempts[r][s])
      /\ DOMAIN attempts'[r][s] = DOMAIN attempts[r][s]
      /\ \A t \in Run, u \in Stage : t # r \/ u # s => attempts'[t][u] = attempts[t][u]
  BY SettledOne
<1>2. \A m \in DOMAIN attempts[r][s] : attempts'[r][s][m].status = "running" =>
                                         attempts[r][s][m].status = "running"
  BY <1>1
<1>3. runs' = runs /\ runs[r] \notin Settled
  BY DEF Settle, LedgerConsistent, RunningIn
<1>4. OnlyLatestRuns'
  BY <1>1, <1>2 DEF OnlyLatestRuns
<1>5. \A t \in Run : t # r => \A u \in Stage : attempts'[t][u] = attempts[t][u]
  BY <1>1
<1>6. LedgerConsistent'
  BY <1>3, <1>5 DEF LedgerConsistent, Succeeded, Settled
<1> QED
  BY <1>4, <1>6

LEMMA LedgerStep == LedgerInv /\ [StoreNext]_storeVars => LedgerInv'
<1> SUFFICES ASSUME LedgerInv, [StoreNext]_storeVars
             PROVE  OnlyLatestRuns' /\ LedgerConsistent'
  BY StoreTypeStep DEF LedgerInv
<1> USE DEF LedgerInv
<1>1. CASE UNCHANGED storeVars
  BY <1>1 DEF OnlyLatestRuns, LedgerConsistent, storeVars, Succeeded
<1>2. ASSUME NEW r \in Run, beginRun(r) PROVE OnlyLatestRuns' /\ LedgerConsistent'
  BY <1>2 DEF beginRun, StoreTypeOK, OnlyLatestRuns, LedgerConsistent, Succeeded, Settled
<1>3. ASSUME NEW r \in Run, failRun(r) PROVE OnlyLatestRuns' /\ LedgerConsistent'
  <2>1. \A t \in Run : t # r => attempts'[t] = attempts[t] /\ runs'[t] = runs[t]
    BY <1>3, SweptRun DEF failRun, StoreTypeOK
  <2>2. runs'[r] = "failed" /\ \A s \in Stage : ~ RunningIn(attempts'[r][s])
    BY <1>3, SweptRun, SweptTries DEF failRun, StoreTypeOK
  <2> QED
    BY <2>1, <2>2 DEF OnlyLatestRuns, LedgerConsistent, Succeeded, RunningIn
<1>4. ASSUME NEW r \in Run, NEW expected \in SUBSET Stage, completeRun(r, expected)
      PROVE OnlyLatestRuns' /\ LedgerConsistent'
  <2>1. attempts' = attempts /\ \A t \in Run : t # r => runs'[t] = runs[t]
    BY <1>4 DEF completeRun, StoreTypeOK
  <2>2. \A s \in Stage : attempts[r][s] # << >> => Succeeded(r, s)
    BY <1>4 DEF completeRun
  <2>3. \A s \in Stage : ~ RunningIn(attempts[r][s])
    <3> SUFFICES ASSUME NEW s \in Stage, RunningIn(attempts[r][s]) PROVE FALSE
      OBVIOUS
    <3>1. attempts[r][s] \in Seq(Attempt) /\ attempts[r][s] # << >>
      BY DEF StoreTypeOK, RunningIn
    <3>2. attempts[r][s][Len(attempts[r][s])].status = "running"
      BY DEF OnlyLatestRuns, RunningIn
    <3> QED
      BY <2>2, <3>1, <3>2 DEF Succeeded
  <2> QED
    BY <2>1, <2>2, <2>3 DEF OnlyLatestRuns, LedgerConsistent, Succeeded
<1>5. ASSUME NEW r \in Run, NEW s \in Stage, NEW n \in DOMAIN attempts[r][s],
             failStage(r, s, n)
      PROVE OnlyLatestRuns' /\ LedgerConsistent'
  BY <1>5, SettleStep DEF failStage, Attempt, Settled, Started
<1>6. ASSUME NEW r \in Run, NEW s \in Stage, NEW n \in DOMAIN attempts[r][s],
             NEW outputs \in SUBSET Port, completeStage(r, s, n, outputs)
      PROVE OnlyLatestRuns' /\ LedgerConsistent'
  BY <1>6, SettleStep DEF completeStage, Attempt, Settled
<1> QED
  BY <1>1, <1>2, <1>3, <1>4, <1>5, <1>6, BeginStageStep DEF StoreNext

\* No settled run has a running attempt, and a run succeeded only with its stages.
THEOREM LedgerIsConsistent == StoreSpec => []LedgerConsistent
<1>1. LedgerInv => LedgerConsistent
  BY DEF LedgerInv
<1> QED
  BY <1>1, LedgerInitially, LedgerStep, PTL DEF StoreSpec

-----------------------------------------------------------------------------
\* The step of LedgerIsFinal.
KeepsSettled == \A r \in Run :
  /\ runs[r] \in Settled => runs'[r] = runs[r] /\ attempts'[r] = attempts[r]
  /\ \A s \in Stage : \A n \in DOMAIN attempts[r][s] :
       attempts[r][s][n].status # "running" =>
         n \in DOMAIN attempts'[r][s] /\ attempts'[r][s][n] = attempts[r][s][n]

LEMMA FinalStep == LedgerInv /\ StoreNext => KeepsSettled
<1> SUFFICES ASSUME LedgerInv, StoreNext PROVE KeepsSettled
  OBVIOUS
<1> USE DEF LedgerInv
<1>1. ASSUME NEW r \in Run, beginRun(r) PROVE KeepsSettled
  BY <1>1 DEF beginRun, StoreTypeOK, KeepsSettled, Settled
<1>2. ASSUME NEW r \in Run, failRun(r) PROVE KeepsSettled
  <2>1. \A t \in Run : t # r => attempts'[t] = attempts[t] /\ runs'[t] = runs[t]
    BY <1>2, SweptRun DEF failRun, StoreTypeOK
  <2>2. \A s \in Stage : \A n \in DOMAIN attempts[r][s] :
          attempts[r][s][n].status # "running" =>
            n \in DOMAIN attempts'[r][s] /\ attempts'[r][s][n] = attempts[r][s][n]
    BY <1>2, SweptRun, SweptTries DEF StoreTypeOK
  <2> QED
    BY <1>2, <2>1, <2>2 DEF failRun, KeepsSettled, Settled
<1>3. ASSUME NEW r \in Run, NEW expected \in SUBSET Stage, completeRun(r, expected)
      PROVE KeepsSettled
  BY <1>3 DEF completeRun, StoreTypeOK, KeepsSettled, Settled
<1>4. ASSUME NEW r \in Run, NEW s \in Stage, beginStage(r, s) PROVE KeepsSettled
  <2>1. /\ attempts'[r][s] = Append(attempts[r][s], Started)
        /\ \A t \in Run, u \in Stage : t # r \/ u # s => attempts'[t][u] = attempts[t][u]
        /\ attempts[r][s] \in Seq(Attempt)
    BY <1>4, Appended DEF StoreTypeOK
  <2>2. \A n \in DOMAIN attempts[r][s] :
          n \in DOMAIN attempts'[r][s] /\ attempts'[r][s][n] = attempts[r][s][n]
    BY <2>1
  <2>3. runs' = runs /\ runs[r] \notin Settled
    BY <1>4 DEF beginStage, Settled
  <2>4. \A t \in Run : t # r => attempts'[t] = attempts[t]
    BY <1>4 DEF beginStage, StoreTypeOK
  <2> QED
    BY <2>1, <2>2, <2>3, <2>4 DEF KeepsSettled
<1>5. ASSUME NEW r \in Run, NEW s \in Stage, NEW n \in DOMAIN attempts[r][s],
             NEW row \in Attempt, Settle(r, s, n, row)
      PROVE KeepsSettled
  <2>1. /\ attempts'[r][s] = [attempts[r][s] EXCEPT ![n] = row]
        /\ DOMAIN attempts'[r][s] = DOMAIN attempts[r][s]
        /\ \A t \in Run, u \in Stage : t # r \/ u # s => attempts'[t][u] = attempts[t][u]
    BY <1>5, SettledOne
  <2>2. attempts[r][s][n].status = "running" /\ n \in DOMAIN attempts[r][s] /\ runs' = runs
    BY <1>5 DEF Settle
  <2>3. runs[r] \notin Settled
    BY <2>2 DEF LedgerConsistent, RunningIn
  <2>4. \A t \in Run : t # r => attempts'[t] = attempts[t]
    BY <1>5 DEF Settle, StoreTypeOK
  <2> QED
    BY <2>1, <2>2, <2>3, <2>4 DEF KeepsSettled
<1>6. \A outputs \in SUBSET Port : [status |-> "succeeded", outputs |-> outputs] \in Attempt
  BY DEF Attempt, Settled
<1>7. [Started EXCEPT !.status = "failed"] \in Attempt
  BY DEF Attempt, Settled, Started
<1> QED
  BY <1>1, <1>2, <1>3, <1>4, <1>5, <1>6, <1>7 DEF StoreNext, completeStage, failStage

\* Nothing that is settled changes, whoever calls the store.
THEOREM LedgerStaysFinal == StoreSpec => LedgerIsFinal
<1>1. LedgerInv /\ [StoreNext]_storeVars => [KeepsSettled]_storeVars
  BY FinalStep
<1>2. StoreSpec => []LedgerInv
  BY LedgerInitially, LedgerStep, PTL DEF StoreSpec
<1>3. StoreSpec => [][KeepsSettled]_storeVars
  BY <1>1, <1>2, PTL DEF StoreSpec
<1> QED
  BY <1>3 DEF LedgerIsFinal, KeepsSettled

-----------------------------------------------------------------------------
(* The executor. *)

LEMMA Numbered == StageCount \in Nat \ {0} /\ Stage = 1..StageCount /\ None \notin Run
  BY PreviewAssumption

USE Numbered

\* The stage of process p has an attempt.
Serving(p) == pc[p] \in {"invoked", "closing", "closed"}
Between(p) == pc[p] \in {"next", "admitting"}

\* The stages before the position of p succeeded, those after it were not attempted, and
\* neither was the stage at it until it is begun.
Position(p) ==
  /\ at[p] \in 1..StageCount + 1
  /\ pc[p] # "next" => at[p] \in Stage
  /\ \A s \in Stage : s < at[p] => Succeeded(run[p], s)
  /\ \A s \in Stage : s > at[p] \/ (s = at[p] /\ Between(p)) => attempts[run[p]][s] = << >>

\* The attempt that p serves is the first, and it is running.
Service(p) ==
  /\ attempt[p] = 1
  /\ Len(attempts[run[p]][at[p]]) = 1
  /\ attempts[run[p]][at[p]][1].status = "running"

ProcOK(p) ==
  /\ pc[p] = "idle" <=> run[p] = None
  /\ pc[p] # "idle" => runs[run[p]] = "running"
  /\ Between(p) \/ Serving(p) => Position(p)
  /\ Serving(p) => Service(p)

RunOK(r) ==
  /\ runs[r] = "absent" => \A s \in Stage : attempts[r][s] = << >>
  /\ \A s \in Stage : /\ Len(attempts[r][s]) <= 1
                      /\ attempts[r][s] # << >> => \A t \in Stage : t < s => Succeeded(r, t)
                      /\ runs[r] = "succeeded" => Succeeded(r, s)

\* A process in a run has the only claim to it.
OneOwner == \A p, q \in Proc : p # q /\ run[p] = run[q] => run[p] = None

Control == OneOwner /\ (\A p \in Proc : ProcOK(p)) /\ (\A r \in Run : RunOK(r))

ControlInv == TypeOK /\ Control

\* Where the files of the served stage are, output by output; ...
Outputs == \A p \in Proc : Serving(p) => \A o \in Port :
  /\ out[p][o] \in {"free", "finalized"} => Own(p, o) \notin Tracked
  /\ out[p][o] = "linked" => Content[<<at[p], o>>] \in objects
  /\ out[p][o] = "removing" => Own(p, o) \in manifests
  /\ out[p][o] = "finalized" => <<at[p], o>> \in Ephemeral \/ Own(p, o) \in manifests

\* ... no operation is in flight unless the stage is open or being drained, ...
Quiet == \A p \in Proc : pc[p] \notin {"invoked", "closing"} => ~ Busy(p)

\* ... and nothing of the run is staged then.
Clean == \A p \in Proc : pc[p] \notin {"idle", "invoked", "closing"} =>
                          \A a \in Tracked : a[1] # run[p]

ArtifactInv == Outputs /\ Quiet /\ Clean /\ SettledStageIsClean /\ ArtifactsBacked

LEMMA FiniteImage ==
  ASSUME NEW S, IsFiniteSet(S), NEW T, NEW f \in [S -> T], \A t \in T : \E x \in S : f[x] = t
  PROVE  IsFiniteSet(T)
<1>1. f \in Surjection(S, T)
  BY DEF Surjection
<1> QED
  BY <1>1, FS_Surjection

LEMMA FiniteInputs ==
  /\ \A s \in Stage : IsFiniteSet(DOMAIN Inputs[s])
  /\ IsFiniteSet(InputPorts)
<1>1. \A s \in Stage : IsFiniteSet(DOMAIN Inputs[s])
  <2> TAKE s \in Stage
  <2>1. Inputs[s] \in Seq(Stage \X Port)
    BY PreviewAssumption
  <2>2. DOMAIN Inputs[s] = 1..Len(Inputs[s]) /\ Len(Inputs[s]) \in Nat
    BY <2>1
  <2> QED
    BY <2>2, FS_Interval
<1>2. \A s \in Stage : IsFiniteSet(PortsOf(s))
  <2> TAKE s \in Stage
  <2>1. PICK T : T = PortsOf(s)
    OBVIOUS
  <2>2. PICK f : f = [i \in DOMAIN Inputs[s] |-> <<s, i>>]
    OBVIOUS
  <2>3. f \in [DOMAIN Inputs[s] -> T] /\ \A t \in T : \E i \in DOMAIN Inputs[s] : f[i] = t
    BY <2>1, <2>2 DEF PortsOf
  <2> QED
    BY <1>1, <2>1, <2>3, FiniteImage
<1>3. IsFiniteSet({PortsOf(s) : s \in Stage})
  <2>1. PICK S : S = Stage /\ IsFiniteSet(S)
    BY FS_Interval
  <2>2. PICK f : f = [s \in S |-> PortsOf(s)]
    OBVIOUS
  <2>3. PICK T : T = {PortsOf(s) : s \in S}
    OBVIOUS
  <2>4. f \in [S -> T] /\ \A t \in T : \E s \in S : f[s] = t
    BY <2>2, <2>3
  <2>5. IsFiniteSet(T)
    <3>1. IsFiniteSet(S) /\ f \in [S -> T] /\ \A t \in T : \E s \in S : f[s] = t
      BY <2>1, <2>4
    <3> QED
      BY <3>1, FiniteImage
  <2> QED
    BY <2>1, <2>3, <2>5
<1>4. IsFiniteSet(InputPorts)
  BY <1>2, <1>3, FS_UNION DEF InputPorts
<1> QED
  BY <1>1, <1>4

LEMMA Counted ==
  /\ \A x \in Ephemeral : Consumers(x, 1) \in Nat
  /\ \A x \in Ephemeral, s \in Stage : References(s, x) \in Nat
<1>1. ASSUME NEW x \in Ephemeral PROVE Consumers(x, 1) \in Nat
  BY FiniteInputs, FS_Subset, FS_CardinalityType DEF Consumers
<1>2. ASSUME NEW x \in Ephemeral, NEW s \in Stage PROVE References(s, x) \in Nat
  BY FiniteInputs, FS_Subset, FS_CardinalityType DEF References
<1> QED
  BY <1>1, <1>2

LEMMA InItsRun ==
  ASSUME ControlInv, NEW p \in Proc, pc[p] # "idle"
  PROVE  /\ run[p] \in Run /\ runs[run[p]] = "running"
         /\ Between(p) \/ Serving(p) => Position(p) /\ at[p] \in Nat
         /\ pc[p] = "admitting" \/ Serving(p) => at[p] \in Stage
         /\ Serving(p) => Service(p)
         /\ RunOK(run[p])
<1>1. ProcOK(p) /\ run[p] \in Run
  BY DEF ControlInv, Control, ProcOK, TypeOK
<1>2. at[p] \in Nat
  BY DEF ControlInv, TypeOK
<1> QED
  BY <1>1, <1>2 DEF ControlInv, Control, ProcOK, Position, Serving, Between

\* A step of a plugin or of the broker.
BrokerStep(p) == Operation(p) \/ PluginCall(p)

LEMMA BrokerFrame ==
  ASSUME NEW p \in Proc, BrokerStep(p)
  PROVE  UNCHANGED <<storeVars, executor>>
  BY DEF BrokerStep, Operation, PluginCall, EndRead, WriteStaged, KeepUntracked, RemoveWritten, LinkObject,
         LinkManifest, RemoveStaged, FailOutput, StartRead, RejectOutput, StageJson,
         FinalizeEphemeral, StartCommit, RefuseForbidden

-----------------------------------------------------------------------------
(* The executor implements a client of the ledger. *)

LEMMA StoreStep == ControlInv /\ [Next]_vars => [StoreNext]_storeVars
<1> SUFFICES ASSUME ControlInv, [Next]_vars PROVE [StoreNext]_storeVars
  OBVIOUS
<1> USE DEF ControlInv
<1>1. CASE UNCHANGED vars
  BY <1>1 DEF vars, storeVars
<1>2. ASSUME NEW p \in Proc, BrokerStep(p) PROVE UNCHANGED storeVars
  BY <1>2, BrokerFrame
<1>3. ASSUME NEW p \in Proc, BeginStage(p) PROVE StoreNext
  BY <1>3, InItsRun DEF BeginStage, StoreNext
<1>4. ASSUME NEW p \in Proc, CompleteStage(p) PROVE StoreNext
  <2>1. verdict[p].outputs \in SUBSET Port
    BY DEF TypeOK
  <2> QED
    BY <1>4, <2>1, InItsRun DEF CompleteStage, StoreNext, Serving, completeStage, Settle
<1>5. ASSUME NEW p \in Proc, FailStage(p) PROVE StoreNext \/ UNCHANGED storeVars
  BY <1>5, InItsRun DEF FailStage, StoreNext, Serving, failStage, Settle
<1>6. ASSUME NEW p \in Proc, CompleteRun(p) PROVE StoreNext
  BY <1>6, InItsRun DEF CompleteRun, StoreNext
<1>7. ASSUME NEW p \in Proc, FailRun(p) PROVE StoreNext \/ UNCHANGED storeVars
  BY <1>7, InItsRun DEF FailRun, StoreNext
<1>8. ASSUME NEW p \in Proc, EnterStage(p) \/ RefuseStage(p) \/ TimeOut(p) \/ CloseBroker(p)
                             \/ CompleteRunThrows(p) \/ PluginReturns(p) \/ AbortRun(p)
                             \/ Crash(p)
      PROVE UNCHANGED storeVars
  BY <1>8 DEF EnterStage, RefuseStage, TimeOut, CloseBroker, CompleteRunThrows, PluginReturns,
              AbortRun, Crash
<1>9. ASSUME NEW p \in Proc, NEW r \in Run, StartRun(p, r) PROVE StoreNext
  BY <1>9 DEF StartRun, StoreNext
<1> QED
  BY <1>1, <1>2, <1>3, <1>4, <1>5, <1>6, <1>7, <1>8, <1>9
     DEF Next, Executor, Environment, BrokerStep

-----------------------------------------------------------------------------
(* Type correctness. *)

LEMMA TypeInitially == Init => TypeOK
  BY StoreTypeInitially DEF Init, TypeOK, Locations, Threw, ReadStates, OutputStates,
     NoOutputs, NothingDone, NothingRegistered, Artifacts

LEMMA LeaveTyped ==
  ASSUME TypeOK, NEW p \in Proc, Leave(p)
  PROVE  /\ pc' \in [Proc -> Locations]
         /\ run' \in [Proc -> Run \cup {None}]
         /\ at' \in [Proc -> Nat]
         /\ attempt' \in [Proc -> Nat]
         /\ hostAborted' \in [Proc -> BOOLEAN]
         /\ verdict' \in [Proc -> [ok : BOOLEAN, outputs : SUBSET Port]]
         /\ read' \in [Proc -> ReadStates]
         /\ out' \in [Proc -> [Port -> OutputStates]]
         /\ outputsByStage' \in [Proc -> [Stage -> SUBSET Port]]
         /\ ephemeral' \in [Proc -> [Ephemeral -> Nat]]
<1>1. NoOutputs \in [Port -> OutputStates] /\ NothingDone \in [Stage -> SUBSET Port]
  BY DEF NoOutputs, OutputStates, NothingDone
<1>2. NothingRegistered \in [Ephemeral -> Nat] /\ Threw \in [ok : BOOLEAN, outputs : SUBSET Port]
  BY DEF NothingRegistered, Threw
<1>3. "idle" \in Locations /\ "none" \in ReadStates
  BY DEF Locations, ReadStates
<1> QED
  BY <1>1, <1>2, <1>3 DEF TypeOK, Leave

LEMMA ReleasedTyped ==
  ASSUME TypeOK, NEW p \in Proc, at[p] \in Stage
  PROVE  Released(ephemeral[p], at[p]) \in [Ephemeral -> Nat]
<1>1. ephemeral[p] \in [Ephemeral -> Nat]
  BY DEF TypeOK
<1>2. \A x \in Ephemeral : References(at[p], x) \in Nat
  BY Counted
<1> QED
  BY <1>1, <1>2 DEF Released

LEMMA OutputTyped ==
  ASSUME TypeOK, NEW p \in Proc, NEW o \in Port, NEW state \in OutputStates,
         MoveOutput(p, o, state)
  PROVE  out' \in [Proc -> [Port -> OutputStates]]
  BY DEF TypeOK, MoveOutput

LEMMA OwnTyped ==
  ASSUME ControlInv, NEW p \in Proc, pc[p] # "idle", at[p] \in Stage, NEW o \in Port
  PROVE  Own(p, o) \in Artifacts
  BY InItsRun DEF Own, Artifacts

LEMMA BrokerTypeStep ==
  ASSUME ControlInv, Quiet, NEW p \in Proc, BrokerStep(p)
  PROVE  TypeOK'
<1> USE DEF ControlInv
<1>1. UNCHANGED <<storeVars, executor>>
  BY BrokerFrame
<1>2. pc[p] \in {"invoked", "closing"} /\ at[p] \in Stage
  <2>1. pc[p] \in {"invoked", "closing"}
    BY DEF Quiet, BrokerStep, Operation, PluginCall, EndRead, WriteStaged, KeepUntracked, RemoveWritten,
           LinkObject, LinkManifest, RemoveStaged, FailOutput, StartRead, RejectOutput, StageJson,
           FinalizeEphemeral, StartCommit, RefuseForbidden, Claimable, Open, Busy, InFlight
  <2> QED
    BY <2>1, InItsRun DEF Serving, Quiet
<1>3. out' \in [Proc -> [Port -> OutputStates]]
  <2>1. UNCHANGED out \/ \E o \in Port, state \in OutputStates : MoveOutput(p, o, state)
    BY DEF BrokerStep, Operation, PluginCall, EndRead, WriteStaged, KeepUntracked, RemoveWritten,
           LinkObject, LinkManifest, RemoveStaged, FailOutput, StartRead, RejectOutput, StageJson,
           FinalizeEphemeral, StartCommit, RefuseForbidden, IfOpen, OutputStates, InFlight
  <2> QED
    BY <2>1, OutputTyped DEF TypeOK
<1>6. read' \in [Proc -> ReadStates]
  <2>1. UNCHANGED read \/ \E state \in ReadStates : read' = [read EXCEPT ![p] = state]
    <3> USE DEF MoveRead, IfOpen, ReadStates
    <3>1. CASE PluginCall(p)
      BY <3>1 DEF PluginCall, StartRead, RejectOutput, StageJson, FinalizeEphemeral,
                  StartCommit, RefuseForbidden, TypeOK
    <3>2. CASE Operation(p)
      BY <3>2 DEF Operation, EndRead, WriteStaged, KeepUntracked, RemoveWritten, LinkObject, LinkManifest,
                  RemoveStaged, FailOutput, TypeOK
    <3> QED
      BY <3>1, <3>2 DEF BrokerStep
  <2> QED
    BY <2>1 DEF TypeOK
<1>4. ephemeral' \in [Proc -> [Ephemeral -> Nat]]
  <2>1. ASSUME NEW o \in Port, FinalizeEphemeral(p, o) PROVE ephemeral' \in [Proc -> [Ephemeral -> Nat]]
    BY <2>1, Counted DEF FinalizeEphemeral, TypeOK
  <2> QED
    BY <2>1 DEF BrokerStep, Operation, PluginCall, EndRead, WriteStaged, KeepUntracked, RemoveWritten,
         LinkObject, LinkManifest, RemoveStaged, FailOutput, StartRead, RejectOutput, StageJson,
         StartCommit, RefuseForbidden, TypeOK
<1>5. /\ staging' \subseteq Artifacts /\ manifests' \subseteq Artifacts
      /\ untracked' \subseteq Artifacts
  <2>1. \A o \in Port : Own(p, o) \in Artifacts
    BY <1>2, OwnTyped
  <2>2. \/ staging' \subseteq staging /\ manifests' \subseteq manifests /\ untracked' = untracked
        \/ \E o \in Port : /\ staging' \subseteq staging \cup {Own(p, o)}
                           /\ manifests' \subseteq manifests \cup {Own(p, o)}
                           /\ untracked' \subseteq untracked \cup {Own(p, o)}
    <3>1. CASE PluginCall(p)
      BY <3>1 DEF PluginCall, StartRead, RejectOutput, StageJson, FinalizeEphemeral,
                  StartCommit, RefuseForbidden, files
    <3>2. CASE Operation(p)
      BY <3>2 DEF Operation, EndRead, WriteStaged, KeepUntracked, RemoveWritten, LinkObject, LinkManifest,
                  RemoveStaged, FailOutput, files
    <3> QED
      BY <3>1, <3>2 DEF BrokerStep
  <2> QED
    BY <2>1, <2>2 DEF TypeOK
<1> QED
  BY <1>1, <1>3, <1>4, <1>5, <1>6 DEF TypeOK, executor, storeVars, StoreTypeOK

LEMMA ExecutorTypeStep ==
  ASSUME ControlInv, StoreTypeOK', NEW p \in Proc, Executor(p) \/ Environment(p)
  PROVE  TypeOK'
<1> USE DEF ControlInv
<1>1. CASE EnterStage(p) \/ RefuseStage(p) \/ TimeOut(p) \/ AbortRun(p) \/ CompleteRunThrows(p)
  BY <1>1 DEF EnterStage, RefuseStage, TimeOut, AbortRun, CompleteRunThrows, Goto, TypeOK,
              Locations, broker, files
<1>2. CASE BeginStage(p)
  <2>1. Len(attempts[run[p]][at[p]]) \in Nat
    <3>1. run[p] \in Run /\ at[p] \in Stage
      BY <1>2, InItsRun DEF BeginStage
    <3>2. attempts[run[p]][at[p]] \in Seq(Attempt)
      BY <3>1 DEF TypeOK, StoreTypeOK
    <3> QED
      BY <3>2
  <2>2. NoOutputs \in [Port -> OutputStates] /\ Threw \in [ok : BOOLEAN, outputs : SUBSET Port]
    BY DEF NoOutputs, OutputStates, Threw
  <2>3. out' \in [Proc -> [Port -> OutputStates]]
    BY <1>2, <2>2 DEF BeginStage, TypeOK
  <2>4. verdict' \in [Proc -> [ok : BOOLEAN, outputs : SUBSET Port]]
    BY <1>2, <2>2 DEF BeginStage, TypeOK
  <2>5. /\ pc' \in [Proc -> Locations] /\ attempt' \in [Proc -> Nat]
        /\ read' \in [Proc -> ReadStates]
    BY <1>2, <2>1 DEF BeginStage, Invoked, Goto, TypeOK, Locations, ReadStates
  <2>6. UNCHANGED <<run, at, hostAborted, outputsByStage, ephemeral, files, crashes>>
    BY <1>2 DEF BeginStage
  <2> QED
    BY <2>3, <2>4, <2>5, <2>6 DEF TypeOK, files
<1>3. CASE CloseBroker(p)
  BY <1>3 DEF CloseBroker, Goto, TypeOK, Locations, broker
<1>4. CASE CompleteStage(p)
  <2>1. at[p] \in Stage /\ verdict[p].outputs \in SUBSET Port
    BY <1>4, InItsRun DEF CompleteStage, Serving, TypeOK
  <2>2. Released(ephemeral[p], at[p]) \in [Ephemeral -> Nat]
    BY <2>1, ReleasedTyped
  <2>3. ephemeral' \in [Proc -> [Ephemeral -> Nat]]
    BY <1>4, <2>2 DEF CompleteStage, TypeOK
  <2>4. outputsByStage' \in [Proc -> [Stage -> SUBSET Port]] /\ at' \in [Proc -> Nat]
    BY <1>4, <2>1 DEF CompleteStage, TypeOK
  <2> QED
    BY <1>4, <2>3, <2>4 DEF CompleteStage, Goto, TypeOK, Locations, broker, files
<1>5. CASE FailStage(p)
  <2>1. at[p] \in Stage
    BY <1>5, InItsRun DEF FailStage, Serving
  <2>2. Released(ephemeral[p], at[p]) \in [Ephemeral -> Nat]
    BY <2>1, ReleasedTyped
  <2>3. ephemeral' \in [Proc -> [Ephemeral -> Nat]]
    BY <1>5, <2>2 DEF FailStage, TypeOK
  <2> QED
    BY <1>5, <2>3 DEF FailStage, AfterFailure, Goto, TypeOK, Locations, broker, files
<1>6. CASE CompleteRun(p) \/ FailRun(p)
  BY <1>6, LeaveTyped DEF CompleteRun, FailRun, TypeOK, files
<1>7. CASE Crash(p)
  BY <1>7, LeaveTyped DEF Crash, TypeOK, files
<1>8. CASE PluginReturns(p)
  <2>1. PICK outputs \in SUBSET Finalized(p) : verdict' = [verdict EXCEPT ![p] = EndsWith(p, outputs)]
    BY <1>8 DEF PluginReturns
  <2>2. EndsWith(p, outputs) \in [ok : BOOLEAN, outputs : SUBSET Port]
    BY <2>1 DEF EndsWith, Finalized
  <2> QED
    BY <1>8, <2>1, <2>2 DEF PluginReturns, Goto, TypeOK, Locations, broker, files
<1>9. ASSUME NEW r \in Run, StartRun(p, r) PROVE TypeOK'
  <2>1. /\ pc' \in [Proc -> Locations] /\ run' \in [Proc -> Run \cup {None}]
        /\ at' \in [Proc -> Nat]
    BY <1>9 DEF StartRun, Goto, TypeOK, Locations
  <2>2. UNCHANGED <<attempt, hostAborted, verdict, read, out, outputsByStage, ephemeral,
                    staging, objects, manifests, untracked, crashes>>
    BY <1>9 DEF StartRun, broker, files
  <2> QED
    BY <2>1, <2>2 DEF TypeOK
<1> QED
  BY <1>1, <1>2, <1>3, <1>4, <1>5, <1>6, <1>7, <1>8, <1>9 DEF Executor, Environment

LEMMA TypeStep == ControlInv /\ Quiet /\ [Next]_vars => TypeOK'
<1> SUFFICES ASSUME ControlInv, Quiet, [Next]_vars PROVE TypeOK'
  OBVIOUS
<1>1. StoreTypeOK'
  BY StoreStep, StoreTypeStep DEF ControlInv, TypeOK
<1>2. CASE UNCHANGED vars
  BY <1>1, <1>2 DEF vars, ControlInv, TypeOK
<1> QED
  BY <1>1, <1>2, BrokerTypeStep, ExecutorTypeStep DEF Next, BrokerStep

-----------------------------------------------------------------------------
(* Runs, positions and attempts. *)

LEMMA ControlInitially == Init => Control
  BY DEF Init, StoreInit, Control, OneOwner, ProcOK, RunOK, Serving, Between

LEMMA SameRun ==
  ASSUME NEW r, RunOK(r), runs'[r] = runs[r],
         \A s \in Stage : attempts'[r][s] = attempts[r][s]
  PROVE  RunOK(r)'
<1>1. \A s \in Stage : Succeeded(r, s)' <=> Succeeded(r, s)
  BY DEF Succeeded
<1>2. runs[r] = "absent" => \A s \in Stage : attempts'[r][s] = <<>>
  BY DEF RunOK
<1>3. ASSUME NEW s \in Stage
      PROVE  /\ Len(attempts'[r][s]) <= 1
             /\ attempts'[r][s] # <<>> => \A t \in Stage : t < s => Succeeded(r, t)
             /\ runs[r] = "succeeded" => Succeeded(r, s)
  BY DEF RunOK
<1> QED BY <1>1, <1>2, <1>3 DEF RunOK

LEMMA SameProc ==
  ASSUME NEW p \in Proc, ProcOK(p),
         pc'[p] = pc[p], run'[p] = run[p], at'[p] = at[p], attempt'[p] = attempt[p],
         pc[p] # "idle" => /\ runs'[run[p]] = runs[run[p]]
                           /\ \A s \in Stage : attempts'[run[p]][s] = attempts[run[p]][s]
  PROVE  ProcOK(p)'
<1>1. ASSUME Position(p), pc[p] # "idle" PROVE Position(p)'
  <2>1. \A s \in Stage : Succeeded(run[p], s)' <=> Succeeded(run[p], s)
    BY <1>1 DEF Succeeded
  <2>2. Between(p)' <=> Between(p)
    BY DEF Between
  <2>3. \A s \in Stage : (attempts[run[p]][s])' = attempts[run[p]][s]
    BY <1>1
  <2> QED
    BY <1>1, <2>1, <2>2, <2>3 DEF Position
<1>2. Service(p) /\ pc[p] # "idle" /\ at[p] \in Stage => Service(p)'
  BY DEF Service
<1> QED
  BY <1>1, <1>2 DEF ProcOK, Between, Serving, Position

\* A step of process p that may change the ledger's entries of one run only.
LEMMA LocalStep ==
  ASSUME ControlInv, NEW p \in Proc, NEW r \in Run,
         run[p] = r \/ (run[p] = None /\ runs[r] = "absent"),
         run'[p] = r \/ run'[p] = None,
         \A q \in Proc : q # p => /\ pc'[q] = pc[q] /\ run'[q] = run[q]
                                  /\ at'[q] = at[q] /\ attempt'[q] = attempt[q],
         \A t \in Run : t # r => /\ runs'[t] = runs[t]
                                 /\ \A s \in Stage : attempts'[t][s] = attempts[t][s],
         ProcOK(p)', RunOK(r)'
  PROVE  Control'
<1>1. \A q \in Proc : q # p => run[q] # r
  <2> SUFFICES ASSUME NEW q \in Proc, q # p, run[q] = r PROVE FALSE
    OBVIOUS
  <2>1. pc[q] # "idle" /\ runs[r] = "running"
    BY DEF ControlInv, Control, ProcOK
  <2> QED
    BY <2>1 DEF ControlInv, Control, OneOwner
<1>2. \A t \in Run : RunOK(t)'
  BY SameRun DEF ControlInv, Control
<1>3. ASSUME NEW q \in Proc, q # p PROVE ProcOK(q)'
  <2>1. ProcOK(q)
    BY DEF ControlInv, Control
  <2>2. pc[q] # "idle" => run[q] \in Run /\ run[q] # r
    BY <1>1, <1>3, InItsRun
  <2> QED
    BY <1>3, <2>1, <2>2, SameProc
<1>4. OneOwner'
  <2>1. \A q \in Proc : q # p => run'[q] # r
    BY <1>1
  <2> QED
    BY <2>1 DEF ControlInv, Control, OneOwner
<1> QED
  BY <1>2, <1>3, <1>4 DEF Control

\* Steps that leave the ledger alone.
LEMMA QuietControlStep ==
  ASSUME ControlInv, NEW p \in Proc,
         \/ EnterStage(p) \/ RefuseStage(p) \/ TimeOut(p) \/ CloseBroker(p)
         \/ CompleteRunThrows(p) \/ PluginReturns(p) \/ AbortRun(p)
  PROVE  Control'
<1>1. UNCHANGED <<storeVars, run, at, attempt>>
  BY DEF EnterStage, RefuseStage, TimeOut, CloseBroker, CompleteRunThrows,
         PluginReturns, AbortRun
<1>2. /\ pc'[p] # "idle" /\ pc[p] # "idle"
      /\ \A q \in Proc : q # p => pc'[q] = pc[q]
      /\ pc'[p] \in {"invoked", "closing", "closed"} => Serving(p)
      /\ pc'[p] = "next" => pc[p] = "next"
      /\ pc'[p] = "admitting" => pc[p] = "admitting" \/ (pc[p] = "next" /\ at[p] \in Stage)
  BY DEF EnterStage, RefuseStage, TimeOut, CloseBroker, CompleteRunThrows,
         PluginReturns, AbortRun, Goto, Serving, ControlInv, TypeOK
<1>3. /\ run[p] \in Run /\ runs[run[p]] = "running"
      /\ Between(p) \/ Serving(p) => Position(p)
      /\ Serving(p) => Service(p)
      /\ RunOK(run[p])
  BY <1>2, InItsRun
<1>4. ProcOK(p)'
  <2>1. run'[p] # None
    BY <1>1, <1>3
  <2>2. ASSUME Between(p)' PROVE Position(p)'
    <3>1. Between(p) /\ Position(p)
      BY <1>2, <1>3, <2>2 DEF Between
    <3>2. \A s \in Stage : Succeeded(run[p], s)' <=> Succeeded(run[p], s)
      BY <1>1 DEF Succeeded, storeVars
    <3> QED
      BY <1>1, <1>2, <2>2, <3>1, <3>2 DEF Position, Between, storeVars
  <2>3. ASSUME Serving(p)' PROVE Position(p)' /\ Service(p)'
    <3>1. Serving(p) /\ Position(p) /\ Service(p)
      BY <1>2, <1>3, <2>3 DEF Serving
    <3>2. \A s \in Stage : Succeeded(run[p], s)' <=> Succeeded(run[p], s)
      BY <1>1 DEF Succeeded, storeVars
    <3> QED
      BY <1>1, <1>2, <2>3, <3>1, <3>2 DEF Position, Service, Between, Serving, storeVars
  <2> QED
    BY <1>1, <1>2, <1>3, <2>1, <2>2, <2>3 DEF ProcOK, storeVars
<1>5. RunOK(run[p])'
  BY <1>1, <1>3, SameRun DEF storeVars
<1> QED
  BY <1>1, <1>2, <1>3, <1>4, <1>5, LocalStep DEF storeVars

LEMMA BrokerControlStep ==
  ASSUME ControlInv, NEW p \in Proc, BrokerStep(p)
  PROVE  Control'
<1>1. UNCHANGED <<storeVars, executor>>
  BY BrokerFrame
<1>2. \A q \in Proc : ProcOK(q)'
  BY <1>1, SameProc DEF ControlInv, Control, storeVars, executor
<1>3. \A r \in Run : RunOK(r)'
  BY <1>1, SameRun DEF ControlInv, Control, storeVars
<1> QED
  BY <1>1, <1>2, <1>3 DEF ControlInv, Control, OneOwner, executor

LEMMA LeaveControl ==
  ASSUME ControlInv, NEW p \in Proc, pc[p] # "idle", Leave(p), UNCHANGED storeVars
  PROVE  Control'
<1>1. /\ pc'[p] = "idle" /\ run'[p] = None
      /\ \A q \in Proc : q # p => /\ pc'[q] = pc[q] /\ run'[q] = run[q]
                                  /\ at'[q] = at[q] /\ attempt'[q] = attempt[q]
  BY DEF Leave, ControlInv, TypeOK
<1>2. ProcOK(p)'
  BY <1>1 DEF ProcOK, Between, Serving
<1>3. PICK r \in Run : r = run[p]
  BY InItsRun
<1>4. RunOK(r)'
  BY <1>3, InItsRun, SameRun DEF storeVars
<1> QED
  BY <1>1, <1>2, <1>3, <1>4, LocalStep DEF storeVars

LEMMA StartRunControl ==
  ASSUME ControlInv, NEW p \in Proc, NEW r \in Run, StartRun(p, r)
  PROVE  Control'
<1>1. /\ runs[r] = "absent" /\ runs'[r] = "running" /\ attempts' = attempts
      /\ \A t \in Run : t # r => runs'[t] = runs[t]
  BY DEF StartRun, beginRun, ControlInv, TypeOK, StoreTypeOK
<1>2. /\ pc[p] = "idle" /\ run[p] = None
      /\ pc'[p] = "next" /\ run'[p] = r /\ at'[p] = 1
      /\ \A q \in Proc : q # p => /\ pc'[q] = pc[q] /\ run'[q] = run[q]
                                  /\ at'[q] = at[q] /\ attempt'[q] = attempt[q]
  BY DEF StartRun, Goto, ControlInv, TypeOK, Control, ProcOK
<1>3. \A s \in Stage : attempts[r][s] = << >>
  BY <1>1 DEF ControlInv, Control, RunOK
<1>4. Position(p)'
  BY <1>1, <1>2, <1>3 DEF Position
<1>5. ProcOK(p)'
  BY <1>1, <1>2, <1>4 DEF ProcOK, Between, Serving
<1>6. RunOK(r)'
  BY <1>1, <1>3 DEF RunOK
<1> QED
  BY <1>1, <1>2, <1>5, <1>6, LocalStep

LEMMA BeginStageControl ==
  ASSUME ControlInv, NEW p \in Proc, BeginStage(p)
  PROVE  Control'
<1>1. PICK r \in Run, s \in Stage : r = run[p] /\ s = at[p]
  BY InItsRun DEF BeginStage
<1>2. /\ pc[p] = "admitting" /\ runs[r] = "running" /\ attempts[r][s] = << >>
      /\ \A t \in Stage : t < s => Succeeded(r, t)
      /\ \A t \in Stage : t > s => attempts[r][t] = << >>
      /\ RunOK(r)
  BY <1>1, InItsRun DEF BeginStage, Between, Position
<1>3. beginStage(r, s)
  BY <1>1 DEF BeginStage
<1>4. /\ attempts'[r][s] = <<Started>>
      /\ \A t \in Run, u \in Stage : t # r \/ u # s => attempts'[t][u] = attempts[t][u]
      /\ runs' = runs
  <2>1. StoreTypeOK
    BY DEF ControlInv, TypeOK
  <2>2. /\ attempts'[r][s] = Append(attempts[r][s], Started)
        /\ \A t \in Run, u \in Stage : t # r \/ u # s => attempts'[t][u] = attempts[t][u]
    <3>1. r \in Run /\ s \in Stage
      BY <1>1
    <3> HIDE Numbered
    <3> QED
      BY <1>3, <2>1, <3>1, Appended
  <2>3. Append(<< >>, Started) = <<Started>>
    OBVIOUS
  <2> QED
    BY <1>2, <1>3, <2>2, <2>3 DEF beginStage
<1>5. /\ attempt'[p] = 1 /\ run'[p] = r /\ at'[p] = s
      /\ pc'[p] \in {"invoked", "closing"}
      /\ \A q \in Proc : q # p => /\ pc'[q] = pc[q] /\ run'[q] = run[q]
                                  /\ at'[q] = at[q] /\ attempt'[q] = attempt[q]
  BY <1>1, <1>2 DEF BeginStage, Goto, Invoked, ControlInv, TypeOK
<1>6. \A t \in Stage : t # s => (Succeeded(r, t)' <=> Succeeded(r, t))
  BY <1>1, <1>4 DEF Succeeded
<1>7. ProcOK(p)'
  <2>1. Position(p)'
    BY <1>1, <1>2, <1>4, <1>5, <1>6 DEF Position, Between
  <2>2. Service(p)'
    <3>1. Len(attempts'[r][s]) = 1 /\ attempts'[r][s][1].status = "running"
      BY <1>4 DEF Started
    <3> QED
      BY <1>5, <3>1 DEF Service
  <2> QED
    BY <1>1, <1>2, <1>4, <1>5, <2>1, <2>2 DEF ProcOK, Between, Serving
<1>8. RunOK(r)'
  <2>1. Len(attempts'[r][s]) <= 1
    BY <1>1, <1>4
  <2>2. \A t \in Stage : t # s => /\ Len(attempts'[r][t]) <= 1
                                  /\ attempts'[r][t] # << >> => attempts[r][t] # << >>
    BY <1>1, <1>2, <1>4 DEF RunOK
  <2>3. \A t \in Stage : t > s => attempts'[r][t] = << >>
    BY <1>1, <1>2, <1>4
  <2>4. ASSUME NEW t \in Stage, attempts'[r][t] # << >>, NEW u \in Stage, u < t
        PROVE  Succeeded(r, u)'
    BY <1>1, <1>2, <1>6, <2>3, <2>4
  <2>5. ASSUME NEW t \in Stage PROVE Len(attempts'[r][t]) <= 1
    <3>1. CASE t = s
      BY <2>1, <3>1
    <3>2. CASE t # s
      BY <2>2, <3>2
    <3> QED
      BY <3>1, <3>2
  <2>6. runs'[r] = "running"
    BY <1>2, <1>4
  <2> QED
    BY <2>4, <2>5, <2>6 DEF RunOK
<1> QED
  BY <1>1, <1>4, <1>5, <1>7, <1>8, LocalStep

\* The attempt that p serves is given another status.
LEMMA ServedSettled ==
  ASSUME ControlInv, NEW p \in Proc, Serving(p), NEW row \in Attempt,
         Settle(run[p], at[p], attempt[p], row)
  PROVE  /\ attempts'[run[p]][at[p]] = <<row>>
         /\ \A t \in Run, u \in Stage : t # run[p] \/ u # at[p] => attempts'[t][u] = attempts[t][u]
         /\ runs' = runs
<1>1. PICK r \in Run, s \in Stage : r = run[p] /\ s = at[p]
  BY InItsRun DEF Serving
<1>2. attempt[p] = 1 /\ Len(attempts[r][s]) = 1 /\ attempts[r][s] \in Seq(Attempt)
  BY <1>1, InItsRun DEF Serving, Service, ControlInv, TypeOK, StoreTypeOK
<1>3. 1 \in DOMAIN attempts[r][s] /\ Settle(r, s, 1, row)
  BY <1>1, <1>2
<1>4. /\ attempts'[r][s] = [attempts[r][s] EXCEPT ![1] = row]
      /\ \A t \in Run, u \in Stage : t # r \/ u # s => attempts'[t][u] = attempts[t][u]
  <2>1. StoreTypeOK
    BY DEF ControlInv, TypeOK
  <2>2. r \in Run /\ s \in Stage
    BY <1>1
  <2> QED
    BY <1>3, <2>1, <2>2, SettledOne
<1>5. [attempts[r][s] EXCEPT ![1] = row] = <<row>>
  BY <1>2
<1>6. runs' = runs
  BY <1>3 DEF Settle
<1> QED
  BY <1>1, <1>4, <1>5, <1>6

LEMMA CompleteStageControl ==
  ASSUME ControlInv, NEW p \in Proc, CompleteStage(p)
  PROVE  Control'
<1>1. PICK r \in Run, s \in Stage : r = run[p] /\ s = at[p]
  BY InItsRun DEF CompleteStage, Serving
<1>2. /\ runs[r] = "running" /\ RunOK(r)
      /\ \A t \in Stage : t < s => Succeeded(r, t)
      /\ \A t \in Stage : t > s => attempts[r][t] = << >>
  BY <1>1, InItsRun DEF CompleteStage, Serving, Position
<1>3. PICK row \in Attempt : row.status = "succeeded" /\ Settle(run[p], at[p], attempt[p], row)
  <2>1. [status |-> "succeeded", outputs |-> verdict[p].outputs] \in Attempt
    BY DEF Attempt, Settled, ControlInv, TypeOK
  <2> QED
    BY <2>1 DEF CompleteStage, completeStage
<1>4. /\ attempts'[r][s] = <<row>>
      /\ \A t \in Run, u \in Stage : t # r \/ u # s => attempts'[t][u] = attempts[t][u]
      /\ runs' = runs
  <2>1. Serving(p)
    BY DEF CompleteStage, Serving
  <2>2. /\ attempts'[run[p]][at[p]] = <<row>>
        /\ \A t \in Run, u \in Stage : t # run[p] \/ u # at[p] => attempts'[t][u] = attempts[t][u]
        /\ runs' = runs
    BY <1>3, <2>1, ServedSettled
  <2> QED
    BY <1>1, <2>2
<1>5. /\ run'[p] = r /\ at'[p] = s + 1 /\ pc'[p] = "next"
      /\ \A q \in Proc : q # p => /\ pc'[q] = pc[q] /\ run'[q] = run[q]
                                  /\ at'[q] = at[q] /\ attempt'[q] = attempt[q]
  BY <1>1 DEF CompleteStage, Goto, ControlInv, TypeOK
<1>6. /\ \A t \in Stage : t # s => (Succeeded(r, t)' <=> Succeeded(r, t))
      /\ Succeeded(r, s)'
  BY <1>1, <1>3, <1>4 DEF Succeeded
<1>7. ProcOK(p)'
  <2>1. Position(p)'
    BY <1>1, <1>2, <1>4, <1>5, <1>6 DEF Position, Between
  <2> QED
    BY <1>1, <1>2, <1>4, <1>5, <2>1 DEF ProcOK, Between, Serving
<1>8. RunOK(r)'
  <2>1. Len(attempts'[r][s]) <= 1
    BY <1>1, <1>4
  <2>2. \A t \in Stage : t # s => Len(attempts'[r][t]) <= 1
    BY <1>1, <1>2, <1>4 DEF RunOK
  <2>3. \A t \in Stage : t > s => attempts'[r][t] = << >>
    BY <1>1, <1>2, <1>4
  <2>4. ASSUME NEW t \in Stage, attempts'[r][t] # << >>, NEW u \in Stage, u < t
        PROVE  Succeeded(r, u)'
    BY <1>1, <1>2, <1>6, <2>3, <2>4
  <2>5. ASSUME NEW t \in Stage PROVE Len(attempts'[r][t]) <= 1
    <3>1. CASE t = s
      BY <2>1, <3>1
    <3>2. CASE t # s
      BY <2>2, <3>2
    <3> QED
      BY <3>1, <3>2
  <2>6. runs'[r] = "running"
    BY <1>2, <1>4
  <2> QED
    BY <2>4, <2>5, <2>6 DEF RunOK
<1> QED
  BY <1>1, <1>4, <1>5, <1>7, <1>8, LocalStep

LEMMA FailStageControl ==
  ASSUME ControlInv, NEW p \in Proc, FailStage(p)
  PROVE  Control'
<1>1. PICK r \in Run, s \in Stage : r = run[p] /\ s = at[p]
  BY InItsRun DEF FailStage, Serving
<1>2. /\ runs[r] = "running" /\ RunOK(r)
      /\ \A t \in Stage : t < s => Succeeded(r, t)
      /\ \A t \in Stage : t > s => attempts[r][t] = << >>
      /\ Len(attempts[r][s]) = 1
  BY <1>1, InItsRun DEF FailStage, Serving, Position, Service
<1>3. /\ run'[p] = r /\ pc'[p] = "failing"
      /\ \A q \in Proc : q # p => /\ pc'[q] = pc[q] /\ run'[q] = run[q]
                                  /\ at'[q] = at[q] /\ attempt'[q] = attempt[q]
  BY <1>1 DEF FailStage, AfterFailure, Goto, ControlInv, TypeOK
<1>4. /\ \A t \in Run, u \in Stage : t # r \/ u # s => attempts'[t][u] = attempts[t][u]
      /\ Len(attempts'[r][s]) = 1
      /\ runs' = runs
  <2>1. CASE failStage(run[p], at[p], attempt[p])
    <3>1. [Started EXCEPT !.status = "failed"] \in Attempt
      BY DEF Started, Attempt, Settled
    <3>2. PICK row \in Attempt : Settle(r, s, attempt[p], row)
      BY <1>1, <2>1, <3>1 DEF failStage
    <3>3. /\ attempts'[r][s] = <<row>> /\ runs' = runs
          /\ \A t \in Run, u \in Stage : t # r \/ u # s => attempts'[t][u] = attempts[t][u]
      BY <1>1, <3>2, ServedSettled DEF FailStage, Serving
    <3> QED
      BY <1>1, <3>3
  <2>2. CASE UNCHANGED storeVars
    BY <1>1, <1>2, <2>2 DEF storeVars
  <2> QED
    BY <1>1, <2>1, <2>2 DEF FailStage
<1>5. ProcOK(p)'
  BY <1>1, <1>2, <1>3, <1>4 DEF ProcOK, Between, Serving
<1>6. RunOK(r)'
  <2>1. \A t \in Stage : t # s => (Succeeded(r, t)' <=> Succeeded(r, t))
    BY <1>1, <1>4 DEF Succeeded
  <2>2. \A t \in Stage : t # s => Len(attempts'[r][t]) <= 1
    BY <1>1, <1>2, <1>4 DEF RunOK
  <2>3. \A t \in Stage : t > s => attempts'[r][t] = << >>
    BY <1>1, <1>2, <1>4
  <2>4. ASSUME NEW t \in Stage, attempts'[r][t] # << >>, NEW u \in Stage, u < t
        PROVE  Succeeded(r, u)'
    BY <1>1, <1>2, <2>1, <2>3, <2>4
  <2> QED
    BY <1>1, <1>2, <1>4, <2>2, <2>4 DEF RunOK
<1> QED
  BY <1>1, <1>3, <1>4, <1>5, <1>6, LocalStep

\* A process that leaves its run behind, settled or not.
LEMMA LeaveLedger ==
  ASSUME ControlInv, NEW p \in Proc, pc[p] # "idle", Leave(p), NEW r \in Run, r = run[p],
         \A t \in Run : t # r => /\ runs'[t] = runs[t]
                                 /\ \A s \in Stage : attempts'[t][s] = attempts[t][s],
         RunOK(r)'
  PROVE  Control'
<1>1. /\ pc'[p] = "idle" /\ run'[p] = None
      /\ \A q \in Proc : q # p => /\ pc'[q] = pc[q] /\ run'[q] = run[q]
                                  /\ at'[q] = at[q] /\ attempt'[q] = attempt[q]
  BY DEF Leave, ControlInv, TypeOK
<1>2. ProcOK(p)'
  BY <1>1 DEF ProcOK, Between, Serving
<1> QED
  BY <1>1, <1>2, LocalStep

LEMMA CompleteRunControl ==
  ASSUME ControlInv, NEW p \in Proc, CompleteRun(p)
  PROVE  Control'
<1>1. PICK r \in Run : r = run[p]
  BY InItsRun DEF CompleteRun
<1>2. /\ \A s \in Stage : Succeeded(r, s)
      /\ runs'[r] = "succeeded" /\ attempts' = attempts
      /\ \A t \in Run : t # r => runs'[t] = runs[t]
  BY <1>1 DEF CompleteRun, completeRun, ControlInv, TypeOK, StoreTypeOK
<1>3. \A s \in Stage : Succeeded(r, s)'
  BY <1>2 DEF Succeeded
<1>4. \A s \in Stage : Len(attempts[r][s]) <= 1
  BY <1>1 DEF ControlInv, Control, RunOK
<1>5. RunOK(r)'
  BY <1>2, <1>3, <1>4 DEF RunOK
<1>6. pc[p] # "idle" /\ Leave(p)
  BY DEF CompleteRun
<1> QED
  BY <1>1, <1>2, <1>5, <1>6, LeaveLedger

LEMMA FailRunControl ==
  ASSUME ControlInv, NEW p \in Proc, FailRun(p)
  PROVE  Control'
<1>1. PICK r \in Run : r = run[p] /\ runs[r] = "running" /\ RunOK(r)
  BY InItsRun DEF FailRun
<1>2. pc[p] # "idle" /\ Leave(p)
  BY DEF FailRun
<1>3. CASE UNCHANGED storeVars
  BY <1>2, <1>3, LeaveControl
<1>4. CASE failRun(run[p])
  <2>1. StoreTypeOK /\ failRun(r)
    BY <1>1, <1>4 DEF ControlInv, TypeOK
  <2>2. /\ \A s \in Stage : attempts'[r][s] = Swept(attempts[r][s])
        /\ \A t \in Run : t # r => attempts'[t] = attempts[t]
    BY <1>1, <2>1, SweptRun
  <2>3. runs'[r] = "failed" /\ \A t \in Run : t # r => runs'[t] = runs[t]
    BY <1>1, <2>1 DEF failRun, StoreTypeOK
  <2>4. ASSUME NEW s \in Stage
        PROVE  /\ attempts[r][s] \in Seq(Attempt)
               /\ attempts'[r][s] = Swept(attempts[r][s])
               /\ Len(attempts'[r][s]) = Len(attempts[r][s])
               /\ \A n \in DOMAIN attempts[r][s] : attempts[r][s][n].status # "running"
                                                => attempts'[r][s][n] = attempts[r][s][n]
    <3>1. attempts[r][s] \in Seq(Attempt)
      BY <1>1, <2>1 DEF StoreTypeOK
    <3> QED
      BY <2>2, <3>1, SweptTries
  <2>5. ASSUME NEW s \in Stage PROVE attempts'[r][s] = << >> <=> attempts[r][s] = << >>
    <3>1. attempts'[r][s] \in Seq(Attempt)
      BY <2>4, SweptTries
    <3>2. \A tries \in Seq(Attempt) : Len(tries) = 0 <=> tries = << >>
      OBVIOUS
    <3> QED
      BY <2>4, <3>1, <3>2
  <2>6. ASSUME NEW s \in Stage, Succeeded(r, s) PROVE Succeeded(r, s)'
    <3>1. attempts[r][s] # << >> /\ attempts[r][s][Len(attempts[r][s])].status = "succeeded"
      BY <2>6 DEF Succeeded
    <3>2. Len(attempts[r][s]) \in DOMAIN attempts[r][s]
      BY <2>4, <3>1
    <3>3. attempts'[r][s] # << >> /\ Len(attempts'[r][s]) = Len(attempts[r][s])
      BY <2>4, <2>5, <3>1
    <3>4. attempts'[r][s][Len(attempts[r][s])] = attempts[r][s][Len(attempts[r][s])]
      BY <2>4, <3>1, <3>2
    <3> QED
      BY <3>1, <3>3, <3>4 DEF Succeeded
  <2>7. RunOK(r)'
    <3>1. \A s \in Stage : Len(attempts'[r][s]) <= 1
      BY <1>1, <2>4 DEF RunOK
    <3>2. ASSUME NEW s \in Stage, attempts'[r][s] # << >>, NEW t \in Stage, t < s
          PROVE  Succeeded(r, t)'
      BY <1>1, <2>5, <2>6, <3>2 DEF RunOK
    <3> QED
      BY <2>3, <3>1, <3>2 DEF RunOK
  <2> QED
    BY <1>1, <1>2, <2>2, <2>3, <2>7, LeaveLedger
<1> QED
  BY <1>3, <1>4 DEF FailRun

LEMMA ControlStep == ControlInv /\ [Next]_vars => Control'
<1> SUFFICES ASSUME ControlInv, [Next]_vars PROVE Control'
  OBVIOUS
<1>1. CASE UNCHANGED vars
  <2>1. \A q \in Proc : ProcOK(q)'
    BY <1>1, SameProc DEF ControlInv, Control, vars
  <2>2. \A r \in Run : RunOK(r)'
    BY <1>1, SameRun DEF ControlInv, Control, vars
  <2> QED
    BY <1>1, <2>1, <2>2 DEF ControlInv, Control, OneOwner, vars
<1>2. ASSUME NEW p \in Proc, Crash(p) PROVE Control'
  BY <1>2, LeaveControl DEF Crash
<1> QED
  BY <1>1, <1>2, BrokerControlStep, QuietControlStep, StartRunControl, BeginStageControl,
     CompleteStageControl, FailStageControl, CompleteRunControl, FailRunControl
     DEF Next, Executor, Environment, BrokerStep

-----------------------------------------------------------------------------
(* Ledger and artifact store. *)

LEMMA ArtifactInitially == Init => ArtifactInv
  BY DEF Init, StoreInit, ArtifactInv, Outputs, Quiet, Clean, SettledStageIsClean, ArtifactsBacked,
         Serving, Busy, InFlight, NoOutputs, Tracked

\* The attempt that is served is running.
LEMMA ServedRuns ==
  ASSUME ControlInv, NEW p \in Proc, Serving(p)
  PROVE  /\ run[p] \in Run /\ at[p] \in Stage /\ RunningIn(attempts[run[p]][at[p]])
         /\ \A s \in Stage : s # at[p] => ~ RunningIn(attempts[run[p]][s])
<1>1. /\ run[p] \in Run /\ at[p] \in Stage /\ Position(p) /\ Service(p) /\ RunOK(run[p])
  BY InItsRun DEF Serving
<1>2. \A s \in Stage : attempts[run[p]][s] \in Seq(Attempt) /\ Len(attempts[run[p]][s]) <= 1
  BY <1>1 DEF RunOK, ControlInv, TypeOK, StoreTypeOK
<1>3. RunningIn(attempts[run[p]][at[p]])
  <2>1. 1 \in DOMAIN attempts[run[p]][at[p]]
    BY <1>1, <1>2 DEF Service
  <2> QED
    BY <1>1, <2>1 DEF Service, RunningIn
<1>4. ASSUME NEW s \in Stage, s # at[p] PROVE ~ RunningIn(attempts[run[p]][s])
  <2>1. CASE attempts[run[p]][s] = << >>
    BY <2>1 DEF RunningIn
  <2>2. CASE Succeeded(run[p], s)
    <3>1. \A n \in DOMAIN attempts[run[p]][s] : n = Len(attempts[run[p]][s])
      BY <1>2
    <3> QED
      BY <2>2, <3>1 DEF Succeeded, RunningIn
  <2> QED
    BY <1>1, <1>4, <2>1, <2>2 DEF Position
<1> QED
  BY <1>1, <1>3, <1>4

\* What a step of a plugin or of the broker does to one output and its files.
Effect(p, o) ==
  /\ \A q \in Proc, x \in Port : q # p \/ x # o => out'[q][x] = out[q][x]
  /\ \A q \in Proc : q # p => read'[q] = read[q]
  /\ \A a : a # Own(p, o) => (a \in Tracked' <=> a \in Tracked)
  /\ staging' \subseteq staging \cup {Own(p, o)}
  /\ objects \subseteq objects'
  /\ manifests \subseteq manifests' /\ manifests' \subseteq manifests \cup {Own(p, o)}
  /\ out'[p][o] \in {"free", "finalized"} => Own(p, o) \notin Tracked'
  /\ out'[p][o] = "linked" => Content[<<at[p], o>>] \in objects'
  /\ out'[p][o] = "removing" => Own(p, o) \in manifests'
  /\ out'[p][o] = "finalized" => <<at[p], o>> \in Ephemeral \/ Own(p, o) \in manifests'
  /\ Own(p, o) \in manifests' \ manifests => Content[<<at[p], o>>] \in objects'

NoEffect(p) == UNCHANGED <<out, files>> /\ \A q \in Proc : q # p => read'[q] = read[q]

LEMMA BrokerServes ==
  ASSUME Quiet, NEW p \in Proc, BrokerStep(p)
  PROVE  pc[p] \in {"invoked", "closing"}
  BY DEF Quiet, BrokerStep, Operation, PluginCall, EndRead, WriteStaged, KeepUntracked, RemoveWritten,
         LinkObject, LinkManifest, RemoveStaged, FailOutput, StartRead, RejectOutput, StageJson,
         FinalizeEphemeral, StartCommit, RefuseForbidden, Claimable, Open, Busy, InFlight

LEMMA BrokerEffect ==
  ASSUME ControlInv, Outputs, Quiet, NEW p \in Proc, BrokerStep(p)
  PROVE  NoEffect(p) \/ \E o \in Port : Effect(p, o)
<1>1. ASSUME NEW o \in Port
      PROVE  /\ out[p][o] \in {"free", "finalized"} => Own(p, o) \notin Tracked
             /\ out[p][o] = "linked" => Content[<<at[p], o>>] \in objects
             /\ out[p][o] = "removing" => Own(p, o) \in manifests
  BY BrokerServes DEF Outputs, Serving
<1>2. out \in [Proc -> [Port -> OutputStates]] /\ read \in [Proc -> ReadStates]
  BY DEF ControlInv, TypeOK
<1>3. CASE EndRead(p) \/ StartRead(p)
  BY <1>2, <1>3 DEF EndRead, StartRead, NoEffect, files, Tracked
<1>4. ASSUME NEW o \in Port, RefuseForbidden(p, o) PROVE NoEffect(p)
  BY <1>2, <1>4 DEF RefuseForbidden, NoEffect, files, Tracked
<1> USE DEF Effect, MoveOutput, MoveRead, IfOpen, files, Tracked
<1>5. ASSUME NEW o \in Port, RejectOutput(p, o) \/ StageJson(p, o) PROVE Effect(p, o)
  BY <1>2, <1>5 DEF RejectOutput, StageJson
<1>6. ASSUME NEW o \in Port, FinalizeEphemeral(p, o) PROVE Effect(p, o)
  BY <1>1, <1>2, <1>6 DEF FinalizeEphemeral, Claimable
<1>7. ASSUME NEW o \in Port, StartCommit(p, o) PROVE Effect(p, o)
  BY <1>2, <1>7 DEF StartCommit
<1>8. ASSUME NEW o \in Port, WriteStaged(p, o) \/ RemoveWritten(p, o) PROVE Effect(p, o)
  BY <1>2, <1>8 DEF WriteStaged, RemoveWritten
<1>13. ASSUME NEW o \in Port, KeepUntracked(p, o) PROVE Effect(p, o)
  BY <1>2, <1>13 DEF KeepUntracked
<1>9. ASSUME NEW o \in Port, LinkObject(p, o) PROVE Effect(p, o)
  BY <1>2, <1>9 DEF LinkObject
<1>10. ASSUME NEW o \in Port, LinkManifest(p, o) PROVE Effect(p, o)
  BY <1>1, <1>2, <1>10 DEF LinkManifest
<1>11. ASSUME NEW o \in Port, RemoveStaged(p, o) PROVE Effect(p, o)
  BY <1>1, <1>2, <1>11 DEF RemoveStaged
<1>12. ASSUME NEW o \in Port, FailOutput(p, o) PROVE Effect(p, o)
  BY <1>2, <1>12 DEF FailOutput
<1> HIDE DEF Effect, MoveOutput, MoveRead, IfOpen, files, Tracked
<1> QED
  BY <1>3, <1>4, <1>5, <1>6, <1>7, <1>8, <1>9, <1>10, <1>11, <1>12, <1>13
     DEF BrokerStep, Operation, PluginCall

\* The files of one process's stage are not those of another's.
LEMMA OtherOwn ==
  ASSUME ControlInv, NEW p \in Proc, pc[p] # "idle", NEW q \in Proc, q # p, pc[q] # "idle"
  PROVE  run[q] # run[p] /\ \A x, o \in Port : Own(q, x) # Own(p, o)
<1>1. run[q] # run[p]
  BY InItsRun DEF ControlInv, Control, OneOwner
<1> QED
  BY <1>1 DEF Own

LEMMA BrokerArtifacts ==
  ASSUME ControlInv, ArtifactInv, NEW p \in Proc, BrokerStep(p)
  PROVE  ArtifactInv'
<1> USE DEF ArtifactInv
<1>1. UNCHANGED <<storeVars, executor>>
  BY BrokerFrame
<1>2. /\ pc[p] \in {"invoked", "closing"} /\ Serving(p)
      /\ RunningIn(attempts[run[p]][at[p]])
  BY BrokerServes, ServedRuns DEF Serving
<1>3. pc' = pc /\ run' = run /\ at' = at /\ attempts' = attempts
  BY <1>1 DEF executor, storeVars
<1>4. CASE NoEffect(p)
  <2>1. UNCHANGED <<out, Tracked, objects, manifests>> /\ \A q \in Proc : q # p => read'[q] = read[q]
    BY <1>4 DEF NoEffect, files, Tracked
  <2>2. Outputs'
    BY <1>3, <2>1 DEF Outputs, Serving, Own
  <2>3. Quiet'
    BY <1>2, <1>3, <2>1 DEF Quiet, Busy
  <2>4. Clean' /\ SettledStageIsClean' /\ ArtifactsBacked'
    BY <1>3, <2>1 DEF Clean, SettledStageIsClean, ArtifactsBacked
  <2> QED
    BY <2>2, <2>3, <2>4
<1>5. ASSUME NEW o \in Port, Effect(p, o) PROVE ArtifactInv'
  <2>1. Own(p, o)[1] = run[p] /\ Own(p, o)[2] = at[p] /\ Own(p, o)[3] = o
    BY DEF Own
  <2>2. \A q \in Proc, x \in Port : Own(q, x)' = Own(q, x)
    BY <1>3 DEF Own
  <2>3. Outputs'
    <3> SUFFICES ASSUME NEW q \in Proc, Serving(q), NEW x \in Port
                 PROVE  /\ out'[q][x] \in {"free", "finalized"} => Own(q, x) \notin Tracked'
                        /\ out'[q][x] = "linked" => Content[<<at[q], x>>] \in objects'
                        /\ out'[q][x] = "removing" => Own(q, x) \in manifests'
                        /\ out'[q][x] = "finalized" => \/ <<at[q], x>> \in Ephemeral
                                                       \/ Own(q, x) \in manifests'
      BY <1>3, <2>2 DEF Outputs, Serving
    <3>1. CASE q = p /\ x = o
      BY <1>5, <3>1 DEF Effect
    <3>2. CASE q # p \/ x # o
      <4>1. Own(q, x) # Own(p, o)
        <5>1. CASE q = p
          BY <3>2, <5>1 DEF Own
        <5>2. CASE q # p
          BY <1>2, <5>2, OtherOwn DEF Serving
        <5> QED
          BY <5>1, <5>2
      <4>2. out'[q][x] = out[q][x] /\ (Own(q, x) \in Tracked' <=> Own(q, x) \in Tracked)
        BY <1>5, <3>2, <4>1 DEF Effect
      <4> QED
        BY <1>5, <4>2 DEF Outputs, Effect
    <3> QED
      BY <3>1, <3>2
  <2>4. Quiet'
    BY <1>2, <1>3, <1>5 DEF Quiet, Busy, Effect
  <2>5. Clean'
    <3> SUFFICES ASSUME NEW q \in Proc, pc[q] \notin {"idle", "invoked", "closing"},
                        NEW a \in Tracked'
                 PROVE  a[1] # run[q]
      BY <1>3 DEF Clean
    <3>1. CASE a = Own(p, o)
      BY <1>2, <2>1, <3>1, OtherOwn
    <3>2. CASE a # Own(p, o)
      BY <1>5, <3>2 DEF Clean, Effect
    <3> QED
      BY <3>1, <3>2
  <2>6. SettledStageIsClean'
    <3> SUFFICES ASSUME NEW a \in Tracked' PROVE RunningIn(attempts[a[1]][a[2]])
      BY <1>3 DEF SettledStageIsClean, RunningIn
    <3>1. CASE a = Own(p, o)
      BY <1>2, <2>1, <3>1
    <3>2. CASE a # Own(p, o)
      BY <1>5, <3>2 DEF SettledStageIsClean, Effect
    <3> QED
      BY <3>1, <3>2
  <2>7. ArtifactsBacked'
    <3>1. ASSUME NEW m \in manifests' PROVE Content[<<m[2], m[3]>>] \in objects'
      BY <1>5, <2>1 DEF ArtifactsBacked, Effect
    <3> QED
      BY <1>3, <1>5, <3>1 DEF ArtifactsBacked, Effect
  <2> QED
    BY <2>3, <2>4, <2>5, <2>6, <2>7
<1> QED
  BY <1>4, <1>5, BrokerEffect

\* What a step of the executor leaves alone.
LEMMA ExecutorFrame ==
  ASSUME ControlInv, NEW p \in Proc, Executor(p) \/ Environment(p)
  PROVE  /\ objects' = objects /\ manifests' = manifests /\ Tracked' \subseteq Tracked
         /\ staging' \subseteq staging
         /\ \A q \in Proc : q # p => /\ pc'[q] = pc[q] /\ run'[q] = run[q] /\ at'[q] = at[q]
                                     /\ out'[q] = out[q] /\ read'[q] = read[q]
<1> USE DEF ControlInv, TypeOK
<1>1. CASE EnterStage(p) \/ RefuseStage(p) \/ TimeOut(p) \/ AbortRun(p) \/ CompleteRunThrows(p)
           \/ CompleteStage(p) \/ FailStage(p)
  BY <1>1 DEF EnterStage, RefuseStage, TimeOut, AbortRun, CompleteRunThrows, CompleteStage,
              FailStage, Goto, broker, files, Tracked
<1>2. CASE BeginStage(p)
  BY <1>2 DEF BeginStage, Goto, files, Tracked
<1>3. CASE CloseBroker(p)
  BY <1>3 DEF CloseBroker, Goto, broker, Tracked
<1>4. CASE CompleteRun(p) \/ FailRun(p)
  BY <1>4 DEF CompleteRun, FailRun, Leave, files, Tracked
<1>5. CASE Crash(p)
  BY <1>5 DEF Crash, Leave, files, Tracked
<1>6. CASE PluginReturns(p)
  BY <1>6 DEF PluginReturns, Goto, broker, files, Tracked
<1>7. ASSUME NEW r \in Run, StartRun(p, r)
      PROVE  /\ objects' = objects /\ manifests' = manifests /\ Tracked' \subseteq Tracked
             /\ staging' \subseteq staging
             /\ \A q \in Proc : q # p => /\ pc'[q] = pc[q] /\ run'[q] = run[q] /\ at'[q] = at[q]
                                         /\ out'[q] = out[q] /\ read'[q] = read[q]
  BY <1>7 DEF StartRun, Goto, broker, files, Tracked
<1> QED
  BY <1>1, <1>2, <1>3, <1>4, <1>5, <1>6, <1>7 DEF Executor, Environment

OutputsOf(p) == \A o \in Port :
  /\ out[p][o] \in {"free", "finalized"} => Own(p, o) \notin Tracked
  /\ out[p][o] = "linked" => Content[<<at[p], o>>] \in objects
  /\ out[p][o] = "removing" => Own(p, o) \in manifests
  /\ out[p][o] = "finalized" => <<at[p], o>> \in Ephemeral \/ Own(p, o) \in manifests

\* It is enough to look at the process that takes the step.
LEMMA OneProcess ==
  ASSUME ControlInv, Outputs, Quiet, Clean, NEW p \in Proc, Executor(p) \/ Environment(p),
         Serving(p)' => OutputsOf(p)',
         pc'[p] \notin {"invoked", "closing"} => ~ Busy(p)',
         pc'[p] \notin {"idle", "invoked", "closing"} => \A a \in Tracked' : a[1] # run'[p]
  PROVE  Outputs' /\ Quiet' /\ Clean'
<1>1. ASSUME NEW q \in Proc, Serving(q)' PROVE OutputsOf(q)'
  <2>1. CASE q # p
    <3>1. /\ Serving(q) /\ out'[q] = out[q] /\ at'[q] = at[q] /\ run'[q] = run[q]
          /\ objects' = objects /\ manifests' = manifests /\ Tracked' \subseteq Tracked
      BY <1>1, <2>1, ExecutorFrame DEF Serving
    <3>2. \A o \in Port : Own(q, o)' = Own(q, o)
      BY <3>1 DEF Own
    <3>3. OutputsOf(q)
      BY <3>1 DEF Outputs, OutputsOf
    <3> QED
      BY <3>1, <3>2, <3>3 DEF OutputsOf
  <2> QED
    BY <1>1, <2>1
<1>2. Outputs'
  BY <1>1 DEF Outputs, OutputsOf
<1>3. ASSUME NEW q \in Proc, q # p
      PROVE  /\ pc'[q] \notin {"invoked", "closing"} => ~ Busy(q)'
             /\ pc'[q] \notin {"idle", "invoked", "closing"} => \A a \in Tracked' : a[1] # run'[q]
  <2>1. /\ pc'[q] = pc[q] /\ run'[q] = run[q] /\ out'[q] = out[q] /\ read'[q] = read[q]
        /\ Tracked' \subseteq Tracked
    BY <1>3, ExecutorFrame
  <2>2. Busy(q)' <=> Busy(q)
    BY <2>1 DEF Busy
  <2> QED
    BY <2>1, <2>2 DEF Quiet, Clean
<1>4. Quiet' /\ Clean'
  BY <1>3 DEF Quiet, Clean
<1> QED
  BY <1>2, <1>4

\* A step after which no stage is served, and none of the run is in the files either.
LEMMA Unserved ==
  ASSUME ControlInv, ArtifactInv, NEW p \in Proc,
         \/ EnterStage(p) \/ RefuseStage(p) \/ CompleteRunThrows(p) \/ CompleteStage(p)
         \/ FailStage(p) \/ CompleteRun(p) \/ FailRun(p) \/ Crash(p)
         \/ \E r \in Run : StartRun(p, r)
  PROVE  Outputs' /\ Quiet' /\ Clean'
<1> USE DEF ArtifactInv
<1>1. Executor(p) \/ Environment(p)
  BY DEF Executor, Environment
<1>2. CASE CompleteRun(p) \/ FailRun(p) \/ Crash(p)
  <2>1. Leave(p)
    BY <1>2 DEF CompleteRun, FailRun, Crash
  <2>2. pc'[p] = "idle" /\ read'[p] = "none" /\ out'[p] = NoOutputs
    BY <2>1 DEF Leave, ControlInv, TypeOK
  <2>3. ~ Busy(p)'
    BY <2>2 DEF Busy, NoOutputs, InFlight
  <2>4. ~ Serving(p)'
    BY <2>2 DEF Serving
  <2> QED
    BY <1>1, <2>2, <2>3, <2>4, OneProcess
<1>3. CASE EnterStage(p) \/ RefuseStage(p) \/ CompleteRunThrows(p) \/ CompleteStage(p)
           \/ FailStage(p)
  <2>1. /\ pc[p] \in {"next", "admitting", "closed"} /\ pc'[p] \in {"next", "admitting", "failing"}
        /\ UNCHANGED <<run, read, out, Tracked>>
    BY <1>3 DEF EnterStage, RefuseStage, CompleteRunThrows, CompleteStage, FailStage, Goto,
                AfterFailure, broker, files, Tracked, ControlInv, TypeOK
  <2>2. ~ Busy(p)' /\ ~ Serving(p)'
    BY <2>1 DEF Quiet, Busy, Serving
  <2>3. \A a \in Tracked' : a[1] # run'[p]
    BY <2>1 DEF Clean
  <2> QED
    BY <1>1, <2>2, <2>3, OneProcess
<1>4. ASSUME NEW r \in Run, StartRun(p, r) PROVE Outputs' /\ Quiet' /\ Clean'
  <2>1. /\ pc[p] = "idle" /\ pc'[p] = "next" /\ run'[p] = r /\ runs[r] = "absent"
        /\ UNCHANGED <<read, out, Tracked>>
    BY <1>4 DEF StartRun, beginRun, Goto, broker, files, Tracked, ControlInv, TypeOK
  <2>2. ~ Busy(p)' /\ ~ Serving(p)'
    BY <2>1 DEF Quiet, Busy, Serving
  <2>3. ASSUME NEW a \in Tracked PROVE a[1] # r
    <3>1. a[2] \in Stage /\ RunningIn(attempts[a[1]][a[2]])
      BY DEF SettledStageIsClean, ControlInv, TypeOK, Artifacts, Tracked
    <3>2. \A s \in Stage : attempts[r][s] = << >>
      BY <2>1 DEF ControlInv, Control, RunOK
    <3>3. ~ RunningIn(<< >>)
      BY DEF RunningIn
    <3> QED
      BY <3>1, <3>2, <3>3
  <2> QED
    BY <1>1, <2>1, <2>2, <2>3, OneProcess
<1> QED
  BY <1>2, <1>3, <1>4

LEMMA StillServed ==
  ASSUME ControlInv, ArtifactInv, NEW p \in Proc, TimeOut(p) \/ PluginReturns(p) \/ AbortRun(p)
  PROVE  Outputs' /\ Quiet' /\ Clean'
<1> USE DEF ArtifactInv
<1>1. Executor(p) \/ Environment(p)
  BY DEF Executor, Environment
<1>2. /\ UNCHANGED <<run, at, read, out, Tracked, objects, manifests>>
      /\ pc[p] # "idle"
      /\ IF pc[p] = "invoked" THEN pc'[p] = "closing" ELSE pc'[p] = pc[p]
  BY DEF TimeOut, PluginReturns, AbortRun, Goto, broker, files, Tracked, ControlInv, TypeOK
<1>3. Serving(p)' => OutputsOf(p)'
  BY <1>2 DEF Serving, Outputs, OutputsOf, Own
<1>4. pc'[p] \notin {"invoked", "closing"} => ~ Busy(p)'
  BY <1>2 DEF Quiet, Busy
<1>5. pc'[p] \notin {"idle", "invoked", "closing"} => \A a \in Tracked' : a[1] # run'[p]
  BY <1>2 DEF Clean
<1> QED
  BY <1>1, <1>3, <1>4, <1>5, OneProcess

LEMMA BeginStageArtifacts ==
  ASSUME ControlInv, ArtifactInv, NEW p \in Proc, BeginStage(p)
  PROVE  Outputs' /\ Quiet' /\ Clean'
<1> USE DEF ArtifactInv
<1>1. Executor(p) \/ Environment(p)
  BY DEF Executor
<1>2. /\ pc[p] = "admitting" /\ pc'[p] \in {"invoked", "closing"}
      /\ out'[p] = NoOutputs
      /\ UNCHANGED <<run, at, Tracked>>
  BY DEF BeginStage, Goto, Invoked, files, Tracked, ControlInv, TypeOK
<1>3. \A o \in Port : Own(p, o)' \notin Tracked'
  BY <1>2 DEF Own, Clean
<1>4. OutputsOf(p)'
  BY <1>2, <1>3 DEF OutputsOf, NoOutputs
<1> QED
  BY <1>1, <1>2, <1>4, OneProcess

LEMMA CloseBrokerArtifacts ==
  ASSUME ControlInv, ArtifactInv, NEW p \in Proc, CloseBroker(p)
  PROVE  Outputs' /\ Quiet' /\ Clean'
<1> USE DEF ArtifactInv
<1>1. Executor(p) \/ Environment(p)
  BY DEF Executor
<1>2. /\ pc[p] = "closing" /\ pc'[p] = "closed" /\ Serving(p) /\ ~ Busy(p)
      /\ UNCHANGED <<run, at, read, out, objects, manifests>>
      /\ Tracked' = Tracked \ Unfinalized(p)
  BY DEF CloseBroker, Drained, Goto, broker, Serving, Unfinalized, Tracked, ControlInv, TypeOK
<1>3. OutputsOf(p)'
  <2>1. OutputsOf(p)
    BY <1>2 DEF Outputs, OutputsOf
  <2>2. \A o \in Port : Own(p, o)' = Own(p, o)
    BY <1>2 DEF Own
  <2> QED
    BY <1>2, <2>1, <2>2 DEF OutputsOf
<1>4. ~ Busy(p)'
  BY <1>2 DEF Busy
<1>5. ASSUME NEW a \in Tracked' PROVE a[1] # run'[p]
  <2> SUFFICES ASSUME a[1] = run[p] PROVE FALSE
    BY <1>2
  <2>1. a \in Tracked /\ a \in Artifacts
    BY <1>2 DEF ControlInv, TypeOK, Tracked
  <2>2. a[2] \in Stage /\ a[3] \in Port /\ a = <<a[1], a[2], a[3]>>
    BY <2>1 DEF Artifacts
  <2>3. RunningIn(attempts[a[1]][a[2]])
    BY <2>1 DEF SettledStageIsClean
  <2>4. a[2] = at[p]
    BY <1>2, <2>2, <2>3, ServedRuns
  <2>5. a = Own(p, a[3])
    BY <2>2, <2>4 DEF Own
  <2>6. out[p][a[3]] # "finalized"
    BY <1>2, <2>1, <2>2, <2>5 DEF Outputs
  <2> QED
    BY <1>2, <2>1, <2>2, <2>5, <2>6 DEF Unfinalized, Finalized, Tracked
<1> QED
  BY <1>1, <1>2, <1>3, <1>4, <1>5, OneProcess

-----------------------------------------------------------------------------
\* The ledger's side: what is staged belongs to a running attempt, what is recorded was
\* published.
LEMMA LedgerFiles ==
  ASSUME ControlInv, ArtifactInv, NEW p \in Proc, Executor(p) \/ Environment(p),
         NEW r \in Run,
         \A t \in Run : t # r => \A s \in Stage : attempts'[t][s] = attempts[t][s],
         attempts' = attempts \/ \A a \in Tracked' : a[1] # r,
         \A s \in Stage : \A n \in DOMAIN attempts'[r][s] :
           attempts'[r][s][n].status = "succeeded" =>
             \/ n \in DOMAIN attempts[r][s] /\ attempts'[r][s][n] = attempts[r][s][n]
             \/ \A o \in attempts'[r][s][n].outputs :
                  <<s, o>> \in Ephemeral \/ <<r, s, o>> \in manifests
  PROVE  SettledStageIsClean' /\ ArtifactsBacked'
<1>1. objects' = objects /\ manifests' = manifests /\ Tracked' \subseteq Tracked
  BY ExecutorFrame
<1>2. SettledStageIsClean'
  <2> SUFFICES ASSUME NEW a \in Tracked' PROVE RunningIn(attempts'[a[1]][a[2]])
    BY DEF SettledStageIsClean, RunningIn
  <2>1. a[1] \in Run /\ a[2] \in Stage /\ RunningIn(attempts[a[1]][a[2]])
    BY <1>1 DEF ArtifactInv, SettledStageIsClean, ControlInv, TypeOK, Artifacts, Tracked
  <2>2. attempts'[a[1]][a[2]] = attempts[a[1]][a[2]]
    BY <2>1
  <2> QED
    BY <2>1, <2>2
<1>3. ASSUME NEW t \in Run, NEW s \in Stage, NEW n \in DOMAIN attempts'[t][s],
             attempts'[t][s][n].status = "succeeded", NEW o \in attempts'[t][s][n].outputs
      PROVE  <<s, o>> \in Ephemeral \/ <<t, s, o>> \in manifests
  <2>1. CASE n \in DOMAIN attempts[t][s] /\ attempts'[t][s][n] = attempts[t][s][n]
    BY <1>3, <2>1 DEF ArtifactInv, ArtifactsBacked
  <2>2. CASE t = r
    BY <1>3, <2>1, <2>2
  <2>3. CASE t # r
    BY <1>3, <2>1, <2>3
  <2> QED
    BY <2>2, <2>3
<1>4. ArtifactsBacked'
  BY <1>1, <1>3 DEF ArtifactInv, ArtifactsBacked
<1> QED
  BY <1>2, <1>4

LEMMA SameLedgerFiles ==
  ASSUME ControlInv, ArtifactInv, NEW p \in Proc, Executor(p) \/ Environment(p),
         attempts' = attempts
  PROVE  SettledStageIsClean' /\ ArtifactsBacked'
<1>1. objects' = objects /\ manifests' = manifests /\ Tracked' \subseteq Tracked
  BY ExecutorFrame
<1> QED
  BY <1>1 DEF ArtifactInv, SettledStageIsClean, ArtifactsBacked, RunningIn

LEMMA BeginStageFiles ==
  ASSUME ControlInv, ArtifactInv, NEW p \in Proc, BeginStage(p)
  PROVE  SettledStageIsClean' /\ ArtifactsBacked'
<1>1. PICK r \in Run, s \in Stage : r = run[p] /\ s = at[p]
  BY InItsRun DEF BeginStage
<1>2. StoreTypeOK /\ beginStage(r, s)
  BY <1>1 DEF ControlInv, TypeOK, BeginStage
<1>3. /\ attempts'[r][s] = Append(attempts[r][s], Started)
      /\ \A t \in Run, u \in Stage : t # r \/ u # s => attempts'[t][u] = attempts[t][u]
      /\ attempts[r][s] \in Seq(Attempt)
  <2>1. r \in Run /\ s \in Stage
    BY <1>1
  <2>2. attempts[r][s] \in Seq(Attempt)
    BY <1>2, <2>1 DEF StoreTypeOK
  <2> HIDE Numbered
  <2> QED
    BY <1>2, <2>1, <2>2, Appended
<1>4. \A a \in Tracked' : a[1] # r
  BY <1>1 DEF BeginStage, ArtifactInv, Clean, files, Tracked
<1>5. ASSUME NEW u \in Stage, NEW n \in DOMAIN attempts'[r][u],
             attempts'[r][u][n].status = "succeeded"
      PROVE  n \in DOMAIN attempts[r][u] /\ attempts'[r][u][n] = attempts[r][u][n]
  <2>1. CASE u # s
    BY <1>1, <1>3, <1>5, <2>1
  <2>2. CASE u = s
    <3>1. /\ DOMAIN Append(attempts[r][s], Started) = 1..Len(attempts[r][s]) + 1
          /\ DOMAIN attempts[r][s] = 1..Len(attempts[r][s]) /\ Len(attempts[r][s]) \in Nat
          /\ \A k \in 1..Len(attempts[r][s]) : Append(attempts[r][s], Started)[k] = attempts[r][s][k]
          /\ Append(attempts[r][s], Started)[Len(attempts[r][s]) + 1] = Started
      BY <1>3
    <3>2. Append(attempts[r][s], Started)[n].status = "succeeded"
      BY <1>3, <1>5, <2>2
    <3>3. n # Len(attempts[r][s]) + 1
      BY <3>1, <3>2 DEF Started
    <3> QED
      BY SMTT(40), <1>3, <1>5, <2>2, <3>1, <3>3
  <2> QED
    BY <2>1, <2>2
<1>6. \A t \in Run : t # r => \A u \in Stage : attempts'[t][u] = attempts[t][u]
  BY <1>3
<1>7. Executor(p) \/ Environment(p)
  BY DEF Executor
<1> QED
  BY <1>1, <1>4, <1>5, <1>6, <1>7, LedgerFiles

\* The attempt that p serves is settled with this row.
LEMMA SettledFiles ==
  ASSUME ControlInv, ArtifactInv, NEW p \in Proc, CompleteStage(p) \/ FailStage(p),
         NEW row \in Attempt, Settle(run[p], at[p], attempt[p], row),
         row.status = "succeeded" => \A o \in row.outputs :
           <<at[p], o>> \in Ephemeral \/ Own(p, o) \in manifests
  PROVE  SettledStageIsClean' /\ ArtifactsBacked'
<1>1. Serving(p) /\ pc[p] = "closed" /\ Tracked' = Tracked
  BY DEF CompleteStage, FailStage, Serving, files, Tracked
<1>2. PICK r \in Run, s \in Stage : r = run[p] /\ s = at[p]
  BY <1>1, InItsRun
<1>3. /\ attempts'[r][s] = <<row>>
      /\ \A t \in Run, u \in Stage : t # r \/ u # s => attempts'[t][u] = attempts[t][u]
  <2>1. /\ attempts'[run[p]][at[p]] = <<row>>
        /\ \A t \in Run, u \in Stage : t # run[p] \/ u # at[p] => attempts'[t][u] = attempts[t][u]
    BY <1>1, ServedSettled
  <2> QED
    BY <1>2, <2>1
<1>4. \A a \in Tracked' : a[1] # r
  BY <1>1, <1>2 DEF ArtifactInv, Clean
<1>5. ASSUME NEW u \in Stage, NEW n \in DOMAIN attempts'[r][u],
             attempts'[r][u][n].status = "succeeded"
      PROVE  \/ n \in DOMAIN attempts[r][u] /\ attempts'[r][u][n] = attempts[r][u][n]
             \/ \A o \in attempts'[r][u][n].outputs :
                  <<u, o>> \in Ephemeral \/ <<r, u, o>> \in manifests
  <2>1. CASE u # s
    BY <1>2, <1>3, <1>5, <2>1
  <2>2. CASE u = s
    <3>1. n = 1 /\ attempts'[r][u][n] = row
      BY <1>3, <1>5, <2>2
    <3>2. row.status = "succeeded"
      BY <1>5, <3>1
    <3>3. \A o \in row.outputs : <<u, o>> \in Ephemeral \/ <<r, u, o>> \in manifests
      BY <1>2, <2>2, <3>2 DEF Own
    <3> QED
      BY <3>1, <3>3
  <2> QED
    BY <2>1, <2>2
<1>6. \A t \in Run : t # r => \A u \in Stage : attempts'[t][u] = attempts[t][u]
  BY <1>2, <1>3
<1>7. Executor(p) \/ Environment(p)
  BY DEF Executor
<1> QED
  BY <1>2, <1>4, <1>5, <1>6, <1>7, LedgerFiles

LEMMA CompleteStageFiles ==
  ASSUME ControlInv, ArtifactInv, NEW p \in Proc, CompleteStage(p)
  PROVE  SettledStageIsClean' /\ ArtifactsBacked'
<1>1. PICK row \in Attempt : row = [status |-> "succeeded", outputs |-> verdict[p].outputs]
  BY DEF Attempt, Settled, ControlInv, TypeOK
<1>2. Settle(run[p], at[p], attempt[p], row)
  BY <1>1 DEF CompleteStage, completeStage
<1>3. \A o \in row.outputs : o \in Port /\ out[p][o] = "finalized"
  BY <1>1 DEF CompleteStage, Valid, Finalized
<1>4. \A o \in row.outputs : <<at[p], o>> \in Ephemeral \/ Own(p, o) \in manifests
  BY <1>3 DEF CompleteStage, ArtifactInv, Outputs, Serving
<1> QED
  BY <1>1, <1>2, <1>4, SettledFiles

LEMMA FailStageFiles ==
  ASSUME ControlInv, ArtifactInv, NEW p \in Proc, FailStage(p)
  PROVE  SettledStageIsClean' /\ ArtifactsBacked'
<1>1. CASE UNCHANGED storeVars
  BY <1>1, SameLedgerFiles DEF Executor, storeVars
<1>2. CASE failStage(run[p], at[p], attempt[p])
  <2>1. PICK row \in Attempt : row = [Started EXCEPT !.status = "failed"]
    BY DEF Attempt, Settled, Started
  <2>2. Settle(run[p], at[p], attempt[p], row) /\ row.status = "failed"
    BY <1>2, <2>1 DEF failStage, Started
  <2> QED
    BY <2>1, <2>2, SettledFiles
<1> QED
  BY <1>1, <1>2 DEF FailStage

LEMMA FailRunFiles ==
  ASSUME ControlInv, ArtifactInv, NEW p \in Proc, FailRun(p)
  PROVE  SettledStageIsClean' /\ ArtifactsBacked'
<1>1. CASE UNCHANGED storeVars
  BY <1>1, SameLedgerFiles DEF Executor, storeVars
<1>2. CASE failRun(run[p])
  <2>1. PICK r \in Run : r = run[p]
    BY InItsRun DEF FailRun
  <2>2. StoreTypeOK /\ failRun(r)
    BY <1>2, <2>1 DEF ControlInv, TypeOK
  <2>3. /\ \A s \in Stage : attempts'[r][s] = Swept(attempts[r][s])
        /\ \A t \in Run : t # r => attempts'[t] = attempts[t]
    BY <2>1, <2>2, SweptRun
  <2>4. \A a \in Tracked' : a[1] # r
    BY <2>1 DEF FailRun, ArtifactInv, Clean, files, Tracked
  <2>5. ASSUME NEW u \in Stage, NEW n \in DOMAIN attempts'[r][u],
               attempts'[r][u][n].status = "succeeded"
        PROVE  n \in DOMAIN attempts[r][u] /\ attempts'[r][u][n] = attempts[r][u][n]
    <3>1. attempts[r][u] \in Seq(Attempt)
      BY <2>1, <2>2 DEF StoreTypeOK
    <3>2. n \in DOMAIN attempts[r][u] /\ attempts'[r][u] = Swept(attempts[r][u])
      BY <2>3, <2>5, <3>1, SweptTries
    <3>3. CASE attempts[r][u][n].status # "running"
      BY <3>1, <3>2, <3>3, SweptTries
    <3>4. CASE attempts[r][u][n].status = "running"
      <4>1. attempts[r][u][n] \in Attempt
        BY <3>1, <3>2
      <4>2. attempts'[r][u][n].status = "failed"
        BY <3>2, <3>4, <4>1 DEF Swept, Attempt
      <4> QED
        BY <2>5, <4>2
    <3> QED
      BY <3>2, <3>3, <3>4
  <2>6. Executor(p) \/ Environment(p)
    BY DEF Executor
  <2> QED
    BY <2>1, <2>3, <2>4, <2>5, <2>6, LedgerFiles
<1> QED
  BY <1>1, <1>2 DEF FailRun

LEMMA ArtifactStep == ControlInv /\ ArtifactInv /\ [Next]_vars => ArtifactInv'
<1> SUFFICES ASSUME ControlInv, ArtifactInv, [Next]_vars PROVE ArtifactInv'
  OBVIOUS
<1>1. CASE UNCHANGED vars
  <2>1. Outputs' /\ Clean'
    BY <1>1 DEF ArtifactInv, vars, Outputs, Clean, Serving, Own, Tracked
  <2>2. Quiet'
    BY <1>1 DEF ArtifactInv, vars, Quiet, Busy
  <2>3. SettledStageIsClean' /\ ArtifactsBacked'
    BY <1>1 DEF ArtifactInv, vars, SettledStageIsClean, ArtifactsBacked, RunningIn, Tracked
  <2> QED
    BY <2>1, <2>2, <2>3 DEF ArtifactInv
<1>2. ASSUME NEW p \in Proc, BrokerStep(p) PROVE ArtifactInv'
  BY <1>2, BrokerArtifacts
<1>3. ASSUME NEW p \in Proc, Executor(p) \/ Environment(p) PROVE ArtifactInv'
  <2>1. Outputs' /\ Quiet' /\ Clean'
    BY <1>3, Unserved, StillServed, BeginStageArtifacts, CloseBrokerArtifacts
       DEF Executor, Environment
  <2>2. CASE attempts' = attempts
    BY <1>3, <2>1, <2>2, SameLedgerFiles DEF ArtifactInv
  <2>3. CASE BeginStage(p) \/ CompleteStage(p) \/ FailStage(p) \/ FailRun(p)
    BY <2>1, <2>3, BeginStageFiles, CompleteStageFiles, FailStageFiles, FailRunFiles
       DEF ArtifactInv
  <2>4. \/ BeginStage(p) \/ CompleteStage(p) \/ FailStage(p) \/ FailRun(p)
        \/ attempts' = attempts
    BY <1>3 DEF Executor, Environment, EnterStage, RefuseStage, TimeOut, CloseBroker, CompleteRun,
                completeRun, CompleteRunThrows, PluginReturns, AbortRun, Crash, StartRun, beginRun,
                storeVars
  <2> QED
    BY <2>2, <2>3, <2>4
<1> QED
  BY <1>1, <1>2, <1>3 DEF Next, BrokerStep

PreviewInv == ControlInv /\ ArtifactInv

LEMMA PreviewInvariant == Spec => []PreviewInv
<1>1. Init => PreviewInv
  BY TypeInitially, ControlInitially, ArtifactInitially DEF PreviewInv, ControlInv
<1>2. PreviewInv /\ [Next]_vars => PreviewInv'
  <2> SUFFICES ASSUME PreviewInv, [Next]_vars PROVE PreviewInv'
    OBVIOUS
  <2>1. ControlInv /\ ArtifactInv /\ Quiet
    BY DEF PreviewInv, ArtifactInv
  <2> QED
    BY <2>1, TypeStep, ControlStep, ArtifactStep DEF PreviewInv, ControlInv
<1> QED
  BY <1>1, <1>2, PTL DEF Spec

-----------------------------------------------------------------------------
(* The theorems. *)

\* Every variable of the executor, of the broker and of the stores keeps its type.
THEOREM PreviewTypeCorrect == Spec => []TypeOK
<1>1. PreviewInv => TypeOK
  BY DEF PreviewInv, ControlInv
<1> QED
  BY <1>1, PreviewInvariant, PTL

\* The executor uses the ledger by its calls, so that it implements a client of it, ...
THEOREM PreviewImplementsLedger == Spec => StoreSpec
<1>1. Init => StoreInit
  BY DEF Init
<1>2. PreviewInv /\ [Next]_vars => [StoreNext]_storeVars
  BY StoreStep DEF PreviewInv
<1> QED
  BY <1>1, <1>2, PreviewInvariant, PTL DEF Spec, StoreSpec

\* ... and what is proved of any client holds of it: settled runs are consistent ...
THEOREM PreviewLedgerConsistent == Spec => []LedgerConsistent
<1> QED
  BY PreviewImplementsLedger, LedgerIsConsistent

\* ... and final.
THEOREM PreviewLedgerFinal == Spec => LedgerIsFinal
<1> QED
  BY PreviewImplementsLedger, LedgerStaysFinal

\* The executor attempts each stage at most once and only after its predecessors
\* succeeded, also when its reports to the ledger are lost.
THEOREM PreviewStagesInOrder == Spec => []StagesInOrder
<1>1. PreviewInv => StagesInOrder
  BY DEF PreviewInv, ControlInv, Control, RunOK, StagesInOrder
<1> QED
  BY <1>1, PreviewInvariant, PTL

\* Published artifacts are whole and recorded ones are published at every instant,
\* whatever crashes, aborts and late operations interrupt commitJson().
THEOREM PreviewArtifactsBacked == Spec => []ArtifactsBacked
<1>1. PreviewInv => ArtifactsBacked
  BY DEF PreviewInv, ArtifactInv
<1> QED
  BY <1>1, PreviewInvariant, PTL

\* No attempt that the ledger has settled leaves a staged file that the store knows of.
THEOREM PreviewSettledStageIsClean == Spec => []SettledStageIsClean
<1>1. PreviewInv => SettledStageIsClean
  BY DEF PreviewInv, ArtifactInv
<1> QED
  BY <1>1, PreviewInvariant, PTL

\* The artifact store is written for running attempts only.
THEOREM PreviewWritesWhileRunning == Spec => WritesWhileRunning
<1> DEFINE Writes ==
      /\ \A a \in (staging' \cup manifests') \ (staging \cup manifests) :
           RunningIn(attempts[a[1]][a[2]])
      /\ objects' # objects => \E p \in Proc : run[p] # None /\ at[p] \in Stage
                                               /\ RunningIn(attempts[run[p]][at[p]])
<1>1. ASSUME PreviewInv, [Next]_vars PROVE [Writes]_vars
  <2>1. CASE UNCHANGED vars
    BY <2>1
  <2>2. ASSUME NEW p \in Proc, BrokerStep(p) PROVE Writes
    <3>1. ControlInv /\ Outputs /\ Quiet
      BY <1>1 DEF PreviewInv, ArtifactInv
    <3>2. run[p] \in Run /\ at[p] \in Stage /\ RunningIn(attempts[run[p]][at[p]])
      BY <2>2, <3>1, BrokerServes, ServedRuns DEF Serving
    <3>3. CASE NoEffect(p)
      BY <3>3 DEF NoEffect, files, Tracked
    <3>4. ASSUME NEW o \in Port, Effect(p, o) PROVE Writes
      <4>1. ASSUME NEW a \in (staging' \cup manifests') \ (staging \cup manifests)
            PROVE  RunningIn(attempts[a[1]][a[2]])
        <5>1. a = Own(p, o)
          BY <3>4, <4>1 DEF Effect
        <5>2. a[1] = run[p] /\ a[2] = at[p]
          BY <5>1 DEF Own
        <5> QED
          BY <3>2, <5>2
      <4> QED
        BY <3>2, <4>1
    <3> QED
      BY <2>2, <3>1, <3>3, <3>4, BrokerEffect
  <2>3. ASSUME NEW p \in Proc, Executor(p) \/ Environment(p) PROVE Writes
    <3>1. objects' = objects /\ manifests' = manifests /\ staging' \subseteq staging
      BY <1>1, <2>3, ExecutorFrame DEF PreviewInv
    <3> QED
      BY <3>1
  <2> QED
    BY <1>1, <2>1, <2>2, <2>3 DEF Next, BrokerStep
<1>2. PreviewInv /\ [Next]_vars => [Writes]_vars
  BY <1>1
<1> QED
  BY <1>2, PreviewInvariant, PTL DEF Spec, WritesWhileRunning

\* The signal is looked at again after the await: no broker serves an aborted run.
THEOREM PreviewAbortedRunIsNotServed == Spec => []AbortedRunIsNotServed
<1>1. Init => AbortedRunIsNotServed
  BY DEF Init, AbortedRunIsNotServed
<1>2. ASSUME PreviewInv, AbortedRunIsNotServed, [Next]_vars
      PROVE  AbortedRunIsNotServed'
  <2> USE DEF AbortedRunIsNotServed, PreviewInv, ControlInv, TypeOK
  <2>1. CASE UNCHANGED vars
    BY <1>2, <2>1 DEF vars
  <2>2. ASSUME NEW p \in Proc, BrokerStep(p) PROVE AbortedRunIsNotServed'
    BY <1>2, <2>2, BrokerFrame DEF executor
  <2>3. ASSUME NEW p \in Proc, Executor(p) \/ Environment(p) PROVE AbortedRunIsNotServed'
    <3>1. CASE BeginStage(p)
      BY <1>2, <3>1 DEF BeginStage, Goto, Invoked
    <3>2. CASE AbortRun(p)
      BY <1>2, <3>2 DEF AbortRun, Goto
    <3>3. CASE CompleteRun(p) \/ FailRun(p) \/ Crash(p)
      BY <1>2, <3>3 DEF CompleteRun, FailRun, Crash, Leave
    <3>4. CASE EnterStage(p) \/ RefuseStage(p) \/ TimeOut(p) \/ CloseBroker(p) \/ CompleteStage(p)
               \/ FailStage(p) \/ CompleteRunThrows(p) \/ PluginReturns(p)
      BY <1>2, <3>4 DEF EnterStage, RefuseStage, TimeOut, CloseBroker, CompleteStage, FailStage,
                        CompleteRunThrows, PluginReturns, Goto, AfterFailure
    <3>5. ASSUME NEW r \in Run, StartRun(p, r) PROVE AbortedRunIsNotServed'
      BY <1>2, <3>5 DEF StartRun, Goto
    <3> QED
      BY <2>3, <3>1, <3>2, <3>3, <3>4, <3>5 DEF Executor, Environment
  <2> QED
    BY <1>2, <2>1, <2>2, <2>3 DEF Next, BrokerStep
<1>3. PreviewInv /\ AbortedRunIsNotServed /\ [Next]_vars => AbortedRunIsNotServed'
  BY <1>2
<1> QED
  BY <1>1, <1>3, PreviewInvariant, PTL DEF Spec

-----------------------------------------------------------------------------
(* The registry of ephemeral datasets. *)

\* A stage reads outputs of earlier stages only; the executor finds out by resolving them.
Backward(s) == \A i \in DOMAIN Inputs[s] : Inputs[s][i][1] < s

\* The references of a stage and those of the stages after it are all from it on.
LEMMA ConsumersSplit ==
  ASSUME NEW x \in Ephemeral, NEW s \in Stage
  PROVE  /\ Consumers(x, s + 1) \in Nat /\ References(s, x) \in Nat
         /\ Consumers(x, s) = References(s, x) + Consumers(x, s + 1)
<1>1. PICK R : R = {i \in DOMAIN Inputs[s] : Inputs[s][i] = x}
  OBVIOUS
<1>2. PICK C : C = {u \in InputPorts : u[1] = s /\ Inputs[u[1]][u[2]] = x}
  OBVIOUS
<1>3. PICK B : B = {u \in InputPorts : u[1] >= s + 1 /\ Inputs[u[1]][u[2]] = x}
  OBVIOUS
<1>4. IsFiniteSet(R) /\ IsFiniteSet(C) /\ IsFiniteSet(B)
  BY <1>1, <1>2, <1>3, FiniteInputs, FS_Subset
<1>5. \A u \in InputPorts : u[1] \in Stage
  BY DEF InputPorts, PortsOf
<1>6. Cardinality(C) = Cardinality(R)
  <2>1. PICK f : f = [i \in R |-> <<s, i>>]
    OBVIOUS
  <2>2. \A i \in R : f[i] \in C
    BY <1>1, <1>2, <2>1 DEF InputPorts, PortsOf
  <2>3. ASSUME NEW u \in C PROVE \E i \in R : f[i] = u
    <3>1. PICK t \in Stage : u \in PortsOf(t)
      BY <1>2, <2>3 DEF InputPorts
    <3>2. PICK i \in DOMAIN Inputs[t] : u = <<t, i>>
      BY <3>1 DEF PortsOf
    <3>3. t = s /\ i \in R
      BY <1>1, <1>2, <2>3, <3>2
    <3> QED
      BY <2>1, <3>2, <3>3
  <2>4. f \in Bijection(R, C)
    <3>1. f \in [R -> C]
      BY <2>1, <2>2
    <3>2. \A i, j \in R : f[i] = f[j] => i = j
      BY <2>1
    <3>3. f \in Surjection(R, C)
      BY <2>3, <3>1 DEF Surjection
    <3>4. f \in Injection(R, C)
      BY <3>1, <3>2 DEF Injection, IsInjective
    <3> QED
      BY <3>3, <3>4 DEF Bijection
  <2> QED
    BY <1>4, <2>4, FS_Bijection DEF ExistsBijection
<1>7. B \cup C = {u \in InputPorts : u[1] >= s /\ Inputs[u[1]][u[2]] = x} /\ B \cap C = {}
  BY <1>2, <1>3, <1>5
<1>8. Cardinality(B \cup C) = Cardinality(B) + Cardinality(C)
  <2>1. Cardinality(B \cup C) = Cardinality(B) + Cardinality(C) - Cardinality(B \cap C)
    BY <1>4, FS_Union
  <2>2. Cardinality(B \cap C) = 0
    BY <1>7, FS_EmptySet
  <2>3. Cardinality(B) \in Nat /\ Cardinality(C) \in Nat
    BY <1>4, FS_CardinalityType
  <2> QED
    BY <2>1, <2>2, <2>3
<1>9. Cardinality(B) \in Nat /\ Cardinality(R) \in Nat
  BY <1>4, FS_CardinalityType
<1>10. /\ Consumers(x, s + 1) = Cardinality(B) /\ References(s, x) = Cardinality(R)
       /\ Consumers(x, s) = Cardinality(B \cup C)
  BY <1>1, <1>3, <1>7 DEF Consumers, References
<1> QED
  BY <1>6, <1>8, <1>9, <1>10

\* No stage up to the one that hands over an output refers to it.
LEMMA NoEarlyConsumers ==
  ASSUME NEW s \in Stage, NEW o \in Port, \A t \in Stage : t <= s => Backward(t)
  PROVE  Consumers(<<s, o>>, 1) = Consumers(<<s, o>>, s + 1)
<1>1. ASSUME NEW u \in InputPorts, Inputs[u[1]][u[2]] = <<s, o>>
      PROVE  u[1] >= 1 /\ u[1] >= s + 1
  <2>1. PICK t \in Stage : u \in PortsOf(t)
    BY DEF InputPorts
  <2>2. PICK i \in DOMAIN Inputs[t] : u = <<t, i>>
    BY <2>1 DEF PortsOf
  <2>3. Inputs[t][i] = <<s, o>>
    BY <1>1, <2>2
  <2>4. ~ (t <= s)
    BY <2>3 DEF Backward
  <2> QED
    BY <2>2, <2>4
<1> QED
  BY <1>1 DEF Consumers

\* What the registry holds for process p.
RegistryOf(p) ==
  /\ pc[p] = "idle" => ephemeral[p] = NothingRegistered /\ outputsByStage[p] = NothingDone
  /\ Between(p) \/ Serving(p) =>
       /\ \A s \in Stage : s >= at[p] => outputsByStage[p][s] = {}
       /\ \A s \in Stage : s < at[p] \/ (s = at[p] /\ pc[p] # "next") => Backward(s)
       /\ \A x \in Ephemeral : x[2] \in outputsByStage[p][x[1]] => ephemeral[p][x] = Consumers(x, at[p])
  /\ Serving(p) => \A o \in Port :
       /\ out[p][o] \in {"committing", "linked", "removing"} => <<at[p], o>> \notin Ephemeral
       /\ out[p][o] = "finalized" /\ <<at[p], o>> \in Ephemeral =>
            ephemeral[p][<<at[p], o>>] = Consumers(<<at[p], o>>, 1)

RegistryInv == \A p \in Proc : RegistryOf(p)

LEMMA SameRegistry ==
  ASSUME NEW p \in Proc, RegistryOf(p), at'[p] = at[p], ephemeral'[p] = ephemeral[p],
         outputsByStage'[p] = outputsByStage[p], out'[p] = out[p],
         \/ pc'[p] = pc[p]
         \/ pc'[p] = "failing"
         \/ pc[p] = "invoked" /\ pc'[p] = "closing"
         \/ pc[p] = "closing" /\ pc'[p] = "closed"
  PROVE  RegistryOf(p)'
  BY DEF RegistryOf, Between, Serving

\* A call of the plugin or of the broker.
LEMMA BrokerRegistry ==
  ASSUME PreviewInv, NEW p \in Proc, RegistryOf(p), BrokerStep(p)
  PROVE  RegistryOf(p)' /\ \A q \in Proc : q # p => ephemeral'[q] = ephemeral[q] /\ out'[q] = out[q]
<1> USE DEF PreviewInv, ControlInv
<1>1. UNCHANGED executor /\ Serving(p) /\ at[p] \in Stage /\ Serving(p)'
  BY BrokerFrame, BrokerServes, InItsRun DEF ArtifactInv, Serving, executor
<1>2. \A q \in Proc : q # p => ephemeral'[q] = ephemeral[q] /\ out'[q] = out[q]
  BY ZenonT(60) DEF BrokerStep, Operation, PluginCall, EndRead, WriteStaged, KeepUntracked, RemoveWritten, LinkObject,
         LinkManifest, RemoveStaged, FailOutput, StartRead, RejectOutput, StageJson,
         FinalizeEphemeral, StartCommit, RefuseForbidden, MoveOutput, TypeOK
<1>3. ASSUME ephemeral' = ephemeral, \A o \in Port :
               \/ out'[p][o] = out[p][o]
               \/ out'[p][o] \notin {"committing", "linked", "removing", "finalized"}
               \/ <<at[p], o>> \notin Ephemeral
      PROVE  RegistryOf(p)'
  BY <1>1, <1>3 DEF RegistryOf, Between, Serving, executor
<1>4. ASSUME NEW o \in Port, FinalizeEphemeral(p, o) PROVE RegistryOf(p)'
  <2>1. PICK x \in Ephemeral : x = <<at[p], o>> /\ x[1] = at[p] /\ x[2] = o
    BY <1>4 DEF FinalizeEphemeral
  <2>2. /\ ephemeral'[p] = [ephemeral[p] EXCEPT ![x] = Consumers(x, 1)]
        /\ out'[p] = [out[p] EXCEPT ![o] = "finalized"]
    BY <1>4, <2>1 DEF FinalizeEphemeral, MoveOutput, TypeOK
  <2>3. ephemeral[p] \in [Ephemeral -> Nat] /\ out[p] \in [Port -> OutputStates]
    BY DEF TypeOK
  <2>4. outputsByStage[p][x[1]] = {}
    BY <1>1, <2>1 DEF RegistryOf
  <2>5. ASSUME NEW y \in Ephemeral, y[2] \in outputsByStage[p][y[1]]
        PROVE  ephemeral'[p][y] = Consumers(y, at[p])
    <3>1. y # x
      BY <2>4, <2>5
    <3> QED
      BY <1>1, <2>2, <2>3, <2>5, <3>1 DEF RegistryOf
  <2>6. ASSUME NEW other \in Port
        PROVE  /\ out'[p][other] \in {"committing", "linked", "removing"} => <<at[p], other>> \notin Ephemeral
               /\ out'[p][other] = "finalized" /\ <<at[p], other>> \in Ephemeral =>
                    ephemeral'[p][<<at[p], other>>] = Consumers(<<at[p], other>>, 1)
    <3>1. CASE other = o
      BY <2>1, <2>2, <2>3, <3>1
    <3>2. CASE other # o
      <4>1. out'[p][other] = out[p][other]
        BY <2>2, <2>3, <3>2
      <4>2. <<at[p], other>> \in Ephemeral => ephemeral'[p][<<at[p], other>>] = ephemeral[p][<<at[p], other>>]
        BY <2>1, <2>2, <2>3, <3>2
      <4> QED
        BY <1>1, <4>1, <4>2 DEF RegistryOf
    <3> QED
      BY <3>1, <3>2
  <2> QED
    BY <1>1, <2>5, <2>6 DEF RegistryOf, Between, Serving, executor
<1>5. ASSUME NEW o \in Port,
             \/ RejectOutput(p, o) \/ StageJson(p, o) \/ StartCommit(p, o) \/ RefuseForbidden(p, o)
             \/ WriteStaged(p, o) \/ KeepUntracked(p, o) \/ RemoveWritten(p, o) \/ LinkObject(p, o)
             \/ LinkManifest(p, o)
             \/ RemoveStaged(p, o) \/ FailOutput(p, o)
      PROVE  RegistryOf(p)'
  <2>1. ephemeral' = ephemeral
    BY <1>5 DEF RejectOutput, StageJson, StartCommit, RefuseForbidden, WriteStaged, KeepUntracked, RemoveWritten,
                LinkObject, LinkManifest, RemoveStaged, FailOutput
  <2>2. \A other \in Port : other # o => out'[p][other] = out[p][other]
    BY <1>5 DEF RejectOutput, StageJson, StartCommit, RefuseForbidden, WriteStaged, KeepUntracked, RemoveWritten,
                LinkObject, LinkManifest, RemoveStaged, FailOutput, MoveOutput, TypeOK
  <2>3. \/ out'[p][o] = out[p][o]
        \/ out'[p][o] \notin {"committing", "linked", "removing", "finalized"}
        \/ <<at[p], o>> \notin Ephemeral
    <3>1. out[p][o] \in {"committing", "linked", "removing"} => <<at[p], o>> \notin Ephemeral
      BY <1>1 DEF RegistryOf
    <3> QED
      BY <1>5, <3>1 DEF RejectOutput, StageJson, StartCommit, RefuseForbidden, WriteStaged, KeepUntracked,
                RemoveWritten, LinkObject, LinkManifest, RemoveStaged, FailOutput, MoveOutput, IfOpen,
                TypeOK
  <2> QED
    BY <1>3, <2>1, <2>2, <2>3
<1>6. CASE StartRead(p) \/ EndRead(p)
  BY <1>3, <1>6 DEF StartRead, EndRead
<1> QED
  BY <1>2, <1>4, <1>5, <1>6 DEF BrokerStep, Operation, PluginCall

\* The stage's outputs are handed over, and its inputs released.
LEMMA CompleteStageRegistry ==
  ASSUME PreviewInv, NEW p \in Proc, RegistryOf(p), CompleteStage(p)
  PROVE  RegistryOf(p)'
<1> USE DEF PreviewInv, ControlInv
<1>1. Serving(p) /\ at[p] \in Stage /\ at[p] \in Nat
  BY InItsRun DEF CompleteStage, Serving
<1>2. PICK s \in Stage : s = at[p] /\ s \in Nat
  BY <1>1
<1>3. /\ at'[p] = s + 1 /\ pc'[p] = "next"
      /\ outputsByStage'[p] = [outputsByStage[p] EXCEPT ![s] = Finalized(p)]
      /\ ephemeral'[p] = Released(ephemeral[p], s)
  BY <1>2 DEF CompleteStage, Goto, TypeOK, Valid
<1>4. /\ outputsByStage[p] \in [Stage -> SUBSET Port]
      /\ ephemeral[p] \in [Ephemeral -> Nat]
      /\ Ephemeral \subseteq Stage \X Port
  BY PreviewAssumption DEF TypeOK
<1>5. \A t \in Stage : t <= s => Backward(t)
  BY <1>1, <1>2 DEF RegistryOf, CompleteStage
<1>6. \A t \in Stage : t >= s + 1 => outputsByStage'[p][t] = {}
  BY <1>1, <1>2, <1>3, <1>4 DEF RegistryOf
<1>7. ASSUME NEW x \in Ephemeral, x[2] \in outputsByStage'[p][x[1]]
      PROVE  ephemeral'[p][x] = Consumers(x, s + 1)
  <2>1. ephemeral'[p][x] = IF ephemeral[p][x] > References(s, x)
                           THEN ephemeral[p][x] - References(s, x) ELSE 0
    BY <1>3 DEF Released
  <2>2. PICK t \in Stage, o \in Port : x = <<t, o>> /\ x[1] = t /\ x[2] = o
    BY <1>4
  <2>3. ephemeral[p][x] = References(s, x) + Consumers(x, s + 1)
    <3>1. Consumers(x, s) = References(s, x) + Consumers(x, s + 1)
      BY ConsumersSplit
    <3>2. CASE t # s
      <4>1. x[2] \in outputsByStage[p][x[1]]
        BY <1>3, <1>4, <1>7, <2>2, <3>2
      <4> QED
        BY <1>1, <1>2, <3>1, <4>1 DEF RegistryOf
    <3>3. CASE t = s
      <4>1. o \in Finalized(p)
        BY <1>3, <1>4, <1>7, <2>2, <3>3
      <4>2. ephemeral[p][x] = Consumers(x, 1)
        BY <1>1, <1>2, <2>2, <3>3, <4>1 DEF RegistryOf, Finalized
      <4>3. Consumers(x, 1) = Consumers(x, s + 1)
        BY <1>5, <2>2, <3>3, NoEarlyConsumers
      <4>4. References(s, x) = 0
        <5>1. Backward(s)
          BY <1>5, <1>2
        <5>2. {i \in DOMAIN Inputs[s] : Inputs[s][i] = x} = {}
          BY <1>2, <2>2, <3>3, <5>1 DEF Backward
        <5> QED
          BY <5>2, FS_EmptySet DEF References
      <4> QED
        BY <4>2, <4>3, <4>4, ConsumersSplit
    <3> QED
      BY <3>2, <3>3
  <2> QED
    BY <2>1, <2>3, ConsumersSplit
<1> QED
  BY <1>2, <1>3, <1>5, <1>6, <1>7 DEF RegistryOf, Between, Serving

LEMMA ExecutorRegistry ==
  ASSUME PreviewInv, NEW p \in Proc, RegistryOf(p), Executor(p) \/ Environment(p)
  PROVE  RegistryOf(p)' /\ \A q \in Proc : q # p =>
           /\ pc'[q] = pc[q] /\ at'[q] = at[q] /\ outputsByStage'[q] = outputsByStage[q]
           /\ ephemeral'[q] = ephemeral[q] /\ out'[q] = out[q]
<1> USE DEF PreviewInv, ControlInv
<1>1. CASE CompleteRun(p) \/ FailRun(p) \/ Crash(p)
  <2>1. Leave(p)
    BY <1>1 DEF CompleteRun, FailRun, Crash
  <2> QED
    BY <2>1 DEF Leave, RegistryOf, Between, Serving, TypeOK
<1>2. CASE CompleteStage(p)
  <2>1. RegistryOf(p)'
    BY <1>2, CompleteStageRegistry
  <2> QED
    BY <1>2, <2>1 DEF CompleteStage, Goto, broker, TypeOK
<1>3. CASE FailStage(p)
  BY <1>3 DEF FailStage, Goto, AfterFailure, broker, RegistryOf, Between, Serving, TypeOK
<1>4. CASE BeginStage(p)
  <2>1. /\ pc[p] = "admitting" /\ pc'[p] \in {"invoked", "closing"}
        /\ out'[p] = NoOutputs /\ UNCHANGED <<at, outputsByStage, ephemeral>>
        /\ \A q \in Proc : q # p => pc'[q] = pc[q] /\ out'[q] = out[q]
    BY <1>4 DEF BeginStage, Goto, Invoked, TypeOK
  <2>2. \A o \in Port : out'[p][o] = "free"
    BY <2>1 DEF NoOutputs
  <2> QED
    BY <2>1, <2>2 DEF RegistryOf, Between, Serving
<1>5. CASE EnterStage(p)
  <2>1. /\ pc[p] = "next" /\ UNCHANGED <<at, outputsByStage, ephemeral, out>>
        /\ pc'[p] = "failing" \/ (pc'[p] = "admitting" /\ Resolved(p, at[p]))
        /\ at[p] \in Stage
        /\ \A q \in Proc : q # p => pc'[q] = pc[q]
    BY <1>5 DEF EnterStage, Goto, broker, TypeOK
  <2>2. CASE pc'[p] = "failing"
    BY <2>1, <2>2, SameRegistry
  <2>3. CASE pc'[p] = "admitting" /\ Resolved(p, at[p])
    <3>1. ASSUME NEW i \in DOMAIN Inputs[at[p]] PROVE Inputs[at[p]][i][1] < at[p]
      <4>1. Inputs[at[p]][i] \in Stage \X Port
        <5>1. Inputs[at[p]] \in Seq(Stage \X Port)
          BY <2>1, PreviewAssumption
        <5> QED
          BY <3>1, <5>1
      <4>2. Inputs[at[p]][i][1] \in Stage /\ outputsByStage[p][Inputs[at[p]][i][1]] # {}
        BY <2>3, <3>1, <4>1 DEF Resolved
      <4>3. ~ (Inputs[at[p]][i][1] >= at[p])
        BY <2>1, <4>2 DEF RegistryOf, Between
      <4> QED
        BY <2>1, <4>2, <4>3
    <3>2. Backward(at[p])
      BY <3>1 DEF Backward
    <3> QED
      BY <2>1, <2>3, <3>2 DEF RegistryOf, Between, Serving
  <2> QED
    BY <2>1, <2>2, <2>3
<1>6. CASE RefuseStage(p) \/ TimeOut(p) \/ CloseBroker(p) \/ CompleteRunThrows(p)
           \/ PluginReturns(p) \/ AbortRun(p)
  <2>1. /\ UNCHANGED <<at, outputsByStage, ephemeral, out>>
        /\ \A q \in Proc : q # p => pc'[q] = pc[q]
        /\ \/ pc'[p] = pc[p]
           \/ pc'[p] = "failing"
           \/ pc[p] = "invoked" /\ pc'[p] = "closing"
           \/ pc[p] = "closing" /\ pc'[p] = "closed"
    BY <1>6 DEF RefuseStage, TimeOut, CloseBroker, CompleteRunThrows, PluginReturns, AbortRun, Goto,
                broker, TypeOK
  <2> QED
    BY <2>1, SameRegistry
<1>7. ASSUME NEW r \in Run, StartRun(p, r)
      PROVE  RegistryOf(p)' /\ \A q \in Proc : q # p =>
               /\ pc'[q] = pc[q] /\ at'[q] = at[q] /\ outputsByStage'[q] = outputsByStage[q]
               /\ ephemeral'[q] = ephemeral[q] /\ out'[q] = out[q]
  <2>1. /\ pc[p] = "idle" /\ pc'[p] = "next" /\ at'[p] = 1
        /\ UNCHANGED <<outputsByStage, ephemeral, out>>
        /\ \A q \in Proc : q # p => pc'[q] = pc[q] /\ at'[q] = at[q]
    BY <1>7 DEF StartRun, Goto, broker, TypeOK
  <2>2. \A s \in Stage : outputsByStage[p][s] = {}
    BY <2>1 DEF RegistryOf, NothingDone
  <2>3. \A x \in Ephemeral : x[1] \in Stage
    BY PreviewAssumption
  <2> QED
    BY <2>1, <2>2, <2>3 DEF RegistryOf, Between, Serving
<1> QED
  BY <1>1, <1>2, <1>3, <1>4, <1>5, <1>6, <1>7 DEF Executor, Environment

\* An in-memory dataset is registered exactly while a later stage refers to it: none is
\* dropped before its last consumer and none outlives it, whatever stages fail, time out
\* or are aborted, because a stage that is served refers to earlier stages only.
THEOREM PreviewRegistryExact == Spec => []RegistryExact
<1>1. Init => RegistryInv
  BY DEF Init, RegistryInv, RegistryOf, Between, Serving, NothingDone
<1>2. ASSUME PreviewInv, RegistryInv, [Next]_vars PROVE RegistryInv'
  <2>1. CASE UNCHANGED vars
    BY <1>2, <2>1 DEF vars, RegistryInv, RegistryOf, Between, Serving
  <2>2. ASSUME NEW p \in Proc, BrokerStep(p) PROVE RegistryInv'
    <3>1. UNCHANGED executor
      BY <2>2, BrokerFrame
    <3>2. RegistryOf(p)' /\ \A q \in Proc : q # p => ephemeral'[q] = ephemeral[q] /\ out'[q] = out[q]
      BY <1>2, <2>2, BrokerRegistry DEF RegistryInv
    <3> QED
      BY <1>2, <3>1, <3>2, SameRegistry DEF RegistryInv, executor
  <2>3. ASSUME NEW p \in Proc, Executor(p) \/ Environment(p) PROVE RegistryInv'
    <3>1. RegistryOf(p)' /\ \A q \in Proc : q # p =>
           /\ pc'[q] = pc[q] /\ at'[q] = at[q] /\ outputsByStage'[q] = outputsByStage[q]
           /\ ephemeral'[q] = ephemeral[q] /\ out'[q] = out[q]
      BY <1>2, <2>3, ExecutorRegistry DEF RegistryInv
    <3> QED
      BY <1>2, <3>1, SameRegistry DEF RegistryInv
  <2> QED
    BY <1>2, <2>1, <2>2, <2>3 DEF Next, BrokerStep
<1>3. PreviewInv /\ RegistryInv /\ [Next]_vars => RegistryInv'
  BY <1>2
<1>4. RegistryInv => RegistryExact
  BY DEF RegistryInv, RegistryOf, RegistryExact, Between, Serving
<1> QED
  BY <1>1, <1>3, <1>4, PreviewInvariant, PTL DEF Spec
=============================================================================
