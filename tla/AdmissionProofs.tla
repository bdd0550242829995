--------------------------- MODULE AdmissionProofs ---------------------------
(***************************************************************************)
(* What admits work on a host.                                             *)
(*                                                                         *)
(* Apply mode's checks, whatever the stages and the executor propose: for  *)
(* any inputs, any number of contexts, invocations, datasets and subjects, *)
(* and any chain of stages between a source and a sink.                    *)
(*                                                                         *)
(* The gate of the heavy jobs: when inode numbers are not reused, the      *)
(* resource is used by one invocation at a time, however many processes    *)
(* there are and wherever they crash, and only leases of dead owners are   *)
(* recovered.                                                              *)
(***************************************************************************)
EXTENDS HostResourceGate, ApplyAuthorization, FiniteSetTheorems, TLAPS

\* The documents of every context passed the checks, and they are as they were.
Contexts ==
  /\ snapshot \in Seq(Ready) /\ DOMAIN usedRuns = DOMAIN snapshot
  /\ usedRuns \in Seq(SUBSET Nat) /\ \A c \in DOMAIN usedRuns : IsFiniteSet(usedRuns[c])
  /\ now \in Nat

StampsOf(c) ==
  [profile : {Docs(c).profile.digest}, policy : DOMAIN Docs(c).profile.sources]

\* The dataset of a handle is an output that the definition of its context declares.
Declared(h) ==
  \E k \in DOMAIN Docs(h[1]).definition.stages :
    LET stage == Docs(h[1]).definition.stages[k]
        outputs == Docs(h[1]).catalog[stage.uses].outputs
    IN /\ registry[h].stage = stage.id
       /\ registry[h].port \in DOMAIN outputs
       /\ registry[h].format = outputs[registry[h].port].format

\* An output of a source stage carries the stamp and the restrictions of the policy that it
\* was read under, which was approved, and expires within that policy's ceiling.
ReadUnder(h) ==
  LET d == registry[h]
      source == Docs(h[1]).profile.sources[d.origin.policy]
  IN /\ d.stamps = {[profile |-> Docs(h[1]).profile.digest, policy |-> d.origin.policy]}
     /\ d.parents = {}
     /\ source.approved
     /\ d.redistribution = source.redistribution
     /\ source.ceiling[d.origin.artifact] \in Nat
     /\ d.expires <= d.started + source.ceiling[d.origin.artifact]

\* Another carries the stamps and restrictions of each of its parents.
Carries(h, p) ==
  /\ registry[p].persisted
  /\ registry[p].stamps \subseteq registry[h].stamps
  /\ registry[h].redistribution = "approved" => registry[p].redistribution = "approved"
  /\ registry[h].expires <= registry[p].expires

PersistedInv(h) ==
  /\ registry[h].started \in Nat /\ registry[h].expires \in Nat
  /\ registry[h].started <= registry[h].expires
  /\ registry[h].redistribution \in {"approved", "forbidden"}
  /\ registry[h].stamps # {} /\ registry[h].stamps \subseteq StampsOf(h[1])
  /\ IF registry[h].origin # Nothing THEN ReadUnder(h)
     ELSE \A p \in registry[h].parents : Carries(h, p)
  /\ Roots(h) # {}

DatasetInv(h) ==
  /\ h[1] \in DOMAIN snapshot
  /\ Declared(h)
  /\ registry[h].parents \subseteq DOMAIN registry
  /\ registry[h].persisted \in BOOLEAN
  /\ registry[h].persisted => PersistedInv(h)

Datasets == \A h \in DOMAIN registry : DatasetInv(h)

\* An open invocation is of a stage of its context, whose inputs carry its stamps only.
InvocationInv(i) ==
  /\ i = [context |-> i.context, id |-> i.id, stage |-> i.stage, inputs |-> i.inputs,
          stored |-> i.stored]
  /\ i.context \in DOMAIN snapshot
  /\ i.stage \in DOMAIN Docs(i.context).definition.stages
  /\ i.id \in usedRuns[i.context]
  /\ DOMAIN i.inputs = DOMAIN StageOf(i).inputs
  /\ \A port \in DOMAIN i.inputs :
       /\ i.inputs[port] \in DOMAIN registry
       /\ registry[i.inputs[port]].persisted
       /\ registry[i.inputs[port]].stamps \subseteq StampsOf(i.context)

Invocations ==
  /\ \A i \in invocations : InvocationInv(i)
  /\ \A i, j \in invocations : i.context = j.context /\ i.id = j.id => i = j

\* A subject is of an invocation that was begun, and written at most once, as reviewed.
SubjectInv(x) ==
  /\ x = [handle |-> x.handle, context |-> x.context, run |-> x.run, kind |-> x.kind,
          count |-> x.count, consumed |-> x.consumed, writes |-> x.writes]
  /\ x.context \in DOMAIN snapshot /\ x.run \in usedRuns[x.context]
  /\ ~x.consumed => x.writes = << >>
  /\ x.consumed => \E class \in OutputClasses \cup {"state.write"} :
                     /\ x.writes = <<class>>
                     /\ \A i \in invocations : Owns(i, x) => Reviewed(i, class, x.count)

Subjects == \A x \in subjects : SubjectInv(x)

ApplyInv == Contexts /\ Datasets /\ Invocations /\ Subjects
-----------------------------------------------------------------------------
(* What a context was created from. *)

LEMMA ReadyContext ==
  ASSUME Contexts, NEW c \in DOMAIN snapshot
  PROVE  \E n \in DOMAIN Input : Docs(c) = Input[n] /\ ApplyReady(Input[n])
<1>1. c \in 1..Len(snapshot) /\ snapshot[c] \in Ready
  BY DEF Contexts
<1>2. PICK n : n = snapshot[c]
  OBVIOUS
<1>3. n \in Ready
  BY <1>1, <1>2
<1>4. Docs(c) = Input[n]
  BY <1>2, <1>3 DEF Docs, Frozen
<1> QED BY <1>3, <1>4 DEF Ready

\* The stages of a definition have the numbers up to their count, and their own ids.
LEMMA StagesTyped ==
  ASSUME Contexts, NEW c \in DOMAIN snapshot
  PROVE  LET stages == Docs(c).definition.stages IN
         /\ Len(stages) \in Nat /\ DOMAIN stages = 1..Len(stages)
         /\ \A k, m \in DOMAIN stages : stages[k].id = stages[m].id => k = m
         /\ \A k \in DOMAIN stages :
              /\ stages[k] \in StagesOf(Docs(c).definition)
              /\ ValidInputs(Docs(c).definition, Docs(c).catalog, k)
              /\ ValidManifest(Docs(c).catalog[stages[k].uses])
              /\ ValidBindings(stages[k], Docs(c).catalog[stages[k].uses])
              /\ IsFiniteSet(stages[k].bindings) /\ Nothing \notin stages[k].bindings
              /\ \A port \in DOMAIN stages[k].inputs :
                   stages[k].inputs[port] = <<stages[k].inputs[port][1], stages[k].inputs[port][2]>>
              /\ \A b \in stages[k].bindings : SourceReady(stages[k], b, Docs(c))
<1>1. PICK n \in DOMAIN Input : Docs(c) = Input[n] /\ ApplyReady(Input[n])
  BY ReadyContext
<1>2. /\ Len(Input[n].definition.stages) \in Nat
      /\ DOMAIN Input[n].definition.stages = 1..Len(Input[n].definition.stages)
      /\ \A s \in StagesOf(Input[n].definition) :
           /\ \A port \in DOMAIN s.inputs : s.inputs[port] = <<s.inputs[port][1], s.inputs[port][2]>>
           /\ IsFiniteSet(s.bindings) /\ Nothing \notin s.bindings
  BY InputAssumption
<1>3. \A k \in DOMAIN Input[n].definition.stages :
        Input[n].definition.stages[k] \in StagesOf(Input[n].definition)
  BY DEF StagesOf
<1>4. ValidDefinition(Input[n].definition, Input[n].catalog)
  BY <1>1 DEF ApplyReady
<1>5. \A s \in StagesOf(Input[n].definition) : \A b \in s.bindings : SourceReady(s, b, Input[n])
  BY <1>1 DEF ApplyReady
<1>6. /\ \A use \in DOMAIN Input[n].catalog : ValidManifest(Input[n].catalog[use])
      /\ \A k, m \in DOMAIN Input[n].definition.stages :
           Input[n].definition.stages[k].id = Input[n].definition.stages[m].id => k = m
      /\ \A k \in DOMAIN Input[n].definition.stages :
           LET stage == Input[n].definition.stages[k]
           IN /\ stage.uses \in DOMAIN Input[n].catalog
              /\ ValidInputs(Input[n].definition, Input[n].catalog, k)
              /\ ValidBindings(stage, Input[n].catalog[stage.uses])
  BY <1>4 DEF ValidDefinition
<1>7. PICK stages : stages = Input[n].definition.stages
  OBVIOUS
<1>8. ASSUME NEW k \in DOMAIN stages
      PROVE  /\ stages[k] \in StagesOf(Docs(c).definition)
             /\ ValidInputs(Docs(c).definition, Docs(c).catalog, k)
             /\ ValidManifest(Docs(c).catalog[stages[k].uses])
             /\ ValidBindings(stages[k], Docs(c).catalog[stages[k].uses])
             /\ IsFiniteSet(stages[k].bindings) /\ Nothing \notin stages[k].bindings
             /\ \A port \in DOMAIN stages[k].inputs :
                  stages[k].inputs[port] = <<stages[k].inputs[port][1], stages[k].inputs[port][2]>>
             /\ \A b \in stages[k].bindings : SourceReady(stages[k], b, Docs(c))
  <2>1. PICK stage : stage = stages[k]
    OBVIOUS
  <2>2. stage \in StagesOf(Input[n].definition) /\ stage.uses \in DOMAIN Input[n].catalog
    BY <1>3, <1>6, <1>7, <1>8, <2>1
  <2>3. ValidInputs(Input[n].definition, Input[n].catalog, k)
    BY <1>6, <1>7, <1>8
  <2>4. ValidManifest(Input[n].catalog[stage.uses]) /\ ValidBindings(stage, Input[n].catalog[stage.uses])
    BY <1>6, <1>7, <1>8, <2>1, <2>2
  <2>5. \A b \in stage.bindings : SourceReady(stage, b, Input[n])
    BY <1>5, <2>2
  <2>6. /\ IsFiniteSet(stage.bindings) /\ Nothing \notin stage.bindings
        /\ \A port \in DOMAIN stage.inputs :
             stage.inputs[port] = <<stage.inputs[port][1], stage.inputs[port][2]>>
    BY <1>2, <2>2
  <2> QED BY <1>1, <2>1, <2>2, <2>3, <2>4, <2>5, <2>6
<1> QED BY <1>1, <1>2, <1>6, <1>7, <1>8

\* A profile's policies have ceilings, and its digest is its own.
LEMMA CeilingsTyped ==
  ASSUME Contexts, NEW c \in DOMAIN snapshot, NEW k \in DOMAIN Docs(c).definition.stages,
         NEW b \in Docs(c).definition.stages[k].bindings
  PROVE  /\ b.policy \in DOMAIN Docs(c).profile.sources
         /\ SourcePolicy(c, b).approved
         /\ SourcePolicy(c, b).ceiling[b.artifact] \in Nat
         /\ SourcePolicy(c, b).days \in Nat
<1>1. PICK n \in DOMAIN Input : Docs(c) = Input[n] /\ ApplyReady(Input[n])
  BY ReadyContext
<1>2. PICK stage : stage = Docs(c).definition.stages[k]
  OBVIOUS
<1>3. stage \in StagesOf(Input[n].definition) /\ b \in stage.bindings
  BY <1>1, <1>2 DEF StagesOf
<1>4. SourceReady(stage, b, Input[n])
  BY <1>1, <1>3 DEF ApplyReady
<1>5. b.policy \in DOMAIN Input[n].profile.sources
  BY <1>4 DEF SourceReady
<1>6. PICK source : source = Input[n].profile.sources[b.policy]
  OBVIOUS
<1>7. /\ source.approved
      /\ \A class \in DOMAIN source.ceiling : source.ceiling[class] \in 0..30
      /\ source.days \in 0..source.ceiling[b.artifact]
  BY <1>4, <1>6 DEF SourceReady
<1>8. b.artifact \in DOMAIN source.ceiling
  BY <1>3, <1>5, <1>6, InputAssumption
<1>9. source.ceiling[b.artifact] \in Nat /\ source.days \in Nat
  BY <1>7, <1>8
<1>10. SourcePolicy(c, b) = source
  BY <1>1, <1>6 DEF SourcePolicy
<1> QED BY <1>1, <1>5, <1>7, <1>9, <1>10

LEMMA OneProfilePerDigest ==
  ASSUME Contexts, NEW c \in DOMAIN snapshot, NEW e \in DOMAIN snapshot,
         Docs(c).profile.digest = Docs(e).profile.digest
  PROVE  Docs(c).profile = Docs(e).profile
<1>1. PICK m \in DOMAIN Input : Docs(c) = Input[m]
  BY ReadyContext
<1>2. PICK n \in DOMAIN Input : Docs(e) = Input[n]
  BY ReadyContext
<1> QED BY <1>1, <1>2, InputAssumption

\* What the deployment grants, the definition requests and the profile's policy allows.
LEMMA GrantedIsReviewed ==
  ASSUME Contexts, NEW i, i.context \in DOMAIN snapshot,
         NEW class, NEW count, Granted(i, class, count)
  PROVE  Reviewed(i, class, count)
<1>1. PICK n \in DOMAIN Input : Docs(i.context) = Input[n] /\ ApplyReady(Input[n])
  BY ReadyContext
<1>2. PICK input : input = Docs(i.context)
  OBVIOUS
<1>3. PICK g \in input.deployment.grants :
        g[1] = StageOf(i).id /\ g[2].class = class /\ count <= g[2].max
  BY <1>2 DEF Granted
<1>4. PICK requests : requests = UNION {{<<s.id, r>> : r \in s.requests} : s \in StagesOf(input.definition)}
  OBVIOUS
<1>5. requests \subseteq input.profile.effectPolicy /\ input.deployment.grants = requests
  BY <1>1, <1>2, <1>4 DEF ApplyReady, GrantsExact
<1>6. PICK s \in StagesOf(input.definition) : g \in {<<s.id, r>> : r \in s.requests}
  BY <1>3, <1>4, <1>5
<1>7. PICK r \in s.requests : g = <<s.id, r>>
  BY <1>6
<1>8. s.id = StageOf(i).id /\ r.class = class /\ count <= r.max
  BY <1>3, <1>7
<1>9. <<s.id, r>> \in input.profile.effectPolicy
  BY <1>3, <1>5, <1>7
<1> QED BY <1>2, <1>6, <1>8, <1>9 DEF Reviewed

-----------------------------------------------------------------------------
(* Contexts and datasets are only added. *)

Grows ==
  /\ \A c \in DOMAIN snapshot : c \in DOMAIN snapshot' /\ Docs(c)' = Docs(c)
  /\ \A h \in DOMAIN registry : h \in DOMAIN registry' /\ registry'[h] = registry[h]

\* A dataset keeps its roots when others are added, as its parents were there before.
LEMMA RootsStay ==
  ASSUME Datasets, Grows, NEW h \in DOMAIN registry
  PROVE  Roots(h) \subseteq Roots(h)'
<1>1. SUFFICES ASSUME NEW x \in Roots(h), NEW S \in SUBSET DOMAIN registry',
                      h \in S, Ancestral(S)'
               PROVE  x \in S
  BY DEF Roots, Grows
<1>2. PICK T : T = S \cap DOMAIN registry
  OBVIOUS
<1>3. ASSUME NEW y \in T PROVE registry[y].parents \subseteq T
  <2>1. registry[y].parents \subseteq DOMAIN registry
    BY <1>2, <1>3 DEF Datasets, DatasetInv
  <2>2. registry'[y] = registry[y]
    BY <1>2, <1>3 DEF Grows
  <2>3. registry'[y].parents \subseteq S
    BY <1>1, <1>2, <1>3 DEF Ancestral
  <2> QED BY <1>2, <2>1, <2>2, <2>3
<1>4. Ancestral(T)
  BY <1>3 DEF Ancestral
<1>5. T \in SUBSET DOMAIN registry /\ h \in T
  BY <1>1, <1>2
<1> QED BY <1>1, <1>2, <1>4, <1>5 DEF Roots

LEMMA DatasetsStay ==
  ASSUME Datasets, Grows, NEW h \in DOMAIN registry
  PROVE  DatasetInv(h)'
<1>1. DatasetInv(h) /\ h[1] \in DOMAIN snapshot
  BY DEF Datasets, DatasetInv
<1>2. h[1] \in DOMAIN snapshot' /\ Docs(h[1])' = Docs(h[1])
  BY <1>1 DEF Grows
<1>3. h \in DOMAIN registry' /\ registry'[h] = registry[h]
  BY DEF Grows
<1>4. \A p \in registry[h].parents : p \in DOMAIN registry' /\ registry'[p] = registry[p]
  BY <1>1 DEF Grows, DatasetInv
<1>5. Declared(h)'
  BY <1>1, <1>2, <1>3 DEF Declared, DatasetInv
<1>6. ASSUME registry[h].persisted PROVE PersistedInv(h)'
  <2>1. PersistedInv(h)
    BY <1>1, <1>6 DEF DatasetInv
  <2>2. Roots(h)' # {}
    BY <2>1, RootsStay DEF PersistedInv
  <2>3. StampsOf(h[1])' = StampsOf(h[1])
    BY <1>2 DEF StampsOf
  <2>4. ReadUnder(h) => ReadUnder(h)'
    BY <1>2, <1>3 DEF ReadUnder
  <2>5. \A p \in registry[h].parents : Carries(h, p) => Carries(h, p)'
    BY <1>3, <1>4 DEF Carries
  <2> QED BY <1>3, <2>1, <2>2, <2>3, <2>4, <2>5 DEF PersistedInv
<1> QED BY <1>1, <1>2, <1>3, <1>4, <1>5, <1>6 DEF DatasetInv

LEMMA InvocationsStay ==
  ASSUME Grows, NEW i, InvocationInv(i),
         \A c \in DOMAIN snapshot : usedRuns[c] \subseteq usedRuns'[c]
  PROVE  InvocationInv(i)'
<1>1. i.context \in DOMAIN snapshot' /\ Docs(i.context)' = Docs(i.context)
  BY DEF InvocationInv, Grows
<1>2. StageOf(i)' = StageOf(i)
  BY <1>1 DEF StageOf
<1>3. StampsOf(i.context)' = StampsOf(i.context)
  BY <1>1 DEF StampsOf
<1> QED BY <1>1, <1>2, <1>3 DEF InvocationInv, Grows

\* A subject stays as reviewed while no invocation takes its name.
LEMMA SubjectsStay ==
  ASSUME Grows, NEW x, SubjectInv(x),
         \A c \in DOMAIN snapshot : usedRuns[c] \subseteq usedRuns'[c],
         \A i \in invocations : i.context \in DOMAIN snapshot,
         \A i \in invocations' : Owns(i, x) =>
           \E j \in invocations : j.context = i.context /\ j.id = i.id /\ j.stage = i.stage
  PROVE  SubjectInv(x)'
<1>1. ASSUME NEW i \in invocations', NEW class, Owns(i, x)',
             \A j \in invocations : Owns(j, x) => Reviewed(j, class, x.count)
      PROVE  Reviewed(i, class, x.count)'
  <2>1. PICK j \in invocations : j.context = i.context /\ j.id = i.id /\ j.stage = i.stage
    BY <1>1 DEF Owns
  <2>2. Reviewed(j, class, x.count)
    BY <1>1, <2>1 DEF Owns
  <2>3. Docs(i.context)' = Docs(j.context)
    BY <2>1 DEF Grows
  <2>4. StageOf(i)' = StageOf(j)
    BY <2>1, <2>3 DEF StageOf
  <2> QED BY <2>2, <2>3, <2>4 DEF Reviewed
<1>2. x.context \in DOMAIN snapshot' /\ x.run \in usedRuns'[x.context]
  BY DEF SubjectInv, Grows
<1>3. ASSUME x.consumed
      PROVE  \E class \in OutputClasses \cup {"state.write"} :
               /\ x.writes = <<class>>
               /\ \A i \in invocations' : Owns(i, x)' => Reviewed(i, class, x.count)'
  BY <1>1, <1>3 DEF SubjectInv
<1> QED BY <1>2, <1>3 DEF SubjectInv

-----------------------------------------------------------------------------
(* The outputs of a stage. *)

LEMMA ProposalFields ==
  ASSUME NEW i, NEW port, NEW d \in Proposals(i, port)
  PROVE  /\ d.stage = StageOf(i).id /\ d.port = port
         /\ d.format = Manifest(i).outputs[port].format
         /\ d.persisted \in BOOLEAN
         /\ d.parents = {i.inputs[p] : p \in DOMAIN i.inputs}
         /\ Manifest(i).adapter = Nothing => d.origin = Nothing
         /\ Manifest(i).adapter # Nothing => d.origin \in StageOf(i).bindings /\ port \in d.origin.ports
         /\ d.persisted => /\ d.stamps \in Ancestries
                           /\ d.redistribution \in {"approved", "forbidden"}
                           /\ d.started = now /\ d.expires \in {now + n : n \in Lifetimes}
  BY DEF Proposals

\* One binding reads what an output port of a source stage holds.
LEMMA OneBinding ==
  ASSUME Contexts, NEW i, InvocationInv(i), Manifest(i).adapter # Nothing,
         NEW port \in DOMAIN Manifest(i).outputs,
         NEW b \in StageOf(i).bindings, port \in b.ports,
         NEW c \in StageOf(i).bindings, port \in c.ports
  PROVE  b = c
<1>1. PICK S : S = {e \in StageOf(i).bindings : port \in e.ports}
  OBVIOUS
<1>2. i.context \in DOMAIN snapshot /\ i.stage \in DOMAIN Docs(i.context).definition.stages
  BY DEF InvocationInv
<1>3. /\ ValidBindings(StageOf(i), Manifest(i))
      /\ IsFiniteSet(StageOf(i).bindings)
  BY <1>2, StagesTyped DEF StageOf, Manifest
<1>4. Cardinality(S) = 1
  BY <1>1, <1>3 DEF ValidBindings
<1>5. IsFiniteSet(S)
  BY <1>1, <1>3, FS_Subset
<1>6. \E e : S = {e}
  BY <1>4, <1>5, FS_Singleton
<1> QED BY <1>1, <1>6

LEMMA MinOfTwo ==
  ASSUME NEW n \in Nat, NEW m \in Nat
  PROVE  Min({n, m}) \in Nat /\ Min({n, m}) <= m
  BY DEF Min

LEMMA SourceOutputIsReadUnder ==
  ASSUME Contexts, NEW i, InvocationInv(i), Manifest(i).adapter # Nothing,
         NEW port \in DOMAIN Manifest(i).outputs, NEW d \in Proposals(i, port),
         ValidOutput(i, d)
  PROVE  LET source == Docs(i.context).profile.sources[d.origin.policy] IN
         /\ d.persisted /\ d.parents = {}
         /\ d.origin \in StageOf(i).bindings
         /\ d.origin.policy \in DOMAIN Docs(i.context).profile.sources
         /\ d.stamps = {[profile |-> Docs(i.context).profile.digest, policy |-> d.origin.policy]}
         /\ source.approved
         /\ d.redistribution = source.redistribution
         /\ source.ceiling[d.origin.artifact] \in Nat
         /\ d.expires - d.started \in 0..source.ceiling[d.origin.artifact]
<1>1. /\ d.port = port
      /\ d.parents = {i.inputs[p] : p \in DOMAIN i.inputs}
      /\ d.origin \in StageOf(i).bindings /\ port \in d.origin.ports
  BY ProposalFields
<1>2. d.persisted /\ SourceOutput(i, port, d)
  BY <1>1 DEF ValidOutput
<1>3. PICK b \in StageOf(i).bindings :
        /\ port \in b.ports
        /\ d.stamps = {[profile |-> Docs(i.context).profile.digest, policy |-> b.policy]}
        /\ d.redistribution = SourcePolicy(i.context, b).redistribution
        /\ d.expires - d.started \in
             0..Min({SourcePolicy(i.context, b).days, SourcePolicy(i.context, b).ceiling[b.artifact]})
  BY <1>2 DEF SourceOutput
<1>4. d.origin = b
  BY <1>1, <1>3, OneBinding
<1>5. i.context \in DOMAIN snapshot /\ i.stage \in DOMAIN Docs(i.context).definition.stages
  BY DEF InvocationInv
<1>6. /\ b.policy \in DOMAIN Docs(i.context).profile.sources
      /\ SourcePolicy(i.context, b).approved
      /\ SourcePolicy(i.context, b).ceiling[b.artifact] \in Nat
      /\ SourcePolicy(i.context, b).days \in Nat
  BY <1>3, <1>5, CeilingsTyped DEF StageOf
<1>7. PICK n, m : n = SourcePolicy(i.context, b).days /\ m = SourcePolicy(i.context, b).ceiling[b.artifact]
  OBVIOUS
<1>8. Min({n, m}) \in Nat /\ Min({n, m}) <= m
  BY <1>6, <1>7, MinOfTwo
<1>9. d.expires - d.started \in 0..m
  BY <1>3, <1>6, <1>7, <1>8
<1>10. d.parents = {}
  <2>1. ValidManifest(Manifest(i)) /\ ValidInputs(Docs(i.context).definition, Docs(i.context).catalog, i.stage)
    BY <1>5, StagesTyped DEF StageOf, Manifest
  <2>2. DOMAIN Manifest(i).inputs = {}
    BY <2>1 DEF ValidManifest
  <2>3. DOMAIN StageOf(i).inputs \subseteq DOMAIN Manifest(i).inputs
    BY <2>1 DEF ValidInputs, StageOf, Manifest
  <2> QED BY <1>1, <2>2, <2>3 DEF InvocationInv
<1> QED BY <1>1, <1>2, <1>3, <1>4, <1>6, <1>7, <1>9, <1>10 DEF SourcePolicy

\* What is returned by a stage that is not a source carries its inputs' ancestry.
LEMMA InheritedOutputCarries ==
  ASSUME Contexts, Datasets, NEW i, InvocationInv(i), Manifest(i).adapter = Nothing,
         NEW port, NEW d \in Proposals(i, port), ValidOutput(i, d), d.persisted
  PROVE  /\ d.origin = Nothing
         /\ d.parents # {} /\ d.stamps # {} /\ d.stamps \subseteq StampsOf(i.context)
         /\ \A h \in d.parents :
              /\ h \in DOMAIN registry
              /\ registry[h].persisted
              /\ registry[h].stamps \subseteq d.stamps
              /\ d.redistribution = "approved" => registry[h].redistribution = "approved"
              /\ d.expires <= registry[h].expires
<1>1. /\ d.parents = {i.inputs[p] : p \in DOMAIN i.inputs}
      /\ d.origin = Nothing
  BY ProposalFields
<1>2. Inherits(Parents(i), d)
  BY DEF ValidOutput
<1>3. Parents(i) = {registry[h] : h \in d.parents}
  BY <1>1 DEF Parents
<1>4. \A h \in d.parents :
        /\ h \in DOMAIN registry /\ registry[h].persisted
        /\ registry[h].stamps \subseteq StampsOf(i.context)
  BY <1>1 DEF InvocationInv
<1>5. \A h \in d.parents : registry[h].stamps # {}
                           /\ registry[h].redistribution \in {"approved", "forbidden"}
  BY <1>4 DEF Datasets, DatasetInv, PersistedInv
<1>6. /\ Parents(i) # {}
      /\ d.stamps = UNION {p.stamps : p \in Parents(i)}
      /\ \A p \in Parents(i) : d.expires <= p.expires
      /\ d.redistribution = "approved" => \A p \in Parents(i) : p.redistribution # "forbidden"
  BY <1>2 DEF Inherits
<1>7. d.parents # {}
  BY <1>3, <1>6
<1>8. d.stamps = UNION {registry[h].stamps : h \in d.parents}
  BY <1>3, <1>6
<1>9. \A h \in d.parents : registry[h].stamps \subseteq d.stamps
  BY <1>8
<1>10. d.stamps # {} /\ d.stamps \subseteq StampsOf(i.context)
  BY <1>4, <1>5, <1>7, <1>8
<1>11. \A h \in d.parents : d.expires <= registry[h].expires
  BY <1>3, <1>6
<1>12. \A h \in d.parents : d.redistribution = "approved" => registry[h].redistribution = "approved"
  BY <1>3, <1>5, <1>6
<1> QED BY <1>1, <1>4, <1>7, <1>9, <1>10, <1>11, <1>12

\* What a stage returns is as every dataset is; what has parents has their roots.
LEMMA ReturnedDataset ==
  ASSUME Contexts, Datasets, Grows, NEW i, InvocationInv(i),
         NEW port \in DOMAIN Manifest(i).outputs, NEW d \in Proposals(i, port), ValidOutput(i, d),
         NEW h \in DOMAIN registry', h[1] = i.context, registry'[h] = d
  PROVE  DatasetInv(h)'
<1>1. /\ i.context \in DOMAIN snapshot'
      /\ Docs(h[1])' = Docs(i.context)
  BY DEF InvocationInv, Grows
<1>2. i.stage \in DOMAIN Docs(i.context).definition.stages
  BY DEF InvocationInv
<1>3. /\ d.stage = StageOf(i).id /\ d.port = port
      /\ d.format = Manifest(i).outputs[port].format
      /\ d.persisted \in BOOLEAN
      /\ d.parents = {i.inputs[p] : p \in DOMAIN i.inputs}
  BY ProposalFields
<1>4. Declared(h)'
  <2>1. PICK k, stages : k = i.stage /\ stages = Docs(i.context).definition.stages
    OBVIOUS
  <2>2. StageOf(i) = stages[k] /\ k \in DOMAIN stages
    BY <1>2, <2>1 DEF StageOf
  <2>3. Manifest(i) = Docs(i.context).catalog[stages[k].uses]
    BY <2>2 DEF Manifest
  <2> QED BY ZenonT(60), <1>1, <1>3, <2>1, <2>2, <2>3 DEF Declared
<1>5. d.parents \subseteq DOMAIN registry'
  BY <1>3 DEF InvocationInv, Grows
<1>6. ASSUME d.persisted PROVE PersistedInv(h)'
  <2>1. /\ d.redistribution \in {"approved", "forbidden"}
        /\ d.started = now /\ d.expires \in {now + n : n \in Lifetimes}
    BY <1>6, ProposalFields
  <2>2. d.started \in Nat /\ d.expires \in Nat /\ d.started <= d.expires
    <3>1. PICK n \in Lifetimes : d.expires = now + n
      BY <2>1
    <3>2. n \in Nat
      BY InputAssumption
    <3> QED BY <2>1, <3>1, <3>2 DEF Contexts
  <2>3. StampsOf(h[1])' = StampsOf(i.context)
    BY <1>1 DEF StampsOf
  <2>4. CASE Manifest(i).adapter # Nothing
    <3>1. PICK source : source = Docs(i.context).profile.sources[d.origin.policy]
      OBVIOUS
    <3>2. /\ d.origin \in StageOf(i).bindings /\ d.parents = {}
          /\ d.origin.policy \in DOMAIN Docs(i.context).profile.sources
          /\ d.stamps = {[profile |-> Docs(i.context).profile.digest, policy |-> d.origin.policy]}
          /\ source.approved
          /\ d.redistribution = source.redistribution
          /\ source.ceiling[d.origin.artifact] \in Nat
          /\ d.expires - d.started \in 0..source.ceiling[d.origin.artifact]
      BY <2>4, <3>1, SourceOutputIsReadUnder
    <3>3. PICK limit : limit = source.ceiling[d.origin.artifact]
      OBVIOUS
    <3>4. d.expires <= d.started + limit
      BY <2>2, <3>2, <3>3
    <3>5. ReadUnder(h)'
      BY <1>1, <3>1, <3>2, <3>3, <3>4 DEF ReadUnder
    <3>6. d.origin # Nothing
      <4>1. i.context \in DOMAIN snapshot
        BY DEF InvocationInv
      <4>2. Nothing \notin StageOf(i).bindings
        BY <1>2, <4>1, StagesTyped DEF StageOf
      <4> QED BY <3>2, <4>2
    <3>7. d.stamps # {} /\ d.stamps \subseteq StampsOf(i.context)
      BY <3>2 DEF StampsOf
    <3>8. h \in Roots(h)'
      BY <3>6 DEF Roots
    <3> QED BY <2>1, <2>2, <2>3, <3>5, <3>6, <3>7, <3>8 DEF PersistedInv
  <2>5. CASE Manifest(i).adapter = Nothing
    <3>1. /\ d.origin = Nothing
          /\ d.parents # {} /\ d.stamps # {} /\ d.stamps \subseteq StampsOf(i.context)
      BY <1>6, <2>5, InheritedOutputCarries
    <3>2. \A p \in d.parents :
            /\ p \in DOMAIN registry
            /\ registry[p].persisted
            /\ registry[p].stamps \subseteq d.stamps
            /\ d.redistribution = "approved" => registry[p].redistribution = "approved"
            /\ d.expires <= registry[p].expires
      BY <1>6, <2>5, InheritedOutputCarries
    <3>3. \A p \in d.parents : registry'[p] = registry[p]
      BY <3>2 DEF Grows
    <3>4. \A p \in d.parents : Carries(h, p)'
      BY <3>2, <3>3 DEF Carries
    <3>5. PICK p : p \in d.parents
      BY <3>1
    <3>6. Roots(p) # {} /\ Roots(p) \subseteq Roots(p)'
      BY <3>2, <3>5, RootsStay DEF Datasets, DatasetInv, PersistedInv
    <3>7. Roots(p)' \subseteq Roots(h)'
      <4>1. p \in registry'[h].parents
        BY <3>5
      <4> QED BY <4>1 DEF Roots, Ancestral
    <3> QED BY <2>1, <2>2, <2>3, <3>1, <3>4, <3>6, <3>7 DEF PersistedInv
  <2> QED BY <2>4, <2>5
<1> QED BY <1>1, <1>3, <1>4, <1>5, <1>6 DEF DatasetInv

-----------------------------------------------------------------------------
(* The steps. *)

LEMMA ApplyInvInitially == InitApply => ApplyInv
  BY DEF InitApply, ApplyInv, Contexts, Datasets, Invocations, Subjects

\* A step that leaves contexts, datasets and begun runs alone keeps what is said of them.
LEMMA Untouched ==
  ASSUME ApplyInv, UNCHANGED <<snapshot, usedRuns, registry>>, now' \in Nat
  PROVE  /\ Contexts' /\ Datasets' /\ Grows
         /\ \A i : InvocationInv(i) => InvocationInv(i)'
<1>1. Contexts'
  BY DEF ApplyInv, Contexts, Ready
<1>2. Grows
  BY DEF Grows, Docs
<1>3. Datasets'
  BY <1>2, DatasetsStay DEF Datasets, ApplyInv
<1>4. ASSUME NEW i, InvocationInv(i) PROVE InvocationInv(i)'
  BY <1>2, <1>4, InvocationsStay
<1> QED BY <1>1, <1>2, <1>3, <1>4

LEMMA CreateKeeps ==
  ASSUME ApplyInv, NEW name, CreateContext(name)
  PROVE  ApplyInv'
<1>1. /\ name \in Ready
      /\ snapshot' = Append(snapshot, name) /\ usedRuns' = Append(usedRuns, {})
      /\ UNCHANGED <<invocations, subjects, registry, now, free>>
  BY DEF CreateContext
<1>2. snapshot \in Seq(Ready) /\ usedRuns \in Seq(SUBSET Nat) /\ DOMAIN usedRuns = DOMAIN snapshot
  BY DEF ApplyInv, Contexts
<1>3. Len(usedRuns) = Len(snapshot)
  BY <1>2
<1>4. Contexts'
  <2>1. snapshot' \in Seq(Ready) /\ usedRuns' \in Seq(SUBSET Nat)
    BY <1>1, <1>2
  <2>2. DOMAIN usedRuns' = DOMAIN snapshot'
    BY <1>1, <1>2, <1>3
  <2>3. \A c \in DOMAIN usedRuns' : usedRuns'[c] = {} \/ (c \in DOMAIN usedRuns /\ usedRuns'[c] = usedRuns[c])
    BY <1>1, <1>2
  <2>4. \A c \in DOMAIN usedRuns' : IsFiniteSet(usedRuns'[c])
    BY <2>3, FS_EmptySet DEF ApplyInv, Contexts
  <2> QED BY <1>1, <2>1, <2>2, <2>4 DEF ApplyInv, Contexts, Ready
<1>5. \A c \in DOMAIN snapshot : c \in DOMAIN snapshot' /\ snapshot'[c] = snapshot[c]
  BY <1>1, <1>2
<1>6. \A c \in DOMAIN snapshot : usedRuns'[c] = usedRuns[c]
  BY <1>1, <1>2, <1>3
<1>7. Grows
  BY <1>1, <1>5 DEF Grows, Docs
<1>8. Datasets'
  BY <1>1, <1>7, DatasetsStay DEF Datasets, ApplyInv
<1>9. Invocations'
  <2>1. ASSUME NEW i \in invocations PROVE InvocationInv(i)'
    BY <1>6, <1>7, <2>1, InvocationsStay DEF ApplyInv, Invocations
  <2> QED BY <1>1, <2>1 DEF ApplyInv, Invocations
<1>10. Subjects'
  <2>1. \A i \in invocations : i.context \in DOMAIN snapshot
    BY DEF ApplyInv, Invocations, InvocationInv
  <2>2. ASSUME NEW x \in subjects PROVE SubjectInv(x)'
    <3>1. SubjectInv(x)
      BY DEF ApplyInv, Subjects
    <3> QED BY <1>1, <1>6, <1>7, <2>1, <3>1, SubjectsStay
  <2> QED BY <1>1, <2>2 DEF Subjects
<1> QED BY <1>4, <1>8, <1>9, <1>10 DEF ApplyInv

\* The stage that begins takes inputs that carry the stamps of its context, and no subject
\* has its name yet.
LEMMA BeginKeeps ==
  ASSUME ApplyInv, NEW c \in DOMAIN snapshot, NEW k \in DOMAIN Docs(c).definition.stages,
         NEW id \in Nat, Begin(c, k, id)
  PROVE  ApplyInv'
<1>1. PICK inputs \in [DOMAIN Docs(c).definition.stages[k].inputs -> DOMAIN registry] :
        /\ \A port \in DOMAIN inputs :
             Takes(c, Docs(c).definition.stages[k], port, registry[inputs[port]])
        /\ invocations' = invocations \cup
             {[context |-> c, id |-> id, stage |-> k, inputs |-> inputs, stored |-> 0]}
  BY DEF Begin
<1>2. /\ id \notin usedRuns[c]
      /\ usedRuns' = [usedRuns EXCEPT ![c] = @ \cup {id}]
      /\ UNCHANGED <<snapshot, subjects, registry, now, free>>
  BY DEF Begin
<1>3. PICK new : new = [context |-> c, id |-> id, stage |-> k, inputs |-> inputs, stored |-> 0]
  OBVIOUS
<1>4. snapshot \in Seq(Ready) /\ usedRuns \in Seq(SUBSET Nat) /\ DOMAIN usedRuns = DOMAIN snapshot
  BY DEF ApplyInv, Contexts
<1>5. /\ DOMAIN usedRuns' = DOMAIN usedRuns
      /\ usedRuns' \in Seq(SUBSET Nat)
      /\ id \in usedRuns'[c]
      /\ \A e \in DOMAIN snapshot : usedRuns[e] \subseteq usedRuns'[e]
  BY <1>2, <1>4
<1>6. Contexts'
  <2>1. IsFiniteSet(usedRuns[c] \cup {id})
    BY <1>4, FS_AddElement DEF ApplyInv, Contexts
  <2>2. \A e \in DOMAIN usedRuns' : IsFiniteSet(usedRuns'[e])
    BY <1>2, <1>4, <1>5, <2>1 DEF ApplyInv, Contexts
  <2> QED BY <1>2, <1>5, <2>2 DEF ApplyInv, Contexts, Ready
<1>7. Grows
  BY <1>2 DEF Grows, Docs
<1>8. Datasets'
  BY <1>2, <1>7, DatasetsStay DEF Datasets, ApplyInv
<1>9. StageOf(new)' = Docs(c).definition.stages[k] /\ StampsOf(c)' = StampsOf(c)
  BY <1>2, <1>3 DEF StageOf, StampsOf, Docs
<1>10. ASSUME NEW port \in DOMAIN inputs
       PROVE  /\ inputs[port] \in DOMAIN registry
              /\ registry[inputs[port]].persisted
              /\ registry[inputs[port]].stamps \subseteq StampsOf(c)
  <2>1. PICK h : h = inputs[port]
    OBVIOUS
  <2>2. h \in DOMAIN registry
    BY <1>1, <1>10, <2>1
  <2>3. Takes(c, Docs(c).definition.stages[k], port, registry[h])
    BY <1>1, <2>1
  <2>4. registry[h].persisted
    BY <2>3 DEF Takes
  <2>5. \A s \in registry[h].stamps :
          s.profile = Docs(c).profile.digest /\ s.policy \in DOMAIN Docs(c).profile.sources
    BY <2>3 DEF Takes
  <2>6. DatasetInv(h) /\ PersistedInv(h)
    BY <2>2, <2>4 DEF ApplyInv, Datasets, DatasetInv
  <2>7. registry[h].stamps \subseteq StampsOf(h[1])
    BY <2>6 DEF PersistedInv
  <2>8. registry[h].stamps \subseteq StampsOf(c)
    BY <2>5, <2>7 DEF StampsOf
  <2> QED BY <2>1, <2>2, <2>4, <2>8
<1>11. InvocationInv(new)'
  <2>1. /\ new.context = c /\ new.id = id /\ new.stage = k /\ new.inputs = inputs
        /\ new = [context |-> new.context, id |-> new.id, stage |-> new.stage,
                  inputs |-> new.inputs, stored |-> new.stored]
    BY <1>3
  <2>2. DOMAIN inputs = DOMAIN StageOf(new)'.inputs
    BY <1>9
  <2>3. c \in DOMAIN snapshot' /\ k \in DOMAIN Docs(c)'.definition.stages
    BY <1>2 DEF Docs
  <2>4. \A port \in DOMAIN inputs :
          /\ inputs[port] \in DOMAIN registry'
          /\ registry'[inputs[port]].persisted
          /\ registry'[inputs[port]].stamps \subseteq StampsOf(c)'
    BY <1>2, <1>9, <1>10
  <2>5. id \in usedRuns'[c]
    BY <1>5
  <2> QED BY <2>1, <2>2, <2>3, <2>4, <2>5 DEF InvocationInv
<1>12. ASSUME NEW i \in invocations PROVE InvocationInv(i) /\ InvocationInv(i)'
  BY <1>5, <1>7, <1>12, InvocationsStay DEF ApplyInv, Invocations
<1>13. invocations' = invocations \cup {new}
  BY <1>1, <1>3
<1>14. \A i \in invocations : i.context = c => i.id # id
  BY <1>2, <1>12 DEF InvocationInv
<1>15. Invocations'
  BY <1>3, <1>11, <1>12, <1>13, <1>14 DEF ApplyInv, Invocations
<1>16. Subjects'
  <2>1. \A i \in invocations : i.context \in DOMAIN snapshot
    BY <1>12 DEF InvocationInv
  <2>2. ASSUME NEW x \in subjects PROVE SubjectInv(x)'
    <3>1. SubjectInv(x)
      BY DEF ApplyInv, Subjects
    <3>2. ~Owns(new, x)
      BY <1>2, <1>3, <3>1 DEF Owns, SubjectInv
    <3>3. \A i \in invocations' : Owns(i, x) =>
            \E j \in invocations : j.context = i.context /\ j.id = i.id /\ j.stage = i.stage
      BY <1>13, <3>2
    <3> QED BY <1>5, <1>7, <2>1, <3>1, <3>3, SubjectsStay
  <2> QED BY <1>2, <2>2 DEF Subjects
<1> QED BY <1>6, <1>8, <1>15, <1>16 DEF ApplyInv

LEMMA CloseKeeps ==
  ASSUME ApplyInv, NEW i \in invocations, Close(i)
  PROVE  ApplyInv'
<1>1. /\ invocations' = invocations \ {i} /\ subjects' \subseteq subjects
      /\ UNCHANGED <<snapshot, usedRuns, registry, now, free>>
  BY DEF Close
<1>2. now' \in Nat
  BY <1>1 DEF ApplyInv, Contexts
<1>3. Contexts' /\ Datasets' /\ Grows /\ \A j : InvocationInv(j) => InvocationInv(j)'
  BY <1>1, <1>2, Untouched
<1>4. Invocations'
  BY <1>1, <1>3 DEF ApplyInv, Invocations
<1>5. ASSUME NEW x \in subjects' PROVE SubjectInv(x)'
  <2>1. SubjectInv(x)
    BY <1>1, <1>5 DEF ApplyInv, Subjects
  <2>2. \A j \in invocations : j.context \in DOMAIN snapshot
    BY DEF ApplyInv, Invocations, InvocationInv
  <2> QED BY <1>1, <1>3, <2>1, <2>2, SubjectsStay
<1> QED BY <1>3, <1>4, <1>5 DEF ApplyInv, Subjects

LEMMA StoreKeeps ==
  ASSUME ApplyInv, NEW i \in invocations, Store(i)
  PROVE  ApplyInv'
<1>1. PICK more : more = [i EXCEPT !.stored = @ + 1]
  OBVIOUS
<1>2. /\ invocations' = (invocations \ {i}) \cup {more}
      /\ UNCHANGED <<snapshot, usedRuns, subjects, registry, now>>
  BY <1>1 DEF Store
<1>3. now' \in Nat
  BY <1>2 DEF ApplyInv, Contexts
<1>4. Contexts' /\ Datasets' /\ Grows /\ \A j : InvocationInv(j) => InvocationInv(j)'
  BY <1>2, <1>3, Untouched
<1>5. InvocationInv(i)
  BY DEF ApplyInv, Invocations
<1>6. /\ more.context = i.context /\ more.id = i.id /\ more.stage = i.stage /\ more.inputs = i.inputs
      /\ more = [context |-> more.context, id |-> more.id, stage |-> more.stage,
                 inputs |-> more.inputs, stored |-> more.stored]
  <2>1. PICK c, d, k, f, n : i = [context |-> c, id |-> d, stage |-> k, inputs |-> f, stored |-> n]
    BY <1>5 DEF InvocationInv
  <2>2. more = [context |-> c, id |-> d, stage |-> k, inputs |-> f, stored |-> n + 1]
    BY <1>1, <2>1
  <2> QED BY <2>1, <2>2
<1>7. InvocationInv(more)'
  <2>1. InvocationInv(i)'
    BY <1>4, <1>5
  <2>2. StageOf(more)' = StageOf(i)'
    BY <1>6 DEF StageOf
  <2> QED BY <1>6, <2>1, <2>2 DEF InvocationInv
<1>8. Invocations'
  BY <1>2, <1>4, <1>6, <1>7 DEF ApplyInv, Invocations
<1>9. ASSUME NEW x \in subjects PROVE SubjectInv(x)'
  <2>1. SubjectInv(x)
    BY DEF ApplyInv, Subjects
  <2>2. \A j \in invocations : j.context \in DOMAIN snapshot
    BY DEF ApplyInv, Invocations, InvocationInv
  <2>3. \A j \in invocations' :
          \E m \in invocations : m.context = j.context /\ m.id = j.id /\ m.stage = j.stage
    BY <1>2, <1>6
  <2> QED BY <1>2, <1>4, <2>1, <2>2, <2>3, SubjectsStay
<1> QED BY <1>2, <1>4, <1>8, <1>9 DEF ApplyInv, Subjects

LEMMA BindKeeps ==
  ASSUME ApplyInv, NEW i \in invocations, NEW kind, NEW count, BindSubject(i, kind, count)
  PROVE  ApplyInv'
<1>1. PICK handle :
        subjects' = subjects \cup {[handle |-> handle, context |-> i.context, run |-> i.id, kind |-> kind,
                                    count |-> count, consumed |-> FALSE, writes |-> << >>]}
  BY DEF BindSubject
<1>2. PICK new : new = [handle |-> handle, context |-> i.context, run |-> i.id, kind |-> kind,
                       count |-> count, consumed |-> FALSE, writes |-> << >>]
  OBVIOUS
<1>3. UNCHANGED <<snapshot, usedRuns, invocations, registry, now, free>>
  BY DEF BindSubject
<1>4. now' \in Nat
  BY <1>3 DEF ApplyInv, Contexts
<1>5. Contexts' /\ Datasets' /\ Grows /\ \A j : InvocationInv(j) => InvocationInv(j)'
  BY <1>3, <1>4, Untouched
<1>6. Invocations'
  BY <1>3, <1>5 DEF ApplyInv, Invocations
<1>7. InvocationInv(i)
  BY DEF ApplyInv, Invocations
<1>8. SubjectInv(new)'
  BY <1>2, <1>3, <1>7 DEF SubjectInv, InvocationInv
<1>9. ASSUME NEW x \in subjects PROVE SubjectInv(x)'
  <2>1. SubjectInv(x)
    BY DEF ApplyInv, Subjects
  <2>2. \A j \in invocations : j.context \in DOMAIN snapshot
    BY DEF ApplyInv, Invocations, InvocationInv
  <2> QED BY <1>3, <1>5, <2>1, <2>2, SubjectsStay
<1> QED BY <1>1, <1>2, <1>5, <1>6, <1>8, <1>9 DEF ApplyInv, Subjects

\* No other open invocation has the name of the one that writes, so that its grant is
\* what the subject's write is held to.
LEMMA AuthorizeKeeps ==
  ASSUME ApplyInv, NEW i \in invocations, NEW x \in subjects,
         NEW class \in OutputClasses \cup {"state.write"}, AuthorizeSubject(i, x, class)
  PROVE  ApplyInv'
<1>1. PICK y : y = [x EXCEPT !.consumed = TRUE, !.writes = Append(@, class)]
  OBVIOUS
<1>2. /\ Owns(i, x) /\ ~x.consumed /\ Granted(i, class, x.count)
      /\ subjects' = (subjects \ {x}) \cup {y}
      /\ UNCHANGED <<snapshot, usedRuns, invocations, registry, now, free>>
  BY <1>1 DEF AuthorizeSubject, Unused
<1>3. now' \in Nat
  BY <1>2 DEF ApplyInv, Contexts
<1>4. Contexts' /\ Datasets' /\ Grows /\ \A j : InvocationInv(j) => InvocationInv(j)'
  BY <1>2, <1>3, Untouched
<1>5. Invocations'
  BY <1>2, <1>4 DEF ApplyInv, Invocations
<1>6. InvocationInv(i) /\ SubjectInv(x)
  BY DEF ApplyInv, Invocations, Subjects
<1>7. /\ y.context = x.context /\ y.run = x.run /\ y.count = x.count
      /\ y.consumed = TRUE /\ y.writes = <<class>>
      /\ y = [handle |-> y.handle, context |-> y.context, run |-> y.run, kind |-> y.kind,
              count |-> y.count, consumed |-> y.consumed, writes |-> y.writes]
  <2>1. PICK h, c, r, k, n, w, s :
          x = [handle |-> h, context |-> c, run |-> r, kind |-> k, count |-> n,
               consumed |-> w, writes |-> s]
    BY <1>6 DEF SubjectInv
  <2>2. s = << >>
    BY <1>2, <1>6, <2>1 DEF SubjectInv
  <2>3. y = [handle |-> h, context |-> c, run |-> r, kind |-> k, count |-> n,
             consumed |-> TRUE, writes |-> Append(s, class)]
    BY <1>1, <2>1
  <2>4. Append(s, class) = <<class>>
    BY <2>2
  <2> QED BY <2>1, <2>3, <2>4
<1>8. Reviewed(i, class, x.count)
  BY <1>2, <1>6, GrantedIsReviewed DEF ApplyInv, InvocationInv
<1>9. ASSUME NEW j \in invocations, Owns(j, y) PROVE j = i
  BY <1>2, <1>7, <1>9 DEF ApplyInv, Invocations, Owns
<1>10. SubjectInv(y)
  BY <1>6, <1>7, <1>8, <1>9 DEF SubjectInv
<1>11. ASSUME NEW z, SubjectInv(z) PROVE SubjectInv(z)'
  <2>1. \A j \in invocations : j.context \in DOMAIN snapshot
    BY DEF ApplyInv, Invocations, InvocationInv
  <2> QED BY <1>2, <1>4, <1>11, <2>1, SubjectsStay
<1>12. Subjects'
  BY <1>2, <1>10, <1>11 DEF ApplyInv, Subjects
<1> QED BY <1>4, <1>5, <1>12 DEF ApplyInv

LEMMA ReturnKeeps ==
  ASSUME ApplyInv, NEW i \in invocations, Return(i)
  PROVE  ApplyInv'
<1>1. UNCHANGED <<snapshot, usedRuns, invocations, subjects, now, free>>
  BY DEF Return
<1>2. PICK produced \in SUBSET DOMAIN Manifest(i).outputs : \E outputs :
        /\ \A port \in produced :
             outputs[port] \in Proposals(i, port) /\ ValidOutput(i, outputs[port])
        /\ registry' = [h \in DOMAIN registry \cup {<<i.context, i.id, port>> : port \in produced} |->
                          IF h \in DOMAIN registry THEN registry[h] ELSE outputs[h[3]]]
  BY DEF Return
<1>3. PICK outputs :
        /\ \A port \in produced :
             outputs[port] \in Proposals(i, port) /\ ValidOutput(i, outputs[port])
        /\ registry' = [h \in DOMAIN registry \cup {<<i.context, i.id, port>> : port \in produced} |->
                          IF h \in DOMAIN registry THEN registry[h] ELSE outputs[h[3]]]
  BY <1>2
<1>4. Grows
  BY <1>1, <1>3 DEF Grows, Docs
<1>5. InvocationInv(i)
  BY DEF ApplyInv, Invocations
<1>6. ASSUME NEW h \in DOMAIN registry' PROVE DatasetInv(h)'
  <2>1. CASE h \in DOMAIN registry
    BY <1>4, <2>1, DatasetsStay DEF ApplyInv
  <2>2. CASE h \notin DOMAIN registry
    <3>1. PICK port \in produced : h = <<i.context, i.id, port>>
      BY <1>3, <1>6, <2>2
    <3>2. h[1] = i.context /\ registry'[h] = outputs[port]
      BY <1>3, <2>2, <3>1
    <3>3. port \in DOMAIN Manifest(i).outputs
      BY <3>1
    <3> QED BY <1>3, <1>4, <1>5, <3>1, <3>2, <3>3, ReturnedDataset DEF ApplyInv
  <2> QED BY <2>1, <2>2
<1>7. Contexts'
  BY <1>1 DEF ApplyInv, Contexts, Ready
<1>8. \A c \in DOMAIN snapshot : usedRuns[c] \subseteq usedRuns'[c]
  BY <1>1
<1>9. Invocations'
  <2>1. ASSUME NEW j \in invocations PROVE InvocationInv(j)'
    BY <1>4, <1>8, <2>1, InvocationsStay DEF ApplyInv, Invocations
  <2> QED BY <1>1, <2>1 DEF ApplyInv, Invocations
<1>10. ASSUME NEW x \in subjects PROVE SubjectInv(x)'
  <2>1. SubjectInv(x)
    BY DEF ApplyInv, Subjects
  <2>2. \A j \in invocations : j.context \in DOMAIN snapshot
    BY DEF ApplyInv, Invocations, InvocationInv
  <2> QED BY <1>1, <1>4, <1>8, <2>1, <2>2, SubjectsStay
<1> QED BY <1>1, <1>6, <1>7, <1>9, <1>10 DEF ApplyInv, Datasets, Subjects

\* What holds of contexts, datasets, invocations and subjects holds for ever.
THEOREM ApplyInvariant == SpecApply => []ApplyInv
<1>1. ASSUME ApplyInv, [NextApply]_applyVars PROVE ApplyInv'
  <2>1. CASE UNCHANGED applyVars
    <3>1. UNCHANGED <<snapshot, usedRuns, invocations, subjects, registry, now>>
      BY <2>1 DEF applyVars
    <3>2. now' \in Nat
      BY <1>1, <3>1 DEF ApplyInv, Contexts
    <3>3. Contexts' /\ Datasets' /\ Grows /\ \A j : InvocationInv(j) => InvocationInv(j)'
      BY <1>1, <3>1, <3>2, Untouched
    <3>4. Invocations'
      BY <1>1, <3>1, <3>3 DEF ApplyInv, Invocations
    <3>5. ASSUME NEW x \in subjects PROVE SubjectInv(x)'
      <4>1. SubjectInv(x) /\ \A j \in invocations : j.context \in DOMAIN snapshot
        BY <1>1 DEF ApplyInv, Subjects, Invocations, InvocationInv
      <4> QED BY <3>1, <3>3, <4>1, SubjectsStay
    <3> QED BY <3>1, <3>3, <3>4, <3>5 DEF ApplyInv, Subjects
  <2>2. CASE Tick
    <3>1. UNCHANGED <<snapshot, usedRuns, invocations, subjects, registry>> /\ now' = now + 1
      BY <2>2 DEF Tick
    <3>2. now' \in Nat
      BY <1>1, <3>1 DEF ApplyInv, Contexts
    <3>3. Contexts' /\ Datasets' /\ Grows /\ \A j : InvocationInv(j) => InvocationInv(j)'
      BY <1>1, <3>1, <3>2, Untouched
    <3>4. Invocations'
      BY <1>1, <3>1, <3>3 DEF ApplyInv, Invocations
    <3>5. ASSUME NEW x \in subjects PROVE SubjectInv(x)'
      <4>1. SubjectInv(x) /\ \A j \in invocations : j.context \in DOMAIN snapshot
        BY <1>1 DEF ApplyInv, Subjects, Invocations, InvocationInv
      <4> QED BY <3>1, <3>3, <4>1, SubjectsStay
    <3> QED BY <3>1, <3>3, <3>4, <3>5 DEF ApplyInv, Subjects
  <2>3. CASE \E name \in DOMAIN Input : CreateContext(name)
    BY <1>1, <2>3, CreateKeeps
  <2>4. CASE \E c \in DOMAIN snapshot : \E k \in DOMAIN Docs(c).definition.stages :
               Begin(c, k, Cardinality(usedRuns[c]) + 1)
    <3>1. PICK c \in DOMAIN snapshot : \E k \in DOMAIN Docs(c).definition.stages :
             Begin(c, k, Cardinality(usedRuns[c]) + 1)
      BY <2>4
    <3>2. Cardinality(usedRuns[c]) + 1 \in Nat
      <4>1. IsFiniteSet(usedRuns[c])
        BY <1>1 DEF ApplyInv, Contexts
      <4>2. Cardinality(usedRuns[c]) \in Nat
        BY <4>1, FS_CardinalityType
      <4> QED BY <4>2
    <3> QED BY <1>1, <3>1, <3>2, BeginKeeps
  <2>5. ASSUME NEW i \in invocations,
               \/ Close(i) \/ Return(i) \/ Store(i)
               \/ \E kind, count : BindSubject(i, kind, count)
               \/ \E x \in subjects, class \in OutputClasses \cup {"state.write"} :
                    AuthorizeSubject(i, x, class)
        PROVE  ApplyInv'
    BY <1>1, <2>5, CloseKeeps, ReturnKeeps, StoreKeeps, BindKeeps, AuthorizeKeeps
  <2> QED BY <1>1, <2>1, <2>2, <2>3, <2>4, <2>5 DEF NextApply
<1> QED BY <1>1, ApplyInvInitially, PTL DEF SpecApply

-----------------------------------------------------------------------------
(* What follows of it. *)

\* Every root of a dataset is persisted, and the dataset carries its stamps, its
\* restrictions and its expiry.  The datasets that carry those of a given one include the
\* parents of each.
LEMMA RootsCarried ==
  ASSUME Datasets, NEW h \in DOMAIN registry, registry[h].persisted, NEW x \in Roots(h)
  PROVE  /\ x \in DOMAIN registry /\ registry[x].origin # Nothing
         /\ Carries(h, x)
<1>1. PICK S : S = {y \in DOMAIN registry : Carries(h, y)}
  OBVIOUS
<1>2. \A y \in DOMAIN registry : registry[y].persisted => PersistedInv(y)
  BY DEF Datasets, DatasetInv
<1>3. h \in S
  BY <1>1, <1>2 DEF Carries, PersistedInv
<1>4. ASSUME NEW y \in S, NEW p \in registry[y].parents PROVE p \in S
  <2>1. y \in DOMAIN registry /\ Carries(h, y)
    BY <1>1
  <2>2. registry[y].persisted
    BY <2>1 DEF Carries
  <2>3. p \in DOMAIN registry
    BY <2>1 DEF Datasets, DatasetInv
  <2>4. CASE registry[y].origin = Nothing
    <3>1. Carries(y, p)
      BY <1>2, <2>1, <2>2, <2>4 DEF PersistedInv
    <3>2. registry[p].persisted
      BY <3>1 DEF Carries
    <3>3. /\ registry[h].expires \in Nat /\ registry[y].expires \in Nat
          /\ registry[p].expires \in Nat
      BY <1>2, <2>1, <2>2, <2>3, <3>2 DEF PersistedInv
    <3>4. Carries(h, p)
      BY <2>1, <3>1, <3>3 DEF Carries
    <3> QED BY <1>1, <2>3, <3>4
  <2>5. CASE registry[y].origin # Nothing
    BY <1>2, <2>1, <2>2, <2>5 DEF PersistedInv, ReadUnder
  <2> QED BY <2>4, <2>5
<1>5. S \in SUBSET DOMAIN registry /\ Ancestral(S)
  BY <1>1, <1>4 DEF Ancestral
<1> QED BY <1>1, <1>3, <1>5 DEF Roots

\* Whatever stages propose and however late they return it, what may be written to a
\* consumer honours the source policies of everything it was made from.
LEMMA HonoursSources == ApplyInv => WritesHonourSources
<1> SUFFICES ASSUME ApplyInv, NEW i \in invocations, NEW class \in ConsumerClasses,
                    NEW h \in DOMAIN registry, MayConsume(i, class, h)
             PROVE  /\ Roots(h) # {}
                    /\ \A x \in Roots(h) :
                         LET root == registry[x]
                             source == Docs(i.context).profile.sources[root.origin.policy]
                         IN /\ Docs(x[1]).profile = Docs(i.context).profile
                            /\ source.approved
                            /\ now < root.started + source.ceiling[root.origin.artifact]
                            /\ class = "public.write" => source.redistribution = "approved"
  BY DEF WritesHonourSources
<1>1. /\ registry[h].persisted /\ registry[h].expires > now
      /\ class = "public.write" => registry[h].redistribution = "approved"
  BY DEF MayConsume
<1>2. PICK port \in DOMAIN i.inputs : i.inputs[port] = h
  BY DEF MayConsume
<1>3. i.context \in DOMAIN snapshot /\ registry[h].stamps \subseteq StampsOf(i.context)
  BY <1>2 DEF ApplyInv, Invocations, InvocationInv
<1>4. PersistedInv(h)
  BY <1>1 DEF ApplyInv, Datasets, DatasetInv
<1>5. Roots(h) # {} /\ registry[h].expires \in Nat
  BY <1>4 DEF PersistedInv
<1>6. ASSUME NEW x \in Roots(h)
      PROVE  LET root == registry[x]
                 source == Docs(i.context).profile.sources[root.origin.policy]
             IN /\ Docs(x[1]).profile = Docs(i.context).profile
                /\ source.approved
                /\ now < root.started + source.ceiling[root.origin.artifact]
                /\ class = "public.write" => source.redistribution = "approved"
  <2>1. x \in DOMAIN registry /\ registry[x].origin # Nothing /\ Carries(h, x)
    BY <1>1, RootsCarried DEF ApplyInv
  <2>2. registry[x].persisted /\ DatasetInv(x)
    BY <2>1 DEF Carries, ApplyInv, Datasets
  <2>3. x[1] \in DOMAIN snapshot /\ PersistedInv(x)
    BY <2>2 DEF DatasetInv
  <2>4. ReadUnder(x) /\ registry[x].started \in Nat /\ registry[x].expires \in Nat
    BY <2>1, <2>3 DEF PersistedInv
  <2>5. PICK stamp : stamp = [profile |-> Docs(x[1]).profile.digest, policy |-> registry[x].origin.policy]
    OBVIOUS
  <2>6. stamp \in registry[h].stamps
    BY <2>1, <2>4, <2>5 DEF ReadUnder, Carries
  <2>7. Docs(x[1]).profile.digest = Docs(i.context).profile.digest
    BY <1>3, <2>5, <2>6 DEF StampsOf
  <2>8. Docs(x[1]).profile = Docs(i.context).profile
    BY <1>3, <2>3, <2>7, OneProfilePerDigest DEF ApplyInv
  <2>9. PICK source : source = Docs(i.context).profile.sources[registry[x].origin.policy]
    OBVIOUS
  <2>10. PICK limit : limit = source.ceiling[registry[x].origin.artifact]
    OBVIOUS
  <2>11. /\ source.approved /\ limit \in Nat
         /\ registry[x].redistribution = source.redistribution
         /\ registry[x].expires <= registry[x].started + limit
    BY <2>4, <2>8, <2>9, <2>10 DEF ReadUnder
  <2>12. now < registry[x].started + limit
    <3>1. now \in Nat
      BY DEF ApplyInv, Contexts
    <3>2. registry[h].expires <= registry[x].expires
      BY <2>1 DEF Carries
    <3> QED BY <1>1, <1>5, <2>4, <2>11, <3>1, <3>2
  <2>13. class = "public.write" => source.redistribution = "approved"
    BY <1>1, <2>1, <2>11 DEF Carries
  <2> QED BY <2>8, <2>9, <2>10, <2>11, <2>12, <2>13
<1> QED BY <1>5, <1>6

\* Whatever stages propose for their outputs, data goes to a consumer only within the ceiling,
\* the approval and the redistribution terms of the policies of all sources that it came
\* from, through any stages between (MayConsume, authorizeEffect()).
THEOREM WritesAreWithinPolicies == SpecApply => []WritesHonourSources
  BY ApplyInvariant, HonoursSources, PTL

-----------------------------------------------------------------------------
(* The checks beforehand and at run time agree. *)

LEMMA NothingUnreviewed == ApplyInv => EffectsReviewed
<1> SUFFICES ASSUME ApplyInv, NEW i \in invocations
             PROVE  /\ \A class \in ReadClasses : \A count \in Records[class] :
                         MayRead(i, class, count) => Reviewed(i, class, count)
                    /\ \A class \in ConsumerClasses : \A h \in DOMAIN registry :
                         MayConsume(i, class, h) => Reviewed(i, class, registry[h].count)
                    /\ \A x \in {x \in subjects : Owns(i, x)} :
                         /\ Len(x.writes) <= 1
                         /\ \A class \in Range(x.writes) : Reviewed(i, class, x.count)
  BY DEF EffectsReviewed
<1>1. Contexts /\ i.context \in DOMAIN snapshot
  BY DEF ApplyInv, Invocations, InvocationInv
<1>2. ASSUME NEW class, NEW count, MayRead(i, class, count) PROVE Reviewed(i, class, count)
  BY <1>1, <1>2, GrantedIsReviewed DEF MayRead
<1>3. ASSUME NEW class, NEW h, MayConsume(i, class, h) PROVE Reviewed(i, class, registry[h].count)
  <2>1. Granted(i, class, registry[h].count)
    BY <1>3 DEF MayConsume
  <2> QED BY <1>1, <2>1, GrantedIsReviewed
<1>4. ASSUME NEW x \in subjects, Owns(i, x)
      PROVE  Len(x.writes) <= 1 /\ \A class \in Range(x.writes) : Reviewed(i, class, x.count)
  <2>1. SubjectInv(x)
    BY DEF ApplyInv, Subjects
  <2>2. CASE x.consumed
    <3>1. PICK class : x.writes = <<class>> /\ Reviewed(i, class, x.count)
      BY <1>4, <2>1, <2>2 DEF SubjectInv
    <3>2. Len(<<class>>) = 1 /\ Range(<<class>>) = {class}
      BY DEF Range
    <3> QED BY <3>1, <3>2
  <2>3. CASE ~x.consumed
    <3>1. x.writes = << >>
      BY <2>1, <2>3 DEF SubjectInv
    <3>2. Len(<< >>) = 0 /\ Range(<< >>) = {}
      BY DEF Range
    <3> QED BY <3>1, <3>2
  <2> QED BY <2>2, <2>3
<1> QED BY <1>2, <1>3, <1>4

\* What an earlier stage declared, its datasets are: so what was compatible beforehand
\* can be taken.
LEMMA PromisedIsTaken == ApplyInv => CanGoOn
<1> SUFFICES ASSUME ApplyInv, NEW c \in DOMAIN snapshot, NEW k \in DOMAIN Docs(c).definition.stages,
                    NEW port \in DOMAIN Docs(c).definition.stages[k].inputs, Supplied(c, k)
             PROVE  \E h \in DOMAIN registry :
                      h[1] = c /\ Takes(c, Docs(c).definition.stages[k], port, registry[h])
  BY DEF CanGoOn
<1>1. PICK input : input = Docs(c)
  OBVIOUS
<1>2. PICK stages : stages = input.definition.stages
  OBVIOUS
<1>3. /\ Len(stages) \in Nat /\ DOMAIN stages = 1..Len(stages)
      /\ \A j, m \in DOMAIN stages : stages[j].id = stages[m].id => j = m
      /\ ValidInputs(input.definition, input.catalog, k)
      /\ stages[k].inputs[port] = <<stages[k].inputs[port][1], stages[k].inputs[port][2]>>
  BY <1>1, <1>2, StagesTyped DEF ApplyInv
<1>4. RefersBack(input.definition, input.catalog, k, port)
  BY <1>1, <1>2, <1>3 DEF ValidInputs
<1>5. PICK ref : ref = stages[k].inputs[port]
  OBVIOUS
<1>6. PICK j \in 1..(k - 1) :
        /\ stages[j].id = ref[1]
        /\ ref[2] \in DOMAIN input.catalog[stages[j].uses].outputs
        /\ input.catalog[stages[j].uses].outputs[ref[2]].format
             = input.catalog[stages[k].uses].inputs[port].format
  BY <1>2, <1>4, <1>5 DEF RefersBack
<1>7. PICK h \in DOMAIN registry :
        /\ h[1] = c /\ registry[h].persisted /\ registry[h].expires > now
        /\ registry[h].stage = stages[j].id /\ registry[h].port = ref[2]
  <2>1. PICK p : p = ref[2]
    OBVIOUS
  <2>2. p \in DOMAIN Docs(c).catalog[Docs(c).definition.stages[j].uses].outputs
    BY <1>1, <1>2, <1>6, <2>1
  <2>3. \E h \in DOMAIN registry :
          /\ h[1] = c /\ registry[h].persisted /\ registry[h].expires > now
          /\ registry[h].stage = Docs(c).definition.stages[j].id /\ registry[h].port = p
    BY <1>6, <2>2 DEF Supplied
  <2> QED BY <1>1, <1>2, <2>1, <2>3
<1>8. DatasetInv(h) /\ PersistedInv(h) /\ Declared(h)
  BY <1>7 DEF ApplyInv, Datasets, DatasetInv
<1>9. /\ registry[h].started <= registry[h].expires
      /\ registry[h].stamps # {} /\ registry[h].stamps \subseteq StampsOf(c)
  BY <1>7, <1>8 DEF PersistedInv
<1>10. PICK m \in DOMAIN stages :
         /\ registry[h].stage = stages[m].id
         /\ registry[h].format = input.catalog[stages[m].uses].outputs[registry[h].port].format
  BY <1>1, <1>2, <1>7, <1>8 DEF Declared
<1>11. j \in DOMAIN stages
  BY <1>1, <1>2, <1>3
<1>12. m = j /\ registry[h].port = ref[2]
  BY <1>3, <1>7, <1>10, <1>11
<1>13. registry[h].format = input.catalog[stages[k].uses].inputs[port].format
  BY <1>6, <1>10, <1>12
<1>14. <<registry[h].stage, registry[h].port>> = ref
  BY <1>3, <1>5, <1>6, <1>7
<1>15. \A s \in registry[h].stamps :
         s.profile = input.profile.digest /\ s.policy \in DOMAIN input.profile.sources
  BY <1>1, <1>9 DEF StampsOf
<1>16. Takes(c, stages[k], port, registry[h])
  BY <1>1, <1>5, <1>7, <1>9, <1>13, <1>14, <1>15 DEF Takes
<1> QED BY <1>1, <1>2, <1>7, <1>16

\* The checks at run time agree with readiness: what a stage may do was reviewed, and a
\* pipeline that was admitted can take the artifacts that the stages before one left.
THEOREM ChecksAlwaysAgree == SpecApply => []ChecksAgree
<1>1. ApplyInv => ChecksAgree
  BY NothingUnreviewed, PromisedIsTaken DEF ChecksAgree
<1> QED BY <1>1, ApplyInvariant, PTL

-----------------------------------------------------------------------------
(* Reservations. *)

\* All contexts are of one host.
OneHost == \A m, n \in Ready : Input[m].host = Input[n].host

\* What the open invocations have reserved on the disk and not written.
Unwritten == UNION {{i} \X ((i.stored + 1)..StageOf(i).reserve.bytes) : i \in invocations}

GroupOf(i) == {j \in invocations : StageOf(j).reserve.group = StageOf(i).reserve.group}

\* Beside what is reserved and not written, the disk keeps the watermarks.
Kept(i) ==
  LET host == Docs(i.context).host
  IN /\ free >= Cardinality(Unwritten) + host.watermark
     /\ free >= Cardinality(Unwritten) + StageOf(i).reserve.watermark
     /\ Reserved(invocations, "cpu") <= host.cpu
     /\ Cardinality(GroupOf(i)) <= host.groups[StageOf(i).reserve.group]

ReservationInv ==
  /\ IsFiniteSet(invocations) /\ free \in Nat
  /\ \A i \in invocations : i.stored \in Nat /\ Kept(i)

\* A stage's reservation and the limits of its host.
LEMMA ReserveTyped ==
  ASSUME Contexts, NEW c \in DOMAIN snapshot, NEW k \in DOMAIN Docs(c).definition.stages
  PROVE  LET reserve == Docs(c).definition.stages[k].reserve
             host == Docs(c).host
         IN /\ reserve.cpu \in Nat /\ reserve.bytes \in Nat /\ reserve.watermark \in Nat
            /\ host.cpu \in Nat /\ host.watermark \in Nat
            /\ host.groups[reserve.group] \in Nat
<1>1. PICK n \in DOMAIN Input : Docs(c) = Input[n] /\ ApplyReady(Input[n])
  BY ReadyContext
<1>2. PICK s \in StagesOf(Input[n].definition) : s = Docs(c).definition.stages[k]
  BY <1>1 DEF StagesOf
<1>3. s.reserve.group \in DOMAIN Input[n].host.groups
  BY <1>1 DEF ApplyReady
<1>4. /\ Input[n].host.cpu \in Nat /\ Input[n].host.watermark \in Nat
      /\ \A group \in DOMAIN Input[n].host.groups : Input[n].host.groups[group] \in Nat
      /\ s.reserve.cpu \in Nat /\ s.reserve.bytes \in Nat /\ s.reserve.watermark \in Nat
  BY InputAssumption
<1> QED BY <1>1, <1>2, <1>3, <1>4

LEMMA SameHost ==
  ASSUME OneHost, Contexts, NEW c \in DOMAIN snapshot, NEW e \in DOMAIN snapshot
  PROVE  Docs(c).host = Docs(e).host
<1>1. snapshot[c] \in Ready /\ snapshot[e] \in Ready
  BY DEF Contexts
<1>2. Docs(c) = Input[snapshot[c]] /\ Docs(e) = Input[snapshot[e]]
  BY <1>1 DEF Docs, Frozen
<1> QED BY <1>1, <1>2 DEF OneHost

\* Numbered parts of finitely many things are finitely many.
LEMMA PartsFinite ==
  ASSUME NEW S, IsFiniteSet(S), NEW low, NEW high,
         \A i \in S : low[i] \in Int /\ high[i] \in Int
  PROVE  IsFiniteSet(UNION {{i} \X (low[i]..high[i]) : i \in S})
<1>1. PICK parts : parts = {{i} \X (low[i]..high[i]) : i \in S}
  OBVIOUS
<1>2. PICK f : f = [i \in S |-> {i} \X (low[i]..high[i])]
  OBVIOUS
<1>3. f \in Surjection(S, parts)
  BY <1>1, <1>2 DEF Surjection
<1>4. IsFiniteSet(parts)
  BY <1>3, FS_Surjection
<1>5. ASSUME NEW T \in parts PROVE IsFiniteSet(T)
  <2>1. PICK i \in S : T = {i} \X (low[i]..high[i])
    BY <1>1
  <2>2. IsFiniteSet({i}) /\ IsFiniteSet(low[i]..high[i])
    BY FS_Singleton, FS_Interval
  <2> QED BY <2>1, <2>2, FS_Product
<1> QED BY <1>1, <1>4, <1>5, FS_UNION

LEMMA UnitsFinite ==
  ASSUME Contexts, NEW S, IsFiniteSet(S), \A i \in S : InvocationInv(i),
         NEW what \in {"cpu", "bytes"}
  PROVE  IsFiniteSet(Units(S, what)) /\ Reserved(S, what) \in Nat
<1>1. PICK low : low = [i \in S |-> 1]
  OBVIOUS
<1>2. PICK high : high = [i \in S |-> StageOf(i).reserve[what]]
  OBVIOUS
<1>3. \A i \in S : low[i] \in Int /\ high[i] \in Int
  <2> SUFFICES ASSUME NEW i \in S PROVE StageOf(i).reserve[what] \in Int
    BY <1>1, <1>2
  <2>1. StageOf(i).reserve.cpu \in Nat /\ StageOf(i).reserve.bytes \in Nat
    BY ReserveTyped DEF InvocationInv, StageOf
  <2> QED BY <2>1
<1>4. Units(S, what) = UNION {{i} \X (low[i]..high[i]) : i \in S}
  BY <1>1, <1>2 DEF Units
<1>5. IsFiniteSet(Units(S, what))
  BY <1>3, <1>4, PartsFinite
<1> QED BY <1>5, FS_CardinalityType DEF Reserved

LEMMA UnwrittenFinite ==
  ASSUME ApplyInv, ReservationInv
  PROVE  /\ IsFiniteSet(Unwritten) /\ Cardinality(Unwritten) \in Nat
         /\ Unwritten \subseteq Units(invocations, "bytes")
         /\ Cardinality(Unwritten) <= Reserved(invocations, "bytes")
<1>1. \A i \in invocations : i.stored \in Nat
  BY DEF ReservationInv
<1>2. Unwritten \subseteq Units(invocations, "bytes")
  <2> SUFFICES ASSUME NEW i \in invocations,
                      NEW n \in (i.stored + 1)..StageOf(i).reserve.bytes
               PROVE  n \in 1..StageOf(i).reserve["bytes"]
    BY DEF Unwritten, Units
  <2>1. StageOf(i).reserve.bytes \in Nat
    BY ReserveTyped DEF ApplyInv, Invocations, InvocationInv, StageOf
  <2> QED BY <1>1, <2>1
<1>3. IsFiniteSet(Units(invocations, "bytes"))
  BY UnitsFinite DEF ApplyInv, Invocations, ReservationInv
<1> QED BY <1>2, <1>3, FS_Subset, FS_CardinalityType DEF Reserved

\* No more than the two together.
LEMMA UnionAtMost ==
  ASSUME NEW S, NEW T, IsFiniteSet(S), IsFiniteSet(T)
  PROVE  /\ IsFiniteSet(S \cup T) /\ Cardinality(S \cup T) \in Nat
         /\ Cardinality(S) \in Nat /\ Cardinality(T) \in Nat
         /\ Cardinality(S \cup T) <= Cardinality(S) + Cardinality(T)
<1>1. IsFiniteSet(S \cup T) /\ IsFiniteSet(S \cap T)
      /\ Cardinality(S \cup T) = Cardinality(S) + Cardinality(T) - Cardinality(S \cap T)
  BY FS_Union, FS_Subset
<1>2. /\ Cardinality(S) \in Nat /\ Cardinality(T) \in Nat /\ Cardinality(S \cap T) \in Nat
      /\ Cardinality(S \cup T) \in Nat
  BY <1>1, FS_CardinalityType
<1> QED BY <1>1, <1>2

LEMMA OneRow ==
  ASSUME NEW x, NEW n \in Nat
  PROVE  IsFiniteSet({x} \X (1..n)) /\ Cardinality({x} \X (1..n)) = n
<1>1. IsFiniteSet({x}) /\ Cardinality({x}) = 1
  BY FS_Singleton
<1>2. IsFiniteSet(1..n) /\ Cardinality(1..n) = n
  BY FS_Interval
<1>3. /\ IsFiniteSet({x} \X (1..n))
      /\ Cardinality({x} \X (1..n)) = Cardinality({x}) * Cardinality(1..n)
  BY <1>1, <1>2, FS_Product
<1>4. Cardinality({x} \X (1..n)) = 1 * n
  BY <1>1, <1>2, <1>3
<1> QED BY <1>3, <1>4

-----------------------------------------------------------------------------
(* The steps. *)

\* Of invocations that stay, the stages are as they were.
LEMMA ReservesStay ==
  ASSUME ApplyInv, Grows
  PROVE  \A i \in invocations : Docs(i.context)' = Docs(i.context) /\ StageOf(i)' = StageOf(i)
<1> SUFFICES ASSUME NEW i \in invocations
             PROVE  Docs(i.context)' = Docs(i.context) /\ StageOf(i)' = StageOf(i)
  OBVIOUS
<1>1. i.context \in DOMAIN snapshot
  BY DEF ApplyInv, Invocations, InvocationInv
<1>2. Docs(i.context)' = Docs(i.context)
  BY <1>1 DEF Grows
<1> QED BY <1>2 DEF StageOf

\* Nothing is reserved, written or closed.
LEMMA ReservationsRest ==
  ASSUME ApplyInv, ReservationInv, Grows, UNCHANGED <<invocations, free>>
  PROVE  ReservationInv'
<1>1. \A i \in invocations : Docs(i.context)' = Docs(i.context) /\ StageOf(i)' = StageOf(i)
  BY ReservesStay
<1>2. Unwritten' = Unwritten
  BY <1>1 DEF Unwritten
<1>3. Units(invocations, "cpu")' = Units(invocations, "cpu")
  BY <1>1 DEF Units
<1>4. ASSUME NEW i \in invocations PROVE Kept(i)'
  <2>1. GroupOf(i)' = GroupOf(i)
    BY <1>1 DEF GroupOf
  <2>2. Kept(i)
    BY DEF ReservationInv
  <2> QED BY <1>1, <1>2, <1>3, <2>1, <2>2 DEF Kept, Reserved
<1> QED BY <1>4 DEF ReservationInv

\* Fewer invocations: what they have reserved, and are in a group, is no more.
LEMMA CloseReserves ==
  ASSUME ApplyInv, ReservationInv, NEW i \in invocations, Close(i)
  PROVE  ReservationInv'
<1>1. invocations' = invocations \ {i} /\ UNCHANGED <<snapshot, registry, free>>
  BY DEF Close
<1>2. Grows
  BY <1>1 DEF Grows, Docs, Frozen, Ready
<1>3. \A j \in invocations : Docs(j.context)' = Docs(j.context) /\ StageOf(j)' = StageOf(j)
  BY <1>2, ReservesStay
<1>4. IsFiniteSet(invocations) /\ IsFiniteSet(invocations')
  BY <1>1, FS_Subset DEF ReservationInv
<1>5. /\ Cardinality(Unwritten') \in Nat /\ Cardinality(Unwritten) \in Nat
      /\ Cardinality(Unwritten') <= Cardinality(Unwritten)
  <2>1. Unwritten' \subseteq Unwritten
    BY <1>1, <1>3 DEF Unwritten
  <2>2. IsFiniteSet(Unwritten)
    BY UnwrittenFinite
  <2> QED BY <2>1, <2>2, FS_Subset, FS_CardinalityType
<1>6. /\ Reserved(invocations, "cpu")' \in Nat /\ Reserved(invocations, "cpu") \in Nat
      /\ Reserved(invocations, "cpu")' <= Reserved(invocations, "cpu")
  <2>1. Units(invocations, "cpu")' \subseteq Units(invocations, "cpu")
    BY <1>1, <1>3 DEF Units
  <2>2. IsFiniteSet(Units(invocations, "cpu"))
    BY <1>4, UnitsFinite DEF ApplyInv, Invocations
  <2> QED BY <2>1, <2>2, FS_Subset, FS_CardinalityType DEF Reserved
<1>7. ASSUME NEW j \in invocations' PROVE Kept(j)'
  <2>1. j \in invocations /\ Kept(j) /\ InvocationInv(j)
    BY <1>1, <1>7 DEF ReservationInv, ApplyInv, Invocations
  <2>2. /\ Cardinality(GroupOf(j)') \in Nat /\ Cardinality(GroupOf(j)) \in Nat
        /\ Cardinality(GroupOf(j)') <= Cardinality(GroupOf(j))
    <3>1. GroupOf(j)' \subseteq GroupOf(j) /\ GroupOf(j) \subseteq invocations
      BY <1>1, <1>3, <2>1 DEF GroupOf
    <3> QED BY <1>4, <3>1, FS_Subset, FS_CardinalityType
  <2>3. /\ Docs(j.context).host.cpu \in Nat /\ Docs(j.context).host.watermark \in Nat
        /\ StageOf(j).reserve.watermark \in Nat
        /\ Docs(j.context).host.groups[StageOf(j).reserve.group] \in Nat
    BY <2>1, ReserveTyped DEF ApplyInv, InvocationInv, StageOf
  <2>4. Docs(j.context)' = Docs(j.context) /\ StageOf(j)' = StageOf(j)
    BY <1>3, <2>1
  <2>5. /\ free' >= Cardinality(Unwritten') + Docs(j.context).host.watermark
        /\ free' >= Cardinality(Unwritten') + StageOf(j).reserve.watermark
    BY <1>1, <1>5, <2>1, <2>3 DEF Kept, ReservationInv
  <2>6. Reserved(invocations, "cpu")' <= Docs(j.context).host.cpu
    BY <1>6, <2>1, <2>3 DEF Kept
  <2>7. Cardinality(GroupOf(j)') <= Docs(j.context).host.groups[StageOf(j).reserve.group]
    BY <2>1, <2>2, <2>3 DEF Kept
  <2> QED BY <2>4, <2>5, <2>6, <2>7 DEF Kept
<1> QED BY <1>1, <1>4, <1>7 DEF ReservationInv

LEMMA NotMoreImages ==
  ASSUME NEW S, IsFiniteSet(S), NEW T, NEW f, f = [x \in S |-> f[x]],
         \A x \in S : f[x] \in T, \A y \in T : \E x \in S : f[x] = y
  PROVE  /\ IsFiniteSet(T) /\ Cardinality(S) \in Nat /\ Cardinality(T) \in Nat
         /\ Cardinality(T) <= Cardinality(S)
<1>1. f \in Surjection(S, T)
  BY DEF Surjection
<1> QED BY <1>1, FS_Surjection, FS_CardinalityType

\* A unit is written, of those that are reserved.
LEMMA StoreReserves ==
  ASSUME ApplyInv, ReservationInv, NEW i \in invocations, Store(i)
  PROVE  ReservationInv'
<1>1. PICK more : more = [i EXCEPT !.stored = @ + 1]
  OBVIOUS
<1>2. /\ invocations' = (invocations \ {i}) \cup {more} /\ free' = free - 1
      /\ i.stored < StageOf(i).reserve.bytes
      /\ UNCHANGED <<snapshot, registry>>
  BY <1>1 DEF Store
<1>3. InvocationInv(i) /\ i.stored \in Nat
  BY DEF ApplyInv, Invocations, ReservationInv
<1>4. more.context = i.context /\ more.stage = i.stage /\ more.stored = i.stored + 1
  BY <1>1, <1>3 DEF InvocationInv
<1>5. Grows
  BY <1>2 DEF Grows, Docs, Frozen, Ready
<1>6. \A j \in invocations : Docs(j.context)' = Docs(j.context) /\ StageOf(j)' = StageOf(j)
  BY <1>5, ReservesStay
<1>7. Docs(more.context)' = Docs(i.context) /\ StageOf(more)' = StageOf(i)
  <2>1. Docs(more.context)' = Docs(i.context)
    BY <1>4, <1>6
  <2> QED BY <1>4, <1>6, <2>1 DEF StageOf
<1>8. IsFiniteSet(invocations) /\ IsFiniteSet(invocations')
  <2>1. IsFiniteSet(invocations \ {i})
    BY FS_Subset DEF ReservationInv
  <2> QED BY <1>2, <2>1, FS_AddElement DEF ReservationInv
<1>9. StageOf(i).reserve.bytes \in Nat
  BY <1>3, ReserveTyped DEF ApplyInv, InvocationInv, StageOf
<1>10. /\ Cardinality(Unwritten') \in Nat /\ Cardinality(Unwritten) \in Nat
       /\ Cardinality(Unwritten') + 1 <= Cardinality(Unwritten)
  <2>1. IsFiniteSet(Unwritten) /\ Cardinality(Unwritten) \in Nat
    BY UnwrittenFinite
  <2>2. PICK unit : unit = <<i, i.stored + 1>>
    OBVIOUS
  <2>3. unit \in Unwritten
    <3>1. i.stored + 1 \in (i.stored + 1)..StageOf(i).reserve.bytes
      BY <1>2, <1>3, <1>9
    <3> QED BY <2>2, <3>1 DEF Unwritten
  <2>4. PICK rest : rest = Unwritten \ {unit}
    OBVIOUS
  <2>5. IsFiniteSet(rest) /\ Cardinality(rest) = Cardinality(Unwritten) - 1
    BY <2>1, <2>3, <2>4, FS_RemoveElement
  <2>6. PICK f : f = [u \in rest |-> IF u[1] = i THEN <<more, u[2]>> ELSE u]
    OBVIOUS
  <2>7. \A u \in rest : f[u] \in Unwritten'
    <3> SUFFICES ASSUME NEW u \in rest PROVE f[u] \in Unwritten'
      OBVIOUS
    <3>1. PICK j \in invocations : u \in {j} \X ((j.stored + 1)..StageOf(j).reserve.bytes)
      BY <2>4 DEF Unwritten
    <3>2. PICK n \in (j.stored + 1)..StageOf(j).reserve.bytes : u = <<j, n>>
      BY <3>1
    <3>3. CASE j = i
      <4>1. n # i.stored + 1
        BY <2>2, <2>4, <3>2, <3>3
      <4>2. n \in (more.stored + 1)..StageOf(more)'.reserve.bytes
        BY <1>3, <1>4, <1>7, <1>9, <3>2, <3>3, <4>1
      <4>3. f[u] = <<more, n>>
        BY <2>6, <3>2, <3>3
      <4> QED BY <1>2, <4>2, <4>3 DEF Unwritten
    <3>4. CASE j # i
      <4>1. f[u] = <<j, n>>
        BY <2>6, <3>2, <3>4
      <4>2. j \in invocations'
        BY <1>2, <3>4
      <4>3. n \in (j.stored + 1)..StageOf(j)'.reserve.bytes
        BY <1>6, <3>2
      <4> QED BY <4>1, <4>2, <4>3 DEF Unwritten
    <3> QED BY <3>3, <3>4
  <2>8. \A y \in Unwritten' : \E u \in rest : f[u] = y
    <3> SUFFICES ASSUME NEW y \in Unwritten' PROVE \E u \in rest : f[u] = y
      OBVIOUS
    <3>1. PICK j \in invocations' : y \in {j} \X ((j.stored + 1)..StageOf(j)'.reserve.bytes)
      BY DEF Unwritten
    <3>2. PICK n \in (j.stored + 1)..StageOf(j)'.reserve.bytes : y = <<j, n>>
      BY <3>1
    <3>3. CASE j = more
      <4>1. n \in (i.stored + 1)..StageOf(i).reserve.bytes /\ n # i.stored + 1
        BY <1>3, <1>4, <1>7, <1>9, <3>2, <3>3
      <4>2. <<i, n>> \in rest
        BY <2>2, <2>4, <4>1 DEF Unwritten
      <4>3. f[<<i, n>>] = y
        BY <2>6, <3>2, <3>3, <4>2
      <4> QED BY <4>2, <4>3
    <3>4. CASE j # more
      <4>1. j \in invocations /\ j # i
        BY <1>2, <3>4
      <4>2. n \in (j.stored + 1)..StageOf(j).reserve.bytes
        BY <1>6, <3>2, <4>1
      <4>3. <<j, n>> \in rest
        BY <2>2, <2>4, <4>1, <4>2 DEF Unwritten
      <4>4. f[<<j, n>>] = y
        BY <2>6, <3>2, <4>1, <4>3
      <4> QED BY <4>3, <4>4
    <3> QED BY <3>3, <3>4
  <2>9. f = [u \in rest |-> f[u]]
    BY <2>6
  <2>10. /\ Cardinality(Unwritten') \in Nat /\ Cardinality(rest) \in Nat
         /\ Cardinality(Unwritten') <= Cardinality(rest)
    BY <2>5, <2>7, <2>8, <2>9, NotMoreImages
  <2> QED BY <2>1, <2>5, <2>10
<1>11. /\ Reserved(invocations, "cpu")' \in Nat /\ Reserved(invocations, "cpu") \in Nat
       /\ Reserved(invocations, "cpu")' <= Reserved(invocations, "cpu")
  <2>1. PICK units : units = Units(invocations, "cpu")
    OBVIOUS
  <2>2. IsFiniteSet(units)
    BY <1>8, <2>1, UnitsFinite DEF ApplyInv, Invocations
  <2>3. PICK f : f = [u \in units |-> IF u[1] = i THEN <<more, u[2]>> ELSE u]
    OBVIOUS
  <2>4. \A u \in units : f[u] \in Units(invocations, "cpu")'
    <3> SUFFICES ASSUME NEW u \in units PROVE f[u] \in Units(invocations, "cpu")'
      OBVIOUS
    <3>1. PICK j \in invocations : u \in {j} \X (1..StageOf(j).reserve["cpu"])
      BY <2>1 DEF Units
    <3>2. PICK n \in 1..StageOf(j).reserve["cpu"] : u = <<j, n>>
      BY <3>1
    <3>3. CASE j = i
      BY <1>2, <1>7, <2>3, <3>2, <3>3 DEF Units
    <3>4. CASE j # i
      BY <1>2, <1>6, <2>3, <3>2, <3>4 DEF Units
    <3> QED BY <3>3, <3>4
  <2>5. \A y \in Units(invocations, "cpu")' : \E u \in units : f[u] = y
    <3> SUFFICES ASSUME NEW y \in Units(invocations, "cpu")' PROVE \E u \in units : f[u] = y
      OBVIOUS
    <3>1. PICK j \in invocations' : y \in {j} \X (1..StageOf(j)'.reserve["cpu"])
      BY DEF Units
    <3>2. PICK n \in 1..StageOf(j)'.reserve["cpu"] : y = <<j, n>>
      BY <3>1
    <3>3. CASE j = more
      <4>1. <<i, n>> \in units
        BY <1>7, <2>1, <3>2, <3>3 DEF Units
      <4>2. f[<<i, n>>] = y
        BY <2>3, <3>2, <3>3, <4>1
      <4> QED BY <4>1, <4>2
    <3>4. CASE j # more
      <4>1. j \in invocations /\ j # i
        BY <1>2, <3>4
      <4>2. <<j, n>> \in units
        BY <1>6, <2>1, <3>2, <4>1 DEF Units
      <4>3. f[<<j, n>>] = y
        BY <2>3, <3>2, <4>1, <4>2
      <4> QED BY <4>2, <4>3
    <3> QED BY <3>3, <3>4
  <2>6. f = [u \in units |-> f[u]]
    BY <2>3
  <2>7. /\ Cardinality(Units(invocations, "cpu")') \in Nat /\ Cardinality(units) \in Nat
        /\ Cardinality(Units(invocations, "cpu")') <= Cardinality(units)
    BY <2>2, <2>4, <2>5, <2>6, NotMoreImages
  <2> QED BY <2>1, <2>7 DEF Reserved
<1>12. ASSUME NEW j \in invocations' PROVE j.stored \in Nat /\ Kept(j)'
  <2>1. PICK k \in invocations : k = IF j = more THEN i ELSE j
    BY <1>2
  <2>2. Docs(j.context)' = Docs(k.context) /\ StageOf(j)' = StageOf(k)
    BY <1>6, <1>7, <2>1
  <2>3. Kept(k) /\ InvocationInv(k) /\ k.stored \in Nat
    BY DEF ReservationInv, ApplyInv, Invocations
  <2>4. j.stored \in Nat
    BY <1>3, <1>4, <2>1, <2>3
  <2>5. /\ Cardinality(GroupOf(j)') \in Nat /\ Cardinality(GroupOf(k)) \in Nat
        /\ Cardinality(GroupOf(j)') <= Cardinality(GroupOf(k))
    <3>1. IsFiniteSet(GroupOf(k))
      BY <1>8, FS_Subset DEF GroupOf
    <3>2. PICK f : f = [x \in GroupOf(k) |-> IF x = i THEN more ELSE x]
      OBVIOUS
    <3>3. \A x \in GroupOf(k) : f[x] \in GroupOf(j)'
      BY <1>2, <1>6, <1>7, <2>2, <3>2 DEF GroupOf
    <3>4. \A y \in GroupOf(j)' : \E x \in GroupOf(k) : f[x] = y
      <4> SUFFICES ASSUME NEW y \in GroupOf(j)' PROVE \E x \in GroupOf(k) : f[x] = y
        OBVIOUS
      <4>1. y \in invocations' /\ StageOf(y)'.reserve.group = StageOf(k).reserve.group
        BY <2>2 DEF GroupOf
      <4>2. CASE y = more
        <5>1. i \in GroupOf(k)
          BY <1>7, <4>1, <4>2 DEF GroupOf
        <5> QED BY <3>2, <4>2, <5>1
      <4>3. CASE y # more
        <5>1. y \in invocations /\ y # i
          BY <1>2, <4>1, <4>3
        <5>2. y \in GroupOf(k)
          BY <1>6, <4>1, <5>1 DEF GroupOf
        <5> QED BY <3>2, <5>1, <5>2
      <4> QED BY <4>2, <4>3
    <3>5. f = [x \in GroupOf(k) |-> f[x]]
      BY <3>2
    <3> QED BY <3>1, <3>3, <3>4, <3>5, NotMoreImages
  <2>6. /\ Docs(k.context).host.cpu \in Nat /\ Docs(k.context).host.watermark \in Nat
        /\ StageOf(k).reserve.watermark \in Nat
        /\ Docs(k.context).host.groups[StageOf(k).reserve.group] \in Nat
    BY <2>3, ReserveTyped DEF ApplyInv, InvocationInv, StageOf
  <2>7. /\ free' >= Cardinality(Unwritten') + Docs(k.context).host.watermark
        /\ free' >= Cardinality(Unwritten') + StageOf(k).reserve.watermark
    BY <1>2, <1>10, <2>3, <2>6 DEF Kept, ReservationInv
  <2>8. Reserved(invocations, "cpu")' <= Docs(k.context).host.cpu
    BY <1>11, <2>3, <2>6 DEF Kept
  <2>9. Cardinality(GroupOf(j)') <= Docs(k.context).host.groups[StageOf(k).reserve.group]
    BY <2>3, <2>5, <2>6 DEF Kept
  <2> QED BY <2>2, <2>4, <2>7, <2>8, <2>9 DEF Kept
<1>13. free' \in Nat
  <2>1. Kept(i) /\ free \in Nat
    BY DEF ReservationInv
  <2>2. Docs(i.context).host.watermark \in Nat
    BY <1>3, ReserveTyped DEF ApplyInv, InvocationInv
  <2>3. free >= Cardinality(Unwritten) + Docs(i.context).host.watermark
    BY <2>1 DEF Kept
  <2> QED BY <1>2, <1>10, <2>1, <2>2, <2>3
<1> QED BY <1>8, <1>12, <1>13 DEF ReservationInv

\* An admitted stage fits in what the others have not reserved.
LEMMA BeginReserves ==
  ASSUME OneHost, ApplyInv, ReservationInv, NEW c \in DOMAIN snapshot,
         NEW k \in DOMAIN Docs(c).definition.stages, NEW id, Begin(c, k, id)
  PROVE  ReservationInv'
<1>1. PICK inputs : invocations' = invocations \cup
        {[context |-> c, id |-> id, stage |-> k, inputs |-> inputs, stored |-> 0]}
  BY DEF Begin
<1>2. PICK new : new = [context |-> c, id |-> id, stage |-> k, inputs |-> inputs, stored |-> 0]
  OBVIOUS
<1>3. new.context = c /\ new.stage = k /\ new.stored = 0 /\ invocations' = invocations \cup {new}
  BY <1>1, <1>2
<1>4. UNCHANGED <<snapshot, registry, free>>
  BY DEF Begin
<1>5. Grows
  BY <1>4 DEF Grows, Docs, Frozen, Ready
<1>6. \A j \in invocations : Docs(j.context)' = Docs(j.context) /\ StageOf(j)' = StageOf(j)
  BY <1>5, ReservesStay
<1>7. PICK stage : stage = Docs(c).definition.stages[k]
  OBVIOUS
<1>8. PICK host : host = Docs(c).host
  OBVIOUS
<1>9. Docs(c)' = Docs(c) /\ StageOf(new)' = stage
  <2>1. Docs(c)' = Docs(c)
    BY <1>5 DEF Grows
  <2> QED BY <1>3, <1>7, <2>1 DEF StageOf
<1>10. /\ stage.reserve.cpu \in Nat /\ stage.reserve.bytes \in Nat /\ stage.reserve.watermark \in Nat
       /\ host.cpu \in Nat /\ host.watermark \in Nat /\ host.groups[stage.reserve.group] \in Nat
  BY <1>7, <1>8, ReserveTyped DEF ApplyInv
<1>11. Admitted(host, invocations, stage.reserve)
  BY <1>7, <1>8 DEF Begin
<1>12. \A j \in invocations : /\ Docs(j.context).host = host /\ j.stored \in Nat
                              /\ StageOf(j).reserve.watermark \in Nat
                              /\ host.groups[StageOf(j).reserve.group] \in Nat
  <2> SUFFICES ASSUME NEW j \in invocations
               PROVE  /\ Docs(j.context).host = host /\ j.stored \in Nat
                      /\ StageOf(j).reserve.watermark \in Nat
                      /\ host.groups[StageOf(j).reserve.group] \in Nat
    OBVIOUS
  <2>1. j.stored \in Nat /\ InvocationInv(j) /\ Contexts
    BY DEF ReservationInv, ApplyInv, Invocations
  <2>2. Docs(j.context).host = host
    BY <1>8, <2>1, SameHost DEF InvocationInv
  <2>3. /\ StageOf(j).reserve.watermark \in Nat
        /\ Docs(j.context).host.groups[StageOf(j).reserve.group] \in Nat
    BY <2>1, ReserveTyped DEF InvocationInv, StageOf
  <2> QED BY <2>1, <2>2, <2>3
<1>13. IsFiniteSet(invocations) /\ IsFiniteSet(invocations') /\ free \in Nat
  BY <1>3, FS_AddElement DEF ReservationInv
<1>14. /\ Cardinality(Unwritten') \in Nat /\ Reserved(invocations, "bytes") \in Nat
       /\ Cardinality(Unwritten') <= Reserved(invocations, "bytes") + stage.reserve.bytes
  <2>1. /\ IsFiniteSet(Unwritten) /\ Cardinality(Unwritten) \in Nat
        /\ Cardinality(Unwritten) <= Reserved(invocations, "bytes")
    BY UnwrittenFinite
  <2>2. Reserved(invocations, "bytes") \in Nat
    BY <1>13, UnitsFinite DEF ApplyInv, Invocations
  <2>3. PICK row : row = {new} \X (1..stage.reserve.bytes)
    OBVIOUS
  <2>4. IsFiniteSet(row) /\ Cardinality(row) = stage.reserve.bytes
    BY <1>10, <2>3, OneRow
  <2>5. Unwritten' = Unwritten \cup row
    <3>1. Unwritten' = UNION {{j} \X ((j.stored + 1)..StageOf(j)'.reserve.bytes) :
                                j \in invocations \cup {new}}
      BY <1>3 DEF Unwritten
    <3>2. \A j \in invocations : StageOf(j)' = StageOf(j)
      BY <1>6
    <3>3. {new} \X ((new.stored + 1)..StageOf(new)'.reserve.bytes) = row
      BY <1>3, <1>9, <2>3
    <3> QED BY <3>1, <3>2, <3>3 DEF Unwritten
  <2>6. /\ Cardinality(Unwritten \cup row) \in Nat
        /\ Cardinality(Unwritten \cup row) <= Cardinality(Unwritten) + Cardinality(row)
    BY <2>1, <2>4, UnionAtMost
  <2> QED BY <1>10, <2>1, <2>2, <2>4, <2>5, <2>6
<1>15. /\ Reserved(invocations, "cpu")' \in Nat
       /\ Reserved(invocations, "cpu")' <= host.cpu
  <2>1. PICK units : units = Units(invocations, "cpu")
    OBVIOUS
  <2>2. IsFiniteSet(units) /\ Cardinality(units) + stage.reserve.cpu <= host.cpu
    BY <1>11, <1>13, <2>1, UnitsFinite DEF Admitted, Reserved, ApplyInv, Invocations
  <2>3. PICK row : row = {new} \X (1..stage.reserve.cpu)
    OBVIOUS
  <2>4. IsFiniteSet(row) /\ Cardinality(row) = stage.reserve.cpu
    BY <1>10, <2>3, OneRow
  <2>5. Units(invocations, "cpu")' = units \cup row
    <3>1. Units(invocations, "cpu")' = UNION {{j} \X (1..StageOf(j)'.reserve["cpu"]) :
                                               j \in invocations \cup {new}}
      BY <1>3 DEF Units
    <3>2. \A j \in invocations : StageOf(j)' = StageOf(j)
      BY <1>6
    <3>3. {new} \X (1..StageOf(new)'.reserve["cpu"]) = row
      BY <1>9, <2>3
    <3> QED BY <2>1, <3>1, <3>2, <3>3 DEF Units
  <2>6. /\ Cardinality(units \cup row) \in Nat /\ Cardinality(units) \in Nat
        /\ Cardinality(units \cup row) <= Cardinality(units) + Cardinality(row)
    BY <2>2, <2>4, UnionAtMost
  <2>7. Reserved(invocations, "cpu")' = Cardinality(units \cup row)
    BY <2>5 DEF Reserved
  <2> QED BY <1>10, <2>2, <2>4, <2>6, <2>7
<1>16. \A w \in Watermarks(host, invocations, stage.reserve) :
         w \in Nat => free >= Cardinality(Unwritten') + w
  <2> SUFFICES ASSUME NEW w \in Watermarks(host, invocations, stage.reserve), w \in Nat
               PROVE  free >= Cardinality(Unwritten') + w
    OBVIOUS
  <2>1. free - Reserved(invocations, "bytes") - stage.reserve.bytes >= w
    BY <1>11 DEF Admitted
  <2> QED BY <1>10, <1>13, <1>14, <2>1
<1>17. ASSUME NEW j \in invocations' PROVE j.stored \in Nat /\ Kept(j)'
  <2>1. PICK own : own = IF j = new THEN stage ELSE StageOf(j)
    OBVIOUS
  <2>2. Docs(j.context)'.host = host /\ StageOf(j)' = own /\ j.stored \in Nat
    <3>1. CASE j = new
      BY <1>3, <1>8, <1>9, <2>1, <3>1
    <3>2. CASE j # new
      <4>1. j \in invocations
        BY <1>3, <3>2
      <4> QED BY <1>6, <1>12, <2>1, <3>2, <4>1
    <3> QED BY <3>1, <3>2
  <2>3. /\ {host.watermark, own.reserve.watermark} \subseteq
             Watermarks(host, invocations, stage.reserve)
        /\ own.reserve.watermark \in Nat /\ host.groups[own.reserve.group] \in Nat
    <3>1. CASE j = new
      BY <1>10, <2>1, <3>1 DEF Watermarks
    <3>2. CASE j # new
      <4>1. j \in invocations
        BY <1>3, <3>2
      <4> QED BY <1>12, <2>1, <3>2, <4>1 DEF Watermarks
    <3> QED BY <3>1, <3>2
  <2>4. /\ free >= Cardinality(Unwritten') + host.watermark
        /\ free >= Cardinality(Unwritten') + own.reserve.watermark
    BY <1>10, <1>16, <2>3
  <2>5. Cardinality(GroupOf(j)') <= host.groups[own.reserve.group]
    <3>1. PICK old : old = {i \in invocations : StageOf(i).reserve.group = own.reserve.group}
      OBVIOUS
    <3>2. IsFiniteSet(old) /\ Cardinality(old) \in Nat
      BY <1>13, <3>1, FS_Subset, FS_CardinalityType
    <3>3. CASE own.reserve.group = stage.reserve.group
      <4>1. Cardinality(old) < host.groups[stage.reserve.group]
        BY <1>11, <3>1, <3>3 DEF Admitted
      <4>2. GroupOf(j)' \subseteq old \cup {new}
        BY <1>3, <1>6, <2>2, <3>1 DEF GroupOf
      <4>3. IsFiniteSet(old \cup {new}) /\ Cardinality(old \cup {new}) <= Cardinality(old) + 1
        <5>1. IsFiniteSet({new}) /\ Cardinality({new}) = 1
          BY FS_Singleton
        <5> QED BY <3>2, <5>1, UnionAtMost
      <4>4. Cardinality(GroupOf(j)') <= Cardinality(old \cup {new})
            /\ Cardinality(GroupOf(j)') \in Nat /\ Cardinality(old \cup {new}) \in Nat
        BY <4>2, <4>3, FS_Subset, FS_CardinalityType
      <4> QED BY <1>10, <3>2, <3>3, <4>1, <4>3, <4>4
    <3>4. CASE own.reserve.group # stage.reserve.group
      <4>1. j \in invocations
        BY <1>3, <2>1, <3>4
      <4>2. Kept(j) /\ own = StageOf(j)
        BY <1>6, <2>2, <4>1 DEF ReservationInv
      <4>3. GroupOf(j)' = old /\ GroupOf(j) = old
        BY <1>3, <1>6, <1>9, <2>2, <3>1, <3>4, <4>2 DEF GroupOf
      <4>4. Docs(j.context).host = host
        BY <1>12, <4>1
      <4> QED BY <4>2, <4>3, <4>4 DEF Kept
    <3> QED BY <3>3, <3>4
  <2> QED BY <1>4, <1>15, <2>2, <2>4, <2>5 DEF Kept
<1> QED BY <1>4, <1>13, <1>17 DEF ReservationInv

LEMMA ReservationsKept ==
  ASSUME OneHost
  PROVE  SpecApply => []ReservationInv
<1>1. InitApply => ReservationInv
  <2> SUFFICES ASSUME InitApply PROVE ReservationInv
    OBVIOUS
  <2>1. invocations = {} /\ free = DiskSize /\ DiskSize \in Nat
    BY InputAssumption DEF InitApply
  <2> QED BY <2>1, FS_EmptySet DEF ReservationInv
<1>2. ASSUME ApplyInv, ReservationInv, [NextApply]_applyVars PROVE ReservationInv'
  <2>1. CASE UNCHANGED applyVars
    <3>1. UNCHANGED <<snapshot, registry, invocations, free>>
      BY <2>1 DEF applyVars
    <3>2. Grows
      BY <3>1 DEF Grows, Docs, Frozen, Ready
    <3> QED BY <1>2, <3>1, <3>2, ReservationsRest
  <2>2. ASSUME NEW name \in DOMAIN Input, CreateContext(name) PROVE ReservationInv'
    <3>1. /\ name \in Ready /\ snapshot' = Append(snapshot, name) /\ snapshot \in Seq(Ready)
          /\ UNCHANGED <<registry, invocations, free>>
      BY <1>2, <2>2 DEF CreateContext, ApplyInv, Contexts
    <3>2. \A c \in DOMAIN snapshot : c \in DOMAIN snapshot' /\ snapshot'[c] = snapshot[c]
      BY <3>1
    <3>3. Grows
      BY <3>1, <3>2 DEF Grows, Docs, Frozen, Ready
    <3> QED BY <1>2, <3>1, <3>3, ReservationsRest
  <2>3. ASSUME NEW c \in DOMAIN snapshot, NEW k \in DOMAIN Docs(c).definition.stages,
               Begin(c, k, Cardinality(usedRuns[c]) + 1)
        PROVE  ReservationInv'
    BY <1>2, <2>3, BeginReserves
  <2>4. ASSUME NEW i \in invocations, Close(i) PROVE ReservationInv'
    BY <1>2, <2>4, CloseReserves
  <2>5. ASSUME NEW i \in invocations, Store(i) PROVE ReservationInv'
    BY <1>2, <2>5, StoreReserves
  <2>6. ASSUME NEW i \in invocations, Return(i) PROVE ReservationInv'
    <3>1. UNCHANGED <<snapshot, invocations, free>>
      BY <2>6 DEF Return
    <3>2. \A h \in DOMAIN registry : h \in DOMAIN registry' /\ registry'[h] = registry[h]
      BY <2>6 DEF Return
    <3>3. Grows
      BY <3>1, <3>2 DEF Grows, Docs, Frozen, Ready
    <3> QED BY <1>2, <3>1, <3>3, ReservationsRest
  <2>7. ASSUME NEW i \in invocations,
               (\E kind, count : BindSubject(i, kind, count))
                 \/ (\E x, class : AuthorizeSubject(i, x, class))
        PROVE  ReservationInv'
    <3>1. UNCHANGED <<snapshot, registry, invocations, free>>
      BY <2>7 DEF BindSubject, AuthorizeSubject
    <3>2. Grows
      BY <3>1 DEF Grows, Docs, Frozen, Ready
    <3> QED BY <1>2, <3>1, <3>2, ReservationsRest
  <2>8. CASE Tick
    <3>1. UNCHANGED <<snapshot, registry, invocations, free>>
      BY <2>8 DEF Tick
    <3>2. Grows
      BY <3>1 DEF Grows, Docs, Frozen, Ready
    <3> QED BY <1>2, <3>1, <3>2, ReservationsRest
  <2> QED BY <1>2, <2>1, <2>2, <2>3, <2>4, <2>5, <2>6, <2>7, <2>8 DEF NextApply
<1> QED BY <1>1, <1>2, ApplyInvariant, PTL DEF SpecApply

\* If the contexts are of one host, it keeps the free space that it and each open stage asks
\* for, and its processors and groups are not overbooked, however the stages fill the disk:
\* what is reserved and not written is never more than what the disk has beyond the
\* watermarks.
THEOREM ReservationsAreHonoured ==
  ASSUME OneHost
  PROVE  SpecApply => []ReservationsHonoured
<1>1. ApplyInv /\ ReservationInv => ReservationsHonoured
  <2> SUFFICES ASSUME ApplyInv, ReservationInv, NEW i \in invocations
               PROVE  LET host == Docs(i.context).host
                      IN /\ free >= host.watermark /\ free >= StageOf(i).reserve.watermark
                         /\ Reserved(invocations, "cpu") <= host.cpu
                         /\ Cardinality(GroupOf(i)) <= host.groups[StageOf(i).reserve.group]
    BY DEF ReservationsHonoured, GroupOf
  <2>1. Kept(i) /\ free \in Nat /\ InvocationInv(i) /\ Contexts
    BY DEF ReservationInv, ApplyInv, Invocations
  <2>2. Cardinality(Unwritten) \in Nat
    BY UnwrittenFinite
  <2>3. Docs(i.context).host.watermark \in Nat /\ StageOf(i).reserve.watermark \in Nat
    BY <2>1, ReserveTyped DEF InvocationInv, StageOf
  <2> QED BY <2>1, <2>2, <2>3 DEF Kept
<1> QED BY <1>1, ApplyInvariant, ReservationsKept, PTL

-----------------------------------------------------------------------------
(* The gate of the heavy jobs. *)

USE GateAssumption, NoneIsNoTicket

\* An invocation's ticket is named for its process and is forgotten when that dies, ...
Named == \A p \in Procs : /\ mine[p] # None => life[p] = "up" /\ mine[p].proc = p
                          /\ life[p] = "gone" => pc[p] = "out"

\* ... who is in its turn has the lease, ...
Holders == \A p \in Procs : life[p] = "up" /\ pc[p] \in Holding => lease = mine[p]

\* ... and so have the children of an owner that died in its callback.
Orphans == \A p \in Procs : life[p] = "orphans" /\ pc[p] = "callback" =>
                              lease # None /\ lease.proc = p

\* The file "lease.reaping" is exclusive.
OneReaper == \A p \in Procs : life[p] = "up" /\ pc[p] \in Reaping => reaper = p

\* Between its check and its unlink a reaper is right about the lease: it is that of
\* a dead owner, whom nobody else may recover.
Recovered == \A p \in Procs : life[p] = "up" /\ pc[p] = "unlink" =>
                                lease = seen[p] /\ life[seen[p].proc] = "gone"

GateInv ==
  /\ TypeOK
  /\ Named
  /\ Holders
  /\ Orphans
  /\ OneReaper
  /\ Recovered
  /\ ino = [t \in Ticket |-> t]

LEMMA Ticketing ==
  ASSUME NEW t \in Ticket
  PROVE  t.proc \in Procs /\ t # None
  BY DEF Ticket

LEMMA GateInvInitially == ~ ReusedInodes /\ Init => GateInv
  BY DEF Init, GateInv, TypeOK, Named, Holders, Orphans, OneReaper, Recovered,
         Locations, Waiting, Reaping, Holding

-----------------------------------------------------------------------------
(* Type correctness, for all steps and any file system. *)

LEMMA TypeOKInitially == Init => TypeOK
  BY DEF Init, TypeOK, Locations, Waiting, Reaping, Holding

LEMMA TypeOKStep == TypeOK /\ Named /\ [Next]_vars => TypeOK' /\ Named'
<1> SUFFICES ASSUME TypeOK, Named, [Next]_vars PROVE TypeOK' /\ Named'
  OBVIOUS
<1> USE DEF TypeOK, Named, memory
<1> USE DEF Goto, Locations, Waiting, Reaping, Holding
<1>1. ASSUME NEW p \in Procs, Create(p) PROVE TypeOK' /\ Named'
  <2>1. PICK token \in Tokens :
          /\ mine' = [mine EXCEPT ![p] = [proc |-> p, token |-> token]]
          /\ before' = [before EXCEPT ![[proc |-> p, token |-> token]]
                          = tickets \cup ({mine[q] : q \in Procs} \ {None})]
    BY <1>1 DEF Create
  <2>2. [proc |-> p, token |-> token] \in Ticket
    BY DEF Ticket
  <2>3. QED
    BY <1>1, <2>1, <2>2 DEF Create
<1>2. ASSUME NEW p \in Procs, Publish(p) PROVE TypeOK' /\ Named'
  <2>1. mine[p] \in Ticket
    BY <1>2 DEF Publish
  <2>2. NewInodes(mine[p]) \subseteq Ticket
    BY <2>1 DEF NewInodes
  <2>3. QED
    BY <1>2, <2>1, <2>2 DEF Publish
<1>3. ASSUME NEW p \in Procs, ReadLease(p) \/ OpenReaper(p) \/ CheckLease(p) PROVE TypeOK' /\ Named'
  BY <1>3 DEF ReadLease, OpenReaper, CheckLease
<1>4. ASSUME NEW p \in Procs, UnlinkDead(p) \/ CloseReaper(p) PROVE TypeOK' /\ Named'
  BY <1>4 DEF UnlinkDead, CloseReaper
<1>5. ASSUME NEW p \in Procs, ReadNames(p) \/ ReadLeaseInfo(p) \/ Decide(p) PROVE TypeOK' /\ Named'
  <2>1. CASE ReadNames(p)
    BY <2>1 DEF ReadNames
  <2>2. CASE ReadLeaseInfo(p)
    BY <2>2 DEF ReadLeaseInfo
  <2>3. CASE Decide(p)
    BY <2>3 DEF Decide
  <2>4. QED
    BY <1>5, <2>1, <2>2, <2>3
<1>6. ASSUME NEW p \in Procs, NEW t \in Ticket, Inspect(p, t) PROVE TypeOK' /\ Named'
  <2>1. before' \in [Ticket -> SUBSET Ticket] /\ tickets' \subseteq Ticket
    BY <1>6 DEF Inspect, Unlinked, Unordered
  <2>2. ahead' \in [Procs -> BOOLEAN]
    <3>1. CASE UNCHANGED ahead
      BY <3>1
    <3>2. CASE ahead' = [ahead EXCEPT ![p] = @ \/ (t \in tickets /\ t \in before[mine[p]])]
      BY <3>2, Zenon
    <3>3. QED
      BY <1>6, <3>1, <3>2 DEF Inspect
  <2>3. names' \in [Procs -> SUBSET Ticket]
    BY <1>6 DEF Inspect
  <2>4. QED
    BY <1>6, <2>1, <2>2, <2>3 DEF Inspect
<1>7. ASSUME NEW p \in Procs, Link(p) \/ EndCallback(p) \/ GiveUp(p) PROVE TypeOK' /\ Named'
  BY <1>7 DEF Link, EndCallback, GiveUp
<1>8. ASSUME NEW p \in Procs, VerifyLease(p) \/ UnlinkLease(p) PROVE TypeOK' /\ Named'
  BY <1>8 DEF VerifyLease, UnlinkLease
<1>9. ASSUME NEW p \in Procs, RemoveTicket(p) PROVE TypeOK' /\ Named'
  BY <1>9 DEF RemoveTicket, Unlinked, Unordered
<1>10. ASSUME NEW p \in Procs, Crash(p) PROVE TypeOK' /\ Named'
  BY <1>10 DEF Crash, Unordered
<1>11. ASSUME NEW p \in Procs, GroupEnds(p) PROVE TypeOK' /\ Named'
  BY <1>11 DEF GroupEnds
<1>12. ASSUME NEW p \in Procs, Restart(p) PROVE TypeOK' /\ Named'
  BY <1>12 DEF Restart
<1>13. CASE UNCHANGED vars
  BY <1>13 DEF vars
<1>14. QED
  BY <1>1, <1>2, <1>3, <1>4, <1>5, <1>6, <1>7, <1>8, <1>9, <1>10, <1>11, <1>12, <1>13
  DEF Next, Step

\* The invocations' locations, tickets and files are well formed: who waits or works
\* has a ticket, and who recovers a lease has read it.
THEOREM GateTypeCorrect == Spec => []TypeOK
<1>1. Init => TypeOK /\ Named
  BY TypeOKInitially DEF Init, Named
<1>2. QED
  BY <1>1, TypeOKStep, PTL DEF Spec

-----------------------------------------------------------------------------
(* One lease, with inode numbers that are not reused. *)

\* Steps that leave the lease, the reaper and what recovery has read alone, and in which
\* nobody dies or comes to life.
Quiet == UNCHANGED <<life, lease, reaper, seen>>

\* Such a step of p keeps the invariant when it takes p to no location with a claim.
LEMMA QuietStep ==
  ASSUME GateInv, TypeOK', Named', Quiet, ino' = ino,
         NEW p \in Procs, NEW to \in Locations \ (Holding \cup Reaping),
         pc' = [pc EXCEPT ![p] = to],
         \A q \in Procs \ {p} : mine'[q] = mine[q]
  PROVE  GateInv'
  BY DEF GateInv, TypeOK, Holders, Orphans, OneReaper, Recovered, Quiet, Reaping, Holding

\* Steps outside recovery and release.
LEMMA WaitingStep ==
  ASSUME GateInv, ~ ReusedInodes, TypeOK', Named', NEW p \in Procs,
         \/ Create(p) \/ Publish(p) \/ ReadNames(p) \/ ReadLeaseInfo(p)
         \/ (\E t \in Ticket : Inspect(p, t)) \/ Decide(p) \/ GiveUp(p) \/ RemoveTicket(p)
  PROVE  GateInv'
<1> USE DEF Goto, Quiet, memory, Locations, Waiting, Reaping, Holding
<1>1. CASE Create(p)
  <2>1. mine'[p] \in Ticket /\ \A q \in Procs \ {p} : mine'[q] = mine[q]
    BY <1>1 DEF Create, GateInv, TypeOK
  <2> QED
    BY <1>1, <2>1, QuietStep DEF Create
<1>2. CASE Publish(p)
  <2>1. mine[p] \in Ticket
    BY <1>2 DEF Publish, GateInv, TypeOK
  <2>2. ino' = ino
    BY <1>2, <2>1 DEF Publish, NewInodes, GateInv
  <2>3. QED
    BY <1>2, <2>2, QuietStep DEF Publish
<1>3. CASE ReadNames(p) \/ ReadLeaseInfo(p) \/ Decide(p) \/ GiveUp(p)
  <2>1. CASE ReadNames(p) \/ ReadLeaseInfo(p)
    BY <2>1, QuietStep DEF ReadNames, ReadLeaseInfo
  <2>2. CASE Decide(p)
    BY <2>2, QuietStep DEF Decide
  <2>3. CASE GiveUp(p)
    BY <2>3, QuietStep DEF GiveUp
  <2> QED
    BY <1>3, <2>1, <2>2, <2>3
<1>4. ASSUME NEW t \in Ticket, Inspect(p, t) PROVE GateInv'
  BY <1>4 DEF Inspect, GateInv, TypeOK, Holders, Orphans, OneReaper, Recovered
<1>5. CASE RemoveTicket(p)
  <2>1. \A q \in Procs \ {p} : mine'[q] = mine[q]
    BY <1>5 DEF RemoveTicket, GateInv, TypeOK
  <2>2. pc' = [pc EXCEPT ![p] = "out"] /\ ino' = ino /\ Quiet
    BY <1>5 DEF RemoveTicket
  <2>3. "out" \in Locations \ (Holding \cup Reaping)
    OBVIOUS
  <2> HIDE DEF Goto, Quiet, memory, Locations, Waiting, Reaping, Holding
  <2> QED
    BY <2>1, <2>2, <2>3, QuietStep
<1>6. QED
  BY <1>1, <1>2, <1>3, <1>4, <1>5

\* Recovery: only one process can be at "unlink", and what it finds there is dead.
LEMMA RecoveryStep ==
  ASSUME GateInv, TypeOK', Named', NEW p \in Procs,
         ReadLease(p) \/ OpenReaper(p) \/ CheckLease(p) \/ UnlinkDead(p) \/ CloseReaper(p)
  PROVE  GateInv'
<1> USE DEF Goto, memory, GateInv, Holders, Orphans, OneReaper, Recovered, Reaping, Holding
<1>1. CASE ReadLease(p)
  BY <1>1 DEF ReadLease, TypeOK
<1>2. CASE OpenReaper(p)
  BY <1>2 DEF OpenReaper, TypeOK
<1>3. CASE CheckLease(p)
  <2>1. seen[p] \in Ticket /\ seen[p] # None
    BY <1>3 DEF CheckLease, TypeOK
  <2>2. lease # None /\ ino[lease] = ino[seen[p]] => lease = seen[p]
    BY <2>1 DEF TypeOK
  <2>3. QED
    BY <1>3, <2>1, <2>2 DEF CheckLease, TypeOK, Dead
<1>4. CASE UnlinkDead(p)
  <2>1. lease = seen[p] /\ seen[p] \in Ticket /\ lease # None /\ life[lease.proc] = "gone"
    BY <1>4, Ticketing DEF UnlinkDead, TypeOK
  <2>2. \A q \in Procs : ~ (life[q] = "up" /\ pc[q] \in Holding)
    BY <2>1 DEF TypeOK, Named
  <2>3. \A q \in Procs : ~ (life[q] = "orphans" /\ pc[q] = "callback")
    BY <2>1
  <2>4. \A q \in Procs \ {p} : ~ (life[q] = "up" /\ pc[q] = "unlink")
    BY <1>4 DEF UnlinkDead
  <2>5. QED
    BY <1>4, <2>1, <2>2, <2>3, <2>4 DEF UnlinkDead, TypeOK
<1>5. CASE CloseReaper(p)
  <2>1. \A q \in Procs \ {p} : ~ (life[q] = "up" /\ pc[q] \in Reaping)
    BY <1>5 DEF CloseReaper
  <2>2. QED
    BY <1>5, <2>1 DEF CloseReaper, TypeOK
<1>6. QED
  BY <1>1, <1>2, <1>3, <1>4, <1>5

\* Taking and releasing the lease.
LEMMA TurnStep ==
  ASSUME GateInv, TypeOK', Named', NEW p \in Procs,
         Link(p) \/ EndCallback(p) \/ VerifyLease(p) \/ UnlinkLease(p)
  PROVE  GateInv'
<1> USE DEF Goto, memory, GateInv, Holders, Orphans, OneReaper, Recovered, Reaping, Holding
<1>1. CASE Link(p)
  <2>1. CASE lease = None
    <3>1. \A q \in Procs : life[q] = "up" => pc[q] \notin Holding /\ pc[q] # "unlink"
      BY <2>1 DEF TypeOK
    <3>2. QED
      BY <1>1, <2>1, <3>1 DEF Link, TypeOK
  <2>2. CASE lease # None
    BY <1>1, <2>2 DEF Link, TypeOK
  <2>3. QED
    BY <2>1, <2>2
<1>2. CASE EndCallback(p)
  BY <1>2 DEF EndCallback, TypeOK
<1>3. CASE VerifyLease(p)
  BY <1>3 DEF VerifyLease, OwnLease, TypeOK
<1>4. CASE UnlinkLease(p)
  <2>1. lease = mine[p] /\ mine[p] # None /\ lease.proc = p /\ life[p] = "up"
    BY <1>4 DEF UnlinkLease, TypeOK, Named
  <2>2. \A q \in Procs \ {p} : ~ (life[q] = "up" /\ pc[q] \in Holding)
    BY <2>1 DEF TypeOK, Named
  <2>3. \A q \in Procs : ~ (life[q] = "orphans" /\ pc[q] = "callback")
    BY <2>1
  <2>4. \A q \in Procs : ~ (life[q] = "up" /\ pc[q] = "unlink")
    BY <2>1
  <2>5. QED
    BY <1>4, <2>1, <2>2, <2>3, <2>4 DEF UnlinkLease, TypeOK
<1>5. QED
  BY <1>1, <1>2, <1>3, <1>4

\* Deaths and births.
LEMMA LifeStep ==
  ASSUME GateInv, TypeOK', Named', NEW p \in Procs, Crash(p) \/ GroupEnds(p) \/ Restart(p)
  PROVE  GateInv'
<1> USE DEF memory, GateInv, Holders, Orphans, OneReaper, Recovered, Reaping, Holding
<1>1. CASE Crash(p)
  <2>1. life[p] = "up" /\ \A q \in Procs \ {p} : life'[q] = life[q] /\ pc'[q] = pc[q]
    BY <1>1 DEF Crash, TypeOK
  <2>2. life'[p] # "up" /\ (life'[p] = "orphans" => pc'[p] = pc[p])
    BY <1>1 DEF Crash, TypeOK
  <2>3. pc[p] \in Holding => lease # None /\ lease.proc = p
    BY <2>1 DEF TypeOK, Named
  <2>4. Orphans'
    BY <1>1, <2>1, <2>2, <2>3 DEF Crash
  <2>5. Holders'
    BY <1>1, <2>1, <2>2 DEF Crash, TypeOK
  <2>6. OneReaper'
    BY <1>1, <2>1, <2>2 DEF Crash
  <2>7. Recovered'
    BY <1>1, <2>1, <2>2, Ticketing DEF Crash, TypeOK
  <2>8. QED
    BY <1>1, <2>4, <2>5, <2>6, <2>7 DEF Crash
<1>2. CASE GroupEnds(p)
  BY <1>2 DEF GroupEnds, TypeOK, Named
<1>3. CASE Restart(p)
  <2>1. pc[p] = "out"
    BY <1>3 DEF Restart, Named
  <2>2. \A q \in Procs : life[q] = "up" /\ pc[q] = "unlink" => seen[q] # None /\ seen[q].proc # p
    BY <1>3 DEF Restart, TypeOK
  <2>3. QED
    BY <1>3, <2>1, <2>2 DEF Restart, TypeOK
<1>4. QED
  BY <1>1, <1>2, <1>3

LEMMA GateInvStep == GateInv /\ ~ ReusedInodes /\ [Next]_vars => GateInv'
<1> SUFFICES ASSUME GateInv, ~ ReusedInodes, [Next]_vars PROVE GateInv'
  OBVIOUS
<1>1. TypeOK' /\ Named'
  BY TypeOKStep DEF GateInv
<1>2. CASE UNCHANGED vars
  BY <1>1, <1>2 DEF vars, memory, GateInv, Holders, Orphans, OneReaper, Recovered
<1>3. QED
  BY <1>1, <1>2, WaitingStep, RecoveryStep, TurnStep, LifeStep DEF Next, Step

LEMMA GateInvariant == ~ ReusedInodes /\ Spec => []GateInv
<1> SUFFICES ASSUME ~ ReusedInodes PROVE Spec => []GateInv
  OBVIOUS
<1>1. Init => GateInv
  BY GateInvInitially
<1>2. GateInv /\ [Next]_vars => GateInv'
  BY GateInvStep
<1>3. QED
  BY <1>1, <1>2, PTL DEF Spec

\* However many processes wait, crash and recover each other's leases, one invocation at
\* a time uses the resource, the children of dead owners counted.
THEOREM GateExclusiveUse == ~ ReusedInodes /\ Spec => []ExclusiveUse
<1>1. GateInv => ExclusiveUse
  <2>1. SUFFICES ASSUME GateInv, NEW p \in Procs, Using(p) PROVE lease # None /\ lease.proc = p
    BY DEF ExclusiveUse
  <2>2. QED
    BY <2>1 DEF Using, GateInv, TypeOK, Named, Holders, Orphans, Holding
<1>2. QED
  BY <1>1, GateInvariant, PTL

\* The comment that the model refutes for reused inode numbers holds without them:
\* recovery unlinks only leases of dead owners.
THEOREM GateReapsOnlyDead == ~ ReusedInodes /\ Spec => ReapsOnlyDead
<1>1. GateInv /\ [Next]_vars
        => [\A p \in Procs : (UnlinkDead(p) /\ lease # None) => Dead(lease.proc)]_vars
  BY DEF GateInv, Recovered, UnlinkDead, Goto, Dead
<1>2. QED
  BY <1>1, GateInvariant, PTL DEF Spec, ReapsOnlyDead

-----------------------------------------------------------------------------
(* No ticket is left behind. *)

LEMMA NoStrayTicketStep ==
  GateInv /\ NoStrayTicket /\ [Next]_vars => NoStrayTicket'
<1> SUFFICES ASSUME GateInv, NoStrayTicket, [Next]_vars PROVE NoStrayTicket'
  OBVIOUS
<1> USE DEF Goto, GateInv, TypeOK, NoStrayTicket
<1>1. ASSUME NEW p \in Procs, UNCHANGED <<life, mine, tickets>> PROVE NoStrayTicket'
  BY <1>1
<1>2. ASSUME NEW p \in Procs, Create(p) PROVE NoStrayTicket'
  <2>1. \A t \in tickets : t.proc # p
    BY <1>2, Ticketing DEF Create
  <2>2. QED
    BY <1>2, <2>1 DEF Create
<1>3. ASSUME NEW p \in Procs, Publish(p) PROVE NoStrayTicket'
  BY <1>3 DEF Publish, Named
<1>4. ASSUME NEW p \in Procs, NEW t \in Ticket, Inspect(p, t) PROVE NoStrayTicket'
  BY <1>4 DEF Inspect, Unlinked
<1>5. ASSUME NEW p \in Procs, VerifyLease(p) PROVE NoStrayTicket'
  BY <1>5 DEF VerifyLease, OwnLease, Holders, Holding
<1>6. ASSUME NEW p \in Procs, UnlinkLease(p) PROVE NoStrayTicket'
  BY <1>6 DEF UnlinkLease, Holders, Holding
<1>7. ASSUME NEW p \in Procs, RemoveTicket(p) PROVE NoStrayTicket'
  BY <1>7 DEF RemoveTicket, Unlinked
<1>8. ASSUME NEW p \in Procs, Crash(p) \/ GroupEnds(p) \/ Restart(p) PROVE NoStrayTicket'
  BY <1>8, Ticketing DEF Crash, GroupEnds, Restart
<1>9. QED
  BY <1>1, <1>2, <1>3, <1>4, <1>5, <1>6, <1>7, <1>8
  DEF Next, Step, ReadLease, OpenReaper, CheckLease, UnlinkDead, CloseReaper, ReadNames,
      ReadLeaseInfo, Decide, Link, EndCallback, GiveUp, vars

\* A running process never leaves a ticket of an earlier invocation behind, which would
\* stay at the head of the queue as long as it runs: no release is ever refused.
THEOREM GateNoStrayTicket == ~ ReusedInodes /\ Spec => []NoStrayTicket
<1>1. Init => NoStrayTicket
  BY DEF Init, NoStrayTicket
<1>2. QED
  BY <1>1, NoStrayTicketStep, GateInvariant, PTL DEF Spec

-----------------------------------------------------------------------------
(* The gate implements an exclusive resource. *)

\* A step changes the use of one process at most.
LEMMA OneAtATime ==
  ASSUME TypeOK, [Next]_vars
  PROVE  \E p \in Procs \cup {None} : \A q \in Procs \ {p} : Using(q)' <=> Using(q)
<1> DEFINE Elsewhere(p) == \A q \in Procs \ {p} : pc'[q] = pc[q] /\ life'[q] = life[q]
<1>1. ASSUME NEW p \in Procs, Step(p) \/ Create(p) \/ GiveUp(p) PROVE Elsewhere(p)
  <2>1. UNCHANGED life /\ (UNCHANGED pc \/ \E l \in Locations : pc' = [pc EXCEPT ![p] = l])
    BY <1>1 DEF Step, Create, GiveUp, Publish, ReadLease, OpenReaper, CheckLease, UnlinkDead,
       CloseReaper, ReadNames, ReadLeaseInfo, Inspect, Decide, Link, EndCallback, VerifyLease,
       UnlinkLease, RemoveTicket, Goto, Locations, Waiting, Holding, Reaping
  <2>2. QED
    BY <2>1 DEF TypeOK
<1>2. ASSUME NEW p \in Procs, Crash(p) \/ GroupEnds(p) \/ Restart(p) PROVE Elsewhere(p)
  BY <1>2 DEF Crash, GroupEnds, Restart, TypeOK
<1>3. UNCHANGED vars => Elsewhere(None)
  BY DEF vars
<1>4. \E p \in Procs \cup {None} : Elsewhere(p)
  BY <1>1, <1>2, <1>3 DEF Next
<1>5. QED
  BY <1>4 DEF Using

\* Every step of the gate is a step of the resource or leaves it alone.
LEMMA ResourceStep ==
  ASSUME TypeOK, ExclusiveUse, ExclusiveUse', [Next]_vars
  PROVE  [Resource!Next]_({p \in Procs : Using(p)})
<1> DEFINE users == {p \in Procs : Using(p)}
<1>1. PICK p \in Procs \cup {None} : \A q \in Procs \ {p} : Using(q)' <=> Using(q)
  BY OneAtATime
<1>2. users \ {p} = users' \ {p}
  BY <1>1
<1>3. users \subseteq {p} \/ users' = users
  BY <1>2 DEF ExclusiveUse
<1>4. CASE users \subseteq {p}
  <2>1. users' \subseteq {p} /\ (p \in users' => p \in Procs)
    BY <1>2, <1>4
  <2>2. users = {} /\ users' = {p} => p \in Procs /\ Resource!Acquire(p)
    BY <2>1 DEF Resource!Acquire
  <2>3. users = {p} /\ users' = {} => Resource!Release
    BY DEF Resource!Release
  <2>4. QED
    BY <1>4, <2>1, <2>2, <2>3 DEF Resource!Next
<1>5. QED
  BY <1>3, <1>4

\* Refinement: the files, the processes and their children, crashing between any two
\* steps, are an exclusive resource whose users come and go one by one.
THEOREM GateIsExclusiveResource == ~ ReusedInodes /\ Spec => IsExclusiveResource
<1>1. Init => Resource!Init
  BY DEF Init, Resource!Init, Using
<1>2. TypeOK /\ ExclusiveUse /\ ExclusiveUse' /\ [Next]_vars
        => [Resource!Next]_({p \in Procs : Using(p)})
  BY ResourceStep
<1>3. QED
  BY <1>1, <1>2, GateTypeCorrect, GateExclusiveUse, PTL DEF Spec, IsExclusiveResource, Resource!Spec

===============================================================================
