------------------------- MODULE ApplyAuthorization -------------------------
(***************************************************************************)
(* The capabilities of apply mode (ApplyAuthorizationContext of            *)
(* core/src/readiness.ts, with authorization.ts and admission.ts): frozen  *)
(* contexts, the invocations of their stages, one-shot subjects, and the   *)
(* ancestry of datasets.                                                   *)
(*                                                                         *)
(* The repository has no executor of apply mode: Return, Store and Tick    *)
(* stand for it, its registry, its disk and its clock.  Whatever it        *)
(* proposes as the restrictions and expiry of an output is tried.  A stamp *)
(* is a profile, whose digest it holds, and the id of one of its policies. *)
(***************************************************************************)
EXTENDS ApplyReadiness, FiniteSetsExt, SequencesExt

CONSTANTS
  Input,      \* the inputs that create() is called with, by name
  Records,    \* [ports, reads and "state" -> the record counts that are tried]
  Lifetimes,  \* the lifetimes of outputs that are tried
  DiskSize, MaxTime, MaxContexts, MaxRuns, MaxDatasets, MaxSubjects   \* bounds

\* What is tried as an input is typed as its schema has it: stages are a sequence, an input
\* port refers to a stage and a port, a policy has a ceiling for each class of artifact, and
\* limits and reservations are numbers.  A profile's digest is that of its document.
ASSUME InputAssumption ==
  /\ Lifetimes \in SUBSET Nat /\ DiskSize \in Nat
  /\ \A n \in DOMAIN Input :
       LET host == Input[n].host
       IN /\ host.cpu \in Nat /\ host.watermark \in Nat
          /\ \A group \in DOMAIN host.groups : host.groups[group] \in Nat
          /\ \A s \in StagesOf(Input[n].definition) :
               s.reserve.cpu \in Nat /\ s.reserve.bytes \in Nat /\ s.reserve.watermark \in Nat
  /\ \A m, n \in DOMAIN Input :
       Input[m].profile.digest = Input[n].profile.digest => Input[m].profile = Input[n].profile
  /\ \A n \in DOMAIN Input :
       /\ Len(Input[n].definition.stages) \in Nat
       /\ DOMAIN Input[n].definition.stages = 1..Len(Input[n].definition.stages)
       /\ \A s \in StagesOf(Input[n].definition) :
            /\ \A port \in DOMAIN s.inputs :
                 s.inputs[port] = <<s.inputs[port][1], s.inputs[port][2]>>
            /\ IsFiniteSet(s.bindings) /\ Nothing \notin s.bindings
            /\ \A b \in s.bindings : \A policy \in DOMAIN Input[n].profile.sources :
                 b.artifact \in DOMAIN Input[n].profile.sources[policy].ceiling

VARIABLES
  snapshot,      \* the inputs of the contexts, in the order of their creation, by name
  usedRuns,      \* usedStageRunIds of each
  invocations,   \* STAGE_INVOCATIONS
  subjects,      \* OUTPUT_MUTATIONS and STATE_MUTATIONS
  registry,      \* the datasets that the broker has registered, by handle
  now, free      \* clock and free disk

applyVars == <<snapshot, usedRuns, invocations, subjects, registry, now, free>>

InitApply ==
  /\ snapshot = << >> /\ usedRuns = << >>
  /\ invocations = {} /\ subjects = {} /\ registry = << >>
  /\ now = 0 /\ free = DiskSize

(* The inputs that a context can be created with, as they are copied and frozen. *)
Ready == {name \in DOMAIN Input : ApplyReady(Input[name])}
Frozen == [name \in Ready |-> Input[name]]

(* The documents of a context, and the stage and plugin of an invocation.   *)
Docs(c) == Frozen[snapshot[c]]
StageOf(i) == Docs(i.context).definition.stages[i.stage]
Manifest(i) == Docs(i.context).catalog[StageOf(i).uses]

(* create(): the input is checked, then copied and frozen. *)
CreateContext(name) ==
  /\ Len(snapshot) < MaxContexts
  /\ name \in Ready
  /\ snapshot' = Append(snapshot, name)
  /\ usedRuns' = Append(usedRuns, {})
  /\ UNCHANGED <<invocations, subjects, registry, now, free>>

-----------------------------------------------------------------------------
(* evaluateAdmission(), which the executor asks before it begins a stage,  *)
(* with the open invocations of all contexts as the active reservations.   *)
(* "cpu" stands for the three limits that are summed alike.                *)

\* What open invocations have reserved, unit by unit, and how much it is.
Units(active, what) == UNION {{i} \X (1..StageOf(i).reserve[what]) : i \in active}
Reserved(active, what) == Cardinality(Units(active, what))

Watermarks(host, active, candidate) ==
  {host.watermark, candidate.watermark} \cup {StageOf(i).reserve.watermark : i \in active}

\* Mutant of Admitted: what the others have reserved on the disk is not counted.
AdmittedAlone(host, active, candidate) ==
  /\ Cardinality({i \in active : StageOf(i).reserve.group = candidate.group})
       < host.groups[candidate.group]
  /\ Reserved(active, "cpu") + candidate.cpu <= host.cpu
  /\ \A w \in Watermarks(host, active, candidate) : free - candidate.bytes >= w

Admitted(host, active, candidate) ==
  /\ Cardinality({i \in active : StageOf(i).reserve.group = candidate.group})
       < host.groups[candidate.group]
  /\ Reserved(active, "cpu") + candidate.cpu <= host.cpu
  /\ \A w \in Watermarks(host, active, candidate) :
       free - Reserved(active, "bytes") - candidate.bytes >= w

-----------------------------------------------------------------------------
(* Invocations. *)

(* A registered dataset is what the input port of a stage of a context takes. *)
Takes(c, stage, port, d) ==
  LET input == Docs(c)
      ref == stage.inputs[port]
  IN /\ d.persisted
     /\ d.started <= d.expires /\ d.expires > now
     /\ d.stamps # {}
     /\ \A s \in d.stamps : s.profile = input.profile.digest /\ s.policy \in DOMAIN input.profile.sources
     /\ <<d.stage, d.port>> = ref
     /\ d.format = input.catalog[stage.uses].inputs[port].format

(* beginStageInvocation() *)
Begin(c, k, id) ==
  LET stage == Docs(c).definition.stages[k]
  IN /\ id \notin usedRuns[c]
     /\ Admitted(Docs(c).host, invocations, stage.reserve)
     /\ \E inputs \in [DOMAIN stage.inputs -> DOMAIN registry] :
          /\ \A port \in DOMAIN inputs : Takes(c, stage, port, registry[inputs[port]])
          /\ invocations' = invocations \cup
               {[context |-> c, id |-> id, stage |-> k, inputs |-> inputs, stored |-> 0]}
     /\ usedRuns' = [usedRuns EXCEPT ![c] = @ \cup {id}]
     /\ UNCHANGED <<snapshot, subjects, registry, now, free>>

Owns(i, x) == x.context = i.context /\ x.run = i.id

(* closeStageInvocation(): when its plugin has returned or failed.  Its    *)
(* subjects cannot be used any more.                                       *)
Close(i) ==
  /\ invocations' = invocations \ {i}
  /\ subjects' = {x \in subjects : ~Owns(i, x)}
  /\ UNCHANGED <<snapshot, usedRuns, registry, now, free>>

-----------------------------------------------------------------------------
(* Effects. *)

(* assertEffectAuthorizedInternal() in apply mode; the attempt names the     *)
(* resource and an operation of the grant.                                 *)
Granted(i, class, count) ==
  /\ class \in Manifest(i).effects
  /\ \E g \in Docs(i.context).deployment.grants :
       /\ g[1] = StageOf(i).id /\ g[2].class = class /\ count <= g[2].max
       /\ class = "public.write" => g[2].verified

(* authorizeEffect() of a read, which leaves no trace. *)
MayRead(i, class, count) == class \in ReadClasses /\ Granted(i, class, count)

(* authorizeEffect() of a consumer write, which leaves none either: its    *)
(* subject is a dataset.                                                   *)
MayConsume(i, class, h) ==
  LET d == registry[h]
      input == Docs(i.context)
  IN /\ class \in ConsumerClasses
     /\ \E port \in DOMAIN i.inputs : i.inputs[port] = h
     /\ d.persisted /\ d.expires > now
     /\ class = "public.write" =>
          /\ d.redistribution = "approved" /\ d.stamps # {}
          /\ \A s \in d.stamps :
               /\ s.profile = input.profile.digest /\ s.policy \in DOMAIN input.profile.sources
               /\ input.profile.sources[s.policy].redistribution = "approved"
     /\ Granted(i, class, d.count)

(* bindOutputMutationSubject(), bindStateMutationSubject(): kind is an      *)
(* output port or "state".                                                 *)
BindSubject(i, kind, count) ==
  /\ kind = "state" \/ kind \in DOMAIN Manifest(i).outputs
  /\ \E handle \in (1..MaxSubjects) \ {x.handle : x \in subjects} :
       subjects' = subjects \cup {[handle |-> handle, context |-> i.context, run |-> i.id, kind |-> kind,
                                  count |-> count, consumed |-> FALSE, writes |-> << >>]}
  /\ UNCHANGED <<snapshot, usedRuns, invocations, registry, now, free>>

Unused(i, x) == Owns(i, x) /\ ~x.consumed

(* authorizeEffect() of an output or state write. *)
AuthorizeSubject(i, x, class) ==
  /\ Unused(i, x)
  /\ IF x.kind = "state" THEN class = "state.write" ELSE class \in OutputClasses
  /\ Granted(i, class, x.count)
  /\ subjects' = (subjects \ {x}) \cup {[x EXCEPT !.consumed = TRUE, !.writes = Append(@, class)]}
  /\ UNCHANGED <<snapshot, usedRuns, invocations, registry, now, free>>

-----------------------------------------------------------------------------
(* Datasets. *)

SourcePolicy(c, b) == Docs(c).profile.sources[b.policy]

(* assertSourceDatasetBinding() *)
SourceOutput(i, port, d) ==
  \E b \in StageOf(i).bindings :
    /\ port \in b.ports
    /\ d.stamps = {[profile |-> Docs(i.context).profile.digest, policy |-> b.policy]}
    /\ d.redistribution = SourcePolicy(i.context, b).redistribution
    /\ d.expires - d.started \in
         0..Min({SourcePolicy(i.context, b).days, SourcePolicy(i.context, b).ceiling[b.artifact]})

Parents(i) == {registry[i.inputs[port]] : port \in DOMAIN i.inputs}

\* Mutant of Inherits: the latest expiry of the parents.
InheritsLatest(parents, d) ==
  /\ parents # {}
  /\ d.stamps = UNION {p.stamps : p \in parents}
  /\ d.redistribution =
       IF \E p \in parents : p.redistribution = "forbidden" THEN "forbidden" ELSE "approved"
  /\ d.expires <= Max({p.expires : p \in parents})

(* An internal output has the ancestry of all inputs, the strictest         *)
(* redistribution and the earliest expiry.                                 *)
Inherits(parents, d) ==
  /\ parents # {}
  /\ d.stamps = UNION {p.stamps : p \in parents}
  /\ d.redistribution =
       IF \E p \in parents : p.redistribution = "forbidden" THEN "forbidden" ELSE "approved"
  /\ \A p \in parents : d.expires <= p.expires

(* Of assertStageOutputsRegistered(), what it requires of an output. *)
ValidOutput(i, d) ==
  /\ d.format = Manifest(i).outputs[d.port].format
  /\ IF Manifest(i).adapter # Nothing THEN d.persisted /\ SourceOutput(i, d.port, d)
     ELSE d.persisted => Inherits(Parents(i), d)

(* The sets of stamps of one profile: the ancestry of an output is of no other. *)
Ancestries ==
  UNION {SUBSET [profile : {Docs(c).profile.digest}, policy : DOMAIN Docs(c).profile.sources] :
         c \in DOMAIN snapshot}

(* What may be proposed as the output of a port; origin is the binding it  *)
(* was really read by.  Of an output that stays in memory the restrictions *)
(* are not looked at.                                                      *)
Proposals(i, port) ==
  LET proposed(persisted, ancestries, redistributions, lifetimes, counts) ==
        [stage : {StageOf(i).id}, port : {port}, format : {Manifest(i).outputs[port].format},
         persisted : {persisted}, stamps : ancestries, redistribution : redistributions,
         started : {now}, expires : {now + n : n \in lifetimes}, count : counts,
         parents : {{i.inputs[p] : p \in DOMAIN i.inputs}},
         origin : IF Manifest(i).adapter = Nothing THEN {Nothing}
                  ELSE {b \in StageOf(i).bindings : port \in b.ports}]
  IN proposed(TRUE, Ancestries, {"approved", "forbidden"}, Lifetimes, Records[port])
       \cup proposed(FALSE, {{}}, {"forbidden"}, {Min(Lifetimes)}, {Min(Records[port])})

(* The plugin returns; validateStageOutputs() has to admit its outputs.    *)
Return(i) ==
  LET ports == Manifest(i).outputs
      valid == [port \in DOMAIN ports |-> {d \in Proposals(i, port) : ValidOutput(i, d)}]
  IN /\ \A h \in DOMAIN registry : <<h[1], h[2]>> # <<i.context, i.id>>
     /\ \E produced \in SUBSET DOMAIN ports :
          /\ \A port \in DOMAIN ports : ports[port].required => port \in produced
          /\ Cardinality(DOMAIN registry) + Cardinality(produced) <= MaxDatasets
          /\ \E outputs \in [produced -> UNION {valid[port] : port \in produced}] :
               /\ \A port \in produced : outputs[port] \in valid[port]
               /\ registry' = [h \in DOMAIN registry \cup {<<i.context, i.id, port>> : port \in produced} |->
                                 IF h \in DOMAIN registry THEN registry[h] ELSE outputs[h[3]]]
     /\ UNCHANGED <<snapshot, usedRuns, invocations, subjects, now, free>>

(* The stage writes to the disk, within its reservation. *)
Store(i) ==
  /\ i.stored < StageOf(i).reserve.bytes
  /\ invocations' = (invocations \ {i}) \cup {[i EXCEPT !.stored = @ + 1]}
  /\ free' = free - 1
  /\ UNCHANGED <<snapshot, usedRuns, subjects, registry, now>>

Tick ==
  /\ now < MaxTime
  /\ now' = now + 1
  /\ UNCHANGED <<snapshot, usedRuns, invocations, subjects, registry, free>>

(* A subject is bound only for a stage that has a use for it.              *)
NextApply ==
  \/ \E name \in DOMAIN Input : CreateContext(name)
  \/ /\ MapThenSumSet(LAMBDA c : Cardinality(usedRuns[c]), DOMAIN usedRuns) < MaxRuns
     /\ \E c \in DOMAIN snapshot : \E k \in DOMAIN Docs(c).definition.stages :
          Begin(c, k, Cardinality(usedRuns[c]) + 1)
  \/ \E i \in invocations :
       \/ Close(i) \/ Return(i) \/ Store(i)
       \/ /\ Manifest(i).effects \cap (OutputClasses \cup {"state.write"}) # {}
          /\ \E kind \in DOMAIN Manifest(i).outputs \cup {"state"} :
               \E count \in Records[kind] : BindSubject(i, kind, count)
       \/ \E x \in subjects, class \in OutputClasses \cup {"state.write"} :
            AuthorizeSubject(i, x, class)
  \/ Tick

SpecApply == InitApply /\ [][NextApply]_applyVars

-----------------------------------------------------------------------------
(* Properties. *)

(* The outputs of source stages that a dataset was made from: those in any *)
(* set that holds the dataset and the parents of its members.              *)
Ancestral(S) == \A h \in S : registry[h].parents \subseteq S

Roots(h) ==
  {x \in DOMAIN registry :
     /\ registry[x].origin # Nothing
     /\ \A S \in SUBSET DOMAIN registry : h \in S /\ Ancestral(S) => x \in S}

\* Whatever the stages propose for their outputs, and however late they return them, a
\* stage may write to a consumer only data of its own context's profile that is within the
\* ceiling of its source policy, whose policy was approved, and to the public only data
\* whose policy permits redistribution: at each source it was made from, through any
\* stages between.
WritesHonourSources ==
  \A i \in invocations, class \in ConsumerClasses, h \in DOMAIN registry :
    MayConsume(i, class, h) =>
      /\ Roots(h) # {}
      /\ \A x \in Roots(h) :
           LET root == registry[x]
               source == Docs(i.context).profile.sources[root.origin.policy]
           IN /\ Docs(x[1]).profile = Docs(i.context).profile
              /\ source.approved
              /\ now < root.started + source.ceiling[root.origin.artifact]
              /\ class = "public.write" => source.redistribution = "approved"

Reviewed(i, class, count) ==
  LET input == Docs(i.context)
  IN \E s \in StagesOf(input.definition) : \E request \in s.requests :
       /\ s.id = StageOf(i).id /\ request.class = class /\ count <= request.max
       /\ <<s.id, request>> \in input.profile.effectPolicy

\* What a stage may do was reviewed: the definition requests it and the profile's policy
\* allows it, for so many records, although at run time only the deployment's grants are
\* looked at; and what is bound for one write is written once.
EffectsReviewed ==
  \A i \in invocations :
    /\ \A class \in ReadClasses : \A count \in Records[class] :
         MayRead(i, class, count) => Reviewed(i, class, count)
    /\ \A class \in ConsumerClasses : \A h \in DOMAIN registry :
         MayConsume(i, class, h) => Reviewed(i, class, registry[h].count)
    /\ \A x \in {x \in subjects : Owns(i, x)} :
         /\ Len(x.writes) <= 1
         /\ \A class \in Range(x.writes) : Reviewed(i, class, x.count)

\* However the stages that are open fill the disk, the host keeps the free space that it
\* and each of them asks for, and its processors and groups are not overbooked.
ReservationsHonoured ==
  \A i \in invocations :
    LET host == Docs(i.context).host
    IN /\ free >= host.watermark /\ free >= StageOf(i).reserve.watermark
       /\ Reserved(invocations, "cpu") <= host.cpu
       /\ Cardinality({j \in invocations : StageOf(j).reserve.group = StageOf(i).reserve.group})
            <= host.groups[StageOf(i).reserve.group]

\* Of all stages of a context before one, there are unexpired artifacts on every port.
Supplied(c, k) ==
  \A j \in 1..(k - 1) :
    LET stage == Docs(c).definition.stages[j]
    IN \A port \in DOMAIN Docs(c).catalog[stage.uses].outputs :
         \E h \in DOMAIN registry :
           /\ h[1] = c /\ registry[h].persisted /\ registry[h].expires > now
           /\ registry[h].stage = stage.id /\ registry[h].port = port

\* A pipeline that was admitted can be run in the order of its definition: when the stages
\* before one are there, it can take their artifacts.  The two checks, of ports beforehand
\* and of datasets at run time, agree.
CanGoOn ==
  \A c \in DOMAIN snapshot : \A k \in DOMAIN Docs(c).definition.stages :
    LET stage == Docs(c).definition.stages[k]
    IN Supplied(c, k) =>
         \A port \in DOMAIN stage.inputs :
           \E h \in DOMAIN registry : h[1] = c /\ Takes(c, stage, port, registry[h])

\* What is checked when a context is created agrees with what is checked while it runs:
\* nothing is permitted that was not reviewed, and nothing refused that was promised.
ChecksAgree == EffectsReviewed /\ CanGoOn
=============================================================================
