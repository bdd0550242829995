--------------------------- MODULE ApplyReadiness ---------------------------
(***************************************************************************)
(* Which pipelines apply mode admits: validateDefinition() of              *)
(* core/src/validation.ts and assertApplyReady() of core/src/readiness.ts. *)
(*                                                                         *)
(* An input holds a definition, a plugin catalog, a profile, a deployment  *)
(* and a host policy.  A digest is its document itself or, of a profile,   *)
(* a field that no two profiles share: the deployment pins documents. Port *)
(* schemas and artifact policies are one value, "format"; a resource with  *)
(* its operations is one value, "resource".                                *)
(***************************************************************************)
EXTENDS Integers, FiniteSets, Sequences

CONSTANT Nothing

ReadClasses == {"network.read", "artifact.read"}
OutputClasses == {"artifact.write", "evidence.write", "review.write"}
ConsumerClasses == {"canonical.write", "public.write"}

StagesOf(definition) == {definition.stages[k] : k \in DOMAIN definition.stages}
ClassesOf(stage) == {r.class : r \in stage.requests}

-----------------------------------------------------------------------------
(* validateDefinition(): what would be an issue is refused. *)

ValidManifest(m) ==
  /\ m.adapter # Nothing <=> m.effects \cap ReadClasses # {}
  /\ m.adapter # Nothing => DOMAIN m.inputs = {}

\* Mutant of RefersBack: any stage of the definition will do.
RefersAnywhere(definition, catalog, i, port) ==
  LET stage == definition.stages[i]
      ref == stage.inputs[port]
  IN \E k \in DOMAIN definition.stages :
       LET producer == catalog[definition.stages[k].uses]
       IN /\ definition.stages[k].id = ref[1]
          /\ ref[2] \in DOMAIN producer.outputs
          /\ producer.outputs[ref[2]].format = catalog[stage.uses].inputs[port].format

(* An input names a compatible output of an earlier stage. *)
RefersBack(definition, catalog, i, port) ==
  LET stage == definition.stages[i]
      ref == stage.inputs[port]
  IN \E k \in 1..(i - 1) :
       LET producer == catalog[definition.stages[k].uses]
       IN /\ definition.stages[k].id = ref[1]
          /\ ref[2] \in DOMAIN producer.outputs
          /\ producer.outputs[ref[2]].format = catalog[stage.uses].inputs[port].format

ValidInputs(definition, catalog, i) ==
  LET stage == definition.stages[i]
      ports == catalog[stage.uses].inputs
  IN /\ DOMAIN stage.inputs \subseteq DOMAIN ports
     /\ \A port \in DOMAIN ports \ DOMAIN stage.inputs : ~ports[port].required
     /\ \A port \in DOMAIN stage.inputs : RefersBack(definition, catalog, i, port)

(* Consumers need inputs, and producers outputs. *)
ValidEffects(stage, m) ==
  /\ ClassesOf(stage) \cap ConsumerClasses # {} => DOMAIN stage.inputs # {}
  /\ ClassesOf(stage) \cap OutputClasses # {} => DOMAIN m.outputs # {}

(* A stage requests what its plugin declares, no less and no more. *)
ValidRequests(stage, m) ==
  /\ ClassesOf(stage) = m.effects
  /\ \A r \in stage.requests : r.max > 0 /\ (r.class = "public.write" => r.verified)

(* Each read has one binding, and each output port of a source is bound once. *)
ValidBindings(stage, m) ==
  LET covers(b, r) == r.class = b.class /\ r.resource = b.resource
  IN /\ m.adapter # Nothing <=> stage.bindings # {}
     /\ \A b \in stage.bindings :
          /\ b.class \in ReadClasses /\ b.ports # {} /\ b.ports \subseteq DOMAIN m.outputs
          /\ Cardinality({r \in stage.requests : covers(b, r)}) = 1
     /\ m.adapter # Nothing =>
          /\ \A r \in stage.requests : r.class \in ReadClasses =>
               Cardinality({b \in stage.bindings : covers(b, r)}) = 1
          /\ \A port \in DOMAIN m.outputs :
               Cardinality({b \in stage.bindings : port \in b.ports}) = 1

WriteClasses == {"evidence.write", "review.write"} \cup ConsumerClasses

(* The sinks are terminal stages, the required ones with receipts; a       *)
(* terminal stage that writes is a sink.                                   *)
ValidSinks(definition, catalog) ==
  LET consumed == UNION {{s.inputs[port][1] : port \in DOMAIN s.inputs} : s \in StagesOf(definition)}
      terminal == {s \in StagesOf(definition) : s.id \notin consumed}
      named(ids) == {s \in terminal : s.id \in ids}
      sinks == definition.required \cup definition.optional
  IN /\ definition.required # {} /\ definition.required \cap definition.optional = {}
     /\ sinks \subseteq {s.id : s \in terminal}
     /\ \A s \in named(definition.required) : catalog[s.uses].receipt
     /\ \A s \in terminal : catalog[s.uses].effects \cap WriteClasses # {} => s.id \in sinks

ValidDefinition(definition, catalog) ==
  /\ \A use \in DOMAIN catalog : ValidManifest(catalog[use])
  /\ definition.stages # << >>
  /\ \A i, k \in DOMAIN definition.stages :
       definition.stages[i].id = definition.stages[k].id => i = k
  /\ \A i \in DOMAIN definition.stages :
       LET stage == definition.stages[i]
       IN /\ stage.uses \in DOMAIN catalog
          /\ ValidInputs(definition, catalog, i)
          /\ ValidEffects(stage, catalog[stage.uses])
          /\ ValidRequests(stage, catalog[stage.uses])
          /\ ValidBindings(stage, catalog[stage.uses])
  /\ ValidSinks(definition, catalog)

-----------------------------------------------------------------------------
(* assertApplyReady() *)

(* The five documents are the ones that the deployment pins. *)
Pinned(input) ==
  LET d == input.deployment
  IN /\ input.profile.enabled /\ d.enabled
     /\ input.definition.profile = input.profile.id /\ d.profile = input.profile.id
     /\ d.definitionDigest = input.definition
     /\ d.profileDigest = input.profile.digest
     /\ d.hostDigest = input.host
     /\ d.lockDigest = input.profile.lockDigest /\ input.profile.lockDigest = input.catalog
     /\ d.contract = input.profile.contract
     /\ d.secrets # "test_stub"

(* The source policy that a binding names permits its outputs. *)
SourceReady(stage, b, input) ==
  LET m == input.catalog[stage.uses]
  IN /\ b.policy \in DOMAIN input.profile.sources
     /\ LET source == input.profile.sources[b.policy]
        IN /\ m.adapter = source.adapter
           /\ source.approved
           /\ \A class \in DOMAIN source.ceiling : source.ceiling[class] \in 0..30
           /\ \A port \in b.ports : m.outputs[port].format = source.format
           /\ source.days \in 0..source.ceiling[b.artifact]

\* Mutant of GrantsExact: that a request is granted will do.
GrantsUnreviewed(input) ==
  input.deployment.grants =
    UNION {{<<s.id, r>> : r \in s.requests} : s \in StagesOf(input.definition)}

(* The requests are what the profile allows and all that the deployment grants. *)
GrantsExact(input) ==
  LET requests == UNION {{<<s.id, r>> : r \in s.requests} : s \in StagesOf(input.definition)}
  IN requests \subseteq input.profile.effectPolicy /\ input.deployment.grants = requests

ApplyReady(input) ==
  /\ Pinned(input)
  /\ ValidDefinition(input.definition, input.catalog)
  /\ \A s \in StagesOf(input.definition) : \A b \in s.bindings : SourceReady(s, b, input)
  /\ \A s \in StagesOf(input.definition) : s.reserve.group \in DOMAIN input.host.groups
  /\ GrantsExact(input)
=============================================================================
