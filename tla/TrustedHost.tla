---------------------------- MODULE TrustedHost -----------------------------
(* The trusted-host executor: the order in which it runs the stages of a   *)
(* definition, one after the other; the first that throws ends the run.    *)
EXTENDS Naturals, FiniteSets, Sequences, SequencesExt

\* prepare(): unique stages, whose dependencies are stages.
WellFormed(stages, dependsOn) ==
  /\ Cardinality(ToSet(stages)) = Len(stages)
  /\ \A stage \in ToSet(stages) : dependsOn[stage] \subseteq ToSet(stages)

Ready(stage, dependsOn, complete) ==
  stage \notin complete /\ dependsOn[stage] \subseteq complete

\* stableTopologicalOrder(): the first stage that is left and ready, in the order of the
\* definition.
IsNext(stage, stages, dependsOn, complete) ==
  \E i \in DOMAIN stages :
    /\ stage = stages[i] /\ Ready(stage, dependsOn, complete)
    /\ \A j \in 1..(i - 1) : ~Ready(stages[j], dependsOn, complete)

\* stableTopologicalOrder() throws on a cycle.
Executable(stages, dependsOn) ==
  /\ WellFormed(stages, dependsOn)
  /\ \E order \in [DOMAIN stages -> ToSet(stages)] : \A k \in DOMAIN order :
       IsNext(order[k], stages, dependsOn, {order[j] : j \in 1..(k - 1)})
=============================================================================
