---------------------------- MODULE MCBuiltHere -----------------------------
(* BuiltHereRunner on small instances. *)
EXTENDS BuiltHereRunner, TLC

CONSTANTS detroit, annArbor, permit, A, B, Bad, tip

TwoCities == <<detroit, annArbor>>
TwoIdsAndOne == (detroit :> {1, 2}) @@ (annArbor :> {1})
TwoScansAndOne == (detroit :> 2) @@ (annArbor :> 1)
OnePermit == {permit}
ThreeVersions == {A, B, Bad}
OneRefused == {Bad}
OneTip == {tip}
=============================================================================
