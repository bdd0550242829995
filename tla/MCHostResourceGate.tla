------------------------- MODULE MCHostResourceGate -------------------------
(* Values for model-checking HostResourceGate, and beside it ApplyAuthorization,  *)
(* which shares no state with the gate: either moves only while the other rests    *)
(* in its initial state.                                                           *)
EXTENDS HostResourceGate, MCApplyAuthorization

CONSTANTS a, b, k1, k2

TwoProcs == {a, b}
TwoTokens == {k1, k2}

-----------------------------------------------------------------------------
HostInit == Init /\ InitApply

HostNext ==
  \/ InitApply /\ Next /\ UNCHANGED applyVars
  \/ Init /\ NextApply /\ UNCHANGED vars

HostSpec ==
  /\ HostInit
  /\ [][HostNext]_<<vars, applyVars>>
  /\ \A p \in Procs : WF_vars(Step(p)) /\ WF_vars(GroupEnds(p))
=============================================================================
