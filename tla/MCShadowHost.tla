---------------------------- MODULE MCShadowHost ----------------------------
(***************************************************************************)
(* ShadowHost on small instances, and its matcher on each of SomeInputs.   *)
(* What a run matches is not in its host's state, so that the host's steps *)
(* are taken with one input, the empty one.                                *)
(***************************************************************************)
EXTENDS ShadowHost, MCApizzaMatching

CONSTANTS p1, p2, good, other, r1, r2, r2b, r3

TwoProcs == {p1, p2}
TwoContents == {good, other}

\* r2 and r2b are two versions of one place; r3 is long.
Rows == {r1, r2, r2b, r3}
Cursors == r1 :> 1 @@ r2 :> 2 @@ r2b :> 2 @@ r3 :> 3
Sizes == r1 :> 1 @@ r2 :> 1 @@ r2b :> 2 @@ r3 :> 3
NoRows == {}

\* None; a place that changes; one too many; a cursor twice.
SomeViews == {{}, {r1, r2}, {r1, r2b}, {r1, r2, r3}, {r2, r2b}}

-----------------------------------------------------------------------------
NoInput == [candidates |-> {}, rows |-> {}]

HostInit == Init /\ input \in SomeInputs

HostNext == input = NoInput /\ Next /\ UNCHANGED input

HostSpec ==
  /\ HostInit
  /\ [][HostNext]_<<vars, input>>
  /\ \A p \in Proc : WF_vars(ProcStep(p))
=============================================================================
