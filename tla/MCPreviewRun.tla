---------------------------- MODULE MCPreviewRun ----------------------------
(* Values for model-checking PreviewRun: the shape of the APizza pipelines. *)
EXTENDS PreviewRun, TLC

CONSTANTS p1, r1, r2, a, b

OneProc == {p1}
TwoRuns == {r1, r2}
Ports == {a, b}

\* A source that hands over a dataset in memory, which both later stages read, one of
\* them twice; the second stage has an optional output, which the third needs.
ThreeStages == 1..3
ThreeSources == {1}
ThreeInputs == << << >>, << <<1, a>>, <<1, a>> >>, << <<1, a>>, <<2, b>> >> >>
ThreeDeclared == <<{a}, {a, b}, {a}>>
ThreeRequired == <<{a}, {a}, {a}>>
InMemory == {<<1, a>>}

\* Each output has bytes of its own.
OwnContent == [x \in Stage \X Port |-> x]
=============================================================================
