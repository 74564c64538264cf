------------------------- MODULE MCCheckpointMirror -------------------------
(* CheckpointMirror on small instances; the .cfg files give the values.    *)
EXTENDS CheckpointMirror, TLC

CONSTANTS n1, n2

TwoNodes == {n1, n2}
NodeSymmetry == Permutations(TwoNodes)
NoSteps == {}
OneStep == {1}
TwoSteps == {1, 2}
ThreeSteps == {1, 2, 3}
NewestOfThree == {3}
=============================================================================
