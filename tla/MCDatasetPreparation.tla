------------------------ MODULE MCDatasetPreparation ------------------------
(* DatasetPreparation on a small instance; the .cfg file gives the values. *)
EXTENDS DatasetPreparation

CONSTANTS p1, p2, p3

ThreeProcesses == {p1, p2, p3}
=============================================================================
