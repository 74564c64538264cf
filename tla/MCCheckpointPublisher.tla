----------------------- MODULE MCCheckpointPublisher -----------------------
(* CheckpointPublisher on small instances; the .cfg files give the values. *)
EXTENDS CheckpointPublisher

AllFaults == FaultKinds
=============================================================================
