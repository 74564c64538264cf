-------------------------- MODULE MCCheckpointRetry --------------------------
(* CheckpointRetry on a small instance; the .cfg file gives the values.    *)
EXTENDS CheckpointRetry, TLC

CONSTANTS r0, r1

TwoRanks == {r0, r1}
TypicalSave == r0 :> <<"local", "collective", "nested">> @@ r1 :> <<"collective", "local">>
=============================================================================
