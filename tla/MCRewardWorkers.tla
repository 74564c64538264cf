--------------------------- MODULE MCRewardWorkers ---------------------------
(* RewardWorkers on a small instance; the .cfg file gives the values.      *)
EXTENDS RewardWorkers
=============================================================================
