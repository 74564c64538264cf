--------------------------- MODULE MCAsyncRollouts ---------------------------
(* AsyncRollouts on small instances; the .cfg files give the values.       *)
EXTENDS AsyncRollouts

CONSTANTS r0, r1, Depths, Intervals, RolloutSizes

OtherRanks == {r1}

AllSetups == [path : {"producer", "legacy"}, sync : {"lora", "no_merge", "stock"},
              depth : Depths, interval : Intervals, per : RolloutSizes, alone : BOOLEAN]
LoneSetups == {s \in AllSetups : s.alone /\ s.sync # "lora"}
=============================================================================
