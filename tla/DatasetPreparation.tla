-------------------------- MODULE DatasetPreparation --------------------------
(***************************************************************************)
(* FileLockLoader with what its load_fn does to prepare a dataset: the     *)
(* process that holds the file lock tokenizes with the work queue, whose   *)
(* cache file outlives a failed preparation, then saves the result.        *)
(* Its steps are those of FileLockLoader and of WorkQueue, and the saving  *)
(* and the errors in which they meet.                                      *)
(***************************************************************************)
EXTENDS FileLockLoader, WorkQueue

allVars == <<vars, queueVars>>

PreparationInit == Init /\ QueueInit

PreparationTypeOK ==
    /\ TypeOK /\ QueueTypeOK
    /\ stage # "off" => \E p \in holder : pc[p] = "preparing"

Preparing(p) == pc[p] = "preparing"

\* TokenizedPromptDataset.process under the lock
Tokenize(p) == Preparing(p) /\ QueueStep /\ UNCHANGED vars

TokenizingGoesWrong ==
    /\ \/ TokenizingFails /\ \A i \in DOMAIN pending : pending[i].state # "failed"
       \/ FileFails
    /\ Fault
    /\ UNCHANGED <<pc, holder, files, raised, prepared, dirty, run>>

\* The queue's error leaves load_fn.
TokenizingRaises(p) ==
    /\ Preparing(p) /\ stage = "failed" /\ Raise(p) /\ QueueLeft
    /\ UNCHANGED <<files, prepared, dirty, run, faults>>

\* The tokenized dataset is saved; or another error comes, before or after tokenizing.
SaveTokenized(p) ==
    /\ SaveBegins(p) /\ QueueLeft
    /\ IF pc'[p] = "saving" THEN stage = "ready" ELSE stage \in {"off", "ready"}

Step(p) ==
    \/ Tokenize(p) \/ TokenizingRaises(p) \/ SaveTokenized(p)
    \/ (Enter(p) \/ LoadFn(p) \/ SaveEnds(p) \/ Return(p) \/ Cleanup(p)) /\ UNCHANGED queueVars

PreparationNext ==
    \/ \E p \in Processes : Step(p) \/ (Poll(p) /\ UNCHANGED queueVars)
    \/ TokenizingGoesWrong
    \/ Restart /\ QueueKilled
    \/ AllDone /\ UNCHANGED allVars

\* Every process runs, and so do those of the pool while they live.
PreparationSpec ==
    /\ PreparationInit /\ [][PreparationNext]_allVars
    /\ \A p \in Processes : WF_allVars(Step(p))

-----------------------------------------------------------------------------
(* Properties                                                              *)

InOrder(rows) == \A i, j \in DOMAIN rows : i < j => rows[i] < rows[j]
Elements(rows) == {rows[i] : i \in DOMAIN rows}

HasAllRows(file) == InOrder(file) /\ Elements(file) = Kept

\* Whatever order the chunks are finished in, and whoever fails or is killed, a cache
\* file holds all the rows of the dataset, once and in their order. A failed tokenization
\* takes its temporary file with it: one that is left has all the rows, and only
\* os.replace failed.
TokenizedWhole ==
    /\ \A file \in cache : HasAllRows(file)
    /\ stage \in {"off", "ready", "failed"} => \A file \in tmp : HasAllRows(file)
=============================================================================
