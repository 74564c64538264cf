--------------------------- MODULE FileLockLoader ---------------------------
(***************************************************************************)
(* FileLockLoader (utils/data/lock.py): the processes of a run prepare one *)
(* dataset and load it, one at a time under a file lock, and count         *)
(* themselves in a file so that the last one removes the ready flag.       *)
(*                                                                         *)
(* load_fn is what utils/data/sft.py passes in: it loads the prepared      *)
(* dataset if its directory is not empty, else prepares and saves it.      *)
(* The files outlive the processes; the lock does not.                     *)
(* DatasetPreparation composes these actions with the work queue.          *)
(***************************************************************************)
EXTENDS Naturals, FiniteSets

CONSTANTS Processes, MaxRuns, MaxFaults     \* the last two are bounds of the model

ASSUME LoaderAssumption ==
    IsFiniteSet(Processes) /\ MaxRuns \in Nat \ {0} /\ MaxFaults \in Nat

VARIABLES
    pc,         \* pc[p]: where process p is
    holder,     \* who holds the file lock: {} or {p}
    counter,    \* process_counter.txt; 0 when there is no such file
    flag,       \* datasets_ready.flag exists
    dataset,    \* the directory of the prepared dataset
    raised,     \* processes whose load raised
    prepared,   \* history: how often this run set out to prepare the dataset
    dirty,      \* history: a process left without un-counting, or uncounted
    run, faults

files == <<counter, flag, dataset>>
vars == <<pc, holder, files, raised, prepared, dirty, run, faults>>

TypeOK ==
    /\ pc \in [Processes -> {"start", "inside", "preparing", "saving", "returning",
                             "leaving", "done"}]
    /\ holder \in SUBSET Processes
    /\ \A p \in Processes :
           p \in holder <=> pc[p] \in {"inside", "preparing", "saving", "returning"}
    /\ Cardinality(holder) <= 1
    /\ counter \in 0 .. MaxRuns * Cardinality(Processes)
    /\ flag \in BOOLEAN /\ dirty \in BOOLEAN /\ dataset \in {"none", "partial", "whole"}
    /\ raised \in SUBSET Processes /\ prepared \in Nat
    /\ run \in 1 .. MaxRuns /\ faults \in 0 .. MaxFaults

Init ==
    /\ pc = [p \in Processes |-> "start"] /\ holder = {}
    /\ counter = 0 /\ flag = FALSE /\ dataset = "none"
    /\ raised = {} /\ prepared = 0 /\ dirty = FALSE /\ run = 1 /\ faults = 0

Goto(p, l) == pc' = [pc EXCEPT ![p] = l]
Fault == faults < MaxFaults /\ faults' = faults + 1

Anyway == TRUE              \* fault: the lock is not waited for

\* with FileLock(...)
LockIsFree == holder = {}

\* load() up to load_fn; or the lock cannot be had, or ctrl-C interrupts the wait,
\* and cleanup() runs for a process that was never counted.
Enter(p) ==
    /\ pc[p] = "start"
    /\ \/ /\ LockIsFree /\ holder' = {p} /\ counter' = counter + 1 /\ Goto(p, "inside")
          /\ UNCHANGED <<raised, dirty, faults>>
       \/ /\ Fault /\ Goto(p, "leaving") /\ raised' = raised \cup {p} /\ dirty' = TRUE
          /\ UNCHANGED <<holder, counter>>
    /\ UNCHANGED <<flag, dataset, prepared, run>>

KeptLock(p) == holder       \* fault: an exception leaves the lock taken

\* Leaving the with statement by an exception releases the lock.
LockAfterError(p) == holder \ {p}

Raise(p) ==
    /\ Goto(p, "leaving") /\ holder' = LockAfterError(p) /\ raised' = raised \cup {p}

\* load_fn: load_preprocessed_dataset, then perhaps the preparation of the raw data.
LoadFn(p) ==
    /\ pc[p] = "inside"
    /\ \/ dataset = "whole" /\ Goto(p, "returning")
          /\ UNCHANGED <<holder, raised, prepared, faults>>
       \/ dataset = "none" /\ Goto(p, "preparing") /\ prepared' = prepared + 1
          /\ UNCHANGED <<holder, raised, faults>>
       \/ /\ IF dataset = "partial" THEN UNCHANGED faults ELSE Fault
          /\ Raise(p) /\ UNCHANGED prepared
    /\ UNCHANGED <<files, dirty, run>>

\* save_preprocessed_dataset creates the directory and writes the shards into it.
SaveBegins(p) ==
    /\ pc[p] = "preparing"
    /\ \/ dataset' = "partial" /\ Goto(p, "saving") /\ UNCHANGED <<holder, raised, faults>>
       \/ Fault /\ Raise(p) /\ UNCHANGED dataset
    /\ UNCHANGED <<counter, flag, prepared, dirty, run>>

SaveEnds(p) ==
    /\ pc[p] = "saving"
    /\ \/ dataset' = "whole" /\ Goto(p, "returning") /\ UNCHANGED <<holder, raised, faults>>
       \/ Fault /\ Raise(p) /\ UNCHANGED dataset
    /\ UNCHANGED <<counter, flag, prepared, dirty, run>>

\* The flag is touched by whoever did not find it; then load() returns.
Return(p) ==
    /\ pc[p] = "returning" /\ Goto(p, "leaving")
    /\ flag' = TRUE /\ holder' = holder \ {p}
    /\ UNCHANGED <<counter, dataset, raised, prepared, dirty, run, faults>>

LastTooLate(count) == count < 0     \* fault: off by one

\* count <= 0, after the decrement.
IsLast(count) == count <= 0

\* cleanup(): atomic under the lock; without a counter file it does nothing.
Cleanup(p) ==
    /\ pc[p] = "leaving" /\ LockIsFree /\ Goto(p, "done")
    /\ \/ counter = 0 /\ UNCHANGED <<counter, flag>>
       \/ counter > 0 /\ IsLast(counter - 1) /\ flag' = FALSE /\ counter' = 0
       \/ counter > 0 /\ ~IsLast(counter - 1) /\ counter' = counter - 1 /\ UNCHANGED flag
    /\ UNCHANGED <<holder, dataset, raised, prepared, dirty, run, faults>>

\* All processes are killed, or done, and the next run starts, perhaps with another
\* configuration, whose dataset is kept in another directory.
Restart ==
    /\ run < MaxRuns /\ run' = run + 1
    /\ dirty' = (dirty \/ \E p \in Processes : pc[p] \notin {"start", "done"})
    /\ pc' = [p \in Processes |-> "start"] /\ holder' = {} /\ raised' = {} /\ prepared' = 0
    /\ dataset' \in {dataset, "none"}
    /\ UNCHANGED <<counter, flag, faults>>

\* FileLock polls until it gets the lock.
Poll(p) == pc[p] \in {"start", "leaving"} /\ ~LockIsFree /\ UNCHANGED vars

AllDone == \A p \in Processes : pc[p] = "done"

-----------------------------------------------------------------------------
(* Properties.                                                             *)

\* A load raises only when something failed or an earlier run was killed: nobody
\* ever meets a dataset that another process is still writing.
OnlyFaultsRaise == raised # {} => faults > 0 \/ dirty

\* "The first process ... does the work; the remaining processes simply load": the
\* dataset is prepared again only after an attempt that failed.
PreparedOnce == prepared <= 1 + faults

\* Once every process has left, flag and counter are gone ("Clean up ready flag when last
\* process is done"), however loading, failing and leaving interleave. Runs after a kill
\* are excused: the counter may be too high for ever, and then nobody is the last. So is
\* a process that leaves without having been counted.
LastCleans == AllDone /\ ~dirty => ~flag /\ counter = 0

\* Every process gets its turn and leaves, whoever fails meanwhile.
AllLeave == <>AllDone
=============================================================================
