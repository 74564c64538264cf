------------------------- MODULE ShardedAdapterSave -------------------------
(***************************************************************************)
(* Sharded adapter checkpoints: the trainer writes shards, one background  *)
(* thread of rank 0 consolidates them, and on_save and rotation are held   *)
(* back until it has (core/trainers/mixins/sharded_adapter_save.py and     *)
(* ConsolidationQueue, consolidate, write_adapter_shards of                *)
(* monkeypatch/accelerate/fsdp2_sharded_adapter.py).                       *)
(*                                                                         *)
(* The ranks run in lockstep: every decision is taken on a value rank 0    *)
(* broadcasts, so they are one trainer here.  A checkpoint is named by its *)
(* step; 0 names output_dir, where the final adapter goes.                 *)
(***************************************************************************)
EXTENDS Integers, Sequences, FiniteSets, FiniteSetsExt

CONSTANTS Limit,            \* ConsolidationQueue.limit
          SaveTotalLimit,   \* save_total_limit; 0 stands for None
          MaxStep,          \* bound: steps trained
          MaxRuns,          \* bound: runs of the job, the first one included
          MaxFaults         \* bound: failing file operations

ASSUME SaveAssumption ==
    /\ Limit \in Nat \ {0} /\ SaveTotalLimit \in Nat /\ MaxStep \in Nat \ {0}
    /\ MaxRuns \in Nat \ {0} /\ MaxFaults \in Nat

Paths == 0 .. MaxStep
Checkpoints == 1 .. MaxStep

VARIABLES
    run, base,      \* the run, and the step it was resumed from
    step, best,     \* global_step; step of best_model_checkpoint, 0 for none
    tpc,            \* where the trainer is
    unconsolidated, \* _axolotl_unconsolidated
    failed,         \* _axolotl_failed_consolidations
    deferred,       \* _axolotl_deferred_saves
    rotation,       \* _axolotl_deferred_rotation: {the best it was deferred with}, or {}
    target,         \* the path the save in progress writes to
    known,          \* paths whose status a poll has to report as finished
    published,      \* history: the checkpoints whose held back on_save ran in this run,
                    \* in order, with 0 for each that was skipped
    future,         \* CONSOLIDATIONS.futures: a function of the paths submitted
    workq, job,     \* the executor's queue, and what its thread runs ({} for nothing)
    disk,           \* disk[p]: what of the adapter is on disk
    saved,          \* checkpoints whose other files are on disk
    faults

gateVars == <<unconsolidated, failed, deferred, rotation, published>>
queueVars == <<future, workq, job>>
vars == <<run, base, step, best, tpc, target, known, gateVars, queueVars, disk, saved, faults>>

\* "partial": shards without a manifest; "shards": with it; "both": the consolidated
\* file beside them; "adapter": the consolidated file only.
DiskStates == {"absent", "partial", "shards", "both", "adapter"}

TypeOK ==
    /\ run \in 1 .. MaxRuns /\ base \in Paths /\ step \in Paths /\ best \in Paths
    /\ tpc \in {"train", "polling", "capacity", "manifest", "submit", "rest", "ended", "result",
                "done", "raised", "load"}
    /\ unconsolidated \subseteq Checkpoints /\ failed \subseteq Checkpoints
    /\ deferred \in Seq(Checkpoints) /\ rotation \in SUBSET Paths /\ Cardinality(rotation) <= 1
    /\ target \in Paths /\ known \subseteq Checkpoints /\ published \in Seq(Paths)
    /\ DOMAIN future \subseteq Paths
    /\ \A p \in DOMAIN future : future[p] \in {"pending", "done", "failed"}
    /\ workq \in Seq(Paths) /\ job \in SUBSET Paths /\ Cardinality(job) <= 1
    /\ disk \in [Paths -> DiskStates] /\ saved \subseteq Checkpoints
    /\ faults \in 0 .. MaxFaults

Fault == faults < MaxFaults /\ faults' = faults + 1
NoFault == UNCHANGED faults

Init ==
    /\ run = 1 /\ base = 0 /\ step = 0 /\ best = 0 /\ tpc = "train"
    /\ unconsolidated = {} /\ failed = {} /\ deferred = <<>> /\ rotation = {}
    /\ target = 0 /\ known = {} /\ published = <<>>
    /\ future = [p \in {} |-> "pending"] /\ workq = <<>> /\ job = {}
    /\ disk = [p \in Paths |-> "absent"] /\ saved = {} /\ faults = 0

-----------------------------------------------------------------------------
(* ConsolidationQueue.                                                     *)

Outstanding == {p \in DOMAIN future : future[p] = "pending"}

OneMore == Cardinality(Outstanding) <= Limit      \* fault: off by one

NeverFailed == Cardinality({p \in DOMAIN future : future[p] # "done"}) < Limit
                        \* fault: a failed consolidation keeps its place

\* wait_for_capacity lets the save go on.
HasCapacity == Cardinality(Outstanding) < Limit

\* status: a path the queue does not know counts as consolidated.
Settled(p) == p \in DOMAIN future => future[p] # "pending"
Succeeded(p) == p \in DOMAIN future => future[p] = "done"

\* The worker thread takes the next consolidation.
Take ==
    /\ job = {} /\ workq # <<>>
    /\ job' = {Head(workq)} /\ workq' = Tail(workq)
    /\ UNCHANGED <<run, base, step, best, tpc, target, known, gateVars, future, disk, saved, faults>>

Finish(p, result) ==
    /\ future' = [future EXCEPT ![p] = result]
    /\ job' = {} /\ UNCHANGED workq

ManifestFirst == "partial"      \* fault: the manifest goes before the adapter is there

\* What os.replace(tmp, target) leaves.
Replaced == "both"

\* consolidate up to os.replace, or an error on the way (the shards are kept).
Assemble(p) ==
    /\ job = {p} /\ disk[p] \in {"shards", "partial", "absent"}
    /\ \/ /\ disk[p] = "shards"
          /\ disk' = [disk EXCEPT ![p] = Replaced]
          /\ NoFault /\ UNCHANGED queueVars
       \/ /\ IF disk[p] = "shards" THEN Fault ELSE NoFault
          /\ Finish(p, "failed") /\ UNCHANGED disk
    /\ UNCHANGED <<run, base, step, best, tpc, target, known, gateVars, saved>>

\* The manifest is unlinked and the shards removed; the unlink may raise.
DropShards(p) ==
    /\ job = {p} /\ disk[p] = "both"
    /\ \/ disk' = [disk EXCEPT ![p] = "adapter"] /\ Finish(p, "done") /\ NoFault
       \/ Finish(p, "failed") /\ Fault /\ UNCHANGED disk
    /\ UNCHANGED <<run, base, step, best, tpc, target, known, gateVars, saved>>

-----------------------------------------------------------------------------
(* The held back on_save events and rotations.                             *)

OnDisk == {s \in Checkpoints : disk[s] # "absent"}

\* rotate_checkpoints_excluding: what goes.
Victims(excluded, b) ==
    LET c == OnDisk \ excluded
        protected == {Max(c)} \cup ({b} \ {0})
        keep == Max({SaveTotalLimit, Cardinality(protected)})
        rest == c \ protected
    IN  IF SaveTotalLimit = 0 \/ Cardinality(c) <= SaveTotalLimit THEN {}
        ELSE {s \in rest : Cardinality({t \in rest : t < s}) < Cardinality(c) - keep}

\* The held back events that may go out, given what is still unconsolidated: those
\* before the first one that may not.
Releasable(still) ==
    Max({k \in 0 .. Len(deferred) : \A i \in 1 .. k : deferred[i] \notin still})

PublishAll(k, bad) == SubSeq(deferred, 1, k)        \* fault: failed ones go out too

\* on_save runs for these, in save order; failed consolidations are skipped.
ToPublish(k, bad) == [i \in 1 .. k |-> IF deferred[i] \in bad THEN 0 ELSE deferred[i]]

CountAll(still, bad) == {}      \* fault: incomplete checkpoints count and may go

\* unconsolidated | failed
Excluded(still, bad) == still \cup bad

Lingers(still) == rotation                  \* fault: a rotation done is still owed

\* The deferred rotation is over once nothing is unconsolidated.
StillOwed(still) == IF still = {} THEN {} ELSE rotation

\* _release_consolidated when the broadcast status reports the paths F as finished.
Release(F) ==
    LET still == unconsolidated \ F
        bad == failed \cup {p \in F : ~Succeeded(p)}
        k == Releasable(still)
        rotates == rotation # {} /\ F # {}
        gone == IF rotates THEN Victims(Excluded(still, bad), Max(rotation)) ELSE {}
    IN  /\ unconsolidated' = still /\ failed' = bad
        /\ published' = published \o ToPublish(k, bad)
        /\ deferred' = SubSeq(deferred, k + 1, Len(deferred))
        /\ rotation' = IF rotates THEN StillOwed(still) ELSE rotation
        /\ disk' = [p \in Paths |-> IF p \in gone THEN "absent" ELSE disk[p]]
        /\ saved' = saved \ gone

FinishedNow == {p \in unconsolidated : Settled(p)}

\* on_step_end: global_step has grown, and the poll begins.
StepEnds ==
    /\ tpc = "train" /\ step < MaxStep
    /\ step' = step + 1 /\ tpc' = "polling" /\ known' = FinishedNow
    /\ UNCHANGED <<run, base, best, target, gateVars, queueVars, disk, saved, faults>>

\* The poll reads one status after the other while the worker goes on, so it sees
\* what had finished when it began and perhaps more.  Then the trainer may save.
Poll ==
    /\ tpc = "polling"
    /\ \E F \in SUBSET FinishedNow : known \subseteq F /\ Release(F)
    /\ \/ tpc' = "train" /\ UNCHANGED best
       \/ tpc' = "capacity" /\ best' \in {best, step}
    /\ known' = {}
    /\ UNCHANGED <<run, base, step, target, queueVars, faults>>

-----------------------------------------------------------------------------
(* Saving: a checkpoint, or the final adapter into output_dir.             *)

\* _probe makes the shard directory anew; a checkpoint waits for capacity first,
\* the final save for every consolidation.
WriteShards ==
    /\ \/ tpc = "capacity" /\ HasCapacity /\ target' = step
       \/ tpc = "ended" /\ Outstanding = {} /\ target' = 0
    /\ disk' = [disk EXCEPT ![target'] = "partial"] /\ tpc' = "manifest"
    /\ UNCHANGED <<run, base, step, best, known, gateVars, queueVars, saved, faults>>

\* The shards of all ranks are written and the manifest names them, or some rank
\* failed, and the shards go and every rank raises.
WriteManifest ==
    /\ tpc = "manifest"
    /\ \/ disk' = [disk EXCEPT ![target] = "shards"] /\ tpc' = "submit" /\ NoFault
       \/ disk' = [disk EXCEPT ![target] = "absent"] /\ tpc' = "raised" /\ Fault
    /\ UNCHANGED <<run, base, step, best, target, known, gateVars, queueVars, saved>>

\* The export is moved into place, the consolidation queued and the checkpoint
\* marked as unconsolidated; or rank 0 failed and every rank raises.
Submit ==
    /\ tpc = "submit"
    /\ \/ /\ future' = [p \in DOMAIN future \cup {target} |->
                          IF p = target THEN "pending" ELSE future[p]]
          /\ workq' = Append(workq, target)
          /\ tpc' = (IF target = 0 THEN "result" ELSE "rest") /\ NoFault
          /\ unconsolidated' = IF target = 0 THEN unconsolidated
                               ELSE unconsolidated \cup {target}
       \/ tpc' = "raised" /\ Fault /\ UNCHANGED <<future, workq, unconsolidated>>
    /\ UNCHANGED <<run, base, step, best, target, known, failed, deferred, rotation,
                   published, job, disk, saved>>

PilesUp == rotation \cup {best}      \* fault: an earlier rotation is not replaced

\* The one slot for a deferred rotation holds the arguments of the newest save.
DeferredRotation == {best}

\* The rest of the checkpoint; then the gated rotation and the gated on_save, which
\* find this checkpoint unconsolidated.
FinishSave ==
    /\ tpc = "rest" /\ tpc' = "train"
    /\ saved' = saved \cup {step}
    /\ rotation' = DeferredRotation
    /\ deferred' = Append(deferred, step)
    /\ UNCHANGED <<run, base, step, best, target, known, unconsolidated, failed, published,
                   queueVars, disk, faults>>

\* on_train_end waits for every consolidation and releases what is held back.
TrainEnd ==
    /\ tpc = "train" /\ tpc' = "ended"
    /\ unconsolidated # {} \/ deferred # <<>> => Outstanding = {}
    /\ Release(FinishedNow)
    /\ UNCHANGED <<run, base, step, best, target, known, queueVars, faults>>

NoResult == TRUE        \* fault: the final save does not wait for its consolidation

FinalSettled == Settled(0)

\* future.result() of the final save.
FinalResult ==
    /\ tpc = "result" /\ FinalSettled
    /\ tpc' = IF future[0] = "failed" THEN "raised" ELSE "done"
    /\ UNCHANGED <<run, base, step, best, target, known, gateVars, queueVars, disk, saved,
                   faults>>

-----------------------------------------------------------------------------
(* The job is killed, or has raised, and is started again.                 *)

\* Nothing in memory survives.  Of the checkpoints, those whose save was interrupted
\* are removed by hand, for they cannot be loaded; the newest other one is resumed.
Restart ==
    /\ run < MaxRuns /\ tpc # "done"
    /\ run' = run + 1 /\ tpc' = "load"
    /\ base' = Max(saved \cup {0}) /\ step' = base'
    /\ best' \in IF best <= base' THEN {best} ELSE 0 .. base'
    /\ target' = 0 /\ known' = {}
    /\ unconsolidated' = {} /\ failed' = {} /\ deferred' = <<>> /\ rotation' = {}
    /\ published' = <<>>
    /\ future' = [p \in {} |-> "pending"] /\ workq' = <<>> /\ job' = {}
    /\ disk' = [p \in Paths |-> IF p \in saved \cup {0} THEN disk[p] ELSE "absent"]
    /\ UNCHANGED <<saved, faults>>

\* _load_from_checkpoint: complete_interrupted_consolidation first; when it raises,
\* so does the load.
Load ==
    /\ tpc = "load"
    /\ \/ /\ base # 0 /\ disk[base] = "shards" /\ NoFault
          /\ disk' = [disk EXCEPT ![base] = Replaced] /\ UNCHANGED tpc
       \/ /\ base # 0 /\ disk[base] = "both" /\ NoFault
          /\ disk' = [disk EXCEPT ![base] = "adapter"] /\ UNCHANGED tpc
       \/ /\ base # 0 /\ disk[base] \in {"shards", "both"} /\ Fault
          /\ tpc' = "raised" /\ UNCHANGED disk
       \/ /\ base = 0 \/ disk[base] = "adapter"
          /\ tpc' = "train" /\ NoFault /\ UNCHANGED disk
    /\ UNCHANGED <<run, base, step, best, target, known, gateVars, queueVars, saved>>

-----------------------------------------------------------------------------
Trainer ==
    \/ StepEnds \/ Poll \/ WriteShards \/ WriteManifest \/ Submit \/ FinishSave
    \/ TrainEnd \/ FinalResult \/ Load

Worker == Take \/ \E p \in Paths : Assemble(p) \/ DropShards(p)

\* A trainer that is done or has raised does nothing more.
Stopped == tpc \in {"done", "raised"} /\ UNCHANGED vars

Next == Trainer \/ Worker \/ Restart \/ Stopped

Spec == Init /\ [][Next]_vars

\* Training goes on to its end and the worker thread runs.
FairSpec == Spec /\ WF_vars(Trainer) /\ WF_vars(Worker)

-----------------------------------------------------------------------------
(* Properties.                                                             *)

Complete == {s \in saved : disk[s] = "adapter"}

\* The on_save callbacks run in save order, and for a checkpoint only when its
\* consolidated adapter is there and nothing has deleted it yet.
OnSaveSeesComplete ==
    [][\A k \in Len(published) + 1 .. Len(published') :
           published'[k] # 0 =>
               /\ published'[k] \in Complete
               /\ \A j \in 1 .. k - 1 : published'[j] < published'[k]]_vars

\* A checkpoint whose on_save is still held back is not deleted ("rotation may delete
\* a checkpoint whose on_save is still held back").  It takes the limit of two
\* outstanding consolidations to make that true.
HeldBackIsOnDisk == \A k \in DOMAIN deferred : deferred[k] \in saved

\* Rotation never deletes a checkpoint of this run that has shards to consolidate.
UnfinishedIsSpared ==
    [][\A s \in saved : s > base /\ disk[s] # "adapter" => s \in saved']_vars

\* There is always a complete checkpoint at least as new as the newest there ever
\* was: one still in shards does not push it out.
NewestCompleteSurvives ==
    [][Max(Complete' \cup {0}) >= Max(Complete \cup {0})]_vars

\* Whenever the run stops, every checkpoint it had saved has its adapter, or the
\* shards and the manifest to make it from ("resuming from one consolidates it").
Recoverable == \A s \in saved : disk[s] \in {"shards", "both", "adapter"}

\* When training has ended nothing is held back or owed, every checkpoint of the run
\* was published or is known to have failed, and rotation has been done.
TrainEndSettles ==
    tpc \in {"ended", "done"} =>
        /\ unconsolidated = {} /\ deferred = <<>> /\ rotation = {}
        /\ \A s \in saved : s > base => s \in failed \/ \E k \in DOMAIN published : published[k] = s
        /\ SaveTotalLimit # 0 /\ (\E s \in saved : s > base) =>
             LET c == OnDisk \ failed IN
             Cardinality(c) <= Max({SaveTotalLimit, Cardinality(({Max(c \cup {0}), best}) \ {0})})

\* The final save "returns only once adapter_model.safetensors is in place".
FinalIsInPlace == tpc = "done" => disk[0] = "adapter"

\* Training and the final save end, with or without an error: no save waits for ever
\* for capacity, and on_train_end not for a consolidation that failed.
RunEnds == <>(tpc \in {"done", "raised"})
=============================================================================
