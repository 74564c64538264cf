# Axolotl's background work in TLA+

This directory holds TLA+ models of the parts of Axolotl whose correctness is a matter of order,
concurrency and failure, the TLC configurations that check them on small instances, and proofs that
TLAPS checks for every instance. Paths below are relative to `src/src/axolotl/`.

Axolotl is a training program: most of its code validates a configuration, turns text into tensors or
patches models, in one thread and without protocol. What it adds in the way of a *system* is what
happens around training: checkpoints are saved while training goes on, copied and consolidated by
background threads, rotated by two programs that both believe they own the directory, and picked up
again after a crash; datasets are prepared by several processes under one lock; and reinforcement
learning generates its next rollout on a server, in the background, while weights change.

## Inventory

| Part | State | Operations | What is hard |
|---|---|---|---|
| Publisher, `core/checkpoint_publisher.py` | deque of futures, `closed`, an executor with one thread, private directories on disk | `submit`, `check`, `wait`, `close`; `_publish` in the thread | failures must stop all that follows; three places clean up; a bounded queue; shutdown with and without cancellation |
| Mirror, `core/checkpoint_mirror.py` | per node: a publisher, `failed`, `best_checkpoint`, local disk; shared: staging directories with shares, markers and a lock, `checkpoint-N` directories | `submit`, `_upload`, `_settle` (`_finalize`, `_trim`, `_drop_dead_staging`), `drain`, `finish`, `resume_checkpoint`, `clear_other_attempts` | several nodes act on one directory with nothing but rename and exclusive create; any operation may fail; any run may be killed |
| Sharded save, `core/trainers/mixins/sharded_adapter_save.py` | the sets of unconsolidated and failed checkpoints, deferred `on_save` events and one deferred rotation | the gate around `on_save`, `on_step_end`, `on_train_end`; the gated rotation; checkpoint and final save; load | events and deletions held back for a background thread must come out in order and exactly once |
| Shards and consolidation, `monkeypatch/accelerate/fsdp2_sharded_adapter.py` | shard directory, manifest, adapter file; `ConsolidationQueue.futures` | `write_adapter_shards`, `consolidate`, `submit`, `status`, `wait`, `wait_for_capacity`, `complete_interrupted_consolidation` | crash between any two file operations; the capacity limit |
| Dataset lock, `utils/data/lock.py` | lock file, counter file, ready flag, the prepared dataset | `load`, `cleanup` | files outlive processes |
| Disk error retry, `core/checkpoint_retry.py` | thread-local policy and depth, patched writers | `_retry`, `retry_disk_writes` | nested and collective writers: who may repeat what without the other ranks |
| On-demand checkpoints, `core/trainers/mixins/checkpoints.py`, `utils/callbacks/dynamic_checkpoint.py` | trigger file | callback on each step | rank 0 sees the file, all ranks must act |
| Asynchronous GRPO, `core/trainers/grpo/` | queue of futures, generation lock, last synced step of each rank, step mark of the background thread, replay buffer | `produce`, `_submit_generation`, `_generate_single_turn`, `_maybe_sync_vllm_weights` and its three syncs, `_broadcast_from_rank0` | one thread asks the server while another changes what it serves; collectives that only some ranks reach; how old a rollout is |
| Reward workers, `core/trainers/grpo/fast_async_trainer.py` | processes with a pipe each, the ones used for the batch | `_launch_reward_workers`, `_collect_reward_workers`, `_persistent_reward_worker` | one answer for one task on every pipe, after an exception too |
| vLLM adapter publication, `utils/vllm_lora_sync.py` | versions, alias; the server's adapters, pause | `publish_lora_adapter` | requests in flight while names are re-pointed; any request may fail |
| Activation offload to disk, `monkeypatch/gradient_checkpointing/offload_disk.py` | - | - | none: validation rejects the setting |
| Tokenizing work queue, `utils/data/work_queue.py` | futures in flight, buffered rows, temporary and cache file | `_iter_results`, `_tokenize_chunk`, `tokenize_with_work_queue` | results out of order, dying processes, a cache that outlives a failed preparation |
| Multipack, `utils/samplers/multipack.py` | bins | first-fit packing | bounds, coverage |

Checkpoints pass through one chain. The trainer saves `checkpoint-N`; with sharded adapters the save writes
shards and the queue consolidates them later; the gate holds `on_save` back until then; the mirror's
`on_save` retains the checkpoint and hands it to its publisher; the publisher's thread copies it and
publishes it; `train.py:768-789` drains, saves the final model, and finishes. Each save runs in the scope
of the disk error retry.

Preparation is another: each process loads under the file lock, the first of them tokenizes with the
work queue and saves, the others load. The third is the GRPO loop: a rank that runs out of
micro-batches sends weights if they are due, pops a rollout, submits the next, scores it (with the
reward workers) and trains, while the background thread talks to the server.

The remaining parts (schemas, prompt strategies, loaders, kernels, launchers, telemetry, logging) are
listed in `PROJECT.json` as not modelled, with the reason. In short: they are sequential conversions
with no state a property could relate.

## Modules

### OrderedPublisher, CheckpointPublisher, CheckpointPublisher_proofs

`OrderedPublisher` is the promise: submissions end published or dropped, and one is published only
after all earlier ones.

`CheckpointPublisher` is the code, with one process for the training thread (`ppc`) and one for the
executor's thread (`wpc`). A call of the producer is split where another thread can see the
difference: `submit` is `Submit` (check, test of the limit), `WaitForRoom` (the wait for the oldest
future, then check and test again), `Retain`, `Enqueue`; `wait` is `Wait`, `WaitReturns`; `close` is
`Close`, `CancelOne` for each cancelled item, `CancelEnds`, `Join`. `_publish` is `Take`, `Chain`
(`previous.result()`), `Publish`, `Remove` (the `finally`). The deque of futures is an interval,
because `check` only pops on the left and `submit` only appends. `Faults` names the external calls
that may raise: retaining, enqueueing, publishing, removing. External and modelled from its use: the
`ThreadPoolExecutor`, which takes work first-in first-out and on shutdown finishes or cancels it.

Not modelled: files and links inside a private directory (`retain_checkpoint` either yields one or
raises and leaves none), and an error of the `rmtree` that follows a failed `executor.submit`.

### CheckpointMirror, SetExtrema, CheckpointMirror_proofs, CheckpointMirrorFinish_proofs

The shared directory is two functions: `final` from steps to the shares in `checkpoint-N`, `staging`
from `<<attempt, step>>` to the shares, markers and lock of a staging directory. A share records the
run and the node that copied it, so that a mixture of two runs can be told from a whole checkpoint.
Each node is one agent (`pc[n]`): its background thread copies (`CopyStart`, `CopyDone`, `Mark`) and
then settles (`List`, `Look`, `Lock`, `SetAside`, `Publish`, `PublishFails`, `TrimMirror`, `TrimEnds`,
`DropDead`, `DropEnds`), one action for each operation on the shared directory that another node
could interleave with. Deleting a directory takes two actions: first its contents go, then itself,
with what was added meanwhile. `drain` settles with the same actions in the training thread, which is
sound because it does so when the queue is empty. The training threads (`phase[n]`) take the
scheduled saves together, for `on_save` begins with a barrier, then each node submits on its own.

`Restart` kills the job anywhere: memory goes, the shared disk stays, the local disks stay or go with
the pods, `clear_other_attempts` keeps only staging of the new run, and the run continues from
`resume_checkpoint`. A fault is one operation that fails; `MaxFaults` bounds them. A submission, a copy or a
rename fails and is retried. The bookkeeping of `_settle` is not: a listing that fails, or a lock that cannot
be made on a directory that is there, ends it (`SettleFails`), and `rmtree(ignore_errors=True)` may leave one
of the checkpoints it trims (`TrimFails`) or of the dead directories (`DropFails`). The history variable
`neglected` says that this happened in the run. The two recovery operations in the `except OSError` branch and
the removals of `clear_other_attempts`, `rotate_local` and of a replaced checkpoint are assumed to succeed.

The publisher inside is abstracted to `queue[n]`, the steps accepted and not finished, which is what
`CheckpointPublisher` shows of it (`PublishedInOrder`, `RetainedBounded`); `_upload` catches its
exceptions, so a copy that fails does not stop the chain.

Not modelled: `detect_layout`, which runs once and before everything; the copy of final outputs, to
names that are never `checkpoint-N`; the polling of `merge_source_checkpoint`; clocks.

### ShardedAdapterSave, SetExtrema, ShardedAdapterSave_proofs

All ranks are one trainer: each decision is taken on a value that rank 0 broadcasts or that all ranks
gather, so they cannot part. `tpc` is its place in a step, a save or a load; `job` is what the
consolidation thread runs. `disk[p]` is what of the adapter is in checkpoint `p`: shards without a
manifest, with it, the consolidated file beside them, or the file alone; `consolidate` is two actions
(`Assemble` up to `os.replace`; `DropShards`), so a kill may fall between them. `Release` is
`_release_consolidated` whole: status, failed set, deferred events in order, deferred rotation. A poll
is two actions (`StepEnds`, `Poll`) because statuses are read one by one while the thread works: the
poll sees all that had finished when it began and any part of what finished since. `published` is a
history: the checkpoints whose `on_save` was released in this run, in order, with 0 where the event of
a failed one was skipped.

`Restart` removes half-written checkpoints by hand (transformers cannot load them) and resumes the
newest one; `Load` is `complete_interrupted_consolidation`. A rotation's deletions are one step. The
order in which transformers sorts checkpoints is taken to be that of their steps.

Not modelled: tensor slicing and file headers; the fallback to a gather on rank 0 when
`write_adapter_shards` returns `None`; the save that precedes a push to the hub.

### FileLockLoader, WorkQueue, DatasetPreparation, DatasetPreparation_proofs

The processes of a run enter `load` under the lock, count themselves, run `load_fn`, touch the flag
and leave through `cleanup`. `load_fn` is `load_preprocessed_dataset` followed, when that finds
nothing, by preparation and `save_preprocessed_dataset`, in two steps so that a kill may leave a
directory with part of the shards. `Restart` kills all processes; files stay, and the next run may use
another dataset directory. Lines 42-43 of `lock.py`, the wait for the flag, cannot be reached: the flag
is only removed under the lock that the caller holds. Not modelled: `skip_prepare_dataset` and
`is_preprocess`, under which `load_fn` never looks for a prepared dataset.

`WorkQueue` is `tokenize_with_work_queue`: `Begin` takes the cache file or makes a temporary one and submits the
first chunks; `TakeChunk`, `Tokenized` and `TokenizingFails` are the pool's processes, which finish in any
order, raise, or die and take the pool with them; `Collect` pops the oldest future, submits the next chunk, and
writes a batch when enough rows are buffered; `Finalize` and `Cache` end in `os.replace`. `FileFails` is the
disk: while rows are written the `except` clause removes the temporary file (taken to succeed), while
`os.replace` is outside the `try`, and leaves it when it fails. A chunk stands for its rows, and a chunk outside
`Kept` tokenizes to none. Not modelled: the variant in memory, the `ValueError` for no rows at all or for
differing columns, and the arithmetic of `_chunk_bounds`.

`DatasetPreparation` composes the two: the process that holds the lock and is in `load_fn` takes the
queue's steps; what the queue raises leaves `load_fn` and releases the lock; saving begins when
the queue's dataset is ready, and other errors may come before or after tokenizing. A kill empties the queue's memory
and leaves its cache file, so a preparation that failed later finds its tokenized rows again. Its
`PreparationSpec` is the only specification over these actions.

### CheckpointRetry, CheckpointRetry_proofs

Each rank saves `Writes[r]`, a sequence of rank-local, nested and collective writes. `scopes[r]` counts
the scopes that `with_checkpoint_write_retry` and the mixin open around one save; `frames[r]` holds the
attempts of the `_retry` calls on the stack that are allowed to repeat: one, since the others see
`_local.retrying` and pass through. `Failing` is the `except` clause: repeat the write or raise, and
leave the scopes. A collective write is a share per rank (`WriteShare`), an `Exchange` after which all
ranks raise the same `CheckpointException` or none, and `Finish`, where a rank may still raise on its
own; these are external and modelled from what `torch.distributed.checkpoint` is used for. Errors are
`disk` or `other`, which is all that `is_disk_error` tells apart. Not modelled: waiting times, and
`_patch_lock`, for only the training thread saves.

### AsyncRollouts, AsyncRollouts_proofs

A behaviour begins by choosing a configuration (`setup`): the producer's or the legacy path, LoRA
adapters, merged weights without merging (`no_merge`) or TRL's own sync (`stock`), the prefetch depth,
the interval of syncs, the micro-batches a rollout lasts, and whether the process is alone. The main
thread of each rank is at `pc[r]`; the background thread of the main rank at `wpc`.

Main threads: `Prepare` is `_maybe_sync_vllm_weights` up to the choice of the sync. LoRA: `Gather` (all
ranks; the main one saves the adapter, which may fail), then on the main rank `Pause`, `Load`, `Resume`,
`Retire`, one action for each request of `publish_lora_adapter`, then `Barrier`, after which a kept error is
raised. An exception that is not kept, of the save or of a request without an answer, is `Escape`.
`Resume` is the `finally` clause: it does not look at the status, so a rejected `/resume` leaves
`resume = "rejected"` and the server paused. The others: `Settle` waits for
the lock or for the queued futures, `SyncWeights` sends. Then `FirstRollout`, or `Pop` (`PopNone` on other
ranks) and `Broadcast`, and `Train`, a micro-batch at a time; the optimizer step is `micro \div
Accumulation`. Background thread: `Take` a job (a lone process marks the step, `Check` is TRL's comparison,
`SyncInBackground` what follows if it fails), `Ask` writes the model's name into the request, `Arrive`
looks it up at the server, `Admit` passes the pause, `Generate` ends it. The server is `loaded`,
`published`, `weights`, `paused`; it is external, modelled from what `vllm_lora_sync.py` relies on: `pause`
with `mode=wait` answers when nothing is generating, and requests that come later wait.

A fault is a request that the server rejects, any of the four, one that ends without an answer, an adapter that
cannot be saved, or a failed generation. Not modelled: `sync_warmup_rollouts` (never set), synchronous
generation, scoring, the replay and re-roll buffers, the alias for external clients, and exit: nothing calls
`AsyncDataProducer.shutdown`, so the interpreter waits there for the jobs still queued. The re-roll buffer would
have nothing to say anyway: no caller of `RerollDataProducer._pre_produce_hook` exists.

### RewardWorkers

The trainer launches a batch on the workers whose share is not empty and later collects: `Receive` from
one worker after the other, and after a `None` `Drain` from all but that one. `Answer` is a worker's
loop, with rewards or `None`; `Die` kills one, and `Pool` makes all anew at the next launch. The content
of rewards and the main thread's own computation after a failure are left out.

## Runs

All bounds are constants. Every property has a mutant in `PROJECT.json`: a change of one mapped
definition, of the kind a wrong edit would make, under which TLC refutes the property.

| Run | Instance | Shows |
|---|---|---|
| `publisher` | room for 2, 4 submissions, every external call may raise | order, no gaps, no orphan directories, the bound, honest `wait` and `close`, final failures, refinement of `OrderedPublisher`, all calls return |
| `mirror` | 2 nodes, 3 steps, an old checkpoint 1, keep 1, queue of 1, 1 fault | retention unless the bookkeeping failed, and a replacement never makes the mirror poorer |
| `mirror_crash` | 2 nodes, 2 steps, 2 runs, keep 1, 1 fault | across a kill: whole resumes, delivery in spite of the fault, the newest checkpoint survives, progress |
| `mirror_slow` | 2 nodes, 2 steps, no fault | **violation**, see below |
| `mirror_stale` | 2 nodes, steps 1 and 2 over a mirror that holds 3 | **violation** |
| `sharded` | limit 2, `save_total_limit` 1, 5 steps, 2 faults | order and completeness of `on_save`, rotation spares the unfinished, all is settled at the end, the end comes |
| `sharded_crash` | the same with 4 steps, 2 runs | recoverability, a complete checkpoint always remains |
| `lock` | 3 processes, 2 runs, 2 faults; 5 chunks, one without rows, 2 pool processes, 3 chunks in flight, batches of 2 | no half-read dataset, prepared once, the cache whole and in order, cleaned up unless there was a kill, everybody leaves |
| `retry` | 2 ranks, 3 and 2 writes one of which is collective, 2 saves, 2 retries, 6 errors | attempts within the policy, one collective at a time |
| `rollouts` | all 144 configurations with depth and interval 1 or 2 and rollouts of 1 to 3 micro-batches, 2 to an optimizer step, 6 steps, 1 fault, alone or 2 ranks | fresh rollouts, no in-place merge during generation, adapters stay loaded, a rejected adapter leaves no rank in the barrier, training ends unless a `/resume` was rejected |
| `rollouts_lone` | 1 process, depth 1, 4 steps, no fault | **violation** |
| `rewards_drain` | 3 workers, up to 5 groups, 2 batches, 1 fault | **violation** |

Why these bounds: with room for 2 and 4 submissions a limit is reached, freed and reached again, and
a chain of three predecessors can be cut at each link. Two nodes are enough for every race of the
mirror, which are between one publisher and one other node; three steps let a rotation, a skipped
save and a retry meet. The local disk limit and queue are 1 so that a queue is full while another
save comes. Five steps let two consolidations be outstanding, a third save wait, and the rotation of
the first be deferred twice. Three processes let one leave, one work and one arrive. Five chunks with
three in flight let the queue refill while two processes finish in the wrong order, and a chunk
without rows shift the batches. Six errors exhaust the two retries of a write and of the collective one
in a single save. Six optimizer steps publish up to five adapters, so that versions are retired three
times; rollouts of 3 micro-batches against steps of 2 make rollouts end in the middle of a step. Two
ranks show every way a rank can be left in a collective. `rollouts` does not check deadlock: training
stops.

Fairness. Weak fairness of worker threads and of the steps inside a call: the interpreter runs a
runnable thread, and copies, renames and consolidations return. Of the training thread while its
guards allow: training goes on to its end. None for kills, faults or new calls. Of the reward workers that live:
`rewards_drain` fails although all of them run. Weak is enough because
nothing that is enabled is disabled by another process before it is taken; for the file lock, because
the model has as many acquisitions as processes.

### What the violations say

* `mirror_slow`. After taking the finalize lock, `_finalize` renames without looking again. If the node
  is slow there while another publishes a newer checkpoint, that node's `_drop_dead_staging` deletes
  files in the directory that is about to be renamed, and a partial `checkpoint-N` appears, contrary to
  the module's docstring. It takes no failure. A resume is still safe (`ResumeIsWhole`): the partial
  checkpoint is never the newest.
* `mirror_stale`. A run that starts below the newest step in the mirror (with `resume: false`, or from
  an explicit checkpoint) has what it stages dropped as dead by the first node that settles, since the newest
  complete checkpoint belongs to the earlier run. Training succeeds and its last checkpoint is not in the
  mirror. (A single node publishes before it drops; rotation then removes the older step if `keep` is 1.)
* `rollouts_lone`. The background thread of a single process goes through TRL's `_generate_single_turn`,
  which sends weights unless the step it compares is the one last loaded. `async_trainer.py:1404` sets
  that mark to the current step, once; if the main thread finishes an optimizer step before the
  comparison, the background thread sends weights itself, which `:1396` and `:1411` say it must not. LoRA
  setups are safe, the hook does nothing there (`:1433`); several ranks too, as they bypass TRL.
* `rewards_drain`. When a worker other than the first answers `None`, draining receives once more from
  those that were already received; they have nothing to send and live on, so training hangs where it
  was to fall back to the main thread.

Two limits are written into properties of passing runs, because the code has them. `BarrierIsMet`: only a
`RuntimeError` is kept for after the barrier, so a `save_pretrained` that fails on the main rank
(`async_trainer.py:1244`) or a request without an answer leaves the other ranks waiting in it. `TrainingEnds`:
`vllm_lora_sync.py:78` ignores the status of `/resume`; if the server rejects it nothing is raised, the
server stays paused, and the main thread waits for its rollout for ever.

Three more limits were found by changing an instance. `Delivered` fails with one node, two steps and two
runs: a restart may resume from a local checkpoint that was never mirrored, and the set of failed steps
is gone, so no drain mirrors it unless a later step is saved. `NamesLoaded` fails without its premise
of depth one: a request that names a version and does not arrive before two more are published finds it
gone, when the second publication is not kept back by the request's own future. And rollouts are
synced only at steps where one is due, so `Fresh` speaks of those steps: with rollouts every third
step and `vllm_sync_interval: 2` weights are sent every sixth.

`HeldBackIsOnDisk` deserves a word: it holds because at most two consolidations are outstanding. With
`Limit = 3` TLC refutes it: rotation then deletes a checkpoint whose `on_save` is still held back, as
the comment at `sharded_adapter_save.py:325` fears.

## Proofs

Six components have a module of proofs; what it proves holds for every value of the constants, where TLC's
runs check one. Every safety property their passing runs check is proved, two of the mirror (`Delivered` and
`MirrorBounded`) under a hypothesis on faults:

| Module | Theorems |
|---|---|
| `CheckpointPublisher_proofs` | `TypeCorrect`, `Ordered`, `NoOrphans`, `Bounded`, `CloseSettles`, `Final`, `WaitHonest`, and `Refinement` of `OrderedPublisher` |
| `CheckpointMirror_proofs` | `TypeCorrect`; with `Continues` also `ResumesAreWhole` and `NewestStays`; with `Continues` or a single run, `MirrorIsNeverPoorer` |
| `CheckpointMirrorFinish_proofs` | with no fault in `finish`: `FinishDelivers`, `QuietDelivers`, `FinishBounds`; with one node, `SingleNodeBounds`; with no faults, `FaultlessFinish`: each where the bookkeeping did not fail (`~neglected`) |
| `ShardedAdapterSave_proofs` | `TypeCorrect`, `AlwaysRecoverable`, `FinalAdapterIsThere`, `NothingIsOwed`, `ShardsAreSpared`, `NewestSurvives`; with `Limit <= 2` also `HeldBackStays` and `OnSaveIsInOrder` |
| `DatasetPreparation_proofs` | `TypeCorrect`, `RaisesNeedFaults`, `PreparationsAreBounded`, `TheLastCleans`, `CacheIsWhole` |
| `CheckpointRetry_proofs` | `TypeCorrect`, `TriesAreBounded`, `CollectivesMatch` |
| `AsyncRollouts_proofs` | `TypeCorrect`, `MergeExcludesGeneration`, `BarrierMet`, `NamesStayLoaded`, `RolloutsAreFresh` |

The assumptions are the named `ASSUME`s of the modules, which type the constants, and the hypotheses of
theorems. `Limit <= 2`: the only queue of the program is `CONSOLIDATIONS = ConsolidationQueue()`, whose
`limit` defaults to 2. `Continues`: the first run starts at the newest checkpoint of the mirror or later, as
`determine_last_checkpoint` arranges with `auto_resume_from_checkpoints`, unless `resume: false` or an explicit
checkpoint says otherwise (`utils/train.py:44-55`); `Restart` models how later runs start.
None of the properties is inductive by itself. Each module defines its strengthening `IInv` as a conjunction
of named parts, which TLC checked on small instances first, and has one lemma for each action (or group
of actions) that preserves it.

**Publisher.** `IInv` ties the two threads together: the work queue lists exactly the pending
submissions, in increasing order and without gaps up to the last; the submission the thread holds is the
only one running; the predecessor of a submission is the one before it, or none when all earlier ones were
popped as done; and so the published ones are a prefix. Order then follows: `Chain` passes only when the
predecessor was published, and a popped predecessor was. `FailInv` adds that a reported failure sits at the
head of the deque, so that every later check raises again (`Final`, `WaitHonest`). `Bounded` counts: every
private directory belongs to an unfinished submission in the deque or to the one being enqueued; its
proof carries that invariant from the test of the limit to the enqueueing. `CloseInv` ties `closed` and
the thread's exit to an empty work queue. `Refinement` maps each step to `Accept`, `Publish`, `Drop` or a
stutter of `OrderedPublisher`, through lemmas on the abstract outcome of one submission.

**Mirror.** Two invariants. `IInv` holds of every run. It ties an agent's place to its queue and list
(`AgentInv`), keeps the queue in the order of the steps (`QueueInv`) and staging to the current run
(`ScopeInv`), and says what rotation is about to remove is older than something it leaves (`TrimInv`); `Held`, the
mirror with what is set aside for a moment, is what no step of a run makes poorer.

`CInv` holds when the job continues from the mirror. At its centre is `Owes(n, s)`: node n may still copy its
share of s, because s is not saved yet, is queued, is being copied, or failed and may be retried. Saves, skipped
submissions, copies and retries only ever shrink it (`OwesShrinks`); that the retry of `drain` does is where
`failed` matters. `DoneInv`: nobody owes what is in the mirror and none of it is staged, so nothing is ever
replaced. `MarkInv`: a marker means its node owes nothing, and its share is in the directory unless the directory is
dead, that is, older than the newest complete checkpoint. `CopyInv` carries that through the copy, whose directory may
be removed under it only when dead. `PlaceInv` keeps what `Look` saw true until `Publish`, however slow the
node is in between; `DeadInv` says that what is being deleted stays dead, since the newest never gets older. So a
directory that is renamed either has everything or is older than what is there already: the partial
checkpoint of `mirror_slow` exists and is harmless. With only one node that has its disks, a run may resume later than the
mirror; the proof covers it, as it needs no more than that it does not resume earlier.

`Continues` is needed. When a first run starts below the newest step of the mirror it may save that step
again; TLC then finds a partial newest checkpoint (two nodes, steps 1 and 2 over a mirror that holds 2), a newest
checkpoint set aside, and one lost to a kill between the two renames (`NeverPoorer` with two runs).

**Mirror, at the end of a run.** `Delivered` and `MirrorBounded` are about what the last `_settle`s leave, and a
`_settle` may end early: when the directory it is about to lock is gone, removed as dead by another node (the lock's
directory is missing at `checkpoint_mirror.py:293`, which line 281 catches). What it had still to publish and to trim
is then somebody else's. The proof has to say whose. `DInv` holds of every job that continues from the mirror.
`PendingInv`: what is still to be marked is newer than what the node marked and than the mirror, so no marker is put
in a dead directory. `FullInv` and `LockInv`: what is locked has every marker, and a lock has an owner who is about to
rename (`InHand`). `ListInv`: the list of a settling node has all the later directories it marked. `SweepInv`: a dead
directory with every marker has somebody who will remove it. `VictimInv`: what rotation emptied never comes back.
`PhaseInv`, `DiskInv` and `SeenInv` say how far the training threads are, that only the newest save is retried, and
that each node knows the best checkpoint by then.

In `finish` everybody starts with nothing half done (`FinishStarts`: nobody sweeps, so by `SweepInv` nothing dead
is left). From there, while no rename or copy fails, `PassedInv` holds: a directory with every marker that is
dead, or that a settling node has passed over, is in somebody's hand. So when a node ends early, the one that
holds the directory it waited for goes on (`GoesOn`), with a list that by `ListInv` has every later directory.
That carries `LastInv` (whoever owes the last save retries it, and once it has every marker somebody will publish
it) and `RoomInv` (while the mirror is too large somebody will rotate it; that rotation makes room is
`LowestGo`) to the end of the run. `AccountInv`, that every node owes the last save or has marked it until it is in
the mirror, then gives `FinishDelivers`.

Four hypotheses. *Bookkeeping:* nothing is claimed of a run in which `_settle` itself failed (`neglected`):
nobody retries a listing, a lock that could not be made or a removal that left something behind, and one such
failure in the last `_settle` leaves the mirror too large, on one node as well. `MirrorBounded` has it as a
premise, the two theorems on delivery in their conclusions. *Faults:* `QuietFinish`, no submission, copy or
rename fails in `finish`; before it any number may, `finish` being the retry. Something of the kind is needed.
Let renames fail until three directories with every marker are left for `finish`, on two nodes: one node locks
the first; the other passes it, fails to rename the second, publishes the third, and drops the second as dead;
the first node publishes the first and ends early at the second. The mirror holds two checkpoints where `keep`
is 1; TLC finds this from that state with one fault. On a single node nobody else removes directories, and
`SingleNodeBounds` needs no `QuietFinish`. *Nodes:* `Delivered` asks for several nodes or a job that is not
killed; a single node may resume from a local checkpoint that was never mirrored (see above). *Start:*
`InitStep` is the newest step of the mirror, as with `auto_resume_from_checkpoints`; a run that started beyond
it and saved nothing would have nothing to deliver. `FaultlessFinish` keeps the hypotheses on nodes and start,
and needs no others: without faults nothing is neglected and `finish` is quiet. TLC checks the hypothesis is met
by runs that end: with `QuietFinish` a conjunct of the next-state relation every part of the invariant held,
where the bookkeeping did not fail, for two nodes, with two runs and a fault or with one run and two faults, and
for three nodes without faults.

**Sharded save.** Three views of a checkpoint have to agree: the queue's (`SubmitInv`, `QueueInv`: what is
outstanding is what is queued or running, in the order of the steps), the trainer's (`GateInv`: whatever is not
`unconsolidated` any more is known to have failed or is done; `EventInv`: every checkpoint of the run was
published, failed or is held back, in order), and the disk's (`DiskInv`; `DoneInv`: a consolidation that is done
left the adapter, unless rotation has deleted the checkpoint since). Rotation spares shards because what
counts is neither unconsolidated nor failed, hence done, hence complete. `NewestSurvives` needs
`NewestInv` beside it: the checkpoint the run resumed from, or a newer one, is complete, for what was
on disk before the run is not in the queue's books; the newest checkpoint that counts is protected, and is
complete or older than that one. `RotationInv` carries the bound on the number of checkpoints from one
rotation to the end of training; that the rotation establishes it is a fact about finite sets of
numbers (`SetExtrema`, `LowestGo`). `HeldBackStays` is where the limit of two enters: a checkpoint deleted while
held back, the first one held back, and the newest that counts would be three checkpoints that were
all unfinished when the poll began (`HeldInv`).

**Dataset.** The lock's holder is the one process inside (`LockInv`). The counter file is the number of
processes between `load` and `cleanup` as long as none left uncounted or was killed (`CountInv`), so when
all have left it is zero and the flag gone; `TheLastCleans` says nothing of runs after a kill. A partial
dataset is being written by somebody or something failed (`FaultInv`), so no load raises on its own. For the
cache: the deque is an interval of the chunks (`PendingInv`), and the rows written and buffered are,
in order, those of the chunks before it (`RowsInv`).

**Retry.** `AttemptInv`: one frame of `_retry` on the stack counts the attempts, however deep the writers
nest. `RoundInv`: ranks that raise nothing have passed the same number of exchanges, and one that repeats
a collective write does so together with all of them; `Passed` counts collectives by cardinality, so that the
ranks' sequences of writes may differ otherwise.

**Rollouts.** `RunningInv` excludes generation while the main thread merges, by the lock on one path and
by the empty queue on the other. `NamesInv`: with one rollout in advance at most one publication falls
between the writing of a name and the end of its request, and `ServerInv` says that the last two adapters are
loaded. `FreshInv` follows weights from the server (`Current`) into the running request (`Age`), the finished futures
and the rollout in training: each covers the syncs that were due for the rollouts up to `prefetch_depth` before its
own, where the number of a rollout is computed from the micro-batches done, and `DepthInv` fixes the number of
futures in each phase.

Model-checked only:

* liveness (`CallsReturn`, `ReachesMirror`, `RunEnds`, `AllLeave`, `TrainingEnds`): TLAPS here proves nothing about
  fairness;
* of the mirror, `MirrorBounded` with a fault in `finish` on several nodes, `Delivered` with one there, and both for
  a fresh run over an older mirror: the runs check them for two nodes and one fault. `Delivered` moreover is false of
  some instances, named above;
* what the four violations show, by their nature.

## Not modelled

Besides what the sections above name: `Layer offloading` (its order is the device's), disk offload of
activations (disabled by `utils/schemas/validation.py:2113`), on-demand checkpoints (one broadcast per
check, nothing kept between checks but the trigger file, and then an ordinary save), the multipack
sampler and the replay buffer (sequential algorithms on data), delta checkpoints, telemetry, and the
whole of validation, prompt strategies, loaders, kernels and launchers. They are by far the most of the
repository's lines; they convert data in one thread and have no state that a step of another part could
disturb.

## Plan

Everything planned of the models, and every safety property of the runs, is done. What could still be added:

1. `Delivered` with one fault in `finish`: the first `drain` was then quiet, and `PassedInv` would have to hold of
   training too, where nodes lag behind each other by several checkpoints.
2. The mirror over the publisher: `queue[n]` as a view of `CheckpointPublisher`'s deque.
3. Fresh runs over an older mirror, where checkpoints are replaced: an invariant like `CInv` that allows for it.
