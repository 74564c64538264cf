---------------------------- MODULE AsyncRollouts ----------------------------
(***************************************************************************)
(* Asynchronous GRPO (core/trainers/grpo/async_trainer.py and              *)
(* utils/vllm_lora_sync.py): while the ranks train on one rollout, the     *)
(* single background thread of the main rank asks a vLLM server for the    *)
(* next ones; between rollouts the main threads send the server the        *)
(* current weights.                                                        *)
(*                                                                         *)
(* There are two ways to prefetch (AsyncDataProducer, or the queue of the  *)
(* legacy path) and three to send weights (a LoRA adapter the server loads *)
(* under a new name, merged weights streamed by the main rank, and TRL's   *)
(* collective sync_weights). A behaviour picks one of each at the start.   *)
(* The optimizer step is counted in micro-batches, of which a rollout has  *)
(* setup.per and a step takes Accumulation.                                *)
(***************************************************************************)
EXTENDS Integers, Sequences, FiniteSets

CONSTANTS
    Main, Others,           \* the ranks: accelerator.is_main_process and the rest
    Setups,                 \* the configurations a behaviour may have
    Accumulation,           \* gradient_accumulation_steps
    LastStep,               \* max_steps
    MaxFaults               \* bound of the model

RolloutsAssumption ==
    /\ Main \notin Others /\ IsFiniteSet(Others)
    /\ Accumulation \in Nat \ {0} /\ LastStep \in Nat \ {0} /\ MaxFaults \in Nat
    /\ Setups \subseteq [path : {"producer", "legacy"}, sync : {"lora", "no_merge", "stock"},
                         depth : Nat \ {0}, interval : Nat \ {0}, per : Nat \ {0},
                         alone : BOOLEAN]
ASSUME RolloutsAssumption

VARIABLES
    setup,          \* this behaviour's configuration; alone: one process
    pc,             \* pc[r]: where the main thread of rank r is
    micro,          \* micro-batches trained on
    lastSynced,     \* _last_synced_step of each rank
    rollout,        \* the step whose weights generated the rollout in training
    futures,        \* prefetched rollouts of the main rank, oldest first
    error,          \* sync_error of the main rank
    wpc,            \* where the background thread is
    marked,         \* _last_loaded_step as the background thread sees it
    using,          \* what its request uses: an adapter's number, or weights
    model,          \* vllm_client.model: the number of an adapter, 0 the base model
    loaded,         \* server: the adapters it has
    published,      \* published[v]: the step adapter v was saved at
    weights,        \* server: the step of its merged weights
    paused,         \* server: new requests wait
    resume,         \* the /resume of the publication that paused it
    escaped,        \* an exception that is no RuntimeError ended a publication
    faults

mainVars == <<pc, micro, lastSynced, rollout, error>>
workerVars == <<wpc, marked, using>>
serverVars == <<model, loaded, published, weights, paused, resume>>
vars == <<setup, mainVars, futures, workerVars, serverVars, escaped, faults>>

Ranks == {Main} \cup Others
Crew == IF setup.alone THEN {Main} ELSE Ranks

\* self.state.global_step
GlobalStep == micro \div Accumulation

TypeOK ==
    /\ setup \in Setups
    /\ pc \in [Ranks -> {"prepare", "gather", "pause", "load", "resume", "retire", "barrier",
                         "settle", "syncing", "produce", "broadcast", "train", "done", "raised"}]
    /\ micro \in 0 .. LastStep * Accumulation
    /\ lastSynced \in [Ranks -> -1 .. LastStep] /\ rollout \in -1 .. LastStep
    /\ futures \in Seq([state : {"queued", "running", "done", "failed"}, weights : 0 .. LastStep])
    /\ Len(futures) <= setup.depth
    /\ wpc \in {"idle", "check", "syncing", "ask", "asked", "queued", "generating"}
    /\ marked \in 0 .. LastStep /\ using \in 0 .. LastStep
    /\ published \in Seq(1 .. LastStep) /\ model \in 0 .. Len(published)
    /\ loaded \subseteq 1 .. Len(published) /\ weights \in 0 .. LastStep
    /\ {error, paused, escaped} \subseteq BOOLEAN
    /\ resume \in {"none", "due", "rejected"} /\ faults \in 0 .. MaxFaults

Queued == [state |-> "queued", weights |-> 0]

\* fault: one job too many
PrefillTooMany(n) == [i \in 1 .. n + 1 |-> Queued]

\* prefetch_depth jobs, submitted before the first one is waited for
Prefill(n) == [i \in 1 .. n |-> Queued]

Init ==
    /\ setup \in Setups
    /\ pc = [r \in Ranks |-> "prepare"] /\ micro = 0
    /\ lastSynced = [r \in Ranks |-> -1] /\ rollout = -1
    /\ futures = IF setup.path = "legacy" THEN Prefill(setup.depth) ELSE <<>>
    /\ wpc = "idle" /\ marked = 0 /\ using = 0
    /\ model = 0 /\ loaded = {} /\ published = <<>> /\ weights = 0
    /\ error = FALSE /\ paused = FALSE /\ resume = "none" /\ escaped = FALSE /\ faults = 0

Goto(r, l) == pc' = [pc EXCEPT ![r] = l]
At(l) == pc[Main] = l
AllAt(l) == \A r \in Crew : pc[r] = l
Everyone(l) == pc' = [r \in Ranks |-> IF r \in Crew THEN l ELSE pc[r]]
Fault == faults < MaxFaults /\ faults' = faults + 1

-----------------------------------------------------------------------------
(* The weight sync, before each new rollout.                               *)

SyncDueLate(r) ==           \* fault: the interval is counted from one
    GlobalStep # lastSynced[r] /\ GlobalStep % setup.interval = setup.interval - 1

SyncDue(r) == GlobalStep # lastSynced[r] /\ GlobalStep % setup.interval = 0

Synced(r) == lastSynced' = [lastSynced EXCEPT ![r] = GlobalStep]

\* Nothing was trained at step 0; merged weights are streamed by the main rank alone.
SendsNothing(r) == GlobalStep = 0 \/ (setup.sync = "no_merge" /\ r # Main)

\* _maybe_sync_vllm_weights
Prepare(r) ==
    /\ pc[r] = "prepare"
    /\ \/ ~SyncDue(r) /\ Goto(r, "produce") /\ UNCHANGED lastSynced
       \/ SyncDue(r) /\ SendsNothing(r) /\ Goto(r, "produce") /\ Synced(r)
       \/ /\ SyncDue(r) /\ ~SendsNothing(r)
          /\ Goto(r, [lora |-> "gather", no_merge |-> "syncing", stock |-> "settle"][setup.sync])
          /\ UNCHANGED lastSynced
    /\ UNCHANGED <<setup, micro, rollout, error, futures, workerVars, serverVars, escaped, faults>>

\* An exception that _sync_lora_adapter does not keep for after the barrier: an OSError,
\* or a request that got no answer.
Escape == Fault /\ escaped' = TRUE

\* _sync_lora_adapter: the main rank makes the directory for adapters at first and
\* tells the others; all ranks gather the state dict; the main one saves it.
Gather ==
    /\ AllAt("gather")
    /\ \/ /\ pc' = [r \in Ranks |-> IF r \notin Crew THEN pc[r] ELSE
                                    IF r = Main THEN "pause" ELSE "barrier"]
          /\ UNCHANGED <<escaped, faults>>
       \/ /\ pc' = [r \in Ranks |-> IF r \notin Crew THEN pc[r] ELSE
                                    IF r = Main THEN "raised" ELSE "barrier"]
          /\ Escape
       \/ published = <<>> /\ Goto(Main, "raised") /\ Escape
    /\ UNCHANGED <<setup, micro, lastSynced, rollout, error, futures, workerVars, serverVars>>

\* publish_lora_adapter. mode=wait answers once no request is being served; a
\* server that refuses is not paused by it, and the publication goes on.
Pause ==
    /\ At("pause")
    /\ \/ /\ wpc # "generating" /\ paused' = TRUE /\ resume' = "due" /\ Goto(Main, "load")
          /\ UNCHANGED <<escaped, faults>>
       \/ Fault /\ Goto(Main, "load") /\ UNCHANGED <<paused, resume, escaped>>
       \/ Escape /\ Goto(Main, "raised") /\ UNCHANGED <<paused, resume>>
    /\ UNCHANGED <<setup, micro, lastSynced, rollout, error, futures, workerVars, model, loaded,
                   published, weights>>

\* The new adapter is loaded and the client pointed at it; or the server rejects it.
Load ==
    /\ At("load") /\ Goto(Main, "resume")
    /\ \/ /\ published' = Append(published, GlobalStep)
          /\ loaded' = loaded \cup {Len(published')} /\ model' = Len(published')
          /\ UNCHANGED <<error, escaped, faults>>
       \/ /\ \/ Fault /\ error' = TRUE /\ UNCHANGED escaped
             \/ Escape /\ UNCHANGED error
          /\ UNCHANGED <<model, loaded, published>>
    /\ UNCHANGED <<setup, micro, lastSynced, rollout, futures, workerVars, weights, paused,
                   resume>>

RaiseAtOnce == IF error THEN "raised" ELSE "retire"     \* fault: the error is not kept
StillPaused == paused                                   \* fault: no resume

\* Where an answered publication goes: a RuntimeError waits for the barrier.
AfterResume == IF error THEN "barrier" ELSE "retire"

\* Where the publication goes from its finally clause.
AfterFinally == IF escaped THEN "raised" ELSE AfterResume

\* What an answered /resume leaves
PausedAfter == FALSE

\* The finally clause resumes what this publication paused. Nobody looks at the
\* answer: the publication goes on where the server rejects it and stays paused.
Resume ==
    /\ At("resume")
    /\ \/ /\ resume # "due" /\ Goto(Main, AfterFinally)
          /\ UNCHANGED <<paused, resume, escaped, faults>>
       \/ /\ resume = "due" /\ resume' = "none" /\ paused' = PausedAfter
          /\ Goto(Main, AfterFinally) /\ UNCHANGED <<escaped, faults>>
       \/ /\ resume = "due" /\ resume' = "rejected" /\ Fault
          /\ Goto(Main, AfterFinally) /\ UNCHANGED <<paused, escaped>>
       \/ resume = "due" /\ Escape /\ Goto(Main, "raised") /\ UNCHANGED <<paused, resume>>
    /\ UNCHANGED <<setup, micro, lastSynced, rollout, error, futures, workerVars, model, loaded,
                   published, weights>>

RetiresPrevious(v) == v - 1     \* fault: off by one

\* The version no client should be using once v is the current one
Retired(v) == v - 2

\* Best effort: an /unload that is rejected leaves the adapter where it is.
Retire ==
    /\ At("retire")
    /\ \/ /\ loaded' = loaded \ {Retired(model)} /\ Goto(Main, "barrier")
          /\ UNCHANGED <<escaped, faults>>
       \/ Retired(model) > 0 /\ Fault /\ Goto(Main, "barrier") /\ UNCHANGED <<loaded, escaped>>
       \/ Retired(model) > 0 /\ Escape /\ Goto(Main, "raised") /\ UNCHANGED loaded
    /\ UNCHANGED <<setup, micro, lastSynced, rollout, error, futures, workerVars, model,
                   published, weights, paused, resume>>

\* dist.barrier(); sync_error is raised after it.
Barrier ==
    /\ AllAt("barrier")
    /\ pc' = [r \in Ranks |-> IF r \notin Crew THEN pc[r] ELSE
                              IF r = Main /\ error THEN "raised" ELSE "produce"]
    /\ lastSynced' = [r \in Ranks |-> IF r \notin Crew \/ (r = Main /\ error)
                                      THEN lastSynced[r] ELSE GlobalStep]
    /\ UNCHANGED <<setup, micro, rollout, error, futures, workerVars, serverVars, escaped, faults>>

\* fault: the legacy path does not wait for the queue
QuietLockOnly(r) == r = Main /\ setup.path = "producer" => wpc = "idle"

\* Nothing of rank r generates: it has the generation lock, or waited for its futures.
Quiet(r) ==
    r = Main => IF setup.path = "producer" THEN wpc = "idle"
                ELSE \A i \in DOMAIN futures : futures[i].state \in {"done", "failed"}

Settle(r) ==
    /\ pc[r] = "settle" /\ Quiet(r)
    /\ IF r = Main /\ setup.path = "legacy" /\ \E i \in DOMAIN futures : futures[i].state = "failed"
       THEN Goto(r, "raised") ELSE Goto(r, "syncing")
    /\ UNCHANGED <<setup, micro, lastSynced, rollout, error, futures, workerVars, serverVars,
                   escaped, faults>>

\* The generation lock is held from settle until the weights are sent.
SyncWeights ==
    LET syncers == IF setup.sync = "stock" THEN Crew ELSE {Main} IN
    /\ \A r \in syncers : pc[r] = "syncing"
    /\ weights' = GlobalStep
    /\ pc' = [r \in Ranks |-> IF r \in syncers THEN "produce" ELSE pc[r]]
    /\ lastSynced' = [r \in Ranks |-> IF r \in syncers THEN GlobalStep ELSE lastSynced[r]]
    /\ UNCHANGED <<setup, micro, rollout, error, futures, workerVars, model, loaded, published,
                   paused, resume, escaped, faults>>

-----------------------------------------------------------------------------
(* The next rollout, and training on it.                                   *)

Initialized == setup.path = "legacy" \/ micro > 0

\* AsyncDataProducer's first produce(): all ranks generate on their main threads.
FirstRollout ==
    /\ AllAt("produce") /\ ~Initialized
    /\ \/ /\ Everyone("train") /\ rollout' = weights /\ futures' = Prefill(setup.depth)
          /\ UNCHANGED faults
       \/ Fault /\ Goto(Main, "raised") /\ UNCHANGED <<rollout, futures>>
    /\ UNCHANGED <<setup, micro, lastSynced, error, workerVars, serverVars, escaped>>

\* result() of the oldest future. The legacy path submits the next job at once,
\* the producer after the broadcast.
Pop ==
    /\ At("produce") /\ Initialized
    /\ \/ /\ Head(futures).state = "done" /\ rollout' = Head(futures).weights
          /\ futures' = Tail(futures) \o
                 Prefill(IF setup.path = "legacy" \/ setup.alone THEN 1 ELSE 0)
          /\ Goto(Main, IF setup.alone THEN "train" ELSE "broadcast")
       \/ Head(futures).state = "failed" /\ Goto(Main, "raised") /\ UNCHANGED <<rollout, futures>>
    /\ UNCHANGED <<setup, micro, lastSynced, error, workerVars, serverVars, escaped, faults>>

\* Elsewhere the future holds None.
PopNone(r) ==
    /\ r # Main /\ pc[r] = "produce" /\ Initialized /\ Goto(r, "broadcast")
    /\ UNCHANGED <<setup, micro, lastSynced, rollout, error, futures, workerVars, serverVars,
                   escaped, faults>>

\* _broadcast_from_rank0, a collective of the main threads
Broadcast ==
    /\ AllAt("broadcast") /\ Everyone("train")
    /\ futures' = futures \o Prefill(IF setup.path = "producer" THEN 1 ELSE 0)
    /\ UNCHANGED <<setup, micro, lastSynced, rollout, error, workerVars, serverVars, escaped, faults>>

\* One micro-batch on all ranks; a new rollout when the buffered ones are used up.
Train ==
    /\ AllAt("train") /\ micro' = micro + 1
    /\ Everyone(IF micro' = LastStep * Accumulation THEN "done" ELSE
                IF micro' % setup.per = 0 THEN "prepare" ELSE "train")
    /\ UNCHANGED <<setup, lastSynced, rollout, error, futures, workerVars, serverVars, escaped, faults>>

-----------------------------------------------------------------------------
(* The background thread of the main rank and the server.                  *)

LockTaken == setup.path = "producer" /\ setup.sync = "stock" /\ At("syncing")

Running == CHOOSE i \in DOMAIN futures : futures[i].state = "running"

\* The job of a lone process passes TRL's check for new weights, so
\* _generate_single_turn first pretends that this step's were loaded.
Take ==
    /\ wpc = "idle" /\ ~LockTaken
    /\ \E i \in DOMAIN futures :
        /\ futures[i].state = "queued" /\ \A j \in 1 .. i - 1 : futures[j].state # "queued"
        /\ futures' = [futures EXCEPT ![i].state = "running"]
    /\ IF setup.alone THEN wpc' = "check" /\ marked' = GlobalStep
       ELSE wpc' = "ask" /\ UNCHANGED marked
    /\ UNCHANGED <<setup, mainVars, using, serverVars, escaped, faults>>

\* TRL: sync_weights() unless this step's weights were loaded; a LoRA setup
\* has replaced it by a function that does nothing.
Check ==
    /\ wpc = "check"
    /\ wpc' = IF GlobalStep # marked /\ setup.sync # "lora" THEN "syncing" ELSE "ask"
    /\ UNCHANGED <<setup, mainVars, futures, marked, using, serverVars, escaped, faults>>

SyncInBackground ==
    /\ wpc = "syncing" /\ wpc' = "ask" /\ weights' = GlobalStep
    /\ UNCHANGED <<setup, mainVars, futures, marked, using, model, loaded, published, paused,
                   resume, escaped, faults>>

\* The client writes the name of its model into the request.
Ask ==
    /\ wpc = "ask" /\ wpc' = "asked" /\ using' = model
    /\ UNCHANGED <<setup, mainVars, futures, marked, serverVars, escaped, faults>>

FutureIs(state, w) ==
    /\ futures' = [futures EXCEPT ![Running] = [state |-> state, weights |-> w]]
    /\ wpc' = "idle"

\* The server looks the name up when the request arrives.
Arrive ==
    /\ wpc = "asked"
    /\ IF using \in loaded \cup {0} THEN wpc' = "queued" /\ UNCHANGED futures
       ELSE FutureIs("failed", 0)
    /\ UNCHANGED <<setup, mainVars, marked, using, serverVars, escaped, faults>>

Admit ==
    /\ wpc = "queued" /\ ~paused /\ wpc' = "generating"
    /\ using' = IF setup.sync = "lora" THEN using ELSE weights
    /\ UNCHANGED <<setup, mainVars, futures, marked, serverVars, escaped, faults>>

\* The step of the weights the request was generated with
Age == IF setup.sync = "lora" /\ using > 0 THEN published[using] ELSE
       IF setup.sync = "lora" THEN 0 ELSE using

Generate ==
    /\ wpc = "generating"
    /\ \/ FutureIs("done", Age) /\ UNCHANGED faults
       \/ Fault /\ FutureIs("failed", 0)
    /\ UNCHANGED <<setup, mainVars, marked, using, serverVars, escaped>>

RankStep(r) == Prepare(r) \/ Settle(r) \/ PopNone(r)
MainStep == Pause \/ Load \/ Resume \/ Retire \/ Pop
Collective == Gather \/ Barrier \/ SyncWeights \/ FirstRollout \/ Broadcast \/ Train
WorkerStep == Take \/ Check \/ SyncInBackground \/ Ask \/ Arrive \/ Admit \/ Generate

Next == (\E r \in Crew : RankStep(r)) \/ MainStep \/ Collective \/ WorkerStep

Spec == Init /\ [][Next]_vars

FairSpec ==
    /\ Spec /\ \A r \in Ranks : WF_vars(r \in Crew /\ RankStep(r))
    /\ WF_vars(MainStep) /\ WF_vars(Collective) /\ WF_vars(WorkerStep)

-----------------------------------------------------------------------------
(* Properties                                                              *)

\* The steps at which rollouts 0 .. n were due, as far as weights were sent then.
SyncsBy(n) == {s \in {(k * setup.per) \div Accumulation : k \in 0 .. n} : s % setup.interval = 0}

\* A rollout is never older than its request: it was generated with the weights of
\* the last sync that was due when it was submitted, prefetch_depth rollouts
\* before it is trained on, or with later ones.
Fresh ==
    (At("train") /\ micro % setup.per = 0) =>
        LET n == micro \div setup.per IN
        \A s \in SyncsBy(IF n < setup.depth THEN 0 ELSE n - setup.depth) : rollout >= s

\* sync_weights merges the adapter into the weights in place: it never runs on the
\* main thread while the background thread of the same process generates.
SyncExcludesGeneration == (setup.sync = "stock" /\ At("syncing")) => wpc = "idle"

\* With a prefetch depth of one, the adapter a request names stays loaded from the
\* moment the client writes the name until the request is served, whether or not
\* the server lets itself be paused: removing the version before the last is safe.
NamesLoaded ==
    (setup.sync = "lora" /\ setup.depth = 1 /\ wpc \in {"asked", "queued", "generating"})
        => using \in loaded \cup {0}

\* When the server rejects an adapter, the main rank raises without leaving the
\* others in the barrier. Only what is no RuntimeError can do that: the adapter could not
\* be saved, or a request got no answer.
BarrierIsMet == (\E r \in Crew : pc[r] = "barrier") /\ At("raised") => escaped

\* The background thread never sends weights.
NoSyncFromBackground == wpc # "syncing"

\* Training comes to its end unless the main rank raised: nobody waits for ever for the
\* generation lock, a future, the server to resume, or a collective. It may only stand
\* still where the server rejected a /resume and is paused since.
TrainingEnds ==
    \/ <>(At("raised") \/ \A r \in Crew : pc[r] = "done")
    \/ <>[](resume = "rejected")
=============================================================================
