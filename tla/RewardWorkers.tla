---------------------------- MODULE RewardWorkers ----------------------------
(***************************************************************************)
(* The reward subprocesses of FastAsyncGRPOTrainer                         *)
(* (core/trainers/grpo/fast_async_trainer.py): the trainer deals the       *)
(* prompt groups of a batch to persistent workers over pipes, and later    *)
(* collects one answer of each; None stands for an exception in a reward   *)
(* function, after which the main thread computes all rewards itself.      *)
(***************************************************************************)
EXTENDS Naturals, Sequences

CONSTANTS
    NumWorkers,                 \* reward_num_workers, a number above 1: else no pool is used
    MaxGroups,                  \* prompt groups a batch may have, one or more
    MaxBatches, MaxFaults       \* bounds of the model

Workers == 1 .. NumWorkers

VARIABLES
    pc,         \* the trainer: "ready", "collecting", "draining", "done" or "raised"
    batch,      \* batches launched
    used,       \* how many workers got a share of the batch: the first ones
    next,       \* the worker whose answer is received next
    failed,     \* the worker that answered None, 0 if none
    tasks,      \* tasks[w]: in the pipe to worker w
    answers,    \* answers[w]: in the pipe from it
    alive, faults

pipes == <<tasks, answers>>
vars == <<pc, batch, used, next, failed, pipes, alive, faults>>

Init ==
    /\ pc = "ready" /\ batch = 0 /\ used = 0 /\ next = 1 /\ failed = 0
    /\ tasks = [w \in Workers |-> <<>>] /\ answers = [w \in Workers |-> <<>>]
    /\ alive = Workers /\ faults = 0

Fault == faults < MaxFaults /\ faults' = faults + 1
Go(l) == pc' = l

\* groups_per_worker: rounded up
Share(groups) == (groups + NumWorkers - 1) \div NumWorkers

\* Workers whose share begins before the last group
UsedFor(groups) == {w \in Workers : (w - 1) * Share(groups) < groups}

\* The pool, made anew if a worker died: old pipes go with the old workers.
Pool == IF alive = Workers THEN pipes
        ELSE <<[w \in Workers |-> <<>>], [w \in Workers |-> <<>>]>>

\* _launch_reward_workers
Launch ==
    /\ pc = "ready" /\ batch < MaxBatches
    /\ batch' = batch + 1 /\ next' = 1 /\ failed' = 0 /\ Go("collecting")
    /\ \E groups \in 1 .. MaxGroups :
        /\ used' \in Workers /\ 1 .. used' = UsedFor(groups)
        /\ tasks' = [w \in Workers |-> IF w \in UsedFor(groups) THEN Append(Pool[1][w], batch')
                                       ELSE Pool[1][w]]
    /\ answers' = Pool[2] /\ alive' = Workers
    /\ UNCHANGED faults

\* _persistent_reward_worker: the rewards of its share, or None after an exception
Answer(w) ==
    /\ w \in alive /\ tasks[w] # <<>>
    /\ tasks' = [tasks EXCEPT ![w] = Tail(@)]
    /\ \/ /\ answers' = [answers EXCEPT ![w] = Append(@, [batch |-> Head(tasks[w]), ok |-> TRUE])]
          /\ UNCHANGED faults
       \/ /\ answers' = [answers EXCEPT ![w] = Append(@, [batch |-> Head(tasks[w]), ok |-> FALSE])]
          /\ Fault
    /\ UNCHANGED <<pc, batch, used, next, failed, alive>>

\* Killed from outside, with its task or before it.
Die(w) ==
    /\ w \in alive /\ Fault /\ alive' = alive \ {w}
    /\ UNCHANGED <<pc, batch, used, next, failed, pipes>>

\* conn.recv() of the collecting loop; a closed pipe raises EOFError
Receive ==
    /\ pc = "collecting" /\ next <= used
    /\ \/ /\ answers[next] # <<>>
          /\ answers' = [answers EXCEPT ![next] = Tail(@)]
          /\ IF Head(answers[next]).ok
             THEN next' = next + 1 /\ UNCHANGED <<pc, failed>>
             ELSE next' = 1 /\ failed' = next /\ Go("draining")
       \/ /\ answers[next] = <<>> /\ next \notin alive /\ Go("raised")
          /\ UNCHANGED <<answers, next, failed>>
    /\ UNCHANGED <<batch, used, tasks, alive, faults>>

\* The loop over remaining_conn: every worker but the one that failed; errors are ignored.
Drain ==
    /\ pc = "draining" /\ next <= used
    /\ \/ next = failed /\ UNCHANGED answers
       \/ next # failed /\ answers[next] # <<>> /\ answers' = [answers EXCEPT ![next] = Tail(@)]
       \/ next # failed /\ answers[next] = <<>> /\ next \notin alive /\ UNCHANGED answers
    /\ next' = next + 1
    /\ UNCHANGED <<pc, batch, used, failed, tasks, alive, faults>>

\* All answers are used, or _calculate_rewards computes everything on the main thread.
Return ==
    /\ pc \in {"collecting", "draining"} /\ next > used
    /\ Go(IF batch = MaxBatches THEN "done" ELSE "ready")
    /\ UNCHANGED <<batch, used, next, failed, pipes, alive, faults>>

Next == Launch \/ Receive \/ Drain \/ Return \/ \E w \in Workers : Answer(w) \/ Die(w)

\* The main thread runs, and so does every worker that lives; nobody must die.
FairSpec ==
    /\ Init /\ [][Next]_vars
    /\ WF_vars(Launch \/ Receive \/ Drain \/ Return) /\ \A w \in Workers : WF_vars(Answer(w))

\* Collecting "blocks until done": it comes to an end, whatever the workers do.
CollectEnds == pc \in {"collecting", "draining"} ~> pc \in {"ready", "done", "raised"}
=============================================================================
