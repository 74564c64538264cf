-------------------------- MODULE CheckpointMirror --------------------------
(***************************************************************************)
(* CheckpointMirror and its callback (core/checkpoint_mirror.py).  Every   *)
(* node of a run saves its share of checkpoint-N on a local disk; a        *)
(* background thread per node copies it to a staging directory on a shared *)
(* filesystem, and whichever thread first sees the marker of every node    *)
(* renames the staging directory to checkpoint-N.                          *)
(*                                                                         *)
(* A node is one agent for the mirror: its thread works through the queue  *)
(* of the publisher, and the training thread settles only in drain(), when *)
(* that queue is empty.  The publisher itself is CheckpointPublisher; here *)
(* it is the queue[n] of steps accepted and not finished.                  *)
(*                                                                         *)
(* Directories are partial functions: DOMAIN final is the set of           *)
(* checkpoint-N directories of the mirror, DOMAIN staging the set of       *)
(* staging directories, named by attempt and step.  A share is the pair of *)
(* the attempt and the node that copied it.                                *)
(***************************************************************************)
EXTENDS Integers, Sequences, FiniteSets, FiniteSetsExt

CONSTANTS Nodes,        \* the nodes, one uploader each
          Steps,        \* the schedule: training saves at each of these steps
          Keep,         \* mirror retention; 0 stands for None
          LocalKeep,    \* save_total_limit for the local disk; 0 stands for None
          MaxPending,   \* max_pending of the publisher
          InitMirror,   \* steps of complete checkpoints an earlier run left
          InitStep,     \* the step this run starts from
          MaxAttempts,  \* bound: runs of the job, the first one included
          MaxFaults     \* bound: failing file operations

ASSUME MirrorAssumption ==
    /\ IsFiniteSet(Nodes) /\ Nodes # {}
    /\ Steps \subseteq Nat \ {0} /\ IsFiniteSet(Steps) /\ Steps # {}
    /\ InitMirror \subseteq Nat \ {0} /\ IsFiniteSet(InitMirror)
    /\ Keep \in Nat /\ LocalKeep \in Nat /\ MaxPending \in Nat \ {0}
    /\ InitStep \in Nat /\ MaxAttempts \in Nat \ {0} /\ MaxFaults \in Nat

VARIABLES
    attempt,    \* the run; scopes staging directories
    trained,    \* global_step of the newest save (or of the resumed checkpoint)
    best,       \* step of the trainer's best_model_checkpoint, 0 for none
    seen,       \* seen[n]: the best_checkpoint node n's mirror was last given
    phase,      \* phase[n]: the training thread of node n
    pass,       \* pass[n]: 1 in drain(), 2 in finish()
    local,      \* local[n]: steps of the checkpoints on node n's disk
    queue,      \* queue[n]: steps submitted and not finished
    failed,     \* failed[n]: self.failed
    pc,         \* pc[n]: what node n's agent is doing
    todo,       \* todo[n]: steps _settle has still to look at, then those it removes
    intact,     \* intact[n]: the directory n copies into was not removed meanwhile
    aside,      \* aside[n]: the share set n moved to .replaced-*, if any
    staging,    \* staging[<<a, s>>]: [shares, marks, lock] of a staging directory
    final,      \* final[s]: the shares in the mirror's checkpoint-s
    faults,     \* faults injected so far
    neglected   \* history: in this run bookkeeping (Neglect) has failed

trainVars == <<attempt, trained, best, seen, phase, pass, local>>
agentVars == <<queue, failed, pc, todo, intact, aside>>
vars == <<trainVars, agentVars, staging, final, faults, neglected>>

Complete == DOMAIN final
Put(f, k, v) == [x \in DOMAIN f \cup {k} |-> IF x = k THEN v ELSE f[x]]
Without(f, S) == [x \in DOMAIN f \ S |-> f[x]]
SetMax(S) == IF S = {} THEN 0 ELSE Max(S)

Shares == (0 .. MaxAttempts) \X Nodes
WholeShare(a) == {a} \X Nodes

NoScope == 1        \* fault: every run names its staging directories alike

\* The staging prefix: an id drawn anew in every run.
Scope == attempt

\* .staging-<attempt>-checkpoint-<s>
Key(s) == <<Scope, s>>

EmptyDir == [shares |-> {}, marks |-> {}, lock |-> FALSE]
DirAt(s) == IF Key(s) \in DOMAIN staging THEN staging[Key(s)] ELSE EmptyDir

\* A file operation raised OSError, within the bound.
Fault == faults < MaxFaults /\ faults' = faults + 1
NoFault == UNCHANGED faults

\* One that _settle leaves its work undone for.
Neglect == Fault /\ neglected' = TRUE

TypeOK ==
    /\ attempt \in 1 .. MaxAttempts /\ trained \in Nat
    /\ best \in Steps \cup {0} /\ seen \in [Nodes -> Steps \cup {0}]
    /\ phase \in [Nodes -> {"run", "submit", "drain", "settle", "retry", "drained", "done"}]
    /\ pass \in [Nodes -> 1 .. 2]
    /\ local \in [Nodes -> SUBSET Steps]
    /\ queue \in [Nodes -> Seq(Steps)]
    /\ failed \in [Nodes -> SUBSET Steps]
    /\ pc \in [Nodes -> {"idle", "copying", "marking", "listing", "looking", "locking",
                         "replacing", "placing", "trimming", "removing", "dropping",
                         "deleting"}]
    /\ todo \in [Nodes -> SUBSET (Steps \cup InitMirror)]
    /\ intact \in [Nodes -> BOOLEAN]
    /\ aside \in [Nodes -> SUBSET SUBSET Shares]
    /\ DOMAIN staging \subseteq (1 .. MaxAttempts) \X Steps
    /\ \A k \in DOMAIN staging :
           staging[k] \in [shares : SUBSET Shares, marks : SUBSET Nodes, lock : BOOLEAN]
    /\ Complete \subseteq Steps \cup InitMirror
    /\ \A s \in Complete : final[s] \in SUBSET Shares
    /\ faults \in 0 .. MaxFaults /\ neglected \in BOOLEAN

Init ==
    /\ attempt = 1 /\ trained = InitStep /\ best = 0
    /\ seen = [n \in Nodes |-> 0]
    /\ phase = [n \in Nodes |-> "run"] /\ pass = [n \in Nodes |-> 1]
    /\ local = [n \in Nodes |-> {}]
    /\ queue = [n \in Nodes |-> <<>>] /\ failed = [n \in Nodes |-> {}]
    /\ pc = [n \in Nodes |-> "idle"] /\ todo = [n \in Nodes |-> {}]
    /\ intact = [n \in Nodes |-> TRUE] /\ aside = [n \in Nodes |-> {}]
    /\ staging = [k \in {} |-> EmptyDir]
    /\ final = [s \in InitMirror |-> WholeShare(0)]
    /\ faults = 0 /\ neglected = FALSE

-----------------------------------------------------------------------------
(* Retention.                                                              *)

TrimOldest(c, keep, b) ==       \* fault: the newest one is not protected
    {s \in c : Cardinality({t \in c : t > s}) < Cardinality(c) - keep}

TrimOneShort(c, keep, b) ==     \* fault: off by one
    LET removable == {s \in c : s # SetMax(c) /\ s # b} IN
    {s \in removable : Cardinality({t \in removable : t < s}) < Cardinality(c) - keep - 1}

\* _trim: which of the checkpoints c go, when `keep' of them may stay.
Trim(c, keep, b) ==
    LET protected == {s \in c : s = SetMax(c) \/ s = b}
        removable == c \ protected
        excess == Cardinality(c) - SetMax({keep, Cardinality(protected)})
    IN  {s \in removable : Cardinality({t \in removable : t < s}) < excess}

-----------------------------------------------------------------------------
(* The training threads.                                                   *)

All(p) == \A n \in Nodes : phase[n] = p

\* The next scheduled save on every node, up to the barrier of on_save.
Save ==
    /\ All("run")
    /\ \E s \in Steps :
        /\ s > trained
        /\ \A t \in Steps : t > trained => s <= t
        /\ trained' = s
        /\ best' \in {best, s}
        /\ local' = [n \in Nodes |-> local[n] \cup {s}]
    /\ phase' = [n \in Nodes |-> "submit"]
    /\ UNCHANGED <<attempt, seen, pass, agentVars, staging, final, faults, neglected>>

SkippedNext(f, s) == f \cup {s + 1}     \* fault: another step is remembered

\* submit's except clauses: the step was not queued, and is remembered.
Skipped(f, s) == f \cup {s}

\* CheckpointMirror.submit with the checkpoints `disk' on the local disk: the copy
\* is queued, or skipped when the queue is full or the checkpoint cannot be retained.
Submit(n, s, disk) ==
    LET possible == s \in disk /\ Len(queue[n]) < MaxPending IN
    \/ /\ possible /\ NoFault
       /\ queue' = [queue EXCEPT ![n] = Append(@, s)]
       /\ UNCHANGED failed
    \/ /\ IF possible THEN Fault ELSE NoFault
       /\ failed' = [failed EXCEPT ![n] = Skipped(@, s)]
       /\ UNCHANGED queue

\* What the rotation of node n's disk leaves (rotate_local; HF's own on node 0).
Rotated(n) ==
    IF LocalKeep = 0 THEN local[n] ELSE local[n] \ Trim(local[n], LocalKeep, best)

\* on_save after its barrier: note the best checkpoint, rotate, submit.
OnSave(n) ==
    /\ phase[n] = "submit"
    /\ seen' = [seen EXCEPT ![n] = best]
    /\ local' = [local EXCEPT ![n] = Rotated(n)]
    /\ Submit(n, trained, Rotated(n))
    /\ phase' = [phase EXCEPT ![n] = "run"]
    /\ UNCHANGED <<attempt, trained, best, pass, pc, todo, intact, aside, staging, final,
                   neglected>>

\* Training ends; every node enters drain().  A restarted run has by then repeated
\* the saves its predecessor made.
EndTraining ==
    /\ All("run")
    /\ \A n \in Nodes : SetMax(local[n]) <= trained
    /\ phase' = [n \in Nodes |-> "drain"]
    /\ UNCHANGED <<attempt, trained, best, seen, pass, local, agentVars, staging, final,
                   faults, neglected>>

\* worker.wait() returned; _settle.
DrainSettle(n) ==
    /\ phase[n] = "drain" /\ queue[n] = <<>> /\ pc[n] = "idle"
    /\ phase' = [phase EXCEPT ![n] = "settle"]
    /\ pc' = [pc EXCEPT ![n] = "listing"]
    /\ UNCHANGED <<attempt, trained, best, seen, pass, local, queue, failed, todo, intact,
                   aside, staging, final, faults, neglected>>

\* if local and max(local) in self.failed
MustRetry(n) == local[n] # {} /\ SetMax(local[n]) \in failed[n]

DrainRetry(n) ==
    /\ phase[n] = "settle" /\ pc[n] = "idle"
    /\ phase' = [phase EXCEPT ![n] = "retry"]
    /\ IF MustRetry(n) THEN Submit(n, SetMax(local[n]), local[n])
       ELSE UNCHANGED <<queue, failed, faults>>
    /\ UNCHANGED <<attempt, trained, best, seen, pass, local, pc, todo, intact, aside,
                   staging, final, neglected>>

\* The second worker.wait() returned.
DrainEnd(n) ==
    /\ phase[n] = "retry" /\ queue[n] = <<>> /\ pc[n] = "idle"
    /\ phase' = [phase EXCEPT ![n] = IF pass[n] = 1 THEN "drained" ELSE "done"]
    /\ UNCHANGED <<attempt, trained, best, seen, pass, local, agentVars, staging, final,
                   faults, neglected>>

\* The barriers between drain() and finish(); finish drains once more.
Finish ==
    /\ All("drained")
    /\ phase' = [n \in Nodes |-> "drain"] /\ pass' = [n \in Nodes |-> 2]
    /\ UNCHANGED <<attempt, trained, best, seen, local, agentVars, staging, final, faults,
                   neglected>>

-----------------------------------------------------------------------------
(* _upload, in the background thread.                                      *)

Goto(n, l) == pc' = [pc EXCEPT ![n] = l]

\* except Exception: the step is remembered as failed and the job is over.
CopyFails(n) ==
    /\ failed' = [failed EXCEPT ![n] = @ \cup {Head(queue[n])}]
    /\ queue' = [queue EXCEPT ![n] = Tail(@)]
    /\ Goto(n, "idle")

\* destination.mkdir(parents=True, exist_ok=True) of copy_tree.
CopyStart(n) ==
    /\ pc[n] = "idle" /\ queue[n] # <<>>
    /\ \/ /\ staging' = Put(staging, Key(Head(queue[n])), DirAt(Head(queue[n])))
          /\ intact' = [intact EXCEPT ![n] = TRUE]
          /\ Goto(n, "copying") /\ NoFault /\ UNCHANGED <<queue, failed>>
       \/ CopyFails(n) /\ Fault /\ UNCHANGED <<staging, intact>>
    /\ UNCHANGED <<trainVars, todo, aside, final, neglected>>

\* The files of copy_tree.  When another node removed the directory meanwhile,
\* files are missing whether or not somebody created it again.
CopyDone(n) ==
    LET s == Head(queue[n]) IN
    /\ pc[n] = "copying"
    /\ \/ /\ Key(s) \in DOMAIN staging
          /\ staging' = IF intact[n]
                        THEN [staging EXCEPT ![Key(s)].shares = @ \cup {<<attempt, n>>}]
                        ELSE staging
          /\ Goto(n, "marking") /\ NoFault /\ UNCHANGED <<queue, failed>>
       \/ /\ CopyFails(n) /\ UNCHANGED staging
          /\ IF intact[n] THEN Fault ELSE NoFault
    /\ UNCHANGED <<trainVars, todo, intact, aside, final, neglected>>

\* markers.mkdir(parents=True) creates what is missing; then the marker.
Mark(n) ==
    LET s == Head(queue[n]) IN
    /\ pc[n] = "marking"
    /\ \/ /\ staging' = Put(staging, Key(s), [DirAt(s) EXCEPT !.marks = @ \cup {n}])
          /\ failed' = [failed EXCEPT ![n] = @ \ {s}]
          /\ Goto(n, "listing") /\ NoFault /\ UNCHANGED queue
       \/ CopyFails(n) /\ Fault /\ UNCHANGED staging
    /\ UNCHANGED <<trainVars, todo, intact, aside, final, neglected>>

-----------------------------------------------------------------------------
(* _settle, in the background thread or in drain().                        *)

\* The directories of the keys K are gone from under those who copy into them.
Disturbed(K) ==
    [m \in Nodes |-> intact[m] /\ ~(pc[m] = "copying" /\ Key(Head(queue[m])) \in K)]

\* _settle is over; in the background thread so is the upload.
SettleEnds(n) ==
    /\ Goto(n, "idle")
    /\ queue' = IF phase[n] = "settle" THEN queue ELSE [queue EXCEPT ![n] = Tail(@)]

\* The glob of this attempt's staging directories.
List(n) ==
    /\ pc[n] = "listing" /\ Goto(n, "looking")
    /\ todo' = [todo EXCEPT ![n] = {s \in Steps : Key(s) \in DOMAIN staging}]
    /\ UNCHANGED <<trainVars, queue, failed, intact, aside, staging, final, faults, neglected>>

Drop(n, s) == todo' = [todo EXCEPT ![n] = @ \ {s}]

\* fault: off by one
MoreThanAll(s) == Cardinality(DirAt(s).marks) > Cardinality(Nodes)

\* len(markers) >= num_nodes
AllMarkers(s) == DirAt(s).marks = Nodes

\* _finalize up to the marker count.
Look(n) ==
    LET s == Min(todo[n]) IN
    /\ pc[n] = "looking"
    /\ \/ todo[n] = {} /\ Goto(n, "trimming") /\ UNCHANGED todo
       \/ todo[n] # {} /\ ~AllMarkers(s) /\ Drop(n, s) /\ UNCHANGED pc
       \/ todo[n] # {} /\ AllMarkers(s) /\ Goto(n, "locking") /\ UNCHANGED todo
    /\ UNCHANGED <<trainVars, queue, failed, intact, aside, staging, final, faults, neglected>>

\* The exclusive create in the marker directory: won (then final.exists() tells how
\* to go on), lost, or that directory is gone, which ends the whole _settle.
Lock(n) ==
    LET s == Min(todo[n])
        dir == DirAt(s) IN
    /\ pc[n] = "locking"
    /\ \/ /\ dir.marks # {} /\ ~dir.lock
          /\ staging' = [staging EXCEPT ![Key(s)].lock = TRUE]
          /\ Goto(n, IF s \in Complete THEN "replacing" ELSE "placing")
          /\ UNCHANGED <<todo, queue>>
       \/ /\ dir.marks # {} /\ dir.lock
          /\ Goto(n, "looking") /\ Drop(n, s) /\ UNCHANGED <<staging, queue>>
       \/ /\ dir.marks = {}
          /\ SettleEnds(n) /\ todo' = [todo EXCEPT ![n] = {}] /\ UNCHANGED staging
    /\ UNCHANGED <<trainVars, failed, intact, aside, final, faults, neglected>>

\* os.rename(final, replaced)
SetAside(n) ==
    LET s == Min(todo[n]) IN
    /\ pc[n] = "replacing" /\ s \in Complete
    /\ aside' = [aside EXCEPT ![n] = {final[s]}]
    /\ final' = Without(final, {s})
    /\ Goto(n, "placing")
    /\ UNCHANGED <<trainVars, queue, failed, todo, intact, staging, faults, neglected>>

\* os.rename(staging, final) can work: there is a source and nothing at the target.
CanPlace(s) == s \notin Complete /\ Key(s) \in DOMAIN staging

\* os.rename(staging, final), then rmtree of what was replaced.
Publish(n) ==
    LET s == Min(todo[n]) IN
    /\ pc[n] = "placing" /\ CanPlace(s)
    /\ final' = Put(final, s, staging[Key(s)].shares)
    /\ staging' = Without(staging, {Key(s)})
    /\ intact' = Disturbed({Key(s)})
    /\ aside' = [aside EXCEPT ![n] = {}]
    /\ Goto(n, "looking") /\ Drop(n, s)
    /\ UNCHANGED <<trainVars, queue, failed, faults, neglected>>

\* lock.unlink()
Unlocked(s) ==
    IF Key(s) \in DOMAIN staging THEN [staging EXCEPT ![Key(s)].lock = FALSE] ELSE staging

LeaveAside(n, s) == final       \* fault: what was set aside stays there

\* if replaced is not None and not final.exists(): rename it back
PutBack(n, s) ==
    IF s \notin Complete /\ aside[n] # {} THEN Put(final, s, UNION aside[n]) ELSE final

\* except OSError: put the old checkpoint back and release the lock.  These two
\* operations are assumed to succeed; their own errors are suppressed by the code.
PublishFails(n) ==
    LET s == Min(todo[n]) IN
    /\ \/ pc[n] = "replacing" /\ IF s \in Complete THEN Fault ELSE NoFault
       \/ pc[n] = "placing" /\ IF CanPlace(s) THEN Fault ELSE NoFault
    /\ final' = PutBack(n, s)
    /\ aside' = [aside EXCEPT ![n] = {}]
    /\ staging' = Unlocked(s)
    /\ Goto(n, "looking") /\ Drop(n, s)
    /\ UNCHANGED <<trainVars, queue, failed, intact, neglected>>

\* Rotation of the mirror, with the best checkpoint this node's mirror knows of.
\* rmtree first removes files; a reader sees what is left.
TrimMirror(n) ==
    LET victims == IF Keep = 0 THEN {} ELSE Trim(Complete, Keep, seen[n]) IN
    /\ pc[n] = "trimming" /\ Goto(n, "removing")
    /\ todo' = [todo EXCEPT ![n] = victims]
    /\ final' = [s \in Complete |-> IF s \in victims THEN {} ELSE final[s]]
    /\ UNCHANGED <<trainVars, queue, failed, intact, aside, staging, faults, neglected>>

\* The emptied directories go.
TrimEnds(n) ==
    /\ pc[n] = "removing" /\ Goto(n, "dropping")
    /\ final' = Without(final, {s \in todo[n] \intersect Complete : final[s] = {}})
    /\ todo' = [todo EXCEPT ![n] = {}]
    /\ UNCHANGED <<trainVars, queue, failed, intact, aside, staging, faults, neglected>>

YoungerToo(newest) ==       \* fault: the step after the newest complete one goes too
    {k \in DOMAIN staging : k[2] <= newest + 1}

\* step < newest
OlderThan(newest) == {k \in DOMAIN staging : k[2] < newest}

\* _drop_dead_staging: the files of dead staging directories go.
DropDead(n) ==
    LET dead == IF Complete = {} THEN {} ELSE OlderThan(Max(Complete)) IN
    /\ pc[n] = "dropping" /\ Goto(n, "deleting")
    /\ todo' = [todo EXCEPT ![n] = {k[2] : k \in dead}]
    /\ staging' = [k \in DOMAIN staging |->
                      IF k \in dead THEN [staging[k] EXCEPT !.shares = {}] ELSE staging[k]]
    /\ intact' = Disturbed(dead)
    /\ UNCHANGED <<trainVars, queue, failed, aside, final, faults, neglected>>

\* The directories themselves go, with what was added meanwhile.
DropEnds(n) ==
    LET dead == {k \in DOMAIN staging : k[2] \in todo[n]} IN
    /\ pc[n] = "deleting" /\ SettleEnds(n)
    /\ staging' = Without(staging, dead)
    /\ intact' = Disturbed(dead)
    /\ todo' = [todo EXCEPT ![n] = {}]
    /\ UNCHANGED <<trainVars, failed, aside, final, faults, neglected>>

\* The except clause of _settle: a listing failed, or the creation of a lock on a
\* directory that is there (which then leaves no file).
SettleFails(n) ==
    /\ pc[n] \in {"listing", "looking", "locking", "trimming", "dropping"} /\ Neglect
    /\ SettleEnds(n) /\ todo' = [todo EXCEPT ![n] = {}]
    /\ UNCHANGED <<trainVars, failed, intact, aside, staging, final>>

\* rmtree with ignore_errors: one of the checkpoints stays, emptied.
TrimFails(n) ==
    /\ pc[n] = "removing" /\ Goto(n, "dropping") /\ Neglect
    /\ \E s \in todo[n] \intersect Complete :
           final' = Without(final, {t \in todo[n] \intersect Complete : t # s /\ final[t] = {}})
    /\ todo' = [todo EXCEPT ![n] = {}]
    /\ UNCHANGED <<trainVars, queue, failed, intact, aside, staging>>

\* The same of a staging directory; its markers are still there.
DropFails(n) ==
    /\ pc[n] = "deleting" /\ SettleEnds(n) /\ Neglect
    /\ \E s \in todo[n] :
           LET dead == {k \in DOMAIN staging : k[2] \in todo[n] \ {s}} IN
           staging' = Without(staging, dead) /\ intact' = Disturbed(dead)
    /\ todo' = [todo EXCEPT ![n] = {}]
    /\ UNCHANGED <<trainVars, failed, aside, final>>

-----------------------------------------------------------------------------
(* The job is killed and started again.  Queues, sets, threads are gone;  *)
(* the shared disk stays; the local disks stay or go with the pod.  Node 0 *)
(* removes other attempts' staging and what was set aside before anybody   *)
(* copies, and every node resumes from the newest checkpoint of the        *)
(* mirror, or of local disk and mirror on a single node.                   *)

\* clear_other_attempts of the new run keeps only what bears its own prefix.
Cleared == {k \in DOMAIN staging : k[1] = Scope'}

\* resume_checkpoint
Resumed(disk) ==
    IF Cardinality(Nodes) > 1 THEN SetMax(Complete)
    ELSE SetMax(Complete \cup UNION {disk[n] : n \in Nodes})

Restart ==
    /\ attempt < MaxAttempts /\ ~All("done")
    /\ attempt' = attempt + 1
    /\ local' \in {local, [n \in Nodes |-> {}]}
    /\ trained' = Resumed(local')
    /\ best' \in IF best <= trained' THEN {best} ELSE {s \in Steps : s <= trained'} \cup {0}
    /\ seen' = [n \in Nodes |-> 0]
    /\ phase' = [n \in Nodes |-> "run"] /\ pass' = [n \in Nodes |-> 1]
    /\ queue' = [n \in Nodes |-> <<>>] /\ failed' = [n \in Nodes |-> {}]
    /\ pc' = [n \in Nodes |-> "idle"] /\ todo' = [n \in Nodes |-> {}]
    /\ intact' = [n \in Nodes |-> TRUE] /\ aside' = [n \in Nodes |-> {}]
    /\ staging' = [k \in Cleared |-> staging[k]]
    /\ neglected' = FALSE /\ UNCHANGED <<final, faults>>

-----------------------------------------------------------------------------
Done == All("done") /\ UNCHANGED vars

TrainStep(n) == OnSave(n) \/ DrainSettle(n) \/ DrainRetry(n) \/ DrainEnd(n)

Agent(n) ==
    \/ CopyStart(n) \/ CopyDone(n) \/ Mark(n)
    \/ List(n) \/ Look(n) \/ Lock(n) \/ SetAside(n) \/ Publish(n) \/ PublishFails(n)
    \/ TrimMirror(n) \/ TrimEnds(n) \/ DropDead(n) \/ DropEnds(n)

Neglects(n) == SettleFails(n) \/ TrimFails(n) \/ DropFails(n)

Step ==
    \/ Save \/ EndTraining \/ Finish \/ Restart \/ Done
    \/ \E n \in Nodes : TrainStep(n) \/ Agent(n)

Next == Step \/ \E n \in Nodes : Neglects(n)

Spec == Init /\ [][Next]_vars

\* The training thread goes on while its guards allow, the worker thread runs, and
\* file operations return.  Nobody is obliged to kill the job.
FairSpec ==
    /\ Spec
    /\ WF_vars(Save \/ EndTraining \/ Finish)
    /\ \A n \in Nodes : WF_vars(TrainStep(n)) /\ WF_vars(Agent(n))

-----------------------------------------------------------------------------
(* Properties.                                                             *)

Whole(s) == \E a \in 0 .. MaxAttempts : WholeShare(a) \subseteq final[s]

\* What a resume reads, the newest checkpoint of the mirror, holds every node's
\* share of one and the same run ("a resume never sees a partial checkpoint").
ResumeIsWhole == Complete # {} => Whole(Max(Complete))

\* A directory appears as checkpoint-N only once every node's share is there.
PublishedWhole == [][\A s \in Complete' \ Complete : Whole(s)']_vars

\* The newest checkpoint of the mirror is never taken away: rotation, republishing
\* and a crash in the middle of either leave one at least as new.
NewestSurvives == [][SetMax(Complete') >= SetMax(Complete)]_vars

\* After drain() and finish() the newest checkpoint of the run is in the mirror
\* ("every node's share is copied and published once all ranks get past here"), and
\* one failing file operation does not change that: drain() retries the copy, every
\* _settle a failed rename.
Delivered == All("done") /\ trained > 0 /\ faults <= 1 => trained \in Complete

\* Except between the two renames that replace a checkpoint, the mirror holds one as
\* new as the newest the run found there, though the second rename may fail.
NeverPoorer ==
    (\A n \in Nodes : aside[n] = {}) => SetMax(Complete) >= SetMax(InitMirror)

\* When a run is over the mirror holds at most `keep' checkpoints, or the newest and the
\* best where those are more, unless _settle could not list, lock or remove something.
MirrorBounded ==
    All("done") /\ Keep # 0 /\ ~neglected =>
        Cardinality(Complete) <= SetMax({Keep, Cardinality({SetMax(Complete), best} \ {0})})

\* Every checkpoint of a run that is not killed gets to the mirror, itself or a newer
\* one.  (Only the last run of the model cannot be killed; it may be a fresh one.)
ReachesMirror ==
    \A s \in Steps :
        attempt = MaxAttempts /\ trained = s ~> SetMax(Complete) >= s
=============================================================================
