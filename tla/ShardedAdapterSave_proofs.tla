---------------------- MODULE ShardedAdapterSave_proofs ----------------------
(***************************************************************************)
(* Proofs about ShardedAdapterSave, for every limit, save_total_limit,     *)
(* number of steps, runs and faults; what depends on at most two           *)
(* consolidations being outstanding says so.                               *)
(***************************************************************************)
EXTENDS ShardedAdapterSave, SetExtrema, FiniteSetTheorems, SequenceTheorems, TLAPS

-----------------------------------------------------------------------------
(* The inductive invariant.                                                *)

\* A checkpoint, or the final adapter, is being written.
Writing(final) == tpc \in {"manifest", "submit"} /\ (target = 0 <=> final)

\* The trainer is at a step whose checkpoint is not saved yet.
Saving == tpc \in {"polling", "capacity", "rest"} \/ Writing(FALSE)

\* on_train_end is over.
After == tpc \in {"ended", "result", "done"} \/ Writing(TRUE)

\* Consolidations of checkpoints; not the final save's.
Queued == DOMAIN future \ {0}

\* Where the trainer is, and which checkpoints there are.
StepInv ==
    /\ base <= step /\ \A s \in saved : s <= step
    /\ Saving => step \notin saved /\ base < step
    /\ Writing(FALSE) \/ tpc = "rest" => target = step
    /\ tpc = "load" =>
           /\ step = base /\ base \in saved \cup {0} /\ DOMAIN future = {}
           /\ deferred = <<>> /\ published = <<>>
           /\ unconsolidated = {} /\ failed = {} /\ rotation = {}

\* What is on disk of a checkpoint that is saved or being saved.
DiskInv ==
    /\ Recoverable
    /\ tpc = "submit" => disk[target] = "shards"
    /\ tpc = "rest" => disk[target] \in {"shards", "both", "adapter"}
    /\ tpc \in {"manifest", "submit", "rest"} => OnDisk \subseteq saved \cup {target}
    /\ tpc \notin {"manifest", "submit", "rest", "raised"} => OnDisk \subseteq saved

\* What was submitted, and when.
SubmitInv ==
    /\ \A p \in DOMAIN future : p <= step
    /\ \A p \in Queued : base < p
    /\ Saving /\ tpc # "rest" => step \notin DOMAIN future
    /\ tpc = "rest" => step \in DOMAIN future
    /\ 0 \in DOMAIN future => tpc \in {"result", "done", "raised"}
    /\ tpc = "result" => 0 \in DOMAIN future
    /\ tpc = "done" => 0 \in DOMAIN future /\ future[0] = "done"
    /\ Writing(TRUE) => Outstanding = {}

\* The queue holds what is outstanding, and its thread works through it in the order of
\* the steps.
QueueInv ==
    /\ job \subseteq Outstanding
    /\ \A i \in DOMAIN workq : workq[i] \in Outstanding
    /\ \A p \in Outstanding : p \in job \/ \E i \in DOMAIN workq : workq[i] = p
    /\ \A i, j \in DOMAIN workq : i < j => workq[i] < workq[j]
    /\ \A p \in job : \A i \in DOMAIN workq : p < workq[i]
    /\ \A p \in Queued, q \in DOMAIN future :
           p < q /\ future[p] = "pending" => future[q] = "pending"

\* A consolidation that is done left the adapter, unless the checkpoint was deleted.
DoneInv ==
    \A p \in DOMAIN future : future[p] = "done" =>
        disk[p] = "adapter" \/ (p # 0 /\ disk[p] = "absent")

\* What the trainer knows of the queue.
GateInv ==
    /\ unconsolidated \subseteq Queued /\ failed \subseteq Queued
    /\ \A p \in Queued : future[p] = "pending" => p \in unconsolidated
    /\ \A p \in Queued \ unconsolidated : p \in failed \/ future[p] = "done"
    /\ \A s \in saved : base < s => s \in Queued
    /\ tpc = "rest" => step \in unconsolidated

\* The on_save events are in order, and every checkpoint of the run is accounted for.
EventInv ==
    /\ \A i \in DOMAIN deferred : deferred[i] \in Queued /\ (Saving => deferred[i] < step)
    /\ \A k \in DOMAIN published : published[k] <= step /\ (Saving => published[k] < step)
    /\ \A i, j \in DOMAIN deferred : i < j => deferred[i] < deferred[j]
    /\ \A k \in DOMAIN published : \A i \in DOMAIN deferred : published[k] < deferred[i]
    /\ \A s \in saved : \A i \in DOMAIN deferred :
           deferred[i] < s => \E j \in DOMAIN deferred : deferred[j] = s
    /\ \A s \in saved : base < s =>
           \/ s \in failed \/ \E k \in DOMAIN published : published[k] = s
           \/ \E i \in DOMAIN deferred : deferred[i] = s
    /\ unconsolidated = {} => deferred = <<>>

\* How many checkpoints rotation leaves.
Bounded ==
    SaveTotalLimit # 0 /\ (\E s \in saved : s > base) =>
        LET c == OnDisk \ failed IN
        Cardinality(c) <= Max({SaveTotalLimit, Cardinality(({Max(c \cup {0}), best}) \ {0})})

\* The deferred rotation is owed as long as something is unconsolidated.
RotationInv ==
    /\ rotation # {} => unconsolidated # {}
    /\ tpc \in {"train", "polling"} => rotation = IF unconsolidated = {} THEN {} ELSE {best}
    /\ After => unconsolidated = {} /\ rotation = {}
    /\ After \/ (tpc \in {"train", "polling"} /\ rotation = {}) => Bounded

\* A complete checkpoint at least as new as the one the run resumed from.
NewestInv == tpc \notin {"load", "raised"} => base = 0 \/ \E s \in Complete : base <= s

IInv ==
    /\ TypeOK /\ StepInv /\ DiskInv /\ SubmitInv /\ QueueInv /\ DoneInv /\ GateInv
    /\ EventInv /\ RotationInv /\ NewestInv

\* With at most two consolidations outstanding: what was not finished when a poll began
\* are the newest checkpoints, no more than two.
Few(S) == \A p, q, r \in S : p < q => ~ q < r

HeldInv ==
    /\ HeldBackIsOnDisk
    /\ Few(Outstanding)
    /\ Writing(FALSE) => \A p, q \in Outstanding : p = q
    /\ tpc = "polling" =>
           /\ Few(unconsolidated \ known)
           /\ \A p \in unconsolidated \ known : \A i \in DOMAIN deferred :
                  p < deferred[i] => deferred[i] \in unconsolidated \ known
-----------------------------------------------------------------------------
(* Lemmas about the operators.                                             *)

\* What the constants are; steps are natural numbers.
LEMMA Numbers ==
    /\ MaxStep \in Nat /\ Paths \subseteq Nat /\ Checkpoints \subseteq Paths /\ 0 \in Paths
    /\ \A p \in Paths : p # 0 => p \in Checkpoints
    /\ \A p \in Checkpoints : p # 0
    /\ MaxFaults \in Nat
  BY SaveAssumption DEF SaveAssumption, Paths, Checkpoints

\* Sets of checkpoints are finite sets of numbers.
LEMMA SomeCheckpoints ==
    ASSUME NEW S, S \subseteq Paths
    PROVE  S \subseteq Nat /\ IsFiniteSet(S)
<1>1. IsFiniteSet(Paths)
  BY Numbers, FS_Interval DEF Paths
<1> QED BY <1>1, Numbers, FS_Subset

\* The empty set and a singleton have at most one element.
LEMMA AtMostOne ==
    /\ Cardinality({}) <= 1
    /\ \A x : Cardinality({x}) <= 1
  BY FS_EmptySet, FS_Singleton

\* The newest of the checkpoints S, or 0.
LEMMA Newest ==
    ASSUME NEW S, S \subseteq Checkpoints
    PROVE  /\ Max(S \cup {0}) \in S \cup {0} /\ Max(S \cup {0}) \in Paths
           /\ \A s \in S : s <= Max(S \cup {0})
<1>1. S \cup {0} \subseteq Paths
  BY Numbers
<1>2. S \cup {0} \subseteq Nat /\ IsFiniteSet(S \cup {0}) /\ S \cup {0} # {}
  BY <1>1, SomeCheckpoints
<1>3. Max(S \cup {0}) \in S \cup {0} /\ \A s \in S \cup {0} : Max(S \cup {0}) >= s
  BY <1>2, MaxIn
<1>4. \A s \in S : s <= Max(S \cup {0})
  BY <1>2, <1>3
<1> QED BY <1>1, <1>3, <1>4

\* Events go out up to the first one whose checkpoint is not consolidated.
LEMMA UpToFirst ==
    ASSUME deferred \in Seq(Checkpoints), NEW still
    PROVE  /\ Releasable(still) \in 0 .. Len(deferred)
           /\ \A i \in 1 .. Releasable(still) : deferred[i] \notin still
           /\ Releasable(still) < Len(deferred) => deferred[Releasable(still) + 1] \in still
<1> DEFINE S == {k \in 0 .. Len(deferred) : \A i \in 1 .. k : deferred[i] \notin still}
<1>1. Len(deferred) \in Nat
  OBVIOUS
<1>2. S \subseteq Nat /\ 0 \in S
  BY <1>1
<1>3. IsFiniteSet(S)
  <2>1. S \in SUBSET (0 .. Len(deferred)) /\ IsFiniteSet(0 .. Len(deferred))
    BY <1>1, FS_Interval
  <2> QED BY <2>1, FS_Subset
<1>4. Max(S) \in S /\ \A k \in S : Max(S) >= k
  BY <1>2, <1>3, MaxIn
<1>5. Releasable(still) = Max(S)
  BY DEF Releasable
<1> DEFINE m == Max(S)
<1>6. m \in 0 .. Len(deferred) /\ \A i \in 1 .. m : deferred[i] \notin still
  BY <1>4
<1>7. ASSUME m < Len(deferred), deferred[m + 1] \notin still PROVE FALSE
  <2>1. m + 1 \in 0 .. Len(deferred) /\ \A i \in 1 .. m + 1 : i \in 1 .. m \/ i = m + 1
    <3> HIDE DEF m
    <3> QED BY <1>1, <1>6, <1>7
  <2>2. \A i \in 1 .. m + 1 : deferred[i] \notin still
    BY <1>6, <1>7, <2>1
  <2>3. m + 1 \in S
    BY <2>1, <2>2
  <2> HIDE DEF m
  <2>4. m >= m + 1 /\ m \in Nat
    BY <1>4, <1>6, <2>3 DEF m
  <2> QED BY <2>4
<1> QED BY <1>5, <1>6, <1>7

\* Rotation removes checkpoints that count, never the newest of these.
LEMMA VictimsAreOld ==
    ASSUME NEW excluded, NEW b, NEW v \in Victims(excluded, b)
    PROVE  /\ v \in OnDisk \ excluded
           /\ Max(OnDisk \ excluded) \in OnDisk \ excluded
           /\ Max(OnDisk \ excluded) \notin Victims(excluded, b)
           /\ \A s \in OnDisk \ excluded : s <= Max(OnDisk \ excluded)
<1>1. v \in OnDisk \ excluded
  BY DEF Victims
<1>2. OnDisk \ excluded \subseteq Paths
  BY Numbers DEF OnDisk
<1>3. OnDisk \ excluded \subseteq Nat /\ IsFiniteSet(OnDisk \ excluded)
  BY <1>2, SomeCheckpoints
<1>4. /\ Max(OnDisk \ excluded) \in OnDisk \ excluded
      /\ \A s \in OnDisk \ excluded : Max(OnDisk \ excluded) >= s
  BY <1>1, <1>3, MaxIn
<1>5. \A s \in OnDisk \ excluded : s <= Max(OnDisk \ excluded)
  BY <1>3, <1>4
<1>6. Max(OnDisk \ excluded) \notin Victims(excluded, b)
  BY DEF Victims
<1> QED BY <1>1, <1>4, <1>5, <1>6

\* What rotation removes when the poll reports the paths F as finished.
Gone(F) ==
    IF rotation # {} /\ F # {}
    THEN Victims(Excluded(unconsolidated \ F, failed \cup {p \in F : ~Succeeded(p)}), Max(rotation))
    ELSE {}

\* What a release does to the trainer's sets and to the disk.
LEMMA ReleaseFacts ==
    ASSUME TypeOK, NEW F, Release(F)
    PROVE  /\ unconsolidated' = unconsolidated \ F
           /\ failed' = failed \cup {p \in F : ~Succeeded(p)}
           /\ rotation' = IF rotation # {} /\ F # {} /\ unconsolidated' = {} THEN {} ELSE rotation
           /\ disk' = [p \in Paths |-> IF p \in Gone(F) THEN "absent" ELSE disk[p]]
           /\ saved' = saved \ Gone(F)
           /\ Gone(F) \subseteq OnDisk \ (unconsolidated' \cup failed')
  BY DEF Release, Gone, Excluded, StillOwed, Victims

\* What a release does to the held back events: the first k of them go out.
LEMMA ReleasedEvents ==
    ASSUME TypeOK, NEW F, Release(F), unconsolidated' = unconsolidated \ F,
           failed' = failed \cup {p \in F : ~Succeeded(p)}
    PROVE  \E k \in 0 .. Len(deferred) :
           /\ \A i \in 1 .. k : deferred[i] \notin unconsolidated'
           /\ k < Len(deferred) => deferred[k + 1] \in unconsolidated'
           /\ deferred' \in Seq(Checkpoints) /\ Len(deferred') = Len(deferred) - k
           /\ \A i \in 1 .. Len(deferred) - k : deferred'[i] = deferred[i + k]
           /\ published' \in Seq(Paths) /\ Len(published') = Len(published) + k
           /\ \A j \in 1 .. Len(published) : published'[j] = published[j]
           /\ \A i \in 1 .. k : published'[Len(published) + i] =
                  IF deferred[i] \in failed' THEN 0 ELSE deferred[i]
<1> DEFINE k == Releasable(unconsolidated \ F)
           out == ToPublish(k, failed')
<1>1. deferred \in Seq(Checkpoints) /\ published \in Seq(Paths)
  BY DEF TypeOK
<1>2. /\ k \in 0 .. Len(deferred) /\ \A i \in 1 .. k : deferred[i] \notin unconsolidated'
      /\ k < Len(deferred) => deferred[k + 1] \in unconsolidated'
  BY <1>1, UpToFirst
<1>3. published' = published \o out /\ deferred' = SubSeq(deferred, k + 1, Len(deferred))
  BY DEF Release
<1> HIDE DEF k
<1>4. out \in Seq(Paths) /\ Len(out) = k
      /\ \A i \in 1 .. k : out[i] = IF deferred[i] \in failed' THEN 0 ELSE deferred[i]
  <2>1. out = [i \in 1 .. k |-> IF deferred[i] \in failed' THEN 0 ELSE deferred[i]]
    BY DEF ToPublish
  <2>2. \A i \in 1 .. k : (IF deferred[i] \in failed' THEN 0 ELSE deferred[i]) \in Paths
    <3>1. \A i \in 1 .. k : deferred[i] \in Checkpoints
      BY <1>1, <1>2
    <3> QED BY <3>1, Numbers
  <2> HIDE DEF out
  <2>3. out \in Seq(Paths)
    BY <1>2, <2>1, <2>2
  <2>4. Len(out) = k
    BY <1>2, <2>1, <2>3
  <2> QED BY <2>1, <2>3, <2>4
<1> HIDE DEF out
<1>5. /\ published' \in Seq(Paths) /\ Len(published') = Len(published) + k
      /\ \A j \in 1 .. Len(published) : published'[j] = published[j]
      /\ \A i \in 1 .. k : published'[Len(published) + i] = out[i]
  <2>1. /\ published' \in Seq(Paths) /\ Len(published') = Len(published) + Len(out)
        /\ Len(published) \in Nat /\ Len(out) \in Nat
    <3>1. published \o out \in Seq(Paths) /\ Len(published \o out) = Len(published) + Len(out)
      BY <1>1, <1>4, ConcatProperties
    <3>2. Len(published) \in Nat /\ Len(out) \in Nat
      BY <1>1, <1>4, LenProperties
    <3> QED BY <1>3, <3>1, <3>2
  <2>2. \A j \in 1 .. Len(published) + Len(out) : published'[j] =
            IF j <= Len(published) THEN published[j] ELSE out[j - Len(published)]
    BY <1>1, <1>3, <1>4, ConcatProperties
  <2>3. \A j \in 1 .. Len(published) : published'[j] = published[j]
    BY <2>1, <2>2
  <2>4. ASSUME NEW i \in 1 .. k PROVE published'[Len(published) + i] = out[i]
    <3>1. /\ Len(published) + i \in 1 .. Len(published) + Len(out)
          /\ ~ Len(published) + i <= Len(published)
          /\ Len(published) + i - Len(published) = i
      BY <1>2, <1>4, <2>1
    <3> QED BY <2>2, <3>1
  <2> QED BY <1>4, <2>1, <2>3, <2>4
<1>6. /\ deferred' \in Seq(Checkpoints) /\ Len(deferred') = Len(deferred) - k
      /\ \A i \in 1 .. Len(deferred) - k : deferred'[i] = deferred[i + k]
  BY <1>1, <1>2, <1>3
<1>7. \A i \in 1 .. k : published'[Len(published) + i] =
           IF deferred[i] \in failed' THEN 0 ELSE deferred[i]
  BY <1>4, <1>5
<1> QED BY <1>2, <1>5, <1>6, <1>7

-----------------------------------------------------------------------------
(* What a step that leaves a part alone keeps.                             *)

\* What is on disk depends on the disk and the saved checkpoints only.
LEMMA SameDisk ==
    ASSUME UNCHANGED <<disk, saved>>
    PROVE  OnDisk' = OnDisk /\ Complete' = Complete /\ Recoverable' = Recoverable
  BY DEF OnDisk, Complete, Recoverable

\* So does the bound on what rotation leaves, and on what has failed.
LEMMA SameBound ==
    ASSUME UNCHANGED <<saved, base, failed, best>>, OnDisk' = OnDisk
    PROVE  Bounded' = Bounded
  BY DEF Bounded

\* What is queued and outstanding depends on the futures only.
LEMMA SameQueue ==
    ASSUME UNCHANGED future
    PROVE  Queued' = Queued /\ Outstanding' = Outstanding
  BY DEF Queued, Outstanding

-----------------------------------------------------------------------------
(* The worker's steps.                                                     *)

\* The thread works on the oldest consolidation that is outstanding.
LEMMA InOrder ==
    ASSUME IInv, NEW p, job = {p}
    PROVE  /\ p \in DOMAIN future /\ p \in Paths /\ future[p] = "pending"
           /\ \A q \in Queued : q < p => future[q] # "pending"
<1>1. p \in DOMAIN future /\ p \in Paths /\ future[p] = "pending"
  BY DEF IInv, TypeOK, QueueInv, Outstanding
<1>2. ASSUME NEW q \in Queued, q < p, future[q] = "pending" PROVE FALSE
  <2>1. q \in DOMAIN future /\ q \in Nat /\ p \in Nat
    BY <1>1, Numbers DEF Queued, IInv, TypeOK
  <2>2. q \in Outstanding /\ q # p
    BY <1>2, <2>1 DEF Outstanding
  <2>3. p < q
    BY <2>2 DEF IInv, QueueInv
  <2> QED BY <1>2, <2>1, <2>3
<1> QED BY <1>1, <1>2

\* A consolidation ends.
LEMMA FinishFacts ==
    ASSUME IInv, NEW p, job = {p}, NEW result \in {"done", "failed"}, Finish(p, result)
    PROVE  /\ DOMAIN future' = DOMAIN future /\ workq' = workq /\ job' = {}
           /\ future'[p] = result
           /\ \A q \in DOMAIN future : q # p => future'[q] = future[q]
           /\ Outstanding' = Outstanding \ {p} /\ Queued' = Queued
           /\ QueueInv'
<1>1. /\ p \in DOMAIN future /\ p \in Paths /\ future[p] = "pending"
      /\ \A q \in Queued : q < p => future[q] # "pending"
  BY InOrder
<1>2. /\ DOMAIN future' = DOMAIN future /\ workq' = workq /\ job' = {}
      /\ future'[p] = result /\ \A q \in DOMAIN future : q # p => future'[q] = future[q]
  BY <1>1 DEF Finish
<1>3. Outstanding' = Outstanding \ {p} /\ Queued' = Queued
  BY <1>2 DEF Outstanding, Queued
<1>4. QueueInv'
  <2>1. job' \subseteq Outstanding' /\ \A q \in job' : \A i \in DOMAIN workq' : q < workq'[i]
    BY <1>2
  <2>2. ASSUME NEW i \in DOMAIN workq' PROVE workq'[i] \in Outstanding'
    <3>1. i \in DOMAIN workq /\ workq[i] \in Outstanding /\ p < workq[i] /\ p \in Nat
      BY <1>1, <1>2, Numbers DEF IInv, QueueInv
    <3>2. workq[i] # p
      BY <3>1
    <3> QED BY <1>2, <1>3, <3>1, <3>2
  <2>3. \A q \in Outstanding' : q \in job' \/ \E i \in DOMAIN workq' : workq'[i] = q
    BY <1>2, <1>3 DEF IInv, QueueInv
  <2>4. \A i, j \in DOMAIN workq' : i < j => workq'[i] < workq'[j]
    BY <1>2 DEF IInv, QueueInv
  <2>5. ASSUME NEW q \in Queued', NEW r \in DOMAIN future', q < r, future'[q] = "pending"
        PROVE  future'[r] = "pending"
    <3>1. q \in Queued /\ q \in DOMAIN future /\ r \in DOMAIN future /\ q # p
      BY <1>2, <1>3, <2>5 DEF Queued
    <3>2. future[q] = "pending"
      BY <1>2, <2>5, <3>1
    <3>3. future[r] = "pending" /\ r # p
      BY <1>1, <2>5, <3>1, <3>2 DEF IInv, QueueInv
    <3> QED BY <1>2, <3>1, <3>3
  <2> QED BY <2>1, <2>2, <2>3, <2>4, <2>5 DEF QueueInv
<1> QED BY <1>2, <1>3, <1>4

\* What a step of the thread does to the disk and to the statuses.
LEMMA WorkerFacts ==
    ASSUME IInv, NEW p, Assemble(p) \/ DropShards(p)
    PROVE  /\ UNCHANGED <<run, base, step, best, tpc, target, known, gateVars, saved, workq>>
           /\ faults' \in 0 .. MaxFaults /\ job' \in {job, {}}
           /\ disk' \in [Paths -> DiskStates]
           /\ \A q \in Paths : \/ disk'[q] = disk[q]
                               \/ q = p /\ disk[q] = "shards" /\ disk'[q] = "both"
                               \/ q = p /\ disk[q] = "both" /\ disk'[q] = "adapter"
           /\ p \in DOMAIN future /\ p \in Paths /\ future[p] = "pending"
           /\ DOMAIN future' = DOMAIN future
           /\ \A q \in DOMAIN future : q # p => future'[q] = future[q]
           /\ future'[p] \in {"pending", "done", "failed"}
           /\ future'[p] = "done" => disk'[p] = "adapter"
           /\ Queued' = Queued /\ Outstanding' \subseteq Outstanding
           /\ QueueInv'
<1>1. job = {p} /\ UNCHANGED <<run, base, step, best, tpc, target, known, gateVars, saved>>
  BY DEF Assemble, DropShards
<1>2. /\ p \in DOMAIN future /\ p \in Paths /\ future[p] = "pending"
  BY <1>1, InOrder
<1>3. disk \in [Paths -> DiskStates] /\ faults \in 0 .. MaxFaults /\ MaxFaults \in Nat /\ QueueInv
  BY Numbers DEF IInv, TypeOK
<1>4. CASE disk[p] = "shards" /\ disk' = [disk EXCEPT ![p] = "both"] /\ NoFault
           /\ UNCHANGED queueVars
  <2>1. QueueInv' /\ Queued' = Queued /\ Outstanding' = Outstanding
    BY <1>3, <1>4 DEF queueVars, QueueInv, Queued, Outstanding
  <2> QED BY <1>1, <1>2, <1>3, <1>4, <2>1 DEF NoFault, queueVars, DiskStates
<1>5. CASE disk' = disk /\ Finish(p, "failed") /\ (Fault \/ NoFault)
  <2> QED BY <1>1, <1>2, <1>3, <1>5, FinishFacts DEF Fault, NoFault
<1>6. CASE disk[p] = "both" /\ disk' = [disk EXCEPT ![p] = "adapter"] /\ Finish(p, "done") /\ NoFault
  <2> QED BY <1>1, <1>2, <1>3, <1>6, FinishFacts DEF NoFault, DiskStates
<1> QED BY <1>4, <1>5, <1>6 DEF Assemble, DropShards, Replaced

-----------------------------------------------------------------------------
(* The trainer's steps, a restart, and those of the thread.                 *)

\* A step has ended: its checkpoint is not saved, nor was it ever submitted.
LEMMA StepEndsKeeps ==
    ASSUME IInv, StepEnds
    PROVE  IInv'
<1>1. TypeOK'
  <2>1. step' \in Paths /\ tpc' = "polling" /\ known' \subseteq Checkpoints
    BY SaveAssumption DEF SaveAssumption, IInv, TypeOK, StepEnds, FinishedNow, Paths
  <2> QED BY <2>1 DEF IInv, TypeOK, StepEnds, vars, gateVars, queueVars
<1>2. StepInv'
  BY Numbers DEF IInv, TypeOK, StepInv, Writing, StepEnds
<1>3. DiskInv'
  BY DEF IInv, DiskInv, Recoverable, OnDisk, StepEnds
<1>4. SubmitInv'
  <2>1. step \in Nat /\ base \in Nat /\ step' = step + 1 /\ tpc = "train" /\ tpc' = "polling"
        /\ base' = base /\ \A p \in DOMAIN future : p \in Nat
    BY Numbers DEF IInv, TypeOK, StepEnds
  <2>2. Queued' = Queued /\ Outstanding' = Outstanding /\ future' = future
    BY SameQueue DEF StepEnds, queueVars
  <2>3. \A p \in DOMAIN future : p <= step /\ (p # 0 => base < p) /\ p # 0
    BY <2>1 DEF IInv, SubmitInv, Queued
  <2>4. \A p \in DOMAIN future : p <= step' /\ p # step'
    BY <2>1, <2>3
  <2> QED BY <2>1, <2>2, <2>3, <2>4 DEF SubmitInv, Saving, Writing, Queued
<1>5. QueueInv'
  BY DEF IInv, QueueInv, Queued, Outstanding, queueVars, StepEnds
<1>6. DoneInv'
  BY DEF IInv, DoneInv, queueVars, StepEnds
<1>7. GateInv'
  BY DEF IInv, GateInv, Queued, gateVars, queueVars, StepEnds
<1>8. EventInv'
  <2>1. step \in Nat /\ step' = step + 1 /\ \A p \in Queued : p \in Nat
    BY Numbers DEF IInv, TypeOK, StepEnds, Queued
  <2>2. Queued' = Queued
    BY SameQueue DEF StepEnds, queueVars
  <2>3. \A i \in DOMAIN deferred : deferred[i] \in Queued /\ deferred[i] < step'
    BY <2>1 DEF IInv, EventInv, SubmitInv, Queued
  <2>4. ASSUME NEW k \in DOMAIN published PROVE published[k] <= step' /\ published[k] < step'
    <3>1. published[k] <= step
      BY DEF IInv, EventInv
    <3>2. published[k] \in Paths
      BY DEF IInv, TypeOK
    <3>3. published[k] \in Nat
      BY <3>2, Numbers
    <3> QED BY <2>1, <3>1, <3>3
  <2> QED BY <2>2, <2>3, <2>4 DEF IInv, EventInv, StepEnds, vars, gateVars, queueVars
<1>9. RotationInv'
  BY SameDisk, SameBound DEF IInv, RotationInv, After, Writing, gateVars, StepEnds
<1>10. NewestInv'
  BY DEF IInv, NewestInv, Complete, StepEnds
<1> QED BY <1>1, <1>2, <1>3, <1>4, <1>5, <1>6, <1>7, <1>8, <1>9, <1>10 DEF IInv

\* The shard directory is made anew, of a checkpoint that is not saved yet.
LEMMA WriteShardsKeeps ==
    ASSUME IInv, WriteShards
    PROVE  IInv'
<1>1. TypeOK'
  BY SaveAssumption DEF IInv, SaveAssumption, TypeOK, Paths, DiskStates, gateVars, queueVars,
         WriteShards
<1>2. StepInv'
  BY DEF IInv, StepInv, Saving, Writing, WriteShards
<1>3. DiskInv'
  BY Numbers DEF IInv, StepInv, DiskInv, Recoverable, OnDisk, Saving, Writing, WriteShards
<1>4. SubmitInv'
  BY Numbers DEF IInv, StepInv, SubmitInv, Saving, Writing, Queued, Outstanding, queueVars,
         WriteShards
<1>5. QueueInv'
  BY DEF IInv, QueueInv, Queued, Outstanding, queueVars, WriteShards
<1>6. DoneInv'
  BY DEF IInv, DoneInv, SubmitInv, Saving, Writing, queueVars, WriteShards
<1>7. GateInv'
  BY DEF IInv, GateInv, Queued, gateVars, queueVars, WriteShards
<1>8. EventInv'
  BY DEF IInv, EventInv, Saving, Writing, Queued, gateVars, queueVars, WriteShards
<1>9. RotationInv'
  <2>1. /\ rotation' = rotation /\ unconsolidated' = unconsolidated
        /\ \/ tpc = "capacity" /\ target' = step
           \/ tpc = "ended" /\ target' = 0
        /\ tpc' = "manifest" /\ UNCHANGED <<saved, base, failed, best>>
        /\ disk' = [disk EXCEPT ![target'] = "partial"]
    BY DEF WriteShards, vars, gateVars, queueVars
  <2>2. CASE tpc = "capacity" /\ target' = step
    BY <2>1, <2>2, Numbers DEF IInv, TypeOK, StepInv, Saving, RotationInv, After, Writing
  <2>3. CASE tpc = "ended" /\ target' = 0
    <3>1. OnDisk' = OnDisk
      BY <2>1, <2>3, Numbers DEF IInv, TypeOK, OnDisk
    <3> QED BY <2>1, <2>3, <3>1, SameBound DEF IInv, RotationInv, After
  <2> QED BY <2>1, <2>2, <2>3
<1>10. NewestInv'
  BY Numbers DEF IInv, StepInv, NewestInv, Complete, Saving, Writing, WriteShards
<1> QED BY <1>1, <1>2, <1>3, <1>4, <1>5, <1>6, <1>7, <1>8, <1>9, <1>10 DEF IInv

\* The manifest completes the shards, or they go and every rank raises.
LEMMA WriteManifestKeeps ==
    ASSUME IInv, WriteManifest
    PROVE  IInv'
<1>1. TypeOK'
  <2>1. /\ tpc' \in {"submit", "raised"} /\ faults' \in 0 .. MaxFaults
        /\ disk' \in [Paths -> DiskStates]
    BY Numbers DEF IInv, TypeOK, WriteManifest, Fault, NoFault, DiskStates
  <2> QED BY <2>1 DEF IInv, TypeOK, WriteManifest, vars, gateVars, queueVars
<1>2. StepInv'
  BY DEF IInv, StepInv, Saving, Writing, WriteManifest
<1>3. DiskInv'
  <2>1. /\ target \notin saved /\ target \in Paths /\ disk \in [Paths -> DiskStates]
        /\ saved \subseteq Checkpoints /\ OnDisk \subseteq saved \cup {target} /\ Recoverable
        /\ tpc = "manifest"
    BY Numbers DEF IInv, TypeOK, DiskInv, StepInv, Saving, Writing, WriteManifest
  <2>2. UNCHANGED <<saved, target>>
    BY DEF WriteManifest
  <2>3. CASE disk' = [disk EXCEPT ![target] = "shards"] /\ tpc' = "submit"
    BY <2>1, <2>2, <2>3, Numbers DEF DiskInv, Recoverable, OnDisk
  <2>4. CASE disk' = [disk EXCEPT ![target] = "absent"] /\ tpc' = "raised"
    BY <2>1, <2>2, <2>4, Numbers DEF DiskInv, Recoverable, OnDisk
  <2> QED BY <2>3, <2>4 DEF WriteManifest
<1>4. SubmitInv'
  BY DEF IInv, SubmitInv, Saving, Writing, Queued, Outstanding, queueVars, WriteManifest
<1>5. QueueInv'
  BY DEF IInv, QueueInv, Queued, Outstanding, queueVars, WriteManifest
<1>6. DoneInv'
  BY DEF IInv, TypeOK, DoneInv, StepInv, SubmitInv, Saving, Writing, queueVars, WriteManifest
<1>7. GateInv'
  BY DEF IInv, GateInv, Queued, gateVars, queueVars, WriteManifest
<1>8. EventInv'
  BY DEF IInv, EventInv, Saving, Writing, Queued, gateVars, queueVars, WriteManifest
<1>9. RotationInv'
  <2>1. /\ rotation' = rotation /\ unconsolidated' = unconsolidated /\ target' = target
        /\ tpc = "manifest" /\ tpc' \in {"submit", "raised"} /\ target \in Paths
        /\ UNCHANGED <<saved, base, failed, best>>
        /\ \E x : disk' = [disk EXCEPT ![target] = x]
    BY DEF WriteManifest, vars, gateVars, queueVars, IInv, TypeOK
  <2>2. target = 0 => OnDisk' = OnDisk
    BY <2>1, Numbers DEF IInv, TypeOK, OnDisk
  <2> QED BY <2>1, <2>2, SameBound DEF IInv, RotationInv, After, Writing
<1>10. NewestInv'
  BY Numbers DEF IInv, TypeOK, StepInv, NewestInv, Complete, Saving, Writing, WriteManifest
<1> QED BY <1>1, <1>2, <1>3, <1>4, <1>5, <1>6, <1>7, <1>8, <1>9, <1>10 DEF IInv

\* What is submitted is newer than all the consolidations in the queue.
LEMMA SubmitKeeps ==
    ASSUME IInv, Submit
    PROVE  IInv'
<1>1. TypeOK'
  <2>1. /\ tpc' \in {"result", "rest", "raised"} /\ faults' \in 0 .. MaxFaults
        /\ unconsolidated' \subseteq Checkpoints
    BY Numbers DEF IInv, TypeOK, Submit, Fault, NoFault
  <2>2. target \in Paths /\ DOMAIN future \subseteq Paths /\ workq \in Seq(Paths)
    BY DEF IInv, TypeOK
  <2>3. DOMAIN future' \subseteq Paths /\ workq' \in Seq(Paths)
    BY <2>2 DEF Submit
  <2>4. ASSUME NEW p \in DOMAIN future' PROVE future'[p] \in {"pending", "done", "failed"}
    <3>1. CASE future' = future
      BY <3>1 DEF IInv, TypeOK
    <3>2. CASE future' = [q \in DOMAIN future \cup {target} |->
                             IF q = target THEN "pending" ELSE future[q]]
      BY <2>4, <3>2 DEF IInv, TypeOK
    <3> QED BY <3>1, <3>2 DEF Submit
  <2> QED BY <2>1, <2>3, <2>4 DEF IInv, TypeOK, Submit, vars, gateVars, queueVars
<1>2. StepInv'
  BY DEF IInv, StepInv, Saving, Writing, Submit
<1>3. DiskInv'
  BY Numbers DEF IInv, DiskInv, Recoverable, OnDisk, Submit
<1>4. SubmitInv'
  BY Numbers DEF IInv, StepInv, SubmitInv, Saving, Writing, Queued, Outstanding, Submit, NoFault
<1>5. QueueInv'
  <2>1. CASE UNCHANGED <<future, workq>>
    BY <2>1, SameQueue DEF IInv, QueueInv, Submit
  <2>2. CASE /\ future' = [p \in DOMAIN future \cup {target} |->
                             IF p = target THEN "pending" ELSE future[p]]
             /\ workq' = Append(workq, target)
    <3>1. /\ target \in Nat /\ step \in Nat /\ workq \in Seq(Paths) /\ job' = job
          /\ \A p \in DOMAIN future : p \in Nat
      BY Numbers DEF IInv, TypeOK, Submit
    <3>2. target \notin DOMAIN future /\ \A p \in Outstanding : p < target
      <4>1. CASE target = 0
        BY <4>1 DEF IInv, Submit, SubmitInv, Writing
      <4>2. CASE target # 0
        <5>1. target = step /\ target \notin DOMAIN future
          BY <4>2 DEF IInv, Submit, SubmitInv, StepInv, Saving, Writing
        <5>2. ASSUME NEW p \in Outstanding PROVE p < target
          <6>1. p \in DOMAIN future /\ p <= step
            BY DEF Outstanding, IInv, SubmitInv
          <6> QED BY <3>1, <5>1, <6>1
        <5> QED BY <5>1, <5>2
      <4> QED BY <4>1, <4>2
    <3>3. /\ Outstanding' = Outstanding \cup {target} /\ DOMAIN future' = DOMAIN future \cup {target}
          /\ \A p \in DOMAIN future : future'[p] = future[p]
          /\ future'[target] = "pending"
      BY <2>2, <3>2 DEF Outstanding
    <3>4. /\ Len(workq) \in Nat /\ DOMAIN workq = 1 .. Len(workq)
          /\ DOMAIN workq' = 1 .. Len(workq) + 1 /\ workq'[Len(workq) + 1] = target
          /\ \A i \in DOMAIN workq : workq'[i] = workq[i]
      BY <2>2, <3>1
    <3>5. QueueInv
      BY DEF IInv
    <3>6. job' \subseteq Outstanding' /\ \A i \in DOMAIN workq' : workq'[i] \in Outstanding'
      BY <3>1, <3>3, <3>4, <3>5 DEF QueueInv
    <3>7. ASSUME NEW p \in Outstanding' PROVE p \in job' \/ \E i \in DOMAIN workq' : workq'[i] = p
      <4>1. CASE p = target
        <5>1. Len(workq) + 1 \in DOMAIN workq'
          BY <3>4
        <5> QED BY <3>4, <4>1, <5>1
      <4>2. CASE p \in Outstanding
        <5>1. p \in job \/ \E i \in DOMAIN workq : workq[i] = p
          BY <3>5, <4>2 DEF QueueInv
        <5>2. \A i \in DOMAIN workq : i \in DOMAIN workq' /\ workq'[i] = workq[i]
          BY <3>4
        <5> QED BY <3>1, <5>1, <5>2
      <4> QED BY <3>3, <3>7, <4>1, <4>2
    <3>8. ASSUME NEW i \in DOMAIN workq', NEW j \in DOMAIN workq', i < j
          PROVE  workq'[i] < workq'[j]
      <4>1. i \in DOMAIN workq /\ workq[i] \in Outstanding
        BY <3>4, <3>5, <3>8 DEF QueueInv
      <4>2. CASE j \in DOMAIN workq
        BY <3>4, <3>5, <3>8, <4>1, <4>2 DEF QueueInv
      <4>3. CASE j = Len(workq) + 1
        BY <3>2, <3>4, <4>1, <4>3
      <4> QED BY <3>4, <4>2, <4>3
    <3>9. ASSUME NEW p \in job', NEW i \in DOMAIN workq' PROVE p < workq'[i]
      <4>1. p \in job /\ p \in Outstanding
        BY <3>1, <3>5 DEF QueueInv
      <4>2. CASE i \in DOMAIN workq
        BY <3>4, <3>5, <4>1, <4>2 DEF QueueInv
      <4>3. CASE i = Len(workq) + 1
        BY <3>2, <3>4, <4>1, <4>3
      <4> QED BY <3>4, <4>2, <4>3
    <3>10. ASSUME NEW p \in Queued', NEW q \in DOMAIN future', p < q, future'[p] = "pending"
           PROVE  future'[q] = "pending"
      <4>1. CASE q = target
        BY <3>3, <4>1
      <4>2. CASE q # target /\ p = target
        <5>1. q \in DOMAIN future /\ target # 0
          BY <3>3, <4>2 DEF Queued
        <5>2. target = step /\ q <= step
          BY <5>1 DEF IInv, Submit, SubmitInv, StepInv, Saving, Writing
        <5> QED BY <3>1, <3>10, <4>2, <5>1, <5>2
      <4>3. CASE q # target /\ p # target
        BY <3>3, <3>5, <3>10, <4>3 DEF QueueInv, Queued
      <4> QED BY <4>1, <4>2, <4>3
    <3> QED BY <3>6, <3>7, <3>8, <3>9, <3>10 DEF QueueInv
  <2> QED BY <2>1, <2>2 DEF Submit
<1>6. DoneInv'
  BY DEF IInv, DoneInv, Submit
<1>7. GateInv'
  <2>1. GateInv /\ UNCHANGED <<base, step, failed, saved>> /\ tpc = "submit"
    BY DEF IInv, Submit
  <2>2. CASE tpc' = "raised" /\ UNCHANGED <<future, unconsolidated>>
    BY <2>1, <2>2, SameQueue DEF GateInv
  <2>3. CASE /\ future' = [p \in DOMAIN future \cup {target} |->
                             IF p = target THEN "pending" ELSE future[p]]
             /\ tpc' = (IF target = 0 THEN "result" ELSE "rest")
             /\ unconsolidated' = IF target = 0 THEN unconsolidated ELSE unconsolidated \cup {target}
    <3>1. target \notin DOMAIN future /\ (target # 0 => target = step)
      BY <2>1 DEF IInv, SubmitInv, StepInv, Saving, Writing, Outstanding
    <3>2. /\ Queued' = Queued \cup ({target} \ {0})
          /\ \A p \in Queued : future'[p] = future[p] /\ p # target
          /\ target # 0 => future'[target] = "pending"
      BY <2>3, <3>1 DEF Queued
    <3>3. \A p \in Queued' : future'[p] = "pending" => p \in unconsolidated'
      BY <2>1, <2>3, <3>2 DEF GateInv
    <3>4. \A p \in Queued' \ unconsolidated' : p \in failed' \/ future'[p] = "done"
      BY <2>1, <2>3, <3>2 DEF GateInv
    <3>5. unconsolidated' \subseteq Queued' /\ failed' \subseteq Queued'
      BY <2>1, <2>3, <3>2 DEF GateInv
    <3>6. tpc' = "rest" => step' \in unconsolidated'
      BY <2>1, <2>3, <3>1
    <3> QED BY <2>1, <3>2, <3>3, <3>4, <3>5, <3>6 DEF GateInv
  <2> QED BY <2>2, <2>3 DEF Submit
<1>8. EventInv'
  <2>1. /\ EventInv /\ UNCHANGED <<base, step, failed, deferred, published, saved>>
        /\ tpc = "submit" /\ tpc' \in {"raised", "result", "rest"} /\ target' = target
        /\ tpc' = "rest" => target # 0
        /\ Queued \subseteq Queued' /\ (unconsolidated' = {} => unconsolidated = {})
    BY DEF IInv, Submit, vars, gateVars, queueVars, Queued
  <2>2. Saving' => Saving
    BY <2>1 DEF Saving, Writing
  <2> QED BY <2>1, <2>2 DEF EventInv
<1>9. RotationInv'
  BY SameDisk, SameBound DEF IInv, RotationInv, After, Writing, Submit
<1>10. NewestInv'
  BY DEF IInv, NewestInv, Complete, Submit
<1> QED BY <1>1, <1>2, <1>3, <1>4, <1>5, <1>6, <1>7, <1>8, <1>9, <1>10 DEF IInv

\* The checkpoint is saved: its event is held back last, and its rotation is owed.
LEMMA FinishSaveKeeps ==
    ASSUME IInv, FinishSave
    PROVE  IInv'
<1>1. TypeOK'
  <2>1. step \in Checkpoints
    BY Numbers DEF IInv, TypeOK, FinishSave, StepInv, Saving
  <2>2. saved' \subseteq Checkpoints /\ deferred' \in Seq(Checkpoints) /\ tpc' = "train"
    BY <2>1 DEF IInv, TypeOK, FinishSave
  <2>3. rotation' \in SUBSET Paths /\ Cardinality(rotation') <= 1
    BY AtMostOne DEF IInv, TypeOK, FinishSave, DeferredRotation
  <2> QED BY <2>2, <2>3 DEF IInv, TypeOK, FinishSave, vars, gateVars, queueVars
<1>2. StepInv'
  BY Numbers DEF IInv, TypeOK, StepInv, Saving, Writing, FinishSave
<1>3. DiskInv'
  BY DEF IInv, StepInv, DiskInv, Recoverable, OnDisk, FinishSave
<1>4. SubmitInv'
  BY DEF IInv, SubmitInv, Saving, Writing, Queued, queueVars, FinishSave
<1>5. QueueInv'
  BY DEF IInv, QueueInv, Queued, Outstanding, queueVars, FinishSave
<1>6. DoneInv'
  BY DEF IInv, DoneInv, FinishSave, vars, gateVars, queueVars
<1>7. GateInv'
  BY DEF IInv, GateInv, Queued, queueVars, FinishSave
<1>8. EventInv'
  <2>1. /\ EventInv /\ UNCHANGED <<base, step, failed, published, future, unconsolidated>>
        /\ tpc = "rest" /\ tpc' = "train" /\ saved' = saved \cup {step}
        /\ deferred' = Append(deferred, step)
    BY DEF IInv, FinishSave, vars, gateVars, queueVars
  <2>2. /\ step \in Nat /\ deferred \in Seq(Checkpoints) /\ saved \subseteq Nat
        /\ \A s \in saved : s <= step
    BY Numbers DEF IInv, TypeOK, StepInv, Saving, FinishSave
  <2>3. /\ Len(deferred) \in Nat /\ DOMAIN deferred = 1 .. Len(deferred)
        /\ DOMAIN deferred' = 1 .. Len(deferred) + 1 /\ deferred'[Len(deferred) + 1] = step
        /\ \A i \in DOMAIN deferred : deferred'[i] = deferred[i]
        /\ Len(deferred) + 1 \in DOMAIN deferred'
    BY <2>1, <2>2
  <2>4. Queued' = Queued /\ step \in Queued /\ ~ Saving' /\ Saving /\ step \in unconsolidated
    BY <2>1, <2>2, SameQueue DEF Queued, IInv, SubmitInv, GateInv, Saving, Writing
  <2>5. \A i \in DOMAIN deferred : deferred[i] < step /\ deferred[i] \in Queued
    BY <2>1, <2>4 DEF EventInv
  <2>6. \A i \in DOMAIN deferred' : deferred'[i] \in Queued'
    BY <2>3, <2>4, <2>5
  <2>7. ASSUME NEW i \in DOMAIN deferred', NEW j \in DOMAIN deferred', i < j
        PROVE  deferred'[i] < deferred'[j]
    <3>1. i \in DOMAIN deferred
      BY <2>3, <2>7
    <3>2. CASE j \in DOMAIN deferred
      BY <2>1, <2>3, <2>7, <3>1, <3>2 DEF EventInv
    <3>3. CASE j = Len(deferred) + 1
      BY <2>3, <2>5, <3>1, <3>3
    <3> QED BY <2>3, <3>2, <3>3
  <2>8. ASSUME NEW k \in DOMAIN published, NEW i \in DOMAIN deferred'
        PROVE  published[k] < deferred'[i]
    <3>1. CASE i \in DOMAIN deferred
      BY <2>1, <2>3, <3>1 DEF EventInv
    <3>2. CASE i = Len(deferred) + 1
      BY <2>1, <2>3, <2>4, <3>2 DEF EventInv
    <3> QED BY <2>3, <3>1, <3>2
  <2>9. ASSUME NEW s \in saved', NEW i \in DOMAIN deferred', deferred'[i] < s
        PROVE  \E j \in DOMAIN deferred' : deferred'[j] = s
    <3>1. CASE s = step
      BY <2>3, <3>1
    <3>2. CASE s \in saved /\ i \in DOMAIN deferred
      BY <2>1, <2>3, <2>9, <3>2 DEF EventInv
    <3>3. CASE s \in saved /\ i = Len(deferred) + 1
      BY <2>2, <2>3, <2>9, <3>3
    <3> QED BY <2>1, <2>3, <3>1, <3>2, <3>3
  <2>10. ASSUME NEW s \in saved', base' < s
         PROVE  \/ s \in failed' \/ \E k \in DOMAIN published' : published'[k] = s
                \/ \E i \in DOMAIN deferred' : deferred'[i] = s
    <3>1. CASE s = step
      BY <2>3, <3>1
    <3>2. CASE s \in saved
      <4>1. \/ s \in failed \/ \E k \in DOMAIN published : published[k] = s
            \/ \E i \in DOMAIN deferred : deferred[i] = s
        BY <2>1, <2>10, <3>2 DEF EventInv
      <4>2. CASE \E i \in DOMAIN deferred : deferred[i] = s
        BY <2>3, <4>2
      <4> QED BY <2>1, <4>1, <4>2
    <3> QED BY <2>1, <3>1, <3>2
  <2>11. \A k \in DOMAIN published : published[k] <= step
    BY <2>1 DEF EventInv
  <2> QED BY <2>1, <2>4, <2>6, <2>7, <2>8, <2>9, <2>10, <2>11 DEF EventInv
<1>9. RotationInv'
  BY DEF IInv, GateInv, RotationInv, After, Writing, FinishSave, DeferredRotation
<1>10. NewestInv'
  BY DEF IInv, NewestInv, Complete, FinishSave
<1> QED BY <1>1, <1>2, <1>3, <1>4, <1>5, <1>6, <1>7, <1>8, <1>9, <1>10 DEF IInv

\* The final save returns the result of its consolidation.
LEMMA FinalResultKeeps ==
    ASSUME IInv, FinalResult
    PROVE  IInv'
<1>1. TypeOK'
  BY DEF IInv, TypeOK, gateVars, queueVars, FinalResult
<1>2. StepInv'
  BY DEF IInv, StepInv, Saving, Writing, FinalResult
<1>3. DiskInv'
  BY DEF IInv, DiskInv, Recoverable, OnDisk, FinalResult
<1>4. SubmitInv'
  <2>1. /\ tpc = "result" /\ FinalSettled /\ UNCHANGED <<base, step, target, future>>
        /\ tpc' = IF future[0] = "failed" THEN "raised" ELSE "done"
    BY DEF FinalResult, queueVars
  <2>2. 0 \in DOMAIN future /\ SubmitInv
    BY <2>1 DEF IInv, SubmitInv
  <2>3. future[0] \in {"done", "failed"}
    BY <2>1, <2>2 DEF FinalSettled, Settled, IInv, TypeOK
  <2>4. tpc' \in {"raised", "done"} /\ (tpc' = "done" => future[0] = "done")
    BY <2>1, <2>3
  <2>5. ~ Saving' /\ ~ Writing(TRUE)' /\ Queued' = Queued /\ Outstanding' = Outstanding
    BY <2>1, <2>4, SameQueue DEF Saving, Writing
  <2> QED BY <2>1, <2>2, <2>4, <2>5 DEF SubmitInv
<1>5. QueueInv'
  BY DEF IInv, QueueInv, Queued, Outstanding, queueVars, FinalResult
<1>6. DoneInv'
  BY DEF IInv, DoneInv, queueVars, FinalResult
<1>7. GateInv'
  BY DEF IInv, GateInv, Queued, gateVars, queueVars, FinalResult
<1>8. EventInv'
  BY DEF IInv, EventInv, Saving, Writing, Queued, gateVars, queueVars, FinalResult
<1>9. RotationInv'
  BY SameDisk, SameBound DEF IInv, RotationInv, After, Writing, FinalResult, vars, gateVars, queueVars
<1>10. NewestInv'
  BY DEF IInv, NewestInv, Complete, FinalResult
<1> QED BY <1>1, <1>2, <1>3, <1>4, <1>5, <1>6, <1>7, <1>8, <1>9, <1>10 DEF IInv

\* Loading completes the consolidation that was interrupted.
LEMMA LoadKeeps ==
    ASSUME IInv, Load
    PROVE  IInv'
<1>1. TypeOK'
  <2>1. tpc' \in {"load", "raised", "train"} /\ faults' \in 0 .. MaxFaults
    BY Numbers DEF IInv, TypeOK, Load, Fault, NoFault
  <2>2. disk' \in [Paths -> DiskStates]
    BY DEF IInv, TypeOK, Load, Replaced, DiskStates
  <2> QED BY <2>1, <2>2 DEF IInv, TypeOK, Load, vars, gateVars, queueVars
<1>2. StepInv'
  BY DEF IInv, StepInv, Saving, Writing, gateVars, queueVars, Load
<1>3. DiskInv'
  BY Numbers DEF IInv, TypeOK, StepInv, Load, Fault
<1>4. SubmitInv'
  BY DEF IInv, SubmitInv, Saving, Writing, Queued, queueVars, Load
<1>5. QueueInv'
  BY DEF IInv, QueueInv, Queued, Outstanding, queueVars, Load
<1>6. DoneInv'
  BY DEF IInv, DoneInv, StepInv, queueVars, Load
<1>7. GateInv'
  BY DEF IInv, GateInv, Queued, gateVars, queueVars, Load
<1>8. EventInv'
  BY DEF IInv, EventInv, Saving, Writing, Queued, gateVars, queueVars, Load
<1>9. RotationInv'
  <2>1. /\ step = base /\ unconsolidated = {} /\ rotation = {} /\ \A s \in saved : s <= base
        /\ saved \subseteq Nat /\ base \in Nat /\ tpc' \in {"load", "raised", "train"}
    BY Numbers DEF IInv, TypeOK, StepInv, Load
  <2>2. ~ \E s \in saved : s > base
    BY <2>1
  <2> QED BY <2>1, <2>2 DEF RotationInv, Bounded, After, Writing, Load, vars, gateVars, queueVars
<1>10. NewestInv'
  <2>1. tpc' = "train" => base = 0 \/ disk[base] = "adapter"
    BY DEF Load
  <2>2. base \in saved \cup {0} /\ tpc' \in {"load", "raised", "train"} /\ base \in Nat
    BY Numbers DEF Load, IInv, StepInv, TypeOK
  <2>3. tpc' = "train" => disk' = disk
    BY DEF Load
  <2> QED BY <2>1, <2>2, <2>3 DEF NewestInv, Complete, Load
<1> QED BY <1>1, <1>2, <1>3, <1>4, <1>5, <1>6, <1>7, <1>8, <1>9, <1>10 DEF IInv

\* The thread takes the oldest of what is queued.
LEMMA TakeKeeps ==
    ASSUME IInv, Take
    PROVE  IInv'
<1>1. TypeOK'
  <2>1. workq \in Seq(Paths) /\ workq # <<>> /\ job' = {Head(workq)} /\ workq' = Tail(workq)
    BY DEF IInv, TypeOK, Take
  <2>2. workq' \in Seq(Paths) /\ Head(workq) \in Paths
    BY <2>1
  <2>3. job' \in SUBSET Paths /\ Cardinality(job') <= 1
    BY <2>1, <2>2, AtMostOne
  <2> QED BY <2>2, <2>3 DEF IInv, TypeOK, Take, vars, gateVars, queueVars
<1>2. StepInv'
  BY DEF IInv, StepInv, Saving, Writing, gateVars, Take
<1>3. DiskInv'
  BY DEF IInv, DiskInv, Recoverable, OnDisk, Take
<1>4. SubmitInv'
  BY DEF IInv, SubmitInv, Saving, Writing, Queued, Outstanding, Take
<1>5. QueueInv'
  <2>1. /\ workq \in Seq(Paths) /\ workq # <<>> /\ job = {} /\ QueueInv
        /\ job' = {Head(workq)} /\ workq' = Tail(workq)
    BY DEF IInv, TypeOK, Take
  <2>2. Outstanding' = Outstanding /\ Queued' = Queued /\ future' = future
    BY SameQueue DEF Take
  <2>3. /\ Len(workq) \in Nat \ {0} /\ DOMAIN workq = 1 .. Len(workq)
        /\ DOMAIN workq' = 1 .. Len(workq) - 1 /\ Head(workq) = workq[1]
        /\ \A i \in DOMAIN workq' : workq'[i] = workq[i + 1]
    BY <2>1
  <2>4. \A i \in DOMAIN workq' : i + 1 \in DOMAIN workq /\ 1 < i + 1
    BY <2>3
  <2>5. 1 \in DOMAIN workq
    BY <2>3
  <2>6. job' \subseteq Outstanding' /\ \A i \in DOMAIN workq' : workq'[i] \in Outstanding'
    BY <2>1, <2>2, <2>3, <2>4, <2>5 DEF QueueInv
  <2>7. ASSUME NEW p \in Outstanding' PROVE p \in job' \/ \E i \in DOMAIN workq' : workq'[i] = p
    <3>1. PICK i \in DOMAIN workq : workq[i] = p
      BY <2>1, <2>2 DEF QueueInv
    <3>2. CASE i = 1
      BY <2>1, <2>3, <3>1, <3>2
    <3>3. CASE i # 1
      <4>1. i - 1 \in DOMAIN workq' /\ (i - 1) + 1 = i
        BY <2>3, <3>3
      <4> QED BY <2>3, <3>1, <4>1
    <3> QED BY <3>2, <3>3
  <2>8. ASSUME NEW i \in DOMAIN workq', NEW j \in DOMAIN workq', i < j PROVE workq'[i] < workq'[j]
    <3>1. i + 1 < j + 1
      BY <2>3, <2>8
    <3> QED BY <2>1, <2>3, <2>4, <3>1 DEF QueueInv
  <2>9. \A p \in job' : \A i \in DOMAIN workq' : p < workq'[i]
    BY <2>1, <2>3, <2>4, <2>5 DEF QueueInv
  <2> QED BY <2>1, <2>2, <2>6, <2>7, <2>8, <2>9 DEF QueueInv
<1>6. DoneInv'
  BY DEF IInv, DoneInv, Take
<1>7. GateInv'
  BY DEF IInv, GateInv, Queued, gateVars, Take
<1>8. EventInv'
  BY DEF IInv, EventInv, Saving, Writing, Queued, gateVars, Take
<1>9. RotationInv'
  BY SameDisk, SameBound DEF IInv, RotationInv, After, Writing, gateVars, Take
<1>10. NewestInv'
  BY DEF IInv, NewestInv, Complete, Take
<1> QED BY <1>1, <1>2, <1>3, <1>4, <1>5, <1>6, <1>7, <1>8, <1>9, <1>10 DEF IInv

\* After a restart nothing is queued, held back or owed.
LEMMA RestartKeeps ==
    ASSUME IInv, Restart
    PROVE  IInv'
<1>1. TypeOK'
  <2>1. saved \subseteq Checkpoints /\ disk \in [Paths -> DiskStates] /\ best \in Paths
    BY DEF IInv, TypeOK
  <2>2. base' \in Paths /\ step' \in Paths
    BY <2>1, Newest DEF Restart
  <2>3. best' \in Paths
    BY <2>1, <2>2, SaveAssumption DEF Restart, Paths, SaveAssumption
  <2>4. disk' \in [Paths -> DiskStates] /\ run' \in 1 .. MaxRuns
    BY <2>1, SaveAssumption DEF Restart, DiskStates, SaveAssumption, IInv, TypeOK
  <2>5. /\ deferred' \in Seq(Checkpoints) /\ published' \in Seq(Paths) /\ workq' \in Seq(Paths)
        /\ Cardinality(rotation') <= 1 /\ Cardinality(job') <= 1
        /\ rotation' \in SUBSET Paths /\ job' \in SUBSET Paths
    BY AtMostOne DEF Restart
  <2>6. DOMAIN future' = {} /\ target' \in Paths /\ known' \subseteq Checkpoints
        /\ unconsolidated' \subseteq Checkpoints /\ failed' \subseteq Checkpoints
        /\ tpc' = "load" /\ saved' = saved /\ faults' = faults
    BY Numbers DEF Restart
  <2> QED BY <2>1, <2>2, <2>3, <2>4, <2>5, <2>6 DEF IInv, TypeOK
<1>2. StepInv'
  <2>1. \A s \in saved : s <= base'
    BY Newest DEF IInv, TypeOK, Restart
  <2>2. base' \in Nat
    BY Newest, Numbers DEF IInv, TypeOK, Restart
  <2>3. tpc' = "load" /\ step' = base' /\ saved' = saved /\ base' \in saved \cup {0}
    BY Newest DEF IInv, TypeOK, Restart
  <2>4. /\ DOMAIN future' = {} /\ deferred' = <<>> /\ published' = <<>>
        /\ unconsolidated' = {} /\ failed' = {} /\ rotation' = {}
    BY DEF Restart
  <2>5. ~ Saving' /\ ~ Writing(FALSE)'
    BY <2>3 DEF Saving, Writing
  <2>6. base' <= step' /\ \A s \in saved' : s <= step'
    BY <2>1, <2>2, <2>3
  <2> QED BY <2>3, <2>4, <2>5, <2>6 DEF StepInv
<1>3. DiskInv'
  BY Numbers DEF IInv, TypeOK, DiskInv, Recoverable, OnDisk
<1>4. SubmitInv'
  BY DEF IInv, SubmitInv, Queued, Outstanding, Restart
<1>5. QueueInv'
  BY DEF IInv, QueueInv, Outstanding, Restart
<1>6. DoneInv'
  BY DEF IInv, DoneInv, Restart
<1>7. GateInv'
  <2>1. ASSUME NEW s \in saved PROVE ~ base' < s
    <3>1. s <= base' /\ s \in Nat /\ base' \in Nat
      BY Newest, Numbers DEF IInv, TypeOK, Restart
    <3> QED BY <3>1
  <2> QED BY <2>1 DEF Restart, GateInv, Queued
<1>8. EventInv'
  <2>1. ASSUME NEW s \in saved PROVE ~ base' < s
    <3>1. s <= base' /\ s \in Nat /\ base' \in Nat
      BY Newest, Numbers DEF IInv, TypeOK, Restart
    <3> QED BY <3>1
  <2>2. DOMAIN deferred' = {} /\ DOMAIN published' = {} /\ deferred' = <<>> /\ saved' = saved
    BY DEF Restart
  <2> QED BY <2>1, <2>2 DEF EventInv
<1>9. RotationInv'
  BY DEF IInv, RotationInv, After, Writing, Restart
<1>10. NewestInv'
  BY DEF IInv, NewestInv, Restart
<1> QED BY <1>1, <1>2, <1>3, <1>4, <1>5, <1>6, <1>7, <1>8, <1>9, <1>10 DEF IInv

\* The thread's steps disturb nothing but the checkpoint it works on.
LEMMA WorkerKeeps ==
    ASSUME IInv, NEW p, Assemble(p) \/ DropShards(p)
    PROVE  IInv'
<1> DEFINE Worked ==
           /\ UNCHANGED <<run, base, step, best, tpc, target, known, gateVars, saved, workq>>
           /\ faults' \in 0 .. MaxFaults /\ job' \in {job, {}}
           /\ disk' \in [Paths -> DiskStates]
           /\ \A q \in Paths : \/ disk'[q] = disk[q]
                               \/ q = p /\ disk[q] = "shards" /\ disk'[q] = "both"
                               \/ q = p /\ disk[q] = "both" /\ disk'[q] = "adapter"
           /\ p \in DOMAIN future /\ p \in Paths /\ future[p] = "pending"
           /\ DOMAIN future' = DOMAIN future
           /\ \A q \in DOMAIN future : q # p => future'[q] = future[q]
           /\ future'[p] \in {"pending", "done", "failed"}
           /\ future'[p] = "done" => disk'[p] = "adapter"
           /\ Queued' = Queued /\ Outstanding' \subseteq Outstanding
           /\ QueueInv'
<1>1. Worked
  BY WorkerFacts
<1>2. OnDisk' = OnDisk /\ Complete \subseteq Complete'
  BY <1>1, Numbers DEF OnDisk, Complete, IInv, TypeOK
<1>3. TypeOK'
  <2>1. Cardinality(job') <= 1 /\ job' \in SUBSET Paths
    BY <1>1, AtMostOne DEF IInv, TypeOK
  <2>2. \A q \in DOMAIN future' : future'[q] \in {"pending", "done", "failed"}
    BY <1>1 DEF IInv, TypeOK
  <2> QED BY <1>1, <2>1, <2>2 DEF IInv, TypeOK, gateVars
<1>4. StepInv'
  BY <1>1 DEF IInv, StepInv, Saving, Writing, gateVars
<1>5. DiskInv'
  <2>1. tpc = "submit" => target # p
    BY <1>1 DEF IInv, SubmitInv, StepInv, Saving, Writing, Outstanding
  <2>2. Recoverable'
    BY <1>1, Numbers DEF IInv, TypeOK, DiskInv, Recoverable
  <2>3. target \in Paths
    BY DEF IInv, TypeOK
  <2> QED BY <1>1, <1>2, <2>1, <2>2, <2>3 DEF IInv, DiskInv
<1>6. SubmitInv'
  BY <1>1 DEF IInv, SubmitInv, Saving, Writing
<1>7. DoneInv'
  <2> SUFFICES ASSUME NEW q \in DOMAIN future', future'[q] = "done"
               PROVE  disk'[q] = "adapter" \/ (q # 0 /\ disk'[q] = "absent")
    BY DEF DoneInv
  <2>1. q \in DOMAIN future /\ q \in Paths
    BY <1>1 DEF IInv, TypeOK
  <2>2. CASE q = p
    BY <1>1, <2>2
  <2>3. CASE q # p
    <3>1. future[q] = "done" /\ disk'[q] = disk[q]
      BY <1>1, <2>1, <2>3
    <3> QED BY <2>1, <3>1 DEF IInv, DoneInv
  <2> QED BY <2>2, <2>3
<1>8. GateInv'
  <2>1. UNCHANGED <<unconsolidated, failed, saved, base, step, tpc>> /\ GateInv
    BY <1>1 DEF gateVars, IInv
  <2>2. \A q \in Queued' : future'[q] = "pending" => q \in unconsolidated'
    BY <1>1, <2>1 DEF GateInv, Queued
  <2>3. \A q \in Queued' \ unconsolidated' : q \in failed' \/ future'[q] = "done"
    BY <1>1, <2>1 DEF GateInv, Queued
  <2> QED BY <1>1, <2>1, <2>2, <2>3 DEF GateInv
<1>9. EventInv'
  BY <1>1 DEF IInv, EventInv, Saving, Writing, gateVars
<1>10. RotationInv'
  BY <1>1, <1>2, SameBound DEF IInv, RotationInv, After, Writing, gateVars
<1>11. NewestInv'
  BY <1>1, <1>2 DEF IInv, NewestInv
<1> QED BY <1>1, <1>3, <1>4, <1>5, <1>6, <1>7, <1>8, <1>9, <1>10, <1>11 DEF IInv

-----------------------------------------------------------------------------
(* A poll and what it releases.                                            *)

\* A checkpoint of the run that is not unconsolidated or failed any more has its adapter.
LEMMA Reported ==
    ASSUME IInv, NEW F \in SUBSET FinishedNow, Release(F),
           NEW p \in Queued, p \notin unconsolidated', p \notin failed'
    PROVE  future[p] = "done"
<1>1. /\ unconsolidated' = unconsolidated \ F
      /\ failed' = failed \cup {q \in F : ~Succeeded(q)}
  BY ReleaseFacts DEF IInv
<1>2. CASE p \in F
  BY <1>1, <1>2 DEF Succeeded, Queued
<1>3. CASE p \notin F
  BY <1>1, <1>3 DEF IInv, GateInv
<1> QED BY <1>2, <1>3

\* Rotation takes a checkpoint of this run only when its adapter is complete.
LEMMA GoneAreDone ==
    ASSUME IInv, tpc \in {"train", "polling"}, NEW F \in SUBSET FinishedNow, Release(F),
           NEW s \in OnDisk, s \notin unconsolidated', s \notin failed'
    PROVE  s \in saved /\ (base < s => disk[s] = "adapter")
<1>1. s \in saved
  BY DEF IInv, DiskInv
<1>2. ASSUME base < s PROVE disk[s] = "adapter"
  <2>1. s \in Queued
    BY <1>1, <1>2 DEF IInv, GateInv
  <2>2. future[s] = "done"
    BY <2>1, Reported
  <2> QED BY <2>1, <2>2 DEF IInv, DoneInv, Queued, OnDisk
<1> QED BY <1>1, <1>2

\* A complete checkpoint as new as any there was stays.
LEMMA NoneLost ==
    ASSUME IInv, tpc \in {"train", "polling"}, NEW F \in SUBSET FinishedNow, Release(F),
           NEW m \in Complete
    PROVE  \E s \in Complete' : m <= s
<1>1. /\ Gone(F) \subseteq OnDisk \ (unconsolidated' \cup failed') /\ saved' = saved \ Gone(F)
      /\ disk' = [p \in Paths |-> IF p \in Gone(F) THEN "absent" ELSE disk[p]]
  BY ReleaseFacts DEF IInv
<1>2. saved \subseteq Checkpoints /\ saved \subseteq Paths /\ saved \subseteq Nat /\ base \in Nat
  BY Numbers DEF IInv, TypeOK
<1>3. \A s \in Complete : s \notin Gone(F) => s \in Complete'
  BY <1>1, <1>2 DEF Complete
<1>4. m \in Nat /\ m \in saved
  BY <1>2 DEF Complete
<1>5. CASE m \notin Gone(F)
  BY <1>3, <1>4, <1>5
<1>6. CASE m \in Gone(F)
  <2> DEFINE c == OnDisk \ (unconsolidated' \cup failed')
             x == Max(c)
  <2>1. /\ unconsolidated' = unconsolidated \ F
        /\ failed' = failed \cup {p \in F : ~Succeeded(p)}
    BY ReleaseFacts DEF IInv
  <2>2. Gone(F) = Victims(unconsolidated' \cup failed', Max(rotation))
    BY <1>6, <2>1 DEF Gone, Excluded
  <2>3. x \in c /\ x \notin Gone(F) /\ \A s \in c : s <= x
    <3>1. m \in Victims(unconsolidated' \cup failed', Max(rotation))
      BY <1>6, <2>2
    <3>2. /\ x \in c /\ x \notin Victims(unconsolidated' \cup failed', Max(rotation))
          /\ \A s \in c : s <= x
      BY <3>1, VictimsAreOld
    <3> QED BY <2>2, <3>2
  <2>4. m \in c /\ m <= x
    BY <1>1, <1>6, <2>3
  <2> HIDE DEF x
  <2>5. x \in saved /\ (base < x => disk[x] = "adapter")
    BY <2>3, GoneAreDone
  <2>6. CASE base < x
    BY <1>3, <2>3, <2>4, <2>5, <2>6 DEF Complete
  <2>7. CASE ~ base < x
    <3>1. base # 0 /\ x <= base
      BY <1>2, <2>5, <2>7, Numbers
    <3>2. PICK s \in Complete : base <= s
      BY <3>1 DEF IInv, NewestInv
    <3>3. s \in Nat /\ x \in Nat /\ m <= s
      BY <1>2, <1>4, <2>4, <2>5, <3>1, <3>2 DEF Complete
    <3>4. CASE s \notin Gone(F)
      BY <1>3, <3>3, <3>4
    <3>5. CASE s \in Gone(F)
      <4>1. s <= x
        BY <1>1, <2>3, <3>5
      <4>2. s = x
        BY <1>2, <3>1, <3>2, <3>3, <4>1
      <4> QED BY <2>3, <3>5, <4>2
    <3> QED BY <3>4, <3>5
  <2> QED BY <2>6, <2>7
<1> QED BY <1>5, <1>6

\* The deferred rotation, when it is over, leaves no more checkpoints than it may.
LEMMA RotationBounds ==
    ASSUME IInv, NEW F \in SUBSET FinishedNow, Release(F), F # {},
           rotation = {best}, unconsolidated' = {}, UNCHANGED <<base, best>>
    PROVE  Bounded'
<1> DEFINE c == OnDisk \ failed'
           d == OnDisk' \ failed'
           protected == {Max(c)} \cup ({best} \ {0})
           keep == Max({SaveTotalLimit, Cardinality(protected)})
           bound == Cardinality(({Max(d \cup {0}), best}) \ {0})
<1>1. /\ unconsolidated' = unconsolidated \ F /\ Gone(F) \subseteq OnDisk
      /\ failed' = failed \cup {p \in F : ~Succeeded(p)}
      /\ disk' = [p \in Paths |-> IF p \in Gone(F) THEN "absent" ELSE disk[p]]
  BY ReleaseFacts DEF IInv
<1>2. best \in Nat /\ SaveTotalLimit \in Nat /\ Max(rotation) = best
  <2>1. best \in Nat /\ {best} \subseteq Int /\ best >= best
    BY Numbers DEF IInv, TypeOK
  <2>2. Max({best}) = best
    BY <2>1, MaxIs
  <2> QED BY <2>1, <2>2, SaveAssumption DEF SaveAssumption
<1>3. Gone(F) = Victims(failed', best)
  BY <1>1, <1>2 DEF Gone, Excluded
<1>4. OnDisk' = OnDisk \ Gone(F)
  BY <1>1, Numbers DEF OnDisk
<1>5. d = c \ Gone(F)
  BY <1>4
<1>6. c \subseteq Checkpoints /\ c \subseteq Paths /\ d \subseteq Checkpoints /\ d \in SUBSET c
  BY <1>5, Numbers DEF OnDisk
<1>7. c \subseteq Nat /\ IsFiniteSet(c) /\ IsFiniteSet(d)
  <2>1. c \subseteq Nat /\ IsFiniteSet(c)
    BY <1>6, SomeCheckpoints
  <2> QED BY <1>6, <2>1, FS_Subset
<1>8. Cardinality(c) \in Nat /\ Cardinality(d) \in Nat /\ Cardinality(d) <= Cardinality(c)
  BY <1>6, <1>7, FS_CardinalityType, FS_Subset
<1>9. bound \in Nat
  <2>1. IsFiniteSet({Max(d \cup {0}), best})
    <3> DEFINE m == Max(d \cup {0})
    <3>1. {m, best} = {m} \cup {best} /\ IsFiniteSet({m}) /\ IsFiniteSet({best})
      <4> HIDE DEF m
      <4> QED BY FS_Singleton
    <3> HIDE DEF m
    <3>2. IsFiniteSet({m, best})
      BY <3>1, FS_Union
    <3> QED BY <3>2 DEF m
  <2>2. IsFiniteSet(({Max(d \cup {0}), best}) \ {0})
    BY <2>1, FS_Difference
  <2> QED BY <2>2, FS_CardinalityType
<1> HIDE DEF bound
<1>10. Max({SaveTotalLimit, bound}) \in Nat /\ Max({SaveTotalLimit, bound}) >= SaveTotalLimit
  BY <1>2, <1>9, MaxOfTwo
<1>11. ASSUME SaveTotalLimit # 0 PROVE Cardinality(d) <= Max({SaveTotalLimit, bound})
  <2>1. CASE Cardinality(c) <= SaveTotalLimit
    <3> HIDE DEF c, d
    <3> QED BY <1>2, <1>8, <1>10, <2>1
  <2>2. CASE ~ Cardinality(c) <= SaveTotalLimit
    <3>1. c # {}
      <4>1. c = {} => Cardinality(c) = 0
        BY FS_EmptySet
      <4> HIDE DEF c
      <4> QED BY <1>2, <2>2, <4>1
    <3>2. Gone(F) = {s \in c \ protected :
                        Cardinality({t \in c \ protected : t < s}) < Cardinality(c) - keep}
      BY <1>3, <1>11, <2>2 DEF Victims
    <3>3. Max(c) \in c /\ (\A s \in c : Max(c) >= s)
      <4> HIDE DEF c
      <4> QED BY <1>7, <3>1, MaxIn
    <3>4. Max(c) \in d /\ Max(c) # 0 /\ Max(c) \in Nat
      BY <1>5, <1>6, <1>7, <3>2, <3>3, Numbers
    <3>5. Max(d \cup {0}) = Max(c)
      <4>1. d \cup {0} \subseteq Int /\ Max(c) \in d \cup {0} /\ \A s \in d \cup {0} : Max(c) >= s
        BY <1>6, <1>7, <3>3, <3>4
      <4> HIDE DEF c, d
      <4> QED BY <4>1, MaxIs
    <3>6. protected = ({Max(d \cup {0}), best}) \ {0}
      BY <3>4, <3>5
    <3>7. Cardinality(protected) = bound /\ keep = Max({SaveTotalLimit, bound})
      BY <3>6 DEF bound
    <3>8. IsFiniteSet(protected) /\ Cardinality(protected) <= keep /\ keep \in Nat
      <4>1. IsFiniteSet({Max(c)}) /\ IsFiniteSet({best} \ {0})
        BY FS_Singleton, FS_Difference
      <4>2. IsFiniteSet(protected)
        BY <4>1, FS_Union
      <4>3. Max({SaveTotalLimit, bound}) >= bound
        BY <1>2, <1>9, MaxOfTwo
      <4> HIDE DEF protected, keep
      <4> QED BY <1>9, <1>10, <3>7, <4>2, <4>3
    <3>9. Cardinality(c \ Gone(F)) <= keep
      <4> HIDE DEF c, protected, keep
      <4> QED BY <1>7, <3>2, <3>8, LowestGo
    <3> QED BY <1>5, <3>7, <3>9
  <2> QED BY <2>1, <2>2
<1> QED BY <1>11 DEF Bounded, bound

\* Events and accounts after a release.
LEMMA ReleaseKeepsEvents ==
    ASSUME IInv, tpc \in {"train", "polling"}, NEW F \in SUBSET FinishedNow, Release(F),
           UNCHANGED <<base, step, future>>, Saving' => Saving
    PROVE  EventInv'
<1>1. /\ unconsolidated' = unconsolidated \ F
      /\ failed' = failed \cup {p \in F : ~Succeeded(p)}
      /\ saved' = saved \ Gone(F)
  BY ReleaseFacts DEF IInv
<1>2. PICK k \in 0 .. Len(deferred) :
           /\ \A i \in 1 .. k : deferred[i] \notin unconsolidated'
           /\ k < Len(deferred) => deferred[k + 1] \in unconsolidated'
           /\ deferred' \in Seq(Checkpoints) /\ Len(deferred') = Len(deferred) - k
           /\ \A i \in 1 .. Len(deferred) - k : deferred'[i] = deferred[i + k]
           /\ published' \in Seq(Paths) /\ Len(published') = Len(published) + k
           /\ \A j \in 1 .. Len(published) : published'[j] = published[j]
           /\ \A i \in 1 .. k : published'[Len(published) + i] =
                  IF deferred[i] \in failed' THEN 0 ELSE deferred[i]
  BY <1>1, ReleasedEvents DEF IInv
<1>3. /\ deferred \in Seq(Checkpoints) /\ published \in Seq(Paths) /\ step \in Nat /\ base \in Nat
      /\ Len(deferred) \in Nat /\ Len(published) \in Nat /\ EventInv
      /\ DOMAIN deferred = 1 .. Len(deferred) /\ DOMAIN published = 1 .. Len(published)
      /\ DOMAIN deferred' = 1 .. Len(deferred) - k
      /\ DOMAIN published' = 1 .. Len(published) + k
  BY <1>2, Numbers DEF IInv, TypeOK
<1>4. \A i \in DOMAIN deferred' : i + k \in DOMAIN deferred /\ deferred'[i] = deferred[i + k]
  BY <1>2, <1>3
<1>5. ASSUME NEW j \in DOMAIN published'
      PROVE  \/ j \in DOMAIN published /\ published'[j] = published[j]
             \/ \E i \in 1 .. k : /\ i \in DOMAIN deferred
                                  /\ published'[j] \in {0, deferred[i]}
  <2>1. CASE j \in 1 .. Len(published)
    BY <1>2, <1>3, <2>1
  <2>2. CASE j \notin 1 .. Len(published)
    <3>1. /\ j - Len(published) \in 1 .. k /\ j - Len(published) \in DOMAIN deferred
          /\ Len(published) + (j - Len(published)) = j
      BY <1>3, <2>2
    <3> QED BY <1>2, <3>1
  <2> QED BY <2>1, <2>2
<1>6. Queued' = Queued /\ Queued \subseteq Nat
  BY SameQueue, Numbers DEF IInv, TypeOK, Queued
<1>7. \A i \in DOMAIN deferred : /\ deferred[i] \in Nat /\ deferred[i] > 0 /\ deferred[i] <= step
                                 /\ deferred[i] \in Queued /\ (Saving => deferred[i] < step)
  <2>1. \A p \in Queued : p \in Nat /\ p > 0 /\ p <= step
    BY <1>6 DEF Queued, IInv, SubmitInv
  <2> QED BY <1>3, <2>1 DEF EventInv
<1>8. \A i \in DOMAIN deferred' : deferred'[i] \in Queued' /\ (Saving' => deferred'[i] < step')
  BY <1>4, <1>6, <1>7
<1>9. ASSUME NEW j \in DOMAIN published'
      PROVE  published'[j] <= step' /\ (Saving' => published'[j] < step')
  <2>1. CASE j \in DOMAIN published /\ published'[j] = published[j]
    BY <1>3, <2>1 DEF EventInv
  <2>2. CASE \E i \in 1 .. k : i \in DOMAIN deferred /\ published'[j] \in {0, deferred[i]}
    <3>1. PICK i \in DOMAIN deferred : published'[j] \in {0, deferred[i]}
      BY <2>2
    <3>2. published'[j] <= step
      BY <1>3, <1>7, <3>1
    <3>3. ASSUME Saving' PROVE published'[j] < step
      <4>1. Saving /\ deferred[i] < step /\ 0 < step
        BY <1>3, <1>7, <3>3
      <4> QED BY <3>1, <4>1
    <3> QED BY <3>2, <3>3
  <2> QED BY <1>5, <2>1, <2>2
<1>10. ASSUME NEW i \in DOMAIN deferred', NEW j \in DOMAIN deferred', i < j
       PROVE  deferred'[i] < deferred'[j]
  <2>1. i + k < j + k
    BY <1>2, <1>3, <1>10
  <2> QED BY <1>3, <1>4, <2>1 DEF EventInv
<1>11. ASSUME NEW j \in DOMAIN published', NEW i \in DOMAIN deferred'
       PROVE  published'[j] < deferred'[i]
  <2>1. i + k \in DOMAIN deferred /\ deferred'[i] = deferred[i + k] /\ deferred'[i] > 0
    BY <1>4, <1>7
  <2>2. CASE j \in DOMAIN published /\ published'[j] = published[j]
    BY <1>3, <2>1, <2>2 DEF EventInv
  <2>3. CASE \E h \in 1 .. k : h \in DOMAIN deferred /\ published'[j] \in {0, deferred[h]}
    <3>1. PICK h \in 1 .. k : h \in DOMAIN deferred /\ published'[j] \in {0, deferred[h]}
      BY <2>3
    <3>2. h < i + k
      BY <1>3
    <3>3. deferred[h] < deferred[i + k]
      BY <1>3, <2>1, <3>1, <3>2 DEF EventInv
    <3> QED BY <2>1, <3>1, <3>3
  <2> QED BY <1>5, <2>2, <2>3
<1>12. ASSUME NEW s \in saved', NEW i \in DOMAIN deferred', deferred'[i] < s
       PROVE  \E j \in DOMAIN deferred' : deferred'[j] = s
  <2>1. i + k \in DOMAIN deferred /\ deferred[i + k] < s /\ s \in saved
    BY <1>1, <1>4, <1>12
  <2>2. PICK j \in DOMAIN deferred : deferred[j] = s
    BY <1>3, <2>1 DEF EventInv
  <2>3. ASSUME ~ i + k < j PROVE FALSE
    <3>1. j = i + k \/ j < i + k
      BY <1>3, <2>1, <2>3
    <3>2. deferred[j] <= deferred[i + k]
      BY <1>3, <1>7, <2>1, <3>1 DEF EventInv
    <3> QED BY <1>7, <2>1, <2>2, <3>2
  <2>4. j - k \in DOMAIN deferred' /\ (j - k) + k = j
    BY <1>2, <1>3, <2>1, <2>3
  <2> QED BY <1>4, <2>2, <2>4
<1>13. ASSUME NEW s \in saved', base' < s
       PROVE  \/ s \in failed' \/ \E j \in DOMAIN published' : published'[j] = s
              \/ \E i \in DOMAIN deferred' : deferred'[i] = s
  <2>1. \/ s \in failed \/ \E j \in DOMAIN published : published[j] = s
        \/ \E i \in DOMAIN deferred : deferred[i] = s
    BY <1>1, <1>3, <1>13 DEF EventInv
  <2>2. CASE s \in failed
    BY <1>1, <2>2
  <2>3. CASE \E j \in DOMAIN published : published[j] = s
    <3>1. PICK j \in DOMAIN published : published[j] = s
      BY <2>3
    <3>2. j \in DOMAIN published' /\ published'[j] = s
      BY <1>2, <1>3, <3>1
    <3> QED BY <3>2
  <2>4. CASE \E i \in DOMAIN deferred : deferred[i] = s
    <3>1. PICK i \in DOMAIN deferred : deferred[i] = s
      BY <2>4
    <3>2. CASE i \in 1 .. k
      <4>1. Len(published) + i \in DOMAIN published'
        BY <1>3, <3>2
      <4>2. published'[Len(published) + i] = IF deferred[i] \in failed' THEN 0 ELSE deferred[i]
        BY <1>2, <3>2
      <4>3. CASE s \in failed'
        BY <4>3
      <4>4. CASE s \notin failed'
        BY <3>1, <4>1, <4>2, <4>4
      <4> QED BY <4>3, <4>4
    <3>3. CASE i \notin 1 .. k
      <4>1. i - k \in DOMAIN deferred' /\ (i - k) + k = i
        BY <1>2, <1>3, <3>1, <3>3
      <4> QED BY <1>4, <3>1, <4>1
    <3> QED BY <3>2, <3>3
  <2> QED BY <2>1, <2>2, <2>3, <2>4
<1>14. ASSUME unconsolidated' = {} PROVE deferred' = <<>>
  <2>1. ~ k < Len(deferred)
    BY <1>2, <1>14
  <2>2. Len(deferred') = 0 /\ deferred' \in Seq(Checkpoints)
    BY <1>2, <1>3, <2>1
  <2> QED BY <2>2, EmptySeq
<1> QED BY <1>8, <1>9, <1>10, <1>11, <1>12, <1>13, <1>14 DEF EventInv

\* What a release leaves intact, whoever calls it.
LEMMA ReleaseKeeps ==
    ASSUME IInv, tpc \in {"train", "polling"}, NEW F \in SUBSET FinishedNow, Release(F),
           UNCHANGED <<run, base, step, target, queueVars, faults>>, Saving' => Saving,
           tpc' \in {"train", "capacity", "ended"}, best' \in Paths, known' \subseteq Checkpoints
    PROVE  /\ TypeOK' /\ StepInv' /\ DiskInv' /\ SubmitInv' /\ QueueInv' /\ DoneInv' /\ GateInv'
           /\ EventInv' /\ NewestInv'
<1>1. /\ unconsolidated' = unconsolidated \ F
      /\ failed' = failed \cup {p \in F : ~Succeeded(p)}
      /\ rotation' = IF rotation # {} /\ F # {} /\ unconsolidated' = {} THEN {} ELSE rotation
      /\ disk' = [p \in Paths |-> IF p \in Gone(F) THEN "absent" ELSE disk[p]]
      /\ saved' = saved \ Gone(F)
      /\ Gone(F) \subseteq OnDisk \ (unconsolidated' \cup failed')
  BY ReleaseFacts DEF IInv
<1>2. /\ deferred' \in Seq(Checkpoints) /\ published' \in Seq(Paths)
  BY <1>1, ReleasedEvents DEF IInv
<1>3. F \subseteq unconsolidated /\ Queued' = Queued /\ Outstanding' = Outstanding
      /\ UNCHANGED <<future, workq, job>>
  BY SameQueue DEF FinishedNow, queueVars
<1>4. TypeOK'
  <2>1. rotation' \in SUBSET Paths /\ Cardinality(rotation') <= 1
    BY <1>1, AtMostOne DEF IInv, TypeOK
  <2>2. disk' \in [Paths -> DiskStates]
    BY <1>1 DEF IInv, TypeOK, DiskStates
  <2>3. unconsolidated' \subseteq Checkpoints /\ failed' \subseteq Checkpoints
        /\ saved' \subseteq Checkpoints
    BY <1>1, <1>3 DEF IInv, TypeOK
  <2> QED BY <1>2, <1>3, <2>1, <2>2, <2>3 DEF IInv, TypeOK
<1>5. StepInv'
  <2>1. ~ Writing(FALSE)'
    BY DEF Writing
  <2> QED BY <1>1, <2>1 DEF IInv, StepInv
<1>6. DiskInv'
  <2>1. /\ disk \in [Paths -> DiskStates] /\ saved \subseteq Paths /\ Checkpoints \subseteq Paths
        /\ Recoverable /\ OnDisk \subseteq saved
    BY Numbers DEF IInv, TypeOK, DiskInv
  <2>2. Recoverable'
    BY <1>1, <2>1 DEF Recoverable
  <2>3. OnDisk' \subseteq saved'
    BY <1>1, <2>1 DEF OnDisk
  <2> QED BY <2>2, <2>3 DEF DiskInv
<1>7. SubmitInv'
  <2>1. ~ Writing(TRUE)' /\ tpc' # "rest"
    BY DEF Writing
  <2>2. tpc # "rest" /\ SubmitInv /\ UNCHANGED <<base, step>>
    BY DEF IInv
  <2>3. 0 \notin DOMAIN future
    BY <2>2 DEF SubmitInv
  <2> QED BY <1>3, <2>1, <2>2, <2>3 DEF SubmitInv
<1>8. QueueInv'
  BY <1>3 DEF IInv, QueueInv
<1>9. DoneInv'
  <2>1. \A p \in Gone(F) : p # 0 /\ p \in Paths
    BY <1>1, Numbers DEF OnDisk
  <2>2. DOMAIN future \subseteq Paths /\ DoneInv
    BY DEF IInv, TypeOK
  <2> QED BY <1>1, <1>3, <2>1, <2>2 DEF DoneInv
<1>10. GateInv'
  <2>1. GateInv /\ UNCHANGED <<base, step>> /\ tpc' # "rest"
    BY DEF IInv
  <2>2. \A p \in F : p \in Queued /\ future[p] # "pending"
    BY <1>3, <2>1 DEF FinishedNow, Settled, GateInv, Queued
  <2>3. \A p \in Queued \ unconsolidated' : p \in failed' \/ future[p] = "done"
    BY Reported
  <2>4. unconsolidated' \subseteq Queued /\ failed' \subseteq Queued
    BY <1>1, <2>1, <2>2 DEF GateInv
  <2>5. \A p \in Queued : future[p] = "pending" => p \in unconsolidated'
    BY <1>1, <2>1, <2>2 DEF GateInv
  <2>6. \A s \in saved' : base < s => s \in Queued
    BY <1>1, <2>1 DEF GateInv
  <2> QED BY <1>3, <2>1, <2>3, <2>4, <2>5, <2>6 DEF GateInv
<1>11. EventInv'
  BY <1>3, ReleaseKeepsEvents
<1>12. NewestInv'
  <2>1. ASSUME base # 0 PROVE \E s \in Complete' : base <= s
    <3>1. PICK m \in Complete : base <= m
      BY <2>1 DEF IInv, NewestInv
    <3>2. PICK s \in Complete' : m <= s
      BY NoneLost
    <3>3. base \in Nat /\ m \in Nat /\ s \in Nat
      <4>1. saved \subseteq Checkpoints /\ saved' \subseteq Checkpoints /\ base \in Paths
        BY <1>4 DEF IInv, TypeOK
      <4>2. m \in Checkpoints /\ s \in Checkpoints
        BY <4>1 DEF Complete
      <4> QED BY <4>1, <4>2, Numbers
    <3> QED BY <3>1, <3>2, <3>3
  <2> QED BY <2>1 DEF NewestInv
<1> QED BY <1>4, <1>5, <1>6, <1>7, <1>8, <1>9, <1>10, <1>11, <1>12

\* When nothing is unconsolidated any more, no rotation is owed and it has been done.
LEMMA ReleaseRotates ==
    ASSUME IInv, tpc \in {"train", "polling"}, NEW F \in SUBSET FinishedNow, Release(F),
           unconsolidated' = {}, UNCHANGED <<base, best>>
    PROVE  rotation' = {} /\ Bounded'
<1>1. /\ unconsolidated' = unconsolidated \ F
      /\ failed' = failed \cup {p \in F : ~Succeeded(p)}
      /\ rotation' = IF rotation # {} /\ F # {} /\ unconsolidated' = {} THEN {} ELSE rotation
      /\ disk' = [p \in Paths |-> IF p \in Gone(F) THEN "absent" ELSE disk[p]]
      /\ saved' = saved \ Gone(F)
  BY ReleaseFacts DEF IInv
<1>2. F \subseteq unconsolidated /\ RotationInv
  BY DEF FinishedNow, IInv
<1>3. CASE unconsolidated = {}
  <2>1. F = {} /\ rotation = {} /\ Bounded
    BY <1>2, <1>3 DEF RotationInv
  <2>2. rotation' = {} /\ failed' = failed /\ saved' = saved /\ Gone(F) = {}
    BY <1>1, <2>1 DEF Gone
  <2>3. OnDisk' = OnDisk
    BY <1>1, <2>2, Numbers DEF OnDisk
  <2> QED BY <2>1, <2>2, <2>3, SameBound
<1>4. CASE unconsolidated # {}
  <2>1. rotation = {best} /\ F # {}
    BY <1>1, <1>2, <1>4 DEF RotationInv
  <2>2. rotation' = {}
    BY <1>1, <2>1
  <2> QED BY <2>1, <2>2, RotationBounds
<1> QED BY <1>3, <1>4

\* A poll releases part of what has finished.
LEMMA PollKeeps ==
    ASSUME IInv, Poll
    PROVE  IInv'
<1>1. PICK F \in SUBSET FinishedNow : known \subseteq F /\ Release(F)
  BY DEF Poll
<1>2. /\ tpc = "polling" /\ tpc' \in {"train", "capacity"} /\ known' \subseteq Checkpoints
      /\ UNCHANGED <<run, base, step, target, queueVars, faults>>
      /\ tpc' = "train" => UNCHANGED best
  BY DEF Poll
<1>3. best' \in Paths
  BY DEF Poll, IInv, TypeOK
<1>4. Saving
  BY <1>2 DEF Saving
<1>5. /\ TypeOK' /\ StepInv' /\ DiskInv' /\ SubmitInv' /\ QueueInv' /\ DoneInv' /\ GateInv'
      /\ EventInv' /\ NewestInv'
  BY <1>1, <1>2, <1>3, <1>4, ReleaseKeeps
<1>6. RotationInv'
  <2>1. /\ unconsolidated' = unconsolidated \ F /\ F \subseteq unconsolidated
        /\ rotation' = IF rotation # {} /\ F # {} /\ unconsolidated' = {} THEN {} ELSE rotation
        /\ rotation = IF unconsolidated = {} THEN {} ELSE {best}
    BY <1>1, <1>2, ReleaseFacts DEF IInv, RotationInv, FinishedNow
  <2>2. rotation' # {} => unconsolidated' # {}
    BY <2>1
  <2>3. ~ After'
    BY <1>2 DEF After, Writing
  <2>4. CASE tpc' = "capacity"
    BY <2>2, <2>3, <2>4 DEF RotationInv
  <2>5. CASE tpc' = "train"
    <3>1. rotation' = IF unconsolidated' = {} THEN {} ELSE {best'}
      BY <1>2, <2>1, <2>5
    <3>2. rotation' = {} => Bounded'
      <4>1. rotation' = {} => unconsolidated' = {}
        BY <3>1
      <4> QED BY <1>1, <1>2, <2>5, <4>1, ReleaseRotates
    <3> QED BY <2>2, <2>3, <3>1, <3>2 DEF RotationInv
  <2> QED BY <1>2, <2>4, <2>5
<1> QED BY <1>5, <1>6 DEF IInv

\* on_train_end releases all there is.
LEMMA TrainEndKeeps ==
    ASSUME IInv, TrainEnd
    PROVE  IInv'
<1>1. /\ tpc = "train" /\ tpc' = "ended" /\ Release(FinishedNow)
      /\ UNCHANGED <<run, base, step, best, target, known, queueVars, faults>>
      /\ unconsolidated # {} \/ deferred # <<>> => Outstanding = {}
  BY DEF TrainEnd
<1>2. ~ Saving'
  BY <1>1 DEF Saving, Writing
<1>3. best' \in Paths /\ known' \subseteq Checkpoints
  BY <1>1 DEF IInv, TypeOK
<1>4. /\ TypeOK' /\ StepInv' /\ DiskInv' /\ SubmitInv' /\ QueueInv' /\ DoneInv' /\ GateInv'
      /\ EventInv' /\ NewestInv'
  BY <1>1, <1>2, <1>3, ReleaseKeeps
<1>5. unconsolidated' = {}
  <2>1. unconsolidated' = unconsolidated \ FinishedNow
    BY <1>1, ReleaseFacts DEF IInv
  <2>2. ASSUME NEW p \in unconsolidated PROVE p \in FinishedNow
    <3>1. p \notin Outstanding
      BY <1>1, <2>2
    <3> QED BY <3>1 DEF FinishedNow, Settled, Outstanding
  <2> QED BY <2>1, <2>2
<1>6. rotation' = {} /\ Bounded'
  BY <1>1, <1>5, ReleaseRotates
<1>7. RotationInv'
  BY <1>1, <1>5, <1>6 DEF RotationInv
<1> QED BY <1>4, <1>7 DEF IInv

-----------------------------------------------------------------------------
(* What holds of every run, whatever the limit.                            *)

\* The inductive invariant holds in every state.
THEOREM Invariance == Spec => []IInv
<1>1. Init => IInv
  <2> SUFFICES ASSUME Init PROVE IInv
    OBVIOUS
  <2>1. TypeOK
    BY Numbers, SaveAssumption, AtMostOne DEF SaveAssumption, Init, TypeOK, DiskStates
  <2>2. OnDisk = {} /\ Outstanding = {} /\ Queued = {}
    BY Numbers DEF Init, OnDisk, Outstanding, Queued
  <2>3. StepInv /\ DiskInv /\ SubmitInv
    BY <2>2, Numbers DEF Init, StepInv, DiskInv, SubmitInv, Recoverable, Saving, Writing
  <2>4. QueueInv /\ DoneInv /\ GateInv /\ EventInv
    BY <2>2 DEF Init, QueueInv, DoneInv, GateInv, EventInv, Saving, Writing
  <2>5. RotationInv /\ NewestInv
    BY DEF Init, RotationInv, NewestInv, Bounded, After, Writing
  <2> QED BY <2>1, <2>3, <2>4, <2>5 DEF IInv
<1>2. IInv /\ [Next]_vars => IInv'
  <2> SUFFICES ASSUME IInv, [Next]_vars PROVE IInv'
    OBVIOUS
  <2>1. CASE Trainer
    BY <2>1, StepEndsKeeps, PollKeeps, WriteShardsKeeps, WriteManifestKeeps, SubmitKeeps,
       FinishSaveKeeps, TrainEndKeeps, FinalResultKeeps, LoadKeeps DEF Trainer
  <2>2. CASE Worker
    BY <2>2, TakeKeeps, WorkerKeeps DEF Worker
  <2>3. CASE Restart
    BY <2>3, RestartKeeps
  <2>4. CASE UNCHANGED vars
    <3>1. /\ TypeOK' /\ StepInv' /\ DiskInv'
      BY <2>4 DEF IInv, TypeOK, StepInv, DiskInv, Recoverable, OnDisk, Saving, Writing,
                  vars, gateVars, queueVars
    <3>2. SubmitInv' /\ QueueInv' /\ DoneInv' /\ GateInv'
      BY <2>4, SameQueue DEF IInv, SubmitInv, QueueInv, DoneInv, GateInv, Saving, Writing,
                  vars, gateVars, queueVars
    <3>3. EventInv' /\ RotationInv' /\ NewestInv'
      BY <2>4, SameQueue, SameDisk, SameBound DEF IInv, EventInv, RotationInv, NewestInv, Saving,
                  After, Writing, vars, gateVars, queueVars
    <3> QED BY <3>1, <3>2, <3>3 DEF IInv
  <2> QED BY <2>1, <2>2, <2>3, <2>4 DEF Next, Stopped
<1> QED BY <1>1, <1>2, PTL DEF Spec

\* Every variable keeps its type.
THEOREM TypeCorrect == Spec => []TypeOK
<1>1. IInv => TypeOK
  BY DEF IInv
<1> QED BY <1>1, Invariance, PTL

\* Whenever the job is killed or raises, each checkpoint it had saved can be completed: its
\* adapter is there, or the shards and the manifest it is made from.
THEOREM AlwaysRecoverable == Spec => []Recoverable
<1>1. IInv => Recoverable
  BY DEF IInv, DiskInv
<1> QED BY <1>1, Invariance, PTL

\* When the final save returns without an error, its adapter is in output_dir.
THEOREM FinalAdapterIsThere == Spec => []FinalIsInPlace
<1>1. IInv => FinalIsInPlace
  BY DEF IInv, FinalIsInPlace, SubmitInv, DoneInv
<1> QED BY <1>1, Invariance, PTL

\* on_train_end leaves nothing held back or owed, has published every checkpoint of the run
\* that did not fail, and has rotated the others.
THEOREM NothingIsOwed == Spec => []TrainEndSettles
<1>1. IInv => TrainEndSettles
  <2> SUFFICES ASSUME IInv, tpc \in {"ended", "done"} PROVE TrainEndSettles
    BY DEF TrainEndSettles
  <2>1. unconsolidated = {} /\ rotation = {} /\ Bounded
    BY DEF IInv, RotationInv, After
  <2>2. deferred = <<>>
    BY <2>1 DEF IInv, EventInv
  <2>3. ASSUME NEW s \in saved, s > base
        PROVE  s \in failed \/ \E k \in DOMAIN published : published[k] = s
    <3>1. base < s
      <4>1. s \in Nat /\ base \in Nat
        BY Numbers DEF IInv, TypeOK
      <4> QED BY <2>3, <4>1
    <3> QED BY <2>2, <3>1 DEF IInv, EventInv
  <2> QED BY <2>1, <2>2, <2>3 DEF TrainEndSettles, Bounded
<1> QED BY <1>1, Invariance, PTL

\* Only a poll or on_train_end deletes checkpoints.
LEMMA OnlyReleaseDeletes ==
    ASSUME IInv, [Next]_vars
    PROVE  \/ saved \subseteq saved' /\ Complete \subseteq Complete'
           \/ \E F \in SUBSET FinishedNow : tpc \in {"train", "polling"} /\ Release(F)
<1>1. CASE Poll \/ TrainEnd
  BY <1>1 DEF Poll, TrainEnd
<1>2. CASE Worker
  <2>1. CASE Take
    BY <2>1 DEF Take, Complete
  <2>2. ASSUME NEW p \in Paths, Assemble(p) \/ DropShards(p)
        PROVE  saved \subseteq saved' /\ Complete \subseteq Complete'
    <3>1. saved' = saved /\ saved \subseteq Paths
      BY <2>2, WorkerFacts, Numbers DEF IInv, TypeOK
    <3>2. \A q \in Paths : disk[q] = "adapter" => disk'[q] = "adapter"
      BY <2>2, WorkerFacts
    <3> QED BY <3>1, <3>2 DEF Complete
  <2> QED BY <1>2, <2>1, <2>2 DEF Worker
<1>3. CASE WriteShards \/ WriteManifest
  <2>1. target' \notin saved /\ saved' = saved
    BY <1>3, Numbers DEF WriteShards, WriteManifest, IInv, TypeOK, StepInv, Saving, Writing
  <2>2. \A q \in saved : disk'[q] = disk[q]
    BY <1>3, <2>1, Numbers DEF WriteShards, WriteManifest, IInv, TypeOK
  <2> QED BY <2>1, <2>2 DEF Complete
<1>4. CASE Load
  <2>1. saved' = saved /\ \A q \in saved : disk[q] = "adapter" => disk'[q] = "adapter"
    BY <1>4, Numbers DEF Load, IInv, TypeOK, Replaced
  <2> QED BY <2>1 DEF Complete
<1>5. CASE Restart
  <2>1. saved' = saved /\ \A q \in saved : disk'[q] = disk[q]
    BY <1>5, Numbers DEF Restart, IInv, TypeOK
  <2> QED BY <2>1 DEF Complete
<1>6. CASE StepEnds \/ Submit \/ FinishSave \/ FinalResult \/ UNCHANGED vars
  <2>1. saved \subseteq saved' /\ disk' = disk
    BY <1>6 DEF StepEnds, Submit, FinishSave, FinalResult, vars
  <2> QED BY <2>1 DEF Complete
<1> QED BY <1>1, <1>2, <1>3, <1>4, <1>5, <1>6 DEF Next, Trainer, Stopped

\* Rotation never deletes a checkpoint of the run that still has shards to consolidate.
THEOREM ShardsAreSpared == Spec => UnfinishedIsSpared
<1>1. IInv /\ [Next]_vars =>
          [\A s \in saved : s > base /\ disk[s] # "adapter" => s \in saved']_vars
  <2> SUFFICES ASSUME IInv, [Next]_vars, NEW s \in saved, s > base, disk[s] # "adapter"
               PROVE  s \in saved'
    OBVIOUS
  <2>1. CASE saved \subseteq saved'
    BY <2>1
  <2>2. ASSUME NEW F \in SUBSET FinishedNow, tpc \in {"train", "polling"}, Release(F)
        PROVE  s \in saved'
    <3>1. saved' = saved \ Gone(F) /\ Gone(F) \subseteq OnDisk \ (unconsolidated' \cup failed')
      BY <2>2, ReleaseFacts DEF IInv
    <3>2. ASSUME s \in Gone(F) PROVE base < s => disk[s] = "adapter"
      BY <2>2, <3>1, <3>2, GoneAreDone
    <3>3. base < s
      <4>1. s \in Nat /\ base \in Nat
        BY Numbers DEF IInv, TypeOK
      <4> QED BY <4>1
    <3> QED BY <3>1, <3>2, <3>3
  <2> QED BY <2>1, <2>2, OnlyReleaseDeletes
<1> QED BY <1>1, Invariance, PTL DEF Spec, UnfinishedIsSpared

\* The newest complete checkpoint never gets older: no rotation, restart or consolidation
\* leaves the job with less to resume from than it had.
THEOREM NewestSurvives == Spec => NewestCompleteSurvives
<1>1. IInv /\ IInv' /\ [Next]_vars =>
          [Max(Complete' \cup {0}) >= Max(Complete \cup {0})]_vars
  <2> SUFFICES ASSUME IInv, IInv', [Next]_vars
               PROVE  Max(Complete' \cup {0}) >= Max(Complete \cup {0})
    OBVIOUS
  <2> DEFINE m == Max(Complete \cup {0})
             n == Max(Complete' \cup {0})
  <2>1. Complete \subseteq Checkpoints /\ Complete' \subseteq Checkpoints
    BY DEF Complete, IInv, TypeOK
  <2>2. /\ m \in Complete \cup {0} /\ m \in Paths
        /\ n \in Paths /\ \A s \in Complete' : s <= n
    BY <2>1, Newest
  <2> HIDE DEF m, n
  <2>3. m \in Nat /\ n \in Nat /\ \A s \in Complete' : s \in Nat
    BY <2>1, <2>2, Numbers
  <2>4. CASE m = 0
    BY <2>3, <2>4 DEF m, n
  <2>5. CASE m \in Complete
    <3>1. CASE Complete \subseteq Complete'
      <4>1. m <= n
        BY <2>2, <2>5, <3>1
      <4> QED BY <2>3, <4>1 DEF m, n
    <3>2. ASSUME NEW F \in SUBSET FinishedNow, tpc \in {"train", "polling"}, Release(F)
          PROVE  n >= m
      <4>1. PICK s \in Complete' : m <= s
        BY <2>5, <3>2, NoneLost
      <4>2. s <= n
        BY <2>2, <4>1
      <4> QED BY <2>3, <4>1, <4>2
    <3> QED BY <3>1, <3>2, OnlyReleaseDeletes DEF m, n
  <2> QED BY <2>2, <2>4, <2>5 DEF m
<1> QED BY <1>1, Invariance, PTL DEF Spec, NewestCompleteSurvives

-----------------------------------------------------------------------------
(* What it takes the limit of two outstanding consolidations for.          *)

\* Nothing held back is deleted by a poll: the checkpoint and the first one still held back
\* were both unfinished when the poll began, and a newer one that counted would be a third.
LEMMA HeldBackIsSpared ==
    ASSUME IInv, HeldInv, tpc = "polling", NEW F \in SUBSET FinishedNow, known \subseteq F,
           Release(F)
    PROVE  HeldBackIsOnDisk'
<1>1. /\ unconsolidated' = unconsolidated \ F
      /\ failed' = failed \cup {p \in F : ~Succeeded(p)}
      /\ saved' = saved \ Gone(F)
      /\ Gone(F) \subseteq OnDisk \ (unconsolidated' \cup failed')
  BY ReleaseFacts DEF IInv
<1>2. PICK k \in 0 .. Len(deferred) :
           /\ k < Len(deferred) => deferred[k + 1] \in unconsolidated'
           /\ deferred' \in Seq(Checkpoints) /\ Len(deferred') = Len(deferred) - k
           /\ \A i \in 1 .. Len(deferred) - k : deferred'[i] = deferred[i + k]
  BY <1>1, ReleasedEvents DEF IInv
<1>3. /\ deferred \in Seq(Checkpoints) /\ Len(deferred) \in Nat
      /\ DOMAIN deferred = 1 .. Len(deferred)
      /\ DOMAIN deferred' = 1 .. Len(deferred) - k
  BY <1>2 DEF IInv, TypeOK
<1> SUFFICES ASSUME NEW i \in DOMAIN deferred', deferred'[i] \notin saved' PROVE FALSE
  BY DEF HeldBackIsOnDisk
<1> DEFINE v == deferred[i + k]
           first == deferred[k + 1]
           c == OnDisk \ (unconsolidated' \cup failed')
           x == Max(c)
<1>4. /\ i + k \in DOMAIN deferred /\ k + 1 \in DOMAIN deferred /\ k < Len(deferred)
      /\ i + k # k + 1 => k + 1 < i + k
  BY <1>2, <1>3
<1>5. v \in saved /\ v \in Gone(F) /\ first \in unconsolidated'
  <2>1. deferred'[i] = v
    BY <1>2, <1>3
  <2>2. v \in saved
    BY <1>4 DEF HeldInv, HeldBackIsOnDisk
  <2> HIDE DEF v
  <2> QED BY <1>1, <1>2, <1>4, <2>1, <2>2
<1>6. first < v
  <2>1. i + k # k + 1
    BY <1>1, <1>5
  <2> QED BY <1>4, <2>1 DEF IInv, EventInv
<1>7. /\ x \in c /\ x \notin Gone(F) /\ \A s \in c : s <= x
  <2>1. Gone(F) = Victims(unconsolidated' \cup failed', Max(rotation))
    BY <1>1, <1>5 DEF Gone, Excluded
  <2>2. v \in Victims(unconsolidated' \cup failed', Max(rotation))
    BY <1>5, <2>1
  <2>3. /\ x \in c /\ x \notin Victims(unconsolidated' \cup failed', Max(rotation))
        /\ \A s \in c : s <= x
    BY <2>2, VictimsAreOld
  <2> QED BY <2>1, <2>3
<1> HIDE DEF x
<1>8. v < x /\ first < x /\ x \in saved
  <2>1. v <= x /\ v # x
    BY <1>1, <1>5, <1>7
  <2>2. x \in saved
    BY <1>7 DEF IInv, DiskInv
  <2>3. v \in Checkpoints /\ first \in Checkpoints /\ x \in Checkpoints
    BY <1>3, <1>4, <2>2 DEF IInv, TypeOK
  <2>4. v \in Nat /\ first \in Nat /\ x \in Nat
    BY <2>3, Numbers
  <2> HIDE DEF v, first
  <2> QED BY <1>6, <2>1, <2>2, <2>4
<1>9. PICK j \in DOMAIN deferred : deferred[j] = x
  BY <1>4, <1>8 DEF IInv, EventInv
<1>10. first \in unconsolidated \ known /\ v \in unconsolidated \ known
       /\ x \in unconsolidated \ known
  <2>1. first \in unconsolidated \ known
    BY <1>1, <1>5
  <2>2. \A h \in DOMAIN deferred :
            first < deferred[h] => deferred[h] \in unconsolidated \ known
    BY <2>1 DEF HeldInv
  <2> QED BY <1>4, <1>6, <1>8, <1>9, <2>1, <2>2
<1> QED BY <1>6, <1>8, <1>10 DEF HeldInv, Few

\* A save that finds room finds at most one consolidation outstanding.
LEMMA OneOutstanding ==
    ASSUME IInv, Limit <= 2, HasCapacity
    PROVE  \A p, q \in Outstanding : p = q
<1> SUFFICES ASSUME NEW p \in Outstanding, NEW q \in Outstanding, p # q PROVE FALSE
  OBVIOUS
<1>1. Outstanding \subseteq Paths
  BY DEF Outstanding, IInv, TypeOK
<1>2. IsFiniteSet(Outstanding) /\ {p, q} \in SUBSET Outstanding
  BY <1>1, SomeCheckpoints
<1>3. Cardinality({p, q}) <= Cardinality(Outstanding)
  BY <1>2, FS_Subset
<1>4. Cardinality({p, q}) = 2
  <2>1. {p, q} = {p} \cup {q} /\ IsFiniteSet({p}) /\ Cardinality({p}) = 1 /\ q \notin {p}
    BY FS_Singleton
  <2> QED BY <2>1, FS_AddElement
<1>5. Cardinality(Outstanding) \in Nat
  BY <1>2, FS_CardinalityType
<1> QED BY <1>3, <1>4, <1>5, SaveAssumption DEF SaveAssumption, HasCapacity

\* Every step keeps what is held back on disk.
LEMMA HeldKeeps ==
    ASSUME IInv, HeldInv, [Next]_vars, Limit <= 2
    PROVE  HeldInv'
<1>1. CASE Poll
  <2>1. HeldBackIsOnDisk'
    <3>1. PICK F \in SUBSET FinishedNow : known \subseteq F /\ Release(F)
      BY <1>1 DEF Poll
    <3> QED BY <1>1, <3>1, HeldBackIsSpared DEF Poll
  <2>2. Outstanding' = Outstanding /\ tpc' \in {"train", "capacity"}
    BY <1>1, SameQueue DEF Poll, queueVars
  <2> QED BY <2>1, <2>2 DEF HeldInv, Writing
<1>2. CASE TrainEnd
  <2>1. deferred' = <<>>
    <3>1. IInv' /\ tpc' = "ended"
      BY <1>2, TrainEndKeeps DEF TrainEnd
    <3> QED BY <3>1 DEF IInv, RotationInv, EventInv, After
  <2>2. Outstanding' = Outstanding /\ tpc' = "ended"
    BY <1>2, SameQueue DEF TrainEnd, queueVars
  <2> QED BY <2>1, <2>2 DEF HeldInv, HeldBackIsOnDisk, Writing
<1>3. CASE StepEnds
  <2>1. UNCHANGED <<deferred, saved, unconsolidated, future>> /\ tpc' = "polling"
        /\ known' = FinishedNow
    BY <1>3 DEF StepEnds, gateVars, queueVars
  <2>2. unconsolidated' \ known' \subseteq Outstanding
    BY <2>1 DEF FinishedNow, Settled, Outstanding
  <2>3. Few(unconsolidated' \ known')
    BY <2>2 DEF HeldInv, Few
  <2>4. ASSUME NEW p \in unconsolidated' \ known', NEW i \in DOMAIN deferred', p < deferred'[i]
        PROVE  deferred'[i] \in unconsolidated' \ known'
    <3>1. deferred[i] \in Queued /\ p \in Queued /\ deferred'[i] = deferred[i]
      BY <2>1, <2>4 DEF IInv, EventInv, GateInv
    <3>2. future[p] = "pending"
      BY <2>2, <2>4 DEF Outstanding
    <3>3. future[deferred[i]] = "pending"
      BY <2>4, <3>1, <3>2 DEF IInv, QueueInv, Queued
    <3>4. deferred[i] \in unconsolidated /\ deferred[i] \notin FinishedNow
      BY <3>1, <3>3 DEF IInv, GateInv, FinishedNow, Settled, Queued
    <3> QED BY <2>1, <3>1, <3>4
  <2>5. Outstanding' = Outstanding /\ ~ Writing(FALSE)'
    BY <2>1, SameQueue DEF Writing
  <2>6. HeldBackIsOnDisk'
    BY <2>1 DEF HeldInv, HeldBackIsOnDisk
  <2> QED BY <2>3, <2>4, <2>5, <2>6 DEF HeldInv
<1>4. CASE WriteShards
  <2>1. UNCHANGED <<deferred, saved, future>> /\ tpc' = "manifest"
    BY <1>4 DEF WriteShards, gateVars, queueVars
  <2>2. Outstanding' = Outstanding /\ HeldBackIsOnDisk'
    BY <2>1, SameQueue DEF HeldInv, HeldBackIsOnDisk
  <2>3. \A p, q \in Outstanding : p = q
    BY <1>4, OneOutstanding DEF WriteShards
  <2> QED BY <2>1, <2>2, <2>3 DEF HeldInv
<1>5. CASE WriteManifest
  <2>1. UNCHANGED <<deferred, saved, future, target>> /\ tpc = "manifest"
        /\ tpc' \in {"submit", "raised"}
    BY <1>5 DEF WriteManifest, gateVars, queueVars
  <2>2. Outstanding' = Outstanding /\ HeldBackIsOnDisk'
    BY <2>1, SameQueue DEF HeldInv, HeldBackIsOnDisk
  <2> QED BY <2>1, <2>2 DEF HeldInv, Writing
<1>6. CASE Submit
  <2>1. UNCHANGED <<deferred, saved>> /\ tpc = "submit" /\ tpc' \in {"result", "rest", "raised"}
    BY <1>6 DEF Submit
  <2>2. Outstanding' \subseteq Outstanding \cup {target}
    BY <1>6 DEF Submit, Outstanding
  <2>3. \A p, q \in Outstanding : p = q
    BY <2>1 DEF IInv, SubmitInv, HeldInv, Writing
  <2>4. Few(Outstanding')
    <3> SUFFICES ASSUME NEW p \in Outstanding', NEW q \in Outstanding', NEW r \in Outstanding',
                        p < q, q < r
                 PROVE  FALSE
      BY DEF Few
    <3>1. p \in Paths /\ q \in Paths /\ r \in Paths
      BY <1>6, SubmitKeeps DEF IInv, TypeOK, Outstanding
    <3>2. p # q /\ q # r /\ p # r
      BY <3>1, Numbers
    <3> QED BY <2>2, <2>3, <3>2
  <2>5. HeldBackIsOnDisk'
    BY <2>1 DEF HeldInv, HeldBackIsOnDisk
  <2> QED BY <2>1, <2>4, <2>5 DEF HeldInv, Writing
<1>7. CASE FinishSave
  <2>1. UNCHANGED future /\ tpc' = "train" /\ saved' = saved \cup {step}
        /\ deferred' = Append(deferred, step)
    BY <1>7 DEF FinishSave, queueVars
  <2>2. HeldBackIsOnDisk'
    BY <2>1 DEF HeldInv, HeldBackIsOnDisk, IInv, TypeOK
  <2> QED BY <2>1, <2>2, SameQueue DEF HeldInv, Writing
<1>8. CASE Worker
  <2>1. /\ UNCHANGED <<deferred, saved, tpc, target, known, unconsolidated>>
        /\ Outstanding' \subseteq Outstanding
    <3>1. CASE Take
      BY <3>1, SameQueue DEF Take, gateVars
    <3>2. ASSUME NEW p \in Paths, Assemble(p) \/ DropShards(p)
          PROVE  /\ UNCHANGED <<deferred, saved, tpc, target, known, unconsolidated>>
                 /\ Outstanding' \subseteq Outstanding
      BY <3>2, WorkerFacts DEF gateVars
    <3> QED BY <1>8, <3>1, <3>2 DEF Worker
  <2> QED BY <2>1 DEF HeldInv, HeldBackIsOnDisk, Writing, Few
<1>9. CASE Restart
  BY <1>9 DEF Restart, HeldInv, HeldBackIsOnDisk, Outstanding, Few, Writing
<1>10. CASE FinalResult \/ Load \/ UNCHANGED vars
  <2>1. /\ UNCHANGED <<deferred, saved, target, known, unconsolidated, future>>
        /\ tpc' \in {"done", "raised", "load", "train", tpc}
    BY <1>10 DEF FinalResult, Load, vars, gateVars, queueVars
  <2>2. Outstanding' = Outstanding /\ HeldBackIsOnDisk'
    BY <2>1, SameQueue DEF HeldInv, HeldBackIsOnDisk
  <2> QED BY <2>1, <2>2 DEF HeldInv, Writing
<1> QED BY <1>1, <1>2, <1>3, <1>4, <1>5, <1>6, <1>7, <1>8, <1>9, <1>10
    DEF Next, Trainer, Stopped

\* With at most two consolidations outstanding the additional invariant holds as well.
LEMMA HeldInvariance ==
    ASSUME Limit <= 2
    PROVE  Spec => []HeldInv
<1>1. Init => HeldInv
  BY DEF Init, HeldInv, HeldBackIsOnDisk, Outstanding, Few, Writing
<1>2. IInv /\ HeldInv /\ [Next]_vars => HeldInv'
  BY HeldKeeps
<1> QED BY <1>1, <1>2, Invariance, PTL DEF Spec

\* With at most two consolidations outstanding, rotation deletes no checkpoint whose on_save
\* is still held back.
THEOREM HeldBackStays ==
    ASSUME Limit <= 2
    PROVE  Spec => []HeldBackIsOnDisk
<1>1. HeldInv => HeldBackIsOnDisk
  BY DEF HeldInv
<1> QED BY <1>1, HeldInvariance, PTL

\* The on_save events that a release lets go, in save order, for complete checkpoints.
LEMMA ReleaseSeesComplete ==
    ASSUME IInv, HeldInv, tpc \in {"train", "polling"}, NEW F \in SUBSET FinishedNow, Release(F)
    PROVE  \A k \in Len(published) + 1 .. Len(published') :
               published'[k] # 0 =>
                   /\ published'[k] \in Complete
                   /\ \A j \in 1 .. k - 1 : published'[j] < published'[k]
<1>1. /\ unconsolidated' = unconsolidated \ F
      /\ failed' = failed \cup {p \in F : ~Succeeded(p)}
  BY ReleaseFacts DEF IInv
<1>2. PICK n \in 0 .. Len(deferred) :
           /\ \A i \in 1 .. n : deferred[i] \notin unconsolidated'
           /\ Len(published') = Len(published) + n
           /\ \A j \in 1 .. Len(published) : published'[j] = published[j]
           /\ \A i \in 1 .. n : published'[Len(published) + i] =
                  IF deferred[i] \in failed' THEN 0 ELSE deferred[i]
  BY <1>1, ReleasedEvents DEF IInv
<1>3. /\ Len(deferred) \in Nat /\ DOMAIN deferred = 1 .. Len(deferred)
      /\ Len(published) \in Nat /\ DOMAIN published = 1 .. Len(published)
      /\ \A i \in DOMAIN deferred : deferred[i] \in Nat /\ 0 < deferred[i]
  <2>1. deferred \in Seq(Checkpoints) /\ published \in Seq(Paths)
    BY DEF IInv, TypeOK
  <2>2. \A p \in Checkpoints : p \in Nat /\ 0 < p
    BY Numbers
  <2> QED BY <2>1, <2>2
<1> SUFFICES ASSUME NEW k \in Len(published) + 1 .. Len(published'), published'[k] # 0
             PROVE  /\ published'[k] \in Complete
                    /\ \A j \in 1 .. k - 1 : published'[j] < published'[k]
  OBVIOUS
<1> DEFINE i == k - Len(published)
<1>4. i \in 1 .. n /\ i \in DOMAIN deferred /\ Len(published) + i = k
  BY <1>2, <1>3
<1>5. published'[k] = deferred[i] /\ deferred[i] \notin failed'
  <2> HIDE DEF i
  <2> QED BY <1>2, <1>4
<1>6. deferred[i] \in Complete
  <2>1. deferred[i] \in Queued /\ deferred[i] \in saved
    BY <1>4 DEF IInv, EventInv, HeldInv, HeldBackIsOnDisk
  <2>2. future[deferred[i]] = "done"
    BY <1>2, <1>4, <1>5, <2>1, Reported
  <2>3. disk[deferred[i]] \in {"adapter", "absent"}
    BY <2>1, <2>2 DEF IInv, DoneInv, Queued
  <2>4. disk[deferred[i]] # "absent"
    BY <2>1 DEF IInv, DiskInv, Recoverable
  <2> QED BY <2>1, <2>3, <2>4 DEF Complete
<1>7. ASSUME NEW j \in 1 .. k - 1 PROVE published'[j] < deferred[i]
  <2>1. CASE j \in 1 .. Len(published)
    BY <1>2, <1>3, <1>4, <2>1 DEF IInv, EventInv
  <2>2. CASE j \notin 1 .. Len(published)
    <3> DEFINE h == j - Len(published)
    <3>1. h \in 1 .. n /\ h \in DOMAIN deferred /\ Len(published) + h = j /\ h < i
      BY <1>2, <1>3, <1>4, <2>2
    <3> HIDE DEF h, i
    <3>2. deferred[h] < deferred[i]
      BY <1>4, <3>1 DEF IInv, EventInv
    <3>3. published'[j] \in {0, deferred[h]}
      BY <1>2, <3>1
    <3> QED BY <1>3, <1>4, <3>2, <3>3
  <2> QED BY <2>1, <2>2
<1> QED BY <1>5, <1>6, <1>7

\* With that limit on_save runs in save order, and only for a checkpoint whose consolidated
\* adapter is there and has not been deleted.
THEOREM OnSaveIsInOrder ==
    ASSUME Limit <= 2
    PROVE  Spec => OnSaveSeesComplete
<1> DEFINE Seen == \A k \in Len(published) + 1 .. Len(published') :
               published'[k] # 0 =>
                   /\ published'[k] \in Complete
                   /\ \A j \in 1 .. k - 1 : published'[j] < published'[k]
<1>1. IInv /\ HeldInv /\ [Next]_vars => [Seen]_vars
  <2> SUFFICES ASSUME IInv, HeldInv, [Next]_vars PROVE Seen
    OBVIOUS
  <2>1. CASE Poll \/ TrainEnd
    <3>1. PICK F \in SUBSET FinishedNow : tpc \in {"train", "polling"} /\ Release(F)
      BY <2>1 DEF Poll, TrainEnd
    <3> QED BY <3>1, ReleaseSeesComplete
  <2>2. CASE published' \in {published, <<>>}
    <3>1. Len(published) \in Nat
      BY DEF IInv, TypeOK
    <3>2. Len(published) + 1 .. Len(published') = {}
      <4>1. Len(published') \in {Len(published), 0}
        BY <2>2
      <4> QED BY <3>1, <4>1
    <3> QED BY <3>2
  <2>3. Poll \/ TrainEnd \/ published' \in {published, <<>>}
    <3>1. CASE Worker
      BY <3>1 DEF Worker, Take, Assemble, DropShards, gateVars
    <3>2. CASE StepEnds \/ WriteShards \/ WriteManifest \/ Submit \/ FinishSave
      BY <3>2 DEF StepEnds, WriteShards, WriteManifest, Submit, FinishSave, gateVars
    <3>3. CASE FinalResult \/ Load \/ Restart \/ UNCHANGED vars
      BY <3>3 DEF FinalResult, Load, Restart, vars, gateVars
    <3> QED BY <3>1, <3>2, <3>3 DEF Next, Trainer, Stopped
  <2> QED BY <2>1, <2>2, <2>3
<1> QED BY <1>1, Invariance, HeldInvariance, PTL DEF Spec, OnSaveSeesComplete
=============================================================================
