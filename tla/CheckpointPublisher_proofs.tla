--------------------- MODULE CheckpointPublisher_proofs ---------------------
(***************************************************************************)
(* Proofs about CheckpointPublisher, for every max_pending, any number of  *)
(* submissions and any combination of failing calls.                       *)
(***************************************************************************)
EXTENDS CheckpointPublisher, FiniteSetTheorems, SequenceTheorems, TLAPS

Busy == wpc \in {"chain", "publishing", "removing"}
Submitted == 1 .. Len(future)

\* The work queue is the suffix of the submissions that nobody has taken.
QueueInv ==
    /\ Len(workq) <= Len(future)
    /\ \A k \in 1 .. Len(workq) : workq[k] = Len(future) - Len(workq) + k
    /\ \A i \in Submitted : future[i] = "pending" <=> i > Len(future) - Len(workq)

\* Only the thread's current submission runs; an exited thread left no work.
RunInv ==
    /\ Busy => job \in Submitted
    /\ \A i \in Submitted : future[i] = "running" <=> Busy /\ i = job
    /\ wpc = "exited" => closed /\ workq = <<>>
    /\ closed => ppc \in {"free", "waitall", "draining", "joining"}
    /\ ppc \in {"draining", "joining"} => closed
    /\ ppc = "joining" /\ cancel => workq = <<>>

\* A future waits for the one before it, or everything before it succeeded.
ChainInv ==
    /\ \A i \in 1 .. head - 1 : future[i] = "done"
    /\ \A i \in Submitted : previous[i] \in {0, i - 1}
    /\ \A i \in Submitted : previous[i] = 0 => \A j \in 1 .. i - 1 : future[j] = "done"
    /\ \A i \in Submitted : future[i] = "done" => \A j \in 1 .. i - 1 : future[j] = "done"

\* The destination holds exactly what the futures say it holds.
PublishInv ==
    /\ PublishedInOrder
    /\ \A i \in Submitted : future[i] = "done" => i <= Len(published)
    /\ \A i \in Submitted : future[i] \in {"pending", "cancelled"} => i > Len(published)
    /\ wpc = "chain" => job > Len(published)
    /\ wpc = "publishing" \/ (wpc = "removing" /\ result = "done")
          => \A i \in 1 .. job - 1 : future[i] = "done"
    /\ wpc = "publishing" => Len(published) = job - 1
    /\ wpc = "removing" /\ result = "done" => Len(published) = job
    /\ wpc = "removing" /\ result = "failed" => job > Len(published)

DirectoryInv ==
    /\ NoOrphanDirectory
    /\ \A i \in leaked : Finished(i)

IInv == TypeOK /\ QueueInv /\ RunInv /\ ChainInv /\ PublishInv /\ DirectoryInv

-----------------------------------------------------------------------------
(* Sequences: what the operations of the actions do, element by element.   *)

LEMMA AppendFacts ==
    ASSUME NEW S, NEW s \in Seq(S), NEW e \in S
    PROVE  /\ Append(s, e) \in Seq(S)
           /\ Len(Append(s, e)) = Len(s) + 1
           /\ \A i \in 1 .. Len(s) : Append(s, e)[i] = s[i]
           /\ Append(s, e)[Len(s) + 1] = e
OBVIOUS

LEMMA TailFacts ==
    ASSUME NEW S, NEW s \in Seq(S), s # <<>>
    PROVE  /\ Tail(s) \in Seq(S)
           /\ Len(s) \in Nat /\ Len(s) >= 1
           /\ Len(Tail(s)) = Len(s) - 1
           /\ Head(s) = s[1]
           /\ \A i \in 1 .. Len(s) - 1 : Tail(s)[i] = s[i + 1]
OBVIOUS

LEMMA ExceptFacts ==
    ASSUME NEW S, NEW s \in Seq(S), NEW i \in 1 .. Len(s), NEW e \in S
    PROVE  /\ [s EXCEPT ![i] = e] \in Seq(S)
           /\ Len([s EXCEPT ![i] = e]) = Len(s)
           /\ [s EXCEPT ![i] = e][i] = e
           /\ \A j \in 1 .. Len(s) : j # i => [s EXCEPT ![i] = e][j] = s[j]
OBVIOUS

-----------------------------------------------------------------------------
(* The producer's steps that leave the executor alone.                     *)

LEMMA InitInv == Init => IInv
<1> SUFFICES ASSUME Init PROVE IInv
  OBVIOUS
<1>1. /\ future = <<>> /\ Len(future) = 0 /\ workq = <<>> /\ Len(workq) = 0
      /\ published = <<>> /\ Len(published) = 0 /\ previous = <<>> /\ Len(previous) = 0
  BY DEF Init
<1>2. TypeOK
  <2>1. future \in Seq(FutureStates) /\ previous \in Seq(Nat) /\ workq \in Seq(Nat)
        /\ published \in Seq(Nat)
    BY <1>1
  <2>2. head \in 1 .. Len(future) + 1 /\ job \in 0 .. Len(future)
    BY <1>1 DEF Init
  <2> QED BY <1>1, <2>1, <2>2 DEF Init, TypeOK
<1>3. QueueInv /\ ChainInv
  BY <1>1 DEF Init, QueueInv, ChainInv, Submitted
<1>4. RunInv
  BY <1>1 DEF Init, RunInv, Submitted, Busy
<1>5. PublishInv
  BY <1>1 DEF Init, PublishInv, PublishedInOrder, Submitted
<1>6. DirectoryInv
  BY <1>1 DEF Init, DirectoryInv, NoOrphanDirectory
<1> QED BY <1>2, <1>3, <1>4, <1>5, <1>6 DEF IInv

\* Everything the invariant asks of a producer's step that submits and cancels
\* nothing.
ProducerStep ==
    /\ UNCHANGED <<future, previous, workq, workVars>>
    /\ head' \in 1 .. Len(future) + 1
    /\ \A i \in 1 .. head' - 1 : future[i] = "done"
    /\ closed' \in BOOLEAN /\ cancel' \in BOOLEAN /\ reported' \in BOOLEAN
    /\ ppc' \in {"free", "waiting", "retaining", "queueing", "waitall",
                 "draining", "joining"}
    /\ closed => closed'
    /\ closed' => ppc' \in {"free", "waitall", "draining", "joining"}
    /\ ppc' \in {"draining", "joining"} => closed'
    /\ ppc' = "joining" /\ cancel' => workq = <<>>
    /\ \/ retained' = retained /\ ppc # "queueing"
       \/ retained' = retained \cup {Len(future) + 1} /\ ppc' = "queueing"

LEMMA ProducerStepInv == IInv /\ ProducerStep => IInv'
<1> SUFFICES ASSUME IInv, ProducerStep PROVE IInv'
  OBVIOUS
<1>0. Len(future) \in Nat
  BY DEF IInv, TypeOK
<1>1. TypeOK'
  <2>1. retained \in SUBSET (1 .. Len(future) + 1)
    BY DEF IInv, TypeOK
  <2>2. retained' = retained \/ retained' = retained \cup {Len(future) + 1}
    BY DEF ProducerStep
  <2>3. retained' \in SUBSET (1 .. Len(future) + 1)
    <3>1. Len(future) + 1 \in 1 .. Len(future) + 1
      BY <1>0
    <3> QED BY <2>1, <2>2, <3>1
  <2> QED BY <1>0, <2>3 DEF IInv, TypeOK, ProducerStep, workVars
<1>2. QueueInv'
  BY DEF IInv, QueueInv, ProducerStep, Submitted
<1>3. RunInv'
  BY DEF IInv, RunInv, TypeOK, ProducerStep, workVars, Submitted, Busy
<1>4. ChainInv'
  BY DEF IInv, ChainInv, ProducerStep, Submitted
<1>5. PublishInv'
  BY DEF IInv, PublishInv, PublishedInOrder, ProducerStep, workVars, Submitted
<1>6. DirectoryInv'
  BY DEF IInv, DirectoryInv, NoOrphanDirectory, Finished, ProducerStep, workVars
<1> QED BY <1>1, <1>2, <1>3, <1>4, <1>5, <1>6 DEF IInv

\* check() pops published submissions only.
LEMMA PoppedDone ==
    ASSUME IInv, NEW h \in Pending \cup {Len(future) + 1}, Popped(h)
    PROVE  h \in 1 .. Len(future) + 1 /\ \A i \in 1 .. h - 1 : future[i] = "done"
<1>1. Len(future) \in Nat /\ head \in 1 .. Len(future) + 1
  BY DEF IInv, TypeOK
<1>2. \A i \in 1 .. head - 1 : future[i] = "done"
  BY DEF IInv, ChainInv
<1> QED BY <1>1, <1>2 DEF Popped, Pending

LEMMA CheckThenInv ==
    ASSUME IInv, UNCHANGED <<future, previous, closed, cancel, retained, workq, workVars>>,
           NEW h \in Pending \cup {Len(future) + 1}, NEW ok, CheckThen(h, ok),
           ok \in {"free", "waiting", "retaining"},
           ok # "free" => ~closed,
           ppc # "queueing"
    PROVE  IInv'
<1>1. head' \in 1 .. Len(future) + 1 /\ \A i \in 1 .. head' - 1 : future[i] = "done"
  BY PoppedDone DEF CheckThen
<1>2. reported' \in BOOLEAN
  BY DEF CheckThen
<1>3. ppc' \in {"free", ok}
  BY DEF CheckThen
<1>4. ProducerStep
  BY <1>1, <1>2, <1>3 DEF ProducerStep, IInv, TypeOK
<1> QED BY <1>4, ProducerStepInv

LEMMA ProducerInv ==
    ASSUME IInv,
           \/ Check \/ (\E b \in BOOLEAN : Submit(b)) \/ WaitForRoom \/ Retain
           \/ Wait \/ WaitReturns \/ (\E c \in BOOLEAN : Close(c)) \/ CancelEnds \/ Join
    PROVE  IInv'
<1>0. /\ head \in 1 .. Len(future) + 1
      /\ \A i \in 1 .. head - 1 : future[i] = "done"
      /\ closed \in BOOLEAN /\ cancel \in BOOLEAN /\ reported \in BOOLEAN
      /\ closed => ppc \in {"free", "waitall", "draining", "joining"}
      /\ ppc \in {"draining", "joining"} => closed
      /\ ppc = "joining" /\ cancel => workq = <<>>
  BY DEF IInv, TypeOK, ChainInv, RunInv
<1>1. CASE Check
  BY <1>1, CheckThenInv DEF Check
<1>2. ASSUME NEW b \in BOOLEAN, Submit(b) PROVE IInv'
  <2>1. PICK h \in Pending \cup {Len(future) + 1} :
              CheckThen(h, RoomOr(h, IF b THEN "waiting" ELSE "free"))
    BY <1>2 DEF Submit
  <2>2. RoomOr(h, IF b THEN "waiting" ELSE "free") \in {"free", "waiting", "retaining"}
    BY DEF RoomOr
  <2> QED BY <1>2, <2>1, <2>2, CheckThenInv DEF Submit
<1>3. CASE WaitForRoom
  <2>1. PICK h \in Pending \cup {Len(future) + 1} : CheckThen(h, RoomOr(h, "waiting"))
    BY <1>3 DEF WaitForRoom
  <2>2. RoomOr(h, "waiting") \in {"free", "waiting", "retaining"} /\ ~closed
    BY <1>0, <1>3 DEF RoomOr, WaitForRoom
  <2> QED BY <1>3, <2>1, <2>2, CheckThenInv DEF WaitForRoom
<1>4. CASE Retain
  BY <1>0, <1>4, ProducerStepInv DEF Retain, ProducerStep
<1>5. CASE Wait
  BY <1>0, <1>5, ProducerStepInv DEF Wait, ProducerStep
<1>6. CASE WaitReturns
  BY <1>6, CheckThenInv DEF WaitReturns
<1>7. ASSUME NEW c \in BOOLEAN, Close(c) PROVE IInv'
  BY <1>0, <1>7, ProducerStepInv DEF Close, ProducerStep
<1>8. CASE CancelEnds
  BY <1>0, <1>8, ProducerStepInv DEF CancelEnds, ProducerStep
<1>9. CASE Join
  <2>1. head' \in 1 .. Len(future) + 1 /\ \A i \in 1 .. head' - 1 : future[i] = "done"
    BY <1>0, <1>9, PoppedDone DEF Join
  <2> QED BY <1>0, <1>9, <2>1, ProducerStepInv DEF Join, ProducerStep
<1> QED BY <1>1, <1>2, <1>3, <1>4, <1>5, <1>6, <1>7, <1>8, <1>9

-----------------------------------------------------------------------------
(* Enqueue: one more pending future at the end of the queue.               *)

LEMMA EnqueueInv ==
    ASSUME IInv, Enqueue PROVE IInv'
<1> DEFINE n == Len(future) + 1
<1>0. /\ future \in Seq(FutureStates) /\ previous \in Seq(Nat) /\ workq \in Seq(Nat)
      /\ Len(future) \in Nat /\ Len(workq) \in Nat /\ n \in Nat /\ Len(published) \in Nat
      /\ Len(previous) = Len(future) /\ head \in 1 .. Len(future) + 1
      /\ retained \in SUBSET (1 .. n) /\ leaked \in SUBSET (1 .. Len(future))
      /\ job \in 0 .. Len(future)
      /\ "pending" \in FutureStates
  BY DEF IInv, TypeOK, FutureStates
<1>a. /\ ppc = "queueing" /\ ppc' = "free" /\ ~closed /\ wpc # "exited"
      /\ UNCHANGED <<head, closed, cancel, reported, wpc, job, result, published, leaked>>
  BY DEF Enqueue, workVars, IInv, RunInv, TypeOK
<1>1. CASE future' = future /\ previous' = previous /\ workq' = workq /\ retained' = retained \ {n}
  <2>1. TypeOK'
    BY <1>0, <1>1, <1>a DEF IInv, TypeOK
  <2>2. QueueInv' /\ ChainInv'
    BY <1>1, <1>a DEF IInv, QueueInv, ChainInv, Submitted
  <2>3. RunInv'
    BY <1>1, <1>a DEF IInv, RunInv, Submitted, Busy
  <2>4. PublishInv'
    BY <1>1, <1>a DEF IInv, PublishInv, PublishedInOrder, Submitted
  <2>5. DirectoryInv'
    BY <1>1, <1>a DEF IInv, DirectoryInv, NoOrphanDirectory, Finished
  <2> QED BY <2>1, <2>2, <2>3, <2>4, <2>5 DEF IInv
<1>2. CASE /\ future' = Append(future, "pending")
           /\ previous' = Append(previous, Predecessor)
           /\ workq' = Append(workq, n)
           /\ retained' = retained
  <2>0. Predecessor \in Nat /\ Predecessor \in {0, n - 1}
        /\ (Predecessor = 0 => \A j \in 1 .. Len(future) : future[j] = "done")
    <3>1. \A j \in 1 .. head - 1 : future[j] = "done"
      BY DEF IInv, ChainInv
    <3>2. CASE head <= Len(future)
      <4>1. Pending # {} /\ Len(future) # 0
        BY <1>0, <3>2 DEF Pending
      <4> QED BY <1>0, <4>1 DEF Predecessor
    <3>3. CASE ~(head <= Len(future))
      <4>1. Pending = {} /\ head = n
        BY <1>0, <3>3 DEF Pending
      <4> QED BY <1>0, <3>1, <4>1 DEF Predecessor
    <3> QED BY <3>2, <3>3
  <2>1. /\ future' \in Seq(FutureStates) /\ Len(future') = n
        /\ future'[n] = "pending"
        /\ \A i \in 1 .. Len(future) : future'[i] = future[i]
    BY <1>0, <1>2, AppendFacts
  <2>2. /\ previous' \in Seq(Nat) /\ Len(previous') = n
        /\ previous'[n] = Predecessor
        /\ \A i \in 1 .. Len(future) : previous'[i] = previous[i]
    BY <1>0, <1>2, <2>0, AppendFacts
  <2>3. /\ workq' \in Seq(Nat) /\ Len(workq') = Len(workq) + 1
        /\ workq'[Len(workq) + 1] = n
        /\ \A i \in 1 .. Len(workq) : workq'[i] = workq[i]
    BY <1>0, <1>2, AppendFacts
  <2>4. \A i \in 1 .. Len(future') : i = n \/ i \in 1 .. Len(future)
    BY <1>0, <2>1
  <2> HIDE DEF n
  <2>5. TypeOK'
    <3>1. retained' \in SUBSET (1 .. Len(future') + 1) /\ leaked' \in SUBSET (1 .. Len(future'))
      BY <1>0, <1>2, <1>a, <2>1 DEF n
    <3>2. head' \in 1 .. Len(future') + 1 /\ job' \in 0 .. Len(future')
      BY <1>0, <1>a, <2>1 DEF n
    <3> QED BY <1>a, <2>1, <2>2, <2>3, <3>1, <3>2 DEF IInv, TypeOK
  <2>6. QueueInv'
    <3>1. /\ Len(workq) <= Len(future)
          /\ \A k \in 1 .. Len(workq) : workq[k] = Len(future) - Len(workq) + k
          /\ \A i \in 1 .. Len(future) : future[i] = "pending" <=> i > Len(future) - Len(workq)
      BY DEF IInv, QueueInv, Submitted
    <3>a. /\ Len(future) \in Nat /\ Len(workq) \in Nat /\ n = Len(future) + 1
          /\ Len(future') = n /\ Len(workq') = Len(workq) + 1
      BY <1>0, <2>1, <2>3 DEF n
    <3>2. \A k \in 1 .. Len(workq') : workq'[k] = Len(future') - Len(workq') + k
      <4> SUFFICES ASSUME NEW k \in 1 .. Len(workq')
                   PROVE  workq'[k] = Len(future') - Len(workq') + k
        OBVIOUS
      <4>1. CASE k = Len(workq) + 1
        BY <2>3, <3>a, <4>1
      <4>2. CASE k \in 1 .. Len(workq)
        <5>1. workq'[k] = Len(future) - Len(workq) + k
          BY <2>3, <3>1, <4>2
        <5> QED BY <3>a, <4>2, <5>1
      <4> QED BY <3>a, <4>1, <4>2
    <3>3. \A i \in 1 .. Len(future') : future'[i] = "pending" <=> i > Len(future') - Len(workq')
      <4>1. Len(future') - Len(workq') = Len(future) - Len(workq) /\ n > Len(future) - Len(workq)
        BY <3>a, <3>1
      <4> QED BY <2>1, <2>4, <3>1, <4>1
    <3> QED BY <1>0, <2>1, <2>3, <3>1, <3>2, <3>3 DEF QueueInv, Submitted, n
  <2>7. RunInv'
    BY <1>0, <1>a, <2>1, <2>4 DEF IInv, RunInv, Submitted, Busy, n
  <2>8. ChainInv'
    <3>1. \A i \in 1 .. head' - 1 : future'[i] = "done"
      BY <1>0, <1>a, <2>1 DEF IInv, ChainInv, n
    <3>2. \A i \in 1 .. Len(future') : previous'[i] \in {0, i - 1}
      BY <1>0, <2>0, <2>1, <2>2, <2>4 DEF IInv, ChainInv, Submitted, n
    <3>3. \A i \in 1 .. Len(future') :
             future'[i] = "done" \/ previous'[i] = 0 => \A j \in 1 .. i - 1 : future[j] = "done"
      <4>1. \A i \in 1 .. Len(future) :
               future'[i] = "done" \/ previous'[i] = 0 => \A j \in 1 .. i - 1 : future[j] = "done"
        BY <2>1, <2>2 DEF IInv, ChainInv, Submitted
      <4>2. n - 1 = Len(future)
        BY <1>0 DEF n
      <4> QED BY <2>0, <2>1, <2>2, <2>4, <4>1, <4>2
    <3>4. \A i \in 1 .. Len(future') : \A j \in 1 .. i - 1 : future'[j] = future[j]
      BY <1>0, <2>1 DEF n
    <3> QED BY <3>1, <3>2, <3>3, <3>4 DEF ChainInv, Submitted
  <2>9. PublishInv'
    <3>1. n > Len(published)
      BY <1>0 DEF IInv, PublishInv, PublishedInOrder, n
    <3>2. \A i \in 1 .. job - 1 : future'[i] = future[i]
      BY <1>0, <2>1
    <3>3. /\ \A i \in 1 .. Len(future') : future'[i] = "done" => i <= Len(published)
          /\ \A i \in 1 .. Len(future') : future'[i] \in {"pending", "cancelled"} => i > Len(published)
      BY <2>1, <2>4, <3>1 DEF IInv, PublishInv, Submitted
    <3>4. PublishedInOrder'
      BY <1>0, <1>a, <2>1 DEF IInv, PublishInv, PublishedInOrder, n
    <3> QED BY <1>a, <3>2, <3>3, <3>4 DEF IInv, PublishInv, Submitted
  <2>10. DirectoryInv'
    BY <1>0, <1>2, <1>a, <2>1, <2>4 DEF IInv, DirectoryInv, NoOrphanDirectory, Finished, n
  <2> QED BY <2>5, <2>6, <2>7, <2>8, <2>9, <2>10 DEF IInv
<1> QED BY <1>1, <1>2 DEF Enqueue, Queued

-----------------------------------------------------------------------------
(* The executor's steps.                                                   *)

\* The item at the head of the work queue is the oldest pending submission.
LEMMA HeadOfQueue ==
    ASSUME IInv, workq # <<>>
    PROVE  /\ Head(workq) = Len(future) - Len(workq) + 1
           /\ Head(workq) \in 1 .. Len(future)
           /\ future[Head(workq)] = "pending"
           /\ Tail(workq) \in Seq(Nat)
           /\ Len(workq) \in Nat \ {0}
           /\ Len(Tail(workq)) = Len(workq) - 1
           /\ \A k \in 1 .. Len(workq) - 1 : Tail(workq)[k] = workq[k + 1]
           /\ \A i \in 1 .. Len(future) :
                 future[i] = "pending" <=> i > Head(workq) \/ i = Head(workq)
<1>1. workq \in Seq(Nat) /\ Len(future) \in Nat
  BY DEF IInv, TypeOK
<1>2. /\ Tail(workq) \in Seq(Nat) /\ Len(workq) \in Nat \ {0}
      /\ Len(Tail(workq)) = Len(workq) - 1 /\ Head(workq) = workq[1]
      /\ \A k \in 1 .. Len(workq) - 1 : Tail(workq)[k] = workq[k + 1]
  BY <1>1, TailFacts
<1>3. /\ Len(workq) <= Len(future)
      /\ workq[1] = Len(future) - Len(workq) + 1
      /\ \A i \in 1 .. Len(future) : future[i] = "pending" <=> i > Len(future) - Len(workq)
  BY <1>1, <1>2 DEF IInv, QueueInv, Submitted
<1> QED BY <1>1, <1>2, <1>3

\* Taking the head off the queue leaves the queue invariant, whatever the
\* future becomes.
LEMMA QueueShrinks ==
    ASSUME IInv, workq # <<>>, workq' = Tail(workq), NEW s \in FutureStates \ {"pending"},
           future' = [future EXCEPT ![Head(workq)] = s]
    PROVE  /\ QueueInv'
           /\ future' \in Seq(FutureStates) /\ workq' \in Seq(Nat)
           /\ Len(future') = Len(future)
           /\ future'[Head(workq)] = s
           /\ \A i \in 1 .. Len(future) : i # Head(workq) => future'[i] = future[i]
<1>1. Len(future) \in Nat /\ future \in Seq(FutureStates)
  BY DEF IInv, TypeOK
<1>2. /\ future' \in Seq(FutureStates) /\ Len(future') = Len(future)
      /\ future'[Head(workq)] = s
      /\ \A i \in 1 .. Len(future) : i # Head(workq) => future'[i] = future[i]
  BY <1>1, HeadOfQueue, ExceptFacts
<1>3. \A k \in 1 .. Len(workq) : workq[k] = Len(future) - Len(workq) + k
  BY DEF IInv, QueueInv
<1>4. Len(workq) <= Len(future) /\ Len(workq) \in Nat \ {0} /\ workq' \in Seq(Nat)
      /\ Len(workq') = Len(workq) - 1
  BY HeadOfQueue DEF IInv, QueueInv
<1>5. \A k \in 1 .. Len(workq') : workq'[k] = Len(future') - Len(workq') + k
  BY <1>1, <1>2, <1>3, <1>4, HeadOfQueue
<1>6. \A i \in 1 .. Len(future') : future'[i] = "pending" <=> i > Len(future') - Len(workq')
  BY <1>1, <1>2, <1>4, HeadOfQueue
<1> QED BY <1>1, <1>2, <1>4, <1>5, <1>6 DEF QueueInv, Submitted

LEMMA TakeInv ==
    ASSUME IInv, Take PROVE IInv'
<1>0. /\ Len(future) \in Nat /\ Len(published) \in Nat /\ workq # <<>>
      /\ wpc = "idle" /\ wpc' = "chain" /\ job' = Head(workq)
      /\ "running" \in FutureStates \ {"pending"}
      /\ UNCHANGED <<previous, head, closed, cancel, ppc, reported, retained,
                     result, published, leaked>>
  BY DEF IInv, TypeOK, Take, FutureStates
<1>1. /\ QueueInv' /\ future' \in Seq(FutureStates) /\ workq' \in Seq(Nat)
      /\ Len(future') = Len(future) /\ future'[job'] = "running"
      /\ \A i \in 1 .. Len(future) : i # job' => future'[i] = future[i]
  BY <1>0, QueueShrinks DEF Take
<1>2. job' \in 1 .. Len(future) /\ future[job'] = "pending"
  BY <1>0, HeadOfQueue
<1>3. TypeOK'
  BY <1>0, <1>1, <1>2 DEF IInv, TypeOK
<1>4. RunInv'
  <2>1. \A i \in 1 .. Len(future) : future[i] # "running"
    BY <1>0 DEF IInv, RunInv, Busy, Submitted
  <2>2. ~(ppc = "joining" /\ cancel)
    BY <1>0 DEF IInv, RunInv
  <2> QED BY <1>0, <1>1, <1>2, <2>1, <2>2 DEF IInv, RunInv, Busy, Submitted
<1>5. ChainInv'
  <2>1. \A i \in 1 .. Len(future) : future'[i] = "done" <=> future[i] = "done"
    BY <1>0, <1>1, <1>2
  <2>2. head \in 1 .. Len(future) + 1
    BY DEF IInv, TypeOK
  <2>3. \A i \in 1 .. Len(future) : \A j \in 1 .. i - 1 : j \in 1 .. Len(future)
    BY <1>0
  <2> QED BY <1>0, <1>1, <2>1, <2>2, <2>3 DEF IInv, ChainInv, Submitted
<1>6. PublishInv'
  BY <1>0, <1>1, <1>2 DEF IInv, PublishInv, PublishedInOrder, Submitted
<1>7. DirectoryInv'
  <2>1. \A i \in 1 .. Len(future) : i # job' => (future'[i] \in {"done", "failed", "cancelled"} <=> Finished(i))
    BY <1>1 DEF Finished
  <2>2. leaked \in SUBSET (1 .. Len(future)) /\ retained \in SUBSET (1 .. Len(future) + 1)
    BY DEF IInv, TypeOK
  <2>3. future'[job'] \notin {"done", "failed", "cancelled"} /\ ~Finished(Head(workq))
    BY <1>0, <1>1, <1>2 DEF Finished
  <2>4. \A i \in leaked : Finished(i)
    BY DEF IInv, DirectoryInv
  <2>5. \A i \in leaked' : Finished(i)'
    BY <1>0, <1>1, <2>1, <2>2, <2>3, <2>4 DEF Finished
  <2>6. NoOrphanDirectory'
    <3> SUFFICES ASSUME NEW i \in (retained \ leaked)'
                 PROVE  (\/ i = Len(future) + 1 /\ ppc = "queueing"
                         \/ i <= Len(future) /\ ~Finished(i))'
      BY DEF NoOrphanDirectory
    <3>1. i \in retained \ leaked /\ i \in 1 .. Len(future) + 1
      BY <1>0, <2>2
    <3>2. (i = Len(future) + 1 /\ ppc = "queueing") \/ (i <= Len(future) /\ ~Finished(i))
      BY <3>1 DEF IInv, DirectoryInv, NoOrphanDirectory
    <3> QED BY <1>0, <1>1, <1>2, <2>1, <2>3, <3>1, <3>2 DEF Finished
  <2> QED BY <2>5, <2>6 DEF DirectoryInv
<1> QED BY <1>1, <1>3, <1>4, <1>5, <1>6, <1>7 DEF IInv

LEMMA CancelOneInv ==
    ASSUME IInv, CancelOne PROVE IInv'
<1> DEFINE c == Head(workq)
<1>0. /\ Len(future) \in Nat /\ Len(published) \in Nat /\ workq # <<>>
      /\ ppc = "draining" /\ "cancelled" \in FutureStates \ {"pending"}
      /\ UNCHANGED <<previous, head, closed, cancel, ppc, reported,
                     wpc, job, result, published>>
      /\ \/ retained' = retained \ {c} /\ leaked' = leaked
         \/ leaked' = leaked \cup {c} /\ retained' = retained
  BY DEF IInv, TypeOK, CancelOne, RemoveDirectory, FutureStates
<1>1. /\ QueueInv' /\ future' \in Seq(FutureStates) /\ workq' \in Seq(Nat)
      /\ Len(future') = Len(future) /\ future'[c] = "cancelled"
      /\ \A i \in 1 .. Len(future) : i # c => future'[i] = future[i]
  BY <1>0, QueueShrinks DEF CancelOne
<1>2. c \in 1 .. Len(future) /\ future[c] = "pending"
  BY <1>0, HeadOfQueue
<1> HIDE DEF c
<1>3. TypeOK'
  <2>1. retained' \in SUBSET (1 .. Len(future) + 1) /\ leaked' \in SUBSET (1 .. Len(future))
    BY <1>0, <1>2 DEF IInv, TypeOK
  <2> QED BY <1>0, <1>1, <2>1 DEF IInv, TypeOK
<1>4. RunInv'
  <2>1. wpc # "exited"
    BY <1>0 DEF IInv, RunInv
  <2> QED BY <1>0, <1>1, <1>2, <2>1 DEF IInv, RunInv, Busy, Submitted
<1>5. ChainInv'
  <2>1. \A i \in 1 .. Len(future) : future'[i] = "done" <=> future[i] = "done"
    BY <1>0, <1>1, <1>2
  <2>2. head \in 1 .. Len(future) + 1
    BY DEF IInv, TypeOK
  <2>3. \A i \in 1 .. Len(future) : \A j \in 1 .. i - 1 : j \in 1 .. Len(future)
    BY <1>0
  <2> QED BY <1>0, <1>1, <2>1, <2>2, <2>3 DEF IInv, ChainInv, Submitted
<1>6. PublishInv'
  BY <1>0, <1>1, <1>2 DEF IInv, PublishInv, PublishedInOrder, Submitted, RunInv, Busy
<1>7. DirectoryInv'
  <2>1. \A i \in 1 .. Len(future) : i # c => (future'[i] \in {"done", "failed", "cancelled"} <=> Finished(i))
    BY <1>1 DEF Finished
  <2>2. leaked \in SUBSET (1 .. Len(future)) /\ retained \in SUBSET (1 .. Len(future) + 1)
    BY DEF IInv, TypeOK
  <2>3. future'[c] \in {"done", "failed", "cancelled"} /\ ~Finished(c)
    BY <1>0, <1>1, <1>2 DEF Finished
  <2>4. \A i \in leaked : Finished(i)
    BY DEF IInv, DirectoryInv
  <2>5. \A i \in leaked' : Finished(i)'
    <3>1. \A i \in leaked' : i \in leaked \/ i = c
      BY <1>0
    <3>2. \A i \in leaked : future'[i] \in {"done", "failed", "cancelled"}
      BY <2>1, <2>2, <2>3, <2>4
    <3> QED BY <2>3, <3>1, <3>2 DEF Finished
  <2>6. NoOrphanDirectory'
    <3> SUFFICES ASSUME NEW i \in (retained \ leaked)'
                 PROVE  (\/ i = Len(future) + 1 /\ ppc = "queueing"
                         \/ i <= Len(future) /\ ~Finished(i))'
      BY DEF NoOrphanDirectory
    <3>1. i \in retained \ leaked /\ i \in 1 .. Len(future) + 1 /\ i # c
      BY <1>0, <2>2
    <3>2. (i = Len(future) + 1 /\ ppc = "queueing") \/ (i <= Len(future) /\ ~Finished(i))
      BY <3>1 DEF IInv, DirectoryInv, NoOrphanDirectory
    <3> QED BY <1>0, <1>1, <1>2, <2>1, <2>3, <3>1, <3>2 DEF Finished
  <2> QED BY <2>5, <2>6 DEF DirectoryInv
<1> QED BY <1>1, <1>3, <1>4, <1>5, <1>6, <1>7 DEF IInv

LEMMA ChainStepInv ==
    ASSUME IInv, Chain PROVE IInv'
<1>0. /\ Len(future) \in Nat /\ Len(published) \in Nat
      /\ wpc = "chain" /\ wpc' \in {"publishing", "removing"} /\ result' \in {"done", "failed"}
      /\ wpc' = "removing" => result' = "failed"
      /\ wpc' = "publishing" => PredecessorPublished
      /\ UNCHANGED <<future, previous, head, closed, cancel, ppc, reported, retained, workq,
                     job, published, leaked>>
  BY DEF IInv, TypeOK, Chain, prodVars
<1>1. job \in 1 .. Len(future) /\ future[job] = "running" /\ job > Len(published)
  BY <1>0 DEF IInv, RunInv, PublishInv, Busy, Submitted
<1>2. TypeOK'
  BY <1>0 DEF IInv, TypeOK
<1>3. QueueInv' /\ ChainInv'
  BY <1>0 DEF IInv, QueueInv, ChainInv, Submitted
<1>4. RunInv'
  BY <1>0 DEF IInv, RunInv, Busy, Submitted
<1>5. PublishInv'
  <2>1. wpc' = "publishing" => \A i \in 1 .. job - 1 : future[i] = "done"
    <3>1. /\ previous[job] \in {0, job - 1}
          /\ previous[job] = 0 => \A j \in 1 .. job - 1 : future[j] = "done"
          /\ \A i \in 1 .. Len(future) :
                future[i] = "done" => \A j \in 1 .. i - 1 : future[j] = "done"
      BY <1>1 DEF IInv, ChainInv, Submitted
    <3> QED BY <1>0, <1>1, <3>1 DEF PredecessorPublished
  <2>2. wpc' = "publishing" => Len(published) = job - 1
    <3>1. wpc' = "publishing" /\ job # 1 => job - 1 <= Len(published)
      BY <1>0, <1>1, <2>1 DEF IInv, PublishInv, Submitted
    <3> QED BY <1>0, <1>1, <3>1
  <2> QED BY <1>0, <1>1, <2>1, <2>2 DEF IInv, PublishInv, PublishedInOrder, Submitted
<1>6. DirectoryInv'
  BY <1>0 DEF IInv, DirectoryInv, NoOrphanDirectory, Finished
<1> QED BY <1>2, <1>3, <1>4, <1>5, <1>6 DEF IInv

LEMMA PublishStepInv ==
    ASSUME IInv, Publish PROVE IInv'
<1>0. /\ Len(future) \in Nat /\ Len(published) \in Nat /\ published \in Seq(Nat)
      /\ wpc = "publishing" /\ wpc' = "removing"
      /\ \/ result' = "done" /\ published' = Append(published, job)
         \/ result' = "failed" /\ published' = published
      /\ UNCHANGED <<future, previous, head, closed, cancel, ppc, reported, retained, workq,
                     job, leaked>>
  BY DEF IInv, TypeOK, Publish, prodVars
<1>1. /\ job \in 1 .. Len(future) /\ future[job] = "running" /\ job = Len(published) + 1
      /\ \A i \in 1 .. job - 1 : future[i] = "done"
  BY <1>0 DEF IInv, RunInv, PublishInv, Busy, Submitted
<1>2. published' \in Seq(Nat)
  BY <1>0, <1>1
<1>3. TypeOK'
  BY <1>0, <1>2 DEF IInv, TypeOK
<1>4. QueueInv' /\ ChainInv'
  BY <1>0 DEF IInv, QueueInv, ChainInv, Submitted
<1>5. RunInv'
  BY <1>0 DEF IInv, RunInv, Busy, Submitted
<1>6. PublishInv'
  <2>1. CASE result' = "failed" /\ published' = published
    BY <1>0, <1>1, <2>1 DEF IInv, PublishInv, PublishedInOrder, Submitted
  <2>2. CASE result' = "done" /\ published' = Append(published, job)
    <3>1. /\ Len(published') = job /\ published'[job] = job
          /\ \A k \in 1 .. Len(published) : published'[k] = published[k]
      BY <1>0, <1>1, <2>2, AppendFacts
    <3>2. \A k \in 1 .. job : published'[k] = k
      BY <1>0, <1>1, <3>1 DEF IInv, PublishInv, PublishedInOrder
    <3>3. PublishedInOrder'
      BY <1>0, <1>1, <1>2, <3>1, <3>2 DEF PublishedInOrder
    <3>4. \A i \in 1 .. Len(future) : future[i] \in {"pending", "cancelled"} => i > job
      <4>1. \A i \in 1 .. Len(future) : future[i] \in {"pending", "cancelled"} => i > Len(published)
        BY DEF IInv, PublishInv, Submitted
      <4> QED BY <1>0, <1>1, <4>1
    <3>5. \A i \in 1 .. Len(future) : future[i] = "done" => i <= job
      BY <1>0, <1>1 DEF IInv, PublishInv, Submitted
    <3> QED BY <1>0, <1>1, <2>2, <3>1, <3>3, <3>4, <3>5 DEF PublishInv, Submitted
  <2> QED BY <1>0, <2>1, <2>2
<1>7. DirectoryInv'
  BY <1>0 DEF IInv, DirectoryInv, NoOrphanDirectory, Finished
<1> QED BY <1>3, <1>4, <1>5, <1>6, <1>7 DEF IInv

LEMMA RemoveInv ==
    ASSUME IInv, Remove PROVE IInv'
<1>0. /\ future \in Seq(FutureStates) /\ Len(future) \in Nat /\ Len(published) \in Nat
      /\ wpc = "removing" /\ wpc' = "idle"
      /\ \/ retained' = retained \ {job} /\ leaked' = leaked
         \/ leaked' = leaked \cup {job} /\ retained' = retained
      /\ UNCHANGED <<previous, head, closed, cancel, ppc, reported, workq,
                     job, result, published>>
  BY DEF IInv, TypeOK, Remove, RemoveDirectory
<1>1. /\ job \in 1 .. Len(future) /\ future[job] = "running"
      /\ \A i \in 1 .. Len(future) : future[i] = "running" => i = job
  BY <1>0 DEF IInv, RunInv, Busy, Submitted
<1>2. PICK s \in {result, "failed"} : future' = [future EXCEPT ![job] = s]
  BY DEF Remove
<1>3. s \in {"done", "failed"} /\ s \in FutureStates /\ (s = "done" => result = "done")
  BY <1>2 DEF IInv, TypeOK, FutureStates
<1>4. /\ future' \in Seq(FutureStates) /\ Len(future') = Len(future) /\ future'[job] = s
      /\ \A i \in 1 .. Len(future) : i # job => future'[i] = future[i]
  BY <1>0, <1>1, <1>2, <1>3, ExceptFacts
<1>5. TypeOK'
  <2>1. retained' \in SUBSET (1 .. Len(future) + 1) /\ leaked' \in SUBSET (1 .. Len(future))
    BY <1>0, <1>1 DEF IInv, TypeOK
  <2> QED BY <1>0, <1>4, <2>1 DEF IInv, TypeOK
<1>6. QueueInv'
  BY <1>0, <1>1, <1>3, <1>4 DEF IInv, QueueInv, Submitted
<1>7. RunInv'
  <2>1. \A i \in 1 .. Len(future) : future'[i] # "running"
    BY <1>1, <1>3, <1>4
  <2> QED BY <1>0, <1>4, <2>1 DEF IInv, RunInv, Busy, Submitted
<1>8. ChainInv'
  <2>1. s = "done" => \A i \in 1 .. job - 1 : future[i] = "done"
    BY <1>0, <1>3 DEF IInv, PublishInv
  <2>2. \A i \in 1 .. Len(future) : future[i] = "done" => future'[i] = "done"
    BY <1>1, <1>4
  <2>3. head \in 1 .. Len(future) + 1
    BY DEF IInv, TypeOK
  <2>4. \A i \in 1 .. Len(future) : \A j \in 1 .. i - 1 : j \in 1 .. Len(future)
    BY <1>0
  <2>5. \A i \in 1 .. Len(future) : future'[i] = "done" => \A j \in 1 .. i - 1 : future[j] = "done"
    BY <1>1, <1>4, <2>1 DEF IInv, ChainInv, Submitted
  <2> QED BY <1>0, <1>4, <2>2, <2>3, <2>4, <2>5 DEF IInv, ChainInv, Submitted
<1>9. PublishInv'
  <2>1. \A i \in 1 .. Len(future) : future'[i] = "done" => i <= Len(published)
    BY <1>0, <1>1, <1>3, <1>4 DEF IInv, PublishInv, Submitted
  <2>2. \A i \in 1 .. Len(future) : future'[i] \in {"pending", "cancelled"} => i > Len(published)
    BY <1>0, <1>1, <1>3, <1>4 DEF IInv, PublishInv, Submitted
  <2> QED BY <1>0, <1>4, <2>1, <2>2 DEF IInv, PublishInv, PublishedInOrder, Submitted
<1>10. DirectoryInv'
  <2>1. future'[job] \in {"done", "failed", "cancelled"} /\ ~Finished(job)
    BY <1>1, <1>3, <1>4 DEF Finished
  <2>2. leaked \in SUBSET (1 .. Len(future)) /\ retained \in SUBSET (1 .. Len(future) + 1)
    BY DEF IInv, TypeOK
  <2>3. \A i \in leaked' : Finished(i)'
    <3>1. \A i \in leaked' : i \in leaked \/ i = job
      BY <1>0
    <3>2. \A i \in leaked : Finished(i)
      BY DEF IInv, DirectoryInv
    <3>3. \A i \in leaked : future'[i] \in {"done", "failed", "cancelled"}
      BY <1>4, <2>1, <2>2, <3>2 DEF Finished
    <3> QED BY <2>1, <3>1, <3>3 DEF Finished
  <2>4. NoOrphanDirectory'
    <3> SUFFICES ASSUME NEW i \in (retained \ leaked)'
                 PROVE  (\/ i = Len(future) + 1 /\ ppc = "queueing"
                         \/ i <= Len(future) /\ ~Finished(i))'
      BY DEF NoOrphanDirectory
    <3>1. i \in retained \ leaked /\ i \in 1 .. Len(future) + 1 /\ i # job
      BY <1>0, <2>2
    <3>2. (i = Len(future) + 1 /\ ppc = "queueing") \/ (i <= Len(future) /\ ~Finished(i))
      BY <3>1 DEF IInv, DirectoryInv, NoOrphanDirectory
    <3> QED BY <1>0, <1>1, <1>4, <3>1, <3>2 DEF Finished
  <2> QED BY <2>3, <2>4 DEF DirectoryInv
<1> QED BY <1>5, <1>6, <1>7, <1>8, <1>9, <1>10 DEF IInv

LEMMA ExitInv ==
    ASSUME IInv, Exit PROVE IInv'
<1>0. /\ wpc = "idle" /\ wpc' = "exited" /\ workq = <<>> /\ ppc = "joining"
      /\ UNCHANGED <<future, previous, head, closed, cancel, ppc, reported, retained, workq,
                     job, result, published, leaked>>
  BY DEF Exit, NothingQueued, prodVars
<1>1. TypeOK'
  BY <1>0 DEF IInv, TypeOK
<1>2. QueueInv' /\ ChainInv'
  BY <1>0 DEF IInv, QueueInv, ChainInv, Submitted
<1>3. closed
  BY <1>0 DEF IInv, RunInv
<1>4. RunInv'
  BY <1>0, <1>3 DEF IInv, RunInv, Busy, Submitted
<1>5. PublishInv'
  BY <1>0 DEF IInv, PublishInv, PublishedInOrder, Submitted
<1>6. DirectoryInv'
  BY <1>0 DEF IInv, DirectoryInv, NoOrphanDirectory, Finished
<1> QED BY <1>1, <1>2, <1>4, <1>5, <1>6 DEF IInv

-----------------------------------------------------------------------------
(* The inductive invariant and what follows from it.                       *)

LEMMA NextInv == IInv /\ [Next]_vars => IInv'
<1> SUFFICES ASSUME IInv, [Next]_vars PROVE IInv'
  OBVIOUS
<1>1. CASE Calls
  BY <1>1, ProducerInv DEF Calls
<1>2. CASE Inside
  BY <1>2, ProducerInv, EnqueueInv, CancelOneInv DEF Inside
<1>3. CASE Worker
  BY <1>3, TakeInv, ChainStepInv, PublishStepInv, RemoveInv, ExitInv DEF Worker
<1>4. CASE UNCHANGED vars
  <2>1. /\ UNCHANGED <<future, previous, workq, workVars>>
        /\ UNCHANGED <<head, closed, cancel, reported, ppc, retained>>
    BY <1>4 DEF vars, prodVars
  <2>2. TypeOK' /\ QueueInv' /\ ChainInv'
    BY <2>1 DEF IInv, TypeOK, QueueInv, ChainInv, Submitted, workVars
  <2>3. RunInv' /\ PublishInv'
    BY <2>1 DEF IInv, RunInv, PublishInv, PublishedInOrder, Submitted, Busy, workVars
  <2>4. DirectoryInv'
    BY <2>1 DEF IInv, DirectoryInv, NoOrphanDirectory, Finished, workVars
  <2> QED BY <2>2, <2>3, <2>4 DEF IInv
<1> QED BY <1>1, <1>2, <1>3, <1>4 DEF Next

THEOREM Invariance == Spec => []IInv
<1> QED BY InitInv, NextInv, PTL DEF Spec

\* Every variable keeps its type: the futures, the two queues, the program
\* counters of producer and worker.
THEOREM TypeCorrect == Spec => []TypeOK
<1>1. IInv => TypeOK
  BY DEF IInv
<1> QED BY <1>1, Invariance, PTL

\* The destination receives the submissions in order and without a gap,
\* whatever fails and whenever close() cancels (_publish, check).
THEOREM Ordered == Spec => []PublishedInOrder
<1>1. IInv => PublishedInOrder
  BY DEF IInv, PublishInv
<1> QED BY <1>1, Invariance, PTL

\* No private directory outlives its submission, except when its own removal
\* raised (the finally of _publish, the done callback of submit).
THEOREM NoOrphans == Spec => []NoOrphanDirectory
<1>1. IInv => NoOrphanDirectory
  BY DEF IInv, DirectoryInv
<1> QED BY <1>1, Invariance, PTL

-----------------------------------------------------------------------------
(* A reported failure is final.                                            *)

FailInv == reported => Raises(head) /\ ppc \in {"free", "waitall", "draining", "joining"}

\* A finished future stays as it is.
LEMMA FinishedStays ==
    ASSUME IInv, [Next]_vars, NEW i \in 1 .. Len(future), Finished(i)
    PROVE  i \in 1 .. Len(future') /\ future'[i] = future[i]
<1>0. /\ future \in Seq(FutureStates) /\ Len(future) \in Nat
      /\ "running" \in FutureStates \ {"pending"} /\ "cancelled" \in FutureStates \ {"pending"}
      /\ "pending" \in FutureStates
      /\ future[i] \notin {"pending", "running"}
  BY DEF IInv, TypeOK, FutureStates, Finished
<1>1. CASE future' = future
  BY <1>1
<1>2. CASE Enqueue
  <2>1. future' = future \/ future' = Append(future, "pending")
    BY <1>2 DEF Enqueue
  <2> QED BY <1>0, <2>1, AppendFacts
<1>3. CASE CancelOne
  BY <1>0, <1>3, HeadOfQueue, QueueShrinks DEF CancelOne
<1>4. CASE Take
  BY <1>0, <1>4, HeadOfQueue, QueueShrinks DEF Take
<1>5. CASE Remove
  <2>1. job \in 1 .. Len(future) /\ future[job] = "running"
    BY <1>5 DEF Remove, IInv, RunInv, Busy, Submitted
  <2>2. PICK s \in {result, "failed"} : future' = [future EXCEPT ![job] = s]
    BY <1>5 DEF Remove
  <2>3. s \in FutureStates
    BY <2>2 DEF IInv, TypeOK, FutureStates
  <2> QED BY <1>0, <2>1, <2>2, <2>3, ExceptFacts
<1>6. future' = future \/ Enqueue \/ CancelOne \/ Take \/ Remove
  <2>1. CASE Calls
    BY <2>1 DEF Calls, Check, Submit, Wait, Close
  <2>2. CASE Inside
    BY <2>2 DEF Inside, WaitForRoom, Retain, WaitReturns, CancelEnds, Join
  <2>3. CASE Worker
    BY <2>3 DEF Worker, Chain, Publish, Exit, prodVars
  <2>4. CASE UNCHANGED vars
    BY <2>4 DEF vars, prodVars
  <2> QED BY <2>1, <2>2, <2>3, <2>4 DEF Next
<1> QED BY <1>1, <1>2, <1>3, <1>4, <1>5, <1>6

\* With a failed future at the head, check() stops there and raises.
LEMMA RaisingCheck ==
    ASSUME IInv, Raises(head), NEW h \in Pending \cup {Len(future) + 1}, Popped(h)
    PROVE  h = head
<1>1. head \in 1 .. Len(future) + 1 /\ Len(future) \in Nat
  BY DEF IInv, TypeOK
<1>2. head \in 1 .. Len(future) /\ future[head] # "done"
  BY <1>1 DEF Raises
<1>3. h > head => head \in head .. h - 1
  BY <1>1 DEF Popped
<1> QED BY <1>1, <1>2, <1>3 DEF Popped

LEMMA NextFail == IInv /\ FailInv /\ [Next]_vars => FailInv'
<1> SUFFICES ASSUME IInv, FailInv, [Next]_vars PROVE FailInv'
  OBVIOUS
<1>0. /\ Len(future) \in Nat /\ head \in 1 .. Len(future) + 1 /\ Len(future') \in Nat
      /\ reported \in BOOLEAN
  BY NextInv DEF IInv, TypeOK
<1>1. CASE reported
  <2>1. /\ Raises(head) /\ ppc \in {"free", "waitall", "draining", "joining"}
        /\ head \in 1 .. Len(future) /\ Finished(head)
    BY <1>0, <1>1 DEF FailInv, Raises, Finished
  <2>2. head \in 1 .. Len(future') /\ future'[head] = future[head]
    BY <2>1, FinishedStays
  <2>3. ASSUME NEW h \in Pending \cup {Len(future) + 1}, NEW ok, CheckThen(h, ok)
        PROVE  head' = head /\ ppc' = "free"
    BY <2>1, <2>3, RaisingCheck DEF CheckThen
  <2>4. head' = head /\ ppc' \in {"free", "waitall", "draining", "joining"}
    <3>1. CASE Calls
      BY <2>1, <2>3, <3>1 DEF Calls, Check, Submit, Wait, Close
    <3>2. CASE Inside
      <4>1. CASE Join
        BY <2>1, <4>1, RaisingCheck DEF Join
      <4>2. CASE WaitReturns
        BY <2>3, <4>2 DEF WaitReturns
      <4> QED BY <2>1, <3>2, <4>1, <4>2 DEF Inside, WaitForRoom, Retain, Enqueue, CancelOne, CancelEnds
    <3>3. CASE Worker
      BY <2>1, <3>3 DEF Worker, Take, Chain, Publish, Remove, Exit, prodVars
    <3>4. CASE UNCHANGED vars
      BY <2>1, <3>4 DEF vars, prodVars
    <3> QED BY <3>1, <3>2, <3>3, <3>4 DEF Next
  <2>5. Raises(head)'
    BY <1>0, <2>1, <2>2, <2>4 DEF Raises
  <2> QED BY <2>4, <2>5 DEF FailInv
<1>2. CASE ~reported
  <2>1. ASSUME NEW h \in Pending \cup {Len(future) + 1}, NEW ok, CheckThen(h, ok),
               UNCHANGED future
        PROVE  FailInv'
    BY <1>2, <2>1 DEF CheckThen, FailInv, Raises
  <2>2. CASE Calls
    BY <1>2, <2>1, <2>2 DEF Calls, Check, Submit, Wait, Close, FailInv
  <2>3. CASE Inside
    <3>1. CASE Join
      BY <1>2, <3>1 DEF Join, FailInv, Raises
    <3>2. CASE WaitReturns \/ WaitForRoom
      BY <2>1, <3>2 DEF WaitReturns, WaitForRoom
    <3> QED BY <1>2, <2>3, <3>1, <3>2 DEF Inside, Retain, Enqueue, CancelOne, CancelEnds, FailInv
  <2>4. CASE Worker
    BY <1>2, <2>4 DEF Worker, Take, Chain, Publish, Remove, Exit, prodVars, FailInv
  <2>5. CASE UNCHANGED vars
    BY <1>2, <2>5 DEF vars, prodVars, FailInv
  <2> QED BY <2>2, <2>3, <2>4, <2>5 DEF Next
<1> QED BY <1>0, <1>1, <1>2

\* After a check() has raised, no later submission is accepted.
THEOREM Final == Spec => FailureIsFinal
<1>1. Init => FailInv
  BY DEF Init, FailInv
<1>2. IInv /\ FailInv /\ [Next]_vars => [reported => Len(future') = Len(future)]_vars
  <2> SUFFICES ASSUME IInv, FailInv, [Next]_vars, reported
               PROVE  Len(future') = Len(future)
    OBVIOUS
  <2>0. ppc # "queueing" /\ future \in Seq(FutureStates)
    BY DEF FailInv, IInv, TypeOK
  <2>1. CASE Calls
    BY <2>1 DEF Calls, Check, Submit, Wait, Close
  <2>2. CASE Inside
    <3>1. CASE CancelOne
      BY <2>0, <3>1, HeadOfQueue DEF CancelOne
    <3> QED BY <2>0, <2>2, <3>1 DEF Inside, WaitForRoom, Retain, Enqueue, WaitReturns, CancelEnds, Join
  <2>3. CASE Worker
    <3>1. CASE Take
      BY <2>0, <3>1 DEF Take
    <3>2. CASE Remove
      BY <2>0, <3>2 DEF Remove
    <3> QED BY <2>3, <3>1, <3>2 DEF Worker, Chain, Publish, Exit, prodVars
  <2>4. CASE UNCHANGED vars
    BY <2>4 DEF vars, prodVars
  <2> QED BY <2>1, <2>2, <2>3, <2>4 DEF Next
<1> QED BY <1>1, <1>2, Invariance, NextFail, PTL DEF Spec, FailureIsFinal

\* wait() returns without an exception only when every submission was published.
THEOREM WaitHonest == Spec => WaitMeansPublished
<1>1. IInv /\ [Next]_vars =>
         [ppc = "waitall" /\ ppc' = "free" /\ ~reported' => Len(published) = Len(future)]_vars
  <2> SUFFICES ASSUME IInv, [Next]_vars, ppc = "waitall", ppc' = "free", ~reported'
               PROVE  Len(published) = Len(future)
    OBVIOUS
  <2>1. WaitReturns
    <3>1. CASE Calls
      BY <3>1 DEF Calls, Check, Submit, Wait, Close
    <3>2. CASE Inside
      BY <3>2 DEF Inside, WaitForRoom, Retain, Enqueue, CancelOne, CancelEnds, Join
    <3>3. CASE Worker
      BY <3>3 DEF Worker, Take, Chain, Publish, Remove, Exit, prodVars
    <3>4. CASE UNCHANGED vars
      BY <3>4 DEF vars, prodVars
    <3> QED BY <3>1, <3>2, <3>3, <3>4 DEF Next
  <2>2. PICK h \in Pending \cup {Len(future) + 1} : CheckThen(h, "free")
    BY <2>1 DEF WaitReturns
  <2>3. /\ Popped(h) /\ ~Raises(h)
        /\ \A i \in head .. Len(future) : Finished(i)
    BY <2>1, <2>2 DEF CheckThen, WaitReturns, WaitedFor, Pending
  <2>4. Len(future) \in Nat /\ Len(published) \in Nat /\ head \in 1 .. Len(future) + 1
        /\ Len(published) <= Len(future)
    BY DEF IInv, TypeOK, PublishInv, PublishedInOrder
  <2>5. h = Len(future) + 1
    BY <2>3, <2>4 DEF Popped, Raises, Finished, Pending
  <2>6. \A i \in 1 .. Len(future) : future[i] = "done"
    BY <2>5, <2>2, <2>3, PoppedDone
  <2>7. Len(future) # 0 => Len(future) <= Len(published)
    BY <2>4, <2>6 DEF IInv, PublishInv, Submitted
  <2> QED BY <2>4, <2>7
<1> QED BY <1>1, Invariance, PTL DEF Spec, WaitMeansPublished

-----------------------------------------------------------------------------
(* max_pending bounds the private directories.                             *)

BoundInv ==
    /\ Len(future) + 1 - head <= MaxPending
    /\ ppc \in {"retaining", "queueing"} => Len(future) + 1 - head < MaxPending
    /\ \A i \in retained : i <= Len(future) => future[i] # "done"

LEMMA NextBound ==
    ASSUME MaxPending \in Nat \ {0}, IInv, BoundInv, [Next]_vars PROVE BoundInv'
<1>0. /\ future \in Seq(FutureStates) /\ Len(future) \in Nat /\ head \in 1 .. Len(future) + 1
      /\ retained \in SUBSET (1 .. Len(future) + 1)
      /\ MaxPending \in Nat \ {0}
      /\ "running" \in FutureStates \ {"pending"} /\ "cancelled" \in FutureStates \ {"pending"}
      /\ "pending" \in FutureStates
  BY DEF IInv, TypeOK, FutureStates
<1>1. ASSUME NEW h \in Pending \cup {Len(future) + 1}, NEW ok, CheckThen(h, ok),
             UNCHANGED <<future, retained>>,
             ok \in {"free", "waiting", "retaining"}, ok = "retaining" => ~Full(h)
      PROVE  BoundInv'
  <2>1. head' \in 1 .. Len(future) + 1 /\ head' >= head
    BY <1>0, <1>1 DEF CheckThen, Popped, Pending
  <2>2. Len(future) + 1 - head' <= MaxPending
    BY <1>0, <2>1 DEF BoundInv
  <2>3. ppc' \in {"retaining", "queueing"} => Len(future) + 1 - head' < MaxPending
    BY <1>0, <1>1, <2>1 DEF CheckThen, Full
  <2> QED BY <1>1, <2>2, <2>3 DEF BoundInv
\* A step that neither pops, submits nor enters submit().
<1>2. ASSUME Len(future') = Len(future), head' = head,
             ppc' \in {"retaining", "queueing"} => ppc \in {"retaining", "queueing"},
             \A i \in retained' : i <= Len(future) => future'[i] # "done"
      PROVE  BoundInv'
  BY <1>2 DEF BoundInv
<1>3. ASSUME UNCHANGED <<future, retained, head>>,
             ppc' \in {"retaining", "queueing"} => ppc \in {"retaining", "queueing"}
      PROVE  BoundInv'
  BY <1>3 DEF BoundInv
<1>4. CASE Calls
  <2>1. ASSUME NEW b \in BOOLEAN, Submit(b) PROVE BoundInv'
    <3>1. PICK h \in Pending \cup {Len(future) + 1} :
                CheckThen(h, RoomOr(h, IF b THEN "waiting" ELSE "free"))
      BY <2>1 DEF Submit
    <3> QED BY <1>1, <2>1, <3>1 DEF Submit, RoomOr
  <2>2. CASE Check
    BY <1>1, <2>2 DEF Check
  <2>3. CASE Wait
    BY <1>3, <2>3 DEF Wait
  <2>4. ASSUME NEW c \in BOOLEAN, Close(c) PROVE BoundInv'
    BY <1>3, <2>4 DEF Close
  <2> QED BY <1>4, <2>1, <2>2, <2>3, <2>4 DEF Calls
<1>5. CASE Inside
  <2>1. CASE WaitForRoom
    <3>1. PICK h \in Pending \cup {Len(future) + 1} : CheckThen(h, RoomOr(h, "waiting"))
      BY <2>1 DEF WaitForRoom
    <3> QED BY <1>1, <2>1, <3>1 DEF WaitForRoom, RoomOr
  <2>2. CASE Retain
    <3>1. \A i \in retained' : i \in retained \/ i = Len(future) + 1
      BY <2>2 DEF Retain
    <3>2. \A i \in retained' : i <= Len(future) => future[i] # "done"
      <4>1. \A i \in retained : i <= Len(future) => future[i] # "done"
        BY DEF BoundInv
      <4>2. ~(Len(future) + 1 <= Len(future))
        BY <1>0
      <4> QED BY <3>1, <4>1, <4>2
    <3> QED BY <1>2, <2>2, <3>2 DEF Retain
  <2>3. CASE Enqueue
    <3>1. CASE future' = future /\ retained' \subseteq retained /\ head' = head /\ ppc' = "free"
      BY <3>1 DEF BoundInv
    <3>2. CASE future' = Append(future, "pending") /\ retained' = retained /\ head' = head /\ ppc' = "free"
      <4>1. /\ Len(future') = Len(future) + 1 /\ future'[Len(future) + 1] = "pending"
            /\ \A i \in 1 .. Len(future) : future'[i] = future[i]
        BY <1>0, <3>2, AppendFacts
      <4>2. Len(future) + 1 - head < MaxPending
        BY <2>3 DEF Enqueue, BoundInv
      <4>3. \A i \in retained : future'[i] # "done"
        BY <1>0, <4>1 DEF BoundInv
      <4>4. Len(future') + 1 - head <= MaxPending
        BY <1>0, <4>1, <4>2
      <4> QED BY <3>2, <4>3, <4>4 DEF BoundInv
    <3> QED BY <2>3, <3>1, <3>2 DEF Enqueue
  <2>4. CASE CancelOne
    <3>1. /\ Len(future') = Len(future) /\ future'[Head(workq)] = "cancelled"
          /\ \A i \in 1 .. Len(future) : i # Head(workq) => future'[i] = future[i]
      BY <1>0, <2>4, QueueShrinks DEF CancelOne
    <3>2. retained' \subseteq retained
      BY <2>4 DEF CancelOne, RemoveDirectory
    <3>3. \A i \in retained' : i <= Len(future) => future'[i] # "done"
      BY <1>0, <3>1, <3>2 DEF BoundInv
    <3> QED BY <1>2, <2>4, <3>1, <3>3 DEF CancelOne
  <2>5. CASE CancelEnds
    BY <1>3, <2>5 DEF CancelEnds
  <2>6. CASE WaitReturns
    BY <1>1, <2>6 DEF WaitReturns
  <2>7. CASE Join
    <3>1. CASE head' = head
      BY <1>3, <2>7, <3>1 DEF Join
    <3>2. ASSUME NEW h \in Pending \cup {Len(future) + 1}, Popped(h), head' = h
          PROVE  BoundInv'
      <4>1. head' \in 1 .. Len(future) + 1 /\ head' >= head
        BY <1>0, <3>2 DEF Popped, Pending
      <4>2. Len(future) + 1 - head' <= MaxPending
        BY <1>0, <4>1 DEF BoundInv
      <4> QED BY <2>7, <4>2 DEF Join, BoundInv
    <3> QED BY <2>7, <3>1, <3>2 DEF Join
  <2> QED BY <1>5, <2>1, <2>2, <2>3, <2>4, <2>5, <2>6, <2>7 DEF Inside
<1>6. CASE Worker
  <2>1. CASE Take
    <3>1. /\ Len(future') = Len(future) /\ future'[Head(workq)] = "running"
          /\ \A i \in 1 .. Len(future) : i # Head(workq) => future'[i] = future[i]
      BY <1>0, <2>1, QueueShrinks DEF Take
    <3>2. \A i \in retained : i <= Len(future) => future'[i] # "done"
      BY <1>0, <3>1 DEF BoundInv
    <3> QED BY <1>2, <2>1, <3>1, <3>2 DEF Take
  <2>2. CASE Remove
    <3>1. job \in 1 .. Len(future)
      BY <2>2 DEF Remove, IInv, RunInv, Busy, Submitted
    <3>2. result \in FutureStates /\ "failed" \in FutureStates
      BY DEF IInv, TypeOK, FutureStates
    <3>3. CASE retained' = retained \ {job} /\ leaked' = leaked
      <4>1. future' = [future EXCEPT ![job] = result]
        BY <2>2, <3>3 DEF Remove
      <4>2. /\ Len(future') = Len(future)
            /\ \A i \in 1 .. Len(future) : i # job => future'[i] = future[i]
        BY <1>0, <3>1, <3>2, <4>1, ExceptFacts
      <4>3. \A i \in retained' : i <= Len(future) => future'[i] # "done"
        BY <1>0, <3>3, <4>2 DEF BoundInv
      <4> QED BY <1>2, <2>2, <4>2, <4>3 DEF Remove
    <3>4. CASE retained' = retained /\ leaked' = leaked \cup {job}
      <4>1. PICK s \in {result, "failed"} : /\ future' = [future EXCEPT ![job] = s]
                                            /\ leaked' # leaked => s = "failed"
        BY <2>2 DEF Remove
      <4>2. job \notin leaked
        <5>1. future[job] = "running"
          BY <2>2 DEF Remove, IInv, RunInv, Busy, Submitted
        <5> QED BY <5>1 DEF IInv, DirectoryInv, Finished
      <4>3. s = "failed"
        BY <3>4, <4>1, <4>2
      <4>4. /\ Len(future') = Len(future) /\ future'[job] = "failed"
            /\ \A i \in 1 .. Len(future) : i # job => future'[i] = future[i]
        BY <1>0, <3>1, <3>2, <4>1, <4>3, ExceptFacts
      <4>5. \A i \in retained' : i <= Len(future) => future'[i] # "done"
        BY <1>0, <3>4, <4>4 DEF BoundInv
      <4> QED BY <1>2, <2>2, <4>4, <4>5 DEF Remove
    <3> QED BY <2>2, <3>3, <3>4 DEF Remove, RemoveDirectory
  <2>3. CASE Chain \/ Publish \/ Exit
    BY <1>3, <2>3 DEF Chain, Publish, Exit, prodVars
  <2> QED BY <1>6, <2>1, <2>2, <2>3 DEF Worker
<1>7. CASE UNCHANGED vars
  BY <1>3, <1>7 DEF vars, prodVars
<1> QED BY <1>4, <1>5, <1>6, <1>7 DEF Next

\* A slow destination never makes the queue keep more than max_pending private
\* copies of checkpoints on the local disk.
THEOREM Bounded == Spec => []RetainedBounded
<1>1. CASE MaxPending = 0
  <2>1. RetainedBounded
    BY <1>1 DEF RetainedBounded
  <2> QED BY <2>1, PTL
<1>2. CASE MaxPending \in Nat \ {0}
  <2>1. Init => BoundInv
    <3> SUFFICES ASSUME Init PROVE BoundInv
      OBVIOUS
    <3>1. Len(future) = 0 /\ head = 1 /\ ppc = "free" /\ retained = {}
      BY DEF Init
    <3> QED BY <1>2, <3>1 DEF BoundInv
  <2>2. IInv /\ BoundInv /\ [Next]_vars => BoundInv'
    BY <1>2, NextBound
  <2>3. IInv /\ BoundInv => RetainedBounded
    <3> SUFFICES ASSUME IInv, BoundInv PROVE Cardinality(retained) <= MaxPending
      BY DEF RetainedBounded
    <3>0. /\ Len(future) \in Nat /\ head \in 1 .. Len(future) + 1
          /\ retained \in SUBSET (1 .. Len(future) + 1) /\ leaked \in SUBSET (1 .. Len(future))
      BY DEF IInv, TypeOK
    <3>1. \A i \in 1 .. head - 1 : i \notin retained
      BY <3>0 DEF IInv, ChainInv, BoundInv
    <3>2. Len(future) + 1 \in retained => ppc = "queueing"
      BY <3>0 DEF IInv, DirectoryInv, NoOrphanDirectory
    <3>3. PICK last \in {Len(future), Len(future) + 1} :
             /\ retained \subseteq head .. last
             /\ last + 1 - head <= MaxPending
      <4>1. CASE Len(future) + 1 \in retained
        <5>1. Len(future) + 1 - head < MaxPending
          BY <3>2, <4>1 DEF BoundInv
        <5>2. retained \subseteq head .. Len(future) + 1
          BY <3>0, <3>1
        <5>3. (Len(future) + 1) + 1 - head <= MaxPending
          BY <1>2, <3>0, <5>1
        <5> QED BY <5>2, <5>3
      <4>2. CASE Len(future) + 1 \notin retained
        <5>1. Len(future) + 1 - head <= MaxPending
          BY DEF BoundInv
        <5>2. retained \subseteq head .. Len(future)
          <6>1. \A i \in retained : i \in 1 .. Len(future) + 1 /\ i # Len(future) + 1 /\ i \notin 1 .. head - 1
            BY <3>0, <3>1, <4>2
          <6> QED BY <3>0, <6>1
        <5> QED BY <5>1, <5>2
      <4> QED BY <4>1, <4>2
    <3>4. head \in Int /\ last \in Int
      BY <3>0
    <3>5. IsFiniteSet(head .. last)
          /\ Cardinality(head .. last) = (IF head > last THEN 0 ELSE last - head + 1)
      BY <3>4, FS_Interval
    <3>6. Cardinality(retained) <= Cardinality(head .. last) /\ Cardinality(retained) \in Nat
      BY <3>3, <3>5, FS_Subset, FS_CardinalityType
    <3> QED BY <1>2, <3>3, <3>4, <3>5, <3>6
  <2> QED BY <2>1, <2>2, <2>3, Invariance, PTL DEF Spec
<1> QED BY <1>1, <1>2, PublisherAssumption

-----------------------------------------------------------------------------
(* What close() leaves behind.                                             *)

CloseInv ==
    closed /\ ppc \in {"free", "waitall"} =>
        /\ wpc = "exited"
        /\ ~cancel /\ ~reported => head = Len(future) + 1

\* With every future finished, a check() that does not raise empties the deque.
LEMMA PoppedAll ==
    ASSUME IInv, wpc = "exited", NEW h \in Pending \cup {Len(future) + 1}, Popped(h), ~Raises(h)
    PROVE  h = Len(future) + 1
<1>1. Len(future) \in Nat /\ head \in 1 .. Len(future) + 1 /\ future \in Seq(FutureStates)
  BY DEF IInv, TypeOK
<1>2. \A i \in 1 .. Len(future) : future[i] # "pending" /\ future[i] # "running"
  BY <1>1 DEF IInv, RunInv, QueueInv, Submitted, Busy
<1>3. \A i \in 1 .. Len(future) : future[i] \in FutureStates
  BY <1>1
<1> QED BY <1>1, <1>2, <1>3 DEF Popped, Raises, Pending, FutureStates

LEMMA NextClose == IInv /\ CloseInv /\ [Next]_vars => CloseInv'
<1> SUFFICES ASSUME IInv, CloseInv, [Next]_vars PROVE CloseInv'
  OBVIOUS
<1>0. /\ closed => ppc \in {"free", "waitall", "draining", "joining"}
      /\ wpc = "exited" => workq = <<>>
      /\ closed \in BOOLEAN /\ cancel \in BOOLEAN /\ reported \in BOOLEAN
      /\ head \in 1 .. Len(future) + 1 /\ Len(future) \in Nat
  BY DEF IInv, RunInv, TypeOK
<1>1. ASSUME NEW h \in Pending \cup {Len(future) + 1}, NEW ok, CheckThen(h, ok), ppc \in {"free", "waitall"},
             UNCHANGED <<future, closed, cancel, wpc>>
      PROVE  CloseInv'
  <2>1. wpc = "exited" /\ ~reported' => h = Len(future) + 1
    BY <1>1, PoppedAll DEF CheckThen
  <2> QED BY <1>1, <2>1 DEF CloseInv, CheckThen
<1>2. CASE Calls
  <2>1. CASE Check
    BY <1>1, <2>1 DEF Check, workVars
  <2>2. ASSUME NEW b \in BOOLEAN, Submit(b) PROVE CloseInv'
    BY <1>1, <2>2 DEF Submit, workVars
  <2>3. CASE Wait
    BY <2>3 DEF Wait, workVars, CloseInv
  <2>4. ASSUME NEW c \in BOOLEAN, Close(c) PROVE CloseInv'
    BY <2>4 DEF Close, CloseInv
  <2> QED BY <1>2, <2>1, <2>2, <2>3, <2>4 DEF Calls
<1>3. CASE Inside
  <2>1. CASE WaitReturns
    BY <1>1, <2>1 DEF WaitReturns, workVars
  <2>2. CASE Join
    <3>1. ~cancel /\ ~reported' => head' = Len(future) + 1
      BY <2>2, PoppedAll DEF Join
    <3> QED BY <2>2, <3>1 DEF Join, workVars, CloseInv
  <2>3. CASE WaitForRoom
    BY <1>0, <2>3 DEF WaitForRoom, CloseInv
  <2>4. CASE Retain
    BY <1>0, <2>4 DEF Retain, CloseInv
  <2>5. CASE Enqueue
    BY <1>0, <2>5 DEF Enqueue, CloseInv
  <2>6. CASE CancelOne
    BY <2>6 DEF CancelOne, CloseInv
  <2>7. CASE CancelEnds
    BY <2>7 DEF CancelEnds, CloseInv
  <2> QED BY <1>3, <2>1, <2>2, <2>3, <2>4, <2>5, <2>6, <2>7 DEF Inside
<1>4. CASE Worker
  <2>1. CASE Exit
    BY <2>1 DEF Exit, prodVars, CloseInv
  <2>2. CASE Take
    BY <2>2 DEF Take, CloseInv
  <2>3. CASE Chain \/ Publish
    BY <2>3 DEF Chain, Publish, prodVars, CloseInv
  <2>4. CASE Remove
    BY <2>4 DEF Remove, CloseInv
  <2> QED BY <1>4, <2>1, <2>2, <2>3, <2>4 DEF Worker
<1>5. CASE UNCHANGED vars
  BY <1>5 DEF vars, prodVars, workVars, CloseInv
<1> QED BY <1>2, <1>3, <1>4, <1>5 DEF Next

\* A close() that returned left no unfinished submission, and one that neither
\* cancelled nor raised published them all.
THEOREM CloseSettles == Spec => []CloseMeansSettled
<1>1. Init => CloseInv
  BY DEF Init, CloseInv
<1>2. IInv /\ CloseInv => CloseMeansSettled
  <2> SUFFICES ASSUME IInv, CloseInv, closed, ppc = "free"
               PROVE  /\ \A i \in DOMAIN future : Finished(i)
                      /\ ~cancel /\ ~reported => Len(published) = Len(future)
    BY DEF CloseMeansSettled
  <2>0. /\ Len(future) \in Nat /\ future \in Seq(FutureStates) /\ Len(published) \in Nat
        /\ wpc = "exited" /\ workq = <<>> /\ Len(published) <= Len(future)
    BY DEF IInv, TypeOK, RunInv, CloseInv, PublishInv, PublishedInOrder
  <2>1. \A i \in 1 .. Len(future) : future[i] # "pending" /\ future[i] # "running"
    BY <2>0 DEF IInv, RunInv, QueueInv, Submitted, Busy
  <2>2. \A i \in DOMAIN future : Finished(i)
    BY <2>0, <2>1 DEF Finished, FutureStates
  <2>3. ASSUME ~cancel, ~reported PROVE Len(published) = Len(future)
    <3>1. \A i \in 1 .. Len(future) : future[i] = "done"
      BY <2>0, <2>3 DEF CloseInv, IInv, ChainInv
    <3>2. Len(future) # 0 => Len(future) <= Len(published)
      BY <2>0, <3>1 DEF IInv, PublishInv, Submitted
    <3> QED BY <2>0, <3>2
  <2> QED BY <2>2, <2>3
<1> QED BY <1>1, <1>2, Invariance, NextClose, PTL DEF Spec

-----------------------------------------------------------------------------
(* Refinement: every step is a step of OrderedPublisher or a stutter.      *)

outcomeBar == [i \in 1 .. Len(future) |-> OutcomeOf(i)]

\* Under the invariant, the published submissions are 1 .. Len(published).
LEMMA OutcomeValue ==
    ASSUME IInv, NEW i \in 1 .. Len(future)
    PROVE  /\ OutcomeOf(i) \in {"pending", "published", "dropped"}
           /\ OutcomeOf(i) = "published" <=> i <= Len(published)
           /\ OutcomeOf(i) = "dropped" <=> i > Len(published) /\ future[i] \in {"failed", "cancelled"}
<1>1. /\ published \in Seq(Nat) /\ \A k \in DOMAIN published : published[k] = k
      /\ DOMAIN published = 1 .. Len(published) /\ Len(published) \in Nat /\ Len(future) \in Nat
  BY DEF IInv, TypeOK, PublishInv, PublishedInOrder
<1>2. (\E k \in DOMAIN published : published[k] = i) <=> i <= Len(published)
  BY <1>1
<1> QED BY <1>1, <1>2 DEF OutcomeOf

LEMMA SameOutcome ==
    ASSUME IInv, IInv', Len(future') = Len(future), published' = published,
           \A i \in 1 .. Len(future) : i <= Len(published)
              \/ (future'[i] \in {"failed", "cancelled"} <=> future[i] \in {"failed", "cancelled"})
    PROVE  outcomeBar' = outcomeBar
<1>1. \A i \in 1 .. Len(future) : OutcomeOf(i)' = OutcomeOf(i)
  <2> TAKE i \in 1 .. Len(future)
  <2>1. published \in Seq(Nat) /\ Len(published) \in Nat
    BY DEF IInv, TypeOK
  <2>2. i <= Len(published) => \E k \in DOMAIN published : published[k] = i
    BY <2>1 DEF IInv, PublishInv, PublishedInOrder
  <2> QED BY <2>2 DEF OutcomeOf
<1> QED BY <1>1 DEF outcomeBar

LEMMA AbstractStep ==
    ASSUME IInv, IInv', [Next]_vars
    PROVE  [Abstract!Next]_outcomeBar
<1>0. /\ future \in Seq(FutureStates) /\ Len(future) \in Nat /\ Len(published) \in Nat
      /\ published \in Seq(Nat)
      /\ "running" \in FutureStates \ {"pending"} /\ "cancelled" \in FutureStates \ {"pending"}
      /\ "pending" \in FutureStates
      /\ DOMAIN outcomeBar = 1 .. Len(future)
      /\ \A i \in 1 .. Len(future) : outcomeBar[i] = OutcomeOf(i)
      /\ outcomeBar = [i \in 1 .. Len(future) |-> OutcomeOf(i)]
  BY DEF IInv, TypeOK, FutureStates, outcomeBar
<1>1. CASE UNCHANGED <<future, published>>
  BY <1>1, SameOutcome
<1>2. CASE Enqueue
  <2>0. published' = published
    BY <1>2 DEF Enqueue, workVars
  <2>1. CASE future' = future
    BY <1>1, <2>0, <2>1
  <2>2. CASE future' = Append(future, "pending")
    <3>0. PICK n \in Nat : n = Len(future) + 1
      BY <1>0
    <3>1. /\ Len(future') = n /\ future'[n] = "pending"
          /\ \A i \in 1 .. Len(future) : future'[i] = future[i]
      BY <1>0, <2>2, <3>0, AppendFacts
    <3>2. \A i \in 1 .. Len(future) : OutcomeOf(i)' = OutcomeOf(i)
      BY <2>0, <3>1 DEF OutcomeOf
    <3>3. OutcomeOf(n)' = "pending"
      <4>1. ~ \E k \in DOMAIN published : published[k] = n
        BY <1>0, <3>0 DEF IInv, PublishInv, PublishedInOrder
      <4> QED BY <2>0, <3>1, <4>1 DEF OutcomeOf
    <3>4. outcomeBar' = [i \in 1 .. n |-> OutcomeOf(i)']
      BY <3>1 DEF outcomeBar
    <3>5. \A i \in 1 .. n : outcomeBar'[i] = IF i = n THEN "pending" ELSE outcomeBar[i]
      BY <1>0, <3>0, <3>2, <3>3, <3>4
    <3>6. outcomeBar' = Append(outcomeBar, "pending")
      <4>1. outcomeBar \in Seq({"pending", "published", "dropped"}) /\ Len(outcomeBar) = Len(future)
        BY <1>0, OutcomeValue
      <4>2. outcomeBar' \in Seq({"pending", "published", "dropped"}) /\ Len(outcomeBar') = n
        <5>1. \A i \in 1 .. n : i = n \/ i \in 1 .. Len(future)
          BY <1>0, <3>0
        <5>2. \A i \in 1 .. n : OutcomeOf(i)' \in {"pending", "published", "dropped"}
          BY <3>2, <3>3, <5>1, OutcomeValue
        <5> QED BY <1>0, <3>0, <3>4, <5>2
      <4>3. /\ Append(outcomeBar, "pending") \in Seq({"pending", "published", "dropped"})
            /\ Len(Append(outcomeBar, "pending")) = n
            /\ \A i \in 1 .. Len(outcomeBar) : Append(outcomeBar, "pending")[i] = outcomeBar[i]
            /\ Append(outcomeBar, "pending")[n] = "pending"
        BY <3>0, <4>1, AppendFacts
      <4>4. \A i \in 1 .. n : outcomeBar'[i] = Append(outcomeBar, "pending")[i]
        <5>1. \A i \in 1 .. n : i = n \/ i \in 1 .. Len(outcomeBar)
          BY <1>0, <3>0, <4>1
        <5>2. \A i \in 1 .. Len(outcomeBar) : i # n /\ i \in 1 .. n
          BY <1>0, <3>0, <4>1
        <5> HIDE DEF outcomeBar
        <5> QED BY <3>5, <4>3, <5>1, <5>2
      <4> HIDE DEF outcomeBar
      <4> QED BY <4>2, <4>3, <4>4, SeqEqual
    <3> QED BY <3>6 DEF Abstract!Next, Abstract!Accept, outcomeBar
  <2> QED BY <1>2, <2>1, <2>2 DEF Enqueue
\* One submission is published or dropped, the others keep their outcome.
<1>3. ASSUME NEW c \in 1 .. Len(future), NEW o, Len(future') = Len(future),
             OutcomeOf(c)' = o,
             \A i \in 1 .. Len(future) : i # c => OutcomeOf(i)' = OutcomeOf(i)
      PROVE  outcomeBar' = [outcomeBar EXCEPT ![c] = o]
  <2>1. outcomeBar' = [i \in 1 .. Len(future) |-> OutcomeOf(i)']
    BY <1>3 DEF outcomeBar
  <2> QED BY <1>0, <1>3, <2>1
<1>4. ASSUME NEW c \in 1 .. Len(future), Len(future') = Len(future), published' = published,
             future[c] \in {"pending", "running"}, c > Len(published),
             future'[c] \in {"failed", "cancelled"},
             \A i \in 1 .. Len(future) : i # c => future'[i] = future[i]
      PROVE  Abstract!Next
  <2>1. outcomeBar[c] = "pending"
    BY <1>0, <1>4, OutcomeValue
  <2>2. OutcomeOf(c)' = "dropped"
    <3>1. ~ \E k \in DOMAIN published : published[k] = c
      BY <1>0, <1>4 DEF IInv, PublishInv, PublishedInOrder
    <3> QED BY <1>4, <3>1 DEF OutcomeOf
  <2>3. \A i \in 1 .. Len(future) : i # c => OutcomeOf(i)' = OutcomeOf(i)
    BY <1>4 DEF OutcomeOf
  <2>4. outcomeBar' = [outcomeBar EXCEPT ![c] = "dropped"]
    BY <1>3, <1>4, <2>2, <2>3
  <2> QED BY <1>0, <2>1, <2>4 DEF Abstract!Next, Abstract!Drop, outcomeBar
<1>5. CASE CancelOne
  <2>0. PICK c \in 1 .. Len(future) : c = Head(workq)
    BY <1>5, HeadOfQueue DEF CancelOne
  <2>1. /\ Len(future') = Len(future) /\ future'[c] = "cancelled" /\ future[c] = "pending"
        /\ \A i \in 1 .. Len(future) : i # c => future'[i] = future[i]
        /\ published' = published
    BY <1>0, <1>5, <2>0, HeadOfQueue, QueueShrinks DEF CancelOne
  <2>2. c > Len(published)
    BY <2>1 DEF IInv, PublishInv, Submitted
  <2> QED BY <1>4, <2>1, <2>2
<1>6. CASE Take
  <2>0. PICK c \in 1 .. Len(future) : c = Head(workq)
    BY <1>6, HeadOfQueue DEF Take
  <2>1. /\ Len(future') = Len(future) /\ future'[c] = "running" /\ future[c] = "pending"
        /\ \A i \in 1 .. Len(future) : i # c => future'[i] = future[i]
        /\ published' = published
    BY <1>0, <1>6, <2>0, HeadOfQueue, QueueShrinks DEF Take
  <2>2. \A i \in 1 .. Len(future) :
           future'[i] \in {"failed", "cancelled"} <=> future[i] \in {"failed", "cancelled"}
    BY <2>1
  <2> QED BY <2>1, <2>2, SameOutcome
<1>7. CASE Publish
  <2>0. PICK c \in 1 .. Len(future) : c = job
    BY <1>7 DEF Publish, IInv, RunInv, Busy, Submitted
  <2>1. /\ future[c] = "running" /\ c = Len(published) + 1 /\ future' = future
    BY <1>7, <2>0 DEF Publish, prodVars, IInv, RunInv, PublishInv, Busy, Submitted
  <2>2. CASE published' = published
    BY <1>1, <2>1, <2>2
  <2>3. CASE published' = Append(published, c)
    <3>1. outcomeBar[c] = "pending"
      BY <1>0, <2>1, OutcomeValue
    <3>2. \A j \in 1 .. c - 1 : outcomeBar[j] = "published"
      BY <1>0, <2>1, OutcomeValue
    <3>3. /\ Len(published') = c /\ published'[c] = c
          /\ \A k \in 1 .. Len(published) : published'[k] = published[k]
          /\ published' \in Seq(Nat)
      BY <1>0, <2>1, <2>3, AppendFacts
    <3>4. DOMAIN published' = 1 .. c /\ DOMAIN published = 1 .. c - 1
      BY <1>0, <2>1, <3>3
    <3>5. OutcomeOf(c)' = "published"
      BY <1>0, <3>3, <3>4 DEF OutcomeOf
    <3>6. \A i \in 1 .. Len(future) : i # c =>
             ((\E k \in 1 .. c : published'[k] = i) <=> (\E k \in 1 .. c - 1 : published[k] = i))
      <4>1. \A k \in 1 .. c : k = c \/ k \in 1 .. c - 1
        BY <2>1
      <4>2. \A k \in 1 .. c - 1 : k \in 1 .. c /\ published'[k] = published[k]
        BY <1>0, <2>1, <3>3
      <4> QED BY <3>3, <4>1, <4>2
    <3>7. \A i \in 1 .. Len(future) : i # c => OutcomeOf(i)' = OutcomeOf(i)
      BY <2>1, <3>4, <3>6 DEF OutcomeOf
    <3>8. outcomeBar' = [outcomeBar EXCEPT ![c] = "published"]
      BY <1>3, <2>1, <3>5, <3>7
    <3> QED BY <1>0, <3>1, <3>2, <3>8 DEF Abstract!Next, Abstract!Publish, outcomeBar
  <2> QED BY <1>7, <2>0, <2>2, <2>3 DEF Publish
<1>8. CASE Remove
  <2>0. PICK c \in 1 .. Len(future) : c = job
    BY <1>8 DEF Remove, IInv, RunInv, Busy, Submitted
  <2>1. PICK s \in {result, "failed"} : future' = [future EXCEPT ![c] = s]
    BY <1>8, <2>0 DEF Remove
  <2>2. s \in {"done", "failed"} /\ s \in FutureStates
    BY <2>1 DEF IInv, TypeOK, FutureStates
  <2>3. /\ Len(future') = Len(future) /\ future'[c] = s /\ future[c] = "running"
        /\ \A i \in 1 .. Len(future) : i # c => future'[i] = future[i]
        /\ published' = published
    BY <1>0, <1>8, <2>0, <2>1, <2>2, ExceptFacts DEF Remove, IInv, RunInv, Busy, Submitted
  <2>4. CASE s = "failed" /\ c > Len(published)
    BY <1>4, <2>3, <2>4
  <2>5. CASE s = "done" \/ c <= Len(published)
    <3>1. \A i \in 1 .. Len(future) : i <= Len(published)
             \/ (future'[i] \in {"failed", "cancelled"} <=> future[i] \in {"failed", "cancelled"})
      BY <2>2, <2>3, <2>5
    <3> QED BY <2>3, <3>1, SameOutcome
  <2> QED BY <1>0, <2>2, <2>4, <2>5
<1>9. UNCHANGED <<future, published>> \/ Enqueue \/ CancelOne \/ Take \/ Publish \/ Remove
  <2>1. CASE Calls
    BY <2>1 DEF Calls, Check, Submit, Wait, Close, workVars
  <2>2. CASE Inside
    BY <2>2 DEF Inside, WaitForRoom, Retain, WaitReturns, CancelEnds, Join, workVars
  <2>3. CASE Worker
    BY <2>3 DEF Worker, Chain, Exit, prodVars
  <2>4. CASE UNCHANGED vars
    BY <2>4 DEF vars, prodVars, workVars
  <2> QED BY <2>1, <2>2, <2>3, <2>4 DEF Next
<1> QED BY <1>1, <1>2, <1>5, <1>6, <1>7, <1>8, <1>9

\* The threaded publisher implements the abstract one: each submission ends
\* published or dropped, and is published only after all earlier ones were.
THEOREM Refinement == Spec => RefinesOrdered
<1>1. Init => Abstract!Init
  <2> SUFFICES ASSUME Init PROVE outcomeBar = <<>>
    BY DEF Abstract!Init, outcomeBar
  <2>1. Len(future) = 0
    BY DEF Init
  <2> QED BY <2>1 DEF outcomeBar
<1>2. IInv /\ IInv' /\ [Next]_vars => [Abstract!Next]_outcomeBar
  BY AbstractStep
<1> QED BY <1>1, <1>2, Invariance, PTL DEF Spec, RefinesOrdered, Abstract!Spec, outcomeBar

=============================================================================
