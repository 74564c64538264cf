------------------------ MODULE CheckpointPublisher ------------------------
(***************************************************************************)
(* BackgroundCheckpointPublisher (core/checkpoint_publisher.py): one       *)
(* producer (the training thread) hands checkpoint directories to one      *)
(* executor thread, which publishes them in order.                         *)
(*                                                                         *)
(* Submissions are numbered 1, 2, ... as executor.submit accepts them.     *)
(* future[i] is the state of the i-th concurrent.futures.Future; the deque *)
(* `futures' of the code is head .. Len(future), for check() only pops     *)
(* from the left and submit() only appends.  An exception that escapes to  *)
(* the caller returns the producer to "free".                              *)
(***************************************************************************)
EXTENDS Naturals, Sequences, FiniteSets

CONSTANTS MaxPending,   \* max_pending; 0 stands for None (no limit)
          MaxJobs,      \* bound of the model: submissions accepted in all
          Faults        \* which external calls may raise

FaultKinds == {"retain", "enqueue", "publish", "remove"}

ASSUME PublisherAssumption ==
    /\ MaxPending \in Nat
    /\ MaxJobs \in Nat
    /\ Faults \subseteq FaultKinds

VARIABLES
    future,     \* future[i] \in FutureStates
    previous,   \* previous[i]: the future _publish waits for, 0 for None
    head,       \* futures[0]
    closed,     \* self.closed
    cancel,     \* close() was called with cancel_pending=True
    retained,   \* submissions whose private directory is on disk
    ppc,        \* where the producer is
    workq,      \* the executor's work queue
    wpc,        \* where the executor's thread is
    job,        \* the submission the thread runs
    result,     \* what that submission's future will hold once its directory is gone
    published,  \* history: submissions the destination accepted, in order
    leaked,     \* history: submissions whose rmtree raised
    reported    \* history: a check() has raised to the caller

prodVars == <<future, previous, head, closed, cancel, ppc, reported>>
workVars == <<wpc, job, result, published, leaked>>
vars == <<prodVars, retained, workq, workVars>>

FutureStates == {"pending", "running", "done", "failed", "cancelled"}
Finished(i) == future[i] \in {"done", "failed", "cancelled"}
Pending == head .. Len(future)          \* indices in the deque `futures'

TypeOK ==
    /\ future \in Seq(FutureStates)
    /\ previous \in Seq(Nat)
    /\ Len(previous) = Len(future)
    /\ head \in 1 .. Len(future) + 1
    /\ closed \in BOOLEAN /\ cancel \in BOOLEAN /\ reported \in BOOLEAN
    /\ ppc \in {"free", "waiting", "retaining", "queueing", "waitall",
                "draining", "joining"}
    /\ workq \in Seq(Nat)
    /\ wpc \in {"idle", "chain", "publishing", "removing", "exited"}
    /\ job \in 0 .. Len(future)
    /\ result \in {"done", "failed"}
    /\ published \in Seq(Nat)
    /\ retained \in SUBSET (1 .. Len(future) + 1)
    /\ leaked \in SUBSET (1 .. Len(future))

Init ==
    /\ future = <<>> /\ previous = <<>> /\ head = 1
    /\ closed = FALSE /\ cancel = FALSE
    /\ retained = {} /\ ppc = "free"
    /\ workq = <<>> /\ wpc = "idle" /\ job = 0 /\ result = "failed"
    /\ published = <<>> /\ leaked = {} /\ reported = FALSE

-----------------------------------------------------------------------------
(* The producer.                                                           *)

PoppedPastFailure(h) ==     \* fault: the failed head is popped as well
    /\ h \in head .. Len(future) + 1
    /\ \A i \in head .. h - 1 : Finished(i)
    /\ h <= Len(future) => ~Finished(h)

\* The loop of check() popped the finished heads and stopped at h.
Popped(h) ==
    /\ h \in head .. Len(future) + 1
    /\ \A i \in head .. h - 1 : future[i] = "done"
    /\ h <= Len(future) => future[h] # "done"

\* future.result() raised: the failed future stays at the head.
Raises(h) == h <= Len(future) /\ future[h] \in {"failed", "cancelled"}

FullTooLate(h) ==           \* fault: off by one in the limit
    MaxPending # 0 /\ Len(future) + 1 - h > MaxPending

Full(h) == MaxPending # 0 /\ Len(future) + 1 - h >= MaxPending

CheckPopsFirst(h, ok) ==    \* fault: a future is popped before its result is read
    /\ Popped(h)
    /\ head' = IF Raises(h) THEN h + 1 ELSE h
    /\ reported' = (reported \/ Raises(h))
    /\ ppc' = IF Raises(h) THEN "free" ELSE ok

PopsOneMore(h, ok) ==       \* fault: a future that has not finished is popped as well
    /\ Popped(h)
    /\ head' = h + 1
    /\ reported' = (reported \/ Raises(h))
    /\ ppc' = IF Raises(h) THEN "free" ELSE ok

\* check(), and what submit() does after it.
CheckThen(h, ok) ==
    /\ Popped(h)
    /\ head' = h
    /\ reported' = (reported \/ Raises(h))
    /\ ppc' = IF Raises(h) THEN "free" ELSE ok

RoomOr(h, full) == IF Full(h) THEN full ELSE "retaining"

Check ==
    /\ ppc = "free"
    /\ \E h \in Pending \cup {Len(future) + 1} : CheckThen(h, "free")
    /\ UNCHANGED <<future, previous, closed, cancel, retained, workq, workVars>>

\* submit() up to the retain call; QueueFull is raised when block is false.
Submit(block) ==
    /\ ppc = "free" /\ ~closed /\ Len(future) < MaxJobs
    /\ \E h \in Pending \cup {Len(future) + 1} :
           CheckThen(h, RoomOr(h, IF block THEN "waiting" ELSE "free"))
    /\ UNCHANGED <<future, previous, closed, cancel, retained, workq, workVars>>

\* wait_futures([self.futures[0]]) returned; check and test the limit again.
WaitForRoom ==
    /\ ppc = "waiting" /\ Finished(head)
    /\ \E h \in Pending \cup {Len(future) + 1} : CheckThen(h, RoomOr(h, "waiting"))
    /\ UNCHANGED <<future, previous, closed, cancel, retained, workq, workVars>>

\* self.retain(...): a private copy, or an exception that leaves none behind.
Retain ==
    /\ ppc = "retaining"
    /\ \/ ppc' = "queueing" /\ retained' = retained \cup {Len(future) + 1}
       \/ "retain" \in Faults /\ ppc' = "free" /\ UNCHANGED retained
    /\ UNCHANGED <<future, previous, head, closed, cancel, reported, workq, workVars>>

\* self.futures[-1] if self.futures else None
Predecessor == IF Pending # {} THEN Len(future) ELSE 0

NewestFirst(i) == <<i>> \o workq     \* fault: the newest submission runs first

\* The executor's work queue is a FIFO.
Queued(i) == Append(workq, i)

\* executor.submit(self._publish, retained, step, previous); its rmtree on failure
\* is assumed to succeed.
Enqueue ==
    /\ ppc = "queueing" /\ ppc' = "free"
    /\ LET n == Len(future) + 1 IN
       \/ /\ future' = Append(future, "pending")
          /\ previous' = Append(previous, Predecessor)
          /\ workq' = Queued(n)
          /\ UNCHANGED retained
       \/ /\ "enqueue" \in Faults
          /\ retained' = retained \ {n}
          /\ UNCHANGED <<future, previous, workq>>
    /\ UNCHANGED <<head, closed, cancel, reported, workVars>>

Wait ==
    /\ ppc = "free" /\ ppc' = "waitall"
    /\ UNCHANGED <<future, previous, head, closed, cancel, reported, retained, workq,
                   workVars>>

OldestOnly == {head} \cap Pending     \* fault: waits for the oldest future only

\* wait_futures(list(self.futures))
WaitedFor == Pending

\* wait_futures returned; then check.
WaitReturns ==
    /\ ppc = "waitall"
    /\ \A i \in WaitedFor : Finished(i)
    /\ \E h \in Pending \cup {Len(future) + 1} : CheckThen(h, "free")
    /\ UNCHANGED <<future, previous, closed, cancel, retained, workq, workVars>>

\* close() may be called again, as teardown does after a close() that raised.
Close(c) ==
    /\ ppc = "free"
    /\ closed' = TRUE /\ cancel' = c
    /\ ppc' = IF c THEN "draining" ELSE "joining"
    /\ UNCHANGED <<future, previous, head, reported, retained, workq, workVars>>

KeepDirectory(i) == UNCHANGED <<retained, leaked>>      \* fault: no callback

\* rmtree of a submission's directory: gone, or left behind by an error.
RemoveDirectory(i) ==
    \/ retained' = retained \ {i} /\ UNCHANGED leaked
    \/ "remove" \in Faults /\ leaked' = leaked \cup {i} /\ UNCHANGED retained

\* executor.shutdown(cancel_futures=True) takes one item off the work queue and
\* cancels it; the done callback removes its directory (or its rmtree raises,
\* which the futures module logs).  The thread may take the next item meanwhile.
CancelOne ==
    /\ ppc = "draining" /\ workq # <<>>
    /\ workq' = Tail(workq)
    /\ future' = [future EXCEPT ![Head(workq)] = "cancelled"]
    /\ RemoveDirectory(Head(workq))
    /\ UNCHANGED <<previous, head, closed, cancel, ppc, reported,
                   wpc, job, result, published>>

CancelEnds ==
    /\ ppc = "draining" /\ workq = <<>>
    /\ ppc' = "joining"
    /\ UNCHANGED <<future, previous, head, closed, cancel, reported, retained, workq,
                   workVars>>

\* shutdown(wait=True) joined the thread; then check, unless work was cancelled.
Join ==
    /\ ppc = "joining" /\ wpc = "exited"
    /\ ppc' = "free"
    /\ \/ cancel /\ UNCHANGED <<head, reported>>
       \/ /\ ~cancel
          /\ \E h \in Pending \cup {Len(future) + 1} :
                 Popped(h) /\ head' = h /\ reported' = (reported \/ Raises(h))
    /\ UNCHANGED <<future, previous, closed, cancel, retained, workq, workVars>>

-----------------------------------------------------------------------------
(* The executor's only thread.                                             *)

Take ==
    /\ wpc = "idle" /\ workq # <<>>
    /\ workq' = Tail(workq)
    /\ job' = Head(workq)
    /\ future' = [future EXCEPT ![Head(workq)] = "running"]
    /\ wpc' = "chain"
    /\ UNCHANGED <<previous, head, closed, cancel, ppc, reported, retained,
                   result, published, leaked>>

AlwaysPublish == TRUE        \* fault: the predecessor's outcome is ignored

PredecessorPublished == previous[job] = 0 \/ future[previous[job]] = "done"

\* previous.result(): waits for it, and raises unless it was published.
Chain ==
    /\ wpc = "chain"
    /\ previous[job] # 0 => Finished(previous[job])
    /\ IF PredecessorPublished
       THEN wpc' = "publishing" /\ UNCHANGED result
       ELSE wpc' = "removing" /\ result' = "failed"
    /\ UNCHANGED <<prodVars, retained, workq, job, published, leaked>>

Publish ==
    /\ wpc = "publishing" /\ wpc' = "removing"
    /\ \/ result' = "done" /\ published' = Append(published, job)
       \/ "publish" \in Faults /\ result' = "failed" /\ UNCHANGED published
    /\ UNCHANGED <<prodVars, retained, workq, job, leaked>>

\* finally: shutil.rmtree(directory), whose own exception replaces the result.
Remove ==
    /\ wpc = "removing" /\ wpc' = "idle"
    /\ RemoveDirectory(job)
    /\ future' = [future EXCEPT ![job] = IF leaked' = leaked THEN result ELSE "failed"]
    /\ UNCHANGED <<previous, head, closed, cancel, ppc, reported, workq,
                   job, result, published>>

ExitAtOnce == TRUE           \* fault: shutdown does not run the queued work

\* The thread sees the shutdown only once it has emptied the work queue.
NothingQueued == workq = <<>>

Exit ==
    /\ wpc = "idle" /\ ppc = "joining" /\ NothingQueued
    /\ wpc' = "exited"
    /\ UNCHANGED <<prodVars, retained, workq, job, result, published, leaked>>

-----------------------------------------------------------------------------
Worker == Take \/ Chain \/ Publish \/ Remove \/ Exit

\* What the producer does inside a call it has made.
Inside == WaitForRoom \/ Retain \/ Enqueue \/ WaitReturns \/ CancelOne \/ CancelEnds \/ Join

Calls == Check \/ (\E b \in BOOLEAN : Submit(b)) \/ Wait \/ (\E c \in BOOLEAN : Close(c))

Next == Calls \/ Inside \/ Worker

Spec == Init /\ [][Next]_vars

\* The interpreter runs a thread that can run, and publish() and retain() return.
FairSpec == Spec /\ WF_vars(Worker) /\ WF_vars(Inside)

-----------------------------------------------------------------------------
(* Properties.                                                             *)

\* The destination has received submissions 1, 2, ..., k and nothing else: no
\* reordering, no gap after a failed or cancelled one (submit, _publish).
PublishedInOrder ==
    /\ Len(published) <= Len(future)
    /\ \A k \in DOMAIN published : published[k] = k

\* Whatever the order of failures, cancellation and shutdown, the only private
\* directories on disk belong to unfinished submissions, apart from those whose
\* removal itself raised ("Queued directories are removed after publication,
\* failure, or cancellation").
NoOrphanDirectory ==
    \A i \in retained \ leaked :
        \/ i = Len(future) + 1 /\ ppc = "queueing"
        \/ i <= Len(future) /\ ~Finished(i)

\* max_pending bounds the retained checkpoints ("a slow destination bounds the
\* retained checkpoints instead of filling the local disk").
RetainedBounded == MaxPending # 0 => Cardinality(retained) <= MaxPending

\* Once a check has told the caller about a failure, nothing is accepted any
\* more ("Keep a failed future at the head so every subsequent check fails").
FailureIsFinal == [][reported => Len(future') = Len(future)]_vars

\* wait() returns normally only when all that was submitted has been published.
WaitMeansPublished ==
    [][ppc = "waitall" /\ ppc' = "free" /\ ~reported'
          => Len(published) = Len(future)]_vars

\* close() without cancel_pending returns normally only when everything was
\* published, and in any case leaves no unfinished submission behind.
CloseMeansSettled ==
    closed /\ ppc = "free" =>
        /\ \A i \in DOMAIN future : Finished(i)
        /\ ~cancel /\ ~reported => Len(published) = Len(future)

\* Every call returns: the producer is never stuck behind the worker, nor the
\* worker behind a predecessor that cannot finish.
CallsReturn == (ppc # "free") ~> (ppc = "free")

\* The abstract outcome of each submission.
OutcomeOf(i) ==
    IF \E k \in DOMAIN published : published[k] = i THEN "published"
    ELSE IF future[i] \in {"failed", "cancelled"} THEN "dropped" ELSE "pending"

Abstract == INSTANCE OrderedPublisher WITH outcome <- [i \in 1 .. Len(future) |-> OutcomeOf(i)]
RefinesOrdered == Abstract!Spec
=============================================================================
