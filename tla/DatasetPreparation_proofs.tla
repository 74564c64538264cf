---------------------- MODULE DatasetPreparation_proofs ----------------------
(***************************************************************************)
(* Proofs about DatasetPreparation: FileLockLoader and WorkQueue together, *)
(* for any number of processes, runs, faults and chunks, and any sizes of  *)
(* pool, queue and batch.                                                  *)
(***************************************************************************)
EXTENDS DatasetPreparation, FiniteSetTheorems, SequenceTheorems, TLAPS

Places == {"start", "inside", "preparing", "saving", "returning", "leaving", "done"}
Locked == {"inside", "preparing", "saving", "returning"}
Counted == {p \in Processes : pc[p] \in Locked \cup {"leaving"}}
Begun == {p \in Processes : pc[p] # "start"}

-----------------------------------------------------------------------------
(* The inductive invariant.                                                *)

\* The lock is held by the one process that is inside.
LockInv ==
    /\ pc \in [Processes -> Places]
    /\ holder \in SUBSET Processes
    /\ \A p \in Processes : p \in holder <=> pc[p] \in Locked
    /\ \A p, q \in holder : p = q
    /\ raised \in SUBSET Processes
    /\ run \in 1 .. MaxRuns /\ faults \in 0 .. MaxFaults

\* The file counts the processes between load and cleanup, as long as each un-counted
\* itself; every process counts itself once in a run.
CountInv ==
    /\ counter \in Nat /\ flag \in BOOLEAN /\ dirty \in BOOLEAN
    /\ counter <= (run - 1) * Cardinality(Processes) + Cardinality(Begun)
    /\ ~dirty => counter = Cardinality(Counted) /\ (counter = 0 => ~flag)

\* A dataset that is there in part is being saved, or something went wrong.
FaultInv ==
    /\ dataset \in {"none", "partial", "whole"} /\ prepared \in Nat
    /\ dataset = "partial" => dirty \/ faults > 0 \/ \E p \in Processes : pc[p] = "saving"
    /\ raised # {} => faults > 0 \/ dirty
    /\ prepared <= 1 + faults
    /\ dataset = "none" /\ (\A p \in Processes : pc[p] # "preparing") => prepared <= faults
    /\ stage = "failed" \/ (\E i \in DOMAIN pending : pending[i].state = "failed")
          => faults > 0 /\ prepared <= faults

\* The deque holds the chunks submitted last, in their order.
PendingInv ==
    /\ stage \in {"off", "collecting", "written", "ready", "failed"}
    /\ submitted \in 0 .. NumChunks
    /\ pending \in Seq(Future) /\ Len(pending) <= MaxInFlight /\ Len(pending) <= submitted
    /\ \A i \in DOMAIN pending : pending[i].chunk = submitted - Len(pending) + i
    /\ Cardinality({i \in DOMAIN pending : pending[i].state = "running"}) <= NumProc
    /\ stage # "collecting" => pending = <<>> /\ buffered = <<>>
    /\ stage # "off" => \E p \in holder : pc[p] = "preparing"

\* The rows written and those buffered are those of the chunks collected.
RowsInv ==
    /\ buffered \in Seq(Kept) /\ Len(buffered) < WriterBatch
    /\ \A file \in tmp \cup cache : file \in Seq(Kept)
    /\ \A f, g \in tmp : f = g
    /\ \A f, g \in cache : f = g
    /\ stage \in {"off", "ready", "failed"} => \A file \in tmp : HasAllRows(file)
    /\ stage \in {"collecting", "written"} => \A file \in tmp :
           InOrder(file \o buffered)
           /\ Elements(file \o buffered) = Kept \cap 1 .. submitted - Len(pending)
    /\ stage = "written" => submitted = NumChunks
    /\ \A file \in cache : HasAllRows(file)

IInv == LockInv /\ CountInv /\ FaultInv /\ PendingInv /\ RowsInv

-----------------------------------------------------------------------------
(* Counting processes.                                                     *)

LEMMA AtMostOne == ASSUME NEW S, \A x, y \in S : x = y PROVE Cardinality(S) <= 1
<1>1. CASE S = {}
  BY <1>1, FS_EmptySet
<1>2. CASE S # {}
  <2>1. PICK x \in S : TRUE
    BY <1>2
  <2>2. S = {x}
    BY <2>1
  <2>3. Cardinality(S) = 1
    BY <2>2, FS_Singleton
  <2> QED BY <2>3
<1> QED BY <1>1, <1>2

\* A process that goes on is counted where it arrives instead of where it was.
LEMMA GotoCounts ==
    ASSUME LockInv, NEW p \in Processes, NEW l \in Places \ {"start"}, Goto(p, l)
    PROVE  /\ Cardinality(Counted) \in Nat /\ Cardinality(Begun) \in Nat
           /\ pc[p] \in Locked \cup {"leaving"} => Cardinality(Counted) >= 1
           /\ Cardinality(Counted')
                = Cardinality(Counted) + (IF l \in Locked \cup {"leaving"} THEN 1 ELSE 0)
                                       - (IF pc[p] \in Locked \cup {"leaving"} THEN 1 ELSE 0)
           /\ Cardinality(Begun') = Cardinality(Begun) + (IF pc[p] = "start" THEN 1 ELSE 0)
<1>1. /\ IsFiniteSet(Counted) /\ IsFiniteSet(Begun)
      /\ Cardinality(Counted) \in Nat /\ Cardinality(Begun) \in Nat
  <2>1. Counted \in SUBSET Processes /\ Begun \in SUBSET Processes
    BY DEF Counted, Begun
  <2> QED BY <2>1, LoaderAssumption, FS_Subset, FS_CardinalityType
<1>2. pc'[p] = l /\ \A q \in Processes : q # p => pc'[q] = pc[q]
  BY DEF Goto, LockInv
<1>3. Cardinality(Begun') = Cardinality(Begun) + (IF pc[p] = "start" THEN 1 ELSE 0)
  <2>1. Begun' = Begun \cup {p} /\ (p \in Begun <=> pc[p] # "start")
    BY <1>2 DEF Begun
  <2>2. Cardinality(Begun') = IF p \in Begun THEN Cardinality(Begun) ELSE Cardinality(Begun) + 1
    BY <1>1, <2>1, FS_AddElement
  <2> QED BY <1>1, <2>1, <2>2
<1>4. pc[p] \in Locked \cup {"leaving"} => Cardinality(Counted) >= 1
  <2>1. pc[p] \in Locked \cup {"leaving"} => Counted # {}
    BY DEF Counted
  <2>2. Counted # {} => Cardinality(Counted) # 0
    BY <1>1, FS_EmptySet
  <2> QED BY <1>1, <2>1, <2>2
<1>5. CASE l \in Locked \cup {"leaving"}
  <2>1. Counted' = Counted \cup {p} /\ (p \in Counted <=> pc[p] \in Locked \cup {"leaving"})
    BY <1>2, <1>5 DEF Counted
  <2>2. Cardinality(Counted')
          = IF p \in Counted THEN Cardinality(Counted) ELSE Cardinality(Counted) + 1
    BY <1>1, <2>1, FS_AddElement
  <2> QED BY <1>1, <1>3, <1>4, <1>5, <2>1, <2>2
<1>6. CASE l \notin Locked \cup {"leaving"}
  <2>1. Counted' = Counted \ {p} /\ (p \in Counted <=> pc[p] \in Locked \cup {"leaving"})
    BY <1>2, <1>6 DEF Counted
  <2>2. Cardinality(Counted')
          = IF p \in Counted THEN Cardinality(Counted) - 1 ELSE Cardinality(Counted)
    BY <1>1, <2>1, FS_RemoveElement
  <2> QED BY <1>1, <1>3, <1>4, <1>6, <2>1, <2>2
<1> QED BY <1>5, <1>6

\* Moving inside leaves the counter's meaning alone.
LEMMA StaysCounted ==
    ASSUME LockInv, CountInv, NEW p \in Processes, NEW l \in Locked \cup {"leaving"}, Goto(p, l),
           pc[p] \in Locked, counter' = counter, dirty' = dirty, flag' \in {flag, TRUE}, run' = run
    PROVE  CountInv'
<1>1. /\ Cardinality(Counted) \in Nat /\ Cardinality(Counted) >= 1
      /\ Cardinality(Counted') = Cardinality(Counted)
      /\ Cardinality(Begun) \in Nat /\ Cardinality(Begun') = Cardinality(Begun)
  <2>1. l \in Places \ {"start"} /\ pc[p] # "start"
    BY DEF Places, Locked
  <2>2. /\ Cardinality(Counted) \in Nat /\ Cardinality(Begun) \in Nat
        /\ Cardinality(Counted) >= 1
        /\ Cardinality(Counted') = Cardinality(Counted) + 1 - 1
        /\ Cardinality(Begun') = Cardinality(Begun) + 0
    BY <2>1, GotoCounts
  <2> QED BY <2>2
<1>2. counter' \in Nat /\ flag' \in BOOLEAN /\ dirty' \in BOOLEAN
  BY DEF CountInv
<1>3. counter' <= (run' - 1) * Cardinality(Processes) + Cardinality(Begun')
  BY <1>1 DEF CountInv
<1>4. ~dirty' => counter' = Cardinality(Counted') /\ (counter' = 0 => ~flag')
  BY <1>1 DEF CountInv
<1> QED BY <1>2, <1>3, <1>4 DEF CountInv

-----------------------------------------------------------------------------
(* The lock, the counter and the flag.                                     *)

LEMMA EnterLock == ASSUME LockInv, CountInv, NEW p \in Processes, Enter(p)
                   PROVE  LockInv' /\ CountInv'
<1>0. pc[p] = "start" /\ run' = run /\ flag' = flag
  BY DEF Enter
<1>1. CASE LockIsFree /\ holder' = {p} /\ counter' = counter + 1 /\ Goto(p, "inside")
           /\ UNCHANGED <<raised, dirty, faults>>
  <2>1. LockInv'
    BY <1>0, <1>1 DEF LockInv, LockIsFree, Goto, Places, Locked
  <2>2. /\ Cardinality(Counted) \in Nat /\ Cardinality(Begun) \in Nat
        /\ Cardinality(Counted') = Cardinality(Counted) + 1
        /\ Cardinality(Begun') = Cardinality(Begun) + 1
    <3>1. "inside" \in Places \ {"start"} /\ "inside" \in Locked
          /\ pc[p] \notin Locked \cup {"leaving"}
      BY <1>0 DEF Places, Locked
    <3>2. /\ Cardinality(Counted) \in Nat /\ Cardinality(Begun) \in Nat
          /\ Cardinality(Counted') = Cardinality(Counted) + 1 - 0
          /\ Cardinality(Begun') = Cardinality(Begun) + 1
      BY <1>0, <1>1, <3>1, GotoCounts
    <3> QED BY <3>2
  <2>3. counter' <= (run' - 1) * Cardinality(Processes) + Cardinality(Begun')
    <3> DEFINE K == (run - 1) * Cardinality(Processes)
    <3>1. K \in Int /\ counter \in Nat /\ counter <= K + Cardinality(Begun)
      BY LoaderAssumption, FS_CardinalityType DEF LockInv, CountInv
    <3> HIDE DEF K
    <3>2. counter' <= K + Cardinality(Begun')
      BY <1>1, <2>2, <3>1
    <3> QED BY <1>0, <3>2 DEF K
  <2>4. CountInv'
    BY <1>0, <1>1, <2>2, <2>3 DEF CountInv
  <2> QED BY <2>1, <2>4
<1>2. CASE Fault /\ Goto(p, "leaving") /\ raised' = raised \cup {p} /\ dirty' = TRUE
           /\ UNCHANGED <<holder, counter>>
  <2>1. LockInv'
    BY <1>0, <1>2, LoaderAssumption DEF LockInv, Goto, Places, Locked, Fault
  <2>2. /\ Cardinality(Begun) \in Nat /\ Cardinality(Begun') = Cardinality(Begun) + 1
    BY <1>0, <1>2, GotoCounts DEF Places
  <2>3. counter' <= (run' - 1) * Cardinality(Processes) + Cardinality(Begun')
    <3> DEFINE K == (run - 1) * Cardinality(Processes)
    <3>1. K \in Int /\ counter \in Nat /\ counter <= K + Cardinality(Begun)
      BY LoaderAssumption, FS_CardinalityType DEF LockInv, CountInv
    <3> HIDE DEF K
    <3>2. counter' <= K + Cardinality(Begun')
      BY <1>2, <2>2, <3>1
    <3> QED BY <1>0, <3>2 DEF K
  <2>4. CountInv'
    BY <1>0, <1>2, <2>3 DEF CountInv
  <2> QED BY <2>1, <2>4
<1> QED BY <1>1, <1>2 DEF Enter

\* What load_fn and the return from load() have in common: the holder goes on inside, or
\* leaves, and the lock with it.
LEMMA InsideLock ==
    ASSUME LockInv, CountInv, NEW p \in Processes, pc[p] \in Locked,
           \/ \E l \in Locked : Goto(p, l) /\ holder' = holder
           \/ Goto(p, "leaving") /\ holder' = holder \ {p},
           raised' \in {raised, raised \cup {p}}, faults' \in 0 .. MaxFaults,
           counter' = counter, dirty' = dirty, flag' \in {flag, TRUE}, run' = run
    PROVE  LockInv' /\ CountInv'
<1>1. CASE \E l \in Locked : Goto(p, l) /\ holder' = holder
  <2>1. PICK l \in Locked : Goto(p, l) /\ holder' = holder
    BY <1>1
  <2>2. LockInv'
    BY <2>1 DEF LockInv, Goto, Places, Locked
  <2> QED BY <2>1, <2>2, StaysCounted
<1>2. CASE Goto(p, "leaving") /\ holder' = holder \ {p}
  <2>1. LockInv'
    BY <1>2 DEF LockInv, Goto, Places, Locked
  <2> QED BY <1>2, <2>1, StaysCounted
<1> QED BY <1>1, <1>2

LEMMA CleanupLock == ASSUME LockInv, CountInv, NEW p \in Processes, Cleanup(p)
                     PROVE  LockInv' /\ CountInv'
<1>0. pc[p] = "leaving" /\ Goto(p, "done") /\ run' = run /\ dirty' = dirty
  BY DEF Cleanup
<1>1. LockInv'
  BY DEF LockInv, Cleanup, Goto, Places, Locked
<1>2. /\ Cardinality(Counted) \in Nat /\ Cardinality(Begun) \in Nat
      /\ Cardinality(Counted) >= 1
      /\ Cardinality(Counted') = Cardinality(Counted) - 1
      /\ Cardinality(Begun') = Cardinality(Begun)
  <2>1. "done" \in Places \ {"start"} /\ "done" \notin Locked \cup {"leaving"}
    BY DEF Places, Locked
  <2>2. /\ Cardinality(Counted) \in Nat /\ Cardinality(Begun) \in Nat
        /\ Cardinality(Counted) >= 1
        /\ Cardinality(Counted') = Cardinality(Counted) + 0 - 1
        /\ Cardinality(Begun') = Cardinality(Begun) + 0
    BY <1>0, <2>1, GotoCounts
  <2> QED BY <2>2
<1>3. /\ counter \in Nat /\ counter' \in Nat /\ flag' \in BOOLEAN /\ counter' <= counter
      /\ counter > 0 => counter' = counter - 1
      /\ counter > 0 /\ counter' = 0 => ~flag'
  <2>1. counter \in Nat /\ flag \in BOOLEAN
    BY DEF CountInv
  <2>2. \/ counter = 0 /\ counter' = counter /\ flag' = flag
        \/ counter > 0 /\ counter - 1 <= 0 /\ flag' = FALSE /\ counter' = 0
        \/ counter > 0 /\ ~(counter - 1 <= 0) /\ counter' = counter - 1 /\ flag' = flag
    BY DEF Cleanup, IsLast
  <2>3. CASE counter = 0 /\ counter' = counter /\ flag' = flag
    BY <2>1, <2>3
  <2>4. CASE counter > 0 /\ counter - 1 <= 0 /\ flag' = FALSE /\ counter' = 0
    <3>1. counter' \in Nat /\ counter' <= counter /\ counter' = counter - 1
      BY <2>1, <2>4
    <3>2. flag' \in BOOLEAN /\ ~flag'
      BY <2>4
    <3> QED BY <2>1, <3>1, <3>2, Zenon
  <2>5. CASE counter > 0 /\ ~(counter - 1 <= 0) /\ counter' = counter - 1 /\ flag' = flag
    <3>1. /\ counter' \in Nat /\ counter' <= counter
          /\ counter > 0 => counter' = counter - 1
          /\ counter' # 0
      BY <2>1, <2>5
    <3> QED BY <2>1, <2>5, <3>1, Zenon
  <2> QED BY <2>2, <2>3, <2>4, <2>5
<1>4. counter' <= (run' - 1) * Cardinality(Processes) + Cardinality(Begun')
  <2> DEFINE K == (run - 1) * Cardinality(Processes)
  <2>1. K \in Int /\ counter <= K + Cardinality(Begun)
    BY LoaderAssumption, FS_CardinalityType DEF LockInv, CountInv
  <2> HIDE DEF K
  <2>2. counter' <= K + Cardinality(Begun')
    BY <1>2, <1>3, <2>1
  <2> QED BY <1>0, <2>2 DEF K
<1>5. CountInv'
  BY <1>0, <1>2, <1>3, <1>4 DEF CountInv
<1> QED BY <1>1, <1>5

\* The counter outlives the processes: if none was counted, it is 0.
LEMMA RestartLock == ASSUME LockInv, CountInv, Restart PROVE LockInv' /\ CountInv'
<1>1. LockInv'
  BY LoaderAssumption DEF LockInv, Restart, Places, Locked
<1>2. IsFiniteSet(Processes) /\ Cardinality(Processes) \in Nat
  BY LoaderAssumption, FS_CardinalityType
<1>3. Cardinality(Begun) \in Nat /\ Cardinality(Begun) <= Cardinality(Processes)
  <2>1. Begun \in SUBSET Processes
    BY DEF Begun
  <2> QED BY <1>2, <2>1, FS_Subset, FS_CardinalityType
<1>4. Begun' = {} /\ Counted' = {} /\ Cardinality({}) = 0
  BY FS_EmptySet DEF Restart, Begun, Counted, Locked
<1>5. counter' <= (run' - 1) * Cardinality(Processes) + Cardinality(Begun')
  <2> DEFINE C == Cardinality(Processes)
  <2>1. run \in Nat /\ run >= 1 /\ run' = run + 1 /\ counter' = counter /\ counter \in Nat
        /\ counter <= (run - 1) * C + Cardinality(Begun)
    BY LoaderAssumption DEF LockInv, CountInv, Restart
  <2>2. C \in Nat /\ Cardinality(Begun) <= C
    BY <1>2, <1>3
  <2> HIDE DEF C
  <2>3. (run - 1) * C + C = run * C /\ (run - 1) * C \in Int
    BY <2>1, <2>2
  <2>4. counter <= run * C + 0
    BY <1>3, <2>1, <2>2, <2>3
  <2>5. run' - 1 = run
    BY <2>1
  <2> QED BY <1>4, <2>1, <2>4, <2>5 DEF C
<1>6. ~dirty' => counter' = Cardinality(Counted') /\ (counter' = 0 => ~flag')
  <2> SUFFICES ASSUME ~dirty' PROVE counter' = 0 /\ ~flag'
    BY <1>4
  <2>1. ~dirty /\ \A p \in Processes : pc[p] \in {"start", "done"}
    BY DEF Restart
  <2>2. Counted = {}
    BY <2>1 DEF Counted, Locked
  <2> QED BY <1>4, <2>1, <2>2 DEF CountInv, Restart
<1>7. CountInv'
  BY <1>5, <1>6 DEF CountInv, Restart
<1> QED BY <1>1, <1>7

-----------------------------------------------------------------------------
(* The deque of futures.                                                   *)

Running(q) == {i \in DOMAIN q : q[i].state = "running"}

LEMMA RunningFinite ==
    ASSUME NEW q \in Seq(Future)
    PROVE  IsFiniteSet(Running(q)) /\ Cardinality(Running(q)) \in Nat
<1>1. Running(q) \in SUBSET (1 .. Len(q)) /\ IsFiniteSet(1 .. Len(q))
  BY FS_Interval DEF Running
<1> QED BY <1>1, FS_Subset, FS_CardinalityType

\* A future changes its state and nothing else.
LEMMA BecomesFacts ==
    ASSUME PendingInv, NEW i \in DOMAIN pending,
           NEW st \in {"queued", "running", "done", "failed"}, Becomes(i, st)
    PROVE  /\ pending' \in Seq(Future) /\ Len(pending') = Len(pending)
           /\ DOMAIN pending' = DOMAIN pending /\ pending'[i].state = st
           /\ \A k \in DOMAIN pending :
                 pending'[k].chunk = pending[k].chunk /\ (k # i => pending'[k] = pending[k])
<1> DEFINE e == [pending[i] EXCEPT !.state = st]
<1>1. /\ pending \in Seq(Future) /\ pending[i] \in Future /\ Len(pending) \in Nat
      /\ pending \in [1 .. Len(pending) -> Future]
  BY DEF PendingInv
<1>2. pending' = [pending EXCEPT ![i] = e]
  BY DEF Becomes
<1>3. e \in Future /\ e.chunk = pending[i].chunk /\ e.state = st
  BY <1>1 DEF Future
<1> HIDE DEF e
<1> QED BY <1>1, <1>2, <1>3

\* Steps that change the states of futures alone.
LEMMA StatesChange ==
    ASSUME PendingInv, RowsInv, pending' \in Seq(Future), Len(pending') = Len(pending),
           \A k \in DOMAIN pending : pending'[k].chunk = pending[k].chunk,
           Cardinality(Running(pending')) <= NumProc,
           UNCHANGED <<stage, submitted, buffered, tmp, cache, pc, holder>>
    PROVE  PendingInv' /\ RowsInv'
<1>1. PendingInv'
  <2>1. DOMAIN pending' = DOMAIN pending
    BY DEF PendingInv
  <2>2. \A i \in DOMAIN pending' : pending'[i].chunk = submitted' - Len(pending') + i
    BY <2>1 DEF PendingInv
  <2>3. stage' # "collecting" => pending' = <<>> /\ buffered' = <<>>
    <3> SUFFICES ASSUME stage # "collecting" PROVE pending' = <<>> /\ buffered' = <<>>
      OBVIOUS
    <3>1. pending = <<>> /\ buffered = <<>>
      BY DEF PendingInv
    <3>2. Len(pending') = 0
      BY <3>1
    <3> QED BY <3>1, <3>2
  <2> QED BY <2>2, <2>3 DEF PendingInv, Running
<1>2. RowsInv'
  BY DEF RowsInv
<1> QED BY <1>1, <1>2

LEMMA TakeChunkQueue ==
    ASSUME PendingInv, RowsInv, TakeChunk, UNCHANGED <<pc, holder>>
    PROVE  PendingInv' /\ RowsInv' /\ UNCHANGED stage
           /\ \A k \in DOMAIN pending' : pending'[k].state = "failed"
                  => k \in DOMAIN pending /\ pending[k].state = "failed"
<1>1. PICK i \in DOMAIN pending : pending[i].state = "queued" /\ Becomes(i, "running")
  BY DEF TakeChunk
<1>2. pending \in Seq(Future)
  BY DEF PendingInv
<1>3. /\ pending' \in Seq(Future) /\ Len(pending') = Len(pending)
      /\ DOMAIN pending' = DOMAIN pending /\ pending'[i].state = "running"
      /\ \A k \in DOMAIN pending :
            pending'[k].chunk = pending[k].chunk /\ (k # i => pending'[k] = pending[k])
  BY <1>1, BecomesFacts
<1>4. Cardinality(Running(pending')) <= NumProc
  <2>1. Running(pending') = Running(pending) \cup {i} /\ i \notin Running(pending)
    BY <1>1, <1>3 DEF Running
  <2>2. Cardinality(Running(pending')) = Cardinality(Running(pending)) + 1
    BY <1>2, <2>1, RunningFinite, FS_AddElement
  <2>3. Cardinality(Running(pending)) < NumProc
    BY DEF TakeChunk, Running
  <2> QED BY <1>2, <2>2, <2>3, RunningFinite, WorkQueueAssumption
<1> QED BY <1>1, <1>3, <1>4, StatesChange DEF Becomes

LEMMA TokenizedQueue ==
    ASSUME PendingInv, RowsInv, Tokenized, UNCHANGED <<pc, holder>>
    PROVE  PendingInv' /\ RowsInv' /\ UNCHANGED stage
           /\ \A k \in DOMAIN pending' : pending'[k].state = "failed"
                  => k \in DOMAIN pending /\ pending[k].state = "failed"
<1>1. PICK i \in DOMAIN pending : pending[i].state = "running" /\ Becomes(i, "done")
  BY DEF Tokenized
<1>2. pending \in Seq(Future)
  BY DEF PendingInv
<1>3. /\ pending' \in Seq(Future) /\ Len(pending') = Len(pending)
      /\ DOMAIN pending' = DOMAIN pending /\ pending'[i].state = "done"
      /\ \A k \in DOMAIN pending :
            pending'[k].chunk = pending[k].chunk /\ (k # i => pending'[k] = pending[k])
  BY <1>1, BecomesFacts
<1>4. Cardinality(Running(pending')) <= NumProc
  <2>1. Running(pending') \in SUBSET Running(pending)
    BY <1>3 DEF Running
  <2>2. Cardinality(Running(pending')) <= Cardinality(Running(pending))
    BY <1>2, <2>1, RunningFinite, FS_Subset
  <2>3. Cardinality(Running(pending)) <= NumProc
    BY DEF PendingInv, Running
  <2> QED BY <1>2, <1>3, <2>2, <2>3, RunningFinite, WorkQueueAssumption
<1> QED BY <1>1, <1>3, <1>4, StatesChange DEF Becomes

LEMMA TokenizingFailsQueue ==
    ASSUME PendingInv, RowsInv, TokenizingFails, UNCHANGED <<pc, holder>>
    PROVE  PendingInv' /\ RowsInv'
<1>1. pending \in Seq(Future)
  BY DEF PendingInv
<1>2. /\ pending' \in Seq(Future) /\ Len(pending') = Len(pending)
      /\ DOMAIN pending' = DOMAIN pending
      /\ \A k \in DOMAIN pending :
            /\ pending'[k].chunk = pending[k].chunk
            /\ pending'[k].state = "running" => pending[k].state = "running"
      /\ UNCHANGED <<stage, submitted, buffered, tmp, cache>>
  <2>1. CASE \E i \in DOMAIN pending : pending[i].state = "running" /\ Becomes(i, "failed")
    <3>1. PICK i \in DOMAIN pending : pending[i].state = "running" /\ Becomes(i, "failed")
      BY <2>1
    <3>2. /\ pending' \in Seq(Future) /\ Len(pending') = Len(pending)
          /\ DOMAIN pending' = DOMAIN pending /\ pending'[i].state = "failed"
          /\ \A k \in DOMAIN pending :
                pending'[k].chunk = pending[k].chunk /\ (k # i => pending'[k] = pending[k])
      BY <3>1, BecomesFacts
    <3> QED BY <3>1, <3>2 DEF Becomes
  <2>2. CASE /\ pending' = [i \in DOMAIN pending |->
                    IF pending[i].state = "done" THEN pending[i]
                    ELSE [pending[i] EXCEPT !.state = "failed"]]
             /\ UNCHANGED <<stage, submitted, buffered, tmp, cache>>
    <3>1. ASSUME NEW i \in DOMAIN pending
          PROVE  LET f == [pending[i] EXCEPT !.state = "failed"] IN
                 f \in Future /\ f.chunk = pending[i].chunk /\ f.state = "failed"
      <4>1. pending[i] \in Future
        BY <1>1
      <4> QED BY <4>1 DEF Future
    <3>2. \A i \in DOMAIN pending :
            pending'[i] \in Future /\ pending'[i].chunk = pending[i].chunk
            /\ (pending'[i].state = "running" => pending[i].state = "running")
      BY <1>1, <2>2, <3>1
    <3>3. DOMAIN pending = 1 .. Len(pending) /\ Len(pending) \in Nat
          /\ pending' = [i \in DOMAIN pending |-> pending'[i]]
      BY <1>1, <2>2
    <3> QED BY <2>2, <3>2, <3>3
  <2> QED BY <2>1, <2>2 DEF TokenizingFails
<1>3. Cardinality(Running(pending')) <= NumProc
  <2>1. Running(pending') \in SUBSET Running(pending)
    BY <1>2 DEF Running
  <2>2. Cardinality(Running(pending')) <= Cardinality(Running(pending))
    BY <1>1, <2>1, RunningFinite, FS_Subset
  <2>3. Cardinality(Running(pending)) <= NumProc
    BY DEF PendingInv, Running
  <2> QED BY <1>1, <1>2, <2>2, <2>3, RunningFinite, WorkQueueAssumption
<1> QED BY <1>2, <1>3, StatesChange

-----------------------------------------------------------------------------
(* The rows.                                                               *)

\* The rows of the chunk collected next come after all the others.
LEMMA AppendRows ==
    ASSUME NEW s \in Seq(Kept), NEW n \in Nat, InOrder(s), Elements(s) = Kept \cap 1 .. n,
           n + 1 \in Kept
    PROVE  /\ Append(s, n + 1) \in Seq(Kept) /\ InOrder(Append(s, n + 1))
           /\ Elements(Append(s, n + 1)) = Kept \cap 1 .. n + 1
<1> DEFINE t == Append(s, n + 1)
<1>1. /\ t \in Seq(Kept) /\ Len(t) = Len(s) + 1 /\ Len(s) \in Nat
      /\ \A k \in 1 .. Len(s) : t[k] = s[k]
      /\ t[Len(s) + 1] = n + 1
      /\ DOMAIN s = 1 .. Len(s) /\ DOMAIN t = 1 .. Len(s) + 1
  OBVIOUS
<1> HIDE DEF t
<1>2. \A k \in DOMAIN s : s[k] \in 1 .. n
  BY DEF Elements
<1>3. InOrder(t)
  BY <1>1, <1>2 DEF InOrder
<1>4. Elements(t) = Elements(s) \cup {n + 1}
  <2>1. \A k \in DOMAIN s : k \in DOMAIN t /\ t[k] = s[k]
    BY <1>1
  <2>2. Len(s) + 1 \in DOMAIN t
    BY <1>1
  <2>3. \A k \in DOMAIN t : k \in DOMAIN s \/ k = Len(s) + 1
    BY <1>1
  <2> QED BY <1>1, <2>1, <2>2, <2>3 DEF Elements
<1>5. Kept \cap 1 .. n + 1 = (Kept \cap 1 .. n) \cup {n + 1}
  OBVIOUS
<1> QED BY <1>1, <1>3, <1>4, <1>5 DEF t

LEMMA AppendToConcat ==
    ASSUME NEW file \in Seq(Kept), NEW rows \in Seq(Kept), NEW c \in Kept
    PROVE  file \o Append(rows, c) = Append(file \o rows, c)
OBVIOUS

-----------------------------------------------------------------------------
(* The steps of the caller of the work queue.                              *)

LEMMA NothingCollected == \A m \in Nat : 1 .. m - m = {}
OBVIOUS

LEMMA BeginQueue ==
    ASSUME PendingInv, RowsInv, Begin, UNCHANGED <<pc, holder>>,
           \E p \in holder : pc[p] = "preparing"
    PROVE  PendingInv' /\ RowsInv' /\ stage' # "failed"
           /\ \A k \in DOMAIN pending' : pending'[k].state # "failed"
<1>0. stage = "off" /\ pending = <<>> /\ buffered = <<>> /\ UNCHANGED <<buffered, cache>>
      /\ submitted \in 0 .. NumChunks
  BY DEF Begin, PendingInv, RowsInv
<1>1. CASE cache # {} /\ stage' = "ready" /\ UNCHANGED <<submitted, pending, tmp>>
  <2>1. PendingInv'
    BY <1>0, <1>1 DEF PendingInv
  <2>2. RowsInv'
    BY <1>0, <1>1 DEF RowsInv
  <2>3. \A k \in DOMAIN pending' : pending'[k].state # "failed"
    BY <1>0, <1>1
  <2> QED BY <1>1, <2>1, <2>2, <2>3
<1>2. CASE /\ cache = {} /\ stage' = "collecting" /\ tmp' = {<<>>}
           /\ submitted' = (IF NumChunks < MaxInFlight THEN NumChunks ELSE MaxInFlight)
           /\ pending' = [i \in 1 .. submitted' |-> Submitted(i)]
  <2>1. submitted' \in 0 .. NumChunks /\ submitted' <= MaxInFlight /\ submitted' \in Nat
    BY <1>2, WorkQueueAssumption
  <2>2. \A i \in 1 .. submitted' :
            Submitted(i) \in Future /\ Submitted(i).chunk = i /\ Submitted(i).state = "queued"
    BY <2>1, WorkQueueAssumption DEF Submitted, Future
  <2>3. /\ pending' \in Seq(Future) /\ Len(pending') = submitted'
        /\ DOMAIN pending' = 1 .. submitted'
        /\ \A i \in DOMAIN pending' : pending'[i].chunk = i /\ pending'[i].state = "queued"
    BY <1>2, <2>1, <2>2
  <2>4. Cardinality(Running(pending')) = 0
    <3>1. Running(pending') = {}
      BY <2>3 DEF Running
    <3> QED BY <3>1, FS_EmptySet
  <2>5. \A i \in DOMAIN pending' : pending'[i].chunk = submitted' - Len(pending') + i
    BY <2>1, <2>3
  <2>6. PendingInv'
    <3>1. Len(pending') <= MaxInFlight /\ Len(pending') <= submitted'
          /\ Cardinality(Running(pending')) <= NumProc
      BY <2>1, <2>3, <2>4, WorkQueueAssumption
    <3> QED BY <1>2, <2>1, <2>3, <2>5, <3>1 DEF PendingInv, Running
  <2>7. InOrder(<<>>) /\ Elements(<<>>) = {} /\ <<>> \o <<>> = <<>> /\ <<>> \in Seq(Kept)
    BY DEF InOrder, Elements
  <2>8. 1 .. submitted' - Len(pending') = {}
    <3>1. Len(pending') = submitted'
      BY <2>3
    <3>2. submitted' \in Nat
      BY <2>1
    <3> QED BY <3>1, <3>2, NothingCollected
  <2>9. RowsInv'
    BY <1>0, <1>2, <2>7, <2>8 DEF RowsInv
  <2> QED BY <1>2, <2>3, <2>6, <2>9
<1> QED BY <1>1, <1>2 DEF Begin

LEMMA FinalizeQueue ==
    ASSUME PendingInv, RowsInv, Finalize, UNCHANGED <<pc, holder>>,
           \E p \in holder : pc[p] = "preparing"
    PROVE  PendingInv' /\ RowsInv'
<1>1. /\ stage = "collecting" /\ pending = <<>> /\ submitted = NumChunks /\ stage' = "written"
      /\ tmp' = {file \o buffered : file \in tmp} /\ buffered' = <<>>
      /\ UNCHANGED <<submitted, pending, cache>>
  BY DEF Finalize
<1>2. PendingInv'
  BY <1>1 DEF PendingInv
<1>3. \A file \in tmp : file \o buffered \in Seq(Kept)
  BY DEF RowsInv
<1>4. \A file \in tmp' : file \in Seq(Kept) /\ file \o <<>> = file
  <2>1. \A file \in tmp' : file \in Seq(Kept)
    BY <1>1, <1>3
  <2> QED BY <2>1
<1>5. RowsInv'
  <2>1. <<>> \in Seq(Kept) /\ Len(<<>>) = 0 /\ WriterBatch > 0 /\ WriterBatch \in Nat
    BY WorkQueueAssumption
  <2>2. \A f, g \in tmp' : f = g
    BY <1>1 DEF RowsInv
  <2>3. \A file \in tmp' : InOrder(file) /\ Elements(file) = Kept \cap 1 .. submitted - Len(pending)
    BY <1>1 DEF RowsInv
  <2> QED BY <1>1, <1>4, <2>1, <2>2, <2>3 DEF RowsInv
<1> QED BY <1>2, <1>5

LEMMA CacheQueue ==
    ASSUME PendingInv, RowsInv, Cache, UNCHANGED <<pc, holder>>,
           \E p \in holder : pc[p] = "preparing"
    PROVE  PendingInv' /\ RowsInv'
<1>1. /\ stage = "written" /\ stage' = "ready" /\ cache' = tmp /\ tmp' = {}
      /\ UNCHANGED <<submitted, pending, buffered>> /\ pending = <<>> /\ buffered = <<>>
      /\ submitted = NumChunks
  BY DEF Cache, PendingInv, RowsInv
<1>2. PendingInv'
  BY <1>1 DEF PendingInv
<1>3. \A file \in tmp : file \in Seq(Kept) /\ file \o <<>> = file
  <2>1. \A file \in tmp : file \in Seq(Kept)
    BY DEF RowsInv
  <2> QED BY <2>1
<1>4. Kept \cap 1 .. NumChunks - Len(<<>>) = Kept
  <2>1. Len(<<>>) = 0 /\ NumChunks - 0 = NumChunks
    BY WorkQueueAssumption
  <2>2. Kept \cap 1 .. NumChunks = Kept
    BY WorkQueueAssumption
  <2> QED BY <2>1, <2>2
<1>5. \A file \in tmp : HasAllRows(file)
  BY <1>1, <1>3, <1>4 DEF RowsInv, HasAllRows
<1>6. RowsInv'
  BY <1>1, <1>3, <1>5 DEF RowsInv
<1> QED BY <1>2, <1>6

\* Written in part, the file goes; a file that is not renamed has all the rows.
LEMMA FileFailsQueue ==
    ASSUME PendingInv, RowsInv, FileFails, UNCHANGED <<pc, holder>>
    PROVE  PendingInv' /\ RowsInv'
<1>1. /\ stage \in {"collecting", "written"} /\ stage' = "failed" /\ pending' = <<>>
      /\ buffered' = <<>> /\ UNCHANGED <<submitted, cache>>
      /\ \/ tmp' = {}
         \/ stage = "written" /\ tmp' = tmp
  BY DEF FileFails
<1>2. PendingInv'
  <2>1. /\ Len(<<>>) = 0 /\ DOMAIN <<>> = {} /\ <<>> \in Seq(Future) /\ submitted \in Nat
        /\ MaxInFlight \in Nat /\ NumProc \in Nat
    BY WorkQueueAssumption DEF PendingInv
  <2>2. Running(<<>>) = {} /\ Cardinality({}) = 0
    BY <2>1, FS_EmptySet DEF Running
  <2>3. \E p \in holder : pc[p] = "preparing"
    BY <1>1 DEF PendingInv
  <2> QED BY <1>1, <2>1, <2>2, <2>3 DEF PendingInv, Running
<1>3. RowsInv'
  <2>1. <<>> \in Seq(Kept) /\ Len(<<>>) = 0 /\ WriterBatch > 0 /\ WriterBatch \in Nat
    BY WorkQueueAssumption
  <2>2. CASE tmp' = {}
    BY <1>1, <2>1, <2>2 DEF RowsInv
  <2>3. CASE stage = "written" /\ tmp' = tmp
    <3>1. pending = <<>> /\ buffered = <<>> /\ submitted = NumChunks
      BY <2>3 DEF PendingInv, RowsInv
    <3>2. \A file \in tmp : file \in Seq(Kept) /\ file \o <<>> = file
      <4>1. \A file \in tmp : file \in Seq(Kept)
        BY DEF RowsInv
      <4> QED BY <4>1
    <3>3. Kept \cap 1 .. NumChunks - Len(<<>>) = Kept
      <4>1. NumChunks - Len(<<>>) = NumChunks
        BY <2>1, WorkQueueAssumption
      <4>2. Kept \cap 1 .. NumChunks = Kept
        BY WorkQueueAssumption
      <4> QED BY <4>1, <4>2
    <3>4. \A file \in tmp : HasAllRows(file)
      BY <2>3, <3>1, <3>2, <3>3 DEF RowsInv, HasAllRows
    <3> QED BY <1>1, <2>1, <2>3, <3>4 DEF RowsInv
  <2> QED BY <1>1, <2>2, <2>3
<1> QED BY <1>2, <1>3

LEMMA LeftQueue ==
    ASSUME PendingInv, RowsInv, QueueLeft, stage \in {"off", "ready", "failed"}
    PROVE  PendingInv' /\ RowsInv' /\ stage' = "off" /\ pending' = <<>>
<1>1. /\ pending = <<>> /\ buffered = <<>> /\ stage' = "off" /\ submitted' = 0
      /\ UNCHANGED <<pending, buffered, tmp, cache>>
  BY DEF PendingInv, RowsInv, QueueLeft
<1>2. PendingInv'
  <2>1. Len(<<>>) = 0 /\ DOMAIN <<>> = {} /\ 0 \in 0 .. NumChunks
    BY WorkQueueAssumption
  <2> QED BY <1>1, <2>1 DEF PendingInv
<1>3. RowsInv'
  BY <1>1 DEF RowsInv
<1> QED BY <1>1, <1>2, <1>3

LEMMA KilledQueue ==
    ASSUME PendingInv, RowsInv, QueueKilled
    PROVE  PendingInv' /\ RowsInv' /\ stage' = "off" /\ pending' = <<>>
<1>1. /\ stage' = "off" /\ submitted' = 0 /\ pending' = <<>> /\ buffered' = <<>> /\ tmp' = {}
      /\ cache' \in {cache, {}}
  BY DEF QueueKilled
<1>2. PendingInv'
  <2>1. /\ Len(<<>>) = 0 /\ DOMAIN <<>> = {} /\ 0 \in 0 .. NumChunks /\ <<>> \in Seq(Future)
        /\ MaxInFlight \in Nat /\ NumProc \in Nat
    BY WorkQueueAssumption
  <2>2. Running(<<>>) = {} /\ Cardinality({}) = 0
    BY <2>1, FS_EmptySet DEF Running
  <2> QED BY <1>1, <2>1, <2>2 DEF PendingInv, Running
<1>3. RowsInv'
  <2>1. <<>> \in Seq(Kept) /\ Len(<<>>) = 0 /\ WriterBatch > 0 /\ WriterBatch \in Nat
    BY WorkQueueAssumption
  <2> QED BY <1>1, <2>1 DEF RowsInv
<1> QED BY <1>1, <1>2, <1>3

\* Steps that the queue has no part in.
LEMMA IdleQueue ==
    ASSUME PendingInv, RowsInv, UNCHANGED queueVars,
           \/ stage = "off"
           \/ \A p \in holder : pc[p] = "preparing" => p \in holder' /\ pc'[p] = "preparing"
    PROVE  PendingInv' /\ RowsInv'
<1>1. UNCHANGED <<stage, submitted, pending, buffered, tmp, cache>>
  BY DEF queueVars
<1>2. stage' # "off" => \E p \in holder' : pc'[p] = "preparing"
  BY <1>1 DEF PendingInv
<1>3. PendingInv'
  BY <1>1, <1>2 DEF PendingInv
<1>4. RowsInv'
  BY <1>1 DEF RowsInv
<1> QED BY <1>3, <1>4

LEMMA AppendFacts ==
    ASSUME NEW S, NEW s \in Seq(S), NEW e \in S
    PROVE  /\ Append(s, e) \in Seq(S)
           /\ Len(Append(s, e)) = Len(s) + 1
           /\ \A i \in 1 .. Len(s) : Append(s, e)[i] = s[i]
           /\ Append(s, e)[Len(s) + 1] = e
OBVIOUS

\* The oldest chunk leaves the deque; the ones after it move up, and the next of the
\* dataset may join them.
Remaining == [j \in 1 .. Len(pending) - 1 |-> pending[IF j < 1 THEN j ELSE j + 1]]
RowsWith(chunk) == IF chunk \in Kept THEN Append(buffered, chunk) ELSE buffered
DequeMoves ==
    /\ pending' = IF submitted < NumChunks THEN Append(Remaining, Submitted(submitted + 1))
                  ELSE Remaining
    /\ submitted' = IF submitted < NumChunks THEN submitted + 1 ELSE submitted
RowsMove(file, rows) ==
    /\ tmp' = FlushTo(file, rows)
    /\ buffered' = IF Len(rows) >= WriterBatch THEN <<>> ELSE rows

\* The file and what is still buffered, whether or not a batch of the writer is full.
LEMMA Flushed ==
    ASSUME NEW file \in Seq(Kept), NEW rows \in Seq(Kept), RowsMove(file, rows), NEW f \in tmp'
    PROVE  /\ f \in Seq(Kept) /\ buffered' \in Seq(Kept) /\ Len(buffered') < WriterBatch
           /\ f \o buffered' = file \o rows
<1>0. WriterBatch \in Nat /\ WriterBatch > 0
  BY WorkQueueAssumption
<1>1. CASE Len(rows) >= WriterBatch
  <2>1. f = file \o rows /\ buffered' = <<>> /\ f \in Seq(Kept)
    <3>1. f = file \o rows /\ buffered' = <<>>
      BY <1>1 DEF RowsMove, FlushTo
    <3>2. file \o rows \in Seq(Kept)
      OBVIOUS
    <3> QED BY <3>1, <3>2
  <2>2. f \o <<>> = f /\ <<>> \in Seq(Kept) /\ Len(<<>>) = 0
    BY <2>1, ConcatEmptySeq
  <2>3. f \o buffered' = file \o rows
    BY <2>1, <2>2
  <2>4. Len(buffered') < WriterBatch /\ buffered' \in Seq(Kept)
    BY <1>0, <2>1, <2>2
  <2> QED BY <2>1, <2>3, <2>4
<1>2. CASE ~(Len(rows) >= WriterBatch)
  BY <1>0, <1>2 DEF RowsMove, FlushTo
<1> QED BY <1>1, <1>2

LEMMA CollectDone ==
    ASSUME PendingInv, RowsInv, UNCHANGED <<pc, holder, stage, cache>>, stage = "collecting",
           1 \in DOMAIN pending, pending[1].state = "done", NEW file \in tmp,
           DequeMoves, RowsMove(file, RowsWith(pending[1].chunk))
    PROVE  /\ PendingInv' /\ RowsInv'
           /\ \A k \in DOMAIN pending' : pending'[k].state = "failed"
                  => k + 1 \in DOMAIN pending /\ pending[k + 1].state = "failed"
<1> DEFINE n == submitted - Len(pending)
           left == Remaining
           rows == RowsWith(pending[1].chunk)
<1>1. /\ pending \in Seq(Future) /\ Len(pending) \in Nat /\ Len(pending) >= 1
      /\ DOMAIN pending = 1 .. Len(pending) /\ submitted \in 0 .. NumChunks /\ submitted \in Nat
      /\ Len(pending) <= submitted /\ Len(pending) <= MaxInFlight
      /\ NumChunks \in Nat /\ MaxInFlight \in Nat /\ n \in Nat
      /\ \A i \in DOMAIN pending : pending[i] \in Future /\ pending[i].chunk = n + i
  BY WorkQueueAssumption DEF PendingInv
<1>2. /\ left \in Seq(Future) /\ Len(left) = Len(pending) - 1
      /\ \A j \in 1 .. Len(left) : left[j] = pending[j + 1]
  <2>1. Len(pending) - 1 \in Nat
    BY <1>1
  <2>2. \A j \in 1 .. Len(pending) - 1 : j + 1 \in DOMAIN pending /\ left[j] = pending[j + 1]
    BY <1>1 DEF Remaining
  <2> QED BY <1>1, <2>1, <2>2 DEF Remaining
<1> HIDE DEF left
<1>3. /\ pending' \in Seq(Future) /\ submitted' \in 0 .. NumChunks
      /\ Len(pending') <= Len(pending) /\ submitted' - Len(pending') = n + 1
      /\ Len(pending') <= submitted' /\ DOMAIN pending' = 1 .. Len(pending')
      /\ \A k \in DOMAIN pending' :
            \/ k + 1 \in DOMAIN pending /\ pending'[k] = pending[k + 1]
            \/ pending'[k].state = "queued" /\ pending'[k].chunk = n + 1 + k
  <2>1. CASE submitted < NumChunks
    <3>1. Submitted(submitted + 1) \in Future
          /\ Submitted(submitted + 1).state = "queued"
          /\ Submitted(submitted + 1).chunk = submitted + 1
      BY <1>1, <2>1 DEF Submitted, Future
    <3> DEFINE e == Submitted(submitted + 1)
    <3>2. pending' = Append(left, e) /\ submitted' = submitted + 1
      BY <2>1 DEF DequeMoves, left
    <3> HIDE DEF e
    <3>3. e \in Future /\ e.state = "queued" /\ e.chunk = submitted + 1
      BY <3>1 DEF e
    <3>4. /\ pending' \in Seq(Future) /\ Len(pending') = Len(pending)
          /\ DOMAIN pending' = 1 .. Len(pending)
          /\ \A k \in 1 .. Len(pending) - 1 : pending'[k] = pending[k + 1]
          /\ pending'[Len(pending)] = e
      <4>1. /\ pending' \in Seq(Future) /\ Len(pending') = Len(left) + 1
            /\ \A k \in 1 .. Len(left) : pending'[k] = left[k]
            /\ pending'[Len(left) + 1] = e
        BY <1>2, <3>2, <3>3, AppendFacts
      <4>2. Len(left) + 1 = Len(pending)
        BY <1>1, <1>2
      <4> QED BY <1>1, <1>2, <4>1, <4>2
    <3>5. \A k \in DOMAIN pending' :
            \/ k + 1 \in DOMAIN pending /\ pending'[k] = pending[k + 1]
            \/ pending'[k].state = "queued" /\ pending'[k].chunk = n + 1 + k
      <4> SUFFICES ASSUME NEW k \in 1 .. Len(pending)
                   PROVE  \/ k + 1 \in DOMAIN pending /\ pending'[k] = pending[k + 1]
                          \/ pending'[k].state = "queued" /\ pending'[k].chunk = n + 1 + k
        BY <3>4
      <4>1. CASE k = Len(pending)
        BY <1>1, <3>3, <3>4, <4>1
      <4>2. CASE k # Len(pending)
        BY <1>1, <3>4, <4>2
      <4> QED BY <4>1, <4>2
    <3>6. submitted' \in 0 .. NumChunks /\ submitted' - Len(pending') = n + 1
          /\ Len(pending') <= submitted'
      <4>1. submitted' = submitted + 1 /\ Len(pending') = Len(pending)
        BY <3>2, <3>4
      <4> QED BY <1>1, <2>1, <4>1
    <3> QED BY <1>1, <3>4, <3>5, <3>6
  <2>2. CASE ~(submitted < NumChunks)
    <3>1. pending' = left /\ submitted' = submitted
      BY <2>2 DEF DequeMoves, left
    <3>2. pending' \in Seq(Future) /\ Len(pending') = Len(pending) - 1
          /\ DOMAIN pending' = 1 .. Len(pending')
      BY <1>2, <3>1
    <3>3. Len(pending') <= Len(pending) /\ submitted' \in 0 .. NumChunks
          /\ submitted' - Len(pending') = n + 1 /\ Len(pending') <= submitted'
      BY <1>1, <3>1, <3>2
    <3>4. \A k \in 1 .. Len(pending) - 1 : k + 1 \in DOMAIN pending /\ pending'[k] = pending[k + 1]
      BY <1>1, <1>2, <3>1
    <3> QED BY <3>2, <3>3, <3>4
  <2> QED BY <2>1, <2>2
<1>4. Cardinality(Running(pending')) <= NumProc
  <2>1. \A k \in Running(pending') : k + 1 \in Running(pending)
    BY <1>3 DEF Running
  <2> DEFINE f == [k \in Running(pending') |-> k + 1]
  <2>2. f \in Injection(Running(pending'), Running(pending))
    <3>1. f \in [Running(pending') -> Running(pending)]
      BY <2>1
    <3>2. \A a, b \in Running(pending') : f[a] = f[b] => a = b
      BY <1>3 DEF Running
    <3> QED BY <3>1, <3>2 DEF Injection, IsInjective
  <2> HIDE DEF f
  <2>3. Cardinality(Running(pending')) <= Cardinality(Running(pending))
    BY <1>1, <2>2, RunningFinite, FS_Injection
  <2>4. Cardinality(Running(pending)) <= NumProc
    BY DEF PendingInv, Running
  <2>5. Cardinality(Running(pending)) \in Nat /\ Cardinality(Running(pending')) \in Nat
        /\ NumProc \in Nat
    BY <1>1, <1>3, RunningFinite, WorkQueueAssumption
  <2> QED BY <2>3, <2>4, <2>5
<1>5. PendingInv'
  <2>1. Len(pending') <= MaxInFlight
    <3>1. Len(pending') \in Nat
      BY <1>3
    <3> QED BY <1>1, <1>3, <3>1
  <2>2. \A i \in DOMAIN pending' : pending'[i].chunk = submitted' - Len(pending') + i
    BY <1>1, <1>3
  <2>3. stage' = "collecting" /\ \E p \in holder : pc[p] = "preparing"
    BY DEF PendingInv
  <2> QED BY <1>3, <1>4, <2>1, <2>2, <2>3 DEF PendingInv, Running
<1>6. /\ file \in Seq(Kept) /\ buffered \in Seq(Kept) /\ InOrder(file \o buffered)
      /\ Elements(file \o buffered) = Kept \cap 1 .. n /\ file \o buffered \in Seq(Kept)
  <2>1. file \in Seq(Kept) /\ buffered \in Seq(Kept) /\ InOrder(file \o buffered)
        /\ Elements(file \o buffered) = Kept \cap 1 .. submitted - Len(pending)
    BY DEF RowsInv
  <2> QED BY <2>1
<1> HIDE DEF n
<1>7. /\ rows \in Seq(Kept) /\ InOrder(file \o rows)
      /\ Elements(file \o rows) = Kept \cap 1 .. n + 1
  <2>1. pending[1].chunk = n + 1
    BY <1>1
  <2>2. CASE n + 1 \in Kept
    <3>1. rows = Append(buffered, n + 1) /\ rows \in Seq(Kept)
      BY <1>6, <2>1, <2>2 DEF RowsWith
    <3>2. file \o rows = Append(file \o buffered, n + 1)
      BY <1>6, <2>2, <3>1, AppendToConcat
    <3> QED BY <1>1, <1>6, <2>2, <3>1, <3>2, AppendRows
  <2>3. CASE n + 1 \notin Kept
    <3>1. rows = buffered
      BY <2>1, <2>3 DEF RowsWith
    <3>2. Kept \cap 1 .. n + 1 = Kept \cap 1 .. n
      BY <1>1, <2>3
    <3> QED BY <1>6, <3>1, <3>2
  <2> QED BY <2>2, <2>3
<1> HIDE DEF rows
<1>8. ASSUME NEW f \in tmp'
      PROVE  /\ f \in Seq(Kept) /\ f \o buffered' = file \o rows
             /\ buffered' \in Seq(Kept) /\ Len(buffered') < WriterBatch
  <2>1. RowsMove(file, rows)
    BY DEF rows
  <2> QED BY <1>6, <1>7, <2>1, Flushed
<1>9. tmp' # {} /\ \A f, g \in tmp' : f = g
  BY DEF RowsMove, FlushTo
<1>10. RowsInv'
  <2>1. \A f \in tmp' : InOrder(f \o buffered')
            /\ Elements(f \o buffered') = Kept \cap 1 .. submitted' - Len(pending')
    BY <1>3, <1>7, <1>8
  <2>2. buffered' \in Seq(Kept) /\ Len(buffered') < WriterBatch
    BY <1>8, <1>9
  <2> QED BY <1>8, <1>9, <2>1, <2>2 DEF RowsInv
<1>11. \A k \in DOMAIN pending' : pending'[k].state = "failed"
            => k + 1 \in DOMAIN pending /\ pending[k + 1].state = "failed"
  BY <1>3
<1> QED BY <1>5, <1>10, <1>11

LEMMA CollectQueue ==
    ASSUME PendingInv, RowsInv, Collect, UNCHANGED <<pc, holder>>,
           \E p \in holder : pc[p] = "preparing"
    PROVE  /\ PendingInv' /\ RowsInv'
           /\ stage' = "failed" \/ (\E k \in DOMAIN pending' : pending'[k].state = "failed")
                 => \E k \in DOMAIN pending : pending[k].state = "failed"
<1>1. PICK i \in Collectable, file \in tmp :
        LET chunk == pending[i].chunk
            left == [j \in 1 .. Len(pending) - 1 |-> pending[IF j < i THEN j ELSE j + 1]]
            rows == IF chunk \in Kept THEN Append(buffered, chunk) ELSE buffered IN
        \/ /\ pending[i].state = "done"
           /\ pending' = IF submitted < NumChunks THEN Append(left, Submitted(submitted + 1))
                         ELSE left
           /\ submitted' = IF submitted < NumChunks THEN submitted + 1 ELSE submitted
           /\ tmp' = FlushTo(file, rows)
           /\ buffered' = IF Len(rows) >= WriterBatch THEN <<>> ELSE rows
           /\ UNCHANGED stage
        \/ /\ pending[i].state = "failed" /\ stage' = "failed"
           /\ tmp' = {} /\ buffered' = <<>> /\ pending' = <<>> /\ UNCHANGED submitted
  BY DEF Collect
<1>2. i = 1 /\ 1 \in DOMAIN pending /\ stage = "collecting" /\ UNCHANGED cache
  BY DEF Collect, Collectable
<1>3. CASE pending[1].state = "done" /\ UNCHANGED stage
  <2>1. /\ PendingInv' /\ RowsInv'
        /\ \A k \in DOMAIN pending' : pending'[k].state = "failed"
               => k + 1 \in DOMAIN pending /\ pending[k + 1].state = "failed"
    <3>1. DequeMoves /\ RowsMove(file, RowsWith(pending[1].chunk))
      BY <1>1, <1>2, <1>3 DEF DequeMoves, RowsMove, RowsWith, Remaining
    <3> QED BY <1>2, <1>3, <3>1, CollectDone
  <2> QED BY <1>2, <1>3, <2>1
<1>4. CASE /\ pending[1].state = "failed" /\ stage' = "failed"
           /\ tmp' = {} /\ buffered' = <<>> /\ pending' = <<>> /\ UNCHANGED submitted
  <2>1. <<>> \in Seq(Future) /\ Len(<<>>) = 0 /\ DOMAIN <<>> = {} /\ submitted \in Nat
        /\ MaxInFlight \in Nat /\ NumProc \in Nat /\ <<>> \in Seq(Kept) /\ WriterBatch > 0
    BY WorkQueueAssumption DEF PendingInv
  <2>2. Running(<<>>) = {} /\ Cardinality({}) = 0
    BY <2>1, FS_EmptySet DEF Running
  <2>3. PendingInv'
    BY <1>4, <2>1, <2>2 DEF PendingInv, Running
  <2>4. RowsInv'
    BY <1>2, <1>4, <2>1 DEF RowsInv
  <2> QED BY <1>2, <1>4, <2>3, <2>4
<1> QED BY <1>1, <1>2, <1>3, <1>4

-----------------------------------------------------------------------------
(* Every step preserves the invariant.                                     *)

NobodyPreparing == \A p \in Processes : pc[p] # "preparing"
TokenizingFailed == stage = "failed" \/ \E i \in DOMAIN pending : pending[i].state = "failed"

\* Who is inside is there alone, and tokenizes nothing unless it prepares.
LEMMA Alone ==
    ASSUME LockInv, PendingInv, NEW p \in Processes, pc[p] \in Locked
    PROVE  /\ p \in holder /\ \A q \in Processes : pc[q] \in Locked => q = p
           /\ pc[p] # "preparing" => stage = "off" /\ NobodyPreparing /\ ~TokenizingFailed
           /\ pc[p] # "saving" => \A q \in Processes : pc[q] # "saving"
<1>1. p \in holder /\ \A q \in Processes : pc[q] \in Locked => q = p
  BY DEF LockInv
<1>2. pc[p] # "preparing" => NobodyPreparing
  BY <1>1 DEF NobodyPreparing, Locked
<1>3. pc[p] # "saving" => \A q \in Processes : pc[q] # "saving"
  BY <1>1 DEF Locked
<1>4. pc[p] # "preparing" => stage = "off"
  BY <1>2 DEF PendingInv, LockInv, NobodyPreparing
<1>5. stage = "off" => ~TokenizingFailed
  BY DEF PendingInv, TokenizingFailed
<1> QED BY <1>1, <1>2, <1>3, <1>4, <1>5

LEMMA EnterInv == ASSUME IInv, NEW p \in Processes, Enter(p), UNCHANGED queueVars PROVE IInv'
<1>1. LockInv' /\ CountInv'
  BY EnterLock DEF IInv
<1>2. /\ pc[p] = "start" /\ UNCHANGED <<dataset, prepared, stage, pending>>
      /\ faults' = faults \/ faults' = faults + 1
      /\ \/ UNCHANGED raised /\ holder = {} /\ Goto(p, "inside") /\ dirty' = dirty
         \/ raised' = raised \cup {p} /\ dirty' = TRUE /\ holder' = holder /\ Goto(p, "leaving")
  BY DEF Enter, LockIsFree, Fault, queueVars
<1>3. \A q \in Processes : q # p => pc'[q] = pc[q]
  BY <1>2 DEF IInv, LockInv, Goto
<1>4. FaultInv'
  <2>1. /\ faults \in Nat /\ faults' \in Nat /\ prepared \in Nat /\ faults' >= faults
        /\ prepared <= 1 + faults'
    BY <1>2, LoaderAssumption DEF IInv, LockInv, FaultInv
  <2>2. pc'[p] \in {"inside", "leaving"}
    BY <1>2 DEF IInv, LockInv, Goto
  <2>3. dataset' = "partial" => dirty' \/ faults' > 0 \/ \E q \in Processes : pc'[q] = "saving"
    BY <1>2, <1>3, <2>1, <2>2 DEF IInv, FaultInv
  <2>4. raised' # {} => faults' > 0 \/ dirty'
    BY <1>2, <2>1 DEF IInv, FaultInv
  <2>5. dataset' = "none" /\ (\A q \in Processes : pc'[q] # "preparing") => prepared' <= faults'
    BY <1>2, <1>3, <2>1 DEF IInv, FaultInv
  <2>6. stage' = "failed" \/ (\E i \in DOMAIN pending' : pending'[i].state = "failed")
          => faults' > 0 /\ prepared' <= faults'
    BY <1>2, <2>1 DEF IInv, FaultInv
  <2> QED BY <1>2, <2>1, <2>3, <2>4, <2>5, <2>6 DEF IInv, FaultInv
<1>5. PendingInv' /\ RowsInv'
  <2>1. \/ stage = "off"
        \/ \A q \in holder : pc[q] = "preparing" => q \in holder' /\ pc'[q] = "preparing"
    BY <1>2, <1>3 DEF IInv, LockInv, PendingInv
  <2> QED BY <2>1, IdleQueue DEF IInv
<1> QED BY <1>1, <1>4, <1>5 DEF IInv

LEMMA LoadFnInv == ASSUME IInv, NEW p \in Processes, LoadFn(p), UNCHANGED queueVars PROVE IInv'
<1>1. /\ pc[p] = "inside" /\ pc[p] \in Locked
      /\ UNCHANGED <<counter, flag, dataset, dirty, run, stage, pending>>
  BY DEF LoadFn, files, queueVars, Locked
<1>2. /\ stage = "off" /\ NobodyPreparing /\ ~TokenizingFailed
      /\ \A q \in Processes : pc[q] # "saving"
  BY <1>1, Alone DEF IInv
<1>3. /\ dataset \in {"none", "partial", "whole"} /\ prepared \in Nat /\ faults \in Nat
      /\ raised # {} => faults > 0 \/ dirty
      /\ prepared <= 1 + faults
      /\ dataset = "partial" => dirty \/ faults > 0
      /\ dataset = "none" => prepared <= faults
      /\ \A l \in Places : Goto(p, l) => pc'[p] = l
      /\ MaxFaults \in Nat /\ faults \in 0 .. MaxFaults
  BY <1>2, LoaderAssumption DEF IInv, LockInv, FaultInv, NobodyPreparing, Goto
<1>4. ~TokenizingFailed'
  BY <1>1, <1>2 DEF TokenizingFailed
<1>5. CASE dataset = "whole" /\ Goto(p, "returning") /\ UNCHANGED <<holder, raised, prepared, faults>>
  <2>1. LockInv' /\ CountInv'
    BY <1>1, <1>5, InsideLock DEF IInv, LockInv, Locked
  <2>2. FaultInv'
    BY <1>1, <1>3, <1>4, <1>5 DEF FaultInv, TokenizingFailed
  <2> QED BY <1>2, <2>1, <2>2, IdleQueue DEF IInv
<1>6. CASE dataset = "none" /\ Goto(p, "preparing") /\ prepared' = prepared + 1
           /\ UNCHANGED <<holder, raised, faults>>
  <2>1. LockInv' /\ CountInv'
    BY <1>1, <1>6, InsideLock DEF IInv, LockInv, Locked
  <2>2. FaultInv'
    <3>1. pc'[p] = "preparing"
      BY <1>3, <1>6 DEF Places
    <3>2. prepared' \in Nat /\ prepared' <= 1 + faults'
      BY <1>3, <1>6
    <3> QED BY <1>1, <1>3, <1>4, <1>6, <3>1, <3>2 DEF FaultInv, TokenizingFailed
  <2> QED BY <1>2, <2>1, <2>2, IdleQueue DEF IInv
<1>7. CASE /\ IF dataset = "partial" THEN UNCHANGED faults ELSE Fault
           /\ Raise(p) /\ UNCHANGED prepared
  <2>1. /\ Goto(p, "leaving") /\ holder' = holder \ {p} /\ raised' = raised \cup {p}
        /\ faults' \in 0 .. MaxFaults
        /\ (faults' = faults /\ dataset = "partial") \/ faults' = faults + 1
        /\ prepared' = prepared
    BY <1>3, <1>7 DEF Raise, LockAfterError, Fault
  <2>2. LockInv' /\ CountInv'
    BY <1>1, <2>1, InsideLock DEF IInv
  <2>3. FaultInv'
    <3>1. faults' \in Nat /\ faults' >= faults /\ prepared <= 1 + faults'
      <4>1. faults' = faults \/ faults' = faults + 1
        BY <2>1
      <4>2. prepared \in Nat /\ faults \in Nat /\ prepared <= 1 + faults
        BY <1>3
      <4> QED BY <4>1, <4>2
    <3>2. faults' > 0 \/ dirty'
      <4>1. CASE faults' = faults /\ dataset = "partial"
        <5>1. dirty \/ faults > 0
          BY <1>3, <4>1
        <5> QED BY <1>1, <4>1, <5>1
      <4>2. CASE faults' = faults + 1
        BY <1>3, <4>2
      <4> QED BY <2>1, <4>1, <4>2
    <3>3. dataset = "none" => prepared <= faults'
      BY <1>3, <2>1, <3>1
    <3> QED BY <1>1, <1>3, <1>4, <2>1, <3>1, <3>2, <3>3 DEF FaultInv, TokenizingFailed
  <2> QED BY <1>2, <2>2, <2>3, IdleQueue DEF IInv
<1> QED BY <1>5, <1>6, <1>7 DEF LoadFn

LEMMA SaveEndsInv == ASSUME IInv, NEW p \in Processes, SaveEnds(p), UNCHANGED queueVars PROVE IInv'
<1>1. /\ pc[p] = "saving" /\ pc[p] \in Locked /\ UNCHANGED <<stage, pending>>
      /\ UNCHANGED <<counter, flag, prepared, dirty, run>>
  BY DEF SaveEnds, queueVars, Locked
<1>2. stage = "off" /\ NobodyPreparing /\ ~TokenizingFailed
  BY <1>1, Alone DEF IInv
<1>3. /\ dataset \in {"none", "partial", "whole"} /\ prepared \in Nat /\ faults \in Nat
      /\ raised # {} => faults > 0 \/ dirty
      /\ prepared <= 1 + faults /\ MaxFaults \in Nat /\ faults \in 0 .. MaxFaults
  BY LoaderAssumption DEF IInv, LockInv, FaultInv
<1>4. ~TokenizingFailed'
  BY <1>1, <1>2 DEF TokenizingFailed
<1>5. CASE dataset' = "whole" /\ Goto(p, "returning") /\ UNCHANGED <<holder, raised, faults>>
  <2>1. LockInv' /\ CountInv'
    BY <1>1, <1>5, InsideLock DEF IInv, LockInv, Locked
  <2>2. FaultInv'
    BY <1>1, <1>3, <1>4, <1>5 DEF FaultInv, TokenizingFailed
  <2> QED BY <1>2, <2>1, <2>2, IdleQueue DEF IInv
<1>6. CASE Fault /\ Raise(p) /\ UNCHANGED dataset
  <2>1. /\ Goto(p, "leaving") /\ holder' = holder \ {p} /\ raised' = raised \cup {p}
        /\ faults' = faults + 1 /\ faults' \in 0 .. MaxFaults /\ dataset' = dataset
    BY <1>3, <1>6 DEF Raise, LockAfterError, Fault
  <2>2. LockInv' /\ CountInv'
    BY <1>1, <2>1, InsideLock DEF IInv
  <2>3. FaultInv'
    <3>1. faults' > 0 /\ prepared' <= faults' /\ prepared' <= 1 + faults'
      BY <1>1, <1>3, <2>1
    <3> QED BY <1>1, <1>3, <2>1, <3>1 DEF FaultInv
  <2> QED BY <1>2, <2>2, <2>3, IdleQueue DEF IInv
<1> QED BY <1>5, <1>6 DEF SaveEnds

LEMMA ReturnInv == ASSUME IInv, NEW p \in Processes, Return(p), UNCHANGED queueVars PROVE IInv'
<1>1. /\ pc[p] = "returning" /\ pc[p] \in Locked /\ Goto(p, "leaving")
      /\ flag' = TRUE /\ holder' = holder \ {p} /\ UNCHANGED <<stage, pending>>
      /\ UNCHANGED <<counter, dataset, raised, prepared, dirty, run, faults>>
  BY DEF Return, queueVars, Locked
<1>2. /\ stage = "off" /\ NobodyPreparing /\ \A q \in Processes : pc[q] # "saving"
  BY <1>1, Alone DEF IInv
<1>3. LockInv' /\ CountInv'
  BY <1>1, InsideLock DEF IInv, LockInv
<1>4. FaultInv'
  BY <1>1, <1>2 DEF IInv, FaultInv, NobodyPreparing
<1> QED BY <1>2, <1>3, <1>4, IdleQueue DEF IInv

LEMMA CleanupInv == ASSUME IInv, NEW p \in Processes, Cleanup(p), UNCHANGED queueVars PROVE IInv'
<1>1. /\ holder = {} /\ UNCHANGED <<holder, dataset, raised, prepared, dirty, faults>>
      /\ UNCHANGED <<stage, pending>> /\ pc[p] = "leaving" /\ Goto(p, "done")
  BY DEF Cleanup, LockIsFree, queueVars
<1>2. stage = "off" /\ \A q \in Processes : pc[q] \notin Locked
  BY <1>1 DEF IInv, LockInv, PendingInv
<1>3. LockInv' /\ CountInv'
  BY CleanupLock DEF IInv
<1>4. FaultInv'
  BY <1>1, <1>2 DEF IInv, FaultInv, Locked
<1> QED BY <1>2, <1>3, <1>4, IdleQueue DEF IInv

\* The next run, perhaps with another dataset, finds what the files say.
LEMMA RestartInv == ASSUME IInv, Restart, QueueKilled PROVE IInv'
<1>1. LockInv' /\ CountInv'
  BY RestartLock DEF IInv
<1>2. PendingInv' /\ RowsInv' /\ stage' = "off" /\ pending' = <<>>
  BY KilledQueue DEF IInv
<1>3. /\ dataset' \in {dataset, "none"} /\ prepared' = 0 /\ raised' = {} /\ faults' = faults
      /\ dirty' = (dirty \/ \E p \in Processes : pc[p] \notin {"start", "done"})
  BY DEF Restart
<1>4. FaultInv'
  <2>1. faults \in Nat
    BY LoaderAssumption DEF IInv, LockInv
  <2>2. dataset = "partial" => dirty' \/ faults' > 0
    BY <1>3 DEF IInv, FaultInv
  <2>3. ~(stage' = "failed" \/ (\E i \in DOMAIN pending' : pending'[i].state = "failed"))
    BY <1>2
  <2> QED BY <1>3, <2>1, <2>2, <2>3 DEF IInv, FaultInv
<1> QED BY <1>1, <1>2, <1>4 DEF IInv

\* Steps of the queue in which nothing goes wrong leave the rest alone.
LEMMA TokenizeInv == ASSUME IInv, NEW p \in Processes, Tokenize(p) PROVE IInv'
<1>1. /\ UNCHANGED <<pc, holder, counter, flag, dataset, raised, prepared, dirty, run, faults>>
      /\ pc[p] = "preparing" /\ QueueStep
  BY DEF Tokenize, Preparing, vars, files
<1>2. \E q \in holder : pc[q] = "preparing"
  BY <1>1 DEF IInv, LockInv, Locked
<1>3. PendingInv' /\ RowsInv' /\ (TokenizingFailed' => TokenizingFailed)
  <2>1. CASE Begin
    <3>1. /\ PendingInv' /\ RowsInv' /\ stage' # "failed"
          /\ \A k \in DOMAIN pending' : pending'[k].state # "failed"
      BY <1>1, <1>2, <2>1, BeginQueue DEF IInv
    <3> QED BY <3>1 DEF TokenizingFailed
  <2>2. CASE TakeChunk
    <3>1. /\ PendingInv' /\ RowsInv' /\ UNCHANGED stage
          /\ \A k \in DOMAIN pending' : pending'[k].state = "failed"
                 => k \in DOMAIN pending /\ pending[k].state = "failed"
      BY <1>1, <2>2, TakeChunkQueue DEF IInv
    <3> QED BY <3>1 DEF TokenizingFailed
  <2>3. CASE Tokenized
    <3>1. /\ PendingInv' /\ RowsInv' /\ UNCHANGED stage
          /\ \A k \in DOMAIN pending' : pending'[k].state = "failed"
                 => k \in DOMAIN pending /\ pending[k].state = "failed"
      BY <1>1, <2>3, TokenizedQueue DEF IInv
    <3> QED BY <3>1 DEF TokenizingFailed
  <2>4. CASE Collect
    <3>1. /\ PendingInv' /\ RowsInv'
          /\ stage' = "failed" \/ (\E k \in DOMAIN pending' : pending'[k].state = "failed")
                => \E k \in DOMAIN pending : pending[k].state = "failed"
      BY <1>1, <1>2, <2>4, CollectQueue DEF IInv
    <3> QED BY <3>1 DEF TokenizingFailed
  <2>5. CASE Finalize
    BY <1>1, <1>2, <2>5, FinalizeQueue DEF IInv, Finalize, TokenizingFailed
  <2>6. CASE Cache
    BY <1>1, <1>2, <2>6, CacheQueue DEF IInv, Cache, TokenizingFailed
  <2> QED BY <1>1, <2>1, <2>2, <2>3, <2>4, <2>5, <2>6 DEF QueueStep
<1>4. LockInv'
  BY <1>1 DEF IInv, LockInv
<1>5. CountInv'
  BY <1>1 DEF IInv, CountInv, Begun, Counted
<1>6. FaultInv'
  BY <1>1, <1>3 DEF IInv, FaultInv, TokenizingFailed
<1> QED BY <1>3, <1>4, <1>5, <1>6 DEF IInv

LEMMA GoesWrongInv == ASSUME IInv, TokenizingGoesWrong PROVE IInv'
<1>1. /\ UNCHANGED <<pc, holder, counter, flag, dataset, raised, prepared, dirty, run>>
      /\ (TokenizingFails \/ FileFails)
      /\ faults < MaxFaults /\ faults' = faults + 1
  BY DEF TokenizingGoesWrong, Fault, files
<1>2. faults \in Nat /\ faults' \in Nat /\ faults' \in 0 .. MaxFaults /\ prepared \in Nat
      /\ prepared <= 1 + faults /\ faults' > 0 /\ prepared <= faults' /\ prepared <= 1 + faults'
  BY <1>1, LoaderAssumption DEF IInv, LockInv, FaultInv
<1>3. LockInv'
  BY <1>1, <1>2 DEF IInv, LockInv
<1>4. CountInv'
  BY <1>1 DEF IInv, CountInv, Begun, Counted
<1>5. FaultInv'
  BY <1>1, <1>2 DEF IInv, FaultInv
<1>6. PendingInv' /\ RowsInv'
  BY <1>1, TokenizingFailsQueue, FileFailsQueue DEF IInv
<1> QED BY <1>3, <1>4, <1>5, <1>6 DEF IInv

\* The error of the queue was a fault when it came.
LEMMA RaisesInv == ASSUME IInv, NEW p \in Processes, TokenizingRaises(p) PROVE IInv'
<1>1. /\ pc[p] = "preparing" /\ pc[p] \in Locked /\ stage = "failed" /\ QueueLeft
      /\ Goto(p, "leaving") /\ holder' = holder \ {p} /\ raised' = raised \cup {p}
      /\ UNCHANGED <<counter, flag, dataset, prepared, dirty, run, faults>>
  BY DEF TokenizingRaises, Preparing, Raise, LockAfterError, files, Locked
<1>2. faults > 0 /\ prepared <= faults /\ \A q \in Processes : pc[q] # "saving"
  BY <1>1, Alone DEF IInv, FaultInv
<1>3. LockInv' /\ CountInv'
  BY <1>1, InsideLock DEF IInv, LockInv
<1>4. PendingInv' /\ RowsInv' /\ stage' = "off" /\ pending' = <<>>
  BY <1>1, LeftQueue DEF IInv
<1>5. FaultInv'
  BY <1>1, <1>2, <1>4 DEF IInv, FaultInv
<1> QED BY <1>3, <1>4, <1>5 DEF IInv

LEMMA SaveTokenizedInv == ASSUME IInv, NEW p \in Processes, SaveTokenized(p) PROVE IInv'
<1>1. /\ pc[p] = "preparing" /\ pc[p] \in Locked /\ QueueLeft
      /\ UNCHANGED <<counter, flag, prepared, dirty, run>>
      /\ stage \in {"off", "ready"}
  BY DEF SaveTokenized, SaveBegins, Locked
<1>2. PendingInv' /\ RowsInv' /\ stage' = "off" /\ pending' = <<>> /\ ~TokenizingFailed'
  BY <1>1, LeftQueue DEF IInv, TokenizingFailed
<1>3. /\ dataset \in {"none", "partial", "whole"} /\ prepared \in Nat /\ faults \in Nat
      /\ raised # {} => faults > 0 \/ dirty
      /\ prepared <= 1 + faults /\ MaxFaults \in Nat /\ faults \in 0 .. MaxFaults
  BY LoaderAssumption DEF IInv, LockInv, FaultInv
<1>4. CASE dataset' = "partial" /\ Goto(p, "saving") /\ UNCHANGED <<holder, raised, faults>>
  <2>1. LockInv' /\ CountInv'
    BY <1>1, <1>4, InsideLock DEF IInv, LockInv, Locked
  <2>2. pc'[p] = "saving"
    BY <1>4 DEF IInv, LockInv, Goto
  <2>3. FaultInv'
    BY <1>1, <1>2, <1>3, <1>4, <2>2 DEF FaultInv, TokenizingFailed
  <2> QED BY <1>2, <2>1, <2>3 DEF IInv
<1>5. CASE Fault /\ Raise(p) /\ UNCHANGED dataset
  <2>1. /\ Goto(p, "leaving") /\ holder' = holder \ {p} /\ raised' = raised \cup {p}
        /\ faults' = faults + 1 /\ faults' \in 0 .. MaxFaults /\ dataset' = dataset
    BY <1>3, <1>5 DEF Raise, LockAfterError, Fault
  <2>2. LockInv' /\ CountInv'
    BY <1>1, <2>1, InsideLock DEF IInv
  <2>3. FaultInv'
    <3>1. faults' > 0 /\ prepared' <= faults' /\ prepared' <= 1 + faults'
      BY <1>1, <1>3, <2>1
    <3> QED BY <1>1, <1>3, <2>1, <3>1 DEF FaultInv
  <2> QED BY <1>2, <2>2, <2>3 DEF IInv
<1> QED BY <1>4, <1>5 DEF SaveTokenized, SaveBegins

LEMMA StutterInv == ASSUME IInv, UNCHANGED allVars PROVE IInv'
<1>1. /\ UNCHANGED <<pc, holder, counter, flag, dataset, raised, prepared, dirty, run, faults>>
      /\ UNCHANGED queueVars /\ UNCHANGED <<stage, pending>>
  BY DEF allVars, vars, files, queueVars
<1>2. LockInv'
  BY <1>1 DEF IInv, LockInv
<1>3. CountInv'
  BY <1>1 DEF IInv, CountInv, Begun, Counted
<1>4. FaultInv'
  BY <1>1 DEF IInv, FaultInv
<1>5. PendingInv' /\ RowsInv'
  BY <1>1, IdleQueue DEF IInv
<1> QED BY <1>2, <1>3, <1>4, <1>5 DEF IInv

LEMMA NextInv == IInv /\ [PreparationNext]_allVars => IInv'
<1> SUFFICES ASSUME IInv, [PreparationNext]_allVars PROVE IInv'
  OBVIOUS
<1>1. ASSUME NEW p \in Processes, Step(p) PROVE IInv'
  BY <1>1, TokenizeInv, RaisesInv, SaveTokenizedInv, EnterInv, LoadFnInv, SaveEndsInv,
     ReturnInv, CleanupInv DEF Step
<1>2. ASSUME NEW p \in Processes, Poll(p), UNCHANGED queueVars PROVE IInv'
  BY <1>2, StutterInv DEF Poll, allVars
<1>3. CASE Restart /\ QueueKilled
  BY <1>3, RestartInv
<1>4. CASE TokenizingGoesWrong
  BY <1>4, GoesWrongInv
<1>5. CASE UNCHANGED allVars
  BY <1>5, StutterInv
<1> QED BY <1>1, <1>2, <1>3, <1>4, <1>5 DEF PreparationNext

LEMMA InitInv == PreparationInit => IInv
<1> SUFFICES ASSUME PreparationInit PROVE IInv
  OBVIOUS
<1>1. /\ pc = [p \in Processes |-> "start"] /\ holder = {} /\ counter = 0 /\ flag = FALSE
      /\ dataset = "none" /\ raised = {} /\ prepared = 0 /\ dirty = FALSE /\ run = 1
      /\ faults = 0 /\ stage = "off" /\ submitted = 0 /\ pending = <<>> /\ buffered = <<>>
      /\ tmp = {} /\ cache = {}
  BY DEF PreparationInit, Init, QueueInit
<1>2. LockInv
  BY <1>1, LoaderAssumption DEF LockInv, Places, Locked
<1>3. CountInv
  <2>1. Begun = {} /\ Counted = {} /\ Cardinality({}) = 0
    BY <1>1, FS_EmptySet DEF Begun, Counted, Locked
  <2>2. Cardinality(Processes) \in Nat
    BY LoaderAssumption, FS_CardinalityType
  <2>3. (run - 1) * Cardinality(Processes) + Cardinality(Begun) = 0
    BY <1>1, <2>1, <2>2
  <2>4. counter = 0 /\ counter \in Nat
    BY <1>1
  <2>5. counter <= (run - 1) * Cardinality(Processes) + Cardinality(Begun)
    BY <2>3, <2>4
  <2>6. flag \in BOOLEAN /\ dirty \in BOOLEAN /\ ~flag
    BY <1>1
  <2> QED BY <2>1, <2>4, <2>5, <2>6 DEF CountInv
<1>4. FaultInv
  BY <1>1 DEF FaultInv
<1>5. <<>> \in Seq(Future) /\ Len(<<>>) = 0 /\ DOMAIN <<>> = {} /\ <<>> \in Seq(Kept)
      /\ MaxInFlight \in Nat /\ NumProc \in Nat /\ WriterBatch > 0 /\ NumChunks \in Nat
  BY WorkQueueAssumption
<1>6. Running(<<>>) = {} /\ Cardinality({}) = 0
  BY <1>5, FS_EmptySet DEF Running
<1>7. PendingInv
  BY <1>1, <1>5, <1>6 DEF PendingInv, Running
<1>8. RowsInv
  BY <1>1, <1>5 DEF RowsInv
<1> QED BY <1>2, <1>3, <1>4, <1>7, <1>8 DEF IInv

LEMMA SpecInv == PreparationSpec => []IInv
BY InitInv, NextInv, PTL DEF PreparationSpec

-----------------------------------------------------------------------------
(* The theorems.                                                           *)

\* The type invariant: in particular the lock is held by the one process that is inside,
\* the counter file never counts more than the processes of all runs, the deque keeps its
\* bound, and the pool its size.
THEOREM TypeCorrect == PreparationSpec => []PreparationTypeOK
<1>1. IInv => PreparationTypeOK
  <2> SUFFICES ASSUME IInv PROVE PreparationTypeOK
    OBVIOUS
  <2>1. Cardinality(holder) <= 1
    BY AtMostOne DEF IInv, LockInv
  <2>2. counter \in 0 .. MaxRuns * Cardinality(Processes)
    <3> DEFINE C == Cardinality(Processes)
    <3>1. C \in Nat /\ Cardinality(Begun) \in Nat /\ Cardinality(Begun) <= C
      <4>1. IsFiniteSet(Processes) /\ Begun \in SUBSET Processes
        BY LoaderAssumption DEF Begun
      <4>2. IsFiniteSet(Begun) /\ Cardinality(Begun) <= C
        BY <4>1, FS_Subset
      <4> QED BY <4>1, <4>2, FS_CardinalityType
    <3>2. /\ run \in Nat /\ MaxRuns \in Nat /\ run <= MaxRuns /\ run >= 1 /\ counter \in Nat
          /\ counter <= (run - 1) * C + Cardinality(Begun)
      BY LoaderAssumption DEF IInv, LockInv, CountInv
    <3> HIDE DEF C
    <3>3. (run - 1) * C + C = run * C /\ run * C \in Nat /\ (run - 1) * C \in Nat
      BY <3>1, <3>2
    <3>4. run * C + (MaxRuns - run) * C = MaxRuns * C /\ (MaxRuns - run) * C \in Nat
      BY <3>1, <3>2
    <3>5. counter <= MaxRuns * C /\ MaxRuns * C \in Nat
      BY <3>1, <3>2, <3>3, <3>4
    <3> QED BY <3>2, <3>5 DEF C
  <2>3. TypeOK
    BY <2>1, <2>2 DEF IInv, LockInv, CountInv, FaultInv, TypeOK, Places, Locked
  <2>4. Cardinality(tmp) <= 1 /\ Cardinality(cache) <= 1
    BY AtMostOne DEF IInv, RowsInv
  <2>5. QueueTypeOK
    BY <2>4 DEF IInv, PendingInv, RowsInv, QueueTypeOK
  <2> QED BY <2>3, <2>5 DEF IInv, PendingInv, PreparationTypeOK
<1> QED BY <1>1, SpecInv, PTL

\* A load raises only when something failed or an earlier run was killed: under the lock
\* nobody meets a dataset that another process is still writing.
THEOREM RaisesNeedFaults == PreparationSpec => []OnlyFaultsRaise
<1>1. IInv => OnlyFaultsRaise
  BY DEF IInv, FaultInv, OnlyFaultsRaise
<1> QED BY <1>1, SpecInv, PTL

\* The dataset is prepared again only after an attempt that failed.
THEOREM PreparationsAreBounded == PreparationSpec => []PreparedOnce
<1>1. IInv => PreparedOnce
  BY DEF IInv, FaultInv, PreparedOnce
<1> QED BY <1>1, SpecInv, PTL

\* Once every process of a run has left, flag and counter are gone, however their loads and
\* clean-ups interleave and whoever of them fails: when neither this run nor one before it
\* was killed, and no process left without having been counted.
THEOREM TheLastCleans == PreparationSpec => []LastCleans
<1>1. IInv => LastCleans
  <2> SUFFICES ASSUME IInv, AllDone, ~dirty PROVE ~flag /\ counter = 0
    BY DEF LastCleans
  <2>1. Counted = {}
    BY DEF AllDone, Counted, Locked
  <2> QED BY <2>1, FS_EmptySet DEF IInv, CountInv
<1> QED BY <1>1, SpecInv, PTL

\* A cache file holds the rows of every chunk, once and in the order of the dataset,
\* whatever the order the pool finishes in; a temporary file is left only when os.replace
\* fails, and then it has all the rows.
THEOREM CacheIsWhole == PreparationSpec => []TokenizedWhole
<1>1. IInv => TokenizedWhole
  BY DEF IInv, RowsInv, TokenizedWhole
<1> QED BY <1>1, SpecInv, PTL
=============================================================================
