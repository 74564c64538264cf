------------------------------ MODULE WorkQueue ------------------------------
(***************************************************************************)
(* tokenize_with_work_queue (utils/data/work_queue.py): a dataset is cut   *)
(* into chunks, the processes of a pool tokenize them as they get free,    *)
(* and the caller writes the results in the order of the chunks to a       *)
(* temporary file, which at the end becomes the cache file.                *)
(*                                                                         *)
(* A chunk stands for its rows; those of Kept have rows left after         *)
(* tokenizing. At least one has, else the code raises ValueError.          *)
(***************************************************************************)
EXTENDS Naturals, Sequences, FiniteSets

CONSTANTS
    NumChunks, Kept,        \* the chunks of the dataset, and those with rows left
    NumProc,                \* processes of the pool
    MaxInFlight,            \* NumProc * MAX_IN_FLIGHT_PER_WORKER
    WriterBatch             \* chunks that fill a batch of the writer

ASSUME WorkQueueAssumption ==
    /\ NumChunks \in Nat \ {0} /\ Kept \subseteq 1 .. NumChunks /\ Kept # {}
    /\ NumProc \in Nat \ {0} /\ MaxInFlight \in Nat \ {0} /\ WriterBatch \in Nat \ {0}

VARIABLES
    stage,      \* "off", "collecting", "written", "ready" or "failed"
    submitted,  \* chunks handed to the pool
    pending,    \* the deque of futures, oldest first
    buffered,   \* chunks not yet written
    tmp,        \* the temporary file: a set, empty or with its content
    cache       \* the cache file, likewise

queueVars == <<stage, submitted, pending, buffered, tmp, cache>>

Future == [chunk : 1 .. NumChunks, state : {"queued", "running", "done", "failed"}]

QueueTypeOK ==
    /\ stage \in {"off", "collecting", "written", "ready", "failed"}
    /\ submitted \in 0 .. NumChunks
    /\ pending \in Seq(Future) /\ Len(pending) <= MaxInFlight
    /\ Cardinality({i \in DOMAIN pending : pending[i].state = "running"}) <= NumProc
    /\ buffered \in Seq(Kept) /\ Len(buffered) < WriterBatch
    /\ \A file \in tmp \cup cache : file \in Seq(Kept)
    /\ Cardinality(tmp) <= 1 /\ Cardinality(cache) <= 1

QueueInit ==
    /\ stage = "off" /\ submitted = 0 /\ pending = <<>> /\ buffered = <<>>
    /\ tmp = {} /\ cache = {}

Submitted(chunk) == [chunk |-> chunk, state |-> "queued"]

\* A cache file is used; else the temporary file is made, and the pool gets its first chunks.
Begin ==
    /\ stage = "off"
    /\ \/ cache # {} /\ stage' = "ready" /\ UNCHANGED <<submitted, pending, tmp>>
       \/ /\ cache = {} /\ stage' = "collecting" /\ tmp' = {<<>>}
          /\ submitted' = IF NumChunks < MaxInFlight THEN NumChunks ELSE MaxInFlight
          /\ pending' = [i \in 1 .. submitted' |-> Submitted(i)]
    /\ UNCHANGED <<buffered, cache>>

Becomes(i, state) ==
    pending' = [pending EXCEPT ![i].state = state]
               /\ UNCHANGED <<stage, submitted, buffered, tmp, cache>>

\* A free process takes the chunk that was submitted first.
TakeChunk ==
    /\ Cardinality({i \in DOMAIN pending : pending[i].state = "running"}) < NumProc
    /\ \E i \in DOMAIN pending :
        /\ pending[i].state = "queued" /\ \A j \in 1 .. i - 1 : pending[j].state # "queued"
        /\ Becomes(i, "running")

\* _tokenize_chunk; processes finish in any order.
Tokenized == \E i \in DOMAIN pending : pending[i].state = "running" /\ Becomes(i, "done")

\* It raises; or its process dies, and with it the pool: no chunk is tokenized any more.
TokenizingFails ==
    /\ \E i \in DOMAIN pending : pending[i].state = "running"
    /\ \/ \E i \in DOMAIN pending : pending[i].state = "running" /\ Becomes(i, "failed")
       \/ /\ pending' = [i \in DOMAIN pending |-> IF pending[i].state = "done" THEN pending[i]
                                                 ELSE [pending[i] EXCEPT !.state = "failed"]]
          /\ UNCHANGED <<stage, submitted, buffered, tmp, cache>>

\* fault: whichever chunk is finished first
AnyFinished == {i \in DOMAIN pending : pending[i].state \in {"done", "failed"}}

\* popleft().result(): the oldest chunk, once it is finished
Collectable == {i \in DOMAIN pending : i = 1 /\ pending[i].state \in {"done", "failed"}}

FlushTo(file, rows) == IF Len(rows) >= WriterBatch THEN {file \o rows} ELSE {file}

\* One round of _iter_results and of the loop over it.
Collect ==
    /\ stage = "collecting"
    /\ \E i \in Collectable, file \in tmp :
        LET chunk == pending[i].chunk
            left == [j \in 1 .. Len(pending) - 1 |-> pending[IF j < i THEN j ELSE j + 1]]
            rows == IF chunk \in Kept THEN Append(buffered, chunk) ELSE buffered IN
        \/ /\ pending[i].state = "done"
           /\ pending' = IF submitted < NumChunks THEN Append(left, Submitted(submitted + 1))
                         ELSE left
           /\ submitted' = IF submitted < NumChunks THEN submitted + 1 ELSE submitted
           /\ tmp' = FlushTo(file, rows)
           /\ buffered' = IF Len(rows) >= WriterBatch THEN <<>> ELSE rows
           /\ UNCHANGED stage
        \/ /\ pending[i].state = "failed" /\ stage' = "failed"
           /\ tmp' = {} /\ buffered' = <<>> /\ pending' = <<>> /\ UNCHANGED submitted
    /\ UNCHANGED cache

\* The last rows are written and the writer is closed.
Finalize ==
    /\ stage = "collecting" /\ pending = <<>> /\ submitted = NumChunks
    /\ stage' = "written" /\ tmp' = {file \o buffered : file \in tmp} /\ buffered' = <<>>
    /\ UNCHANGED <<submitted, pending, cache>>

\* os.replace
Cache ==
    /\ stage = "written" /\ stage' = "ready" /\ cache' = tmp /\ tmp' = {}
    /\ UNCHANGED <<submitted, pending, buffered>>

\* The disk fails. While rows are written the temporary file is removed; os.replace comes
\* after the try, and leaves the file where it is. An error that comes after os.replace,
\* of chmod or in reading the cache file, is the caller's once the queue is "ready".
FileFails ==
    /\ \/ stage = "collecting" /\ tmp' = {}
       \/ stage = "written" /\ UNCHANGED tmp
    /\ stage' = "failed" /\ pending' = <<>> /\ buffered' = <<>> /\ UNCHANGED <<submitted, cache>>

\* The caller has what it wanted, or its exception.
QueueLeft ==
    stage' = "off" /\ submitted' = 0 /\ UNCHANGED <<pending, buffered, tmp, cache>>

\* The process is killed: files stay, another dataset has another cache file. What is
\* left of the temporary file no one looks at again.
QueueKilled ==
    /\ stage' = "off" /\ submitted' = 0 /\ pending' = <<>> /\ buffered' = <<>> /\ tmp' = {}
    /\ cache' \in {cache, {}}

QueueStep == Begin \/ TakeChunk \/ Tokenized \/ Collect \/ Finalize \/ Cache
=============================================================================
