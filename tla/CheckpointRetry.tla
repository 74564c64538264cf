--------------------------- MODULE CheckpointRetry ---------------------------
(***************************************************************************)
(* Retries of checkpoint writes after disk errors                          *)
(* (core/checkpoint_retry.py, core/trainers/mixins/checkpoints.py). While  *)
(* a checkpoint is saved the writers are wrapped: a write that fails with  *)
(* a disk error waits and is repeated. A rank-local writer is repeated by  *)
(* its rank alone; a distributed checkpoint (DCP), whose ranks exchange    *)
(* their errors and all raise the same CheckpointException, by all.        *)
(*                                                                         *)
(* Writes[r] is what rank r writes in a save: "local", "nested" (a writer  *)
(* that calls another wrapped one, as a processor saves its tokenizer) or  *)
(* "collective". The ranks meet in a barrier when the save is over.        *)
(***************************************************************************)
EXTENDS Naturals, Sequences, FiniteSets

CONSTANTS
    Ranks, Writes,
    Retries,                \* checkpoint_save_retries
    MaxSaves, MaxFaults     \* bounds of the model

\* The collective writes among the first n writes of rank r
Collectives(r, n) == {i \in 1 .. n : Writes[r][i] = "collective"}
AllCollectives(r) == Collectives(r, Len(Writes[r]))

ASSUME RetryAssumption ==
    /\ IsFiniteSet(Ranks) /\ Retries \in Nat /\ MaxSaves \in Nat \ {0} /\ MaxFaults \in Nat
    /\ Writes \in [Ranks -> Seq({"local", "nested", "collective"})]
    /\ \A r, s \in Ranks : Cardinality(AllCollectives(r)) = Cardinality(AllCollectives(s))

VARIABLES
    pc,         \* pc[r]: where rank r is
    saves,      \* saves[r]: checkpoints rank r has saved
    at,         \* at[r]: writes of this save it has finished
    scopes,     \* scopes[r]: policies in force, and the depth of its patches
    frames,     \* frames[r]: attempts of the active _retry calls that may retry, outermost first
    tries,      \* history: how often the current write was begun
    failed,     \* failed[r]: how its share of the collective write went: "no", "disk" or "other"
    faults

vars == <<pc, saves, at, scopes, frames, tries, failed, faults>>

\* Both the override of _save_checkpoint and the mixin below it open a scope.
Scopes == 2

TypeOK ==
    /\ pc \in [Ranks -> {"training", "saving", "writing", "exchange", "finishing",
                         "leaving", "barrier", "raising", "raised"}]
    /\ saves \in [Ranks -> 0 .. MaxSaves]
    /\ \A r \in Ranks : at[r] \in 0 .. Len(Writes[r])
    /\ scopes \in [Ranks -> 0 .. Scopes]
    /\ \A r \in Ranks : pc[r] \in {"barrier", "raised"} => scopes[r] = 0
    /\ \A r \in Ranks : pc[r] \in {"saving", "writing", "exchange", "finishing"} => scopes[r] = Scopes
    /\ frames \in [Ranks -> Seq(0 .. Retries)] /\ tries \in [Ranks -> Nat]
    /\ failed \in [Ranks -> {"no", "disk", "other"}] /\ faults \in 0 .. MaxFaults

Init ==
    /\ pc = [r \in Ranks |-> "training"] /\ saves = [r \in Ranks |-> 0]
    /\ at = [r \in Ranks |-> 0] /\ scopes = [r \in Ranks |-> 0]
    /\ frames = [r \in Ranks |-> <<>>] /\ tries = [r \in Ranks |-> 0]
    /\ failed = [r \in Ranks |-> "no"] /\ faults = 0

Goto(r, l) == pc' = [pc EXCEPT ![r] = l]
Fault == faults < MaxFaults /\ faults' = faults + 1

\* retry_disk_writes on entry: a policy is pushed, the first scope wraps the writers.
Enter(r) ==
    /\ pc[r] = "training" /\ saves[r] < MaxSaves
    /\ scopes' = [scopes EXCEPT ![r] = @ + 1]
    /\ IF scopes'[r] = Scopes THEN Goto(r, "saving") ELSE UNCHANGED pc
    /\ UNCHANGED <<saves, at, frames, tries, failed, faults>>

\* ... and on exit, after an error too: the policy is popped. The last scope puts the writers back.
Leave(r) ==
    /\ pc[r] \in {"leaving", "raising"}
    /\ scopes' = [scopes EXCEPT ![r] = @ - 1]
    /\ IF scopes'[r] > 0 THEN UNCHANGED pc
       ELSE Goto(r, IF pc[r] = "leaving" THEN "barrier" ELSE "raised")
    /\ UNCHANGED <<saves, at, frames, tries, failed, faults>>

Kind(r) == Writes[r][at[r] + 1]

EachMayRetry(kind) == IF kind = "nested" THEN <<0, 0>> ELSE <<0>>     \* fault: waits multiply

\* The calls of _retry that may repeat the write: only the outermost one, which has
\* set _local.retrying when the writer it calls enters _retry.
RetryingFrames(kind) == <<0>>

\* _retry calls the writer for the first time.
Call(r) ==
    /\ pc[r] = "saving" /\ at[r] < Len(Writes[r])
    /\ frames' = [frames EXCEPT ![r] = RetryingFrames(Kind(r))]
    /\ tries' = [tries EXCEPT ![r] = 1] /\ failed' = [failed EXCEPT ![r] = "no"]
    /\ Goto(r, "writing")
    /\ UNCHANGED <<saves, at, scopes, faults>>

Written(r) == at' = [at EXCEPT ![r] = @ + 1] /\ Goto(r, "saving")

\* The frames that have retries left; the deepest one takes the error.
Retrying(f) == {k \in DOMAIN f : f[k] < Retries}
Deepest(S) == CHOOSE k \in S : \A j \in S : j <= k

OnceMore(f) == {k \in DOMAIN f : f[k] <= Retries}     \* fault: off by one

\* attempt >= policy.retries ends the retries of a frame.
Willing(f) == Retrying(f)

\* fault: any error of a collective write is retried
AnyDiskError(kind, error, shared) == error = "disk"

\* is_disk_error, and for a collective write a CheckpointException
Retriable(kind, error, shared) == error = "disk" /\ (kind = "collective" => shared)

\* The except clause of _retry: sleep and call the writer again, or raise.
\* The frames below the one that retries are entered anew.
Failing(S, error, shared) ==
    LET again(r) == /\ scopes[r] > 0 /\ Retriable(Kind(r), error, shared)
                    /\ Willing(frames[r]) # {} IN
    /\ pc' = [r \in Ranks |-> IF r \notin S THEN pc[r] ELSE
                              IF again(r) THEN "writing" ELSE "raising"]
    /\ frames' = [r \in Ranks |->
           IF r \notin S \/ ~again(r) THEN frames[r]
           ELSE LET k == Deepest(Willing(frames[r])) IN
                [j \in DOMAIN frames[r] |-> IF j < k THEN frames[r][j] ELSE
                                            IF j = k THEN frames[r][j] + 1 ELSE 0]]
    /\ tries' = [r \in Ranks |-> IF r \in S /\ again(r) THEN tries[r] + 1 ELSE tries[r]]

\* A rank-local write succeeds or fails.
Write(r) ==
    /\ pc[r] = "writing" /\ Kind(r) # "collective"
    /\ \/ Written(r) /\ UNCHANGED <<frames, tries, faults>>
       \/ /\ Fault /\ \E error \in {"disk", "other"} : Failing({r}, error, FALSE)
          /\ UNCHANGED at
    /\ UNCHANGED <<saves, scopes, failed>>

\* A rank's share of a collective write; its error is kept for the exchange.
WriteShare(r) ==
    /\ pc[r] = "writing" /\ Kind(r) = "collective" /\ Goto(r, "exchange")
    /\ \/ failed' = [failed EXCEPT ![r] = "no"] /\ UNCHANGED faults
       \/ Fault /\ \E error \in {"disk", "other"} : failed' = [failed EXCEPT ![r] = error]
    /\ UNCHANGED <<saves, at, scopes, frames, tries>>

\* The collective a rank waits in: which save, and how many collectives came before
Waits(r) ==
    <<saves[r], Cardinality(IF pc[r] = "exchange" THEN Collectives(r, at[r]) ELSE AllCollectives(r))>>

\* All ranks learn of all errors: everyone raises CheckpointException, or no one.
Exchange ==
    /\ \A r \in Ranks : pc[r] = "exchange"
    /\ \A r, s \in Ranks : Waits(r) = Waits(s)
    /\ IF \A r \in Ranks : failed[r] = "no"
       THEN pc' = [r \in Ranks |-> "finishing"] /\ UNCHANGED <<frames, tries>>
       ELSE Failing(Ranks, IF \E r \in Ranks : failed[r] = "disk" THEN "disk" ELSE "other", TRUE)
    /\ UNCHANGED <<saves, at, scopes, failed, faults>>

\* What DCP does on a rank after the exchange raises its own error there.
Finish(r) ==
    /\ pc[r] = "finishing"
    /\ \/ Written(r) /\ UNCHANGED <<frames, tries, faults>>
       \/ /\ Fault /\ \E error \in {"disk", "other"} : Failing({r}, error, FALSE)
          /\ UNCHANGED at
    /\ UNCHANGED <<saves, scopes, failed>>

SaveReturns(r) ==
    /\ pc[r] = "saving" /\ at[r] = Len(Writes[r]) /\ Goto(r, "leaving")
    /\ UNCHANGED <<saves, at, scopes, frames, tries, failed, faults>>

Barrier ==
    /\ \A r \in Ranks : pc[r] = "barrier"
    /\ pc' = [r \in Ranks |-> "training"]
    /\ saves' = [r \in Ranks |-> saves[r] + 1] /\ at' = [r \in Ranks |-> 0]
    /\ UNCHANGED <<scopes, frames, tries, failed, faults>>

\* All is saved, or a rank raised and its launcher ends the others.
Stopped ==
    /\ \/ \E r \in Ranks : pc[r] = "raised"
       \/ \A r \in Ranks : pc[r] = "training" /\ saves[r] = MaxSaves
    /\ UNCHANGED vars

Next ==
    \/ \E r \in Ranks : Enter(r) \/ Leave(r) \/ Call(r) \/ Write(r) \/ WriteShare(r) \/ Finish(r)
                        \/ SaveReturns(r)
    \/ Exchange \/ Barrier \/ Stopped

Spec == Init /\ [][Next]_vars

-----------------------------------------------------------------------------
(* Properties                                                              *)

\* Whatever the nesting of writers and scopes, a write is begun at most once more than
\* the policy allows retries: waits do not multiply.
TriesBounded == \A r \in Ranks : tries[r] <= Retries + 1

\* A rank that retries never skips or reorders a collective: ranks that wait in one, or in
\* the barrier, wait in the same one, and with the same number of attempts.
SameCollective ==
    \A r, s \in {x \in Ranks : pc[x] \in {"exchange", "barrier"}} :
        /\ pc[r] = pc[s] /\ Waits(r) = Waits(s)
        /\ pc[r] = "exchange" => tries[r] = tries[s]
=============================================================================
