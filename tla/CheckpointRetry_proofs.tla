----------------------- MODULE CheckpointRetry_proofs -----------------------
(***************************************************************************)
(* Proofs about CheckpointRetry, for any number of ranks, any writes of    *)
(* theirs with as many collectives on each, any number of retries and any  *)
(* combination of errors.                                                  *)
(***************************************************************************)
EXTENDS CheckpointRetry, FiniteSetTheorems, TLAPS

Raising(r) == pc[r] \in {"raising", "raised"}

\* r is busy with a collective write whose exchange is still to come.
AtCollective(r) ==
    pc[r] \in {"writing", "exchange"} /\ at[r] < Len(Writes[r]) /\ Kind(r) = "collective"

\* The exchanges of this save that r saw succeed
Passed(r) == Cardinality(Collectives(r, at[r])) + (IF pc[r] = "finishing" THEN 1 ELSE 0)

\* A save begins and ends with its scopes, and all ranks are in the same save.
ScopeInv ==
    /\ \A r \in Ranks :
        /\ pc[r] = "training" => scopes[r] < Scopes
        /\ pc[r] \in {"leaving", "raising"} => scopes[r] > 0
        /\ pc[r] # "training" \/ scopes[r] > 0 => saves[r] < MaxSaves
    /\ \A r, s \in Ranks : saves[r] = saves[s]

\* Where a rank is tells which of its writes it is at.
WriteInv ==
    /\ at \in [Ranks -> Nat]
    /\ \A r \in Ranks :
        /\ pc[r] \in {"writing", "exchange", "finishing"} => at[r] < Len(Writes[r])
        /\ pc[r] \in {"exchange", "finishing"} => Kind(r) = "collective"
        /\ pc[r] \in {"leaving", "barrier"} => at[r] = Len(Writes[r])

\* One call of _retry counts the attempts, whatever the nesting of the writers.
AttemptInv ==
    \A r \in Ranks :
        \/ frames[r] = <<>> /\ tries[r] = 0 /\ pc[r] \notin {"writing", "exchange", "finishing"}
        \/ Len(frames[r]) = 1 /\ tries[r] = frames[r][1] + 1

\* All ranks that raise nothing saw the same exchanges succeed; and a rank that writes a
\* collective again does so with all of them.
RoundInv ==
    /\ \A r, s \in Ranks : ~Raising(r) /\ ~Raising(s) => Passed(r) = Passed(s)
    /\ \A r, s \in Ranks :
        AtCollective(r) /\ tries[r] > 1 /\ ~Raising(s) => AtCollective(s) /\ tries[s] = tries[r]

IInv == TypeOK /\ ScopeInv /\ WriteInv /\ AttemptInv /\ RoundInv

-----------------------------------------------------------------------------
(* Lemmas about the operators.                                             *)

\* There are as many attempts as the one call of _retry counts.
LEMMA Attempts ==
    ASSUME IInv, NEW r \in Ranks
    PROVE  /\ tries[r] \in Nat /\ tries[r] <= Retries + 1
           /\ pc[r] \in {"writing", "exchange", "finishing"} => tries[r] >= 1
<1>1. frames[r] \in Seq(0 .. Retries) /\ Retries \in Nat /\ tries[r] \in Nat
  BY RetryAssumption DEF IInv, TypeOK
<1>2. CASE tries[r] = 0 /\ pc[r] \notin {"writing", "exchange", "finishing"}
  BY <1>1, <1>2
<1>3. CASE Len(frames[r]) = 1 /\ tries[r] = frames[r][1] + 1
  <2>1. frames[r][1] \in 0 .. Retries
    BY <1>1, <1>3
  <2> QED BY <1>1, <1>3, <2>1
<1> QED BY <1>2, <1>3 DEF IInv, AttemptInv

\* Collectives are counted one by one as the writes go on.
LEMMA CountNext ==
    ASSUME NEW r \in Ranks, NEW n \in Nat
    PROVE  /\ IsFiniteSet(Collectives(r, n)) /\ Cardinality(Collectives(r, n)) \in Nat
           /\ Collectives(r, 0) = {}
           /\ Cardinality(Collectives(r, n + 1))
                = IF Writes[r][n + 1] = "collective" THEN Cardinality(Collectives(r, n)) + 1
                  ELSE Cardinality(Collectives(r, n))
<1>1. IsFiniteSet(1 .. n) /\ Collectives(r, n) \in SUBSET (1 .. n)
  BY FS_Interval DEF Collectives
<1>2. IsFiniteSet(Collectives(r, n)) /\ Cardinality(Collectives(r, n)) \in Nat
  BY <1>1, FS_Subset, FS_CardinalityType
<1>3. Collectives(r, 0) = {}
  BY DEF Collectives
<1>4. CASE Writes[r][n + 1] = "collective"
  <2>1. Collectives(r, n + 1) = Collectives(r, n) \cup {n + 1}
    BY <1>4 DEF Collectives
  <2>2. n + 1 \notin Collectives(r, n)
    BY DEF Collectives
  <2> QED BY <1>2, <1>3, <1>4, <2>1, <2>2, FS_AddElement
<1>5. CASE Writes[r][n + 1] # "collective"
  <2>1. Collectives(r, n + 1) = Collectives(r, n)
    BY <1>5 DEF Collectives
  <2> QED BY <1>2, <1>3, <1>5, <2>1
<1> QED BY <1>4, <1>5

\* The except clause of _retry: one more attempt if the only frame has one left, or the error.
LEMMA FailingOutcome ==
    ASSUME IInv, NEW S \in SUBSET Ranks, NEW error, NEW shared \in BOOLEAN,
           \A r \in S : pc[r] \in {"writing", "exchange", "finishing"},
           Failing(S, error, shared)
    PROVE  /\ pc' \in [Ranks -> {"training", "saving", "writing", "exchange", "finishing",
                                 "leaving", "barrier", "raising", "raised"}]
           /\ frames' \in [Ranks -> Seq(0 .. Retries)] /\ tries' \in [Ranks -> Nat]
           /\ \A r \in Ranks \ S :
                pc'[r] = pc[r] /\ frames'[r] = frames[r] /\ tries'[r] = tries[r]
           /\ \A r \in S :
                \/ pc'[r] = "raising" /\ frames'[r] = frames[r] /\ tries'[r] = tries[r]
                \/ /\ pc'[r] = "writing" /\ (Kind(r) = "collective" => shared)
                   /\ Len(frames'[r]) = 1 /\ frames'[r][1] = frames[r][1] + 1
                   /\ tries'[r] = tries[r] + 1
<1> DEFINE again(r) == /\ scopes[r] > 0 /\ Retriable(Kind(r), error, shared)
                       /\ Willing(frames[r]) # {}
           retried(r) == LET k == Deepest(Willing(frames[r])) IN
                [j \in DOMAIN frames[r] |-> IF j < k THEN frames[r][j] ELSE
                                            IF j = k THEN frames[r][j] + 1 ELSE 0]
<1>1. /\ pc' = [r \in Ranks |-> IF r \notin S THEN pc[r] ELSE
                                IF again(r) THEN "writing" ELSE "raising"]
      /\ frames' = [r \in Ranks |-> IF r \notin S \/ ~again(r) THEN frames[r] ELSE retried(r)]
      /\ tries' = [r \in Ranks |-> IF r \in S /\ again(r) THEN tries[r] + 1 ELSE tries[r]]
  BY DEF Failing
<1>2. /\ frames \in [Ranks -> Seq(0 .. Retries)] /\ tries \in [Ranks -> Nat] /\ Retries \in Nat
      /\ pc \in [Ranks -> {"training", "saving", "writing", "exchange", "finishing",
                           "leaving", "barrier", "raising", "raised"}]
  BY RetryAssumption DEF IInv, TypeOK
<1>3. ASSUME NEW r \in S, again(r)
      PROVE  /\ retried(r) \in Seq(0 .. Retries) /\ Len(retried(r)) = 1
             /\ retried(r)[1] = frames[r][1] + 1
  <2>1. frames[r] \in Seq(0 .. Retries) /\ Len(frames[r]) = 1 /\ DOMAIN frames[r] = {1}
    <3>1. Len(frames[r]) = 1
      BY DEF IInv, AttemptInv
    <3> QED BY <1>2, <3>1
  <2>2. Willing(frames[r]) = {1} /\ frames[r][1] < Retries
    BY <1>3, <2>1 DEF Willing, Retrying
  <2>3. Deepest(Willing(frames[r])) = 1
    BY <2>2 DEF Deepest
  <2>4. retried(r) = [j \in {1} |-> frames[r][1] + 1]
    BY <2>1, <2>3
  <2>5. frames[r][1] + 1 \in 0 .. Retries
    BY <1>2, <2>1, <2>2
  <2>6. retried(r) = <<frames[r][1] + 1>>
    BY <2>4
  <2> HIDE DEF retried
  <2> QED BY <2>5, <2>6
<1>4. \A r \in S : again(r) /\ Kind(r) = "collective" => shared
  BY DEF Retriable
<1> HIDE DEF again, retried
<1>5. frames' \in [Ranks -> Seq(0 .. Retries)]
  BY <1>1, <1>2, <1>3
<1>6. tries' \in [Ranks -> Nat]
  BY <1>1, <1>2
<1> QED BY <1>1, <1>2, <1>3, <1>4, <1>5, <1>6

-----------------------------------------------------------------------------
(* The invariant holds initially, and every step preserves it.             *)

LEMMA InitInv == Init => IInv
<1> SUFFICES ASSUME Init PROVE IInv
  OBVIOUS
<1>1. TypeOK
  BY RetryAssumption DEF Init, TypeOK, Scopes
<1>2. ScopeInv /\ WriteInv /\ AttemptInv
  BY RetryAssumption DEF Init, ScopeInv, WriteInv, AttemptInv, Scopes
<1>3. RoundInv
  <2>1. \A r \in Ranks : Passed(r) = Cardinality({})
    BY CountNext, FS_EmptySet DEF Init, Passed
  <2> QED BY <2>1 DEF Init, RoundInv, AtCollective
<1> QED BY <1>1, <1>2, <1>3 DEF IInv

LEMMA EnterInv == ASSUME IInv, NEW r \in Ranks, Enter(r) PROVE IInv'
<1>a. /\ scopes[r] + 1 \in 1 .. Scopes /\ scopes' \in [Ranks -> 0 .. Scopes]
      /\ \A s \in Ranks : scopes'[s] = IF s = r THEN scopes[r] + 1 ELSE scopes[s]
      /\ pc' = IF scopes[r] + 1 = Scopes THEN [pc EXCEPT ![r] = "saving"] ELSE pc
  <2>1. scopes[r] \in 0 .. Scopes /\ scopes[r] < Scopes
    BY DEF IInv, TypeOK, ScopeInv, Enter
  <2>2. scopes' = [scopes EXCEPT ![r] = scopes[r] + 1] /\ scopes'[r] = scopes[r] + 1
    BY DEF IInv, TypeOK, Enter
  <2>3. pc' = IF scopes'[r] = Scopes THEN [pc EXCEPT ![r] = "saving"] ELSE pc
    BY DEF Enter, Goto
  <2> QED BY <2>1, <2>2, <2>3 DEF IInv, TypeOK, Scopes
<1>1. TypeOK'
  BY <1>a, RetryAssumption DEF IInv, TypeOK, ScopeInv, WriteInv, Enter, Goto, Scopes
<1>2. ScopeInv'
  BY <1>a, RetryAssumption DEF IInv, TypeOK, ScopeInv, Enter, Goto, Scopes
<1>3. WriteInv'
  BY RetryAssumption DEF IInv, TypeOK, WriteInv, Enter, Goto, Kind, Scopes
<1>4. AttemptInv'
  BY DEF IInv, TypeOK, AttemptInv, Enter, Goto, Scopes
<1>5. \A s \in Ranks : Passed(s)' = Passed(s) /\ Raising(s)' = Raising(s)
  BY DEF IInv, TypeOK, Enter, Goto, Passed, Raising, Scopes
<1>6. \A s \in Ranks : AtCollective(s)' = AtCollective(s) /\ tries'[s] = tries[s]
  BY DEF IInv, TypeOK, Enter, Goto, AtCollective, Kind, Scopes
<1>7. RoundInv'
  BY <1>5, <1>6 DEF IInv, RoundInv
<1> QED BY <1>1, <1>2, <1>3, <1>4, <1>7 DEF IInv

LEMMA LeaveInv == ASSUME IInv, NEW r \in Ranks, Leave(r) PROVE IInv'
<1>a. /\ scopes[r] \in 1 .. Scopes /\ scopes' \in [Ranks -> 0 .. Scopes]
      /\ \A s \in Ranks : scopes'[s] = IF s = r THEN scopes[r] - 1 ELSE scopes[s]
      /\ \A s \in Ranks :
            pc'[s] = IF s # r \/ scopes[r] - 1 > 0 THEN pc[s] ELSE
                     IF pc[r] = "leaving" THEN "barrier" ELSE "raised"
  BY DEF IInv, TypeOK, ScopeInv, Leave, Goto, Scopes
<1>1. TypeOK'
  BY <1>a, RetryAssumption DEF IInv, TypeOK, ScopeInv, WriteInv, Leave, Goto, Scopes
<1>2. ScopeInv'
  BY <1>a, RetryAssumption DEF IInv, TypeOK, ScopeInv, Leave, Goto, Scopes
<1>3. WriteInv'
  BY RetryAssumption DEF IInv, TypeOK, WriteInv, Leave, Goto, Kind, Scopes
<1>4. AttemptInv'
  BY DEF IInv, TypeOK, AttemptInv, Leave, Goto, Scopes
<1>5. \A s \in Ranks : Passed(s)' = Passed(s) /\ Raising(s)' = Raising(s)
  BY DEF IInv, TypeOK, Leave, Goto, Passed, Raising, Scopes
<1>6. \A s \in Ranks : AtCollective(s)' = AtCollective(s) /\ tries'[s] = tries[s]
  BY DEF IInv, TypeOK, Leave, Goto, AtCollective, Kind, Scopes
<1>7. RoundInv'
  BY <1>5, <1>6 DEF IInv, RoundInv
<1> QED BY <1>1, <1>2, <1>3, <1>4, <1>7 DEF IInv

LEMMA SaveReturnsInv == ASSUME IInv, NEW r \in Ranks, SaveReturns(r) PROVE IInv'
<1>1. TypeOK'
  BY RetryAssumption DEF IInv, TypeOK, ScopeInv, WriteInv, SaveReturns, Goto
<1>2. ScopeInv'
  BY DEF IInv, TypeOK, ScopeInv, SaveReturns, Goto, Scopes
<1>3. WriteInv'
  BY RetryAssumption DEF IInv, TypeOK, WriteInv, SaveReturns, Goto, Kind
<1>4. AttemptInv'
  BY DEF IInv, TypeOK, AttemptInv, SaveReturns, Goto
<1>5. \A s \in Ranks : Passed(s)' = Passed(s) /\ Raising(s)' = Raising(s)
  BY DEF IInv, TypeOK, SaveReturns, Goto, Passed, Raising
<1>6. \A s \in Ranks : AtCollective(s)' = AtCollective(s) /\ tries'[s] = tries[s]
  BY DEF IInv, TypeOK, SaveReturns, Goto, AtCollective, Kind
<1>7. RoundInv'
  BY <1>5, <1>6 DEF IInv, RoundInv
<1> QED BY <1>1, <1>2, <1>3, <1>4, <1>7 DEF IInv

LEMMA WriteShareInv == ASSUME IInv, NEW r \in Ranks, WriteShare(r) PROVE IInv'
<1>1. TypeOK'
  <2>1. faults' \in 0 .. MaxFaults
    BY RetryAssumption DEF IInv, TypeOK, WriteShare, Fault
  <2>2. failed' \in [Ranks -> {"no", "disk", "other"}]
    BY DEF IInv, TypeOK, WriteShare
  <2>3. pc[r] = "writing" /\ pc' = [pc EXCEPT ![r] = "exchange"]
        /\ UNCHANGED <<saves, at, scopes, frames, tries>>
    BY DEF WriteShare, Goto
  <2> QED BY <2>1, <2>2, <2>3 DEF IInv, TypeOK
<1>2. ScopeInv'
  <2>1. saves' = saves /\ scopes' = scopes /\ pc' = [pc EXCEPT ![r] = "exchange"]
        /\ pc[r] = "writing"
    BY DEF WriteShare, Goto
  <2> QED BY <2>1 DEF IInv, TypeOK, ScopeInv
<1>3. WriteInv'
  BY RetryAssumption DEF IInv, TypeOK, WriteInv, WriteShare, Goto, Kind, Fault
<1>4. AttemptInv'
  BY DEF IInv, TypeOK, AttemptInv, WriteShare, Goto, Fault
<1>5. \A s \in Ranks : Passed(s)' = Passed(s) /\ Raising(s)' = Raising(s)
  BY DEF IInv, TypeOK, WriteShare, Goto, Passed, Raising, Fault
<1>6. \A s \in Ranks : AtCollective(s)' = AtCollective(s) /\ tries'[s] = tries[s]
  BY DEF IInv, TypeOK, WriteShare, Goto, AtCollective, Kind, Fault
<1>7. RoundInv'
  BY <1>5, <1>6 DEF IInv, RoundInv
<1> QED BY <1>1, <1>2, <1>3, <1>4, <1>7 DEF IInv

LEMMA CallInv == ASSUME IInv, NEW r \in Ranks, Call(r) PROVE IInv'
<1>1. /\ pc[r] = "saving" /\ at[r] < Len(Writes[r]) /\ pc' = [pc EXCEPT ![r] = "writing"]
      /\ frames' = [frames EXCEPT ![r] = <<0>>] /\ tries' = [tries EXCEPT ![r] = 1]
      /\ failed' = [failed EXCEPT ![r] = "no"] /\ UNCHANGED <<saves, at, scopes, faults>>
  BY DEF Call, RetryingFrames, Goto
<1>2. TypeOK'
  <2>1. <<0>> \in Seq(0 .. Retries) /\ 1 \in Nat
    BY RetryAssumption
  <2> QED BY <1>1, <2>1 DEF IInv, TypeOK
<1>3. ScopeInv'
  BY <1>1 DEF IInv, TypeOK, ScopeInv, Scopes
<1>4. WriteInv'
  BY <1>1, RetryAssumption DEF IInv, TypeOK, WriteInv, Kind
<1>5. AttemptInv'
  BY <1>1 DEF IInv, TypeOK, AttemptInv
<1>6. \A s \in Ranks : Passed(s)' = Passed(s) /\ Raising(s)' = Raising(s)
  BY <1>1 DEF IInv, TypeOK, Passed, Raising
<1>7. \A s \in Ranks : s # r => AtCollective(s)' = AtCollective(s) /\ tries'[s] = tries[s]
  BY <1>1 DEF IInv, TypeOK, AtCollective, Kind
\* r begins its write: no rank repeats a collective meanwhile.
<1>8. tries'[r] = 1 /\ ~Raising(r) /\ ~AtCollective(r)
  BY <1>1 DEF IInv, TypeOK, Raising, AtCollective
<1>9. RoundInv'
  <2>1. tries \in [Ranks -> Nat]
    BY DEF IInv, TypeOK
  <2> QED BY <1>6, <1>7, <1>8, <2>1 DEF IInv, RoundInv
<1> QED BY <1>2, <1>3, <1>4, <1>5, <1>9 DEF IInv

\* r alone ends a write, or begins it anew if it is rank-local, or raises.  In none of
\* the cases is it at a collective before or after.
LEMMA AloneInv ==
    ASSUME IInv, NEW r \in Ranks, faults' \in 0 .. MaxFaults, UNCHANGED <<saves, scopes, failed>>,
           \/ pc[r] = "writing" /\ Kind(r) # "collective"
           \/ pc[r] = "finishing",
           \/ Written(r) /\ UNCHANGED <<frames, tries>>
           \/ \E error \in {"disk", "other"} : Failing({r}, error, FALSE) /\ UNCHANGED at
    PROVE  IInv'
<1>0. r \in Ranks /\ scopes[r] = Scopes /\ at[r] \in Nat /\ at[r] < Len(Writes[r])
      /\ pc[r] \in {"writing", "finishing"} /\ Len(Writes[r]) \in Nat
  BY RetryAssumption DEF IInv, TypeOK, WriteInv
<1>1. CASE Written(r) /\ UNCHANGED <<frames, tries>>
  <2>1. /\ at' = [at EXCEPT ![r] = at[r] + 1] /\ pc' = [pc EXCEPT ![r] = "saving"]
        /\ UNCHANGED <<saves, scopes, frames, tries, failed>>
    BY <1>1 DEF Written, Goto
  <2>2. /\ \A s \in Ranks : s # r => at'[s] = at[s] /\ pc'[s] = pc[s]
        /\ at'[r] = at[r] + 1 /\ pc'[r] = "saving" /\ at' \in [Ranks -> Nat]
    BY <1>0, <2>1 DEF IInv, TypeOK, WriteInv
  <2>3. TypeOK'
    BY <1>0, <2>1, <2>2 DEF IInv, TypeOK
  <2>4. ScopeInv'
    BY <1>0, <2>1, <2>2 DEF IInv, TypeOK, ScopeInv, Scopes
  <2>5. WriteInv'
    BY <2>1, <2>2, RetryAssumption DEF IInv, TypeOK, WriteInv, Kind
  <2>6. AttemptInv'
    BY <2>1, <2>2 DEF IInv, AttemptInv
  <2>7. \A s \in Ranks : s # r => Passed(s)' = Passed(s) /\ Raising(s)' = Raising(s)
                                  /\ AtCollective(s)' = AtCollective(s)
    BY <2>2 DEF Passed, Raising, AtCollective, Kind
  <2>8. Passed(r)' = Passed(r) /\ ~Raising(r) /\ ~AtCollective(r)
    <3>1. Cardinality(Collectives(r, at[r])) \in Nat
      BY <1>0, CountNext
    <3>2. Cardinality(Collectives(r, at'[r]))
            = IF Kind(r) = "collective" THEN Cardinality(Collectives(r, at[r])) + 1
              ELSE Cardinality(Collectives(r, at[r]))
      BY <1>0, <2>2, CountNext DEF Kind
    <3>3. pc[r] = "finishing" <=> Kind(r) = "collective"
      BY DEF IInv, WriteInv
    <3> QED BY <1>0, <2>2, <3>1, <3>2, <3>3 DEF Passed, Raising, AtCollective
  <2>9. tries' = tries /\ ~AtCollective(r)'
    BY <2>1, <2>2 DEF AtCollective
  <2>10. RoundInv'
    BY <2>7, <2>8, <2>9 DEF IInv, RoundInv
  <2> QED BY <2>3, <2>4, <2>5, <2>6, <2>10 DEF IInv
<1>2. CASE \E error \in {"disk", "other"} : Failing({r}, error, FALSE) /\ UNCHANGED at
  <2>1. PICK error \in {"disk", "other"} : Failing({r}, error, FALSE) /\ UNCHANGED at
    BY <1>2
  <2>2. /\ pc' \in [Ranks -> {"training", "saving", "writing", "exchange", "finishing",
                             "leaving", "barrier", "raising", "raised"}]
        /\ frames' \in [Ranks -> Seq(0 .. Retries)] /\ tries' \in [Ranks -> Nat]
        /\ \A s \in Ranks \ {r} :
             pc'[s] = pc[s] /\ frames'[s] = frames[s] /\ tries'[s] = tries[s]
        /\ \A s \in {r} :
             \/ pc'[s] = "raising" /\ frames'[s] = frames[s] /\ tries'[s] = tries[s]
             \/ /\ pc'[s] = "writing" /\ Kind(s) # "collective"
                /\ Len(frames'[s]) = 1 /\ frames'[s][1] = frames[s][1] + 1
                /\ tries'[s] = tries[s] + 1
    <3>1. {r} \in SUBSET Ranks /\ \A s \in {r} : pc[s] \in {"writing", "exchange", "finishing"}
      BY <1>0
    <3> QED BY <2>1, <3>1, FailingOutcome
  <2>3. pc'[r] = "raising" \/ (pc'[r] = "writing" /\ Kind(r) # "collective")
    BY <2>2
  <2>4. at' = at /\ UNCHANGED <<saves, scopes, failed>>
    BY <2>1
  <2>5. TypeOK'
    BY <1>0, <2>2, <2>3, <2>4 DEF IInv, TypeOK
  <2>6. ScopeInv'
    BY <1>0, <2>2, <2>3, <2>4 DEF IInv, TypeOK, ScopeInv, Scopes
  <2>7. WriteInv'
    BY <1>0, <2>2, <2>3, <2>4 DEF IInv, TypeOK, WriteInv, Kind
  <2>8. AttemptInv'
    <3>1. \A s \in Ranks : s # r => pc'[s] = pc[s] /\ frames'[s] = frames[s]
                                    /\ tries'[s] = tries[s]
      BY <2>2
    <3>2. \/ frames'[r] = frames[r] /\ tries'[r] = tries[r]
          \/ Len(frames'[r]) = 1 /\ tries'[r] = frames'[r][1] + 1
      BY <1>0, <2>2 DEF IInv, AttemptInv
    <3>3. Len(frames[r]) = 1 /\ tries[r] = frames[r][1] + 1
      BY <1>0 DEF IInv, AttemptInv
    <3> QED BY <3>1, <3>2, <3>3 DEF IInv, AttemptInv
  <2>9. \A s \in Ranks : s # r => Passed(s)' = Passed(s) /\ Raising(s)' = Raising(s)
                                  /\ AtCollective(s)' = AtCollective(s) /\ tries'[s] = tries[s]
    BY <2>2, <2>4 DEF Passed, Raising, AtCollective, Kind
  <2>10. ~Raising(r)' => Passed(r)' = Passed(r)
    <3>1. Cardinality(Collectives(r, at[r])) \in Nat
      BY <1>0, CountNext
    <3>2. pc[r] = "finishing" => Kind(r) = "collective"
      BY DEF IInv, WriteInv
    <3> QED BY <1>0, <2>3, <2>4, <3>1, <3>2 DEF Passed, Raising
  <2>11. ~Raising(r) /\ ~AtCollective(r) /\ ~AtCollective(r)'
    BY <1>0, <2>3, <2>4 DEF Raising, AtCollective, Kind
  <2>12. RoundInv'
    BY <2>9, <2>10, <2>11 DEF IInv, RoundInv
  <2> QED BY <2>5, <2>6, <2>7, <2>8, <2>12 DEF IInv
<1> QED BY <1>1, <1>2

LEMMA LocalWriteInv == ASSUME IInv, NEW r \in Ranks, Write(r) PROVE IInv'
<1>1. faults' \in 0 .. MaxFaults
  <2>1. UNCHANGED faults \/ (faults < MaxFaults /\ faults' = faults + 1)
    BY DEF Write, Fault
  <2>2. faults \in 0 .. MaxFaults /\ MaxFaults \in Nat
    BY RetryAssumption DEF IInv, TypeOK
  <2> QED BY <2>1, <2>2
<1> QED BY <1>1, AloneInv DEF Write

LEMMA FinishInv == ASSUME IInv, NEW r \in Ranks, Finish(r) PROVE IInv'
<1>1. faults' \in 0 .. MaxFaults
  <2>1. UNCHANGED faults \/ (faults < MaxFaults /\ faults' = faults + 1)
    BY DEF Finish, Fault
  <2>2. faults \in 0 .. MaxFaults /\ MaxFaults \in Nat
    BY RetryAssumption DEF IInv, TypeOK
  <2> QED BY <2>1, <2>2
<1> QED BY <1>1, AloneInv DEF Finish

\* The exchange takes all ranks on, or lets them all fail with the same number of attempts.
LEMMA ExchangeInv == ASSUME IInv, Exchange PROVE IInv'
<1>0. /\ \A r \in Ranks : pc[r] = "exchange" /\ Kind(r) = "collective" /\ scopes[r] = Scopes
      /\ UNCHANGED <<saves, at, scopes, failed, faults>>
  BY DEF IInv, TypeOK, WriteInv, Exchange
<1>1. \A r \in Ranks : AtCollective(r) /\ ~Raising(r)
  BY <1>0 DEF IInv, WriteInv, AtCollective, Raising
<1>2. \A r \in Ranks : Passed(r) = Cardinality(Collectives(r, at[r])) /\ Passed(r) \in Nat
  <2> SUFFICES ASSUME NEW r \in Ranks
               PROVE  /\ Passed(r) = Cardinality(Collectives(r, at[r])) /\ Passed(r) \in Nat
    OBVIOUS
  <2>1. at[r] \in Nat
    BY DEF IInv, WriteInv
  <2>2. Cardinality(Collectives(r, at[r])) \in Nat
    BY <2>1, CountNext
  <2> QED BY <1>0, <2>2 DEF Passed
<1>3. CASE pc' = [r \in Ranks |-> "finishing"] /\ UNCHANGED <<frames, tries>>
  <2>1. TypeOK' /\ ScopeInv' /\ WriteInv'
    BY <1>0, <1>3 DEF IInv, TypeOK, ScopeInv, WriteInv, Kind
  <2>2. AttemptInv'
    BY <1>0, <1>3 DEF IInv, AttemptInv
  <2>3. \A r \in Ranks : Passed(r)' = Passed(r) + 1 /\ ~AtCollective(r)'
    BY <1>0, <1>2, <1>3 DEF Passed, AtCollective
  <2>4. RoundInv'
    BY <1>1, <2>3 DEF IInv, RoundInv
  <2> QED BY <2>1, <2>2, <2>4 DEF IInv
<1>4. CASE \E error \in {"disk", "other"} : Failing(Ranks, error, TRUE)
  <2>1. PICK error \in {"disk", "other"} : Failing(Ranks, error, TRUE)
    BY <1>4
  <2>2. /\ pc' \in [Ranks -> {"training", "saving", "writing", "exchange", "finishing",
                             "leaving", "barrier", "raising", "raised"}]
        /\ frames' \in [Ranks -> Seq(0 .. Retries)] /\ tries' \in [Ranks -> Nat]
        /\ \A r \in Ranks :
             \/ pc'[r] = "raising" /\ frames'[r] = frames[r] /\ tries'[r] = tries[r]
             \/ /\ pc'[r] = "writing"
                /\ Len(frames'[r]) = 1 /\ frames'[r][1] = frames[r][1] + 1
                /\ tries'[r] = tries[r] + 1
    BY <1>0, <2>1, FailingOutcome
  <2>3. TypeOK' /\ ScopeInv' /\ WriteInv'
    <3>1. \A r \in Ranks : pc'[r] \in {"writing", "raising"}
      BY <2>2
    <3>2. TypeOK'
      BY <1>0, <2>2, <3>1 DEF IInv, TypeOK
    <3>3. ScopeInv'
      BY <1>0, <3>1 DEF IInv, TypeOK, ScopeInv, Scopes
    <3>4. WriteInv'
      BY <1>0, <3>1 DEF IInv, WriteInv, Kind
    <3> QED BY <3>2, <3>3, <3>4
  <2>4. AttemptInv'
    <3>1. \A r \in Ranks : Len(frames[r]) = 1 /\ tries[r] = frames[r][1] + 1
      BY <1>0 DEF IInv, AttemptInv
    <3> QED BY <2>2, <3>1 DEF AttemptInv
  <2>5. \A r, s \in Ranks : tries[r] = tries[s]
    <3>1. \A r \in Ranks : tries[r] \in Nat /\ tries[r] >= 1
      BY <1>0, Attempts
    <3> QED BY <1>1, <3>1 DEF IInv, RoundInv
  <2>6. \A r \in Ranks : ~Raising(r)' => /\ Passed(r)' = Passed(r) /\ AtCollective(r)'
                                         /\ tries'[r] = tries[r] + 1
    BY <1>0, <1>1, <2>2 DEF Passed, AtCollective, Raising, Kind
  <2>7. \A r \in Ranks : AtCollective(r)' => ~Raising(r)'
    BY DEF AtCollective, Raising
  <2>8. RoundInv'
    BY <1>1, <2>5, <2>6, <2>7 DEF IInv, RoundInv
  <2> QED BY <2>3, <2>4, <2>8 DEF IInv
<1> QED BY <1>3, <1>4 DEF Exchange

\* The next save begins on all ranks.
LEMMA BarrierInv == ASSUME IInv, Barrier PROVE IInv'
<1>1. /\ \A r \in Ranks : pc[r] = "barrier" /\ scopes[r] = 0 /\ saves[r] < MaxSaves
      /\ pc' = [r \in Ranks |-> "training"] /\ at' = [r \in Ranks |-> 0]
      /\ saves' = [r \in Ranks |-> saves[r] + 1]
      /\ UNCHANGED <<scopes, frames, tries, failed, faults>>
  BY DEF IInv, TypeOK, ScopeInv, Barrier
<1>2. TypeOK' /\ ScopeInv' /\ WriteInv'
  BY <1>1, RetryAssumption DEF IInv, TypeOK, ScopeInv, WriteInv, Scopes
<1>3. AttemptInv'
  BY <1>1 DEF IInv, AttemptInv
<1>4. \A r \in Ranks : Passed(r)' = Cardinality({}) + 0 /\ ~AtCollective(r)'
  BY <1>1, CountNext DEF Passed, AtCollective
<1>5. RoundInv'
  BY <1>4 DEF RoundInv
<1> QED BY <1>2, <1>3, <1>5 DEF IInv

LEMMA StutterInv == ASSUME IInv, UNCHANGED vars PROVE IInv'
<1>1. TypeOK' /\ ScopeInv' /\ WriteInv' /\ AttemptInv'
  BY DEF vars, IInv, TypeOK, ScopeInv, WriteInv, AttemptInv, Kind
<1>2. \A r \in Ranks : Passed(r)' = Passed(r) /\ Raising(r)' = Raising(r)
                       /\ AtCollective(r)' = AtCollective(r) /\ tries' = tries
  BY DEF vars, Passed, Raising, AtCollective, Kind
<1>3. RoundInv'
  BY <1>2 DEF IInv, RoundInv
<1> QED BY <1>1, <1>3 DEF IInv

LEMMA NextInv == IInv /\ [Next]_vars => IInv'
<1> SUFFICES ASSUME IInv, [Next]_vars PROVE IInv'
  OBVIOUS
<1>1. ASSUME NEW r \in Ranks,
             Enter(r) \/ Leave(r) \/ Call(r) \/ Write(r) \/ WriteShare(r) \/ Finish(r)
               \/ SaveReturns(r)
      PROVE  IInv'
  BY <1>1, EnterInv, LeaveInv, CallInv, LocalWriteInv, WriteShareInv, FinishInv, SaveReturnsInv
<1>2. CASE Exchange \/ Barrier
  BY <1>2, ExchangeInv, BarrierInv
<1>3. CASE Stopped \/ UNCHANGED vars
  BY <1>3, StutterInv DEF Stopped
<1> QED BY <1>1, <1>2, <1>3 DEF Next

LEMMA SpecInv == Spec => []IInv
BY InitInv, NextInv, PTL DEF Spec

-----------------------------------------------------------------------------
(* The theorems.                                                           *)

\* The type invariant: in particular a rank that left a save, or waits in the barrier,
\* has no scope open, and one that writes has both.
THEOREM TypeCorrect == Spec => []TypeOK
<1>1. IInv => TypeOK
  BY DEF IInv
<1> QED BY <1>1, SpecInv, PTL

\* A write is begun at most Retries + 1 times, although writers call wrapped writers and
\* two scopes are open: the calls of _retry do not multiply.
THEOREM TriesAreBounded == Spec => []TriesBounded
<1>1. IInv => TriesBounded
  BY Attempts DEF TriesBounded
<1> QED BY <1>1, SpecInv, PTL

\* Ranks that retry on their own and together never wait in different collectives, and
\* those in an exchange made as many attempts: so the ranks never deadlock on each other.
THEOREM CollectivesMatch == Spec => []SameCollective
<1>1. IInv => SameCollective
  <2> SUFFICES ASSUME IInv, NEW r \in Ranks, NEW s \in Ranks,
                      pc[r] \in {"exchange", "barrier"}, pc[s] \in {"exchange", "barrier"}
               PROVE  /\ pc[r] = pc[s] /\ Waits(r) = Waits(s)
                      /\ pc[r] = "exchange" => tries[r] = tries[s]
    BY DEF SameCollective
  <2>1. \A x \in {r, s} :
            /\ Waits(x) = <<saves[x], Passed(x)>> /\ ~Raising(x)
            /\ Cardinality(AllCollectives(x)) \in Nat
            /\ pc[x] = "barrier" => Passed(x) = Cardinality(AllCollectives(x))
            /\ pc[x] = "exchange" => Passed(x) < Cardinality(AllCollectives(x))
    <3> SUFFICES ASSUME NEW x \in {r, s}
                 PROVE  /\ Waits(x) = <<saves[x], Passed(x)>> /\ ~Raising(x)
                        /\ Cardinality(AllCollectives(x)) \in Nat
                        /\ pc[x] = "barrier" => Passed(x) = Cardinality(AllCollectives(x))
                        /\ pc[x] = "exchange" => Passed(x) < Cardinality(AllCollectives(x))
      OBVIOUS
    <3>1. at[x] \in Nat /\ Len(Writes[x]) \in Nat
      BY RetryAssumption DEF IInv, WriteInv
    <3>2. /\ Cardinality(Collectives(x, at[x])) \in Nat
          /\ IsFiniteSet(AllCollectives(x)) /\ Cardinality(AllCollectives(x)) \in Nat
      BY <3>1, CountNext DEF AllCollectives
    <3>3. pc[x] = "barrier" => Collectives(x, at[x]) = AllCollectives(x)
      BY DEF IInv, WriteInv, AllCollectives
    <3>4. Passed(x) = Cardinality(Collectives(x, at[x]))
      BY <3>2 DEF Passed
    <3>5. ASSUME pc[x] = "exchange"
          PROVE  Cardinality(Collectives(x, at[x])) < Cardinality(AllCollectives(x))
      <4>1. at[x] < Len(Writes[x]) /\ Writes[x][at[x] + 1] = "collective"
        BY <3>5 DEF IInv, WriteInv, Kind
      <4>2. Cardinality(Collectives(x, at[x] + 1)) = Cardinality(Collectives(x, at[x])) + 1
        BY <3>1, <4>1, CountNext
      <4>3. Collectives(x, at[x] + 1) \in SUBSET AllCollectives(x)
        BY <3>1, <4>1 DEF Collectives, AllCollectives
      <4>4. Cardinality(Collectives(x, at[x] + 1)) <= Cardinality(AllCollectives(x))
        BY <3>2, <4>3, FS_Subset
      <4> QED BY <3>2, <4>2, <4>4
    <3> QED BY <3>2, <3>3, <3>4, <3>5 DEF Waits, Raising
  <2>2. Passed(r) = Passed(s) /\ saves[r] = saves[s]
    BY <2>1 DEF IInv, RoundInv, ScopeInv
  <2>3. pc[r] = pc[s] /\ Waits(r) = Waits(s)
    BY <2>1, <2>2, RetryAssumption
  <2>4. ASSUME pc[r] = "exchange", pc[s] = "exchange" PROVE tries[r] = tries[s]
    <3>1. \A x \in {r, s} : AtCollective(x) /\ ~Raising(x)
      BY <2>4 DEF IInv, WriteInv, AtCollective, Raising
    <3>2. \A x \in {r, s} : tries[x] \in Nat /\ tries[x] >= 1
      BY <2>4, Attempts
    <3> QED BY <3>1, <3>2 DEF IInv, RoundInv
  <2> QED BY <2>3, <2>4
<1> QED BY <1>1, SpecInv, PTL
=============================================================================
