----------------------- MODULE CheckpointMirror_proofs -----------------------
(***************************************************************************)
(* Proofs about CheckpointMirror, for any nodes, steps, retention, queue,  *)
(* number of runs and faults.                                              *)
(***************************************************************************)
EXTENDS CheckpointMirror, SetExtrema, SequenceTheorems, TLAPS

-----------------------------------------------------------------------------
(* The inductive invariant of every run.                                   *)

\* The checkpoints of the mirror and those that are aside for a moment.
Held == Complete \cup {Min(todo[n]) : n \in {m \in Nodes : aside[m] # {}}}

\* What an agent is doing tells what it has in its queue and on its list.
AgentInv ==
    \A n \in Nodes :
        /\ pc[n] # "idle" /\ phase[n] # "settle" => queue[n] # <<>>
        /\ pc[n] \in {"copying", "marking"} => phase[n] # "settle"
        /\ phase[n] = "settle" => queue[n] = <<>>
        /\ pc[n] \in {"locking", "replacing", "placing"} => todo[n] # {}
        /\ aside[n] # {} => pc[n] = "placing"

\* Steps are queued and fail in their order, up to the newest save.
QueueInv ==
    \A n \in Nodes :
        /\ \A i, j \in DOMAIN queue[n] : i < j => queue[n][i] < queue[n][j]
        /\ \A i \in DOMAIN queue[n] :
               queue[n][i] <= trained /\ (phase[n] = "submit" => queue[n][i] < trained)
        /\ \A s \in failed[n] : s <= trained
        /\ phase[n] = "submit" => trained \in Steps

\* What rotation removes is older than something that stays.
TrimInv == \A n \in Nodes : pc[n] = "removing" => \A s \in todo[n] : s < SetMax(Held)

\* Only this run stages.
ScopeInv == \A k \in DOMAIN staging : k[1] = attempt

IInv == TypeOK /\ AgentInv /\ QueueInv /\ TrimInv /\ ScopeInv

-----------------------------------------------------------------------------
(* The inductive invariant of a run that continues from the mirror.        *)

\* The run starts from the newest checkpoint of the mirror, or a later one.
Continues == \A s \in InitMirror : s <= InitStep

\* Node n may still copy its share of checkpoint s.
Owes(n, s) ==
    \/ s > trained
    \/ s \in failed[n]
    \/ phase[n] = "submit" /\ s = trained
    \/ \E i \in DOMAIN queue[n] :
           queue[n][i] = s /\ (i = 1 => pc[n] \in {"idle", "copying", "marking"})

Staged(s) == Key(s) \in DOMAIN staging

\* Nothing is replaced, for what is in the mirror is owed by nobody.
DoneInv ==
    /\ \A n \in Nodes : aside[n] = {} /\ pc[n] # "replacing"
    /\ \A s \in Complete : ~Staged(s) /\ \A n \in Nodes : ~Owes(n, s)

\* A marked share is not owed any more, and is staged unless it is dead.
MarkInv ==
    \A s \in Steps : Staged(s) => \A n \in staging[Key(s)].marks :
        ~Owes(n, s) /\ (s > SetMax(Complete) => <<attempt, n>> \in staging[Key(s)].shares)

\* A share that is being copied goes where it will be marked, unless it is dead.
CopyInv ==
    \A n \in Nodes : pc[n] \in {"copying", "marking"} /\ Head(queue[n]) > SetMax(Complete) =>
        /\ Staged(Head(queue[n]))
        /\ pc[n] = "copying" => intact[n]
        /\ pc[n] = "marking" => <<attempt, n>> \in staging[Key(Head(queue[n]))].shares

\* What is about to be published has every marker.
PlaceInv ==
    \A n \in Nodes : pc[n] \in {"locking", "placing"} =>
        /\ \A m \in Nodes : ~Owes(m, Min(todo[n]))
        /\ Min(todo[n]) > SetMax(Complete) /\ Staged(Min(todo[n])) =>
               staging[Key(Min(todo[n]))].marks = Nodes

\* What is about to be deleted is dead.
DeadInv == \A n \in Nodes : pc[n] = "deleting" => \A s \in todo[n] : s < SetMax(Complete)

CInv == DoneInv /\ MarkInv /\ CopyInv /\ PlaceInv /\ DeadInv /\ ResumeIsWhole

-----------------------------------------------------------------------------
(* Steps, their greatest and least.                                        *)

AllSteps == Steps \cup InitMirror

\* There are finitely many steps, and none is 0.
LEMMA StepsFinite ==
    AllSteps \subseteq Nat \ {0} /\ IsFiniteSet(AllSteps)
  BY MirrorAssumption, FS_Union DEF AllSteps

\* Sets of steps are finite.
LEMMA SomeSteps ==
    ASSUME NEW S, S \subseteq AllSteps
    PROVE  IsFiniteSet(S) /\ S \subseteq Nat
<1>1. S \in SUBSET AllSteps
  OBVIOUS
<1> QED BY <1>1, StepsFinite, FS_Subset

\* SetMax bounds its set from above, and is in it.
LEMMA SetMaxIs ==
    ASSUME NEW S, S \subseteq Nat, IsFiniteSet(S)
    PROVE  /\ SetMax(S) \in Nat
           /\ \A s \in S : s <= SetMax(S)
           /\ S # {} => SetMax(S) \in S /\ SetMax(S) = Max(S)
<1>1. CASE S = {}
  BY <1>1 DEF SetMax
<1>2. CASE S # {}
  <2>1. Max(S) \in S /\ \A s \in S : Max(S) >= s
    BY <1>2, MaxIn
  <2>2. SetMax(S) = Max(S)
    BY <1>2 DEF SetMax
  <2>3. ASSUME NEW s \in S PROVE s <= Max(S)
    <3>1. s \in Nat /\ Max(S) \in Nat /\ Max(S) >= s
      BY <2>1
    <3> QED BY <3>1
  <2> QED BY <2>1, <2>2, <2>3
<1> QED BY <1>1, <1>2

\* It is the least such bound.
LEMMA SetMaxLeast ==
    ASSUME NEW S, S \subseteq Nat, IsFiniteSet(S), NEW m \in Nat, \A s \in S : s <= m
    PROVE  SetMax(S) <= m
<1>1. CASE S = {}
  BY <1>1 DEF SetMax
<1>2. CASE S # {}
  BY <1>2, SetMaxIs
<1> QED BY <1>1, <1>2

\* Min is the least of its set.
LEMMA MinIn ==
    ASSUME NEW S, S \subseteq Nat, S # {}
    PROVE  Min(S) \in S /\ \A s \in S : Min(S) <= s
  BY HasLeast DEF Min

\* What retention removes is there, and is older than the newest that is there.
LEMMA TrimSpares ==
    ASSUME NEW c, c \subseteq AllSteps, NEW keep, NEW b
    PROVE  Trim(c, keep, b) \subseteq c /\ \A s \in Trim(c, keep, b) : s < SetMax(c)
<1>1. Trim(c, keep, b) \subseteq {s \in c : s # SetMax(c)}
  BY DEF Trim
<1>2. ASSUME NEW s \in c, s # SetMax(c) PROVE s < SetMax(c)
  <2>1. s \in Nat /\ SetMax(c) \in Nat /\ s <= SetMax(c)
    BY SomeSteps, SetMaxIs
  <2> QED BY <1>2, <2>1
<1> QED BY <1>1, <1>2

\* The first step of a queue, and the rest of it.
LEMMA HeadTail ==
    ASSUME NEW S, NEW q \in Seq(S), q # <<>>
    PROVE  /\ Head(q) \in S /\ Head(q) = q[1] /\ 1 \in DOMAIN q
           /\ Tail(q) \in Seq(S)
           /\ \A i \in DOMAIN Tail(q) : i \in Nat /\ i + 1 \in DOMAIN q /\ Tail(q)[i] = q[i + 1]
<1>1. /\ Head(q) \in S /\ Tail(q) \in Seq(S) /\ Len(Tail(q)) = Len(q) - 1
      /\ \A i \in 1 .. Len(Tail(q)) : Tail(q)[i] = q[i + 1]
  BY HeadTailProperties
<1>2. Len(q) \in Nat /\ DOMAIN q = 1 .. Len(q)
  BY LenProperties
<1>3. DOMAIN Tail(q) = 1 .. Len(Tail(q)) /\ Len(Tail(q)) \in Nat
  BY <1>1, LenProperties
<1>4. Head(q) = q[1]
  OBVIOUS
<1>5. Len(q) # 0
  BY EmptySeq
<1>6. 1 \in DOMAIN q
  BY <1>2, <1>5
<1>7. ASSUME NEW i \in DOMAIN Tail(q)
      PROVE  i \in Nat /\ i + 1 \in DOMAIN q
  BY <1>1, <1>2, <1>3
<1> QED BY <1>1, <1>3, <1>4, <1>6, <1>7

\* A queue that grows keeps what it has.
LEMMA Appended ==
    ASSUME NEW S, NEW q \in Seq(S), NEW e \in S
    PROVE  /\ Append(q, e) \in Seq(S) /\ Append(q, e) # <<>>
           /\ DOMAIN q \subseteq Nat /\ DOMAIN Append(q, e) = DOMAIN q \cup {Len(q) + 1}
           /\ \A i \in DOMAIN q : i < Len(q) + 1 /\ Append(q, e)[i] = q[i]
           /\ Append(q, e)[Len(q) + 1] = e
           /\ q # <<>> => Head(Append(q, e)) = Head(q)
<1>1. Len(q) \in Nat /\ DOMAIN q = 1 .. Len(q)
  BY LenProperties
<1>2. Append(q, e) \in Seq(S) /\ Len(Append(q, e)) = Len(q) + 1
  BY AppendProperties
<1>3. \A i \in 1 .. Len(q) : Append(q, e)[i] = q[i]
  BY AppendProperties
<1>4. Append(q, e)[Len(q) + 1] = e
  BY AppendProperties
<1>5. DOMAIN Append(q, e) = 1 .. Len(q) + 1
  BY <1>2, LenProperties
<1>6. 1 .. Len(q) + 1 = (1 .. Len(q)) \cup {Len(q) + 1} /\ \A i \in 1 .. Len(q) : i < Len(q) + 1
  BY <1>1
<1>7. Append(q, e) # <<>>
  BY <1>1, <1>2, EmptySeq
<1>8. ASSUME q # <<>> PROVE Head(Append(q, e)) = Head(q)
  <2>1. 1 \in 1 .. Len(q) /\ Head(q) = q[1]
    BY <1>1, <1>8, HeadTail
  <2>2. Head(Append(q, e)) = Append(q, e)[1]
    BY <1>2, <1>7, HeadTail
  <2> QED BY <1>3, <2>1, <2>2
<1> QED BY <1>1, <1>2, <1>3, <1>4, <1>5, <1>6, <1>7, <1>8

-----------------------------------------------------------------------------
(* Types.                                                                  *)

\* The phases of a training thread, the places of an agent, what a staging directory holds.
Phases == {"run", "submit", "drain", "settle", "retry", "drained", "done"}
Places == {"idle", "copying", "marking", "listing", "looking", "locking", "replacing", "placing",
           "trimming", "removing", "dropping", "deleting"}
Dirs == [shares : SUBSET Shares, marks : SUBSET Nodes, lock : BOOLEAN]

\* What node n copied in this run.
Own(n) == <<attempt, n>>

\* What is typed of the staging directories and of the mirror, part by part.
StagingOK ==
    /\ DOMAIN staging \subseteq (1 .. MaxAttempts) \X Steps
    /\ \A k \in DOMAIN staging : staging[k] \in Dirs
FinalOK == Complete \subseteq AllSteps /\ \A s \in Complete : final[s] \in SUBSET Shares

\* A staging directory is typed whether it is there or not.
LEMMA DirTyped ==
    ASSUME TypeOK, NEW s \in Steps
    PROVE  /\ Key(s) \in (1 .. MaxAttempts) \X Steps /\ DirAt(s) \in Dirs
           /\ Key(s) = <<attempt, s>>
<1>1. EmptyDir \in Dirs
  BY DEF EmptyDir, Dirs
<1>2. Key(s) \in DOMAIN staging => staging[Key(s)] \in Dirs
  BY DEF TypeOK, Dirs
<1>3. Key(s) = <<attempt, s>> /\ attempt \in 1 .. MaxAttempts
  BY DEF Key, Scope, TypeOK
<1> QED BY <1>1, <1>2, <1>3 DEF DirAt

\* A step that a node is busy with is one of the schedule or of the mirror.
LEMMA BusyWith ==
    ASSUME TypeOK, AgentInv, NEW n \in Nodes
    PROVE  /\ queue[n] # <<>> => Head(queue[n]) \in Steps /\ Tail(queue[n]) \in Seq(Steps)
           /\ pc[n] \in {"copying", "marking"} => queue[n] # <<>> /\ phase[n] # "settle"
           /\ todo[n] # {} => /\ Min(todo[n]) \in todo[n] /\ Min(todo[n]) \in AllSteps
                              /\ \A s \in todo[n] : Min(todo[n]) <= s
           /\ pc[n] \in {"locking", "replacing", "placing"} => todo[n] # {}
<1>1. queue[n] \in Seq(Steps) /\ todo[n] \subseteq AllSteps
  BY DEF TypeOK, AllSteps
<1>2. queue[n] # <<>> => Head(queue[n]) \in Steps /\ Tail(queue[n]) \in Seq(Steps)
  BY <1>1, HeadTail
<1>3. todo[n] # {} => Min(todo[n]) \in todo[n] /\ \A s \in todo[n] : Min(todo[n]) <= s
  BY <1>1, SomeSteps, MinIn
<1>4. /\ pc[n] # "idle" /\ phase[n] # "settle" => queue[n] # <<>>
      /\ pc[n] \in {"copying", "marking"} => phase[n] # "settle"
      /\ pc[n] \in {"locking", "replacing", "placing"} => todo[n] # {}
  BY DEF AgentInv
<1>5. pc[n] \in {"copying", "marking"} => pc[n] # "idle"
  OBVIOUS
<1> QED BY <1>1, <1>2, <1>3, <1>4, <1>5

\* What the job as a whole does leaves the queues, the agents and the mirror alone.
LEMMA JobKeeps ==
    ASSUME Save \/ EndTraining \/ Finish \/ Done
    PROVE  UNCHANGED <<attempt, queue, failed, pc, todo, intact, aside, staging, final>>
  BY DEF Save, EndTraining, Finish, Done, vars, trainVars, agentVars

\* A training thread never touches the mirror; at most it sets its own agent to work.
LEMMA TrainKeeps ==
    ASSUME TypeOK, NEW n \in Nodes, TrainStep(n)
    PROVE  /\ UNCHANGED <<attempt, trained, todo, intact, aside, staging, final>>
           /\ \A m \in Nodes : pc'[m] \in {pc[m], "listing"}
  BY DEF TrainStep, OnSave, DrainSettle, DrainRetry, DrainEnd, trainVars, agentVars, TypeOK

\* An agent changes nothing of a training thread, nor of another agent.
LEMMA AgentKeeps ==
    ASSUME TypeOK, NEW n \in Nodes, Agent(n)
    PROVE  /\ UNCHANGED trainVars
           /\ \A m \in Nodes \ {n} : /\ pc'[m] = pc[m] /\ todo'[m] = todo[m] /\ aside'[m] = aside[m]
                                    /\ queue'[m] = queue[m] /\ failed'[m] = failed[m]
  BY DEF Agent, CopyStart, CopyDone, CopyFails, Mark, List, Look, Lock, SetAside, Publish, PublishFails,
     TrimMirror, TrimEnds, DropDead, DropEnds, SettleEnds, Goto, Drop, trainVars, TypeOK

\* Which action brings an agent to where it is.
LEMMA Moves ==
    ASSUME TypeOK, NEW n \in Nodes, Agent(n)
    PROVE  /\ pc'[n] = "copying" => CopyStart(n)
           /\ pc'[n] = "marking" => CopyDone(n)
           /\ pc'[n] = "locking" => Look(n)
           /\ pc'[n] = "replacing" => Lock(n)
           /\ pc'[n] = "placing" => Lock(n) \/ SetAside(n)
           /\ pc'[n] = "removing" => TrimMirror(n)
           /\ pc'[n] = "deleting" => DropDead(n)
  BY DEF Agent, CopyStart, CopyDone, CopyFails, Mark, List, Look, Lock, SetAside, Publish, PublishFails,
     TrimMirror, TrimEnds, DropDead, DropEnds, SettleEnds, Goto, TypeOK

\* submit() queues a step or remembers that it did not.
LEMMA SubmitTyped ==
    ASSUME TypeOK, NEW n \in Nodes, NEW s \in Steps, NEW disk, Submit(n, s, disk)
    PROVE  /\ queue' \in [Nodes -> Seq(Steps)] /\ failed' \in [Nodes -> SUBSET Steps]
           /\ faults' \in 0 .. MaxFaults
<1>1. faults' \in 0 .. MaxFaults
  BY MirrorAssumption DEF TypeOK, Submit, Fault, NoFault
<1>2. Append(queue[n], s) \in Seq(Steps)
  <2>1. queue[n] \in Seq(Steps)
    BY DEF TypeOK
  <2> QED BY <2>1, Appended
<1>3. queue \in [Nodes -> Seq(Steps)] /\ failed \in [Nodes -> SUBSET Steps]
  BY DEF TypeOK
<1>4. queue' = queue \/ queue' = [queue EXCEPT ![n] = Append(@, s)]
  BY DEF Submit
<1>5. failed' = failed \/ failed' = [failed EXCEPT ![n] = Skipped(@, s)]
  BY DEF Submit
<1>6. queue' \in [Nodes -> Seq(Steps)]
  BY <1>2, <1>3, <1>4
<1>7. failed' \in [Nodes -> SUBSET Steps]
  BY <1>3, <1>5 DEF Skipped
<1> QED BY <1>1, <1>6, <1>7

\* The sets of steps that are looked at.
LEMMA LocalTyped ==
    ASSUME TypeOK
    PROVE  /\ \A n \in Nodes : /\ local[n] \subseteq AllSteps /\ local[n] \subseteq Steps
                               /\ SetMax(local[n]) \in Nat
                               /\ local[n] # {} => SetMax(local[n]) \in local[n]
                               /\ \A s \in local[n] : s <= SetMax(local[n])
           /\ Complete \subseteq AllSteps /\ Complete \subseteq Nat /\ IsFiniteSet(Complete)
           /\ SetMax(Complete) \in Nat
           /\ \A s \in Complete : s <= SetMax(Complete)
           /\ Complete # {} => SetMax(Complete) \in Complete /\ SetMax(Complete) = Max(Complete)
<1>1. ASSUME NEW n \in Nodes PROVE local[n] \subseteq AllSteps /\ local[n] \subseteq Steps
  BY DEF TypeOK, AllSteps
<1>2. Complete \subseteq AllSteps
  BY DEF TypeOK, AllSteps
<1>3. \A n \in Nodes : IsFiniteSet(local[n]) /\ local[n] \subseteq Nat
  BY <1>1, SomeSteps
<1>4. IsFiniteSet(Complete) /\ Complete \subseteq Nat
  BY <1>2, SomeSteps
<1>5. \A n \in Nodes : /\ SetMax(local[n]) \in Nat
                       /\ local[n] # {} => SetMax(local[n]) \in local[n]
                       /\ \A s \in local[n] : s <= SetMax(local[n])
  BY <1>3, SetMaxIs
<1>6. /\ SetMax(Complete) \in Nat
      /\ \A s \in Complete : s <= SetMax(Complete)
      /\ Complete # {} => SetMax(Complete) \in Complete /\ SetMax(Complete) = Max(Complete)
  BY <1>4, SetMaxIs
<1> QED BY <1>1, <1>2, <1>4, <1>5, <1>6

\* Restart clears what other runs staged, and resumes at a checkpoint or at 0.
LEMMA RestartClears ==
    ASSUME TypeOK, ScopeInv, Restart
    PROVE  /\ staging' = [k \in {} |-> EmptyDir] /\ trained' \in Nat
           /\ SetMax(Complete) <= trained' /\ attempt' \in 1 .. MaxAttempts
           /\ local' \in [Nodes -> SUBSET Steps] /\ best' \in Steps \cup {0}
<1>1. attempt \in Nat /\ attempt' = attempt + 1 /\ attempt' \in 1 .. MaxAttempts
  BY MirrorAssumption DEF TypeOK, Restart
<1>2. Cleared = {}
  <2>1. \A k \in DOMAIN staging : k[1] # attempt'
    BY <1>1 DEF ScopeInv
  <2> QED BY <2>1 DEF Cleared, Scope
<1>3. staging' = [k \in {} |-> EmptyDir]
  BY <1>2 DEF Restart
<1>4. local' \in [Nodes -> SUBSET Steps]
  <2>1. local' = local \/ local' = [n \in Nodes |-> {}]
    BY DEF Restart
  <2> QED BY <2>1 DEF TypeOK
<1> DEFINE U == Complete \cup UNION {local'[n] : n \in Nodes}
<1>5. U \subseteq AllSteps /\ Complete \subseteq U
  BY <1>4, LocalTyped DEF AllSteps
<1>6. IsFiniteSet(U) /\ U \subseteq Nat
  BY <1>5, SomeSteps
<1>7. SetMax(U) \in Nat /\ SetMax(Complete) \in Nat /\ SetMax(Complete) <= SetMax(U)
  <2>1. SetMax(U) \in Nat /\ \A s \in U : s <= SetMax(U)
    BY <1>6, SetMaxIs
  <2> HIDE DEF U
  <2>2. Complete \subseteq Nat /\ IsFiniteSet(Complete) /\ SetMax(Complete) \in Nat
    BY LocalTyped
  <2>3. \A s \in Complete : s <= SetMax(U)
    BY <1>5, <2>1
  <2> QED BY <2>1, <2>2, <2>3, SetMaxLeast
<1>8. trained' = SetMax(Complete) \/ trained' = SetMax(U)
  BY DEF Restart, Resumed
<1>9. trained' \in Nat /\ SetMax(Complete) <= trained'
  BY <1>7, <1>8
<1>10. best' \in Steps \cup {0}
  BY DEF Restart, TypeOK
<1> QED BY <1>1, <1>3, <1>4, <1>9, <1>10

\* Taking a directory away, and unlocking one.
LEMMA StagingLess ==
    ASSUME TypeOK, NEW S, staging' = Without(staging, S)
    PROVE  /\ DOMAIN staging' \subseteq (1 .. MaxAttempts) \X Steps
           /\ \A k \in DOMAIN staging' : staging'[k] \in Dirs
<1>1. DOMAIN staging' = DOMAIN staging \ S /\ \A k \in DOMAIN staging' : staging'[k] = staging[k]
  BY DEF Without
<1> QED BY <1>1 DEF TypeOK, Dirs

\* One directory is made, or changed.
LEMMA StagingPut ==
    ASSUME TypeOK, NEW s \in Steps, NEW d \in Dirs, staging' = Put(staging, Key(s), d)
    PROVE  /\ DOMAIN staging' \subseteq (1 .. MaxAttempts) \X Steps
           /\ \A k \in DOMAIN staging' : staging'[k] \in Dirs
<1>1. Key(s) \in (1 .. MaxAttempts) \X Steps
  BY DirTyped
<1>2. /\ DOMAIN staging' = DOMAIN staging \cup {Key(s)} /\ staging'[Key(s)] = d
      /\ \A k \in DOMAIN staging : k # Key(s) => staging'[k] = staging[k]
  BY DEF Put
<1> QED BY <1>1, <1>2 DEF TypeOK, Dirs

\* The first conjuncts of TypeOK, without the directories.
ControlOK ==
    /\ attempt \in 1 .. MaxAttempts /\ trained \in Nat
    /\ best \in Steps \cup {0} /\ seen \in [Nodes -> Steps \cup {0}]
    /\ phase \in [Nodes -> Phases]
    /\ pass \in [Nodes -> 1 .. 2]
    /\ local \in [Nodes -> SUBSET Steps]
    /\ queue \in [Nodes -> Seq(Steps)]
    /\ failed \in [Nodes -> SUBSET Steps]
    /\ pc \in [Nodes -> Places]
    /\ todo \in [Nodes -> SUBSET (Steps \cup InitMirror)]
    /\ intact \in [Nodes -> BOOLEAN]
    /\ faults \in 0 .. MaxFaults

\* The type invariant is the typing of its parts.
LEMMA TypeParts ==
    TypeOK <=> /\ ControlOK /\ StagingOK /\ FinalOK
               /\ aside \in [Nodes -> SUBSET SUBSET Shares] /\ neglected \in BOOLEAN
  BY DEF TypeOK, ControlOK, StagingOK, FinalOK, Dirs, AllSteps, Phases, Places

\* Only bookkeeping that fails is remembered, until the job is started again.
LEMMA NeglectedKept ==
    ASSUME Step
    PROVE  neglected' = neglected \/ (Restart /\ neglected' = FALSE)
<1> USE DEF trainVars, agentVars, vars
<1>1. CASE Save \/ EndTraining \/ Finish \/ Done \/ Restart
  BY <1>1 DEF Save, EndTraining, Finish, Done, Restart
<1>2. ASSUME NEW n \in Nodes, TrainStep(n) PROVE UNCHANGED neglected
  BY <1>2 DEF TrainStep, OnSave, DrainSettle, DrainRetry, DrainEnd
<1>3. ASSUME NEW n \in Nodes, Agent(n) PROVE UNCHANGED neglected
  BY <1>3 DEF Agent, CopyStart, CopyDone, Mark, List, Look, Lock, SetAside, Publish, PublishFails,
     TrimMirror, TrimEnds, DropDead, DropEnds
<1> QED BY <1>1, <1>2, <1>3 DEF Step

\* Every step keeps the types of what is not a directory.
LEMMA ControlTyped ==
    ASSUME TypeOK, AgentInv, QueueInv, ScopeInv, Step
    PROVE  ControlOK'
<1> USE DEF trainVars, agentVars, Phases, Places
<1>0. ControlOK
  BY TypeParts
<1>1. CASE Save
  <2>1. PICK s \in Steps : /\ trained' = s /\ best' \in {best, s}
                           /\ local' = [n \in Nodes |-> local[n] \cup {s}]
    BY <1>1 DEF Save
  <2>2. trained' \in Nat /\ best' \in Steps \cup {0} /\ local' \in [Nodes -> SUBSET Steps]
    BY <1>0, <2>1, MirrorAssumption DEF ControlOK
  <2> QED BY <1>0, <1>1, <2>2 DEF ControlOK, Save
<1>2. CASE EndTraining \/ Finish \/ Done
  BY <1>0, <1>2 DEF ControlOK, EndTraining, Finish, Done, vars
<1>3. CASE Restart
  <2>1. /\ attempt' \in 1 .. MaxAttempts /\ trained' \in Nat
        /\ local' \in [Nodes -> SUBSET Steps] /\ best' \in Steps \cup {0}
    BY <1>3, RestartClears
  <2>2. <<>> \in Seq(Steps)
    BY EmptySeq
  <2>3. queue' \in [Nodes -> Seq(Steps)]
    BY <1>3, <2>2 DEF Restart
  <2> QED BY <1>0, <1>3, <2>1, <2>3 DEF ControlOK, Restart
<1>4. ASSUME NEW n \in Nodes, OnSave(n) PROVE ControlOK'
  <2>1. trained \in Steps
    BY <1>4 DEF OnSave, QueueInv
  <2>2. /\ queue' \in [Nodes -> Seq(Steps)] /\ failed' \in [Nodes -> SUBSET Steps]
        /\ faults' \in 0 .. MaxFaults
    BY <1>4, <2>1, SubmitTyped DEF OnSave
  <2>3. Rotated(n) \in SUBSET Steps
    BY <1>0 DEF ControlOK, Rotated
  <2>4. local' \in [Nodes -> SUBSET Steps] /\ seen' \in [Nodes -> Steps \cup {0}]
    BY <1>0, <1>4, <2>3 DEF ControlOK, OnSave
  <2>5. phase' \in [Nodes -> Phases]
    BY <1>0, <1>4 DEF ControlOK, OnSave
  <2>6. UNCHANGED <<attempt, trained, best, pass, pc, todo, intact>>
    BY <1>4 DEF OnSave
  <2> QED BY <1>0, <2>2, <2>4, <2>5, <2>6 DEF ControlOK
<1>5. ASSUME NEW n \in Nodes, DrainSettle(n) \/ DrainEnd(n) PROVE ControlOK'
  BY <1>0, <1>5 DEF ControlOK, DrainSettle, DrainEnd
<1>6. ASSUME NEW n \in Nodes, DrainRetry(n) PROVE ControlOK'
  <2>1. /\ queue' \in [Nodes -> Seq(Steps)] /\ failed' \in [Nodes -> SUBSET Steps]
        /\ faults' \in 0 .. MaxFaults
    <3>1. CASE MustRetry(n)
      <4>1. SetMax(local[n]) \in Steps
        BY <3>1, LocalTyped DEF MustRetry
      <4> QED BY <1>6, <3>1, <4>1, SubmitTyped DEF DrainRetry
    <3>2. CASE ~MustRetry(n)
      BY <1>0, <1>6, <3>2 DEF ControlOK, DrainRetry
    <3> QED BY <3>1, <3>2
  <2> QED BY <1>0, <1>6, <2>1 DEF ControlOK, DrainRetry
<1>7. ASSUME NEW n \in Nodes, CopyStart(n) \/ CopyDone(n) \/ Mark(n) PROVE ControlOK'
  <2>1. Head(queue[n]) \in Steps /\ Tail(queue[n]) \in Seq(Steps)
    BY <1>7, BusyWith DEF CopyStart, CopyDone, Mark
  <2>2. queue' \in [Nodes -> Seq(Steps)]
    BY <1>0, <1>7, <2>1 DEF ControlOK, CopyStart, CopyDone, Mark, CopyFails
  <2>3. failed' \in [Nodes -> SUBSET Steps]
    <3>1. \/ failed' = failed
          \/ failed' = [failed EXCEPT ![n] = @ \cup {Head(queue[n])}]
          \/ failed' = [failed EXCEPT ![n] = @ \ {Head(queue[n])}]
      BY <1>7 DEF CopyStart, CopyDone, Mark, CopyFails
    <3>2. failed \in [Nodes -> SUBSET Steps] /\ Head(queue[n]) \in Steps
      BY <1>0, <2>1 DEF ControlOK
    <3> QED BY <3>1, <3>2
  <2>4. faults' \in 0 .. MaxFaults
    BY <1>0, <1>7, MirrorAssumption DEF ControlOK, CopyStart, CopyDone, Mark, Fault, NoFault
  <2>5. intact' \in [Nodes -> BOOLEAN]
    BY <1>0, <1>7 DEF ControlOK, CopyStart, CopyDone, Mark
  <2>7. UNCHANGED <<trainVars, todo>>
    BY <1>7 DEF CopyStart, CopyDone, Mark
  <2>8. \E l \in {"idle", "copying", "marking", "listing"} : Goto(n, l)
    BY <1>7 DEF CopyStart, CopyDone, Mark, CopyFails
  <2> QED BY <1>0, <2>2, <2>3, <2>4, <2>5, <2>7, <2>8 DEF ControlOK, Goto
<1>8. ASSUME NEW n \in Nodes, List(n) \/ Look(n) \/ SetAside(n) PROVE ControlOK'
  <2>1. UNCHANGED <<trainVars, queue, failed, intact, faults>>
    BY <1>8 DEF List, Look, SetAside
  <2>2. pc' = pc \/ \E l \in {"looking", "trimming", "locking", "placing"} : Goto(n, l)
    BY <1>8 DEF List, Look, SetAside
  <2>3. todo' \in [Nodes -> SUBSET (Steps \cup InitMirror)]
    <3>1. todo' = todo \/ \E S \in SUBSET (Steps \cup InitMirror) : todo' = [todo EXCEPT ![n] = S]
      <4>1. todo[n] \ {Min(todo[n])} \in SUBSET (Steps \cup InitMirror)
        BY <1>0 DEF ControlOK
      <4>2. {s \in Steps : Key(s) \in DOMAIN staging} \in SUBSET (Steps \cup InitMirror)
        OBVIOUS
      <4> QED BY <1>8, <4>1, <4>2 DEF List, Look, SetAside, Drop
    <3> QED BY <1>0, <3>1 DEF ControlOK
  <2> QED BY <1>0, <2>1, <2>2, <2>3 DEF ControlOK, Goto
<1>9. ASSUME NEW n \in Nodes, SettleEnds(n), pc[n] # "idle"
      PROVE  queue' \in [Nodes -> Seq(Steps)] /\ pc' \in [Nodes -> {pc[m] : m \in Nodes} \cup {"idle"}]
  <2>1. phase[n] # "settle" => Tail(queue[n]) \in Seq(Steps)
    BY <1>9, BusyWith DEF AgentInv
  <2>2. queue' \in [Nodes -> Seq(Steps)]
    BY <1>0, <1>9, <2>1 DEF ControlOK, SettleEnds
  <2> QED BY <1>0, <1>9, <2>2 DEF ControlOK, SettleEnds, Goto
<1>10. ASSUME NEW n \in Nodes, Lock(n) PROVE ControlOK'
  <2>1. queue' \in [Nodes -> Seq(Steps)]
    BY <1>0, <1>9, <1>10 DEF ControlOK, Lock
  <2>2. UNCHANGED <<trainVars, failed, intact, faults>>
    BY <1>10 DEF Lock
  <2>3. \E l \in {"idle", "looking", "replacing", "placing"} : Goto(n, l)
    BY <1>10 DEF Lock, SettleEnds
  <2>4. todo' \in [Nodes -> SUBSET (Steps \cup InitMirror)]
    <3>1. todo[n] \ {Min(todo[n])} \in SUBSET (Steps \cup InitMirror)
      BY <1>0 DEF ControlOK
    <3>2. todo' = todo \/ \E S \in SUBSET (Steps \cup InitMirror) : todo' = [todo EXCEPT ![n] = S]
      BY <1>10, <3>1 DEF Lock, Drop
    <3> QED BY <1>0, <3>2 DEF ControlOK
  <2> QED BY <1>0, <2>1, <2>2, <2>3, <2>4 DEF ControlOK, Goto
<1>11. ASSUME NEW n \in Nodes, Publish(n) \/ PublishFails(n) PROVE ControlOK'
  <2>1. faults' \in 0 .. MaxFaults
    BY <1>0, <1>11, MirrorAssumption DEF ControlOK, Publish, PublishFails, Fault, NoFault
  <2>2. intact' \in [Nodes -> BOOLEAN]
    BY <1>0, <1>11 DEF ControlOK, Publish, PublishFails, Disturbed
  <2>3. UNCHANGED <<trainVars, queue, failed>> /\ Goto(n, "looking") /\ Drop(n, Min(todo[n]))
    BY <1>11 DEF Publish, PublishFails
  <2>4. todo' \in [Nodes -> SUBSET (Steps \cup InitMirror)]
    BY <1>0, <2>3 DEF ControlOK, Drop
  <2> QED BY <1>0, <2>1, <2>2, <2>3, <2>4 DEF ControlOK, Goto
<1>12. ASSUME NEW n \in Nodes, TrimMirror(n) \/ TrimEnds(n) PROVE ControlOK'
  <2>1. \A k, b : Trim(Complete, k, b) \subseteq Steps \cup InitMirror
    BY LocalTyped, TrimSpares DEF AllSteps
  <2>2. UNCHANGED <<trainVars, queue, failed, intact, faults>>
    BY <1>12 DEF TrimMirror, TrimEnds
  <2>3. \E l \in {"removing", "dropping"} : Goto(n, l)
    BY <1>12 DEF TrimMirror, TrimEnds
  <2>4. \E S \in SUBSET (Steps \cup InitMirror) : todo' = [todo EXCEPT ![n] = S]
    BY <1>12, <2>1 DEF TrimMirror, TrimEnds
  <2> QED BY <1>0, <2>2, <2>3, <2>4 DEF ControlOK, Goto
<1>13. ASSUME NEW n \in Nodes, DropDead(n) PROVE ControlOK'
  <2>1. \A k \in DOMAIN staging : k[2] \in Steps
    BY DEF TypeOK
  <2>2. \A m : {k[2] : k \in OlderThan(m)} \subseteq Steps
    BY <2>1 DEF OlderThan
  <2>3. todo' \in [Nodes -> SUBSET (Steps \cup InitMirror)]
    BY <1>0, <1>13, <2>2 DEF ControlOK, DropDead
  <2>4. intact' \in [Nodes -> BOOLEAN]
    BY <1>0, <1>13 DEF ControlOK, DropDead, Disturbed
  <2> QED BY <1>0, <1>13, <2>3, <2>4 DEF ControlOK, DropDead, Goto
<1>14. ASSUME NEW n \in Nodes, DropEnds(n) PROVE ControlOK'
  <2>1. queue' \in [Nodes -> Seq(Steps)]
    BY <1>0, <1>9, <1>14 DEF DropEnds
  <2>2. intact' \in [Nodes -> BOOLEAN]
    BY <1>0, <1>14 DEF ControlOK, DropEnds, Disturbed
  <2> QED BY <1>0, <1>14, <2>1, <2>2 DEF ControlOK, DropEnds, Goto, SettleEnds
<1> QED BY <1>1, <1>2, <1>3, <1>4, <1>5, <1>6, <1>7, <1>8, <1>10, <1>11, <1>12, <1>13, <1>14
        DEF Step, TrainStep, Agent

\* Every step keeps the types of the directories.
LEMMA StagingTyped ==
    ASSUME TypeOK, AgentInv, ScopeInv, Step
    PROVE  StagingOK'
<1> USE DEF trainVars, agentVars
<1>0. StagingOK
  BY TypeParts
<1>1. CASE Restart
  <2>1. staging' = [k \in {} |-> EmptyDir]
    BY <1>1, RestartClears
  <2>2. DOMAIN staging' = {}
    BY <2>1
  <2> QED BY <2>2 DEF StagingOK
<1>2. ASSUME UNCHANGED staging PROVE StagingOK'
  BY <1>0, <1>2 DEF StagingOK
<1>3. ASSUME NEW n \in Nodes, CopyStart(n) PROVE StagingOK'
  <2>1. Head(queue[n]) \in Steps /\ DirAt(Head(queue[n])) \in Dirs
    BY <1>3, BusyWith, DirTyped DEF CopyStart
  <2>2. UNCHANGED staging \/ staging' = Put(staging, Key(Head(queue[n])), DirAt(Head(queue[n])))
    BY <1>3 DEF CopyStart
  <2> QED BY <1>2, <2>1, <2>2, StagingPut DEF StagingOK
<1>4. ASSUME NEW n \in Nodes, CopyDone(n) PROVE StagingOK'
  <2>1. \/ UNCHANGED staging
        \/ staging' = [staging EXCEPT ![Key(Head(queue[n]))].shares = @ \cup {Own(n)}]
    BY <1>4 DEF CopyDone, Own
  <2>2. Own(n) \in Shares
    BY MirrorAssumption DEF TypeOK, Own, Shares
  <2>3. ASSUME staging' = [staging EXCEPT ![Key(Head(queue[n]))].shares = @ \cup {Own(n)}]
        PROVE  StagingOK'
    BY <1>0, <2>2, <2>3 DEF StagingOK, Dirs
  <2> QED BY <1>2, <2>1, <2>3
<1>5. ASSUME NEW n \in Nodes, Mark(n) PROVE StagingOK'
  <2> DEFINE s == Head(queue[n])
             d == [DirAt(s) EXCEPT !.marks = @ \cup {n}]
  <2>1. s \in Steps /\ DirAt(s) \in Dirs
    BY <1>5, BusyWith, DirTyped DEF Mark
  <2>2. d \in Dirs
    BY <2>1 DEF Dirs
  <2>3. UNCHANGED staging \/ staging' = Put(staging, Key(s), d)
    BY <1>5 DEF Mark
  <2> HIDE DEF d, s
  <2> QED BY <1>2, <2>1, <2>2, <2>3, StagingPut DEF StagingOK
<1>6. ASSUME NEW n \in Nodes, Lock(n) \/ PublishFails(n) PROVE StagingOK'
  <2>1. UNCHANGED staging \/ \E k : \E b \in BOOLEAN : staging' = [staging EXCEPT ![k].lock = b]
    BY <1>6 DEF Lock, PublishFails, Unlocked
  <2>2. ASSUME NEW k, NEW b \in BOOLEAN, staging' = [staging EXCEPT ![k].lock = b]
        PROVE  StagingOK'
    BY <1>0, <2>2 DEF StagingOK, Dirs
  <2> QED BY <1>2, <2>1, <2>2
<1>7. ASSUME NEW n \in Nodes, Publish(n) \/ DropEnds(n) PROVE StagingOK'
  <2>1. \E S : staging' = Without(staging, S)
    BY <1>7 DEF Publish, DropEnds
  <2> QED BY <2>1, StagingLess DEF StagingOK
<1>8. ASSUME NEW n \in Nodes, DropDead(n) PROVE StagingOK'
  <2>1. PICK dead : staging' = [k \in DOMAIN staging |->
                      IF k \in dead THEN [staging[k] EXCEPT !.shares = {}] ELSE staging[k]]
    BY <1>8 DEF DropDead
  <2> QED BY <1>0, <2>1 DEF StagingOK, Dirs
<1>9. CASE Save \/ EndTraining \/ Finish \/ Done
  BY <1>2, <1>9, JobKeeps
<1>10. ASSUME NEW n \in Nodes,
              \/ TrainStep(n) \/ List(n) \/ Look(n) \/ SetAside(n) \/ TrimMirror(n) \/ TrimEnds(n)
       PROVE  StagingOK'
  BY <1>2, <1>10, TrainKeeps DEF List, Look, SetAside, TrimMirror, TrimEnds
<1> QED BY <1>1, <1>3, <1>4, <1>5, <1>6, <1>7, <1>8, <1>9, <1>10 DEF Step, Agent

\* Every step keeps the types of the mirror and of what is aside in it.
LEMMA FinalTyped ==
    ASSUME TypeOK, AgentInv, Step
    PROVE  FinalOK' /\ aside' \in [Nodes -> SUBSET SUBSET Shares]
<1> USE DEF trainVars, agentVars
<1>0. FinalOK /\ aside \in [Nodes -> SUBSET SUBSET Shares]
  BY TypeParts
<1>1. ASSUME UNCHANGED <<final, aside>> PROVE FinalOK' /\ aside' \in [Nodes -> SUBSET SUBSET Shares]
  BY <1>0, <1>1 DEF FinalOK, Complete
<1>2. ASSUME NEW n \in Nodes, SetAside(n) PROVE FinalOK' /\ aside' \in [Nodes -> SUBSET SUBSET Shares]
  <2>1. aside' = [aside EXCEPT ![n] = {final[Min(todo[n])]}] /\ final[Min(todo[n])] \in SUBSET Shares
    BY <1>0, <1>2 DEF SetAside, FinalOK
  <2>2. final' = Without(final, {Min(todo[n])})
    BY <1>2 DEF SetAside
  <2> QED BY <1>0, <2>1, <2>2 DEF FinalOK, Complete, Without
<1>3. ASSUME NEW n \in Nodes, Publish(n) PROVE FinalOK' /\ aside' \in [Nodes -> SUBSET SUBSET Shares]
  <2> DEFINE s == Min(todo[n])
  <2>1. Key(s) \in DOMAIN staging /\ final' = Put(final, s, staging[Key(s)].shares)
    BY <1>3 DEF Publish, CanPlace
  <2>2. staging[Key(s)].shares \in SUBSET Shares
    BY <2>1 DEF TypeOK
  <2>3. s \in AllSteps
    BY <1>3, BusyWith DEF Publish
  <2>4. aside' = [aside EXCEPT ![n] = {}]
    BY <1>3 DEF Publish
  <2>5. FinalOK'
    BY <1>0, <2>1, <2>2, <2>3 DEF FinalOK, Complete, Put
  <2> QED BY <1>0, <2>4, <2>5
<1>4. ASSUME NEW n \in Nodes, PublishFails(n)
      PROVE  FinalOK' /\ aside' \in [Nodes -> SUBSET SUBSET Shares]
  <2> DEFINE s == Min(todo[n])
  <2>1. s \in AllSteps
    BY <1>4, BusyWith DEF PublishFails
  <2>2. UNION aside[n] \in SUBSET Shares
    BY <1>0
  <2>3. aside' = [aside EXCEPT ![n] = {}] /\ (final' = final \/ final' = Put(final, s, UNION aside[n]))
    BY <1>4 DEF PublishFails, PutBack
  <2>4. FinalOK'
    BY <1>0, <2>1, <2>2, <2>3 DEF FinalOK, Complete, Put
  <2> QED BY <1>0, <2>3, <2>4
<1>5. ASSUME NEW n \in Nodes, TrimMirror(n) PROVE FinalOK' /\ aside' \in [Nodes -> SUBSET SUBSET Shares]
  <2>1. PICK v : final' = [s \in Complete |-> IF s \in v THEN {} ELSE final[s]]
    BY <1>5 DEF TrimMirror
  <2>2. UNCHANGED aside
    BY <1>5 DEF TrimMirror
  <2> QED BY <1>0, <2>1, <2>2 DEF FinalOK, Complete
<1>6. ASSUME NEW n \in Nodes, TrimEnds(n) PROVE FinalOK' /\ aside' \in [Nodes -> SUBSET SUBSET Shares]
  <2>1. UNCHANGED aside /\ \E S : final' = Without(final, S)
    BY <1>6 DEF TrimEnds
  <2> QED BY <1>0, <2>1 DEF FinalOK, Complete, Without
<1>7. CASE Restart
  BY <1>0, <1>7 DEF Restart, FinalOK, Complete
<1>8. CASE Save \/ EndTraining \/ Finish \/ Done
  BY <1>1, <1>8, JobKeeps
<1>9. ASSUME NEW n \in Nodes,
             \/ TrainStep(n) \/ CopyStart(n) \/ CopyDone(n) \/ Mark(n)
             \/ List(n) \/ Look(n) \/ Lock(n) \/ DropDead(n) \/ DropEnds(n)
      PROVE  FinalOK' /\ aside' \in [Nodes -> SUBSET SUBSET Shares]
  <2>1. UNCHANGED <<final, aside>>
    BY <1>9, TrainKeeps DEF CopyStart, CopyDone, Mark, List, Look, Lock, DropDead, DropEnds
  <2> QED BY <1>1, <2>1
<1> QED BY <1>2, <1>3, <1>4, <1>5, <1>6, <1>7, <1>8, <1>9 DEF Step, Agent

\* Every step keeps the types.
LEMMA TypeStep ==
    ASSUME IInv, Step
    PROVE  TypeOK'
<1>1. ControlOK' /\ StagingOK' /\ FinalOK' /\ (aside \in [Nodes -> SUBSET SUBSET Shares])'
  BY ControlTyped, StagingTyped, FinalTyped DEF IInv
<1>2. neglected' \in BOOLEAN
  BY NeglectedKept DEF IInv, TypeOK
<1> QED BY <1>1, <1>2 DEF TypeOK, ControlOK, StagingOK, FinalOK, Dirs, AllSteps, Phases, Places, Complete

-----------------------------------------------------------------------------
(* What agents do, and what they have in their queues.                     *)

\* Every step keeps AgentInv.
LEMMA AgentStep ==
    ASSUME IInv, Step
    PROVE  AgentInv'
<1> USE DEF trainVars, agentVars
<1>0. /\ TypeOK /\ AgentInv
      /\ phase \in [Nodes -> Phases]
      /\ queue \in [Nodes -> Seq(Steps)]
      /\ pc \in [Nodes -> Places]
      /\ todo \in [Nodes -> SUBSET AllSteps]
      /\ aside \in [Nodes -> SUBSET SUBSET Shares]
  BY DEF IInv, TypeOK, AllSteps, Phases, Places
<1>1. CASE Save \/ EndTraining \/ Finish \/ Done
  <2>1. UNCHANGED <<queue, pc, todo, aside>>
    BY <1>1, JobKeeps
  <2>2. \A n \in Nodes : phase'[n] = phase[n] \/ (phase'[n] # "settle" /\ phase[n] # "settle")
    BY <1>1 DEF Save, EndTraining, Finish, Done, vars, All
  <2> QED BY <1>0, <2>1, <2>2 DEF AgentInv
<1>2. CASE Restart
  BY <1>2 DEF Restart, AgentInv
<1>3. ASSUME NEW n \in Nodes, OnSave(n) PROVE AgentInv'
  <2>1. trained \in Steps
    BY <1>3 DEF OnSave, QueueInv, IInv
  <2>2. queue[n] \in Seq(Steps) /\ Append(queue[n], trained) # <<>>
    BY <1>0, <2>1, Appended
  <2>3. UNCHANGED <<pc, todo, aside>> /\ phase' = [phase EXCEPT ![n] = "run"] /\ phase[n] = "submit"
    BY <1>3 DEF OnSave
  <2>4. UNCHANGED queue \/ queue' = [queue EXCEPT ![n] = Append(@, trained)]
    BY <1>3 DEF OnSave, Submit
  <2> QED BY <1>0, <2>2, <2>3, <2>4 DEF AgentInv
<1>4. ASSUME NEW n \in Nodes, DrainSettle(n) \/ DrainRetry(n) \/ DrainEnd(n) PROVE AgentInv'
  <2>1. /\ pc[n] = "idle" /\ UNCHANGED <<todo, aside>>
        /\ \A m \in Nodes \ {n} : queue'[m] = queue[m] /\ pc'[m] = pc[m] /\ phase'[m] = phase[m]
    BY <1>0, <1>4 DEF DrainSettle, DrainRetry, DrainEnd, Submit
  <2>2. \/ pc'[n] = "listing" /\ phase'[n] = "settle" /\ queue'[n] = <<>>
        \/ pc'[n] = "idle" /\ phase'[n] # "settle"
    BY <1>0, <1>4 DEF DrainSettle, DrainRetry, DrainEnd
  <2> QED BY <1>0, <2>1, <2>2 DEF AgentInv
<1>5. ASSUME NEW n \in Nodes, CopyStart(n) \/ CopyDone(n) \/ Mark(n) PROVE AgentInv'
  <2>1. UNCHANGED <<phase, todo, aside>> /\ \A m \in Nodes \ {n} : queue'[m] = queue[m] /\ pc'[m] = pc[m]
    BY <1>0, <1>5, AgentKeeps DEF Agent, CopyStart, CopyDone, Mark
  <2>2. queue[n] # <<>> /\ phase[n] # "settle" /\ aside[n] = {}
    BY <1>0, <1>5, BusyWith DEF CopyStart, CopyDone, Mark, AgentInv
  <2>3. \/ pc'[n] = "idle"
        \/ pc'[n] \in {"copying", "marking", "listing"} /\ queue'[n] = queue[n]
    BY <1>0, <1>5 DEF CopyStart, CopyDone, Mark, CopyFails, Goto
  <2> QED BY <1>0, <2>1, <2>2, <2>3 DEF AgentInv
<1>6. ASSUME NEW n \in Nodes, \/ List(n) \/ Look(n) \/ SetAside(n) \/ Publish(n) \/ PublishFails(n)
                              \/ TrimMirror(n) \/ TrimEnds(n) \/ DropDead(n)
      PROVE  AgentInv'
  <2>1. UNCHANGED <<phase, queue>> /\ pc[n] # "idle" /\ pc[n] \notin {"copying", "marking"}
    BY <1>6 DEF List, Look, SetAside, Publish, PublishFails, TrimMirror, TrimEnds, DropDead
  <2>2. \A m \in Nodes \ {n} : pc'[m] = pc[m] /\ todo'[m] = todo[m] /\ aside'[m] = aside[m]
    BY <1>0, <1>6, AgentKeeps DEF Agent
  <2>3. \/ pc'[n] \in {"looking", "trimming", "removing", "dropping", "deleting"} /\ aside'[n] = {}
        \/ /\ pc'[n] \in {"looking", "trimming", "removing", "dropping", "deleting", "locking"}
           /\ aside'[n] = aside[n] /\ pc[n] # "placing"
           /\ pc'[n] = "locking" => todo'[n] # {}
        \/ pc'[n] = "placing" /\ todo'[n] = todo[n] /\ pc[n] = "replacing"
    BY <1>0, <1>6
       DEF List, Look, SetAside, Publish, PublishFails, TrimMirror, TrimEnds, DropDead, Goto, Drop
  <2> QED BY <1>0, <2>1, <2>2, <2>3 DEF AgentInv
<1>7. ASSUME NEW n \in Nodes, Lock(n) \/ DropEnds(n) PROVE AgentInv'
  <2>1. UNCHANGED <<phase, aside>> /\ pc[n] \in {"locking", "deleting"}
    BY <1>7 DEF Lock, DropEnds
  <2>2. \A m \in Nodes \ {n} : pc'[m] = pc[m] /\ todo'[m] = todo[m] /\ queue'[m] = queue[m]
    BY <1>0, <1>7, AgentKeeps DEF Agent
  <2>3. \/ pc'[n] = "looking" /\ queue'[n] = queue[n]
        \/ /\ pc'[n] \in {"replacing", "placing"} /\ pc[n] = "locking"
           /\ queue'[n] = queue[n] /\ todo'[n] = todo[n]
        \/ pc'[n] = "idle" /\ (phase[n] = "settle" => queue'[n] = queue[n])
    BY <1>0, <1>7 DEF Lock, DropEnds, Goto, Drop, SettleEnds
  <2> QED BY <1>0, <2>1, <2>2, <2>3 DEF AgentInv
<1> QED BY <1>1, <1>2, <1>3, <1>4, <1>5, <1>6, <1>7 DEF Step, TrainStep, Agent

\* A step of a queue that is finished, or added, leaves the order.
LEMMA TailOrdered ==
    ASSUME NEW q \in Seq(Steps), q # <<>>, \A i, j \in DOMAIN q : i < j => q[i] < q[j]
    PROVE  \A i, j \in DOMAIN Tail(q) : i < j => Tail(q)[i] < Tail(q)[j]
<1> SUFFICES ASSUME NEW i \in DOMAIN Tail(q), NEW j \in DOMAIN Tail(q), i < j
             PROVE  Tail(q)[i] < Tail(q)[j]
  OBVIOUS
<1>1. /\ i \in Nat /\ i + 1 \in DOMAIN q /\ Tail(q)[i] = q[i + 1]
      /\ j \in Nat /\ j + 1 \in DOMAIN q /\ Tail(q)[j] = q[j + 1]
  BY HeadTail
<1>2. i + 1 < j + 1
  BY <1>1
<1> QED BY <1>1, <1>2

\* An ordered queue stays ordered when a later step is appended.
LEMMA AppendOrdered ==
    ASSUME NEW q \in Seq(Steps), \A i, j \in DOMAIN q : i < j => q[i] < q[j],
           NEW e \in Steps, \A i \in DOMAIN q : q[i] < e
    PROVE  \A i, j \in DOMAIN Append(q, e) : i < j => Append(q, e)[i] < Append(q, e)[j]
<1> DEFINE a == Append(q, e)
<1> SUFFICES ASSUME NEW i \in DOMAIN a, NEW j \in DOMAIN a, i < j PROVE a[i] < a[j]
  OBVIOUS
<1>1. /\ DOMAIN q \subseteq Nat /\ DOMAIN a = DOMAIN q \cup {Len(q) + 1}
      /\ \A k \in DOMAIN q : k < Len(q) + 1 /\ a[k] = q[k]
      /\ a[Len(q) + 1] = e /\ Len(q) \in Nat
  BY Appended
<1>2. i \in DOMAIN q
  <2>1. CASE i = Len(q) + 1
    <3>1. j = Len(q) + 1 \/ j < Len(q) + 1
      BY <1>1
    <3> QED BY <1>1, <2>1, <3>1
  <2> QED BY <1>1, <2>1
<1> HIDE DEF a
<1> QED BY <1>1, <1>2

\* A queue may lose its first step, and what was queued may fail.
LEMMA QueueLess ==
    ASSUME IInv, NEW n \in Nodes, UNCHANGED <<trained, phase>>,
           UNCHANGED queue \/ (queue[n] # <<>> /\ queue' = [queue EXCEPT ![n] = Tail(@)]),
           \A m \in Nodes : \A x \in failed'[m] :
               x \in failed[m] \/ \E i \in DOMAIN queue[m] : x = queue[m][i]
    PROVE  QueueInv'
<1>1. QueueInv /\ trained \in Nat /\ queue \in [Nodes -> Seq(Steps)]
  BY DEF IInv, TypeOK
<1> DEFINE Old(m, x) == x \in failed[m] \/ \E i \in DOMAIN queue[m] : x = queue[m][i]
<1>2. \A m \in Nodes : \A x \in failed'[m] : x <= trained
  <2>1. \A m \in Nodes : \A x : Old(m, x) => x <= trained
    BY <1>1 DEF QueueInv
  <2> QED BY <2>1
<1> HIDE DEF Old
<1>3. CASE UNCHANGED queue
  BY <1>1, <1>2, <1>3 DEF QueueInv
<1>4. CASE queue[n] # <<>> /\ queue' = [queue EXCEPT ![n] = Tail(@)]
  <2>1. queue[n] \in Seq(Steps) /\ \A i, j \in DOMAIN queue[n] : i < j => queue[n][i] < queue[n][j]
    BY <1>1 DEF QueueInv
  <2>2. \A i, j \in DOMAIN Tail(queue[n]) : i < j => Tail(queue[n])[i] < Tail(queue[n])[j]
    BY <1>4, <2>1, TailOrdered
  <2>3. \A i \in DOMAIN Tail(queue[n]) : \E j \in DOMAIN queue[n] : Tail(queue[n])[i] = queue[n][j]
    BY <1>4, <2>1, HeadTail
  <2>4. \A i \in DOMAIN Tail(queue[n]) : /\ Tail(queue[n])[i] <= trained
                                         /\ phase[n] = "submit" => Tail(queue[n])[i] < trained
    BY <1>1, <2>3 DEF QueueInv
  <2>5. queue'[n] = Tail(queue[n]) /\ \A m \in Nodes \ {n} : queue'[m] = queue[m]
    BY <1>1, <1>4
  <2> QED BY <1>1, <1>2, <2>2, <2>4, <2>5 DEF QueueInv
<1> QED BY <1>3, <1>4

\* Every step keeps QueueInv.
LEMMA QueueStep ==
    ASSUME IInv, Step
    PROVE  QueueInv'
<1> USE DEF trainVars, agentVars
<1>0. /\ TypeOK /\ AgentInv /\ QueueInv
      /\ trained \in Nat /\ queue \in [Nodes -> Seq(Steps)]
      /\ phase \in [Nodes -> Phases]
      /\ failed \in [Nodes -> SUBSET Steps] /\ Steps \subseteq Nat
  BY MirrorAssumption DEF IInv, TypeOK, Phases, Places
<1>1. CASE Save
  <2>1. /\ trained' > trained /\ trained' \in Steps
        /\ UNCHANGED <<queue, failed>>
    BY <1>1 DEF Save
  <2>2. \A n \in Nodes : \A i \in DOMAIN queue[n] : queue[n][i] \in Nat /\ queue[n][i] <= trained
    <3>1. \A n \in Nodes : \A i \in DOMAIN queue[n] : queue[n][i] \in Steps
      BY <1>0, LenProperties, ElementOfSeq
    <3> QED BY <1>0, <3>1 DEF QueueInv
  <2>3. \A n \in Nodes : \A s \in failed[n] : s \in Nat /\ s <= trained
    BY <1>0 DEF QueueInv
  <2>4. trained' \in Nat
    BY <1>0, <2>1
  <2>5. \A x \in Nat : x <= trained => x < trained' /\ x <= trained'
    BY <1>0, <2>1, <2>4
  <2>6. \A n \in Nodes : \A i \in DOMAIN queue[n] : queue[n][i] <= trained' /\ queue[n][i] < trained'
    BY <2>2, <2>5
  <2>7. \A n \in Nodes : \A s \in failed[n] : s <= trained'
    BY <2>3, <2>5
  <2> QED BY <1>0, <2>1, <2>6, <2>7 DEF QueueInv
<1>2. CASE EndTraining \/ Finish \/ Done
  <2>1. UNCHANGED <<queue, failed, trained>>
    BY <1>2 DEF EndTraining, Finish, Done, vars
  <2>2. \A n \in Nodes : phase'[n] = "submit" => phase[n] = "submit"
    BY <1>2 DEF EndTraining, Finish, Done, vars
  <2> QED BY <1>0, <2>1, <2>2 DEF QueueInv
<1>3. CASE Restart
  <2>1. \A n \in Nodes : queue'[n] = <<>> /\ failed'[n] = {} /\ phase'[n] = "run"
    BY <1>3 DEF Restart
  <2>2. DOMAIN <<>> = {}
    OBVIOUS
  <2> QED BY <2>1, <2>2 DEF QueueInv
<1>4. ASSUME NEW n \in Nodes, NEW s \in Steps, s <= trained, UNCHANGED trained,
             \A i \in DOMAIN queue[n] : queue[n][i] < s,
             \E disk : Submit(n, s, disk),
             \A m \in Nodes : phase'[m] = phase[m] \/ phase'[m] # "submit", phase'[n] # "submit"
      PROVE  QueueInv'
  <2> DEFINE a == Append(queue[n], s)
  <2>1. /\ UNCHANGED queue \/ queue' = [queue EXCEPT ![n] = a]
        /\ UNCHANGED failed \/ failed' = [failed EXCEPT ![n] = @ \cup {s}]
    BY <1>4 DEF Submit, Skipped
  <2>2. queue[n] \in Seq(Steps) /\ \A i, j \in DOMAIN queue[n] : i < j => queue[n][i] < queue[n][j]
    BY <1>0 DEF QueueInv
  <2>3. \A i, j \in DOMAIN a : i < j => a[i] < a[j]
    BY <1>4, <2>2, AppendOrdered
  <2>4. \A i \in DOMAIN a : a[i] <= trained
    BY <1>0, <1>4, <2>2, Appended DEF QueueInv
  <2>5. /\ \A i, j \in DOMAIN queue'[n] : i < j => queue'[n][i] < queue'[n][j]
        /\ \A i \in DOMAIN queue'[n] : queue'[n][i] <= trained
    <3> HIDE DEF a
    <3> QED BY <1>0, <2>1, <2>3, <2>4 DEF QueueInv
  <2>6. \A x \in failed'[n] : x <= trained
    <3>1. failed'[n] \subseteq failed[n] \cup {s} /\ \A x \in failed[n] : x <= trained
      BY <1>0, <2>1 DEF QueueInv
    <3> QED BY <1>4, <3>1
  <2>7. \A m \in Nodes \ {n} : queue'[m] = queue[m] /\ failed'[m] = failed[m]
    BY <1>0, <2>1
  <2> QED BY <1>0, <1>4, <2>5, <2>6, <2>7 DEF QueueInv
<1>5. ASSUME NEW n \in Nodes, OnSave(n) PROVE QueueInv'
  <2>1. trained \in Steps /\ trained <= trained /\ \A i \in DOMAIN queue[n] : queue[n][i] < trained
    BY <1>0, <1>5 DEF OnSave, QueueInv
  <2>2. \A m \in Nodes : phase'[m] = phase[m] \/ phase'[m] # "submit"
    BY <1>0, <1>5 DEF OnSave
  <2>3. phase'[n] # "submit" /\ UNCHANGED trained /\ \E disk : Submit(n, trained, disk)
    BY <1>0, <1>5 DEF OnSave
  <2> QED BY <1>4, <2>1, <2>2, <2>3
<1>6. ASSUME NEW n \in Nodes, DrainSettle(n) \/ DrainRetry(n) \/ DrainEnd(n) PROVE QueueInv'
  <2>1. \A m \in Nodes : phase'[m] = phase[m] \/ phase'[m] # "submit"
    BY <1>0, <1>6 DEF DrainSettle, DrainRetry, DrainEnd
  <2>2. phase'[n] # "submit" /\ UNCHANGED trained
    BY <1>0, <1>6 DEF DrainSettle, DrainRetry, DrainEnd
  <2>3. CASE UNCHANGED <<queue, failed>>
    BY <1>0, <2>1, <2>2, <2>3 DEF QueueInv
  <2>4. CASE MustRetry(n) /\ phase[n] = "settle" /\ \E disk : Submit(n, SetMax(local[n]), disk)
    <3>1. SetMax(local[n]) \in Steps /\ SetMax(local[n]) <= trained
      BY <1>0, <2>4 DEF QueueInv, MustRetry
    <3>2. queue[n] = <<>>
      BY <1>0, <2>4 DEF AgentInv
    <3>3. \A i \in DOMAIN queue[n] : queue[n][i] < SetMax(local[n])
      BY <3>2
    <3> QED BY <1>4, <2>1, <2>2, <2>4, <3>1, <3>3
  <2> QED BY <1>6, <2>3, <2>4 DEF DrainSettle, DrainRetry, DrainEnd
<1>7. ASSUME NEW n \in Nodes, UNCHANGED <<trained, phase>>,
             UNCHANGED queue \/ (queue[n] # <<>> /\ queue' = [queue EXCEPT ![n] = Tail(@)]),
             \A m \in Nodes : \A x \in failed'[m] :
                 x \in failed[m] \/ \E i \in DOMAIN queue[m] : x = queue[m][i]
      PROVE  QueueInv'
  BY <1>7, QueueLess
<1>8. ASSUME NEW n \in Nodes, CopyStart(n) \/ CopyDone(n) \/ Mark(n) PROVE QueueInv'
  <2>1. queue[n] # <<>> /\ queue[n] \in Seq(Steps)
    BY <1>0, <1>8, BusyWith DEF CopyStart, CopyDone, Mark
  <2>2. 1 \in DOMAIN queue[n] /\ Head(queue[n]) = queue[n][1]
    BY <2>1, HeadTail
  <2>3. UNCHANGED <<trained, phase>> /\ (UNCHANGED queue \/ queue' = [queue EXCEPT ![n] = Tail(@)])
    BY <1>8 DEF CopyStart, CopyDone, Mark, CopyFails
  <2>4. \/ UNCHANGED failed
        \/ failed' = [failed EXCEPT ![n] = @ \cup {Head(queue[n])}]
        \/ failed' = [failed EXCEPT ![n] = @ \ {Head(queue[n])}]
    BY <1>8 DEF CopyStart, CopyDone, Mark, CopyFails
  <2>5. \A m \in Nodes : \A x \in failed'[m] :
            x \in failed[m] \/ \E i \in DOMAIN queue[m] : x = queue[m][i]
    <3>1. failed \in [Nodes -> SUBSET Steps]
      BY <1>0
    <3>2. ASSUME NEW m \in Nodes
          PROVE  failed'[m] \subseteq failed[m] \cup (IF m = n THEN {Head(queue[n])} ELSE {})
      BY <2>4, <3>1
    <3> QED BY <2>2, <3>2
  <2> QED BY <1>7, <2>1, <2>3, <2>5
<1>9. ASSUME NEW n \in Nodes, \/ List(n) \/ Look(n) \/ SetAside(n) \/ Publish(n) \/ PublishFails(n)
                              \/ TrimMirror(n) \/ TrimEnds(n) \/ DropDead(n)
      PROVE  QueueInv'
  <2>1. UNCHANGED <<trained, phase, queue, failed>>
    BY <1>9 DEF List, Look, SetAside, Publish, PublishFails, TrimMirror, TrimEnds, DropDead
  <2> QED BY <1>0, <2>1 DEF QueueInv
<1>10. ASSUME NEW n \in Nodes, Lock(n) \/ DropEnds(n) PROVE QueueInv'
  <2>1. UNCHANGED <<trained, phase, failed>> /\ pc[n] # "idle"
    BY <1>10 DEF Lock, DropEnds
  <2>2. UNCHANGED queue \/ (queue[n] # <<>> /\ queue' = [queue EXCEPT ![n] = Tail(@)])
    BY <1>0, <1>10, <2>1 DEF Lock, DropEnds, SettleEnds, AgentInv
  <2> QED BY <1>7, <2>1, <2>2
<1> QED BY <1>1, <1>2, <1>3, <1>5, <1>6, <1>8, <1>9, <1>10 DEF Step, TrainStep, Agent

\* Only this run stages.
LEMMA ScopeStep ==
    ASSUME IInv, Step
    PROVE  ScopeInv'
<1> USE DEF trainVars, agentVars
<1>0. TypeOK /\ AgentInv /\ ScopeInv
  BY DEF IInv
<1>1. CASE Restart
  <2>1. staging' = [k \in {} |-> EmptyDir]
    BY <1>0, <1>1, RestartClears
  <2>2. DOMAIN staging' = {}
    BY <2>1
  <2> QED BY <2>2 DEF ScopeInv
<1>2. ASSUME UNCHANGED attempt, \A k \in DOMAIN staging' : k \in DOMAIN staging \/ \E s : k = Key(s)
      PROVE  ScopeInv'
  BY <1>0, <1>2 DEF ScopeInv, Key, Scope
<1>3. CASE Save \/ EndTraining \/ Finish \/ Done
  BY <1>2, <1>3, JobKeeps
<1>4. ASSUME NEW n \in Nodes, TrainStep(n) \/ Agent(n) PROVE ScopeInv'
  <2>1. UNCHANGED attempt
    BY <1>0, <1>4, TrainKeeps, AgentKeeps
  <2>2. CASE UNCHANGED staging
    BY <1>2, <2>1, <2>2
  <2>3. CASE CopyStart(n) \/ Mark(n)
    <3>1. UNCHANGED staging \/ \E d : staging' = Put(staging, Key(Head(queue[n])), d)
      BY <2>3 DEF CopyStart, Mark
    <3>2. \A k \in DOMAIN staging' : k \in DOMAIN staging \/ k = Key(Head(queue[n]))
      BY <3>1 DEF Put
    <3> QED BY <1>2, <2>1, <3>2
  <2>4. CASE CopyDone(n) \/ Lock(n) \/ PublishFails(n) \/ Publish(n) \/ DropDead(n) \/ DropEnds(n)
    <3>1. DOMAIN staging' \subseteq DOMAIN staging
      BY <2>4 DEF CopyDone, Lock, PublishFails, Unlocked, Publish, DropDead, DropEnds, Without
    <3> QED BY <1>2, <2>1, <3>1
  <2>5. CASE TrainStep(n) \/ List(n) \/ Look(n) \/ SetAside(n) \/ TrimMirror(n) \/ TrimEnds(n)
    BY <1>0, <2>2, <2>5, TrainKeeps DEF List, Look, SetAside, TrimMirror, TrimEnds
  <2> QED BY <1>4, <2>3, <2>4, <2>5 DEF Agent
<1> QED BY <1>1, <1>3, <1>4 DEF Step

-----------------------------------------------------------------------------
(* What the mirror holds.                                                  *)

\* Held is a finite set of steps.
LEMMA HeldTyped ==
    ASSUME TypeOK, AgentInv
    PROVE  /\ Held \subseteq AllSteps /\ Held \subseteq Nat /\ IsFiniteSet(Held)
           /\ SetMax(Held) \in Nat /\ \A s \in Held : s <= SetMax(Held)
           /\ Held # {} => SetMax(Held) \in Held
<1>1. \A n \in Nodes : aside[n] # {} => Min(todo[n]) \in AllSteps
  BY BusyWith DEF AgentInv
<1>2. Held \subseteq AllSteps
  BY <1>1, LocalTyped DEF Held
<1>3. Held \subseteq Nat /\ IsFiniteSet(Held)
  BY <1>2, SomeSteps
<1> QED BY <1>2, <1>3, SetMaxIs

\* SetMax(Held) bounds what is held after a step as well.
LEMMA HeldNext ==
    (TypeOK /\ AgentInv)' => (SetMax(Held) \in Nat /\ \A s \in Held : s <= SetMax(Held))'
<1>1. TypeOK /\ AgentInv => SetMax(Held) \in Nat /\ \A s \in Held : s <= SetMax(Held)
  BY HeldTyped
<1> QED BY <1>1, PTL

\* What is aside stays so, and what is in the mirror stays, unless rotation removes it.
LEMMA HeldStays ==
    ASSUME IInv, Step, ~Restart, NEW s \in Held
    PROVE  s \in Held' \/ \E n \in Nodes : TrimEnds(n) /\ s \in todo[n]
<1> USE DEF trainVars, agentVars
<1>0. /\ TypeOK /\ AgentInv
      /\ aside \in [Nodes -> SUBSET SUBSET Shares] /\ todo \in [Nodes -> SUBSET AllSteps]
  BY DEF IInv, TypeOK, AllSteps
<1>1. s \in Complete \/ \E m \in Nodes : aside[m] # {} /\ s = Min(todo[m])
  BY DEF Held
<1>2. ASSUME Complete \subseteq Complete',
             \A m \in Nodes : aside[m] # {} => aside'[m] = aside[m] /\ todo'[m] = todo[m]
      PROVE  s \in Held'
  BY <1>1, <1>2 DEF Held
<1>3. CASE Save \/ EndTraining \/ Finish \/ Done
  BY <1>2, <1>3, JobKeeps DEF Complete
<1>4. ASSUME NEW n \in Nodes, TrainStep(n) \/ CopyStart(n) \/ CopyDone(n) \/ Mark(n) PROVE s \in Held'
  <2>1. UNCHANGED <<final, aside, todo>>
    BY <1>0, <1>4, TrainKeeps DEF CopyStart, CopyDone, Mark
  <2> QED BY <1>2, <2>1 DEF Complete
<1>5. ASSUME NEW n \in Nodes,
             List(n) \/ Look(n) \/ Lock(n) \/ TrimMirror(n) \/ DropDead(n) \/ DropEnds(n)
      PROVE  s \in Held'
  <2>1. DOMAIN final' = DOMAIN final /\ UNCHANGED aside /\ pc[n] # "placing"
    BY <1>5 DEF List, Look, Lock, TrimMirror, DropDead, DropEnds, Complete
  <2>2. \A m \in Nodes \ {n} : todo'[m] = todo[m]
    BY <1>0, <1>5, AgentKeeps DEF Agent
  <2>3. aside[n] = {}
    BY <1>0, <2>1 DEF AgentInv
  <2> QED BY <1>2, <2>1, <2>2, <2>3 DEF Complete
<1>6. ASSUME NEW n \in Nodes, SetAside(n) PROVE s \in Held'
  <2>1. /\ aside' = [aside EXCEPT ![n] = {final[Min(todo[n])]}] /\ UNCHANGED todo
        /\ Complete' = Complete \ {Min(todo[n])}
    BY <1>6 DEF SetAside, Without, Complete
  <2>2. aside'[n] # {} /\ \A m \in Nodes : aside[m] # {} => aside'[m] # {}
    BY <1>0, <2>1
  <2> QED BY <1>1, <2>1, <2>2 DEF Held
<1>7. ASSUME NEW n \in Nodes, Publish(n) \/ PublishFails(n) PROVE s \in Held'
  <2>1. /\ Complete \subseteq Complete'
        /\ aside[n] # {} => Min(todo[n]) \in Complete'
    BY <1>7 DEF Publish, PublishFails, PutBack, Put, Complete
  <2>2. \A m \in Nodes \ {n} : todo'[m] = todo[m] /\ aside'[m] = aside[m]
    BY <1>0, <1>7, AgentKeeps DEF Agent
  <2> QED BY <1>1, <2>1, <2>2 DEF Held
<1>8. ASSUME NEW n \in Nodes, TrimEnds(n) PROVE s \in Held' \/ s \in todo[n]
  <2>1. UNCHANGED aside /\ Complete \ todo[n] \subseteq Complete' /\ pc[n] # "placing"
    BY <1>8 DEF TrimEnds, Without, Complete
  <2>2. \A m \in Nodes \ {n} : todo'[m] = todo[m]
    BY <1>0, <1>8, AgentKeeps DEF Agent
  <2>3. aside[n] = {}
    BY <1>0, <2>1 DEF AgentInv
  <2> QED BY <1>1, <2>1, <2>2, <2>3 DEF Held
<1> QED BY <1>3, <1>4, <1>5, <1>6, <1>7, <1>8 DEF Step, Agent

\* So the newest of them is never lost while the job runs.
LEMMA HeldGrows ==
    ASSUME IInv, Step, ~Restart
    PROVE  SetMax(Held) <= SetMax(Held') /\ SetMax(Held) \in Nat /\ SetMax(Held') \in Nat
<1>1. TypeOK /\ AgentInv /\ TypeOK' /\ AgentInv' /\ TrimInv
  BY TypeStep, AgentStep DEF IInv
<1>2. SetMax(Held) \in Nat /\ (Held # {} => SetMax(Held) \in Held)
  BY <1>1, HeldTyped
<1>3. SetMax(Held') \in Nat /\ \A s \in Held' : s <= SetMax(Held')
  BY <1>1, HeldNext
<1>4. CASE Held = {}
  BY <1>2, <1>3, <1>4 DEF SetMax
<1>5. CASE Held # {}
  <2>1. ASSUME NEW n \in Nodes, TrimEnds(n) PROVE SetMax(Held) \notin todo[n]
    <3>1. \A s \in todo[n] : s < SetMax(Held)
      BY <1>1, <2>1 DEF TrimInv, TrimEnds
    <3>2. ~ SetMax(Held) < SetMax(Held)
      BY <1>2
    <3> QED BY <3>1, <3>2
  <2> QED BY <1>2, <1>3, <1>5, <2>1, HeldStays
<1> QED BY <1>2, <1>3, <1>4, <1>5

\* Rotation never removes the newest.
LEMMA TrimStep ==
    ASSUME IInv, Step
    PROVE  TrimInv'
<1> USE DEF trainVars, agentVars
<1>0. /\ TypeOK /\ AgentInv /\ TrimInv /\ TypeOK' /\ AgentInv'
      /\ pc \in [Nodes -> Places]
      /\ todo \in [Nodes -> SUBSET AllSteps]
  BY TypeStep, AgentStep DEF IInv, TypeOK, AllSteps, Phases, Places
<1>1. CASE Restart
  BY <1>1 DEF Restart, TrimInv
<1>2. CASE ~Restart
  <2>1. SetMax(Held) <= SetMax(Held') /\ SetMax(Held) \in Nat /\ SetMax(Held') \in Nat
    BY <1>2, HeldGrows
  <2>2. \A m \in Nodes, s \in AllSteps : s \in Nat /\ (s < SetMax(Held) => s < SetMax(Held'))
    BY <2>1, StepsFinite
  <2>3. ASSUME NEW n \in Nodes, pc'[n] = "removing" => pc[n] = "removing" /\ todo'[n] = todo[n]
        PROVE  pc'[n] = "removing" => \A s \in todo'[n] : s < SetMax(Held')
    BY <1>0, <2>2, <2>3 DEF TrimInv
  <2>4. CASE \A n \in Nodes : pc'[n] = "removing" => pc[n] = "removing" /\ todo'[n] = todo[n]
    BY <2>3, <2>4 DEF TrimInv
  <2>5. ASSUME NEW n \in Nodes, TrimMirror(n) PROVE TrimInv'
    <3>1. \A m \in Nodes \ {n} : pc'[m] = pc[m] /\ todo'[m] = todo[m]
      BY <1>0, <2>5, AgentKeeps DEF Agent
    <3>2. \A s \in todo'[n] : s < SetMax(Complete)
      <4>1. \A s \in Trim(Complete, Keep, seen[n]) : s < SetMax(Complete)
        BY <1>0, LocalTyped, TrimSpares
      <4>2. todo'[n] \in {{}, Trim(Complete, Keep, seen[n])}
        BY <1>0, <2>5 DEF TrimMirror
      <4> QED BY <4>1, <4>2
    <3>3. SetMax(Complete) \in Nat /\ SetMax(Complete) <= SetMax(Held)
      <4>1. Complete \subseteq Nat /\ IsFiniteSet(Complete) /\ SetMax(Complete) \in Nat
        BY <1>0, LocalTyped
      <4>2. \A s \in Complete : s <= SetMax(Held)
        BY <1>0, HeldTyped DEF Held
      <4> QED BY <2>1, <4>1, <4>2, SetMaxLeast
    <3>4. todo'[n] \subseteq Nat
      BY <1>0, StepsFinite DEF TypeOK, AllSteps
    <3>5. \A s \in todo'[n] : s < SetMax(Held')
      BY <2>1, <3>2, <3>3, <3>4
    <3> QED BY <2>3, <3>1, <3>5 DEF TrimInv
  <2>6. CASE Save \/ EndTraining \/ Finish \/ Done
    <3>1. UNCHANGED <<pc, todo>>
      BY <2>6, JobKeeps
    <3> QED BY <2>4, <3>1
  <2>7. ASSUME NEW n \in Nodes, TrainStep(n) PROVE TrimInv'
    BY <1>0, <2>4, <2>7, TrainKeeps
  <2>8. ASSUME NEW n \in Nodes, Agent(n), ~TrimMirror(n) PROVE TrimInv'
    BY <1>0, <2>4, <2>8, AgentKeeps, Moves
  <2> QED BY <1>2, <2>5, <2>6, <2>7, <2>8 DEF Step
<1> QED BY <1>1, <1>2

\* IInv holds from the start.
LEMMA InitEstablishes == Init => IInv
<1> SUFFICES ASSUME Init PROVE IInv
  OBVIOUS
<1> USE DEF Phases, Places
<1> DEFINE S == [shares : SUBSET Shares, marks : SUBSET Nodes, lock : BOOLEAN]
<1>1. /\ attempt \in 1 .. MaxAttempts /\ trained \in Nat /\ faults \in 0 .. MaxFaults
      /\ best \in Steps \cup {0} /\ seen \in [Nodes -> Steps \cup {0}]
      /\ phase \in [Nodes -> Phases]
      /\ pass \in [Nodes -> 1 .. 2]
      /\ local \in [Nodes -> SUBSET Steps]
      /\ failed \in [Nodes -> SUBSET Steps]
  BY MirrorAssumption DEF Init
<1>2. /\ pc \in [Nodes -> Places]
      /\ todo \in [Nodes -> SUBSET (Steps \cup InitMirror)]
      /\ intact \in [Nodes -> BOOLEAN]
      /\ aside \in [Nodes -> SUBSET SUBSET Shares] /\ neglected \in BOOLEAN
  BY DEF Init
<1>3. queue \in [Nodes -> Seq(Steps)]
  BY EmptySeq DEF Init
<1>4. DOMAIN staging = {} /\ Complete = InitMirror
  BY DEF Init, Complete
<1>5. \A s \in Complete : final[s] \in SUBSET Shares
  <2>1. WholeShare(0) \in SUBSET Shares
    BY MirrorAssumption DEF WholeShare, Shares
  <2> QED BY <1>4, <2>1 DEF Init
<1>6. TypeOK
  BY <1>1, <1>2, <1>3, <1>4, <1>5 DEF TypeOK
<1>7. \A n \in Nodes : /\ queue[n] = <<>> /\ failed[n] = {} /\ phase[n] = "run" /\ pc[n] = "idle"
                       /\ aside[n] = {}
  BY DEF Init
<1>8. QueueInv
  <2>1. DOMAIN <<>> = {}
    OBVIOUS
  <2> QED BY <1>7, <2>1 DEF QueueInv
<1> QED BY <1>4, <1>6, <1>7, <1>8 DEF IInv, AgentInv, TrimInv, ScopeInv

-----------------------------------------------------------------------------
(* A job that continues from the mirror.                                   *)

\* The index of a queue's step: the first is the head.
LEMMA QueueHead ==
    ASSUME IInv, NEW n \in Nodes, queue[n] # <<>>
    PROVE  /\ Head(queue[n]) = queue[n][1] /\ 1 \in DOMAIN queue[n] /\ Head(queue[n]) \in Steps
           /\ \A i \in DOMAIN queue[n] : i # 1 => queue[n][i] # Head(queue[n])
           /\ \A i \in DOMAIN Tail(queue[n]) : /\ i + 1 \in DOMAIN queue[n] /\ i + 1 # 1
                                               /\ Tail(queue[n])[i] = queue[n][i + 1]
<1>1. queue[n] \in Seq(Steps) /\ \A i, j \in DOMAIN queue[n] : i < j => queue[n][i] < queue[n][j]
  BY DEF IInv, TypeOK, QueueInv
<1>2. /\ Head(queue[n]) = queue[n][1] /\ 1 \in DOMAIN queue[n] /\ Head(queue[n]) \in Steps
      /\ \A i \in DOMAIN Tail(queue[n]) :
             i \in Nat /\ i + 1 \in DOMAIN queue[n] /\ Tail(queue[n])[i] = queue[n][i + 1]
  BY <1>1, HeadTail
<1>3. ASSUME NEW i \in DOMAIN queue[n], i # 1 PROVE queue[n][i] # Head(queue[n])
  <2>1. DOMAIN queue[n] = 1 .. Len(queue[n]) /\ Len(queue[n]) \in Nat
    BY <1>1, LenProperties
  <2>2. 1 < i
    BY <1>3, <2>1
  <2>3. queue[n][1] < queue[n][i] /\ queue[n][1] \in Nat
    BY <1>1, <1>2, <2>2, MirrorAssumption
  <2> QED BY <1>2, <2>3
<1>4. \A i \in DOMAIN Tail(queue[n]) : i + 1 # 1
  <2>1. Tail(queue[n]) \in Seq(Steps)
    BY <1>1, HeadTail
  <2>2. DOMAIN Tail(queue[n]) = 1 .. Len(Tail(queue[n])) /\ Len(Tail(queue[n])) \in Nat
    BY <2>1, LenProperties
  <2> QED BY <2>2
<1> QED BY <1>2, <1>3, <1>4

\* The first step of a queue is owed until its marker is there.
LEMMA HeadIsOwed ==
    ASSUME IInv, NEW n \in Nodes, queue[n] # <<>>, pc[n] \in {"idle", "copying", "marking"}
    PROVE  Owes(n, Head(queue[n]))
  BY QueueHead DEF Owes

\* What a node owes after a step of a run, it owed before.
LEMMA OwesShrinks ==
    ASSUME IInv, Step, ~Restart, NEW m \in Nodes, NEW s \in Nat, Owes(m, s)'
    PROVE  Owes(m, s)
<1> USE DEF trainVars, agentVars
<1>0. /\ TypeOK /\ AgentInv /\ trained \in Nat /\ queue \in [Nodes -> Seq(Steps)]
      /\ phase \in [Nodes -> Phases]
      /\ failed \in [Nodes -> SUBSET Steps]
      /\ pc \in [Nodes -> Places]
  BY DEF IInv, TypeOK, Phases, Places
<1>11. \/ s > trained'
       \/ s \in failed'[m]
       \/ phase'[m] = "submit" /\ s = trained'
       \/ \E i \in DOMAIN queue'[m] :
              queue'[m][i] = s /\ (i = 1 => pc'[m] \in {"idle", "copying", "marking"})
  BY DEF Owes
<1>1. CASE Save
  <2>1. trained' \in Nat /\ trained' > trained
    BY <1>0, <1>1, MirrorAssumption DEF Save
  <2>2. (s > trained' => s > trained) /\ (s = trained' => s > trained)
    BY <1>0, <2>1
  <2>3. UNCHANGED <<failed, queue, pc>>
    BY <1>1 DEF Save
  <2> QED BY <1>11, <2>2, <2>3 DEF Owes
<1>2. CASE EndTraining \/ Finish \/ Done
  <2>1. UNCHANGED <<failed, queue, pc, trained>> /\ (phase'[m] = "submit" => phase[m] = "submit")
    BY <1>2 DEF EndTraining, Finish, Done, vars
  <2> QED BY <1>11, <2>1 DEF Owes
<1>3. ASSUME NEW n \in Nodes, NEW e \in Steps, Owes(n, e), \E disk : Submit(n, e, disk),
             UNCHANGED <<trained, pc>>, phase'[m] = "submit" => phase[m] = "submit"
      PROVE  Owes(m, s)
  <2>1. CASE s \in failed'[m]
    <3>1. s \in failed[m] \/ (m = n /\ s = e)
      BY <1>0, <1>3, <2>1 DEF Submit, Skipped
    <3> QED BY <1>3, <3>1 DEF Owes
  <2>2. ASSUME NEW i \in DOMAIN queue'[m], queue'[m][i] = s,
               i = 1 => pc[m] \in {"idle", "copying", "marking"}
        PROVE  Owes(m, s)
    <3>1. queue'[m] = queue[m] \/ (m = n /\ queue'[m] = Append(queue[m], e))
      BY <1>0, <1>3 DEF Submit
    <3>2. CASE queue'[m] = queue[m]
      BY <2>2, <3>2 DEF Owes
    <3>3. CASE m = n /\ queue'[m] = Append(queue[m], e)
      <4>1. queue[m] \in Seq(Steps)
        BY <1>0
      <4>2. (i \in DOMAIN queue[m] /\ queue[m][i] = s) \/ s = e
        BY <2>2, <3>3, <4>1, Appended
      <4> QED BY <1>3, <2>2, <3>3, <4>2 DEF Owes
    <3> QED BY <3>1, <3>2, <3>3
  <2> QED BY <1>11, <1>3, <2>1, <2>2 DEF Owes
<1>4. ASSUME NEW n \in Nodes, OnSave(n) PROVE Owes(m, s)
  <2>1. trained \in Steps /\ Owes(n, trained)
    BY <1>4 DEF OnSave, QueueInv, IInv, Owes
  <2>2. /\ UNCHANGED <<trained, pc>> /\ (phase'[m] = "submit" => phase[m] = "submit")
        /\ \E disk : Submit(n, trained, disk)
    BY <1>0, <1>4 DEF OnSave
  <2> QED BY <1>3, <2>1, <2>2
<1>5. ASSUME NEW n \in Nodes, DrainSettle(n) \/ DrainEnd(n) \/ (DrainRetry(n) /\ ~MustRetry(n))
      PROVE  Owes(m, s)
  <2>1. UNCHANGED <<failed, queue, trained>> /\ (phase'[m] = "submit" => phase[m] = "submit")
    BY <1>0, <1>5 DEF DrainSettle, DrainRetry, DrainEnd
  <2>2. pc'[m] = pc[m] \/ pc'[m] = "listing"
    BY <1>0, <1>5 DEF DrainSettle, DrainRetry, DrainEnd
  <2> QED BY <1>11, <2>1, <2>2 DEF Owes
<1>6. ASSUME NEW n \in Nodes, DrainRetry(n), MustRetry(n) PROVE Owes(m, s)
  <2>1. SetMax(local[n]) \in Steps /\ Owes(n, SetMax(local[n]))
    BY <1>0, <1>6, LocalTyped DEF MustRetry, Owes
  <2>2. /\ UNCHANGED <<trained, pc>> /\ (phase'[m] = "submit" => phase[m] = "submit")
        /\ \E disk : Submit(n, SetMax(local[n]), disk)
    BY <1>0, <1>6 DEF DrainRetry
  <2> QED BY <1>3, <2>1, <2>2
<1>7. ASSUME NEW n \in Nodes, n # m, Agent(n) PROVE Owes(m, s)
  <2>1. UNCHANGED <<trained, phase>> /\ queue'[m] = queue[m] /\ pc'[m] = pc[m] /\ failed'[m] = failed[m]
    BY <1>0, <1>7, AgentKeeps
  <2> QED BY <1>11, <2>1 DEF Owes
<1>8. ASSUME CopyStart(m) \/ CopyDone(m) \/ Mark(m) PROVE Owes(m, s)
  <2>1. queue[m] # <<>> /\ pc[m] \in {"idle", "copying", "marking"} /\ UNCHANGED <<trained, phase>>
    BY <1>0, <1>8, BusyWith DEF CopyStart, CopyDone, Mark
  <2>2. Owes(m, Head(queue[m]))
    BY <2>1, HeadIsOwed
  <2>3. s \in failed'[m] => s \in failed[m] \/ s = Head(queue[m])
    BY <1>0, <1>8 DEF CopyStart, CopyDone, Mark, CopyFails
  <2>4. \/ queue'[m] = queue[m]
        \/ queue'[m] = Tail(queue[m])
    BY <1>0, <1>8 DEF CopyStart, CopyDone, Mark, CopyFails
  <2>5. CASE queue'[m] = queue[m]
    BY <1>11, <2>1, <2>2, <2>3, <2>5 DEF Owes
  <2>6. CASE queue'[m] = Tail(queue[m])
    <3>1. \A i \in DOMAIN queue'[m] : \E j \in DOMAIN queue[m] : j # 1 /\ queue'[m][i] = queue[m][j]
      BY <2>1, <2>6, QueueHead
    <3> QED BY <1>11, <2>1, <2>2, <2>3, <3>1 DEF Owes
  <2> QED BY <2>4, <2>5, <2>6
<1>9. ASSUME \/ List(m) \/ Look(m) \/ SetAside(m) \/ Publish(m) \/ PublishFails(m)
             \/ TrimMirror(m) \/ TrimEnds(m) \/ DropDead(m)
      PROVE  Owes(m, s)
  <2>1. UNCHANGED <<trained, phase, queue, failed>>
    BY <1>9 DEF List, Look, SetAside, Publish, PublishFails, TrimMirror, TrimEnds, DropDead
  <2>2. pc'[m] \notin {"idle", "copying", "marking"}
    BY <1>0, <1>9 DEF List, Look, SetAside, Publish, PublishFails, TrimMirror, TrimEnds, DropDead, Goto
  <2> QED BY <1>11, <2>1, <2>2 DEF Owes
<1>10. ASSUME Lock(m) \/ DropEnds(m) PROVE Owes(m, s)
  <2>1. UNCHANGED <<trained, phase, failed>> /\ pc[m] # "idle"
    BY <1>10 DEF Lock, DropEnds
  <2>2. \/ queue'[m] = queue[m] /\ (queue[m] = <<>> \/ pc'[m] \notin {"idle", "copying", "marking"})
        \/ queue[m] # <<>> /\ queue'[m] = Tail(queue[m])
    BY <1>0, <1>10, <2>1 DEF Lock, DropEnds, SettleEnds, AgentInv, Goto
  <2>3. CASE queue'[m] = queue[m] /\ (queue[m] = <<>> \/ pc'[m] \notin {"idle", "copying", "marking"})
    <3>1. DOMAIN <<>> = {}
      OBVIOUS
    <3> QED BY <1>11, <2>1, <2>3, <3>1 DEF Owes
  <2>4. CASE queue[m] # <<>> /\ queue'[m] = Tail(queue[m])
    <3>1. \A i \in DOMAIN queue'[m] : \E j \in DOMAIN queue[m] : j # 1 /\ queue'[m][i] = queue[m][j]
      BY <2>4, QueueHead
    <3> QED BY <1>11, <2>1, <3>1 DEF Owes
  <2> QED BY <2>2, <2>3, <2>4
<1> QED BY <1>1, <1>2, <1>4, <1>5, <1>6, <1>7, <1>8, <1>9, <1>10 DEF Step, TrainStep, Agent

\* The mirror is a finite set of steps after a step as well.
LEMMA LocalNext ==
    TypeOK' =>
        (/\ Complete \subseteq AllSteps /\ Complete \subseteq Nat
         /\ SetMax(Complete) \in Nat /\ \A s \in Complete : s <= SetMax(Complete)
         /\ Complete # {} => SetMax(Complete) \in Complete /\ SetMax(Complete) = Max(Complete))'
<1>1. TypeOK => /\ Complete \subseteq AllSteps /\ Complete \subseteq Nat
                /\ SetMax(Complete) \in Nat /\ \A s \in Complete : s <= SetMax(Complete)
                /\ Complete # {} => SetMax(Complete) \in Complete /\ SetMax(Complete) = Max(Complete)
  BY LocalTyped
<1> QED BY <1>1, PTL

\* A checkpoint that is in the mirror is not staged, so nobody replaces it.
LEMMA NothingAside ==
    ASSUME IInv, CInv, Step
    PROVE  \A n \in Nodes : aside'[n] = {} /\ pc'[n] # "replacing"
<1> USE DEF trainVars, agentVars
<1>0. /\ TypeOK /\ \A n \in Nodes : aside[n] = {} /\ pc[n] # "replacing"
      /\ aside \in [Nodes -> SUBSET SUBSET Shares]
      /\ pc \in [Nodes -> Places]
  BY DEF IInv, CInv, DoneInv, TypeOK, Phases, Places
<1>1. ASSUME NEW n \in Nodes, Lock(n) PROVE Min(todo[n]) \notin Complete \/ pc'[n] # "replacing"
  <2>1. Min(todo[n]) \in Complete => DirAt(Min(todo[n])).marks = {}
    BY DEF CInv, DoneInv, Staged, DirAt, EmptyDir
  <2>2. DirAt(Min(todo[n])).marks # {} \/ pc'[n] # "replacing"
    BY <1>0, <1>1 DEF Lock, SettleEnds, Goto
  <2> QED BY <2>1, <2>2
<1>2. CASE Save \/ EndTraining \/ Finish \/ Done
  BY <1>0, <1>2, JobKeeps
<1>3. CASE Restart
  BY <1>3 DEF Restart
<1>4. ASSUME NEW n \in Nodes, TrainStep(n)
      PROVE  \A m \in Nodes : aside'[m] = {} /\ pc'[m] # "replacing"
  BY <1>0, <1>4, TrainKeeps
<1>5. ASSUME NEW n \in Nodes, Agent(n), ~Lock(n)
      PROVE  \A m \in Nodes : aside'[m] = {} /\ pc'[m] # "replacing"
  <2>1. ~SetAside(n)
    BY <1>0 DEF SetAside
  <2>2. \A m \in Nodes \ {n} : pc'[m] = pc[m]
    BY <1>0, <1>5, AgentKeeps
  <2>3. pc'[n] # "replacing"
    BY <1>0, <1>5, Moves
  <2>4. aside' = aside \/ aside' = [aside EXCEPT ![n] = {}]
    BY <1>5, <2>1 DEF Agent, CopyStart, CopyDone, Mark, List, Look, Publish,
       PublishFails, TrimMirror, TrimEnds, DropDead, DropEnds
  <2> QED BY <1>0, <2>2, <2>3, <2>4
<1>6. ASSUME NEW n \in Nodes, Lock(n)
      PROVE  \A m \in Nodes : aside'[m] = {} /\ pc'[m] # "replacing"
  <2>1. UNCHANGED aside /\ \A m \in Nodes \ {n} : pc'[m] = pc[m]
    BY <1>0, <1>6, AgentKeeps DEF Agent, Lock
  <2>2. Min(todo[n]) \notin Complete => pc'[n] # "replacing"
    BY <1>0, <1>6 DEF Lock, Goto, SettleEnds
  <2> QED BY <1>0, <1>1, <1>6, <2>1, <2>2
<1> QED BY <1>2, <1>3, <1>4, <1>5, <1>6 DEF Step

\* The newest checkpoint of the mirror only gets newer.
LEMMA NewestGrows ==
    ASSUME IInv, CInv, Step
    PROVE  SetMax(Complete) <= SetMax(Complete') /\ SetMax(Complete) \in Nat /\ SetMax(Complete') \in Nat
<1>1. SetMax(Complete) \in Nat /\ SetMax(Complete') \in Nat
  BY TypeStep, LocalTyped, LocalNext DEF IInv
<1>2. Held = Complete
  BY DEF CInv, DoneInv, Held
<1>3. Held' = Complete'
  BY NothingAside DEF Held
<1>4. CASE ~Restart
  BY <1>2, <1>3, <1>4, HeldGrows
<1>5. CASE Restart
  <2>1. Complete' = Complete
    BY <1>5 DEF Restart, Complete
  <2> QED BY <1>1, <2>1
<1> QED BY <1>1, <1>4, <1>5

\* The run is the same one, and so are the names of its directories.
LEMMA SameRun ==
    ASSUME TypeOK, Step, ~Restart
    PROVE  attempt' = attempt /\ \A s : Key(s)' = Key(s)
<1>1. attempt' = attempt
  BY JobKeeps, TrainKeeps, AgentKeeps DEF Step, trainVars
<1> QED BY <1>1 DEF Key, Scope

-----------------------------------------------------------------------------
(* What becomes of a staging directory.                                    *)

\* Node n put its marker in the directory of checkpoint s.
Marked(n, s) ==
    /\ pc[n] = "marking" /\ queue[n] # <<>> /\ s = Head(queue[n])
    /\ pc'[n] = "listing" /\ failed'[n] = failed[n] \ {s}
    /\ UNCHANGED <<queue, phase, trained>>

\* It appears when somebody copies or marks who owes it, keeps its markers, and goes
\* when it is published or dead.
LEMMA StagingStep ==
    ASSUME IInv, CInv, Step, ~Restart, NEW s \in Steps
    PROVE  /\ Staged(s)' => \/ Staged(s)
                            \/ \E n \in Nodes : Owes(n, s)
           /\ Staged(s)' => \A n \in staging'[Key(s)].marks :
                  (Staged(s) /\ n \in staging[Key(s)].marks) \/ Marked(n, s)
           /\ Staged(s) /\ Staged(s)' => staging[Key(s)].marks \subseteq staging'[Key(s)].marks
           /\ Staged(s) /\ Staged(s)' /\ s > SetMax(Complete) =>
                  staging[Key(s)].shares \subseteq staging'[Key(s)].shares
           /\ Staged(s) /\ s > SetMax(Complete) =>
                  \/ Staged(s)'
                  \/ \E n \in Nodes : Publish(n) /\ Min(todo[n]) = s
<1> USE DEF trainVars, agentVars
<1> DEFINE Claim ==
      /\ Staged(s)' => \/ Staged(s)
                       \/ \E n \in Nodes : Owes(n, s)
      /\ Staged(s)' => \A n \in staging'[Key(s)].marks :
             (Staged(s) /\ n \in staging[Key(s)].marks) \/ Marked(n, s)
      /\ Staged(s) /\ Staged(s)' => staging[Key(s)].marks \subseteq staging'[Key(s)].marks
      /\ Staged(s) /\ Staged(s)' /\ s > SetMax(Complete) =>
             staging[Key(s)].shares \subseteq staging'[Key(s)].shares
      /\ Staged(s) /\ s > SetMax(Complete) =>
             \/ Staged(s)'
             \/ \E n \in Nodes : Publish(n) /\ Min(todo[n]) = s
<1>0. /\ TypeOK /\ AgentInv /\ s \in Nat /\ SetMax(Complete) \in Nat
      /\ \A k \in DOMAIN staging : staging[k] \in Dirs /\ k = <<k[1], k[2]>>
      /\ phase \in [Nodes -> Phases]
      /\ failed \in [Nodes -> SUBSET Steps]
      /\ pc \in [Nodes -> Places]
  <2>1. TypeOK /\ AgentInv /\ ControlOK /\ StagingOK
    BY TypeParts DEF IInv
  <2>2. s \in Nat /\ SetMax(Complete) \in Nat
    BY <2>1, MirrorAssumption, LocalTyped
  <2>3. \A k \in DOMAIN staging : staging[k] \in Dirs /\ k = <<k[1], k[2]>>
    BY <2>1 DEF StagingOK
  <2> QED BY <2>1, <2>2, <2>3 DEF ControlOK
<1>11. Staged(s)' <=> Key(s) \in DOMAIN staging'
  BY <1>0, SameRun DEF Staged
<1>12. Staged(s) <=> Key(s) \in DOMAIN staging
  BY DEF Staged
<1>13. Key(s)[2] = s
  BY DEF Key
<1>1. ASSUME DOMAIN staging' = DOMAIN staging,
             \A k \in DOMAIN staging :
                 staging'[k].marks = staging[k].marks /\ staging[k].shares \subseteq staging'[k].shares
      PROVE  Claim
  BY <1>1, <1>11, <1>12
<1>2. CASE Save \/ EndTraining \/ Finish \/ Done
  <2>1. UNCHANGED staging
    BY <1>2, JobKeeps
  <2> QED BY <1>1, <2>1
<1>3. ASSUME NEW n \in Nodes,
             TrainStep(n) \/ List(n) \/ Look(n) \/ SetAside(n) \/ TrimMirror(n) \/ TrimEnds(n)
      PROVE  Claim
  <2>1. UNCHANGED staging
    BY <1>0, <1>3, TrainKeeps DEF List, Look, SetAside, TrimMirror, TrimEnds
  <2> QED BY <1>1, <2>1
<1>4. ASSUME NEW n \in Nodes, CopyDone(n) PROVE Claim
  <2>1. \/ UNCHANGED staging
        \/ staging' = [staging EXCEPT ![Key(Head(queue[n]))].shares = @ \cup {<<attempt, n>>}]
    BY <1>4 DEF CopyDone
  <2>2. /\ DOMAIN staging' = DOMAIN staging
        /\ \A k \in DOMAIN staging :
               staging'[k].marks = staging[k].marks /\ staging[k].shares \subseteq staging'[k].shares
    BY <1>0, <2>1 DEF Dirs
  <2> QED BY <1>1, <2>2
<1>5. ASSUME NEW n \in Nodes, Lock(n) \/ PublishFails(n) PROVE Claim
  <2>1. UNCHANGED staging \/ \E k : \E b \in BOOLEAN : staging' = [staging EXCEPT ![k].lock = b]
    BY <1>5 DEF Lock, PublishFails, Unlocked
  <2>2. /\ DOMAIN staging' = DOMAIN staging
        /\ \A k \in DOMAIN staging :
               staging'[k].marks = staging[k].marks /\ staging[k].shares \subseteq staging'[k].shares
    BY <1>0, <2>1 DEF Dirs
  <2> QED BY <1>1, <2>2
<1>6. ASSUME NEW n \in Nodes, CopyStart(n) \/ Mark(n) PROVE Claim
  <2>1. queue[n] # <<>> /\ Head(queue[n]) \in Steps /\ pc[n] \in {"idle", "marking"}
    BY <1>0, <1>6, BusyWith DEF CopyStart, Mark
  <2>2. Owes(n, Head(queue[n]))
    BY <2>1, HeadIsOwed DEF IInv
  <2>3. CASE UNCHANGED staging
    BY <1>1, <2>3
  <2>4. CASE CopyStart(n) /\ staging' = Put(staging, Key(Head(queue[n])), DirAt(Head(queue[n])))
    <3>1. CASE s # Head(queue[n])
      <4>1. Key(s) # Key(Head(queue[n]))
        BY <3>1 DEF Key
      <4> QED BY <1>11, <1>12, <2>4, <4>1 DEF Put
    <3>2. CASE s = Head(queue[n])
      <4>1. Key(s) \in DOMAIN staging' /\ staging'[Key(s)] = DirAt(s)
        BY <2>4, <3>2 DEF Put
      <4>2. IF Key(s) \in DOMAIN staging THEN DirAt(s) = staging[Key(s)] ELSE DirAt(s).marks = {}
        BY DEF DirAt, EmptyDir
      <4> QED BY <1>11, <1>12, <2>2, <3>2, <4>1, <4>2
    <3> QED BY <3>1, <3>2
  <2>5. CASE Mark(n) /\ ~UNCHANGED staging
    <3> DEFINE h == Head(queue[n])
    <3>1. /\ staging' = Put(staging, Key(h), [DirAt(h) EXCEPT !.marks = @ \cup {n}])
          /\ Marked(n, h)
      BY <1>0, <2>1, <2>5 DEF Mark, Marked, Goto, CopyFails
    <3>2. CASE s # h
      <4>1. Key(s) # Key(h)
        BY <3>2 DEF Key
      <4> QED BY <1>11, <1>12, <3>1, <4>1 DEF Put
    <3>3. CASE s = h
      <4>1. DirAt(s) \in Dirs
        BY <1>0, DirTyped
      <4>2. /\ Key(s) \in DOMAIN staging' /\ staging'[Key(s)].marks = DirAt(s).marks \cup {n}
            /\ staging'[Key(s)].shares = DirAt(s).shares
        BY <3>1, <3>3, <4>1 DEF Put, Dirs
      <4>3. IF Key(s) \in DOMAIN staging THEN DirAt(s) = staging[Key(s)] ELSE DirAt(s).marks = {}
        BY DEF DirAt, EmptyDir
      <4> QED BY <1>11, <1>12, <2>2, <3>1, <3>3, <4>2, <4>3
    <3> QED BY <3>2, <3>3
  <2> QED BY <1>6, <2>3, <2>4, <2>5 DEF CopyStart
<1>7. ASSUME NEW n \in Nodes, Publish(n) PROVE Claim
  <2>1. /\ DOMAIN staging' = DOMAIN staging \ {Key(Min(todo[n]))}
        /\ \A k \in DOMAIN staging' : staging'[k] = staging[k]
    BY <1>7 DEF Publish, Without
  <2>2. Key(s) = Key(Min(todo[n])) => Min(todo[n]) = s
    BY DEF Key
  <2> QED BY <1>7, <1>11, <1>12, <2>1, <2>2
<1>8. ASSUME NEW n \in Nodes, DropDead(n) PROVE Claim
  <2> DEFINE dead == IF Complete = {} THEN {} ELSE OlderThan(Max(Complete))
  <2>1. staging' = [k \in DOMAIN staging |->
                       IF k \in dead THEN [staging[k] EXCEPT !.shares = {}] ELSE staging[k]]
    BY <1>8 DEF DropDead
  <2>2. Key(s) \in dead => s < SetMax(Complete)
    BY <1>13 DEF OlderThan, SetMax
  <2> HIDE DEF dead
  <2>3. /\ DOMAIN staging' = DOMAIN staging
        /\ \A k \in DOMAIN staging : /\ staging'[k].marks = staging[k].marks
                                     /\ k \notin dead => staging'[k].shares = staging[k].shares
    BY <1>0, <2>1 DEF Dirs
  <2>4. ~ (s < SetMax(Complete) /\ s > SetMax(Complete))
    BY <1>0
  <2> QED BY <1>11, <1>12, <2>2, <2>3, <2>4
<1>9. ASSUME NEW n \in Nodes, DropEnds(n) PROVE Claim
  <2>1. /\ \A k \in DOMAIN staging : k \in DOMAIN staging' \/ k[2] \in todo[n]
        /\ DOMAIN staging' \subseteq DOMAIN staging
        /\ \A k \in DOMAIN staging' : staging'[k] = staging[k]
    BY <1>9 DEF DropEnds, Without
  <2>2. s \in todo[n] => s < SetMax(Complete)
    BY <1>9 DEF DropEnds, CInv, DeadInv
  <2>3. ~ (s < SetMax(Complete) /\ s > SetMax(Complete))
    BY <1>0
  <2> QED BY <1>11, <1>12, <1>13, <2>1, <2>2, <2>3
<1>10. Claim
  BY <1>2, <1>3, <1>4, <1>5, <1>6, <1>7, <1>8, <1>9 DEF Step, Agent
<1> QED BY <1>10

\* A share whose marker was put is not owed.
LEMMA MarkedIsNotOwed ==
    ASSUME IInv, NEW n \in Nodes, NEW s \in Steps, Marked(n, s)
    PROVE  ~Owes(n, s)'
<1>1. /\ s = Head(queue[n]) /\ s \notin failed'[n] /\ pc'[n] = "listing"
      /\ UNCHANGED <<queue, phase, trained>> /\ queue[n] # <<>>
  BY DEF Marked
<1>2. /\ s <= trained /\ (phase[n] = "submit" => s < trained) /\ s \in Nat /\ trained \in Nat
      /\ \A i \in DOMAIN queue[n] : i # 1 => queue[n][i] # s
  BY <1>1, QueueHead, MirrorAssumption DEF IInv, QueueInv, TypeOK
<1>3. ~ s > trained /\ ~ (phase[n] = "submit" /\ s = trained)
  BY <1>2
<1> QED BY <1>1, <1>2, <1>3 DEF Owes

\* Steps are naturals, and not 0.
LEMMA StepIsNat ==
    ASSUME NEW s \in AllSteps
    PROVE  s \in Nat /\ s # 0 /\ s > 0
  BY StepsFinite

\* What gets into the mirror was published, by a node that saw every marker.
LEMMA NewInMirror ==
    ASSUME IInv, CInv, Step, NEW s \in Complete', s \notin Complete
    PROVE  \E n \in Nodes : Publish(n) /\ s = Min(todo[n])
<1> USE DEF trainVars, agentVars
<1>1. TypeOK /\ \A n \in Nodes : aside[n] = {}
  BY DEF IInv, CInv, DoneInv
<1>2. CASE Save \/ EndTraining \/ Finish \/ Done \/ Restart
  BY <1>2, JobKeeps DEF Restart, Complete
<1>3. ASSUME NEW n \in Nodes, TrainStep(n) PROVE FALSE
  BY <1>1, <1>3, TrainKeeps DEF Complete
<1>4. ASSUME NEW n \in Nodes, Agent(n), ~Publish(n) PROVE FALSE
  BY <1>1, <1>4 DEF Agent, CopyStart, CopyDone, Mark, List, Look, Lock, SetAside,
     PublishFails, PutBack, TrimMirror, TrimEnds, DropDead, DropEnds, Without, Complete
<1>5. ASSUME NEW n \in Nodes, Publish(n) PROVE s = Min(todo[n])
  BY <1>5 DEF Publish, Put, Complete
<1> QED BY <1>2, <1>3, <1>4, <1>5 DEF Step

\* Every step keeps DoneInv.
LEMMA DoneStep ==
    ASSUME IInv, CInv, Step
    PROVE  DoneInv'
<1>0. TypeOK /\ AgentInv /\ TypeOK' /\ ScopeInv
  BY TypeStep DEF IInv
<1>1. \A n \in Nodes : aside'[n] = {} /\ pc'[n] # "replacing"
  BY NothingAside
<1> SUFFICES ASSUME NEW s \in Complete' PROVE ~Staged(s)' /\ \A n \in Nodes : ~Owes(n, s)'
  BY <1>1 DEF DoneInv
<1>2. s \in AllSteps /\ s \in Nat
  BY <1>0, LocalNext, StepIsNat
<1>3. CASE Restart
  <2>1. staging' = [k \in {} |-> EmptyDir] /\ SetMax(Complete) <= trained' /\ trained' \in Nat
    BY <1>0, <1>3, RestartClears
  <2>2. DOMAIN staging' = {}
    BY <2>1
  <2>3. s \in Complete
    BY <1>3 DEF Restart, Complete
  <2>4. SetMax(Complete) \in Nat /\ s <= SetMax(Complete)
    BY <1>0, <2>3, LocalTyped
  <2>5. ~ s > trained'
    BY <1>2, <2>1, <2>4
  <2>6. \A n \in Nodes : failed'[n] = {} /\ queue'[n] = <<>> /\ phase'[n] = "run"
    BY <1>3 DEF Restart
  <2>7. DOMAIN <<>> = {}
    OBVIOUS
  <2> QED BY <2>2, <2>5, <2>6, <2>7 DEF Owes, Staged
<1>4. CASE ~Restart
  <2>1. CASE s \in Complete
    <3>1. ~Staged(s) /\ \A n \in Nodes : ~Owes(n, s)
      BY <2>1 DEF CInv, DoneInv
    <3>2. \A n \in Nodes : ~Owes(n, s)'
      BY <1>2, <1>4, <3>1, OwesShrinks
    <3>3. ASSUME Staged(s)' PROVE s \in Steps
      <4>1. Key(s)' \in (1 .. MaxAttempts) \X Steps /\ Key(s)' = <<attempt', s>>
        BY <1>0, <3>3 DEF Staged, TypeOK, Key, Scope
      <4> QED BY <4>1
    <3>4. ~Staged(s)'
      BY <1>4, <3>1, <3>3, StagingStep
    <3> QED BY <3>2, <3>4
  <2>2. CASE s \notin Complete
    <3>1. PICK n \in Nodes : Publish(n) /\ s = Min(todo[n])
      BY <2>2, NewInMirror
    <3>2. \A m \in Nodes : ~Owes(m, s)
      BY <3>1 DEF Publish, CInv, PlaceInv
    <3>3. \A m \in Nodes : ~Owes(m, s)'
      BY <1>2, <1>4, <3>2, OwesShrinks
    <3>4. Key(s) \notin DOMAIN staging' /\ Key(s)' = Key(s)
      BY <1>0, <1>4, <3>1, SameRun DEF Publish, Without
    <3> QED BY <3>3, <3>4 DEF Staged
  <2> QED BY <2>1, <2>2
<1> QED BY <1>3, <1>4

\* Every step keeps MarkInv.
LEMMA MarkStep ==
    ASSUME IInv, CInv, Step
    PROVE  MarkInv'
<1> SUFFICES ASSUME NEW s \in Steps, Staged(s)', NEW n \in staging'[Key(s)'].marks
             PROVE  /\ ~Owes(n, s)'
                    /\ s > SetMax(Complete') => <<attempt', n>> \in staging'[Key(s)'].shares
  BY DEF MarkInv
<1>1. CASE Restart
  <2>1. staging' = [k \in {} |-> EmptyDir]
    BY <1>1, RestartClears DEF IInv
  <2> QED BY <2>1 DEF Staged
<1>2. CASE ~Restart
  <2>1. Key(s)' = Key(s) /\ attempt' = attempt
    BY <1>2, SameRun DEF IInv
  <2>2. s \in Nat /\ n \in Nodes
    <3>1. TypeOK'
      BY TypeStep
    <3>2. staging'[Key(s)'].marks \subseteq Nodes
      BY <3>1 DEF TypeOK, Staged
    <3> QED BY <3>2, MirrorAssumption
  <2>3. s > SetMax(Complete') => s > SetMax(Complete)
    BY <2>2, NewestGrows
  <2>4. CASE Staged(s) /\ n \in staging[Key(s)].marks
    <3>1. ~Owes(n, s) /\ (s > SetMax(Complete) => <<attempt, n>> \in staging[Key(s)].shares)
      BY <2>4 DEF CInv, MarkInv
    <3>2. ~Owes(n, s)'
      BY <1>2, <2>2, <3>1, OwesShrinks
    <3>3. s > SetMax(Complete) => staging[Key(s)].shares \subseteq staging'[Key(s)].shares
      BY <1>2, <2>4, StagingStep
    <3> QED BY <2>1, <2>3, <3>1, <3>2, <3>3
  <2>5. CASE Marked(n, s)
    <3>1. ~Owes(n, s)'
      BY <2>2, <2>5, MarkedIsNotOwed
    <3>2. s > SetMax(Complete) => Staged(s) /\ <<attempt, n>> \in staging[Key(s)].shares
      BY <2>2, <2>5 DEF CInv, CopyInv, Marked
    <3>3. s > SetMax(Complete) => staging[Key(s)].shares \subseteq staging'[Key(s)].shares
      BY <1>2, <3>2, StagingStep
    <3> QED BY <2>1, <2>3, <3>1, <3>2, <3>3
  <2>6. (Staged(s) /\ n \in staging[Key(s)].marks) \/ Marked(n, s)
    BY <1>2, <2>1, StagingStep
  <2> QED BY <2>4, <2>5, <2>6
<1> QED BY <1>1, <1>2

\* Who copies or marks after a step began just now, or went on with the same checkpoint.
LEMMA CopyingStep ==
    ASSUME IInv, Step, NEW n \in Nodes, pc'[n] \in {"copying", "marking"}
    PROVE  /\ ~Restart
           /\ ~CopyStart(n) =>
                  /\ pc[n] \in {"copying", "marking"} /\ queue[n] # <<>>
                  /\ Head(queue'[n]) = Head(queue[n])
                  /\ pc'[n] = pc[n] \/ (pc[n] = "copying" /\ CopyDone(n) /\ pc'[n] = "marking")
<1> USE DEF trainVars, agentVars
<1>0. TypeOK /\ AgentInv /\ queue \in [Nodes -> Seq(Steps)] /\ pc \in [Nodes -> Places]
  BY DEF IInv, TypeOK, Places
<1>1. ~Restart
  BY DEF Restart
<1>2. CASE CopyStart(n)
  BY <1>1, <1>2
<1>3. CASE ~CopyStart(n)
  <2>1. CASE Save \/ EndTraining \/ Finish \/ Done
    BY <1>0, <1>1, <2>1, JobKeeps, BusyWith
  <2>2. ASSUME NEW m \in Nodes, m # n, Agent(m) PROVE pc'[n] = pc[n] /\ queue'[n] = queue[n]
    BY <1>0, <2>2, AgentKeeps
  <2>3. ASSUME Agent(n)
        PROVE  pc[n] = "copying" /\ CopyDone(n) /\ pc'[n] = "marking" /\ queue'[n] = queue[n]
    <3>1. CopyDone(n) /\ pc'[n] = "marking"
      BY <1>0, <1>3, <2>3, Moves DEF CopyDone, CopyFails, Goto
    <3> QED BY <1>0, <3>1 DEF CopyDone, CopyFails, Goto
  <2>4. ASSUME NEW m \in Nodes, TrainStep(m)
        PROVE  pc'[n] = pc[n] /\ Head(queue'[n]) = Head(queue[n])
    <3>1. pc'[n] = pc[n]
      BY <1>0, <2>4, TrainKeeps
    <3>2. queue[n] # <<>> /\ pc[n] # "idle"
      BY <1>0, <3>1, BusyWith
    <3>3. CASE OnSave(m)
      <4>1. trained \in Steps
        BY <3>3 DEF OnSave, IInv, QueueInv
      <4>2. queue'[n] = queue[n] \/ queue'[n] = Append(queue[n], trained)
        BY <1>0, <3>3 DEF OnSave, Submit
      <4> QED BY <1>0, <3>1, <3>2, <4>1, <4>2, Appended
    <3>4. CASE DrainRetry(m)
      BY <1>0, <3>1, <3>2, <3>4 DEF DrainRetry, Submit
    <3>5. CASE DrainSettle(m) \/ DrainEnd(m)
      BY <3>1, <3>5 DEF DrainSettle, DrainEnd
    <3> QED BY <2>4, <3>3, <3>4, <3>5 DEF TrainStep
  <2>5. /\ pc[n] \in {"copying", "marking"} /\ Head(queue'[n]) = Head(queue[n])
        /\ pc'[n] = pc[n] \/ (pc[n] = "copying" /\ CopyDone(n) /\ pc'[n] = "marking")
    BY <1>1, <2>1, <2>2, <2>3, <2>4, JobKeeps DEF Step
  <2> QED BY <1>0, <1>1, <1>3, <2>5, BusyWith
<1> QED BY <1>2, <1>3

\* Nobody removes the directory of a checkpoint that is owed and newer than the mirror's.
LEMMA Undisturbed ==
    ASSUME IInv, CInv, Step, ~Restart, NEW n \in Nodes, ~CopyStart(n),
           pc[n] \in {"copying", "marking"}, Head(queue[n]) > SetMax(Complete)
    PROVE  intact'[n] = intact[n]
<1> USE DEF trainVars, agentVars
<1> DEFINE h == Head(queue[n])
<1>0. TypeOK /\ AgentInv /\ intact \in [Nodes -> BOOLEAN] /\ SetMax(Complete) \in Nat
  BY LocalTyped DEF IInv, TypeOK
<1>1. h \in Nat /\ Owes(n, h) /\ ~ h < SetMax(Complete) /\ Key(h)[2] = h
  <2>1. queue[n] # <<>> /\ h \in Nat
    BY <1>0, BusyWith, MirrorAssumption
  <2>2. Owes(n, h)
    BY <2>1, HeadIsOwed
  <2>3. ~ h < SetMax(Complete)
    BY <1>0, <2>1
  <2>4. Key(h)[2] = h
    BY DEF Key
  <2> QED BY <2>1, <2>2, <2>3, <2>4
<1>2. ASSUME NEW K, intact' = Disturbed(K), Key(h) \notin K PROVE intact'[n] = intact[n]
  BY <1>0, <1>2 DEF Disturbed
<1>3. ASSUME NEW m \in Nodes, Publish(m) PROVE intact'[n] = intact[n]
  <2>1. Min(todo[m]) # h /\ intact' = Disturbed({Key(Min(todo[m]))})
    BY <1>1, <1>3 DEF Publish, CInv, PlaceInv
  <2>2. Key(h) # Key(Min(todo[m]))
    BY <2>1 DEF Key
  <2> QED BY <1>2, <2>1, <2>2
<1>4. ASSUME NEW m \in Nodes, DropDead(m) PROVE intact'[n] = intact[n]
  <2>1. Key(h) \notin (IF Complete = {} THEN {} ELSE OlderThan(Max(Complete)))
    BY <1>1 DEF OlderThan, SetMax
  <2> QED BY <1>2, <1>4, <2>1 DEF DropDead
<1>5. ASSUME NEW m \in Nodes, DropEnds(m) PROVE intact'[n] = intact[n]
  <2>1. h \notin todo[m]
    BY <1>1, <1>5 DEF DropEnds, CInv, DeadInv
  <2>2. Key(h) \notin {k \in DOMAIN staging : k[2] \in todo[m]}
    BY <1>1, <2>1
  <2> QED BY <1>2, <1>5, <2>2 DEF DropEnds
<1>6. CASE Save \/ EndTraining \/ Finish \/ Done
  BY <1>6, JobKeeps
<1>7. ASSUME NEW m \in Nodes, TrainStep(m) PROVE intact'[n] = intact[n]
  BY <1>0, <1>7, TrainKeeps
<1>8. ASSUME NEW m \in Nodes, Agent(m), ~Publish(m), ~DropDead(m), ~DropEnds(m)
      PROVE  intact'[n] = intact[n]
  BY <1>0, <1>8 DEF Agent, CopyStart, CopyDone, Mark, List, Look, Lock, SetAside, PublishFails,
     TrimMirror, TrimEnds
<1> QED BY <1>3, <1>4, <1>5, <1>6, <1>7, <1>8 DEF Step

\* Every step keeps CopyInv.
LEMMA CopyStep ==
    ASSUME IInv, CInv, Step
    PROVE  CopyInv'
<1> USE DEF trainVars, agentVars
<1>0. /\ TypeOK /\ AgentInv /\ queue \in [Nodes -> Seq(Steps)] /\ intact \in [Nodes -> BOOLEAN]
      /\ pc \in [Nodes -> Places]
  BY DEF IInv, TypeOK, Places
<1> SUFFICES ASSUME NEW n \in Nodes, pc'[n] \in {"copying", "marking"},
                    NEW h, h = Head(queue'[n]), h > SetMax(Complete')
             PROVE  /\ <<attempt', h>> \in DOMAIN staging'
                    /\ pc'[n] = "copying" => intact'[n]
                    /\ pc'[n] = "marking" => <<attempt', n>> \in staging'[<<attempt', h>>].shares
  BY DEF CopyInv, Staged, Key, Scope
<1>1. ~Restart
  BY CopyingStep
<1>2. attempt' = attempt /\ Key(h)' = Key(h) /\ Key(h) = <<attempt, h>>
  BY <1>0, <1>1, SameRun DEF Key, Scope
<1>3. CASE CopyStart(n)
  <2>1. pc'[n] = "copying" /\ queue' = queue /\ intact'[n] /\ Key(Head(queue[n])) \in DOMAIN staging'
    BY <1>0, <1>3 DEF CopyStart, CopyFails, Goto, Put
  <2> QED BY <1>2, <2>1 DEF Key, Scope
<1>4. CASE ~CopyStart(n)
  <2>1. /\ h = Head(queue[n]) /\ queue[n] # <<>> /\ pc[n] \in {"copying", "marking"}
        /\ pc'[n] = pc[n] \/ (pc[n] = "copying" /\ CopyDone(n) /\ pc'[n] = "marking")
    BY <1>4, CopyingStep
  <2>2. h \in Steps /\ h \in Nat /\ Owes(n, h)
    BY <1>0, <2>1, BusyWith, HeadIsOwed, MirrorAssumption
  <2>3. h > SetMax(Complete)
    BY <2>2, NewestGrows
  <2>4. /\ Staged(h)
        /\ pc[n] = "copying" => intact[n]
        /\ pc[n] = "marking" => <<attempt, n>> \in staging[Key(h)].shares
    BY <2>1, <2>3 DEF CInv, CopyInv
  <2>5. \A m \in Nodes : Publish(m) => Min(todo[m]) # h
    BY <2>2 DEF Publish, CInv, PlaceInv
  <2>6. Staged(h)' /\ staging[Key(h)].shares \subseteq staging'[Key(h)].shares
    BY <1>1, <2>2, <2>3, <2>4, <2>5, StagingStep
  <2>7. CASE pc'[n] = pc[n]
    <3>1. intact'[n] = intact[n]
      BY <1>1, <1>4, <2>1, <2>3, Undisturbed
    <3> QED BY <1>2, <2>1, <2>4, <2>6, <2>7, <3>1 DEF Staged
  <2>8. CASE pc[n] = "copying" /\ CopyDone(n) /\ pc'[n] = "marking"
    <3>1. Key(h) \in DOMAIN staging /\ intact[n] /\ staging[Key(h)] \in Dirs
      BY <1>0, <2>4, <2>8 DEF Staged, TypeOK, Dirs
    <3>2. staging' = [staging EXCEPT ![Key(h)].shares = @ \cup {<<attempt, n>>}]
      BY <1>0, <2>1, <2>8, <3>1 DEF CopyDone, CopyFails, Goto
    <3>3. <<attempt, n>> \in staging'[Key(h)].shares
      BY <3>1, <3>2 DEF Dirs
    <3> QED BY <1>2, <2>6, <2>8, <3>3 DEF Staged
  <2> QED BY <2>1, <2>7, <2>8
<1> QED BY <1>3, <1>4

\* What an agent's list starts with while it places the checkpoint.
LEMMA PlacingStep ==
    ASSUME IInv, Step, NEW n \in Nodes, pc'[n] \in {"locking", "placing"}
    PROVE  /\ todo'[n] = todo[n] /\ ~Restart
           /\ \/ pc[n] \in {"locking", "placing", "replacing"}
              \/ AllMarkers(Min(todo[n])) /\ todo[n] # {}
<1> USE DEF trainVars, agentVars
<1>0. /\ TypeOK
      /\ pc \in [Nodes -> Places]
      /\ todo \in [Nodes -> SUBSET AllSteps]
  BY DEF IInv, TypeOK, AllSteps, Phases, Places
<1>1. ~Restart
  BY DEF Restart
<1>2. CASE Save \/ EndTraining \/ Finish \/ Done
  BY <1>1, <1>2, JobKeeps
<1>3. ASSUME NEW m \in Nodes, TrainStep(m)
      PROVE  todo'[n] = todo[n] /\ pc'[n] = pc[n]
  BY <1>0, <1>3, TrainKeeps
<1>4. ASSUME NEW m \in Nodes, m # n, Agent(m)
      PROVE  todo'[n] = todo[n] /\ pc'[n] = pc[n]
  BY <1>0, <1>4, AgentKeeps
<1>5. ASSUME Agent(n)
      PROVE  /\ todo'[n] = todo[n]
             /\ \/ pc[n] \in {"locking", "placing", "replacing"}
                \/ AllMarkers(Min(todo[n])) /\ todo[n] # {}
  <2>1. Look(n) \/ Lock(n) \/ SetAside(n)
    BY <1>0, <1>5, Moves
  <2> QED BY <1>0, <2>1 DEF Look, Lock, SetAside, Drop, Goto, SettleEnds
<1> QED BY <1>1, <1>2, <1>3, <1>4, <1>5 DEF Step

\* Every step keeps PlaceInv.
LEMMA PlaceStep ==
    ASSUME IInv, CInv, Step
    PROVE  PlaceInv'
<1> SUFFICES ASSUME NEW n \in Nodes, pc'[n] \in {"locking", "placing"}, NEW s, s = Min(todo'[n])
             PROVE  /\ \A m \in Nodes : ~Owes(m, s)'
                    /\ s > SetMax(Complete') /\ Staged(s)' => staging'[Key(s)'].marks = Nodes
  BY DEF PlaceInv, Owes, Staged, Key, Scope
<1>0. TypeOK /\ AgentInv /\ TypeOK'
  BY TypeStep DEF IInv
<1>1. todo'[n] = todo[n] /\ ~Restart
  BY PlacingStep
<1>2. todo[n] # {} /\ s = Min(todo[n])
  BY <1>0, <1>1, BusyWith, PlacingStep
<1>3. s \in AllSteps /\ s \in Nat
  BY <1>0, <1>2, BusyWith, StepIsNat
<1>4. /\ \A m \in Nodes : ~Owes(m, s)
      /\ s > SetMax(Complete) /\ Staged(s) => staging[Key(s)].marks = Nodes
  <2>1. CASE pc[n] \in {"locking", "placing", "replacing"}
    BY <1>2, <2>1 DEF CInv, PlaceInv, DoneInv
  <2>2. CASE AllMarkers(s)
    <3>1. Staged(s) /\ staging[Key(s)].marks = Nodes
      BY <2>2, MirrorAssumption DEF AllMarkers, DirAt, Staged, EmptyDir
    <3>2. s \in Steps
      <4>1. Key(s) \in (1 .. MaxAttempts) \X Steps /\ Key(s) = <<attempt, s>>
        BY <1>0, <3>1 DEF Staged, TypeOK, Key, Scope
      <4> QED BY <4>1
    <3> QED BY <3>1, <3>2 DEF CInv, MarkInv
  <2> QED BY <1>2, <2>1, <2>2, PlacingStep
<1>5. \A m \in Nodes : ~Owes(m, s)'
  BY <1>1, <1>3, <1>4, OwesShrinks
<1>6. ASSUME s > SetMax(Complete'), Staged(s)' PROVE staging'[Key(s)'].marks = Nodes
  <2>1. Key(s)' = Key(s)
    BY <1>0, <1>1, SameRun
  <2>2. s \in Steps
    <3>1. Key(s)' \in (1 .. MaxAttempts) \X Steps /\ Key(s)' = <<attempt', s>>
      BY <1>0, <1>6 DEF Staged, TypeOK, Key, Scope
    <3> QED BY <3>1
  <2>3. s > SetMax(Complete)
    BY <1>3, <1>6, NewestGrows
  <2>4. Staged(s)
    BY <1>1, <1>4, <1>6, <2>2, StagingStep
  <2>5. staging[Key(s)].marks \subseteq staging'[Key(s)].marks
    BY <1>1, <1>6, <2>2, <2>4, StagingStep
  <2>6. staging'[Key(s)'].marks \subseteq Nodes
    BY <1>0, <1>6 DEF TypeOK, Staged
  <2> QED BY <1>4, <2>1, <2>3, <2>4, <2>5, <2>6
<1> QED BY <1>5, <1>6

\* Every step keeps DeadInv.
LEMMA DeadStep ==
    ASSUME IInv, CInv, Step
    PROVE  DeadInv'
<1> USE DEF trainVars, agentVars
<1>0. /\ TypeOK
      /\ pc \in [Nodes -> Places]
      /\ todo \in [Nodes -> SUBSET AllSteps]
  BY DEF IInv, TypeOK, AllSteps, Phases, Places
<1> SUFFICES ASSUME NEW n \in Nodes, pc'[n] = "deleting", NEW s \in todo'[n]
             PROVE  s < SetMax(Complete')
  BY DEF DeadInv
<1>1. SetMax(Complete) \in Nat /\ SetMax(Complete') \in Nat /\ SetMax(Complete) <= SetMax(Complete')
  BY NewestGrows
<1>2. s \in AllSteps
  BY TypeStep DEF TypeOK, AllSteps
<1>3. s \in Nat
  BY <1>2, StepIsNat
<1>4. CASE DropDead(n)
  <2>1. PICK k \in (IF Complete = {} THEN {} ELSE OlderThan(Max(Complete))) : s = k[2]
    BY <1>0, <1>4 DEF DropDead
  <2>2. s < SetMax(Complete)
    BY <2>1 DEF OlderThan, SetMax
  <2> QED BY <1>1, <1>3, <2>2
<1>5. CASE pc[n] = "deleting" /\ todo'[n] = todo[n]
  <2>1. s < SetMax(Complete)
    BY <1>5 DEF CInv, DeadInv
  <2> QED BY <1>1, <1>3, <2>1
<1>6. CASE Save \/ EndTraining \/ Finish \/ Done \/ Restart
  BY <1>5, <1>6, JobKeeps DEF Restart
<1>7. ASSUME NEW m \in Nodes, TrainStep(m) PROVE pc[n] = "deleting" /\ todo'[n] = todo[n]
  BY <1>0, <1>7, TrainKeeps
<1>8. ASSUME NEW m \in Nodes, Agent(m), ~DropDead(n) PROVE pc[n] = "deleting" /\ todo'[n] = todo[n]
  BY <1>0, <1>8, AgentKeeps, Moves
<1> QED BY <1>4, <1>5, <1>6, <1>7, <1>8 DEF Step

\* Every step keeps ResumeIsWhole.
LEMMA ResumeStep ==
    ASSUME IInv, CInv, Step
    PROVE  ResumeIsWhole'
<1> USE DEF trainVars, agentVars
<1> SUFFICES ASSUME Complete' # {}, NEW s, s = Max(Complete') PROVE Whole(s)'
  BY DEF ResumeIsWhole, Whole
<1>0. TypeOK /\ AgentInv /\ TypeOK'
  BY TypeStep DEF IInv
<1>1. s \in Complete' /\ s = SetMax(Complete') /\ s \in Nat /\ s # 0
  BY <1>0, LocalNext, StepIsNat
<1>2. /\ SetMax(Complete) \in Nat /\ (Complete # {} => SetMax(Complete) = Max(Complete))
      /\ \A x \in Complete : x <= SetMax(Complete)
      /\ SetMax(Complete) <= s
  BY <1>0, <1>1, LocalTyped, NewestGrows
<1>3. CASE s \in Complete
  <2>1. s = Max(Complete)
    BY <1>1, <1>2, <1>3
  <2>2. Whole(s)
    BY <1>3, <2>1 DEF CInv, ResumeIsWhole
  <2>3. CASE final'[s] = final[s]
    BY <2>2, <2>3 DEF Whole
  <2>4. CASE Save \/ EndTraining \/ Finish \/ Done \/ Restart
    BY <2>3, <2>4, JobKeeps DEF Restart
  <2>5. ASSUME NEW n \in Nodes, TrainStep(n) PROVE Whole(s)'
    BY <1>0, <2>3, <2>5, TrainKeeps
  <2>6. ASSUME NEW n \in Nodes, Publish(n) PROVE Whole(s)'
    <3>1. s # Min(todo[n])
      BY <1>3, <2>6 DEF Publish, CanPlace
    <3> QED BY <1>3, <2>3, <2>6, <3>1 DEF Publish, Put, Complete
  <2>7. ASSUME NEW n \in Nodes, PublishFails(n) PROVE Whole(s)'
    <3>1. aside[n] = {}
      BY DEF CInv, DoneInv
    <3> QED BY <2>3, <2>7, <3>1 DEF PublishFails, PutBack
  <2>8. ASSUME NEW n \in Nodes, TrimMirror(n) PROVE Whole(s)'
    <3>1. s \notin Trim(Complete, Keep, seen[n])
      <4>1. \A x \in Trim(Complete, Keep, seen[n]) : x < SetMax(Complete)
        BY <1>0, LocalTyped, TrimSpares
      <4>2. ~ s < SetMax(Complete)
        BY <1>1, <1>2
      <4> QED BY <4>1, <4>2
    <3>2. final'[s] = final[s]
      BY <1>3, <2>8, <3>1 DEF TrimMirror
    <3> QED BY <2>3, <3>2
  <2>9. ASSUME NEW n \in Nodes, TrimEnds(n) PROVE Whole(s)'
    BY <1>1, <2>3, <2>9 DEF TrimEnds, Without, Complete
  <2>10. ASSUME NEW n \in Nodes, SetAside(n) PROVE Whole(s)'
    BY <2>10 DEF SetAside, CInv, DoneInv
  <2>11. ASSUME NEW n \in Nodes, \/ CopyStart(n) \/ CopyDone(n) \/ Mark(n) \/ List(n) \/ Look(n)
                                 \/ Lock(n) \/ DropDead(n) \/ DropEnds(n)
         PROVE  Whole(s)'
    <3>1. UNCHANGED final
      BY <2>11 DEF CopyStart, CopyDone, Mark, List, Look, Lock, DropDead, DropEnds
    <3> QED BY <2>3, <3>1
  <2> QED BY <2>4, <2>5, <2>6, <2>7, <2>8, <2>9, <2>10, <2>11 DEF Step, Agent
<1>4. CASE s \notin Complete
  <2>1. PICK n \in Nodes : Publish(n) /\ s = Min(todo[n])
    BY <1>1, <1>4, NewInMirror
  <2>2. Staged(s) /\ final'[s] = staging[Key(s)].shares
    BY <2>1 DEF Publish, CanPlace, Staged, Put
  <2>3. s > SetMax(Complete)
    <3>1. Complete # {} => SetMax(Complete) \in Complete
      BY <1>0, LocalTyped
    <3>2. Complete = {} => SetMax(Complete) = 0
      BY DEF SetMax
    <3> QED BY <1>1, <1>2, <1>4, <3>1, <3>2
  <2>4. staging[Key(s)].marks = Nodes
    BY <2>1, <2>2, <2>3 DEF Publish, CInv, PlaceInv
  <2>5. s \in Steps
    <3>1. Key(s) \in (1 .. MaxAttempts) \X Steps /\ Key(s) = <<attempt, s>>
      BY <1>0, <2>2 DEF Staged, TypeOK, Key, Scope
    <3> QED BY <3>1
  <2>6. \A m \in Nodes : <<attempt, m>> \in staging[Key(s)].shares
    BY <2>2, <2>3, <2>4, <2>5 DEF CInv, MarkInv
  <2>7. WholeShare(attempt) \subseteq final'[s] /\ attempt \in 0 .. MaxAttempts
    BY <1>0, <2>2, <2>6, MirrorAssumption DEF WholeShare, TypeOK
  <2> QED BY <2>7 DEF Whole, WholeShare
<1> QED BY <1>3, <1>4

-----------------------------------------------------------------------------
(* Bookkeeping that fails.                                                 *)

\* The agent is through with _settle, or with its rotation, and has nothing on its list.
LEMMA NeglectEnds ==
    ASSUME IInv, NEW n \in Nodes, Neglects(n)
    PROVE  /\ UNCHANGED <<trainVars, failed, aside>>
           /\ faults' \in 0 .. MaxFaults /\ neglected' = TRUE
           /\ pc[n] \notin {"idle", "copying", "marking", "replacing", "placing"}
           /\ \A m \in Nodes \ {n} : pc'[m] = pc[m] /\ todo'[m] = todo[m] /\ queue'[m] = queue[m]
           /\ pc' \in [Nodes -> Places] /\ pc'[n] \in {"idle", "dropping"}
           /\ todo' \in [Nodes -> SUBSET AllSteps] /\ todo'[n] = {}
           /\ pc'[n] = "dropping" => queue' = queue
           /\ UNCHANGED queue \/ (queue[n] # <<>> /\ queue' = [queue EXCEPT ![n] = Tail(@)])
           /\ phase[n] # "settle" \/ UNCHANGED queue
           /\ queue[n] = <<>> \/ pc'[n] = "dropping" \/ queue' = [queue EXCEPT ![n] = Tail(@)]
<1> USE DEF trainVars, agentVars, Places
<1>0. /\ TypeOK /\ AgentInv /\ pc \in [Nodes -> Places] /\ queue \in [Nodes -> Seq(Steps)]
      /\ todo \in [Nodes -> SUBSET AllSteps]
  BY DEF IInv, TypeOK, AllSteps
<1>1. /\ UNCHANGED <<trainVars, failed, aside>>
      /\ faults < MaxFaults /\ faults' = faults + 1 /\ neglected' = TRUE
      /\ todo' = [todo EXCEPT ![n] = {}]
      /\ pc[n] \in {"listing", "looking", "locking", "trimming", "dropping", "removing", "deleting"}
      /\ \/ SettleEnds(n)
         \/ pc' = [pc EXCEPT ![n] = "dropping"] /\ queue' = queue
  BY DEF Neglects, SettleFails, TrimFails, DropFails, Neglect, Fault, Goto
<1>2. faults' \in 0 .. MaxFaults
  BY <1>0, <1>1, MirrorAssumption DEF TypeOK
<1>3. phase[n] = "settle" => queue[n] = <<>>
  BY <1>0 DEF AgentInv
<1>4. phase[n] # "settle" => queue[n] # <<>>
  BY <1>0, <1>1 DEF AgentInv
<1>5. CASE SettleEnds(n)
  BY <1>0, <1>1, <1>2, <1>3, <1>4, <1>5 DEF SettleEnds, Goto
<1>6. CASE pc' = [pc EXCEPT ![n] = "dropping"] /\ queue' = queue
  BY <1>0, <1>1, <1>2, <1>6
<1> QED BY <1>1, <1>5, <1>6

\* What else may be gone is what it was about to remove, of the mirror or of what is staged.
LEMMA NeglectLeaves ==
    ASSUME IInv, NEW n \in Nodes, Neglects(n)
    PROVE  /\ DOMAIN staging' \subseteq DOMAIN staging
           /\ \A k \in DOMAIN staging' : staging'[k] = staging[k]
           /\ \A k \in DOMAIN staging : k \in DOMAIN staging' \/ (pc[n] = "deleting" /\ k[2] \in todo[n])
           /\ intact' \in [Nodes -> BOOLEAN]
           /\ \A m \in Nodes : \/ intact'[m] = intact[m]
                               \/ pc[n] = "deleting" /\ Head(queue[m]) \in todo[n]
           /\ Complete' \subseteq Complete /\ \A s \in Complete' : final'[s] = final[s]
           /\ \A s \in Complete : s \in Complete' \/ (pc[n] = "removing" /\ s \in todo[n])
<1>0. TypeOK /\ intact \in [Nodes -> BOOLEAN]
  BY DEF IInv, TypeOK
<1>1. CASE SettleFails(n)
  BY <1>0, <1>1 DEF SettleFails, Complete
<1>2. CASE TrimFails(n)
  <2>1. PICK S : S \subseteq todo[n] /\ final' = Without(final, S)
    BY <1>2 DEF TrimFails
  <2>2. UNCHANGED <<staging, intact>> /\ pc[n] = "removing"
    BY <1>2 DEF TrimFails
  <2>3. DOMAIN final' = DOMAIN final \ S /\ \A s \in DOMAIN final' : final'[s] = final[s]
    BY <2>1 DEF Without
  <2> QED BY <1>0, <2>1, <2>2, <2>3 DEF Complete
<1>3. CASE DropFails(n)
  <2>1. PICK s \in todo[n] :
            LET dead == {k \in DOMAIN staging : k[2] \in todo[n] \ {s}} IN
            staging' = Without(staging, dead) /\ intact' = Disturbed(dead)
    BY <1>3 DEF DropFails
  <2> DEFINE dead == {k \in DOMAIN staging : k[2] \in todo[n] \ {s}}
  <2>2. /\ DOMAIN staging' = DOMAIN staging \ dead
        /\ \A k \in DOMAIN staging' : staging'[k] = staging[k]
        /\ \A k \in dead : k[2] \in todo[n]
    BY <2>1 DEF Without
  <2>3. ASSUME NEW m \in Nodes
        PROVE  intact'[m] \in BOOLEAN /\ (intact'[m] = intact[m] \/ Head(queue[m]) \in todo[n])
    <3>1. intact'[m] = (intact[m] /\ ~(pc[m] = "copying" /\ Key(Head(queue[m])) \in dead))
      BY <2>1 DEF Disturbed
    <3>2. Key(Head(queue[m])) \in dead => Head(queue[m]) \in todo[n]
      BY DEF Key
    <3> QED BY <1>0, <3>1, <3>2
  <2>4. intact' \in [Nodes -> BOOLEAN]
    BY <1>0, <2>1 DEF Disturbed
  <2>5. UNCHANGED final /\ pc[n] = "deleting"
    BY <1>3 DEF DropFails
  <2> HIDE DEF dead
  <2> QED BY <1>0, <2>2, <2>3, <2>4, <2>5 DEF Complete
<1> QED BY <1>1, <1>2, <1>3 DEF Neglects

\* The newest that is held is not among it.
LEMMA NeglectHeld ==
    ASSUME IInv, NEW n \in Nodes, Neglects(n), TypeOK', AgentInv'
    PROVE  SetMax(Held) <= SetMax(Held') /\ SetMax(Held) \in Nat /\ SetMax(Held') \in Nat
<1>1. TypeOK /\ AgentInv /\ TrimInv
  BY DEF IInv
<1>2. SetMax(Held) \in Nat /\ (Held # {} => SetMax(Held) \in Held)
  BY <1>1, HeldTyped
<1>3. SetMax(Held') \in Nat /\ \A s \in Held' : s <= SetMax(Held')
  BY HeldNext
<1>4. CASE Held = {}
  BY <1>2, <1>3, <1>4 DEF SetMax
<1>5. CASE Held # {}
  <2>1. pc[n] = "removing" => SetMax(Held) \notin todo[n]
    <3>1. ~ SetMax(Held) < SetMax(Held)
      BY <1>2
    <3> QED BY <1>1, <3>1 DEF TrimInv
  <2>2. UNCHANGED aside /\ aside[n] = {} /\ \A m \in Nodes \ {n} : todo'[m] = todo[m]
    BY <1>1, NeglectEnds DEF AgentInv
  <2>3. SetMax(Held) \in Complete \/ \E m \in Nodes : aside[m] # {} /\ SetMax(Held) = Min(todo[m])
    BY <1>2, <1>5 DEF Held
  <2>4. SetMax(Held) \in Complete => SetMax(Held) \in Complete'
    BY <2>1, NeglectLeaves
  <2>5. SetMax(Held) \in Held'
    BY <2>2, <2>3, <2>4 DEF Held
  <2> QED BY <1>2, <1>3, <2>5
<1> QED BY <1>2, <1>3, <1>4, <1>5

\* It keeps IInv.
LEMMA NeglectStep ==
    ASSUME IInv, NEW n \in Nodes, Neglects(n)
    PROVE  IInv'
<1> USE DEF trainVars, agentVars
<1>0. /\ TypeOK /\ AgentInv /\ TrimInv /\ ScopeInv
      /\ queue \in [Nodes -> Seq(Steps)]
  BY DEF IInv, TypeOK
<1>1. queue' \in [Nodes -> Seq(Steps)]
  <2>1. queue[n] # <<>> => Tail(queue[n]) \in Seq(Steps)
    BY <1>0, HeadTail
  <2> QED BY <1>0, <2>1, NeglectEnds
<1>2. ControlOK'
  <2>1. ControlOK
    BY <1>0, TypeParts
  <2> QED BY <1>1, <2>1, NeglectEnds, NeglectLeaves DEF ControlOK, AllSteps
<1>3. StagingOK' /\ FinalOK' /\ aside' \in [Nodes -> SUBSET SUBSET Shares]
  <2>1. StagingOK /\ FinalOK /\ aside \in [Nodes -> SUBSET SUBSET Shares]
    BY <1>0, TypeParts
  <2> QED BY <2>1, NeglectEnds, NeglectLeaves DEF StagingOK, FinalOK
<1>4. TypeOK'
  BY <1>2, <1>3, NeglectEnds DEF TypeOK, ControlOK, StagingOK, FinalOK, Dirs, AllSteps, Phases, Places,
     Complete
<1>5. AgentInv'
  <2>1. UNCHANGED <<phase, aside>>
    BY NeglectEnds
  <2>2. /\ phase[n] = "settle" => queue'[n] = <<>>
        /\ pc'[n] # "idle" /\ phase[n] # "settle" => queue'[n] # <<>>
        /\ pc'[n] \notin {"copying", "marking", "locking", "replacing", "placing"} /\ aside[n] = {}
    BY <1>0, NeglectEnds DEF AgentInv
  <2>3. \A m \in Nodes \ {n} : pc'[m] = pc[m] /\ todo'[m] = todo[m] /\ queue'[m] = queue[m]
    BY NeglectEnds
  <2> QED BY <1>0, <2>1, <2>2, <2>3 DEF AgentInv
<1>6. QueueInv'
  <2>1. UNCHANGED <<trained, phase, failed>>
    BY NeglectEnds
  <2>2. UNCHANGED queue \/ (queue[n] # <<>> /\ queue' = [queue EXCEPT ![n] = Tail(@)])
    BY NeglectEnds
  <2> QED BY <2>1, <2>2, QueueLess
<1>7. TrimInv'
  <2>1. SetMax(Held) <= SetMax(Held') /\ SetMax(Held) \in Nat /\ SetMax(Held') \in Nat
    BY <1>4, <1>5, NeglectHeld
  <2>2. \A s \in AllSteps : s \in Nat /\ (s < SetMax(Held) => s < SetMax(Held'))
    BY <2>1, StepsFinite
  <2>3. \A m \in Nodes : pc'[m] = "removing" => pc[m] = "removing" /\ todo'[m] = todo[m]
    BY NeglectEnds
  <2>4. \A m \in Nodes : todo[m] \subseteq AllSteps
    BY <1>0 DEF TypeOK, AllSteps
  <2> QED BY <1>0, <2>2, <2>3, <2>4 DEF TrimInv
<1>8. ScopeInv'
  <2>1. UNCHANGED attempt /\ DOMAIN staging' \subseteq DOMAIN staging
    BY NeglectEnds, NeglectLeaves
  <2> QED BY <1>0, <2>1 DEF ScopeInv
<1> QED BY <1>4, <1>5, <1>6, <1>7, <1>8 DEF IInv

\* What a node owes afterwards, it owed before.
LEMMA NeglectOwes ==
    ASSUME IInv, NEW n \in Nodes, Neglects(n), NEW m \in Nodes, NEW s, Owes(m, s)'
    PROVE  Owes(m, s)
<1> USE DEF trainVars
<1>0. queue \in [Nodes -> Seq(Steps)]
  BY DEF IInv, TypeOK
<1>1. /\ UNCHANGED <<trained, phase, failed>>
      /\ \A x \in Nodes \ {n} : pc'[x] = pc[x] /\ queue'[x] = queue[x]
  BY NeglectEnds
<1>2. CASE m # n
  BY <1>1, <1>2 DEF Owes
<1>3. CASE m = n
  <2>1. \/ queue[n] = <<>> /\ queue'[n] = queue[n]
        \/ queue'[n] = queue[n] /\ pc'[n] \notin {"idle", "copying", "marking"}
        \/ queue[n] # <<>> /\ queue'[n] = Tail(queue[n])
    BY <1>0, NeglectEnds
  <2>2. CASE queue[n] = <<>> /\ queue'[n] = queue[n]
    <3>1. DOMAIN <<>> = {}
      OBVIOUS
    <3> QED BY <1>1, <1>3, <2>2, <3>1 DEF Owes
  <2>3. CASE queue'[n] = queue[n] /\ pc'[n] \notin {"idle", "copying", "marking"}
    BY <1>1, <1>3, <2>3 DEF Owes
  <2>4. CASE queue[n] # <<>> /\ queue'[n] = Tail(queue[n])
    <3>1. \A i \in DOMAIN queue'[n] : \E j \in DOMAIN queue[n] : j # 1 /\ queue'[n][i] = queue[n][j]
      BY <2>4, QueueHead
    <3> QED BY <1>1, <1>3, <3>1 DEF Owes
  <2> QED BY <2>1, <2>2, <2>3, <2>4
<1> QED BY <1>2, <1>3

\* The mirror keeps its newest checkpoint.
LEMMA NeglectNewest ==
    ASSUME IInv, CInv, NEW n \in Nodes, Neglects(n)
    PROVE  SetMax(Complete') = SetMax(Complete) /\ SetMax(Complete) \in Nat
<1>1. TypeOK /\ IInv' /\ TypeOK' /\ AgentInv'
  BY NeglectStep DEF IInv
<1>2. Held = Complete /\ Held' = Complete'
  BY NeglectEnds DEF CInv, DoneInv, Held
<1>3. SetMax(Complete) <= SetMax(Complete') /\ SetMax(Complete) \in Nat /\ SetMax(Complete') \in Nat
  BY <1>1, <1>2, NeglectHeld
<1>4. Complete' \subseteq Complete /\ \A s \in Complete : s <= SetMax(Complete)
  BY <1>1, NeglectLeaves, LocalTyped
<1>5. SetMax(Complete') <= SetMax(Complete)
  <2>1. CASE Complete' = {}
    BY <1>3, <2>1 DEF SetMax
  <2>2. CASE Complete' # {}
    BY <1>1, <1>4, <2>2, LocalNext
  <2> QED BY <2>1, <2>2
<1> QED BY <1>3, <1>5

\* And it keeps CInv.
LEMMA NeglectContinues ==
    ASSUME IInv, CInv, NEW n \in Nodes, Neglects(n)
    PROVE  CInv'
<1> USE DEF trainVars
<1>0. TypeOK /\ AgentInv /\ IInv' /\ TypeOK'
  BY NeglectStep DEF IInv
<1>1. SetMax(Complete') = SetMax(Complete) /\ SetMax(Complete) \in Nat
  BY NeglectNewest
<1>2. /\ attempt' = attempt /\ UNCHANGED aside /\ \A s : Key(s)' = Key(s)
      /\ \A m \in Nodes : m # n => pc'[m] = pc[m] /\ todo'[m] = todo[m] /\ queue'[m] = queue[m]
      /\ pc'[n] \in {"idle", "dropping"}
  BY NeglectEnds DEF Key, Scope
<1>3. \A s : Staged(s)' => Staged(s) /\ staging'[Key(s)'] = staging[Key(s)]
  BY <1>2, NeglectLeaves DEF Staged
<1>4. \A s \in Complete' : s \in Complete /\ final'[s] = final[s]
  BY NeglectLeaves
<1>5. \A m \in Nodes : \A s : Owes(m, s)' => Owes(m, s)
  BY NeglectOwes
<1>6. DoneInv'
  <2>1. \A m \in Nodes : aside'[m] = {} /\ pc'[m] # "replacing"
    BY <1>2 DEF CInv, DoneInv
  <2>2. \A s \in Complete' : ~Staged(s)' /\ \A m \in Nodes : ~Owes(m, s)'
    BY <1>3, <1>4, <1>5 DEF CInv, DoneInv
  <2> QED BY <2>1, <2>2 DEF DoneInv
<1>7. MarkInv'
  <2> SUFFICES ASSUME NEW s \in Steps, Staged(s)', NEW m \in staging'[Key(s)'].marks
               PROVE  /\ ~Owes(m, s)'
                      /\ s > SetMax(Complete') => <<attempt', m>> \in staging'[Key(s)'].shares
    BY DEF MarkInv
  <2>1. Staged(s) /\ staging'[Key(s)'] = staging[Key(s)] /\ m \in staging[Key(s)].marks
    BY <1>3
  <2>2. m \in Nodes
    BY <1>0, <2>1 DEF TypeOK, Staged
  <2>3. ~Owes(m, s) /\ (s > SetMax(Complete) => <<attempt, m>> \in staging[Key(s)].shares)
    BY <2>1 DEF CInv, MarkInv
  <2> QED BY <1>1, <1>2, <1>5, <2>1, <2>2, <2>3
<1>8. CopyInv'
  <2> SUFFICES ASSUME NEW m \in Nodes, pc'[m] \in {"copying", "marking"},
                      NEW h, h = Head(queue'[m]), h > SetMax(Complete')
               PROVE  /\ Key(h)' \in DOMAIN staging'
                      /\ pc'[m] = "copying" => intact'[m]
                      /\ pc'[m] = "marking" => <<attempt', m>> \in staging'[Key(h)'].shares
    BY DEF CopyInv, Staged, Key, Scope
  <2>1. m # n /\ pc'[m] = pc[m] /\ h = Head(queue[m])
    BY <1>2
  <2>2. h \in Nat /\ h > SetMax(Complete)
    BY <1>0, <1>1, <2>1, BusyWith, MirrorAssumption
  <2>3. /\ Staged(h)
        /\ pc[m] = "copying" => intact[m]
        /\ pc[m] = "marking" => <<attempt, m>> \in staging[Key(h)].shares
    BY <2>1, <2>2 DEF CInv, CopyInv
  <2>4. ~ (pc[n] = "deleting" /\ h \in todo[n])
    <3>1. ~ h < SetMax(Complete)
      BY <1>1, <2>2
    <3> QED BY <3>1 DEF CInv, DeadInv
  <2>5. Key(h)[2] = h
    BY DEF Key
  <2>6. Key(h) \in DOMAIN staging' /\ staging'[Key(h)] = staging[Key(h)] /\ intact'[m] = intact[m]
    BY <2>1, <2>3, <2>4, <2>5, NeglectLeaves DEF Staged
  <2> QED BY <1>2, <2>1, <2>3, <2>6
<1>9. PlaceInv'
  <2> SUFFICES ASSUME NEW m \in Nodes, pc'[m] \in {"locking", "placing"}, NEW s, s = Min(todo'[m])
               PROVE  /\ \A x \in Nodes : ~Owes(x, s)'
                      /\ s > SetMax(Complete') /\ Staged(s)' => staging'[Key(s)'].marks = Nodes
    BY DEF PlaceInv, Owes, Staged, Key, Scope
  <2>1. pc[m] = pc'[m] /\ s = Min(todo[m])
    BY <1>2
  <2>2. /\ \A x \in Nodes : ~Owes(x, s)
        /\ s > SetMax(Complete) /\ Staged(s) => staging[Key(s)].marks = Nodes
    BY <2>1 DEF CInv, PlaceInv
  <2> QED BY <1>1, <1>3, <1>5, <2>2
<1>10. DeadInv'
  BY <1>1, <1>2 DEF CInv, DeadInv
<1>11. ResumeIsWhole'
  <2> SUFFICES ASSUME Complete' # {}, NEW s, s = Max(Complete') PROVE Whole(s)'
    BY DEF ResumeIsWhole, Whole
  <2>1. s \in Complete' /\ s = SetMax(Complete')
    BY <1>0, LocalNext
  <2>2. s = Max(Complete) /\ Complete # {}
    BY <1>0, <1>1, <1>4, <2>1, LocalTyped
  <2>3. Whole(s)
    BY <2>2 DEF CInv, ResumeIsWhole
  <2> QED BY <1>4, <2>1, <2>3 DEF Whole
<1> QED BY <1>6, <1>7, <1>8, <1>9, <1>10, <1>11 DEF CInv

-----------------------------------------------------------------------------
(* The properties.                                                         *)

\* Every step keeps IInv.
LEMMA StepPreserves == IInv /\ [Next]_vars => IInv'
<1> SUFFICES ASSUME IInv, [Next]_vars PROVE IInv'
  OBVIOUS
<1>1. CASE Step
  BY <1>1, TypeStep, AgentStep, QueueStep, TrimStep, ScopeStep DEF IInv
<1>2. CASE \E n \in Nodes : Neglects(n)
  BY <1>2, NeglectStep
<1>3. CASE UNCHANGED vars
  <2> USE <1>3 DEF vars, trainVars, agentVars
  <2>1. TypeOK'
    BY DEF IInv, TypeOK, Complete
  <2>2. AgentInv' /\ QueueInv'
    BY DEF IInv, AgentInv, QueueInv
  <2>3. TrimInv'
    BY DEF IInv, TrimInv, Held, Complete
  <2>4. ScopeInv'
    BY DEF IInv, ScopeInv
  <2> QED BY <2>1, <2>2, <2>3, <2>4 DEF IInv
<1> QED BY <1>1, <1>2, <1>3 DEF Next

\* Every state is typed: what is staged, aside and in the mirror, and where every node is.
THEOREM TypeCorrect == Spec => []TypeOK
<1>1. IInv => TypeOK
  BY DEF IInv
<1> QED BY <1>1, InitEstablishes, StepPreserves, PTL DEF Spec

\* Every state satisfies the inductive invariant.
LEMMA Invariance == Spec => []IInv
  BY InitEstablishes, StepPreserves, PTL DEF Spec

\* What the run found in the mirror, or something newer, is there or aside.
Kept == SetMax(InitMirror) <= SetMax(Held)

\* It is there when the run starts.
LEMMA KeptAtFirst == Init => Kept /\ SetMax(InitMirror) \in Nat
<1> SUFFICES ASSUME Init PROVE Kept /\ SetMax(InitMirror) \in Nat
  OBVIOUS
<1>1. Held = InitMirror
  BY DEF Init, Held, Complete
<1>2. SetMax(InitMirror) \in Nat
  BY SomeSteps, SetMaxIs DEF AllSteps
<1> QED BY <1>1, <1>2 DEF Kept

\* No step of the run makes the mirror poorer than that.
LEMMA KeptWhileRunning ==
    ASSUME IInv, Kept, Next, ~Restart
    PROVE  Kept'
<1>1. SetMax(Held) <= SetMax(Held') /\ SetMax(Held) \in Nat /\ SetMax(Held') \in Nat
  <2>1. CASE Step
    BY <2>1, HeldGrows
  <2>2. ASSUME NEW n \in Nodes, Neglects(n)
        PROVE  SetMax(Held) <= SetMax(Held') /\ SetMax(Held) \in Nat /\ SetMax(Held') \in Nat
    BY <2>2, NeglectStep, NeglectHeld DEF IInv
  <2> QED BY <2>1, <2>2 DEF Next
<1>2. SetMax(InitMirror) \in Nat
  BY SomeSteps, SetMaxIs DEF AllSteps
<1> QED BY <1>1, <1>2 DEF Kept

\* A run that continues from the mirror starts with everything done.
LEMMA ContinuesAtFirst ==
    ASSUME Continues
    PROVE  Init => CInv
<1> SUFFICES ASSUME Init PROVE CInv
  OBVIOUS
<1>1. /\ \A n \in Nodes : /\ queue[n] = <<>> /\ failed[n] = {} /\ phase[n] = "run" /\ pc[n] = "idle"
                          /\ aside[n] = {}
      /\ trained = InitStep /\ Complete = InitMirror /\ DOMAIN staging = {}
      /\ \A s \in Complete : final[s] = WholeShare(0)
  BY DEF Init, Complete
<1>2. \A s \in Complete : ~ s > trained
  BY <1>1, MirrorAssumption DEF Continues
<1>3. DoneInv
  <2>1. DOMAIN <<>> = {}
    OBVIOUS
  <2> QED BY <1>1, <1>2, <2>1 DEF DoneInv, Staged, Owes
<1>4. MarkInv /\ CopyInv /\ PlaceInv /\ DeadInv
  BY <1>1 DEF MarkInv, CopyInv, PlaceInv, DeadInv, Staged
<1>5. ResumeIsWhole
  <2>1. TypeOK
    BY InitEstablishes DEF IInv
  <2>2. Complete # {} => Max(Complete) \in Complete
    BY <2>1, LocalTyped
  <2>3. 0 \in 0 .. MaxAttempts
    BY MirrorAssumption
  <2> QED BY <1>1, <2>2, <2>3 DEF ResumeIsWhole, Whole
<1> QED BY <1>3, <1>4, <1>5 DEF CInv

\* Every step keeps CInv.
LEMMA ContinuesStep == IInv /\ CInv /\ [Next]_vars => CInv'
<1> SUFFICES ASSUME IInv, CInv, [Next]_vars PROVE CInv'
  OBVIOUS
<1>1. CASE Step
  BY <1>1, DoneStep, MarkStep, CopyStep, PlaceStep, DeadStep, ResumeStep DEF CInv
<1>2. CASE \E n \in Nodes : Neglects(n)
  BY <1>2, NeglectContinues
<1>3. CASE UNCHANGED vars
  <2> USE <1>3 DEF vars, trainVars, agentVars
  <2>1. DoneInv' /\ MarkInv'
    BY DEF CInv, DoneInv, MarkInv, Staged, Owes, Key, Scope, Complete
  <2>2. CopyInv' /\ DeadInv'
    BY DEF CInv, CopyInv, DeadInv, Staged, Key, Scope, Complete
  <2>3. PlaceInv'
    BY DEF CInv, PlaceInv, Staged, Owes, Key, Scope, Complete
  <2>4. ResumeIsWhole'
    BY DEF CInv, ResumeIsWhole, Whole, Complete
  <2> QED BY <2>1, <2>2, <2>3, <2>4 DEF CInv
<1> QED BY <1>1, <1>2, <1>3 DEF Next

\* A run that continues from the mirror never leaves CInv.
LEMMA ContinuesAlways ==
    ASSUME Continues
    PROVE  Spec => []CInv
  BY ContinuesAtFirst, ContinuesStep, Invariance, PTL DEF Spec

\* What a resume reads is whole, whatever crashes, is slow or fails: shares of two runs
\* are never taken together, and no marker is there without its share.
THEOREM ResumesAreWhole ==
    ASSUME Continues
    PROVE  Spec => []ResumeIsWhole
<1>1. CInv => ResumeIsWhole
  BY DEF CInv
<1> QED BY <1>1, ContinuesAlways, PTL

\* The newest checkpoint of the mirror is never taken away.
THEOREM NewestStays ==
    ASSUME Continues
    PROVE  Spec => NewestSurvives
<1>1. IInv /\ CInv /\ [Next]_vars => [SetMax(Complete') >= SetMax(Complete)]_vars
  <2> SUFFICES ASSUME IInv, CInv, Next PROVE SetMax(Complete') >= SetMax(Complete)
    OBVIOUS
  <2>1. CASE Step
    BY <2>1, NewestGrows
  <2>2. CASE \E n \in Nodes : Neglects(n)
    BY <2>2, NeglectNewest
  <2> QED BY <2>1, <2>2 DEF Next
<1> QED BY <1>1, Invariance, ContinuesAlways, PTL DEF Spec, NewestSurvives

\* A replacement leaves the mirror no poorer than the run found it, in a run that is not
\* killed and in one that continues from the mirror.
THEOREM MirrorIsNeverPoorer ==
    ASSUME MaxAttempts = 1 \/ Continues
    PROVE  Spec => []NeverPoorer
<1>1. IInv /\ Kept => NeverPoorer
  <2> SUFFICES ASSUME IInv, Kept, \A n \in Nodes : aside[n] = {}
               PROVE  SetMax(Complete) >= SetMax(InitMirror)
    BY DEF NeverPoorer
  <2>1. Held = Complete
    BY DEF Held
  <2>2. SetMax(Complete) \in Nat /\ SetMax(InitMirror) \in Nat
    BY LocalTyped, SomeSteps, SetMaxIs DEF AllSteps, IInv
  <2> QED BY <2>1, <2>2 DEF Kept
<1>2. CASE MaxAttempts = 1
  <2>1. IInv /\ Kept /\ [Next]_vars => Kept'
    <3> SUFFICES ASSUME IInv, Kept, [Next]_vars PROVE Kept'
      OBVIOUS
    <3>1. ~Restart
      BY <1>2 DEF IInv, TypeOK, Restart
    <3>2. CASE Next
      BY <3>1, <3>2, KeptWhileRunning
    <3>3. CASE UNCHANGED vars
      BY <3>3 DEF Kept, Held, Complete, vars, agentVars
    <3> QED BY <3>2, <3>3
  <2> QED BY <1>1, <2>1, KeptAtFirst, Invariance, PTL DEF Spec
<1>3. CASE Continues
  <2>1. IInv /\ CInv /\ Kept /\ [Next]_vars => Kept'
    <3> SUFFICES ASSUME IInv, CInv, Kept, [Next]_vars PROVE Kept'
      OBVIOUS
    <3>1. CASE Next /\ ~Restart
      BY <3>1, KeptWhileRunning
    <3>2. CASE Restart
      <4>1. Held = Complete /\ Complete' = Complete
        BY <3>2 DEF CInv, DoneInv, Held, Restart, Complete
      <4>2. Held' = Complete'
        BY <3>2 DEF Held, Restart
      <4> QED BY <4>1, <4>2 DEF Kept
    <3>3. CASE UNCHANGED vars
      BY <3>3 DEF Kept, Held, Complete, vars, agentVars
    <3> QED BY <3>1, <3>2, <3>3
  <2>2. Spec => []CInv
    BY <1>3, ContinuesAlways
  <2> QED BY <1>1, <2>1, <2>2, KeptAtFirst, Invariance, PTL DEF Spec
<1> QED BY <1>2, <1>3
=============================================================================
