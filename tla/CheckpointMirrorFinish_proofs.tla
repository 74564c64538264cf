-------------------- MODULE CheckpointMirrorFinish_proofs --------------------
(***************************************************************************)
(* Proofs about CheckpointMirror, continued: what the second drain, in     *)
(* finish(), makes sure of.  The argument follows the settling agents.     *)
(* One of them gives up its list only when the directory it is about to    *)
(* place is gone, and then there is another that goes on.  Runs in which   *)
(* _settle could not list, lock or remove something (neglected) are left   *)
(* aside: what it leaves behind may be published or counted later.         *)
(***************************************************************************)
EXTENDS CheckpointMirror_proofs

\* No file operation fails once the nodes are in finish().
InFinish == \E n \in Nodes : pass[n] = 2
QuietFinish == InFinish => UNCHANGED faults

-----------------------------------------------------------------------------
(* What holds whenever a run continues from the mirror.                    *)

Newest == SetMax(Complete)

\* Checkpoint s is staged and has every marker.
Full(s) == Staged(s) /\ staging[Key(s)].marks = Nodes

\* Somebody is about to rename checkpoint s.
InHand(s) == \E n \in Nodes : pc[n] = "placing" /\ Min(todo[n]) = s

\* The queued steps that node n has still to mark.
Pending(n) ==
    {queue[n][i] : i \in {j \in DOMAIN queue[n] : j = 1 => pc[n] \in {"idle", "copying", "marking"}}}

\* Agents that work through their list of staging directories.
Settling(n) == pc[n] \in {"looking", "locking", "placing"}

\* The nodes drain for the second time together, and then copy the last save only.
PhaseInv ==
    \A n \in Nodes :
        /\ \A m \in Nodes : pass[m] = pass[n]
        /\ pass[n] = 2 => /\ phase[n] \in {"drain", "settle", "retry", "done"}
                          /\ \A i \in DOMAIN queue[n] : queue[n][i] = trained
        /\ phase[n] = "done" => pass[n] = 2
        /\ phase[n] \in {"drained", "done"} => queue[n] = <<>> /\ pc[n] = "idle"

\* When training is over, a node that still has a step queued or failed has the last
\* save on its disk, and nothing newer.
DiskInv ==
    \A n \in Nodes :
        /\ phase[n] \notin {"run", "submit"} => SetMax(local[n]) <= trained
        /\ \/ failed[n] = {} /\ queue[n] = <<>> /\ phase[n] # "submit"
           \/ trained \in local[n]
           \/ phase[n] = "run" /\ SetMax(local[n]) > trained

\* Steps are marked in their order, and newer than what is in the mirror.
PendingInv ==
    \A n \in Nodes : \A s \in Pending(n) :
        s > Newest /\ \A t \in Steps : Staged(t) /\ n \in staging[Key(t)].marks => s > t

\* What an agent has the lock of, or is about to lock, has every marker.
FullInv ==
    \A n \in Nodes : pc[n] \in {"locking", "placing"} =>
        /\ Staged(Min(todo[n])) => Full(Min(todo[n]))
        /\ Min(todo[n]) > Newest => Staged(Min(todo[n]))

\* A lock has an owner.
LockInv == \A s \in Steps : Staged(s) /\ staging[Key(s)].lock => InHand(s)

\* The list of a node has the later checkpoints it marked.
ListInv ==
    \A n \in Nodes : Settling(n) /\ todo[n] # {} =>
        \A t \in Steps : /\ Staged(t) /\ n \in staging[Key(t)].marks
                         /\ t > Min(todo[n])
                         => t \in todo[n]

\* Agent n is going to remove what is staged of the dead checkpoint s.
Sweeps(n, s) ==
    \/ Settling(n) /\ \A x \in todo[n] : x > Newest
    \/ pc[n] \in {"trimming", "removing", "dropping"}
    \/ pc[n] = "deleting" /\ s \in todo[n]

\* A dead checkpoint that has every marker is going to be removed.
SweepInv == \A s \in Steps : Full(s) /\ s < Newest => \E n \in Nodes : Sweeps(n, s)

\* What rotation has emptied never comes back.
VictimInv ==
    \A n \in Nodes : pc[n] = "removing" => \A s \in todo[n] :
        /\ ~Staged(s) /\ \A m \in Nodes : ~Owes(m, s)
        /\ s \in Complete => final[s] = {}

\* A node's mirror knows the best checkpoint once it has handled the save.
SeenInv == \A n \in Nodes : phase[n] = "submit" \/ seen[n] \in {best, 0}

DInv ==
    /\ PhaseInv /\ DiskInv /\ PendingInv /\ FullInv /\ LockInv /\ ListInv /\ SweepInv
    /\ VictimInv /\ SeenInv

\* Nobody forgets the last save before it is in the mirror.
AccountInv ==
    \/ trained = Newest
    \/ \A n \in Nodes : Owes(n, trained) \/ (Staged(trained) /\ n \in staging[Key(trained)].marks)

-----------------------------------------------------------------------------
(* What holds in finish() when no file operation fails there.              *)

\* Who passes over a checkpoint that has every marker leaves it to somebody.
PassedInv ==
    /\ \A s \in Steps : Full(s) /\ s < Newest => InHand(s)
    /\ \A n \in Nodes, s \in Steps :
           Full(s) /\ s < trained /\ Settling(n) /\ s \notin todo[n] => InHand(s)

\* Agent n does not give up its list at the next directory.
Goes(n) == Settling(n) /\ (pc[n] = "locking" => Staged(Min(todo[n])))

\* Node n is going to publish the last save, or to see it published.
Publishes(n) ==
    \/ phase[n] = "drain"
    \/ pc[n] = "listing"
    \/ Goes(n) /\ trained \in todo[n]

\* The last save is published by somebody once all its markers are there, and node n
\* copies in its retry what it owes.
LastInv ==
    /\ Full(trained) => \E n \in Nodes : Publishes(n)
    /\ \A n \in Nodes : phase[n] \in {"retry", "done"} /\ trained \in failed[n] => trained \in Pending(n)

\* How many checkpoints the mirror may hold.
Allowed == SetMax({Keep, Cardinality({Newest, best} \ {0})})

\* Node n is going to rotate the mirror down to that number.
Rotates(n) ==
    \/ phase[n] = "drain"
    \/ pc[n] \in {"listing", "trimming"}
    \/ Goes(n)
    \/ pc[n] = "removing" /\ Cardinality(Complete \ todo[n]) <= Allowed

RoomInv == Keep # 0 /\ Cardinality(Complete) > Allowed => \E n \in Nodes : Rotates(n)

-----------------------------------------------------------------------------
(* The training threads.                                                   *)

\* An agent that moves has a step queued, or settles; it finishes one step at most, and
\* nothing but that step fails.
LEMMA AgentQueue ==
    ASSUME IInv, NEW n \in Nodes, Agent(n)
    PROVE  /\ queue[n] # <<>> \/ (phase[n] = "settle" /\ pc[n] # "idle")
           /\ queue'[n] = queue[n] \/ (queue[n] # <<>> /\ queue'[n] = Tail(queue[n]))
           /\ failed'[n] \subseteq failed[n] \cup (IF queue[n] = <<>> THEN {} ELSE {Head(queue[n])})
<1> USE DEF trainVars, agentVars
<1>0. TypeOK /\ AgentInv /\ queue \in [Nodes -> Seq(Steps)] /\ failed \in [Nodes -> SUBSET Steps]
  BY DEF IInv, TypeOK
<1>1. CASE CopyStart(n) \/ CopyDone(n) \/ Mark(n)
  <2>1. queue[n] # <<>>
    BY <1>0, <1>1, BusyWith DEF CopyStart, CopyDone, Mark
  <2>2. queue' = queue \/ queue' = [queue EXCEPT ![n] = Tail(@)]
    BY <1>1 DEF CopyStart, CopyDone, Mark, CopyFails
  <2>3. \/ failed' = failed
        \/ failed' = [failed EXCEPT ![n] = @ \cup {Head(queue[n])}]
        \/ failed' = [failed EXCEPT ![n] = @ \ {Head(queue[n])}]
    BY <1>1 DEF CopyStart, CopyDone, Mark, CopyFails
  <2> QED BY <1>0, <2>1, <2>2, <2>3
<1>2. CASE \/ List(n) \/ Look(n) \/ SetAside(n) \/ Publish(n) \/ PublishFails(n)
           \/ TrimMirror(n) \/ TrimEnds(n) \/ DropDead(n)
  <2>1. UNCHANGED <<queue, failed>> /\ pc[n] # "idle"
    BY <1>2 DEF List, Look, SetAside, Publish, PublishFails, TrimMirror, TrimEnds, DropDead
  <2> QED BY <1>0, <2>1 DEF AgentInv
<1>3. CASE Lock(n) \/ DropEnds(n)
  <2>1. UNCHANGED failed /\ pc[n] # "idle"
    BY <1>3 DEF Lock, DropEnds
  <2>2. queue' = queue \/ (phase[n] # "settle" /\ queue' = [queue EXCEPT ![n] = Tail(@)])
    BY <1>3 DEF Lock, DropEnds, SettleEnds
  <2> QED BY <1>0, <2>1, <2>2 DEF AgentInv
<1> QED BY <1>1, <1>2, <1>3 DEF Agent

\* A step that is being retried is the last save, and the last save is retried when it failed.
LEMMA RetriesLast ==
    ASSUME IInv, DiskInv, NEW n \in Nodes, phase[n] = "settle"
    PROVE  /\ MustRetry(n) => SetMax(local[n]) = trained
           /\ trained \in failed[n] => MustRetry(n)
           /\ queue[n] = <<>>
<1>0. TypeOK /\ AgentInv /\ trained \in Nat
  BY DEF IInv, TypeOK
<1>1. /\ SetMax(local[n]) <= trained
      /\ failed[n] = {} \/ trained \in local[n]
  BY DEF DiskInv
<1>2. SetMax(local[n]) \in Nat /\ \A s \in local[n] : s <= SetMax(local[n])
  BY <1>0, LocalTyped
<1>3. failed[n] # {} => SetMax(local[n]) = trained /\ local[n] # {}
  BY <1>0, <1>1, <1>2
<1>4. queue[n] = <<>>
  BY <1>0 DEF AgentInv
<1> QED BY <1>3, <1>4 DEF MustRetry

\* Every step keeps PhaseInv.
LEMMA PhaseStep ==
    ASSUME IInv, PhaseInv, DiskInv, Step
    PROVE  PhaseInv'
<1> USE DEF trainVars, agentVars
<1>0. /\ TypeOK /\ AgentInv /\ Nodes # {}
      /\ phase \in [Nodes -> Phases] /\ pass \in [Nodes -> 1 .. 2]
      /\ queue \in [Nodes -> Seq(Steps)] /\ pc \in [Nodes -> Places]
  BY MirrorAssumption DEF IInv, TypeOK, Phases, Places
<1>11. \A n \in Nodes : phase[n] \in {"run", "submit"} => pass[n] = 1
  <2>1. \A n \in Nodes : pass[n] = 1 \/ pass[n] = 2
    BY <1>0
  <2> QED BY <2>1 DEF PhaseInv
<1>1. CASE Save
  <2>1. UNCHANGED <<pass, queue, pc>> /\ \A n \in Nodes : pass[n] = 1 /\ phase'[n] = "submit"
    BY <1>1, <1>11 DEF Save, All
  <2> QED BY <2>1 DEF PhaseInv
<1>2. CASE EndTraining
  <2>1. UNCHANGED <<pass, queue, pc>> /\ \A n \in Nodes : pass[n] = 1 /\ phase'[n] = "drain"
    BY <1>2, <1>11 DEF EndTraining, All
  <2> QED BY <2>1 DEF PhaseInv
<1>3. CASE Finish
  <2>1. /\ UNCHANGED <<queue, pc>>
        /\ \A n \in Nodes : pass'[n] = 2 /\ phase'[n] = "drain" /\ queue[n] = <<>>
    BY <1>0, <1>3 DEF Finish, All, PhaseInv
  <2>2. DOMAIN <<>> = {}
    OBVIOUS
  <2> QED BY <2>1, <2>2 DEF PhaseInv
<1>4. CASE Restart
  BY <1>4 DEF Restart, PhaseInv
<1>5. CASE Done
  BY <1>5 DEF Done, vars, PhaseInv
<1>6. ASSUME NEW n \in Nodes, OnSave(n) PROVE PhaseInv'
  <2>1. /\ UNCHANGED <<pass, pc, trained>> /\ pass[n] = 1 /\ phase'[n] = "run"
        /\ \A m \in Nodes \ {n} : phase'[m] = phase[m] /\ queue'[m] = queue[m]
    BY <1>0, <1>6, <1>11 DEF OnSave, Submit
  <2> QED BY <1>0, <2>1 DEF PhaseInv
<1>7. ASSUME NEW n \in Nodes, DrainSettle(n) PROVE PhaseInv'
  <2>1. UNCHANGED <<pass, queue, trained>> /\ phase'[n] = "settle"
    BY <1>0, <1>7 DEF DrainSettle
  <2>2. \A m \in Nodes \ {n} : phase'[m] = phase[m] /\ pc'[m] = pc[m]
    BY <1>0, <1>7 DEF DrainSettle
  <2> QED BY <1>0, <2>1, <2>2 DEF PhaseInv
<1>8. ASSUME NEW n \in Nodes, DrainRetry(n) PROVE PhaseInv'
  <2>1. UNCHANGED <<pass, pc, trained>> /\ phase'[n] = "retry"
    BY <1>0, <1>8 DEF DrainRetry
  <2>2. \A m \in Nodes \ {n} : phase'[m] = phase[m] /\ queue'[m] = queue[m]
    BY <1>0, <1>8 DEF DrainRetry, Submit
  <2>3. queue'[n] = <<>> \/ (queue'[n] = Append(queue[n], trained) /\ trained \in Steps)
    <3>1. queue[n] = <<>> /\ (MustRetry(n) => SetMax(local[n]) = trained /\ trained \in Steps)
      BY <1>0, <1>8, RetriesLast DEF DrainRetry, MustRetry, TypeOK
    <3> QED BY <1>0, <1>8, <3>1 DEF DrainRetry, Submit
  <2>4. \A i \in DOMAIN queue'[n] : queue'[n][i] = trained
    <3>1. queue[n] = <<>> /\ DOMAIN <<>> = {}
      BY <1>8, RetriesLast DEF DrainRetry
    <3>2. trained \in Steps =>
              /\ DOMAIN Append(queue[n], trained) = DOMAIN queue[n] \cup {Len(queue[n]) + 1}
              /\ Append(queue[n], trained)[Len(queue[n]) + 1] = trained
      BY <1>0, Appended
    <3> QED BY <2>3, <3>1, <3>2
  <2> QED BY <1>0, <2>1, <2>2, <2>4 DEF PhaseInv
<1>9. ASSUME NEW n \in Nodes, DrainEnd(n) PROVE PhaseInv'
  <2>1. /\ UNCHANGED <<pass, queue, pc, trained>> /\ queue[n] = <<>> /\ pc[n] = "idle"
        /\ phase'[n] = IF pass[n] = 1 THEN "drained" ELSE "done"
    BY <1>0, <1>9 DEF DrainEnd
  <2>2. \A m \in Nodes \ {n} : phase'[m] = phase[m]
    BY <1>0, <1>9 DEF DrainEnd
  <2>3. pass[n] = 1 \/ pass[n] = 2
    BY <1>0
  <2> QED BY <1>0, <2>1, <2>2, <2>3 DEF PhaseInv
<1>10. ASSUME NEW n \in Nodes, Agent(n) PROVE PhaseInv'
  <2>1. /\ UNCHANGED <<pass, phase, trained>>
        /\ \A m \in Nodes \ {n} : queue'[m] = queue[m] /\ pc'[m] = pc[m]
    BY <1>0, <1>10, AgentKeeps
  <2>2. phase[n] \notin {"drained", "done"}
    <3>1. queue[n] # <<>> \/ (phase[n] = "settle" /\ pc[n] # "idle")
      BY <1>10, AgentQueue
    <3> QED BY <3>1 DEF PhaseInv
  <2>3. \A i \in DOMAIN queue'[n] : \E j \in DOMAIN queue[n] : queue'[n][i] = queue[n][j]
    <3>1. queue'[n] = queue[n] \/ (queue[n] # <<>> /\ queue'[n] = Tail(queue[n]))
      BY <1>10, AgentQueue
    <3>2. queue[n] # <<>> => \A i \in DOMAIN Tail(queue[n]) :
              \E j \in DOMAIN queue[n] : Tail(queue[n])[i] = queue[n][j]
      BY QueueHead
    <3> QED BY <3>1, <3>2
  <2> QED BY <1>0, <2>1, <2>2, <2>3 DEF PhaseInv
<1> QED BY <1>1, <1>2, <1>3, <1>4, <1>5, <1>6, <1>7, <1>8, <1>9, <1>10 DEF Step, TrainStep

\* Rotation leaves the newest checkpoint of the disk.
LEMMA RotatedKeepsNewest ==
    ASSUME TypeOK, NEW n \in Nodes
    PROVE  /\ SetMax(Rotated(n)) = SetMax(local[n])
           /\ local[n] # {} => SetMax(local[n]) \in Rotated(n)
<1>1. /\ local[n] \subseteq AllSteps /\ SetMax(local[n]) \in Nat
      /\ local[n] # {} => SetMax(local[n]) \in local[n]
      /\ \A s \in local[n] : s <= SetMax(local[n])
  BY LocalTyped
<1>2. Rotated(n) \subseteq local[n] /\ (local[n] # {} => SetMax(local[n]) \in Rotated(n))
  <2>1. \A s \in Trim(local[n], LocalKeep, best) : s < SetMax(local[n])
    BY <1>1, TrimSpares
  <2>2. ~ SetMax(local[n]) < SetMax(local[n])
    BY <1>1
  <2> QED BY <1>1, <2>1, <2>2 DEF Rotated
<1>3. Rotated(n) \subseteq AllSteps
  BY <1>1, <1>2
<1>4. /\ SetMax(Rotated(n)) \in Nat
      /\ \A s \in Rotated(n) : s <= SetMax(Rotated(n))
      /\ Rotated(n) # {} => SetMax(Rotated(n)) \in Rotated(n)
  BY <1>3, SomeSteps, SetMaxIs
<1>5. CASE local[n] = {}
  BY <1>2, <1>5
<1>6. CASE local[n] # {}
  <2>1. SetMax(local[n]) <= SetMax(Rotated(n)) /\ SetMax(Rotated(n)) <= SetMax(local[n])
    BY <1>1, <1>2, <1>4, <1>6
  <2> QED BY <1>1, <1>2, <1>4, <1>6, <2>1
<1> QED BY <1>5, <1>6

\* Every step keeps DiskInv.
LEMMA DiskStep ==
    ASSUME IInv, DiskInv, Step
    PROVE  DiskInv'
<1> USE DEF trainVars, agentVars
<1>0. /\ TypeOK /\ AgentInv /\ trained \in Nat
      /\ phase \in [Nodes -> Phases]
      /\ queue \in [Nodes -> Seq(Steps)]
      /\ failed \in [Nodes -> SUBSET Steps]
      /\ local \in [Nodes -> SUBSET Steps]
  BY DEF IInv, TypeOK, Phases, Places
<1>1. \A n \in Nodes : SetMax(local[n]) \in Nat /\ \A s \in local[n] : s <= SetMax(local[n])
  BY <1>0, LocalTyped
<1>2. CASE Save
  <2>1. \A n \in Nodes : phase'[n] = "submit" /\ trained' \in local'[n]
    BY <1>0, <1>2 DEF Save
  <2> QED BY <2>1 DEF DiskInv
<1>3. CASE EndTraining
  <2>1. /\ UNCHANGED <<trained, local, queue, failed>>
        /\ \A n \in Nodes : phase[n] = "run" /\ phase'[n] = "drain" /\ SetMax(local[n]) <= trained
    BY <1>0, <1>3 DEF EndTraining, All
  <2>2. \A n \in Nodes : ~ SetMax(local[n]) > trained
    BY <1>0, <1>1, <2>1
  <2> QED BY <2>1, <2>2 DEF DiskInv
<1>4. CASE Finish
  <2>1. /\ UNCHANGED <<trained, local, queue, failed>>
        /\ \A n \in Nodes : phase[n] = "drained" /\ phase'[n] = "drain"
    BY <1>0, <1>4 DEF Finish, All
  <2> QED BY <2>1 DEF DiskInv
<1>5. CASE Restart
  BY <1>5 DEF Restart, DiskInv
<1>6. CASE Done
  BY <1>6 DEF Done, vars, DiskInv
<1>7. ASSUME NEW n \in Nodes, OnSave(n) PROVE DiskInv'
  <2>1. /\ UNCHANGED trained /\ phase'[n] = "run" /\ local'[n] = Rotated(n)
        /\ \A m \in Nodes \ {n} : /\ phase'[m] = phase[m] /\ queue'[m] = queue[m]
                                 /\ failed'[m] = failed[m] /\ local'[m] = local[m]
    BY <1>0, <1>7 DEF OnSave, Submit
  <2>2. trained \in local[n]
    BY <1>7 DEF OnSave, DiskInv
  <2>3. /\ SetMax(Rotated(n)) = SetMax(local[n]) /\ SetMax(local[n]) \in Rotated(n)
        /\ trained <= SetMax(local[n])
    BY <1>0, <1>1, <2>2, RotatedKeepsNewest
  <2>4. trained \in local'[n] \/ SetMax(local'[n]) > trained
    BY <1>0, <1>1, <2>1, <2>3
  <2> QED BY <2>1, <2>4 DEF DiskInv
<1>8. ASSUME NEW n \in Nodes, DrainSettle(n) \/ DrainRetry(n) \/ DrainEnd(n) PROVE DiskInv'
  <2>1. /\ UNCHANGED <<trained, local>> /\ phase[n] \notin {"run", "submit"}
        /\ phase'[n] \notin {"run", "submit"}
        /\ \A m \in Nodes \ {n} : /\ phase'[m] = phase[m] /\ queue'[m] = queue[m]
                                 /\ failed'[m] = failed[m]
    BY <1>0, <1>8 DEF DrainSettle, DrainRetry, DrainEnd, Submit
  <2>2. trained \in local[n] \/ (queue'[n] = queue[n] /\ failed'[n] = failed[n])
    <3>1. MustRetry(n) => failed[n] # {}
      BY DEF MustRetry
    <3>2. MustRetry(n) => trained \in local[n]
      BY <2>1, <3>1 DEF DiskInv
    <3> QED BY <1>8, <3>2 DEF DrainSettle, DrainRetry, DrainEnd
  <2> QED BY <2>1, <2>2 DEF DiskInv
<1>9. ASSUME NEW n \in Nodes, Agent(n) PROVE DiskInv'
  <2>1. /\ UNCHANGED <<phase, trained, local>>
        /\ \A m \in Nodes \ {n} : queue'[m] = queue[m] /\ failed'[m] = failed[m]
    BY <1>0, <1>9, AgentKeeps
  <2>2. queue[n] = <<>> => queue'[n] = <<>> /\ failed'[n] \subseteq failed[n]
    BY <1>9, AgentQueue
  <2> QED BY <2>1, <2>2 DEF DiskInv
<1> QED BY <1>2, <1>3, <1>4, <1>5, <1>6, <1>7, <1>8, <1>9 DEF Step, TrainStep

\* Every step keeps SeenInv.
LEMMA SeenStep ==
    ASSUME IInv, SeenInv, Step
    PROVE  SeenInv'
<1> USE DEF trainVars, agentVars
<1>0. TypeOK /\ phase \in [Nodes -> Phases] /\ seen \in [Nodes -> Steps \cup {0}]
  BY DEF IInv, TypeOK, Phases
<1>1. CASE Save \/ Restart
  BY <1>1 DEF Save, Restart, SeenInv
<1>2. CASE EndTraining \/ Finish \/ Done
  BY <1>2 DEF EndTraining, Finish, Done, All, vars, SeenInv
<1>3. ASSUME NEW n \in Nodes, TrainStep(n) PROVE SeenInv'
  BY <1>0, <1>3 DEF TrainStep, OnSave, DrainSettle, DrainRetry, DrainEnd, SeenInv
<1>4. ASSUME NEW n \in Nodes, Agent(n) PROVE SeenInv'
  BY <1>0, <1>4, AgentKeeps DEF SeenInv
<1> QED BY <1>1, <1>2, <1>3, <1>4 DEF Step

-----------------------------------------------------------------------------
(* The queues.                                                             *)

\* A step is pending because of its place in the queue, and it is owed.
LEMMA PendingIs ==
    ASSUME IInv, NEW n \in Nodes
    PROVE  /\ \A i \in DOMAIN queue[n] :
                  i # 1 \/ pc[n] \in {"idle", "copying", "marking"} => queue[n][i] \in Pending(n)
           /\ \A s \in Pending(n) : s \in Steps /\ s \in Nat /\ Owes(n, s)
<1>1. \A i \in DOMAIN queue[n] :
          i # 1 \/ pc[n] \in {"idle", "copying", "marking"} => queue[n][i] \in Pending(n)
  BY DEF Pending
<1>2. \A s \in Pending(n) : Owes(n, s) /\ \E i \in DOMAIN queue[n] : s = queue[n][i]
  BY DEF Pending, Owes
<1>3. \A i \in DOMAIN queue[n] : queue[n][i] \in Steps /\ queue[n][i] \in Nat
  <2>1. queue[n] \in Seq(Steps)
    BY DEF IInv, TypeOK
  <2>2. \A i \in DOMAIN queue[n] : queue[n][i] \in Steps
    BY <2>1, LenProperties, ElementOfSeq
  <2> QED BY <2>2, MirrorAssumption
<1> QED BY <1>1, <1>2, <1>3

\* How an agent goes on with its queue.
LEMMA AgentOrder ==
    ASSUME IInv, NEW n \in Nodes, Agent(n)
    PROVE  \/ /\ queue'[n] = queue[n]
              /\ \/ pc[n] \in {"idle", "copying", "marking"} /\ pc'[n] \in {"copying", "marking"}
                 \/ /\ pc[n] \notin {"idle", "copying", "marking"}
                    /\ pc'[n] \notin {"idle", "copying", "marking"}
                 \/ queue[n] = <<>>
                 \/ Mark(n) /\ pc'[n] = "listing"
           \/ /\ queue[n] # <<>> /\ queue'[n] = Tail(queue[n]) /\ pc'[n] = "idle"
              /\ pc[n] \in {"idle", "copying", "marking"} => Head(queue[n]) \in failed'[n]
<1> USE DEF trainVars, agentVars
<1>0. /\ TypeOK /\ AgentInv /\ queue \in [Nodes -> Seq(Steps)] /\ failed \in [Nodes -> SUBSET Steps]
      /\ pc \in [Nodes -> Places]
  BY DEF IInv, TypeOK, Places
<1>1. CASE CopyStart(n) \/ CopyDone(n) \/ Mark(n)
  <2>1. queue[n] # <<>>
    BY <1>0, <1>1, BusyWith DEF CopyStart, CopyDone, Mark
  <2>2. CASE CopyFails(n)
    BY <1>0, <1>1, <2>1, <2>2 DEF CopyFails, Goto
  <2>3. CASE ~CopyFails(n)
    BY <1>0, <1>1, <2>3 DEF CopyStart, CopyDone, Mark, Goto
  <2> QED BY <2>2, <2>3
<1>2. CASE \/ List(n) \/ Look(n) \/ SetAside(n) \/ Publish(n) \/ PublishFails(n)
           \/ TrimMirror(n) \/ TrimEnds(n) \/ DropDead(n)
  <2>1. UNCHANGED queue /\ pc[n] \notin {"idle", "copying", "marking"}
    BY <1>2 DEF List, Look, SetAside, Publish, PublishFails, TrimMirror, TrimEnds, DropDead
  <2>2. pc'[n] \notin {"idle", "copying", "marking"}
    BY <1>0, <1>2 DEF List, Look, SetAside, Publish, PublishFails, TrimMirror, TrimEnds, DropDead, Goto
  <2> QED BY <2>1, <2>2
<1>3. CASE Lock(n) \/ DropEnds(n)
  <2>1. pc[n] \notin {"idle", "copying", "marking"}
    BY <1>3 DEF Lock, DropEnds
  <2>2. SettleEnds(n) \/ (UNCHANGED queue /\ pc'[n] \notin {"idle", "copying", "marking"})
    BY <1>0, <1>3 DEF Lock, DropEnds, Goto
  <2>3. CASE SettleEnds(n) /\ phase[n] = "settle"
    BY <1>0, <2>1, <2>3 DEF SettleEnds, Goto, AgentInv
  <2>4. CASE SettleEnds(n) /\ phase[n] # "settle"
    BY <1>0, <2>1, <2>4 DEF SettleEnds, Goto, AgentInv
  <2> QED BY <2>1, <2>2, <2>3, <2>4
<1> QED BY <1>1, <1>2, <1>3 DEF Agent

\* How a training thread goes on with a queue: it appends the last save, which it owes,
\* or remembers that it failed.
LEMMA TrainOrder ==
    ASSUME IInv, DiskInv, NEW n \in Nodes, TrainStep(n)
    PROVE  /\ trained' = trained
           /\ \A m \in Nodes \ {n} : /\ queue'[m] = queue[m] /\ pc'[m] = pc[m]
                                     /\ failed'[m] = failed[m] /\ phase'[m] = phase[m]
           /\ \/ /\ queue'[n] = queue[n] /\ failed'[n] = failed[n] /\ phase[n] # "submit"
                 /\ pc'[n] = pc[n] \/ queue[n] = <<>>
              \/ /\ Owes(n, trained) /\ pc'[n] = pc[n] /\ phase[n] \in {"submit", "settle"}
                 /\ trained \in Steps /\ (queue[n] = <<>> => pc[n] = "idle")
                 /\ \/ queue'[n] = Append(queue[n], trained) /\ failed'[n] = failed[n]
                    \/ queue'[n] = queue[n] /\ failed'[n] = failed[n] \cup {trained}
<1> USE DEF trainVars, agentVars
<1>0. /\ TypeOK /\ AgentInv /\ queue \in [Nodes -> Seq(Steps)] /\ failed \in [Nodes -> SUBSET Steps]
      /\ pc \in [Nodes -> Places] /\ phase \in [Nodes -> Phases]
  BY DEF IInv, TypeOK, Places, Phases
<1>1. trained' = trained /\ \A m \in Nodes \ {n} : /\ queue'[m] = queue[m] /\ pc'[m] = pc[m]
                                                  /\ failed'[m] = failed[m] /\ phase'[m] = phase[m]
  BY <1>0 DEF TrainStep, OnSave, DrainSettle, DrainRetry, DrainEnd, Submit
<1>2. ASSUME NEW s, NEW disk, Submit(n, s, disk)
      PROVE  \/ queue'[n] = Append(queue[n], s) /\ failed'[n] = failed[n]
             \/ queue'[n] = queue[n] /\ failed'[n] = failed[n] \cup {s}
  BY <1>0, <1>2 DEF Submit, Skipped
<1>3. CASE OnSave(n)
  <2>1. Owes(n, trained) /\ trained \in Steps /\ phase[n] = "submit" /\ UNCHANGED pc
        /\ Submit(n, trained, Rotated(n))
    BY <1>3 DEF OnSave, Owes, IInv, QueueInv
  <2>2. queue[n] = <<>> => pc[n] = "idle"
    BY <1>0, <2>1 DEF AgentInv
  <2> QED BY <1>1, <1>2, <2>1, <2>2
<1>4. CASE DrainRetry(n) /\ MustRetry(n)
  <2>1. SetMax(local[n]) = trained /\ phase[n] = "settle" /\ UNCHANGED pc /\ pc[n] = "idle"
    BY <1>4, RetriesLast DEF DrainRetry
  <2>2. Submit(n, trained, local[n]) /\ Owes(n, trained) /\ trained \in Steps
    BY <1>0, <1>4, <2>1 DEF DrainRetry, Owes, MustRetry
  <2> QED BY <1>1, <1>2, <2>1, <2>2
<1>5. CASE DrainSettle(n) \/ DrainEnd(n) \/ (DrainRetry(n) /\ ~MustRetry(n))
  BY <1>1, <1>5 DEF DrainSettle, DrainEnd, DrainRetry
<1> QED BY <1>3, <1>4, <1>5 DEF TrainStep

\* Where a pending step comes from.
LEMMA PendingCame ==
    ASSUME IInv, DiskInv, Step, NEW n \in Nodes, NEW s \in Pending(n)'
    PROVE  /\ ~Restart /\ s \in Steps
           /\ s \in Pending(n) \/ (s = trained /\ trained' = trained /\ Owes(n, s))
<1> USE DEF trainVars, agentVars
<1>0. TypeOK /\ queue[n] \in Seq(Steps)
  BY DEF IInv, TypeOK
<1>1. PICK i \in DOMAIN queue'[n] :
          s = queue'[n][i] /\ (i = 1 => pc'[n] \in {"idle", "copying", "marking"})
  BY DEF Pending
<1>2. ~Restart
  <2>1. DOMAIN <<>> = {}
    OBVIOUS
  <2> QED BY <1>1, <2>1 DEF Restart
<1>3. ASSUME queue'[n] = queue[n],
             pc'[n] \in {"idle", "copying", "marking"} =>
                 pc[n] \in {"idle", "copying", "marking"} \/ queue[n] = <<>>
      PROVE  s \in Pending(n) /\ s \in Steps
  <2>1. DOMAIN <<>> = {}
    OBVIOUS
  <2> QED BY <1>1, <1>3, <2>1, PendingIs
<1>4. CASE Save \/ EndTraining \/ Finish \/ Done
  BY <1>2, <1>3, <1>4, JobKeeps
<1>5. ASSUME NEW m \in Nodes, m # n, TrainStep(m) \/ Agent(m)
      PROVE  s \in Pending(n) /\ s \in Steps
  <2>1. queue'[n] = queue[n] /\ pc'[n] = pc[n]
    BY <1>0, <1>5, TrainOrder, AgentKeeps
  <2> QED BY <1>3, <2>1
<1>6. CASE TrainStep(n)
  <2>1. CASE queue'[n] = queue[n] /\ (pc'[n] = pc[n] \/ queue[n] = <<>>)
    BY <1>2, <1>3, <2>1
  <2>2. CASE /\ queue'[n] = Append(queue[n], trained) /\ pc'[n] = pc[n] /\ trained \in Steps
             /\ Owes(n, trained) /\ trained' = trained
    <3>1. (i \in DOMAIN queue[n] /\ queue'[n][i] = queue[n][i]) \/ s = trained
      BY <1>0, <1>1, <2>2, Appended
    <3> QED BY <1>1, <1>2, <2>2, <3>1, PendingIs
  <2> QED BY <1>6, <2>1, <2>2, TrainOrder
<1>7. CASE Agent(n)
  <2>1. CASE queue[n] # <<>> /\ queue'[n] = Tail(queue[n])
    <3>1. i + 1 \in DOMAIN queue[n] /\ i + 1 # 1 /\ s = queue[n][i + 1]
      BY <1>1, <2>1, QueueHead
    <3> QED BY <1>2, <3>1, PendingIs
  <2>2. CASE queue'[n] = queue[n] /\ ~(queue[n] # <<>> /\ queue'[n] = Tail(queue[n]))
    <3>1. pc'[n] \in {"idle", "copying", "marking"} =>
              pc[n] \in {"idle", "copying", "marking"} \/ queue[n] = <<>>
      BY <1>7, <2>2, AgentOrder
    <3> QED BY <1>2, <1>3, <2>2, <3>1
  <2> QED BY <1>7, <2>1, <2>2, AgentOrder
<1> QED BY <1>2, <1>4, <1>5, <1>6, <1>7 DEF Step

\* The step whose marker is put was the first that was pending.
LEMMA MarkedWasFirst ==
    ASSUME IInv, NEW n \in Nodes, NEW t \in Steps, Marked(n, t)
    PROVE  /\ t \in Pending(n)
           /\ \A s \in Pending(n)' : s \in Pending(n) /\ s > t
<1>1. pc[n] = "marking" /\ queue[n] # <<>> /\ t = Head(queue[n]) /\ pc'[n] = "listing" /\ queue' = queue
  BY DEF Marked
<1>2. /\ 1 \in DOMAIN queue[n] /\ t = queue[n][1]
      /\ \A i, j \in DOMAIN queue[n] : i < j => queue[n][i] < queue[n][j]
      /\ DOMAIN queue[n] = 1 .. Len(queue[n]) /\ Len(queue[n]) \in Nat
  <2>1. queue[n] \in Seq(Steps)
    BY DEF IInv, TypeOK
  <2> QED BY <1>1, <2>1, QueueHead, LenProperties DEF IInv, QueueInv
<1>3. t \in Pending(n)
  BY <1>1, <1>2, PendingIs
<1>4. ASSUME NEW s \in Pending(n)' PROVE s \in Pending(n) /\ s > t
  <2>1. PICK i \in DOMAIN queue[n] : s = queue[n][i] /\ i # 1
    BY <1>1 DEF Pending
  <2>2. 1 < i
    BY <1>2, <2>1
  <2>3. t < s /\ s \in Pending(n)
    BY <1>2, <2>1, <2>2, PendingIs
  <2>4. s \in Nat /\ t \in Nat
    BY <2>3, PendingIs, MirrorAssumption
  <2> QED BY <2>3, <2>4
<1> QED BY <1>3, <1>4

-----------------------------------------------------------------------------
(* The mirror and the lists of the agents.                                 *)

\* The newest checkpoint changes when a newer one is published.
LEMMA NewestRises ==
    ASSUME IInv, CInv, Step
    PROVE  /\ Newest \in Nat /\ Newest' \in Nat /\ Newest <= Newest'
           /\ Newest' # Newest =>
                  \E m \in Nodes : Publish(m) /\ Newest' = Min(todo[m]) /\ Newest < Newest'
<1>0. TypeOK /\ TypeOK'
  BY TypeStep DEF IInv
<1>1. Newest <= Newest' /\ Newest \in Nat /\ Newest' \in Nat
  BY NewestGrows DEF Newest
<1>2. ASSUME Newest' # Newest
      PROVE  \E m \in Nodes : Publish(m) /\ Newest' = Min(todo[m]) /\ Newest < Newest'
  <2>1. Newest < Newest'
    BY <1>1, <1>2
  <2>2. Complete' # {}
    <3>1. Newest' # 0
      BY <1>1, <2>1
    <3> QED BY <3>1 DEF Newest, SetMax
  <2>3. Newest' \in Complete'
    BY <1>0, <2>2, LocalNext DEF Newest
  <2>4. Newest' \notin Complete
    <3>1. \A s \in Complete : s <= Newest /\ s \in Nat
      BY <1>0, LocalTyped DEF Newest
    <3> QED BY <1>1, <2>1, <3>1
  <2> QED BY <2>1, <2>3, <2>4, NewInMirror
<1> QED BY <1>1, <1>2

\* A node that owes the last save has not marked it, nor anything newer.
LEMMA OwedIsNewest ==
    ASSUME IInv, CInv, NEW n \in Nodes, Owes(n, trained), trained \in Steps
    PROVE  /\ trained > Newest
           /\ \A t \in Steps : Staged(t) /\ n \in staging[Key(t)].marks => trained > t
<1>0. /\ TypeOK /\ trained \in Nat /\ trained > 0 /\ Steps \subseteq Nat
      /\ Newest \in Nat /\ (Complete # {} => Newest \in Complete)
  BY LocalTyped, MirrorAssumption DEF IInv, TypeOK, Newest
<1>1. \A t \in Nat : ~Owes(n, t) => trained > t
  <2>1. \A t \in Nat : ~Owes(n, t) => ~ t > trained /\ t # trained
    BY DEF Owes
  <2> QED BY <1>0, <2>1
<1>2. trained > Newest
  <2>1. CASE Complete = {}
    BY <1>0, <2>1 DEF Newest, SetMax
  <2>2. CASE Complete # {}
    BY <1>0, <1>1, <2>2 DEF CInv, DoneInv
  <2> QED BY <2>1, <2>2
<1>3. \A t \in Steps : Staged(t) /\ n \in staging[Key(t)].marks => trained > t
  BY <1>0, <1>1 DEF CInv, MarkInv
<1> QED BY <1>2, <1>3

\* What is staged is a step of the schedule, and what is placed has every marker.
LEMMA FullIs ==
    ASSUME IInv, FullInv
    PROVE  /\ \A s : Staged(s) => s \in Steps /\ s \in Nat /\ staging[Key(s)] \in Dirs
           /\ \A n \in Nodes : Publish(n) => Full(Min(todo[n]))
<1>1. ASSUME NEW s, Staged(s) PROVE s \in Steps
  <2>1. Key(s) \in (1 .. MaxAttempts) \X Steps /\ Key(s) = <<attempt, s>>
    BY <1>1 DEF Staged, IInv, TypeOK, Key, Scope
  <2> QED BY <2>1
<1>2. ASSUME NEW s, Staged(s) PROVE staging[Key(s)] \in Dirs
  BY <1>2 DEF Staged, IInv, TypeOK, Dirs
<1>3. \A n \in Nodes : Publish(n) => Full(Min(todo[n]))
  BY DEF Publish, CanPlace, FullInv, Staged
<1> QED BY <1>1, <1>2, <1>3, MirrorAssumption

\* Every step keeps PendingInv.
LEMMA PendingKept ==
    ASSUME IInv, CInv, DInv, Step
    PROVE  PendingInv'
<1> SUFFICES ASSUME NEW n \in Nodes, NEW s \in Pending(n)'
             PROVE  /\ s > Newest'
                    /\ \A t \in Steps : Staged(t)' /\ n \in staging'[Key(t)'].marks => s > t
  BY DEF PendingInv
<1>1. /\ ~Restart /\ s \in Steps
      /\ s \in Pending(n) \/ (s = trained /\ trained' = trained /\ Owes(n, s))
  BY PendingCame DEF DInv
<1>2. /\ s > Newest
      /\ \A t \in Steps : Staged(t) /\ n \in staging[Key(t)].marks => s > t
  BY <1>1, OwedIsNewest DEF DInv, PendingInv
<1>3. s > Newest'
  <2>1. CASE Newest' = Newest
    BY <1>2, <2>1
  <2>2. ASSUME NEW m \in Nodes, Publish(m), Newest' = Min(todo[m]) PROVE s > Newest'
    <3>1. Full(Newest') /\ Newest' \in Steps
      BY <2>2, FullIs DEF DInv, Full
    <3> HIDE DEF Newest
    <3> QED BY <1>2, <3>1 DEF Full
  <2> QED BY <2>1, <2>2, NewestRises
<1>4. ASSUME NEW t \in Steps, Staged(t)', n \in staging'[Key(t)'].marks PROVE s > t
  <2>1. Key(t)' = Key(t)
    BY <1>1, SameRun DEF IInv
  <2>2. (Staged(t) /\ n \in staging[Key(t)].marks) \/ Marked(n, t)
    BY <1>1, <1>4, <2>1, StagingStep
  <2> QED BY <1>2, <2>2, MarkedWasFirst
<1> QED BY <1>3, <1>4

\* Every step keeps FullInv.
LEMMA FullKept ==
    ASSUME IInv, CInv, DInv, Step
    PROVE  FullInv'
<1> SUFFICES ASSUME NEW n \in Nodes, pc'[n] \in {"locking", "placing"}, NEW s, s = Min(todo'[n])
             PROVE  /\ Staged(s)' => Full(s)'
                    /\ s > Newest' => Staged(s)'
  BY DEF FullInv, Full, Staged, Key, Scope
<1>0. TypeOK /\ AgentInv /\ TypeOK' /\ FullInv /\ Nodes # {}
  BY TypeStep, MirrorAssumption DEF IInv, DInv
<1>1. todo'[n] = todo[n] /\ ~Restart /\ todo[n] # {} /\ s = Min(todo[n])
  BY <1>0, PlacingStep, BusyWith
<1>2. s \in AllSteps /\ s \in Nat
  BY <1>0, <1>1, BusyWith, StepIsNat
<1>3. Key(s)' = Key(s)
  BY <1>0, <1>1, SameRun
<1>4. /\ \A m \in Nodes : ~Owes(m, s)
      /\ Staged(s) => Full(s)
      /\ s > Newest => Staged(s)
  <2>1. CASE pc[n] \in {"locking", "placing"}
    BY <1>0, <1>1, <2>1 DEF CInv, PlaceInv, FullInv
  <2>2. CASE AllMarkers(s)
    <3>1. Full(s)
      BY <1>0, <2>2 DEF AllMarkers, DirAt, Staged, EmptyDir, Full
    <3>2. s \in Steps
      BY <1>0, <3>1, FullIs DEF Full
    <3> QED BY <3>1, <3>2 DEF CInv, MarkInv, Full
  <2>3. pc[n] # "replacing"
    BY DEF CInv, DoneInv
  <2> QED BY <1>1, <2>1, <2>2, <2>3, PlacingStep
<1>5. ASSUME Staged(s)' PROVE Full(s)'
  <2>1. s \in Steps
    <3>1. Key(s)' \in (1 .. MaxAttempts) \X Steps /\ Key(s)' = <<attempt', s>>
      BY <1>0, <1>5 DEF Staged, TypeOK, Key, Scope
    <3> QED BY <3>1
  <2>2. Staged(s)
    BY <1>1, <1>4, <1>5, <2>1, StagingStep
  <2>3. staging[Key(s)].marks \subseteq staging'[Key(s)].marks /\ staging[Key(s)].marks = Nodes
    BY <1>1, <1>4, <1>5, <2>1, <2>2, StagingStep DEF Full
  <2>4. staging'[Key(s)'].marks \subseteq Nodes
    BY <1>0, <1>5 DEF TypeOK, Staged
  <2> QED BY <1>3, <1>5, <2>3, <2>4 DEF Full
<1>6. ASSUME s > Newest' PROVE Staged(s)'
  <2>1. s > Newest
    BY <1>2, <1>6, NewestRises
  <2>2. Staged(s) /\ s \in Steps
    BY <1>0, <1>4, <2>1, FullIs
  <2>3. ASSUME NEW m \in Nodes, Publish(m), Min(todo[m]) = s PROVE FALSE
    <3>1. s \in Complete'
      BY <2>3 DEF Publish, Put, Complete
    <3>2. s <= Newest' /\ Newest' \in Nat
      BY <1>0, <3>1, LocalNext DEF Newest
    <3> QED BY <1>2, <1>6, <3>2
  <2> QED BY <1>1, <2>1, <2>2, <2>3, StagingStep DEF Newest
<1> QED BY <1>5, <1>6

\* A lock is taken by an agent that is then about to place the checkpoint, and is given
\* back when that fails.
LEMMA LockCame ==
    ASSUME IInv, CInv, Step, ~Restart, NEW s \in Steps, Staged(s)', staging'[Key(s)'].lock
    PROVE  /\ \/ Staged(s) /\ staging[Key(s)].lock
              \/ \E m \in Nodes : pc'[m] = "placing" /\ Min(todo'[m]) = s
           /\ \A m \in Nodes : (Publish(m) \/ PublishFails(m)) => Min(todo[m]) # s
<1> USE DEF trainVars, agentVars
<1>0. /\ TypeOK /\ Key(s)' = Key(s) /\ \A k \in DOMAIN staging : staging[k] \in Dirs
      /\ todo \in [Nodes -> SUBSET AllSteps] /\ pc \in [Nodes -> Places]
  BY SameRun DEF IInv, TypeOK, Dirs, AllSteps, Places
<1>1. Key(s) \in DOMAIN staging' /\ staging'[Key(s)].lock
  BY <1>0 DEF Staged
<1>2. ASSUME NEW m \in Nodes, Publish(m) \/ PublishFails(m) PROVE Min(todo[m]) # s
  <2>1. CASE Publish(m)
    BY <1>1, <2>1 DEF Publish, Without
  <2>2. CASE PublishFails(m)
    BY <1>0, <1>1, <2>2 DEF PublishFails, Unlocked, Dirs
  <2> QED BY <1>2, <2>1, <2>2
<1> DEFINE Had == Key(s) \in DOMAIN staging /\ staging[Key(s)].lock
<1>3. CASE Save \/ EndTraining \/ Finish \/ Done
  BY <1>0, <1>1, <1>2, <1>3, JobKeeps DEF Staged
<1>4. ASSUME NEW m \in Nodes,
             TrainStep(m) \/ List(m) \/ Look(m) \/ SetAside(m) \/ TrimMirror(m) \/ TrimEnds(m)
      PROVE  Had
  BY <1>0, <1>1, <1>4, TrainKeeps DEF List, Look, SetAside, TrimMirror, TrimEnds
<1>5. ASSUME NEW m \in Nodes, CopyStart(m) \/ Mark(m) PROVE Had
  <2> DEFINE h == Head(queue[m])
  <2>1. h \in Steps /\ DirAt(h) \in Dirs
    BY <1>0, <1>5, BusyWith, DirTyped DEF CopyStart, Mark, IInv
  <2>2. \/ UNCHANGED staging
        \/ \E d : staging' = Put(staging, Key(h), d) /\ d.lock = DirAt(h).lock
    <3>1. [DirAt(h) EXCEPT !.marks = @ \cup {m}].lock = DirAt(h).lock
      BY <2>1 DEF Dirs
    <3> HIDE DEF h
    <3> QED BY <1>5, <3>1 DEF CopyStart, Mark, h
  <2>3. Key(h) = Key(s) => h = s
    BY DEF Key
  <2> HIDE DEF h
  <2>4. CASE UNCHANGED staging
    BY <1>1, <2>4
  <2>5. ASSUME NEW d, staging' = Put(staging, Key(h), d), d.lock = DirAt(h).lock PROVE Had
    <3>1. CASE h = s
      BY <1>1, <2>5, <3>1 DEF Put, DirAt, EmptyDir
    <3>2. CASE h # s
      BY <1>1, <2>3, <2>5, <3>2 DEF Put
    <3> QED BY <3>1, <3>2
  <2> QED BY <2>2, <2>4, <2>5
<1>6. ASSUME NEW m \in Nodes, CopyDone(m) PROVE Had
  <2>1. \/ UNCHANGED staging
        \/ staging' = [staging EXCEPT ![Key(Head(queue[m]))].shares = @ \cup {<<attempt, m>>}]
    BY <1>6 DEF CopyDone
  <2> QED BY <1>0, <1>1, <2>1 DEF Dirs
<1>7. ASSUME NEW m \in Nodes, PublishFails(m) PROVE Had
  BY <1>0, <1>1, <1>7 DEF PublishFails, Unlocked, Dirs
<1>8. ASSUME NEW m \in Nodes, Publish(m) \/ DropEnds(m) PROVE Had
  BY <1>0, <1>1, <1>8 DEF Publish, DropEnds, Without
<1>9. ASSUME NEW m \in Nodes, DropDead(m) PROVE Had
  <2>1. PICK dead : staging' = [k \in DOMAIN staging |->
                      IF k \in dead THEN [staging[k] EXCEPT !.shares = {}] ELSE staging[k]]
    BY <1>9 DEF DropDead
  <2> QED BY <1>0, <1>1, <2>1 DEF Dirs
<1>10. ASSUME NEW m \in Nodes, Lock(m) PROVE Had \/ (pc'[m] = "placing" /\ Min(todo'[m]) = s)
  <2>1. CASE UNCHANGED staging
    BY <1>1, <2>1
  <2>2. CASE /\ staging' = [staging EXCEPT ![Key(Min(todo[m]))].lock = TRUE]
             /\ pc'[m] \in {"replacing", "placing"} /\ todo' = todo
    <3>1. CASE Min(todo[m]) = s
      <4>1. pc'[m] = "placing"
        BY <2>2, NothingAside
      <4> QED BY <2>2, <3>1, <4>1
    <3>2. CASE Min(todo[m]) # s
      <4>1. Key(Min(todo[m])) # Key(s)
        BY <3>2 DEF Key
      <4> QED BY <1>0, <1>1, <2>2, <4>1 DEF Dirs
    <3> QED BY <3>1, <3>2
  <2> QED BY <1>0, <1>10, <2>1, <2>2 DEF Lock, Goto
<1>11. Had => Staged(s) /\ staging[Key(s)].lock
  BY DEF Staged
<1> HIDE DEF Had
<1> QED BY <1>2, <1>3, <1>4, <1>5, <1>6, <1>7, <1>8, <1>9, <1>10, <1>11 DEF Step, Agent

\* An agent that is about to place a checkpoint does, or fails to.
LEMMA PlacingLeaves ==
    ASSUME IInv, Step, ~Restart, NEW n \in Nodes, pc[n] = "placing"
    PROVE  \/ pc'[n] = "placing" /\ todo'[n] = todo[n]
           \/ Publish(n) \/ PublishFails(n)
<1> USE DEF trainVars, agentVars
<1>0. TypeOK /\ pc \in [Nodes -> Places]
  BY DEF IInv, TypeOK, Places
<1>1. CASE Save \/ EndTraining \/ Finish \/ Done
  BY <1>1, JobKeeps
<1>2. ASSUME NEW m \in Nodes, TrainStep(m) PROVE pc'[n] = pc[n] /\ todo'[n] = todo[n]
  BY <1>0, <1>2 DEF TrainStep, OnSave, DrainSettle, DrainRetry, DrainEnd
<1>3. ASSUME NEW m \in Nodes, m # n, Agent(m) PROVE pc'[n] = pc[n] /\ todo'[n] = todo[n]
  BY <1>0, <1>3, AgentKeeps
<1>4. CASE Agent(n)
  BY <1>4 DEF Agent, CopyStart, CopyDone, Mark, List, Look, Lock, SetAside, TrimMirror, TrimEnds,
     DropDead, DropEnds
<1> QED BY <1>1, <1>2, <1>3, <1>4 DEF Step

\* Every step keeps LockInv.
LEMMA LockKept ==
    ASSUME IInv, CInv, DInv, Step
    PROVE  LockInv'
<1> SUFFICES ASSUME NEW s \in Steps, Staged(s)', staging'[Key(s)'].lock
             PROVE  \E m \in Nodes : pc'[m] = "placing" /\ Min(todo'[m]) = s
  BY DEF LockInv, InHand
<1>1. ~Restart
  <2>1. ASSUME Restart PROVE FALSE
    <3>1. staging' = [k \in {} |-> EmptyDir]
      BY <2>1, RestartClears DEF IInv
    <3> QED BY <3>1 DEF Staged
  <2> QED BY <2>1
<1>2. CASE Staged(s) /\ staging[Key(s)].lock
  <2>1. PICK m \in Nodes : pc[m] = "placing" /\ Min(todo[m]) = s
    BY <1>2 DEF DInv, LockInv, InHand
  <2>2. ~Publish(m) /\ ~PublishFails(m)
    BY <1>1, <2>1, LockCame
  <2>3. pc'[m] = "placing" /\ todo'[m] = todo[m]
    BY <1>1, <2>1, <2>2, PlacingLeaves
  <2> QED BY <2>1, <2>3
<1> QED BY <1>1, <1>2, LockCame

\* Where an agent that works through its list had the list from.
LEMMA SettlingCame ==
    ASSUME IInv, CInv, Step, NEW n \in Nodes, Settling(n)'
    PROVE  /\ ~Restart
           /\ \/ List(n)
              \/ Settling(n) /\ todo'[n] = todo[n]
              \/ Settling(n) /\ todo[n] # {} /\ todo'[n] = todo[n] \ {Min(todo[n])}
<1> USE DEF trainVars, agentVars
<1>0. /\ TypeOK /\ AgentInv /\ pc \in [Nodes -> Places] /\ todo \in [Nodes -> SUBSET AllSteps]
      /\ pc'[n] \in {"looking", "locking", "placing"} /\ pc[n] # "replacing"
  BY DEF IInv, TypeOK, Places, AllSteps, CInv, DoneInv, Settling
<1>1. ~Restart
  BY <1>0 DEF Restart
<1>2. CASE Save \/ EndTraining \/ Finish \/ Done
  BY <1>0, <1>1, <1>2, JobKeeps DEF Settling
<1>3. ASSUME NEW m \in Nodes, TrainStep(m) PROVE pc'[n] = pc[n] /\ todo'[n] = todo[n]
  BY <1>0, <1>3, TrainKeeps
<1>4. ASSUME NEW m \in Nodes, m # n, Agent(m) PROVE pc'[n] = pc[n] /\ todo'[n] = todo[n]
  BY <1>0, <1>4, AgentKeeps
<1>5. CASE Agent(n)
  <2>1. ~TrimMirror(n) /\ ~TrimEnds(n) /\ ~DropDead(n) /\ ~DropEnds(n)
    BY <1>0 DEF TrimMirror, TrimEnds, DropDead, DropEnds, SettleEnds, Goto
  <2>2. ~CopyStart(n) /\ ~CopyDone(n) /\ ~Mark(n)
    BY <1>0 DEF CopyStart, CopyDone, Mark, CopyFails, Goto
  <2>3. List(n) \/ Look(n) \/ Lock(n) \/ Publish(n) \/ PublishFails(n)
    BY <1>0, <1>5, <2>1, <2>2 DEF Agent, SetAside
  <2>4. CASE Look(n)
    BY <1>0, <1>1, <2>4 DEF Look, Drop, Goto, Settling
  <2>5. CASE Lock(n)
    <3>1. todo[n] # {}
      BY <1>0, <2>5 DEF Lock, AgentInv
    <3> QED BY <1>0, <1>1, <2>5, <3>1 DEF Lock, Drop, Goto, Settling, SettleEnds
  <2>6. CASE Publish(n) \/ PublishFails(n)
    <3>1. todo[n] # {} /\ pc[n] = "placing"
      BY <1>0, <2>6 DEF Publish, PublishFails, AgentInv
    <3> QED BY <1>0, <1>1, <2>6, <3>1 DEF Publish, PublishFails, Drop, Goto, Settling
  <2> QED BY <1>1, <2>3, <2>4, <2>5, <2>6
<1> QED BY <1>0, <1>1, <1>2, <1>3, <1>4, <1>5 DEF Step, Settling

\* Every step keeps ListInv.
LEMMA ListKept ==
    ASSUME IInv, CInv, DInv, Step
    PROVE  ListInv'
<1> USE DEF trainVars, agentVars
<1> SUFFICES ASSUME NEW n \in Nodes, Settling(n)', todo'[n] # {},
                    NEW t \in Steps, Staged(t)', n \in staging'[Key(t)'].marks, t > Min(todo'[n])
             PROVE  t \in todo'[n]
  BY DEF ListInv
<1>0. /\ TypeOK /\ AgentInv /\ ListInv /\ t \in Nat
      /\ todo \in [Nodes -> SUBSET AllSteps] /\ pc \in [Nodes -> Places]
  BY MirrorAssumption DEF IInv, DInv, TypeOK, AllSteps, Places
<1>1. ~Restart /\ Key(t)' = Key(t)
  BY <1>0, SettlingCame, SameRun
<1>2. Staged(t) /\ n \in staging[Key(t)].marks
  <2>1. ~Marked(n, t)
    BY DEF Marked, Settling
  <2> QED BY <1>1, <2>1, StagingStep
<1>3. CASE List(n)
  BY <1>0, <1>2, <1>3 DEF List, Staged
<1>4. CASE Settling(n) /\ todo'[n] = todo[n]
  BY <1>0, <1>2, <1>4 DEF ListInv
<1>5. CASE Settling(n) /\ todo[n] # {} /\ todo'[n] = todo[n] \ {Min(todo[n])}
  <2>1. Min(todo[n]) \in Nat /\ \A x \in todo[n] : x \in Nat /\ Min(todo[n]) <= x
    <3>1. todo[n] \subseteq AllSteps
      BY <1>0
    <3> QED BY <1>5, <3>1, SomeSteps, MinIn
  <2>2. todo'[n] \subseteq Nat
    BY <1>5, <2>1
  <2>3. Min(todo'[n]) \in todo'[n]
    BY <2>2, MinIn
  <2>4. Min(todo[n]) <= Min(todo'[n]) /\ Min(todo'[n]) \in Nat
    BY <1>5, <2>1, <2>3
  <2>5. t > Min(todo[n])
    BY <1>0, <2>1, <2>4
  <2>6. t \in todo[n] /\ t # Min(todo[n])
    BY <1>0, <1>2, <1>5, <2>1, <2>5 DEF ListInv
  <2> QED BY <1>5, <2>6
<1> QED BY <1>3, <1>4, <1>5, SettlingCame

\* A dead checkpoint with every marker had them before: marks are put on live ones.
LEMMA DeadWasFull ==
    ASSUME IInv, CInv, DInv, Step, NEW s \in Steps, Full(s)', s < Newest'
    PROVE  ~Restart /\ Full(s) /\ Key(s)' = Key(s)
<1> USE DEF trainVars, agentVars
<1>0. TypeOK /\ Nodes # {} /\ s \in Nat /\ pc \in [Nodes -> Places]
  BY MirrorAssumption DEF IInv, TypeOK, Places
<1>1. Staged(s)' /\ staging'[Key(s)'].marks = Nodes
  BY DEF Full
<1>2. ~Restart
  <2>1. ASSUME Restart PROVE FALSE
    <3>1. staging' = [k \in {} |-> EmptyDir]
      BY <2>1, RestartClears DEF IInv
    <3> QED BY <1>1, <3>1 DEF Staged
  <2> QED BY <2>1
<1>3. Key(s)' = Key(s)
  BY <1>0, <1>2, SameRun
<1>4. ASSUME NEW n \in Nodes, Marked(n, s) PROVE FALSE
  <2>1. s > Newest
    BY <1>4, MarkedWasFirst DEF DInv, PendingInv
  <2>2. ASSUME NEW m \in Nodes, Publish(m) PROVE FALSE
    <3>1. m # n
      BY <1>4, <2>2 DEF Publish, Marked
    <3>2. pc'[n] = pc[n]
      BY <1>0, <2>2, <3>1 DEF Publish, Goto
    <3> QED BY <1>4, <3>2 DEF Marked
  <2>3. Newest' = Newest /\ Newest \in Nat
    BY <2>2, NewestRises
  <2> QED BY <1>0, <2>1, <2>3
<1>5. \A n \in Nodes : Staged(s) /\ n \in staging[Key(s)].marks
  BY <1>1, <1>2, <1>3, <1>4, StagingStep
<1>6. Full(s)
  <2>1. Staged(s)
    BY <1>0, <1>5
  <2>2. staging[Key(s)].marks \subseteq Nodes
    BY <2>1 DEF Staged, IInv, TypeOK
  <2> QED BY <1>5, <2>1, <2>2 DEF Full
<1> QED BY <1>2, <1>3, <1>6

\* Who sweeps goes on to, or has removed the directory.
LEMMA SweepsOn ==
    ASSUME IInv, CInv, DInv, Step, ~Restart, Newest' = Newest, NEW n \in Nodes, NEW s \in Steps,
           Full(s), s < Newest, Sweeps(n, s), Key(s) \in DOMAIN staging'
    PROVE  Sweeps(n, s)'
<1> USE DEF trainVars, agentVars
<1>0. /\ TypeOK /\ AgentInv /\ FullInv /\ Nodes # {}
      /\ pc \in [Nodes -> Places] /\ todo \in [Nodes -> SUBSET AllSteps]
  BY MirrorAssumption DEF IInv, DInv, TypeOK, Places, AllSteps
<1>1. pc[n] \in {"looking", "locking", "placing", "trimming", "removing", "dropping", "deleting"}
  BY DEF Sweeps, Settling
<1>2. ASSUME pc'[n] = pc[n], todo'[n] = todo[n] PROVE Sweeps(n, s)'
  BY <1>2 DEF Sweeps, Settling
<1>3. CASE Save \/ EndTraining \/ Finish \/ Done
  BY <1>2, <1>3, JobKeeps
<1>4. ASSUME NEW m \in Nodes, TrainStep(m) PROVE Sweeps(n, s)'
  <2>1. pc'[n] = pc[n]
    BY <1>0, <1>1, <1>4 DEF TrainStep, OnSave, DrainSettle, DrainRetry, DrainEnd
  <2> QED BY <1>0, <1>2, <1>4, <2>1, TrainKeeps
<1>5. ASSUME NEW m \in Nodes, m # n, Agent(m) PROVE Sweeps(n, s)'
  BY <1>0, <1>2, <1>5, AgentKeeps
<1>6. CASE Settling(n) /\ Agent(n)
  <2>1. \A x \in todo[n] : x > Newest
    BY <1>6 DEF Sweeps, Settling
  <2>2. CASE pc'[n] = "trimming"
    BY <2>2 DEF Sweeps
  <2>3. CASE pc'[n] \in {"looking", "locking", "placing"} /\ todo'[n] \subseteq todo[n]
    BY <2>1, <2>3 DEF Sweeps, Settling
  <2>4. pc'[n] # "replacing"
    BY NothingAside
  <2>5. CASE Look(n)
    BY <1>0, <2>2, <2>3, <2>5 DEF Look, Goto, Drop
  <2>6. CASE Publish(n) \/ PublishFails(n)
    BY <1>0, <2>3, <2>6 DEF Publish, PublishFails, Goto, Drop
  <2>7. CASE Lock(n)
    <3>1. todo[n] # {} /\ pc[n] = "locking"
      BY <1>0, <2>7 DEF Lock, AgentInv
    <3>2. Min(todo[n]) > Newest
      BY <1>0, <2>1, <3>1, BusyWith
    <3>3. DirAt(Min(todo[n])).marks = Nodes
      BY <1>0, <3>1, <3>2 DEF FullInv, Full, Staged, DirAt
    <3> QED BY <1>0, <2>3, <2>4, <2>7, <3>3 DEF Lock, Goto, Drop
  <2>8. Look(n) \/ Lock(n) \/ Publish(n) \/ PublishFails(n)
    BY <1>6 DEF Settling, Agent, CopyStart, CopyDone, Mark, List, SetAside, TrimMirror, TrimEnds,
       DropDead, DropEnds
  <2> QED BY <2>5, <2>6, <2>7, <2>8
<1>7. CASE Agent(n) /\ pc[n] \in {"trimming", "removing"}
  <2>1. TrimMirror(n) \/ TrimEnds(n)
    BY <1>7 DEF Agent, CopyStart, CopyDone, Mark, List, Look, Lock, SetAside, Publish, PublishFails,
       DropDead, DropEnds
  <2>2. pc'[n] \in {"removing", "dropping"}
    BY <1>0, <2>1 DEF TrimMirror, TrimEnds, Goto
  <2> QED BY <2>2 DEF Sweeps
<1>8. CASE Agent(n) /\ pc[n] = "dropping"
  <2>1. DropDead(n)
    BY <1>8 DEF Agent, CopyStart, CopyDone, Mark, List, Look, Lock, SetAside, Publish, PublishFails,
       TrimMirror, TrimEnds, DropEnds
  <2>2. Key(s) \in OlderThan(Max(Complete)) /\ Complete # {} /\ Key(s)[2] = s
    <3>1. Complete # {}
      <4>1. s \in Nat
        BY MirrorAssumption
      <4> QED BY <4>1 DEF Newest, SetMax
    <3>2. Newest = Max(Complete) /\ Key(s)[2] = s
      BY <3>1 DEF Newest, SetMax, Key
    <3> QED BY <3>1, <3>2 DEF OlderThan, Full, Staged
  <2>3. pc'[n] = "deleting" /\ s \in todo'[n]
    BY <1>0, <2>1, <2>2 DEF DropDead, Goto
  <2> QED BY <2>3 DEF Sweeps
<1>9. CASE Agent(n) /\ pc[n] = "deleting"
  <2>1. DropEnds(n)
    BY <1>9 DEF Agent, CopyStart, CopyDone, Mark, List, Look, Lock, SetAside, Publish, PublishFails,
       TrimMirror, TrimEnds, DropDead
  <2>2. s \in todo[n] /\ Key(s) \in DOMAIN staging /\ Key(s)[2] = s
    BY <1>9 DEF Sweeps, Settling, Full, Staged, Key
  <2> QED BY <2>1, <2>2 DEF DropEnds, Without
<1>10. Settling(n) \/ pc[n] \in {"trimming", "removing", "dropping", "deleting"}
  BY DEF Sweeps
<1> QED BY <1>3, <1>4, <1>5, <1>6, <1>7, <1>8, <1>9, <1>10 DEF Step

\* Every step keeps SweepInv.
LEMMA SweepKept ==
    ASSUME IInv, CInv, DInv, Step
    PROVE  SweepInv'
<1> USE DEF trainVars, agentVars
<1> SUFFICES ASSUME NEW s \in Steps, Full(s)', s < Newest'
             PROVE  \E n \in Nodes : Sweeps(n, s)'
  BY DEF SweepInv
<1>1. ~Restart /\ Full(s) /\ Key(s)' = Key(s)
  BY DeadWasFull
<1>2. CASE Newest' = Newest
  <2>1. PICK n \in Nodes : Sweeps(n, s)
    BY <1>1, <1>2 DEF DInv, SweepInv
  <2>2. Key(s) \in DOMAIN staging'
    BY <1>1 DEF Full, Staged
  <2> QED BY <1>1, <1>2, <2>1, <2>2, SweepsOn
<1>3. ASSUME NEW n \in Nodes, Publish(n), Newest' = Min(todo[n]) PROVE Sweeps(n, s)'
  <2>0. /\ TypeOK /\ AgentInv /\ pc \in [Nodes -> Places] /\ todo \in [Nodes -> SUBSET AllSteps]
        /\ todo[n] # {}
    BY <1>3 DEF IInv, TypeOK, Places, AllSteps, AgentInv, Publish
  <2>1. pc'[n] = "looking" /\ todo'[n] = todo[n] \ {Min(todo[n])}
    BY <1>3, <2>0 DEF Publish, Goto, Drop
  <2>2. \A x \in todo'[n] : x > Min(todo[n])
    <3>1. todo[n] \subseteq Nat /\ Min(todo[n]) \in todo[n] /\ \A x \in todo[n] : Min(todo[n]) <= x
      <4>1. todo[n] \subseteq AllSteps
        BY <2>0
      <4> QED BY <2>0, <4>1, SomeSteps, MinIn
    <3> QED BY <2>1, <3>1
  <2> QED BY <1>3, <2>1, <2>2 DEF Sweeps, Settling
<1> QED BY <1>2, <1>3, NewestRises

\* A checkpoint that stays in the mirror stays as it is, or is emptied.
LEMMA FinalStays ==
    ASSUME IInv, CInv, Step, NEW s \in Complete, s \in Complete'
    PROVE  final'[s] \in {final[s], {}}
<1> USE DEF trainVars, agentVars
<1>0. TypeOK /\ \A n \in Nodes : aside[n] = {} /\ pc[n] # "replacing"
  BY DEF IInv, CInv, DoneInv
<1>1. CASE Save \/ EndTraining \/ Finish \/ Done \/ Restart
  BY <1>1, JobKeeps DEF Restart
<1>2. ASSUME NEW n \in Nodes, TrainStep(n) PROVE final' = final
  BY <1>0, <1>2, TrainKeeps
<1>3. ASSUME NEW n \in Nodes, Publish(n) PROVE final'[s] = final[s]
  BY <1>3 DEF Publish, CanPlace, Put, Complete
<1>4. ASSUME NEW n \in Nodes, PublishFails(n) PROVE final'[s] = final[s]
  BY <1>0, <1>4 DEF PublishFails, PutBack
<1>5. ASSUME NEW n \in Nodes, TrimMirror(n) PROVE final'[s] \in {final[s], {}}
  BY <1>5 DEF TrimMirror
<1>6. ASSUME NEW n \in Nodes, TrimEnds(n) PROVE final'[s] = final[s]
  BY <1>6 DEF TrimEnds, Without, Complete
<1>7. ASSUME NEW n \in Nodes, \/ CopyStart(n) \/ CopyDone(n) \/ Mark(n) \/ List(n) \/ Look(n)
                              \/ Lock(n) \/ SetAside(n) \/ DropDead(n) \/ DropEnds(n)
      PROVE  final' = final
  BY <1>0, <1>7 DEF CopyStart, CopyDone, Mark, List, Look, Lock, SetAside, DropDead, DropEnds
<1> QED BY <1>1, <1>2, <1>3, <1>4, <1>5, <1>6, <1>7 DEF Step, Agent

\* Who removes checkpoints after a step chose them now, or went on with them.
LEMMA RemovingCame ==
    ASSUME IInv, Step, NEW n \in Nodes, pc'[n] = "removing"
    PROVE  ~Restart /\ (TrimMirror(n) \/ (pc[n] = "removing" /\ todo'[n] = todo[n]))
<1>0. TypeOK
  BY DEF IInv
<1>1. CASE Save \/ EndTraining \/ Finish \/ Done \/ Restart
  BY <1>1, JobKeeps DEF Restart, Save, EndTraining, Finish, Done
<1>2. ASSUME NEW m \in Nodes, TrainStep(m) PROVE ~Restart /\ pc[n] = "removing" /\ todo'[n] = todo[n]
  BY <1>0, <1>2, TrainKeeps DEF Restart
<1>3. ASSUME NEW m \in Nodes, Agent(m), ~TrimMirror(n)
      PROVE  ~Restart /\ pc[n] = "removing" /\ todo'[n] = todo[n]
  BY <1>0, <1>3, AgentKeeps, Moves DEF Restart
<1> QED BY <1>1, <1>2, <1>3 DEF Step, Restart

\* Every step keeps VictimInv.
LEMMA VictimKept ==
    ASSUME IInv, CInv, DInv, Step
    PROVE  VictimInv'
<1> USE DEF trainVars, agentVars
<1> SUFFICES ASSUME NEW n \in Nodes, pc'[n] = "removing", NEW s \in todo'[n]
             PROVE  /\ ~Staged(s)' /\ \A m \in Nodes : ~Owes(m, s)'
                    /\ s \in Complete' => final'[s] = {}
  BY DEF VictimInv
<1>0. TypeOK /\ TypeOK' /\ pc \in [Nodes -> Places] /\ todo \in [Nodes -> SUBSET AllSteps]
  BY TypeStep DEF IInv, TypeOK, Places, AllSteps
<1>1. ~Restart /\ s \in AllSteps /\ s \in Nat
  <2>1. s \in AllSteps
    BY <1>0 DEF TypeOK, AllSteps
  <2> QED BY <2>1, RemovingCame, StepIsNat
<1>2. /\ ~Staged(s) /\ \A m \in Nodes : ~Owes(m, s)
      /\ s \in Complete /\ s \in Complete' => final'[s] = {}
  <2>1. CASE TrimMirror(n)
    <3>1. s \in Trim(Complete, Keep, seen[n]) /\ Keep # 0
      BY <1>0, <2>1 DEF TrimMirror
    <3>2. s \in Complete
      BY <1>0, <3>1, LocalTyped, TrimSpares
    <3>3. final'[s] = {}
      BY <2>1, <3>1, <3>2 DEF TrimMirror
    <3> QED BY <3>2, <3>3 DEF CInv, DoneInv
  <2>2. CASE pc[n] = "removing" /\ todo'[n] = todo[n]
    <3>1. /\ ~Staged(s) /\ \A m \in Nodes : ~Owes(m, s)
          /\ s \in Complete => final[s] = {}
      BY <2>2 DEF DInv, VictimInv
    <3> QED BY <3>1, FinalStays
  <2> QED BY <2>1, <2>2, RemovingCame
<1>3. ~Staged(s)'
  <2>1. ASSUME Staged(s)' PROVE s \in Steps
    <3>1. Key(s)' \in (1 .. MaxAttempts) \X Steps /\ Key(s)' = <<attempt', s>>
      BY <1>0, <2>1 DEF Staged, TypeOK, Key, Scope
    <3> QED BY <3>1
  <2> QED BY <1>1, <1>2, <2>1, StagingStep
<1>4. \A m \in Nodes : ~Owes(m, s)'
  BY <1>1, <1>2, OwesShrinks
<1>5. s \in Complete' => s \in Complete
  <2>1. ASSUME NEW m \in Nodes, Publish(m), s = Min(todo[m]) PROVE FALSE
    BY <1>2, <2>1 DEF Publish, CanPlace, Staged
  <2> QED BY <2>1, NewInMirror
<1> QED BY <1>2, <1>3, <1>4, <1>5

-----------------------------------------------------------------------------
(* Together.                                                               *)

\* DInv holds when a run starts.
LEMMA DrainsAtFirst == Init => DInv
<1> SUFFICES ASSUME Init PROVE DInv
  OBVIOUS
<1>1. /\ \A n \in Nodes : /\ queue[n] = <<>> /\ failed[n] = {} /\ phase[n] = "run" /\ pc[n] = "idle"
                          /\ pass[n] = 1 /\ seen[n] = 0 /\ todo[n] = {}
      /\ DOMAIN staging = {}
  BY DEF Init
<1>2. PhaseInv /\ DiskInv /\ SeenInv /\ ListInv /\ FullInv
  BY <1>1 DEF PhaseInv, DiskInv, SeenInv, ListInv, Settling, FullInv
<1>3. PendingInv
  <2>1. DOMAIN <<>> = {}
    OBVIOUS
  <2> QED BY <1>1, <2>1 DEF PendingInv, Pending
<1>4. LockInv /\ SweepInv /\ VictimInv
  BY <1>1 DEF LockInv, SweepInv, VictimInv, Staged, Full
<1> QED BY <1>2, <1>3, <1>4 DEF DInv

\* Every step keeps DInv.
LEMMA DrainsStep == IInv /\ CInv /\ DInv /\ [Step]_vars => DInv'
<1> SUFFICES ASSUME IInv, CInv, DInv, [Step]_vars PROVE DInv'
  OBVIOUS
<1>1. CASE Step
  <2>1. PhaseInv' /\ DiskInv' /\ SeenInv'
    BY <1>1, PhaseStep, DiskStep, SeenStep DEF DInv
  <2>2. PendingInv' /\ FullInv' /\ LockInv' /\ ListInv' /\ SweepInv' /\ VictimInv'
    BY <1>1, PendingKept, FullKept, LockKept, ListKept, SweepKept, VictimKept
  <2> QED BY <2>1, <2>2 DEF DInv
<1>2. CASE UNCHANGED vars
  <2> USE <1>2 DEF vars, trainVars, agentVars
  <2>1. PhaseInv' /\ DiskInv' /\ SeenInv'
    BY DEF DInv, PhaseInv, DiskInv, SeenInv
  <2>2. PendingInv'
    BY DEF DInv, PendingInv, Pending, Newest, Staged, Key, Scope, Complete
  <2>3. FullInv'
    BY DEF DInv, FullInv, Full, Newest, Staged, Key, Scope, Complete
  <2>4. LockInv'
    BY DEF DInv, LockInv, InHand, Staged, Key, Scope
  <2>5. ListInv'
    BY DEF DInv, ListInv, Settling, Staged, Key, Scope
  <2>6. SweepInv'
    BY DEF DInv, SweepInv, Sweeps, Settling, Full, Newest, Staged, Key, Scope, Complete
  <2>7. VictimInv'
    BY DEF DInv, VictimInv, Owes, Staged, Key, Scope, Complete
  <2> QED BY <2>1, <2>2, <2>3, <2>4, <2>5, <2>6, <2>7 DEF DInv
<1> QED BY <1>1, <1>2

\* A run that is started again has forgotten what its predecessor neglected.
LEMMA DrainsAgain ==
    ASSUME IInv, Restart
    PROVE  DInv'
<1>1. /\ \A n \in Nodes : /\ queue'[n] = <<>> /\ failed'[n] = {} /\ phase'[n] = "run"
                          /\ pc'[n] = "idle" /\ pass'[n] = 1 /\ seen'[n] = 0
      /\ staging' = [k \in {} |-> EmptyDir]
  BY RestartClears DEF Restart, IInv
<1>2. DOMAIN staging' = {} /\ DOMAIN <<>> = {}
  BY <1>1
<1>3. PhaseInv' /\ DiskInv' /\ SeenInv' /\ ListInv' /\ FullInv'
  BY <1>1 DEF PhaseInv, DiskInv, SeenInv, ListInv, Settling, FullInv
<1>4. PendingInv'
  BY <1>1, <1>2 DEF PendingInv, Pending
<1>5. LockInv' /\ SweepInv' /\ VictimInv'
  BY <1>1, <1>2 DEF LockInv, SweepInv, VictimInv, Staged, Full
<1> QED BY <1>3, <1>4, <1>5 DEF DInv

\* Who has neglected nothing after a step had not before it, or is started again.
LEMMA Tended ==
    ASSUME [Next]_vars, ~neglected'
    PROVE  [Step]_vars /\ (~neglected \/ Restart)
<1>1. CASE UNCHANGED vars
  BY <1>1 DEF vars
<1>2. CASE Step
  <2>1. neglected' = neglected \/ Restart
    BY <1>2, NeglectedKept
  <2>2. ~neglected \/ Restart
    BY <2>1, Zenon
  <2> QED BY <1>2, <2>2
<1>3. ASSUME NEW n \in Nodes, Neglects(n) PROVE FALSE
  BY <1>3 DEF Neglects, SettleFails, TrimFails, DropFails, Neglect
<1> QED BY <1>1, <1>2, <1>3 DEF Next

\* A run that continues from the mirror never leaves DInv, unless it neglects something.
LEMMA DrainsAlways ==
    ASSUME Continues
    PROVE  Spec => [](~neglected => DInv)
<1>1. IInv /\ CInv /\ (~neglected => DInv) /\ [Next]_vars => (~neglected => DInv)'
  BY Tended, DrainsAgain, DrainsStep
<1> QED BY <1>1, DrainsAtFirst, Invariance, ContinuesAlways, PTL DEF Spec

-----------------------------------------------------------------------------
(* The last save is accounted for.                                         *)

\* The mirror has nothing newer than the last save.
LEMMA NewestIsSaved ==
    ASSUME IInv, CInv
    PROVE  trained \in Nat /\ Newest \in Nat /\ Newest <= trained
<1>0. /\ trained \in Nat /\ Newest \in Nat /\ Nodes # {}
      /\ Complete # {} => Newest \in Complete
      /\ Complete = {} => Newest = 0
  BY LocalTyped, MirrorAssumption DEF IInv, TypeOK, Newest, SetMax
<1>1. CASE Complete = {}
  BY <1>0, <1>1
<1>2. CASE Complete # {}
  <2>1. \A n \in Nodes : ~Owes(n, Newest)
    BY <1>0, <1>2 DEF CInv, DoneInv
  <2>2. ~ Newest > trained
    BY <1>0, <2>1 DEF Owes
  <2> QED BY <1>0, <2>2
<1> QED BY <1>1, <1>2

\* Nor after a step.
LEMMA NewestIsSavedNext == (IInv /\ CInv)' => (trained \in Nat /\ Newest \in Nat /\ Newest <= trained)'
<1>1. IInv /\ CInv => trained \in Nat /\ Newest \in Nat /\ Newest <= trained
  BY NewestIsSaved
<1> QED BY <1>1, PTL

\* What is published is not older than the newest checkpoint is afterwards.
LEMMA PublishedIsThere ==
    ASSUME IInv, Step, NEW n \in Nodes, Publish(n)
    PROVE  Min(todo[n]) \in Complete' /\ Min(todo[n]) <= Newest'
<1>1. Min(todo[n]) \in Complete'
  BY DEF Publish, Put, Complete
<1> QED BY <1>1, TypeStep, LocalNext DEF Newest

\* A failed step is forgotten when its marker is put, no earlier.
LEMMA FailedStays ==
    ASSUME IInv, NEW n \in Nodes, Agent(n), NEW s \in failed[n]
    PROVE  s \in failed'[n] \/ (Mark(n) /\ pc'[n] = "listing" /\ s = Head(queue[n]))
<1> USE DEF trainVars, agentVars
<1>0. failed \in [Nodes -> SUBSET Steps] /\ pc \in [Nodes -> Places]
  BY DEF IInv, TypeOK, Places
<1>1. CASE CopyStart(n) \/ CopyDone(n)
  BY <1>0, <1>1 DEF CopyStart, CopyDone, CopyFails
<1>2. CASE Mark(n)
  BY <1>0, <1>2 DEF Mark, CopyFails, Goto
<1>3. CASE \/ List(n) \/ Look(n) \/ Lock(n) \/ SetAside(n) \/ Publish(n) \/ PublishFails(n)
           \/ TrimMirror(n) \/ TrimEnds(n) \/ DropDead(n) \/ DropEnds(n)
  BY <1>3 DEF List, Look, Lock, SetAside, Publish, PublishFails, TrimMirror, TrimEnds, DropDead, DropEnds
<1> QED BY <1>1, <1>2, <1>3 DEF Agent

\* A marker that was put is there.
LEMMA MarkPut ==
    ASSUME IInv, NEW n \in Nodes, Mark(n), pc'[n] = "listing"
    PROVE  /\ Head(queue[n]) \in Steps
           /\ Key(Head(queue[n])) \in DOMAIN staging' /\ n \in staging'[Key(Head(queue[n]))].marks
<1> DEFINE h == Head(queue[n])
<1>1. h \in Steps /\ DirAt(h) \in Dirs
  BY BusyWith, DirTyped DEF Mark, IInv
<1>2. pc \in [Nodes -> Places]
  BY DEF IInv, TypeOK, Places
<1>3. staging' = Put(staging, Key(h), [DirAt(h) EXCEPT !.marks = @ \cup {n}])
  BY <1>2 DEF Mark, CopyFails, Goto
<1> HIDE DEF h
<1>4. Key(h) \in DOMAIN staging' /\ staging'[Key(h)] = [DirAt(h) EXCEPT !.marks = @ \cup {n}]
  BY <1>3 DEF Put
<1>5. n \in staging'[Key(h)].marks
  BY <1>1, <1>4 DEF Dirs
<1> QED BY <1>1, <1>4, <1>5 DEF h

\* A node that owes the last save goes on owing it, or puts its marker.
LEMMA OwedStays ==
    ASSUME IInv, DInv, Step, ~Restart, ~Save, NEW n \in Nodes, Owes(n, trained)
    PROVE  /\ trained' = trained
           /\ Owes(n, trained)' \/ (Mark(n) /\ pc'[n] = "listing" /\ trained = Head(queue[n]))
<1> USE DEF trainVars, agentVars
<1>0. TypeOK /\ trained \in Nat /\ queue[n] \in Seq(Steps) /\ AgentInv
  BY DEF IInv, TypeOK
<1>1. \/ trained \in failed[n]
      \/ phase[n] = "submit"
      \/ \E i \in DOMAIN queue[n] :
             queue[n][i] = trained /\ (i = 1 => pc[n] \in {"idle", "copying", "marking"})
  BY <1>0 DEF Owes
<1>2. ASSUME trained' = trained,
             \/ trained \in failed'[n]
             \/ phase'[n] = "submit"
             \/ \E i \in DOMAIN queue'[n] :
                    queue'[n][i] = trained /\ (i = 1 => pc'[n] \in {"idle", "copying", "marking"})
      PROVE  Owes(n, trained)'
  BY <1>2 DEF Owes
<1>3. CASE EndTraining \/ Finish \/ Done
  <2>1. UNCHANGED <<trained, failed, queue, pc>> /\ (phase[n] = "submit" => phase'[n] = "submit")
    BY <1>3 DEF EndTraining, Finish, Done, vars, All
  <2> QED BY <1>1, <1>2, <2>1
<1>4. ASSUME NEW m \in Nodes, m # n, TrainStep(m) \/ Agent(m)
      PROVE  trained' = trained /\ Owes(n, trained)'
  <2>1. /\ trained' = trained /\ queue'[n] = queue[n] /\ pc'[n] = pc[n] /\ failed'[n] = failed[n]
        /\ phase'[n] = phase[n]
    BY <1>0, <1>4, TrainOrder, AgentKeeps DEF DInv
  <2> QED BY <1>1, <1>2, <2>1
<1>5. CASE TrainStep(n)
  <2>1. trained' = trained
    BY <1>5, TrainOrder DEF DInv
  <2>2. CASE /\ queue'[n] = queue[n] /\ failed'[n] = failed[n] /\ phase[n] # "submit"
             /\ pc'[n] = pc[n] \/ queue[n] = <<>>
    <3>1. DOMAIN <<>> = {}
      OBVIOUS
    <3> QED BY <1>1, <1>2, <2>1, <2>2, <3>1
  <2>3. CASE queue'[n] = queue[n] /\ failed'[n] = failed[n] \cup {trained}
    BY <1>2, <2>1, <2>3
  <2>4. CASE /\ queue'[n] = Append(queue[n], trained) /\ pc'[n] = pc[n] /\ trained \in Steps
             /\ queue[n] = <<>> => pc[n] = "idle"
    <3>1. /\ Len(queue[n]) + 1 \in DOMAIN queue'[n] /\ queue'[n][Len(queue[n]) + 1] = trained
      BY <1>0, <2>4, Appended
    <3>2. Len(queue[n]) + 1 = 1 => queue[n] = <<>>
      <4>1. Len(queue[n]) \in Nat
        BY <1>0, LenProperties
      <4> QED BY <1>0, <4>1, EmptySeq
    <3> QED BY <1>2, <2>1, <2>4, <3>1, <3>2
  <2> QED BY <1>5, <2>1, <2>2, <2>3, <2>4, TrainOrder DEF DInv
<1>6. CASE Agent(n)
  <2>1. trained' = trained /\ phase'[n] = phase[n]
    BY <1>0, <1>6, AgentKeeps
  <2>2. CASE trained \in failed[n]
    BY <1>2, <1>6, <2>1, <2>2, FailedStays
  <2>3. CASE phase[n] = "submit"
    BY <1>2, <2>1, <2>3
  <2>4. ASSUME NEW i \in DOMAIN queue[n], queue[n][i] = trained,
               i = 1 => pc[n] \in {"idle", "copying", "marking"}
        PROVE  Owes(n, trained)' \/ (Mark(n) /\ pc'[n] = "listing" /\ trained = Head(queue[n]))
    <3>0. queue[n] # <<>> /\ Head(queue[n]) = queue[n][1]
      <4>1. DOMAIN <<>> = {}
        OBVIOUS
      <4> QED BY <2>4, <4>1, QueueHead
    <3>1. CASE queue'[n] = queue[n] /\ Mark(n) /\ pc'[n] = "listing"
      <4>1. i = 1 => trained = Head(queue[n])
        BY <2>4, <3>0
      <4> QED BY <1>2, <2>1, <2>4, <3>1, <4>1
    <3>2. CASE queue'[n] = queue[n] /\ (i = 1 => pc'[n] \in {"idle", "copying", "marking"})
      BY <1>2, <2>1, <2>4, <3>2
    <3>3. CASE queue'[n] = Tail(queue[n]) /\ pc'[n] = "idle" /\ i # 1
      <4>1. i - 1 \in DOMAIN Tail(queue[n]) /\ Tail(queue[n])[i - 1] = queue[n][i]
        <5>1. DOMAIN queue[n] = 1 .. Len(queue[n]) /\ Len(queue[n]) \in Nat
          BY <1>0, LenProperties
        <5>2. /\ Tail(queue[n]) \in Seq(Steps) /\ Len(Tail(queue[n])) = Len(queue[n]) - 1
              /\ \A j \in 1 .. Len(Tail(queue[n])) : Tail(queue[n])[j] = queue[n][j + 1]
          BY <1>0, <3>0, HeadTailProperties
        <5>3. DOMAIN Tail(queue[n]) = 1 .. Len(Tail(queue[n]))
          BY <5>2, LenProperties
        <5>4. i - 1 \in 1 .. Len(Tail(queue[n])) /\ (i - 1) + 1 = i
          BY <3>3, <5>1, <5>2
        <5> QED BY <5>2, <5>3, <5>4
      <4> QED BY <1>2, <2>1, <2>4, <3>3, <4>1
    <3>4. CASE queue'[n] = Tail(queue[n]) /\ i = 1 /\ Head(queue[n]) \in failed'[n]
      BY <1>2, <2>1, <2>4, <3>0, <3>4
    <3> QED BY <1>6, <2>4, <3>0, <3>1, <3>2, <3>3, <3>4, AgentOrder
  <2> QED BY <1>1, <2>1, <2>2, <2>3, <2>4
<1> QED BY <1>3, <1>4, <1>5, <1>6 DEF Step

\* Every step keeps AccountInv, unless a single node resumes from its own disk.
LEMMA AccountStep ==
    ASSUME IInv, CInv, DInv, AccountInv, Step, Cardinality(Nodes) > 1 \/ MaxAttempts = 1
    PROVE  AccountInv'
<1>0. TypeOK /\ IInv' /\ CInv' /\ attempt \in 1 .. MaxAttempts
  BY StepPreserves, ContinuesStep DEF Next, IInv, TypeOK
<1>1. CASE Restart
  <2>1. MaxAttempts # 1
    BY <1>0, <1>1 DEF Restart
  <2>2. trained' = SetMax(Complete) /\ Complete' = Complete
    BY <1>1, <2>1 DEF Restart, Resumed, Complete
  <2> QED BY <2>2 DEF AccountInv, Newest
<1>2. CASE Save
  <2>1. \A n \in Nodes : phase'[n] = "submit"
    BY <1>2 DEF Save
  <2> QED BY <2>1 DEF AccountInv, Owes
<1>3. CASE ~Restart /\ ~Save
  <2>0. trained' = trained
    BY <1>0, <1>3, TrainKeeps, AgentKeeps DEF Step, EndTraining, Finish, Done, vars, trainVars
  <2>1. Newest \in Nat /\ Newest' \in Nat /\ Newest <= Newest' /\ Newest' <= trained /\ trained \in Nat
        /\ Newest <= trained
    BY <1>0, <2>0, NewestRises, NewestIsSaved, NewestIsSavedNext
  <2>2. CASE trained = Newest
    BY <2>0, <2>1, <2>2 DEF AccountInv
  <2>3. CASE trained # Newest /\ trained # Newest'
    <3>1. trained > Newest /\ trained > Newest'
      BY <2>1, <2>3
    <3>2. ASSUME NEW n \in Nodes
          PROVE  Owes(n, trained)' \/ (Staged(trained)' /\ n \in staging'[Key(trained)'].marks)
      <4>1. Key(trained)' = Key(trained)
        BY <1>0, <1>3, <2>0, SameRun DEF Key, Scope
      <4>2. CASE Owes(n, trained)
        <5>1. CASE Mark(n) /\ pc'[n] = "listing" /\ trained = Head(queue[n])
          BY <4>1, <5>1, MarkPut DEF Staged
        <5> QED BY <1>3, <4>2, <5>1, OwedStays
      <4>3. CASE Staged(trained) /\ n \in staging[Key(trained)].marks
        <5>1. trained \in Steps
          BY <4>3, FullIs DEF DInv
        <5>2. \A m \in Nodes : Publish(m) => Min(todo[m]) # trained
          <6>1. ASSUME NEW m \in Nodes, Publish(m), Min(todo[m]) = trained PROVE FALSE
            <7>1. trained <= Newest'
              BY <6>1, PublishedIsThere
            <7> QED BY <2>1, <3>1, <7>1
          <6> QED BY <6>1
        <5>3. /\ Staged(trained) /\ trained > SetMax(Complete) =>
                     \/ Key(trained) \in DOMAIN staging'
                     \/ \E m \in Nodes : Publish(m) /\ Min(todo[m]) = trained
              /\ Staged(trained) /\ Key(trained) \in DOMAIN staging' =>
                     staging[Key(trained)].marks \subseteq staging'[Key(trained)].marks
          <6>1. ASSUME NEW s0 \in Steps
                PROVE  /\ Staged(s0) /\ s0 > SetMax(Complete) =>
                              \/ Staged(s0)'
                              \/ \E m \in Nodes : Publish(m) /\ Min(todo[m]) = s0
                       /\ Staged(s0) /\ Staged(s0)' =>
                              staging[Key(s0)].marks \subseteq staging'[Key(s0)].marks
            BY <1>3, StagingStep
          <6>2. ASSUME NEW s0 \in Steps PROVE Staged(s0)' <=> Key(s0) \in DOMAIN staging'
            BY <1>0, <1>3, SameRun DEF Staged
          <6> QED BY <5>1, <6>1, <6>2
        <5> QED BY <3>1, <4>1, <4>3, <5>2, <5>3 DEF Newest, Staged
      <4> QED BY <2>3, <4>2, <4>3 DEF AccountInv
    <3> QED BY <3>2 DEF AccountInv
  <2> QED BY <2>0, <2>2, <2>3 DEF AccountInv
<1> QED BY <1>1, <1>2, <1>3

-----------------------------------------------------------------------------
(* What fails in finish() when no file operation does: nothing that counts. *)

\* A rename fails only because the directory is gone.
LEMMA QuietRename ==
    ASSUME IInv, CInv, UNCHANGED faults, NEW n \in Nodes, PublishFails(n)
    PROVE  ~Staged(Min(todo[n]))
<1>1. faults \in Nat
  BY MirrorAssumption DEF IInv, TypeOK
<1>2. pc[n] = "placing" /\ (CanPlace(Min(todo[n])) => faults' = faults + 1)
  BY DEF PublishFails, CInv, DoneInv, Fault
<1>3. ~CanPlace(Min(todo[n]))
  BY <1>1, <1>2
<1> QED BY <1>3 DEF CanPlace, Staged, CInv, DoneInv

\* No copy fails, for nobody removes what is being copied.
LEMMA QuietCopy ==
    ASSUME IInv, CInv, DInv, UNCHANGED faults, NEW n \in Nodes, Agent(n)
    PROVE  /\ failed'[n] \subseteq failed[n]
           /\ pc[n] \in {"idle", "copying", "marking"} => pc'[n] # "idle"
<1> USE DEF trainVars, agentVars
<1>0. /\ TypeOK /\ AgentInv /\ failed \in [Nodes -> SUBSET Steps] /\ pc \in [Nodes -> Places]
      /\ faults \in Nat
  BY MirrorAssumption DEF IInv, TypeOK, Places
<1>1. ~Fault
  BY <1>0 DEF Fault
<1>2. CASE CopyStart(n) \/ Mark(n)
  BY <1>0, <1>1, <1>2 DEF CopyStart, Mark, Goto
<1>3. CASE CopyDone(n)
  <2>1. queue[n] # <<>> /\ pc[n] = "copying"
    BY <1>0, <1>3, BusyWith DEF CopyDone
  <2>2. Head(queue[n]) \in Pending(n)
    BY <2>1, QueueHead, PendingIs
  <2>3. intact[n]
    BY <2>1, <2>2 DEF DInv, PendingInv, CInv, CopyInv, Newest
  <2> QED BY <1>0, <1>1, <1>3, <2>3 DEF CopyDone, Goto
<1>4. CASE \/ List(n) \/ Look(n) \/ Lock(n) \/ SetAside(n) \/ Publish(n) \/ PublishFails(n)
           \/ TrimMirror(n) \/ TrimEnds(n) \/ DropDead(n) \/ DropEnds(n)
  <2>1. UNCHANGED failed
    BY <1>4 DEF List, Look, Lock, SetAside, Publish, PublishFails, TrimMirror, TrimEnds, DropDead,
       DropEnds
  <2>2. pc[n] \notin {"idle", "copying", "marking"}
    BY <1>4 DEF List, Look, Lock, SetAside, Publish, PublishFails, TrimMirror, TrimEnds, DropDead,
       DropEnds
  <2> QED BY <2>1, <2>2
<1> QED BY <1>2, <1>3, <1>4 DEF Agent

\* In finish() there are no more saves, and finish() is entered once.
LEMMA FinishGoesOn ==
    ASSUME IInv, DInv, InFinish, Step, ~Restart
    PROVE  /\ InFinish' /\ UNCHANGED <<trained, best, seen>> /\ ~Save /\ ~Finish
           /\ \A n \in Nodes : pass[n] = 2 /\ phase[n] \in {"drain", "settle", "retry", "done"}
<1> USE DEF trainVars, agentVars
<1>0. TypeOK /\ Nodes # {}
  BY MirrorAssumption DEF IInv
<1>1. \A n \in Nodes : pass[n] = 2 /\ phase[n] \in {"drain", "settle", "retry", "done"}
  BY DEF DInv, PhaseInv, InFinish
<1>2. ~Save /\ ~EndTraining /\ ~Finish
  BY <1>0, <1>1 DEF Save, EndTraining, Finish, All
<1>3. \A n \in Nodes : ~OnSave(n)
  BY <1>1 DEF OnSave
<1>4. UNCHANGED <<trained, best, seen, pass>>
  BY <1>0, <1>2, <1>3, AgentKeeps
     DEF Step, TrainStep, DrainSettle, DrainRetry, DrainEnd, Done, vars
<1> QED BY <1>1, <1>2, <1>4 DEF InFinish

\* A checkpoint that is staged stays in hand.
LEMMA InHandStays ==
    ASSUME IInv, CInv, Step, ~Restart, UNCHANGED faults,
           NEW s, InHand(s), Staged(s), Key(s) \in DOMAIN staging'
    PROVE  InHand(s)'
<1>1. PICK n \in Nodes : pc[n] = "placing" /\ Min(todo[n]) = s
  BY DEF InHand
<1>2. ~PublishFails(n)
  BY <1>1, QuietRename
<1>3. ~Publish(n)
  BY <1>1 DEF Publish, Without
<1>4. pc'[n] = "placing" /\ todo'[n] = todo[n]
  BY <1>1, <1>2, <1>3, PlacingLeaves
<1> QED BY <1>1, <1>4 DEF InHand

\* Who passes over a checkpoint with every marker found it locked.
LEMMA PassesOver ==
    ASSUME IInv, CInv, DInv, Step, ~Restart, UNCHANGED faults,
           NEW n \in Nodes, Settling(n), todo[n] # {}, todo'[n] = todo[n] \ {Min(todo[n])},
           NEW s, s = Min(todo[n]), Full(s), Key(s) \in DOMAIN staging'
    PROVE  InHand(s)'
<1> USE DEF trainVars, agentVars
<1>0. /\ TypeOK /\ AgentInv /\ Nodes # {} /\ pc \in [Nodes -> Places]
      /\ todo \in [Nodes -> SUBSET AllSteps]
  BY MirrorAssumption DEF IInv, TypeOK, Places, AllSteps
<1>1. s \in todo[n] /\ s \in Steps /\ Staged(s) /\ DirAt(s).marks = Nodes
  BY <1>0, BusyWith, FullIs DEF DInv, Full, Staged, DirAt
<1>2. s \notin todo'[n]
  OBVIOUS
<1>3. CASE Save \/ EndTraining \/ Finish \/ Done
  BY <1>1, <1>2, <1>3, JobKeeps
<1>4. ASSUME NEW m \in Nodes, TrainStep(m) PROVE FALSE
  BY <1>0, <1>1, <1>2, <1>4, TrainKeeps
<1>5. ASSUME NEW m \in Nodes, m # n, Agent(m) PROVE FALSE
  BY <1>0, <1>1, <1>2, <1>5, AgentKeeps
<1>6. CASE Agent(n)
  <2>1. Look(n) \/ Lock(n) \/ Publish(n) \/ PublishFails(n)
    BY <1>6 DEF Settling, Agent, CopyStart, CopyDone, Mark, List, SetAside, TrimMirror, TrimEnds,
       DropDead, DropEnds
  <2>2. ~Look(n)
    BY <1>0, <1>1, <1>2 DEF Look, AllMarkers
  <2>3. ~Publish(n) /\ ~PublishFails(n)
    BY <1>1, QuietRename DEF Publish, Without
  <2>4. CASE Lock(n)
    <3>1. DirAt(s).lock
      BY <1>0, <1>1, <1>2, <2>4 DEF Lock
    <3>2. InHand(s)
      BY <1>1, <3>1 DEF DInv, LockInv, DirAt, Staged
    <3> QED BY <1>1, <3>2, InHandStays
  <2> QED BY <2>1, <2>2, <2>3, <2>4
<1> QED BY <1>3, <1>4, <1>5, <1>6 DEF Step

\* What has every marker in finish() and is not the last save had them before.
LEMMA OlderWasFull ==
    ASSUME IInv, CInv, DInv, InFinish, Step, ~Restart, NEW s \in Steps, Full(s)'
    PROVE  \/ Full(s)
           \/ s = trained /\ \E n \in Nodes : pc'[n] = "listing"
<1>0. TypeOK /\ Nodes # {} /\ Key(s)' = Key(s)
  BY MirrorAssumption, SameRun DEF IInv
<1>1. Staged(s)' /\ staging'[Key(s)].marks = Nodes
  BY <1>0 DEF Full
<1>2. ASSUME NEW n \in Nodes, Marked(n, s) PROVE s = trained /\ pc'[n] = "listing"
  <2>1. pass[n] = 2
    BY FinishGoesOn
  <2>2. Head(queue[n]) = queue[n][1] /\ 1 \in DOMAIN queue[n]
    BY <1>2, QueueHead DEF Marked
  <2> QED BY <1>2, <2>1, <2>2 DEF Marked, DInv, PhaseInv
<1>3. CASE \A n \in Nodes : ~Marked(n, s)
  <2>1. \A n \in Nodes : Staged(s) /\ n \in staging[Key(s)].marks
    BY <1>1, <1>3, StagingStep
  <2>2. Staged(s)
    BY <1>0, <2>1
  <2>3. staging[Key(s)].marks \subseteq Nodes
    BY <2>2 DEF Staged, IInv, TypeOK
  <2> QED BY <2>1, <2>2, <2>3 DEF Full
<1> QED BY <1>2, <1>3

\* Every quiet step keeps PassedInv.
LEMMA PassedKept ==
    ASSUME IInv, CInv, DInv, InFinish, PassedInv, Step, ~Restart, UNCHANGED faults
    PROVE  PassedInv'
<1>0. /\ TypeOK /\ AgentInv /\ IInv' /\ CInv' /\ trained' = trained /\ trained \in Nat
      /\ \A s : Key(s)' = Key(s)
      /\ \A s \in Steps : s \in Nat
  BY StepPreserves, ContinuesStep, FinishGoesOn, SameRun, MirrorAssumption DEF Next, IInv, TypeOK
<1>1. ASSUME NEW s \in Steps, Full(s)', InHand(s), Full(s) PROVE InHand(s)'
  BY <1>0, <1>1, InHandStays DEF Full, Staged
<1>2. ASSUME NEW s \in Steps, Full(s)', s < Newest' PROVE InHand(s)'
  <2>1. Full(s)
    BY <1>2, DeadWasFull
  <2>2. CASE s < Newest
    BY <1>1, <1>2, <2>1, <2>2 DEF PassedInv
  <2>3. ASSUME NEW m \in Nodes, Publish(m), Newest' = Min(todo[m]) PROVE InHand(s)
    <3>1. pc[m] = "placing" /\ todo[m] # {}
      BY <1>0, <2>3 DEF Publish, AgentInv
    <3>2. s \notin todo[m]
      <4>1. \A x \in todo[m] : Min(todo[m]) <= x
        BY <1>0, <3>1, BusyWith
      <4>2. Newest' \in Nat
        BY NewestRises
      <4> QED BY <1>0, <1>2, <2>3, <4>1, <4>2
    <3>3. s < trained
      <4>1. Newest' \in Nat /\ Newest' <= trained
        BY <1>0, NewestIsSavedNext
      <4> QED BY <1>0, <1>2, <4>1
    <3> QED BY <2>1, <3>1, <3>2, <3>3 DEF PassedInv, Settling
  <2> QED BY <1>1, <1>2, <2>1, <2>2, <2>3, NewestRises
<1>3. ASSUME NEW n \in Nodes, NEW s \in Steps, Full(s)', s < trained', Settling(n)', s \notin todo'[n]
      PROVE  InHand(s)'
  <2>1. s < trained /\ s # trained
    BY <1>0, <1>3
  <2>2. Full(s)
    BY <1>3, <2>1, OlderWasFull
  <2>3. CASE List(n)
    BY <1>0, <1>3, <2>2, <2>3 DEF List, Full, Staged, TypeOK
  <2>4. CASE Settling(n) /\ s \notin todo[n]
    BY <1>1, <1>3, <2>1, <2>2, <2>4 DEF PassedInv
  <2>5. CASE Settling(n) /\ s \in todo[n] /\ todo'[n] = todo[n] \ {Min(todo[n])}
    <3>1. s = Min(todo[n]) /\ todo[n] # {}
      BY <1>3, <2>5
    <3>2. Key(s) \in DOMAIN staging'
      BY <1>0, <1>3 DEF Full, Staged
    <3> QED BY <2>2, <2>5, <3>1, <3>2, PassesOver
  <2> QED BY <1>3, <2>3, <2>4, <2>5, SettlingCame
<1> QED BY <1>2, <1>3 DEF PassedInv

\* Nobody but its own agent moves a node that is busy.
LEMMA OwnMove ==
    ASSUME TypeOK, Step, ~Restart, NEW n \in Nodes, pc[n] # "idle"
    PROVE  (pc'[n] = pc[n] /\ todo'[n] = todo[n]) \/ Agent(n)
<1> USE DEF trainVars, agentVars
<1>1. CASE Save \/ EndTraining \/ Finish \/ Done
  BY <1>1, JobKeeps
<1>2. ASSUME NEW m \in Nodes, TrainStep(m) PROVE pc'[n] = pc[n] /\ todo'[n] = todo[n]
  <2>1. pc'[n] = pc[n]
    BY <1>2 DEF TrainStep, OnSave, DrainSettle, DrainRetry, DrainEnd, TypeOK
  <2> QED BY <1>2, <2>1, TrainKeeps
<1>3. ASSUME NEW m \in Nodes, m # n, Agent(m) PROVE pc'[n] = pc[n] /\ todo'[n] = todo[n]
  BY <1>3, AgentKeeps
<1> QED BY <1>1, <1>2, <1>3 DEF Step

\* A node on its own, or one whose file operations do not fail.
Steady == Cardinality(Nodes) = 1 \/ (PassedInv /\ UNCHANGED faults)

\* A settling agent goes on to rotation, unless the directory it is about to place is
\* removed, and then somebody else is about to place it.
LEMMA GoesOn ==
    ASSUME IInv, CInv, DInv, Step, ~Restart, Steady,
           \A m \in Nodes : ~Publish(m), NEW n \in Nodes, Goes(n)
    PROVE  \/ Goes(n)' /\ todo'[n] = todo[n]
           \/ Goes(n)' /\ todo[n] # {} /\ todo'[n] = todo[n] \ {Min(todo[n])}
           \/ todo[n] = {} /\ pc'[n] = "trimming"
           \/ /\ todo[n] # {}
              /\ \E m \in Nodes : Goes(m)' /\ pc'[m] = "placing" /\ Min(todo'[m]) = Min(todo[n])
<1> USE DEF trainVars, agentVars
<1> DEFINE s == Min(todo[n])
<1>0. /\ TypeOK /\ AgentInv /\ Nodes # {} /\ pc \in [Nodes -> Places]
      /\ todo \in [Nodes -> SUBSET AllSteps] /\ \A t : Key(t)' = Key(t)
  BY MirrorAssumption, SameRun DEF IInv, TypeOK, Places, AllSteps
<1>1. pc[n] \in {"looking", "locking", "placing"}
  BY DEF Goes, Settling
<1>2. CASE pc'[n] = pc[n] /\ todo'[n] = todo[n]
  <2>1. CASE pc[n] = "locking" /\ Key(s) \notin DOMAIN staging'
    <3>1. Staged(s) /\ todo[n] # {}
      BY <1>0, <2>1 DEF Goes, AgentInv
    <3>2. PassedInv /\ UNCHANGED faults
      <4>1. ASSUME Nodes = {n} PROVE FALSE
        <5>1. Key(s) \in DOMAIN staging
          BY <3>1 DEF Staged
        <5>2. Agent(n)
          BY <1>0, <2>1, <4>1, <5>1, JobKeeps, TrainKeeps DEF Step
        <5>3. Lock(n)
          BY <2>1, <5>2 DEF Agent, CopyStart, CopyDone, Mark, List, Look, SetAside, Publish,
             PublishFails, TrimMirror, TrimEnds, DropDead, DropEnds
        <5> QED BY <2>1, <5>1, <5>3 DEF Lock
      <4>2. Cardinality(Nodes) = 1 => Nodes = {n}
        BY MirrorAssumption, FS_Singleton
      <4> QED BY <4>1, <4>2 DEF Steady
    <3>3. Full(s) /\ s \in Steps /\ s \in Nat
      BY <2>1, <3>1, FullIs DEF DInv, FullInv
    <3>4. ~ s > Newest
      <4>1. ASSUME NEW t \in Steps, Staged(t), t > Newest PROVE Key(t) \in DOMAIN staging'
        <5>1. Staged(t)'
          BY <4>1, StagingStep DEF Newest
        <5> QED BY <1>0, <5>1 DEF Staged
      <4> HIDE DEF s
      <4> QED BY <2>1, <3>1, <3>3, <4>1
    <3>5. s # Newest /\ Newest \in Nat
      <4>1. CASE Complete = {}
        <5>1. s # 0
          BY <3>3, MirrorAssumption
        <5> QED BY <4>1, <5>1 DEF Newest, SetMax
      <4>2. CASE Complete # {}
        BY <1>0, <3>1, <4>2, LocalTyped DEF Newest, CInv, DoneInv
      <4> QED BY <4>1, <4>2
    <3>6. s < Newest
      <4> HIDE DEF s, Newest
      <4> QED BY <3>3, <3>4, <3>5
    <3>7. PICK m \in Nodes : pc[m] = "placing" /\ Min(todo[m]) = s
      BY <3>2, <3>3, <3>6 DEF PassedInv, InHand
    <3>8. ~PublishFails(m)
      BY <3>1, <3>2, <3>7, QuietRename
    <3>9. pc'[m] = "placing" /\ todo'[m] = todo[m]
      BY <3>7, <3>8, PlacingLeaves
    <3>10. Goes(m)'
      BY <3>9 DEF Goes, Settling
    <3> QED BY <3>1, <3>7, <3>9, <3>10
  <2>2. CASE pc[n] # "locking" \/ Key(s) \in DOMAIN staging'
    <3>1. Goes(n)'
      BY <1>0, <1>1, <1>2, <2>2 DEF Goes, Settling, Staged
    <3> QED BY <1>2, <3>1
  <2> QED BY <2>1, <2>2
<1>3. CASE Agent(n)
  <2>1. Look(n) \/ Lock(n) \/ PublishFails(n)
    BY <1>1, <1>3 DEF Agent, CopyStart, CopyDone, Mark, List, SetAside, TrimMirror, TrimEnds,
       DropDead, DropEnds
  <2>2. CASE Look(n)
    <3>1. CASE todo[n] = {} /\ pc'[n] = "trimming"
      BY <3>1
    <3>2. CASE todo[n] # {} /\ pc'[n] = "looking" /\ todo'[n] = todo[n] \ {s}
      BY <3>2 DEF Goes, Settling
    <3>3. CASE AllMarkers(s) /\ pc'[n] = "locking" /\ todo'[n] = todo[n] /\ staging' = staging
      <4>1. Key(s) \in DOMAIN staging'
        BY <1>0, <3>3 DEF AllMarkers, DirAt, EmptyDir
      <4> QED BY <1>0, <3>3, <4>1 DEF Goes, Settling, Staged
    <3> QED BY <1>0, <2>2, <3>1, <3>2, <3>3 DEF Look, Goto, Drop
  <2>3. CASE Lock(n)
    <3>1. todo[n] # {} /\ pc[n] = "locking"
      BY <1>0, <2>3 DEF Lock, AgentInv
    <3>2. DirAt(s).marks = Nodes
      BY <3>1 DEF Goes, DInv, FullInv, Full, Staged, DirAt
    <3>3. pc'[n] # "replacing"
      BY NothingAside
    <3>4. \/ pc'[n] = "placing" /\ todo'[n] = todo[n]
          \/ pc'[n] = "looking" /\ todo'[n] = todo[n] \ {s}
      BY <1>0, <2>3, <3>2, <3>3 DEF Lock, Goto, Drop
    <3> QED BY <3>1, <3>4 DEF Goes, Settling
  <2>4. CASE PublishFails(n)
    <3>1. todo[n] # {}
      BY <1>0, <2>4 DEF PublishFails, AgentInv
    <3>2. pc'[n] = "looking" /\ todo'[n] = todo[n] \ {s}
      BY <1>0, <2>4 DEF PublishFails, Goto, Drop
    <3> QED BY <3>1, <3>2 DEF Goes, Settling
  <2> QED BY <2>1, <2>2, <2>3, <2>4
<1> QED BY <1>0, <1>1, <1>2, <1>3, OwnMove

\* A node that drains settles in the end.
LEMMA DrainsOn ==
    ASSUME IInv, DInv, InFinish, Step, ~Restart, NEW n \in Nodes, phase[n] = "drain"
    PROVE  phase'[n] = "drain" \/ pc'[n] = "listing"
<1> USE DEF trainVars, agentVars
<1>0. TypeOK /\ pc \in [Nodes -> Places] /\ phase \in [Nodes -> Phases]
  BY DEF IInv, TypeOK, Places, Phases
<1>1. CASE EndTraining \/ Done
  BY <1>1 DEF EndTraining, Done, vars
<1>2. ASSUME NEW m \in Nodes, TrainStep(m) PROVE phase'[n] = "drain" \/ pc'[n] = "listing"
  BY <1>0, <1>2 DEF TrainStep, OnSave, DrainSettle, DrainRetry, DrainEnd
<1>3. ASSUME NEW m \in Nodes, Agent(m) PROVE phase'[n] = "drain"
  BY <1>0, <1>3, AgentKeeps
<1> QED BY <1>1, <1>2, <1>3, FinishGoesOn DEF Step

\* Who lists the staging directories works through them.
LEMMA ListsOn ==
    ASSUME IInv, Step, ~Restart, NEW n \in Nodes, pc[n] = "listing"
    PROVE  \/ pc'[n] = "listing"
           \/ Goes(n)' /\ todo'[n] = {s \in Steps : Key(s) \in DOMAIN staging}
<1>0. TypeOK
  BY DEF IInv
<1>1. CASE Agent(n)
  <2>1. List(n)
    BY <1>1 DEF Agent, CopyStart, CopyDone, Mark, Look, Lock, SetAside, Publish, PublishFails,
       TrimMirror, TrimEnds, DropDead, DropEnds
  <2> QED BY <1>0, <2>1 DEF List, Goto, Goes, Settling, TypeOK
<1> QED BY <1>0, <1>1, OwnMove

-----------------------------------------------------------------------------
(* What rotation leaves in finish().                                       *)

\* The limit is a number, no less than `keep' and than the newest and the best.
LEMMA AllowedIs ==
    ASSUME TypeOK
    PROVE  /\ Allowed \in Nat /\ Keep \in Nat
           /\ Keep <= Allowed /\ Cardinality({Newest, best} \ {0}) <= Allowed
           /\ IsFiniteSet({Newest, best} \ {0}) /\ Cardinality({Newest, best} \ {0}) \in Nat
           /\ \A c \in Nat : c <= Cardinality({Newest, best} \ {0}) =>
                  SetMax({Keep, c}) \in Nat /\ c <= SetMax({Keep, c}) /\ SetMax({Keep, c}) <= Allowed
<1> DEFINE two == {Newest, best} \ {0}
<1>1. Keep \in Nat
  BY MirrorAssumption
<1>2. IsFiniteSet(two) /\ Cardinality(two) \in Nat
  <2>1. IsFiniteSet({Newest}) /\ {Newest, best} = {Newest} \cup {best}
    BY FS_Singleton
  <2>2. IsFiniteSet(two)
    BY <2>1, FS_AddElement, FS_Difference
  <2> HIDE DEF two
  <2> QED BY <2>2, FS_CardinalityType
<1>3. ASSUME NEW c \in Nat
      PROVE  /\ SetMax({Keep, c}) \in Nat /\ Keep <= SetMax({Keep, c}) /\ c <= SetMax({Keep, c})
             /\ \A m \in Nat : Keep <= m /\ c <= m => SetMax({Keep, c}) <= m
  <2>1. {Keep, c} \subseteq Nat /\ IsFiniteSet({Keep, c})
    <3>1. IsFiniteSet({Keep}) /\ {Keep, c} = {Keep} \cup {c}
      BY FS_Singleton
    <3> QED BY <1>1, <1>3, <3>1, FS_AddElement
  <2> QED BY <2>1, SetMaxIs, SetMaxLeast
<1>4. Allowed \in Nat /\ Keep <= Allowed /\ Cardinality(two) <= Allowed
  BY <1>2, <1>3 DEF Allowed
<1>5. ASSUME NEW c \in Nat, c <= Cardinality(two)
      PROVE  SetMax({Keep, c}) \in Nat /\ c <= SetMax({Keep, c}) /\ SetMax({Keep, c}) <= Allowed
  <2>1. c <= Allowed
    <3> HIDE DEF two
    <3> QED BY <1>2, <1>4, <1>5
  <2> QED BY <1>3, <1>4, <1>5, <2>1
<1> QED BY <1>1, <1>2, <1>4, <1>5

\* Rotation leaves the mirror no more than it may hold, when it knows the best one.
LEMMA TrimRoom ==
    ASSUME TypeOK, Keep # 0, NEW b \in {best, 0}
    PROVE  Cardinality(Complete \ Trim(Complete, Keep, b)) <= Allowed
<1> DEFINE protected == {s \in Complete : s = SetMax(Complete) \/ s = b}
           keep == SetMax({Keep, Cardinality(protected)})
           two == {Newest, best} \ {0}
<1>1. Complete \subseteq Nat /\ IsFiniteSet(Complete) /\ 0 \notin Complete
  <2>1. 0 \notin AllSteps
    BY StepsFinite
  <2> QED BY <2>1, LocalTyped
<1>2. IsFiniteSet(two) /\ Cardinality(two) \in Nat
  BY AllowedIs
<1>3. protected \in SUBSET two
  BY <1>1 DEF Newest
<1>4. /\ IsFiniteSet(protected) /\ Cardinality(protected) \in Nat
      /\ Cardinality(protected) <= Cardinality(two)
  <2> HIDE DEF protected, two
  <2>1. IsFiniteSet(protected) /\ Cardinality(protected) <= Cardinality(two)
    BY <1>2, <1>3, FS_Subset
  <2> QED BY <2>1, FS_CardinalityType
<1>5. keep \in Nat /\ Cardinality(protected) <= keep /\ keep <= Allowed /\ Allowed \in Nat
  <2> HIDE DEF protected
  <2> QED BY <1>4, AllowedIs
<1>6. Cardinality(Complete \ Trim(Complete, Keep, b)) <= keep
  <2>1. LET rest == Complete \ protected
            gone == {s \in rest : Cardinality({t \in rest : t < s}) < Cardinality(Complete) - keep}
        IN  Cardinality(Complete \ gone) <= keep
    <3> HIDE DEF protected, keep
    <3> QED BY <1>1, <1>4, <1>5, LowestGo
  <2> QED BY <2>1 DEF Trim
<1>7. Cardinality(Complete \ Trim(Complete, Keep, b)) \in Nat
  <2>1. Complete \ Trim(Complete, Keep, b) \in SUBSET Complete
    OBVIOUS
  <2> QED BY <1>1, <2>1, FS_Subset, FS_CardinalityType
<1> HIDE DEF keep
<1> QED BY <1>5, <1>6, <1>7

\* The mirror gets no larger but by a publication.
LEMMA NoMore ==
    ASSUME IInv, CInv, Step, best' = best, \A m \in Nodes : ~Publish(m)
    PROVE  Complete' \subseteq Complete /\ Allowed' = Allowed
<1>1. \A s \in Complete' : s \in Complete
  BY NewInMirror
<1>2. Newest' = Newest
  BY NewestRises
<1> QED BY <1>1, <1>2 DEF Allowed

\* A rotation that has room to make goes on, is over, or leaves that to another agent.
LEMMA RotatesOn ==
    ASSUME IInv, CInv, DInv, InFinish, Step, ~Restart, Steady,
           Keep # 0, \A m \in Nodes : ~Publish(m), NEW n \in Nodes, Rotates(n)
    PROVE  Cardinality(Complete') <= Allowed' \/ \E m \in Nodes : Rotates(m)'
<1> USE DEF trainVars, agentVars
<1>0. /\ TypeOK /\ pc \in [Nodes -> Places] /\ todo \in [Nodes -> SUBSET AllSteps]
      /\ phase \in [Nodes -> Phases] /\ best' = best
      /\ Complete' \subseteq Complete /\ Allowed' = Allowed /\ IsFiniteSet(Complete)
  BY FinishGoesOn, NoMore, LocalTyped DEF IInv, TypeOK, Places, Phases, AllSteps
<1>1. CASE phase[n] = "drain"
  BY <1>1, DrainsOn DEF Rotates
<1>2. CASE Goes(n)
  <2>1. (\E m \in Nodes : Goes(m)') \/ pc'[n] = "trimming"
    BY <1>2, GoesOn
  <2> QED BY <2>1 DEF Rotates
<1>3. CASE pc[n] = "listing"
  BY <1>3, ListsOn DEF Rotates
<1>4. CASE pc[n] = "trimming"
  <2>1. CASE pc'[n] = pc[n]
    BY <1>4, <2>1 DEF Rotates
  <2>2. CASE Agent(n)
    <3>1. TrimMirror(n)
      BY <1>4, <2>2 DEF Agent, CopyStart, CopyDone, Mark, List, Look, Lock, SetAside, Publish,
         PublishFails, TrimEnds, DropDead, DropEnds
    <3>2. pc'[n] = "removing" /\ todo'[n] = Trim(Complete, Keep, seen[n]) /\ Complete' = Complete
      BY <1>0, <3>1 DEF TrimMirror, Goto, Complete
    <3>3. seen[n] \in {best, 0}
      BY FinishGoesOn DEF DInv, SeenInv
    <3>4. Cardinality(Complete' \ todo'[n]) <= Allowed'
      BY <1>0, <3>2, <3>3, TrimRoom
    <3> QED BY <3>2, <3>4 DEF Rotates
  <2> QED BY <1>0, <1>4, <2>1, <2>2, OwnMove
<1>5. CASE pc[n] = "removing" /\ Cardinality(Complete \ todo[n]) <= Allowed
  <2>1. CASE pc'[n] = pc[n] /\ todo'[n] = todo[n]
    <3>1. Complete' \ todo'[n] \in SUBSET (Complete \ todo[n]) /\ Complete \ todo[n] \in SUBSET Complete
      BY <1>0, <2>1
    <3>2. IsFiniteSet(Complete \ todo[n]) /\ Cardinality(Complete \ todo[n]) \in Nat
      BY <1>0, <3>1, FS_Subset, FS_CardinalityType
    <3>3. /\ Cardinality(Complete' \ todo'[n]) <= Cardinality(Complete \ todo[n])
          /\ Cardinality(Complete' \ todo'[n]) \in Nat
      BY <3>1, <3>2, FS_Subset, FS_CardinalityType
    <3>4. Allowed \in Nat
      BY <1>0, AllowedIs
    <3>5. Cardinality(Complete' \ todo'[n]) <= Allowed'
      BY <1>0, <1>5, <3>2, <3>3, <3>4
    <3> QED BY <1>5, <2>1, <3>5 DEF Rotates
  <2>2. CASE Agent(n)
    <3>1. TrimEnds(n)
      BY <1>5, <2>2 DEF Agent, CopyStart, CopyDone, Mark, List, Look, Lock, SetAside, Publish,
         PublishFails, TrimMirror, DropDead, DropEnds
    <3>2. \A s \in todo[n] : s \in Complete => final[s] = {}
      BY <1>5 DEF DInv, VictimInv
    <3>3. Complete' = Complete \ todo[n]
      BY <3>1, <3>2 DEF TrimEnds, Without, Complete
    <3> QED BY <1>0, <1>5, <3>3
  <2> QED BY <1>0, <1>5, <2>1, <2>2, OwnMove
<1> QED BY <1>1, <1>2, <1>3, <1>4, <1>5 DEF Rotates

\* Every steady step keeps RoomInv.
LEMMA RoomKept ==
    ASSUME IInv, CInv, DInv, InFinish, RoomInv, Step, ~Restart, Steady
    PROVE  RoomInv'
<1> SUFFICES ASSUME Keep # 0, Cardinality(Complete') > Allowed'
             PROVE  \E n \in Nodes : Rotates(n)'
  BY DEF RoomInv
<1>0. TypeOK /\ TypeOK' /\ best' = best
  BY TypeStep, FinishGoesOn DEF IInv
<1>1. ASSUME NEW m \in Nodes, Publish(m) PROVE Rotates(m)'
  <2>1. pc'[m] = "looking"
    BY <1>0, <1>1 DEF Publish, Goto, TypeOK
  <2> QED BY <2>1 DEF Rotates, Goes, Settling
<1>2. CASE \A m \in Nodes : ~Publish(m)
  <2>1. Complete' \subseteq Complete /\ Allowed' = Allowed
    BY <1>0, <1>2, NoMore
  <2>2. /\ Allowed \in Nat /\ IsFiniteSet(Complete)
        /\ Cardinality(Complete) \in Nat /\ Cardinality(Complete') \in Nat
        /\ Cardinality(Complete') <= Cardinality(Complete)
    <3>1. IsFiniteSet(Complete) /\ Complete' \in SUBSET Complete
      BY <1>0, <2>1, LocalTyped
    <3> QED BY <1>0, <3>1, AllowedIs, FS_Subset, FS_CardinalityType
  <2>3. ~ Cardinality(Complete') <= Allowed'
    BY <2>1, <2>2
  <2>4. Cardinality(Complete) > Allowed
    BY <2>1, <2>2
  <2>5. PICK n \in Nodes : Rotates(n)
    BY <2>4 DEF RoomInv
  <2> QED BY <1>2, <2>3, <2>5, RotatesOn
<1> QED BY <1>1, <1>2

-----------------------------------------------------------------------------
(* The last save in finish().                                              *)

\* After a step too, what an agent is about to place is on its list.
LEMMA MinNext == IInv' => (\A n \in Nodes : pc[n] = "placing" => Min(todo[n]) \in todo[n])'
<1>1. IInv => (\A n \in Nodes : pc[n] = "placing" => Min(todo[n]) \in todo[n])
  BY BusyWith DEF IInv
<1> QED BY <1>1, PTL

\* Every quiet step leaves somebody who publishes the last save once it has every marker.
LEMMA LastPublished ==
    ASSUME IInv, CInv, DInv, InFinish, PassedInv, Step, ~Restart, UNCHANGED faults,
           Full(trained) => \E n \in Nodes : Publishes(n),
           NEW s, s = trained, Full(s)'
    PROVE  \E n \in Nodes : Publishes(n)'
<1>0. /\ TypeOK /\ TypeOK' /\ AgentInv /\ IInv' /\ CInv' /\ DInv'
      /\ trained' = trained /\ \A t : Key(t)' = Key(t)
      /\ todo \in [Nodes -> SUBSET AllSteps] /\ pc \in [Nodes -> Places] /\ Nodes # {}
  BY StepPreserves, ContinuesStep, DrainsStep, FinishGoesOn, SameRun, MirrorAssumption
     DEF Next, IInv, TypeOK, AllSteps, Places
<1>1. s \in Steps /\ s \in Nat /\ Key(s) \in DOMAIN staging'
  <2>1. Key(s)' \in (1 .. MaxAttempts) \X Steps /\ Key(s)' = <<attempt', s>>
    BY <1>0 DEF Full, Staged, TypeOK, Key, Scope
  <2>2. s \in Steps
    BY <2>1
  <2>3. Key(s) \in DOMAIN staging'
    BY <1>0 DEF Full, Staged
  <2> QED BY <2>2, <2>3, MirrorAssumption
<1>2. CASE \E n \in Nodes : pc'[n] = "listing"
  BY <1>2 DEF Publishes
<1>3. CASE Full(s)
  <2>1. Staged(s) /\ \A n \in Nodes : n \in staging[Key(s)].marks
    BY <1>3 DEF Full
  <2>2. ASSUME NEW m \in Nodes, Publish(m) PROVE Publishes(m)'
    <3>1. pc[m] = "placing" /\ todo[m] # {} /\ Min(todo[m]) # s
      BY <1>0, <1>1, <2>2 DEF Publish, AgentInv, Without
    <3>2. Min(todo[m]) < s
      <4>1. Min(todo[m]) <= Newest' /\ Newest' <= s /\ Newest' \in Nat
        BY <1>0, <2>2, PublishedIsThere, NewestIsSavedNext
      <4>2. Min(todo[m]) \in Nat
        BY <1>0, <3>1, BusyWith, StepIsNat
      <4> QED BY <1>1, <3>1, <4>1, <4>2
    <3>3. s \in todo[m]
      BY <1>1, <2>1, <3>1, <3>2 DEF DInv, ListInv, Settling
    <3>4. pc'[m] = "looking" /\ s \in todo'[m]
      BY <1>0, <2>2, <3>1, <3>3 DEF Publish, Goto, Drop
    <3> QED BY <1>0, <3>4 DEF Publishes, Goes, Settling
  <2>3. CASE \A m \in Nodes : ~Publish(m)
    <3>1. PICK n \in Nodes : Publishes(n)
      BY <1>3
    <3>2. CASE phase[n] = "drain"
      BY <3>2, DrainsOn DEF Publishes
    <3>3. CASE pc[n] = "listing"
      <4>1. s \in {t \in Steps : Key(t) \in DOMAIN staging}
        BY <1>1, <2>1 DEF Staged
      <4> QED BY <1>0, <3>3, <4>1, ListsOn DEF Publishes
    <3>4. CASE Goes(n) /\ s \in todo[n]
      <4>1. CASE Goes(n)' /\ todo'[n] = todo[n]
        BY <1>0, <3>4, <4>1 DEF Publishes
      <4>2. CASE Goes(n)' /\ todo'[n] = todo[n] \ {Min(todo[n])} /\ s # Min(todo[n])
        BY <1>0, <3>4, <4>2 DEF Publishes
      <4>3. CASE todo'[n] = todo[n] \ {Min(todo[n])} /\ s = Min(todo[n])
        <5>1. InHand(s)'
          BY <1>1, <1>3, <3>4, <4>3, PassesOver DEF Goes
        <5>2. PICK m \in Nodes : pc'[m] = "placing" /\ Min(todo'[m]) = s
          BY <5>1 DEF InHand
        <5>3. s \in todo'[m]
          BY <1>0, <5>2, MinNext
        <5> QED BY <1>0, <5>2, <5>3 DEF Publishes, Goes, Settling
      <4>4. ASSUME NEW m \in Nodes, Goes(m)', pc'[m] = "placing", Min(todo'[m]) = Min(todo[n]),
                   todo[n] # {}
            PROVE  Publishes(m)'
        <5>1. Min(todo'[m]) \in todo'[m]
          BY <1>0, <4>4, MinNext
        <5>2. Min(todo'[m]) <= s /\ Min(todo'[m]) \in Nat
          BY <1>0, <3>4, <4>4, BusyWith, StepIsNat
        <5>3. CASE Min(todo'[m]) < s
          <6>1. Staged(s)' /\ m \in staging'[Key(s)'].marks
            BY DEF Full
          <6>2. s \in todo'[m]
            BY <1>0, <1>1, <4>4, <5>1, <5>3, <6>1 DEF DInv, ListInv, Settling
          <6> QED BY <1>0, <4>4, <6>2 DEF Publishes
        <5>4. CASE Min(todo'[m]) = s
          BY <1>0, <4>4, <5>1, <5>4 DEF Publishes
        <5> QED BY <1>1, <5>2, <5>3, <5>4
      <4> QED BY <3>4, <2>3, <4>1, <4>2, <4>3, <4>4, GoesOn DEF Steady
    <3> QED BY <3>1, <3>2, <3>3, <3>4 DEF Publishes
  <2> QED BY <2>2, <2>3
<1> QED BY <1>1, <1>2, <1>3, OlderWasFull

\* A quiet retry copies the last save when that is owed.
LEMMA QuietRetry ==
    ASSUME IInv, DInv, UNCHANGED faults, NEW n \in Nodes, DrainRetry(n), trained \in failed'[n]
    PROVE  trained \in Pending(n)'
<1>0. /\ TypeOK /\ queue \in [Nodes -> Seq(Steps)] /\ queue[n] = <<>> /\ faults \in Nat
      /\ MaxPending \in Nat \ {0} /\ trained' = trained /\ pc'[n] = "idle" /\ phase[n] = "settle"
  BY RetriesLast, MirrorAssumption DEF IInv, DInv, TypeOK, DrainRetry
<1>1. ~Fault
  BY <1>0 DEF Fault
<1>2. MustRetry(n)
  <2>1. ~MustRetry(n) => failed' = failed
    BY DEF DrainRetry
  <2> QED BY <1>0, <2>1, RetriesLast DEF DInv
<1>3. SetMax(local[n]) = trained /\ trained \in local[n] /\ trained \in Steps
  BY <1>0, <1>2, RetriesLast, LocalTyped DEF DInv, MustRetry
<1>4. Len(queue[n]) < MaxPending
  <2>1. Len(<<>>) = 0
    OBVIOUS
  <2> QED BY <1>0, <2>1
<1>5. queue' = [queue EXCEPT ![n] = Append(@, trained)]
  BY <1>1, <1>2, <1>3, <1>4 DEF DrainRetry, Submit
<1>6. queue'[n] = Append(<<>>, trained)
  BY <1>0, <1>5
<1>7. 1 \in DOMAIN queue'[n] /\ queue'[n][1] = trained
  BY <1>6
<1> QED BY <1>0, <1>7 DEF Pending

\* Every quiet step leaves a failed last save in the queue, from the retry on.
LEMMA LastRetried ==
    ASSUME IInv, CInv, DInv, InFinish, LastInv, Step, ~Restart, UNCHANGED faults,
           NEW n \in Nodes, phase'[n] \in {"retry", "done"}, trained \in failed'[n]
    PROVE  trained \in Pending(n)'
<1> USE DEF trainVars, agentVars
<1>0. /\ TypeOK /\ pc \in [Nodes -> Places] /\ phase \in [Nodes -> Phases] /\ trained' = trained
      /\ phase[n] \in {"retry", "done"} /\ trained \in failed[n] => trained \in Pending(n)
      /\ \A i \in DOMAIN queue[n] : queue[n][i] = trained
      /\ phase[n] # "run"
  BY FinishGoesOn DEF IInv, TypeOK, Places, Phases, LastInv, DInv, PhaseInv
<1>1. ASSUME queue'[n] = queue[n], pc'[n] = pc[n], failed'[n] = failed[n], phase'[n] = phase[n]
      PROVE  trained \in Pending(n)'
  BY <1>0, <1>1 DEF Pending
<1>2. CASE EndTraining \/ Done
  BY <1>0, <1>1, <1>2 DEF EndTraining, All, Done, vars
<1>3. ASSUME NEW m \in Nodes, m # n, TrainStep(m) PROVE trained \in Pending(n)'
  <2>1. n \in Nodes \ {m}
    BY <1>3
  <2> QED BY <1>1, <1>3, <2>1, TrainOrder DEF DInv
<1>4. CASE TrainStep(n)
  <2>1. ~OnSave(n) /\ ~DrainSettle(n)
    BY <1>0, FinishGoesOn DEF OnSave, DrainSettle
  <2>2. CASE DrainRetry(n)
    BY <2>2, QuietRetry
  <2>3. CASE DrainEnd(n)
    <3>1. phase[n] = "retry" /\ queue[n] = <<>> /\ failed' = failed
      BY <2>3 DEF DrainEnd
    <3>2. DOMAIN <<>> = {}
      OBVIOUS
    <3>3. Pending(n) = {}
      BY <3>1, <3>2 DEF Pending
    <3> QED BY <1>0, <3>1, <3>3
  <2> QED BY <1>4, <2>1, <2>2, <2>3 DEF TrainStep
<1>5. ASSUME NEW m \in Nodes, m # n, Agent(m) PROVE trained \in Pending(n)'
  BY <1>0, <1>1, <1>5, AgentKeeps
<1>6. CASE Agent(n)
  <2>1. phase'[n] = phase[n]
    BY <1>0, <1>6, AgentKeeps
  <2>2. trained \in failed[n]
    BY <1>6, QuietCopy
  <2>3. PICK i \in DOMAIN queue[n] :
            queue[n][i] = trained /\ (i = 1 => pc[n] \in {"idle", "copying", "marking"})
    BY <1>0, <2>1, <2>2 DEF Pending
  <2>4. queue[n] # <<>>
    BY <2>3
  <2>5. Head(queue[n]) = trained /\ i = 1
    BY <1>0, <2>3, <2>4, QueueHead
  <2>6. pc'[n] # "idle"
    BY <1>6, <2>3, <2>5, QuietCopy
  <2>7. ~(Mark(n) /\ pc'[n] = "listing")
    BY <1>0, <2>4, <2>5, BusyWith DEF Mark, CopyFails, Goto, IInv, TypeOK
  <2>8. queue'[n] = queue[n] /\ pc'[n] \in {"copying", "marking"}
    BY <1>6, <2>3, <2>4, <2>5, <2>6, <2>7, AgentOrder
  <2> QED BY <2>3, <2>8 DEF Pending
<1> QED BY <1>2, <1>3, <1>4, <1>5, <1>6, FinishGoesOn DEF Step

\* Every quiet step keeps LastInv.
LEMMA LastKept ==
    ASSUME IInv, CInv, DInv, InFinish, PassedInv, LastInv, Step, ~Restart, UNCHANGED faults
    PROVE  LastInv'
<1>1. trained' = trained
  BY FinishGoesOn
<1>2. ASSUME NEW s, s = trained, Full(s)' PROVE \E n \in Nodes : Publishes(n)'
  BY <1>2, LastPublished DEF LastInv
<1>3. Full(trained)' => \E s : s = trained /\ Full(s)'
  BY <1>1
<1>4. \A n \in Nodes :
          phase'[n] \in {"retry", "done"} /\ trained \in failed'[n] => trained \in Pending(n)'
  BY LastRetried
<1> QED BY <1>1, <1>2, <1>3, <1>4 DEF LastInv

-----------------------------------------------------------------------------
(* Together.                                                               *)

\* What finish() keeps while no file operation fails.
QInv == InFinish => PassedInv /\ RoomInv /\ LastInv

\* When the nodes enter finish() nobody has left anything half done.
LEMMA FinishStarts ==
    ASSUME IInv, DInv, Finish
    PROVE  PassedInv' /\ RoomInv' /\ LastInv'
<1> USE DEF trainVars, agentVars
<1>0. TypeOK /\ Nodes # {}
  BY MirrorAssumption DEF IInv
<1>1. \A n \in Nodes : pc[n] = "idle" /\ pc'[n] = "idle" /\ phase'[n] = "drain"
  BY DEF Finish, All, DInv, PhaseInv
<1>2. UNCHANGED <<attempt, staging, final, trained, failed>>
  BY DEF Finish
<1>3. \A s \in Steps : ~(Full(s) /\ s < Newest)
  <2>1. \A n \in Nodes : ~Settling(n) /\ pc[n] \notin {"trimming", "removing", "dropping", "deleting"}
    BY <1>1 DEF Settling
  <2> QED BY <2>1 DEF DInv, SweepInv, Sweeps
<1>4. PassedInv'
  <2>1. \A s \in Steps : ~(Full(s)' /\ s < Newest')
    BY <1>2, <1>3 DEF Full, Staged, Key, Scope, Newest, Complete
  <2>2. \A n \in Nodes : ~Settling(n)'
    BY <1>1 DEF Settling
  <2> QED BY <2>1, <2>2 DEF PassedInv
<1>5. RoomInv'
  BY <1>0, <1>1 DEF RoomInv, Rotates
<1>6. LastInv'
  BY <1>0, <1>1 DEF LastInv, Publishes
<1> QED BY <1>4, <1>5, <1>6

\* The nodes get into finish() by Finish, and leave it with the run.
LEMMA FinishIs ==
    ASSUME TypeOK, Step, InFinish'
    PROVE  ~Restart /\ (InFinish \/ Finish)
<1>1. ~Restart
  BY DEF Restart, InFinish
<1>2. ASSUME Save \/ EndTraining \/ Done PROVE InFinish
  <2>1. pass' = pass
    BY <1>2 DEF Save, EndTraining, Done, vars, trainVars
  <2> QED BY <2>1 DEF InFinish
<1>3. ASSUME NEW n \in Nodes, TrainStep(n) PROVE InFinish
  BY <1>3 DEF TrainStep, OnSave, DrainSettle, DrainRetry, DrainEnd, InFinish
<1>4. ASSUME NEW n \in Nodes, Agent(n) PROVE InFinish
  BY <1>4, AgentKeeps DEF trainVars, InFinish
<1> QED BY <1>1, <1>2, <1>3, <1>4 DEF Step

\* Nothing happens to RoomInv while nothing happens.
LEMMA RoomStutters == RoomInv /\ UNCHANGED vars => RoomInv'
  BY DEF RoomInv, Rotates, Goes, Settling, Allowed, Newest, Staged, Key, Scope, Complete,
     vars, trainVars, agentVars

\* Every step that is quiet in finish() keeps QInv.
LEMMA QuietStep == IInv /\ CInv /\ DInv /\ QInv /\ [Step]_vars /\ [QuietFinish]_vars => QInv'
<1> SUFFICES ASSUME IInv, CInv, DInv, QInv, [Step]_vars, [QuietFinish]_vars PROVE QInv'
  OBVIOUS
<1>1. CASE UNCHANGED vars
  <2> USE <1>1 DEF vars, trainVars, agentVars
  <2>1. InFinish' = InFinish
    BY DEF InFinish
  <2>2. PassedInv => PassedInv'
    BY DEF PassedInv, Full, InHand, Settling, Newest, Staged, Key, Scope, Complete
  <2>3. RoomInv => RoomInv'
    BY RoomStutters
  <2>4. LastInv => LastInv'
    BY DEF LastInv, Publishes, Goes, Settling, Pending, Full, Staged, Key, Scope
  <2> QED BY <2>1, <2>2, <2>3, <2>4 DEF QInv
<1>2. CASE Step /\ ~ UNCHANGED vars
  <2> SUFFICES ASSUME InFinish' PROVE PassedInv' /\ RoomInv' /\ LastInv'
    BY DEF QInv
  <2>1. ~Restart /\ (InFinish \/ Finish)
    BY <1>2, FinishIs DEF IInv
  <2>2. CASE Finish
    BY <2>2, FinishStarts
  <2>3. CASE InFinish
    <3>1. UNCHANGED faults /\ PassedInv /\ RoomInv /\ LastInv
      BY <1>2, <2>3 DEF QuietFinish, QInv
    <3> QED BY <1>2, <2>1, <2>3, <3>1, PassedKept, RoomKept, LastKept DEF Steady
  <2> QED BY <2>1, <2>2, <2>3
<1> QED BY <1>1, <1>2

\* A job that continues from the mirror never leaves QInv.
LEMMA QuietAlways ==
    ASSUME Continues
    PROVE  Spec /\ [][QuietFinish]_vars => [](~neglected => QInv)
<1>1. Init => QInv
  BY DEF Init, QInv, InFinish
<1>2. /\ IInv /\ CInv /\ (~neglected => DInv) /\ (~neglected => QInv)
      /\ [Next]_vars /\ [QuietFinish]_vars
      => (~neglected => QInv)'
  <2>1. Restart => QInv'
    BY DEF Restart, QInv, InFinish
  <2> QED BY <2>1, Tended, QuietStep
<1> QED BY <1>1, <1>2, Invariance, ContinuesAlways, DrainsAlways, PTL DEF Spec

\* In finish() there is room, or somebody is going to make it.
Roomy == InFinish => RoomInv

\* A node on its own makes room, whatever fails of its copies and renames.
LEMMA AloneAlways ==
    ASSUME Continues, Cardinality(Nodes) = 1
    PROVE  Spec => [](~neglected => Roomy)
<1>1. Init => Roomy
  BY DEF Init, InFinish, Roomy
<1>2. IInv /\ CInv /\ DInv /\ Roomy /\ [Step]_vars => Roomy'
  <2> SUFFICES ASSUME IInv, CInv, DInv, InFinish => RoomInv, [Step]_vars, InFinish' PROVE RoomInv'
    BY DEF Roomy
  <2>1. CASE UNCHANGED vars
    BY <2>1, RoomStutters DEF InFinish, vars, trainVars
  <2>2. CASE Step
    <3>1. ~Restart /\ (InFinish \/ Finish)
      BY <2>2, FinishIs DEF IInv
    <3> QED BY <2>2, <3>1, FinishStarts, RoomKept DEF Steady
  <2> QED BY <2>1, <2>2
<1>3. /\ IInv /\ CInv /\ (~neglected => DInv) /\ (~neglected => Roomy) /\ [Next]_vars
      => (~neglected => Roomy)'
  <2>1. Restart => Roomy'
    BY DEF Restart, Roomy, InFinish
  <2> QED BY <1>2, <2>1, Tended
<1> QED BY <1>1, <1>3, Invariance, ContinuesAlways, DrainsAlways, PTL DEF Spec

\* When a run is over nobody is at work in finish().
LEMMA RunIsOver ==
    ASSUME DInv, All("done")
    PROVE  /\ InFinish
           /\ \A n \in Nodes : phase[n] = "done" /\ pc[n] = "idle" /\ queue[n] = <<>> /\ Pending(n) = {}
           /\ \A n \in Nodes : ~Publishes(n) /\ ~Rotates(n)
<1>1. \A n \in Nodes : phase[n] = "done" /\ pass[n] = 2 /\ pc[n] = "idle" /\ queue[n] = <<>>
  BY DEF DInv, PhaseInv, All
<1>2. Nodes # {}
  BY MirrorAssumption
<1>3. ASSUME NEW n \in Nodes PROVE Pending(n) = {}
  <2>1. DOMAIN <<>> = {}
    OBVIOUS
  <2> QED BY <1>1, <2>1 DEF Pending
<1> QED BY <1>1, <1>2, <1>3 DEF InFinish, Publishes, Rotates, Goes, Settling

\* A run that is over and has made room holds no more than it may.
LEMMA OverBounds ==
    ASSUME IInv, ~neglected => DInv /\ Roomy
    PROVE  MirrorBounded
<1> SUFFICES ASSUME All("done"), Keep # 0, ~neglected
             PROVE  Cardinality(Complete) <= Allowed
  BY DEF MirrorBounded, Allowed, Newest
<1>1. RoomInv /\ \A n \in Nodes : ~Rotates(n)
  BY RunIsOver DEF Roomy
<1>2. ~ Cardinality(Complete) > Allowed
  BY <1>1 DEF RoomInv
<1>3. Allowed \in Nat /\ Cardinality(Complete) \in Nat
  BY AllowedIs, LocalTyped, FS_CardinalityType DEF IInv
<1> QED BY <1>2, <1>3

\* When a run is over the mirror holds at most `keep' checkpoints, or the newest and the
\* best, whatever submissions, copies and renames failed before finish() and whoever was
\* killed.  What _settle could not list, lock or remove is excused by MirrorBounded.
THEOREM FinishBounds ==
    ASSUME Continues
    PROVE  Spec /\ [][QuietFinish]_vars => []MirrorBounded
<1>1. IInv /\ (~neglected => DInv) /\ (~neglected => QInv) => MirrorBounded
  BY OverBounds DEF QInv, Roomy
<1> QED BY <1>1, QuietAlways, Invariance, DrainsAlways, PTL

\* On a single node so it does when submissions, copies and renames fail in finish() as
\* well: rotation is skipped only by a node that finds a directory gone, which takes
\* another node, or cannot list or lock, which MirrorBounded excuses.
THEOREM SingleNodeBounds ==
    ASSUME Continues, Cardinality(Nodes) = 1
    PROVE  Spec => []MirrorBounded
<1>1. IInv /\ (~neglected => DInv) /\ (~neglected => Roomy) => MirrorBounded
  BY OverBounds
<1> QED BY <1>1, AloneAlways, Invariance, DrainsAlways, PTL

\* A job of several nodes, or that is not killed, never forgets the last save.
LEMMA AccountAlways ==
    ASSUME InitStep = SetMax(InitMirror), Cardinality(Nodes) > 1 \/ MaxAttempts = 1
    PROVE  Spec => [](~neglected => AccountInv)
<1>1. Init => AccountInv
  BY DEF Init, AccountInv, Newest, Complete
<1>2. Continues
  BY SomeSteps, SetMaxIs DEF AllSteps, Continues
<1>3. IInv /\ CInv /\ DInv /\ AccountInv /\ [Step]_vars => AccountInv'
  <2> SUFFICES ASSUME IInv, CInv, DInv, AccountInv, [Step]_vars PROVE AccountInv'
    OBVIOUS
  <2>1. CASE Step
    BY <2>1, AccountStep
  <2>2. CASE UNCHANGED vars
    BY <2>2 DEF AccountInv, Newest, Owes, Staged, Key, Scope, Complete, vars, trainVars, agentVars
  <2> QED BY <2>1, <2>2
<1>4. ASSUME IInv, Restart PROVE AccountInv'
  <2>1. trained' = SetMax(Complete) /\ Complete' = Complete
    BY <1>4 DEF Restart, Resumed, Complete, IInv, TypeOK
  <2> QED BY <2>1 DEF AccountInv, Newest
<1>5. /\ IInv /\ CInv /\ (~neglected => DInv) /\ (~neglected => AccountInv) /\ [Next]_vars
      => (~neglected => AccountInv)'
  BY <1>3, <1>4, Tended
<1> QED BY <1>1, <1>2, <1>5, Invariance, ContinuesAlways, DrainsAlways, PTL DEF Spec

\* When a run is over its last save is in the mirror, if _settle never failed to list, lock
\* or remove something: finish() retries the submissions, copies and renames that failed
\* before it, whoever was killed in the middle, and whatever else the nodes do meanwhile.
THEOREM FinishDelivers ==
    ASSUME InitStep = SetMax(InitMirror), Cardinality(Nodes) > 1 \/ MaxAttempts = 1
    PROVE  Spec /\ [][QuietFinish]_vars =>
               [](All("done") /\ trained > 0 /\ ~neglected => trained \in Complete)
<1>1. Continues
  BY SomeSteps, SetMaxIs DEF AllSteps, Continues
<1>2. IInv /\ CInv /\ DInv /\ QInv /\ AccountInv => (All("done") /\ trained > 0 => trained \in Complete)
  <2> SUFFICES ASSUME IInv, CInv, DInv, QInv, AccountInv, All("done"), trained > 0
               PROVE  trained \in Complete
    OBVIOUS
  <2>1. LastInv /\ \A n \in Nodes : /\ ~Publishes(n) /\ Pending(n) = {}
                                    /\ phase[n] = "done" /\ queue[n] = <<>>
    BY RunIsOver DEF QInv
  <2>2. \A n \in Nodes : ~Owes(n, trained)
    <3>1. DOMAIN <<>> = {} /\ trained \in Nat
      BY DEF IInv, TypeOK
    <3>2. ~ trained > trained
      BY <3>1
    <3>3. \A n \in Nodes : trained \notin failed[n]
      BY <2>1 DEF LastInv
    <3> QED BY <2>1, <3>1, <3>2, <3>3 DEF Owes
  <2>3. ~Full(trained)
    BY <2>1 DEF LastInv
  <2>4. trained = Newest
    <3>1. SUFFICES ASSUME \A n \in Nodes : Staged(trained) /\ n \in staging[Key(trained)].marks
                   PROVE  FALSE
      BY <2>2 DEF AccountInv
    <3>2. Staged(trained) /\ staging[Key(trained)].marks \subseteq Nodes
      BY <3>1, MirrorAssumption DEF IInv, TypeOK, Staged
    <3> QED BY <2>3, <3>1, <3>2 DEF Full
  <2>5. Complete # {}
    BY <2>4 DEF Newest, SetMax
  <2> QED BY <2>4, <2>5, LocalTyped DEF IInv, Newest
<1> QED BY <1>1, <1>2, AccountAlways, QuietAlways, Invariance, ContinuesAlways, DrainsAlways, PTL

\* So Delivered holds, with any number of such failures before finish().
COROLLARY QuietDelivers ==
    ASSUME InitStep = SetMax(InitMirror), Cardinality(Nodes) > 1 \/ MaxAttempts = 1
    PROVE  Spec /\ [][QuietFinish]_vars => [](~neglected => Delivered)
<1>1. (All("done") /\ trained > 0 /\ ~neglected => trained \in Complete) => (~neglected => Delivered)
  BY DEF Delivered
<1> QED BY <1>1, FinishDelivers, PTL

\* When no file operation fails at all, nothing need be said of finish().
COROLLARY FaultlessFinish ==
    ASSUME InitStep = SetMax(InitMirror), Cardinality(Nodes) > 1 \/ MaxAttempts = 1, MaxFaults = 0
    PROVE  Spec => [](Delivered /\ MirrorBounded)
<1>1. Continues
  BY SomeSteps, SetMaxIs DEF AllSteps, Continues
<1>2. IInv => faults = 0
  BY DEF IInv, TypeOK
<1>3. faults = 0 /\ (faults = 0)' => [QuietFinish]_vars
  BY DEF QuietFinish
<1>4. Init => ~neglected
  BY DEF Init
<1>5. ~neglected /\ IInv /\ [Next]_vars => ~neglected'
  <2>1. ASSUME IInv, NEW n \in Nodes, Neglects(n) PROVE FALSE
    BY <1>2, <2>1 DEF Neglects, SettleFails, TrimFails, DropFails, Neglect, Fault
  <2> QED BY <2>1, NeglectedKept DEF Next, vars
<1> QED BY <1>1, <1>2, <1>3, <1>4, <1>5, QuietDelivers, FinishBounds, Invariance, PTL DEF Spec
=============================================================================
