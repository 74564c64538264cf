------------------------ MODULE AsyncRollouts_proofs ------------------------
(***************************************************************************)
(* Proofs about AsyncRollouts, for any number of ranks, any set of         *)
(* configurations, any length of the training and any number of faults.    *)
(***************************************************************************)
EXTENDS AsyncRollouts, SequenceTheorems, TLAPS

Places == {"prepare", "gather", "pause", "load", "resume", "retire", "barrier",
           "settle", "syncing", "produce", "broadcast", "train", "done", "raised"}
Job == [state : {"queued", "running", "done", "failed"}, weights : 0 .. LastStep]
Finished(job) == job.state \in {"done", "failed"}

\* The micro-batches of the whole training
Total == LastStep * Accumulation

\* The rollout in training, or the next one between two
Number == micro \div setup.per

\* The step at which rollout k is due
Due(k) == (k * setup.per) \div Accumulation

\* futures[i] is rollout Base + i; the weights were sent for all rollouts up to Sent.
Base == IF At("train") \/ At("broadcast") THEN Number ELSE Number - 1
Sent == IF At("train") \/ At("broadcast") \/ At("produce") THEN Number ELSE Number - 1

\* The step of the weights the server has
Current == IF setup.sync # "lora" THEN weights ELSE IF model = 0 THEN 0 ELSE published[model]

\* step is as late as every sync that was due for rollouts 0 .. n.
Covers(step, n) == \A k \in 0 .. n : Due(k) % setup.interval = 0 => step >= Due(k)

\* The worker's request has chosen its weights.
Chosen == wpc = "generating" \/ (setup.sync = "lora" /\ wpc \in {"asked", "queued"})

-----------------------------------------------------------------------------
(* The inductive invariant.                                                *)

FlagsInv ==
    /\ {error, paused, escaped} \subseteq BOOLEAN /\ faults \in 0 .. MaxFaults
    /\ resume \in {"none", "due", "rejected"}

\* Where the main rank is tells what it is doing.
PhaseInv ==
    /\ setup \in Setups /\ pc \in [Ranks -> Places] /\ micro \in 0 .. Total
    /\ micro = Total => \A r \in Crew : pc[r] = "done"
    /\ pc[Main] \notin {"train", "done", "raised"} => micro % setup.per = 0
    /\ pc[Main] \in {"gather", "pause", "load", "resume", "retire", "barrier"} => setup.sync = "lora"
    /\ pc[Main] = "settle" => setup.sync = "stock"
    /\ pc[Main] = "syncing" => setup.sync # "lora"
    /\ setup.path = "producer" /\ micro = 0 => pc[Main] \in {"prepare", "produce", "train", "raised"}

\* Where it can be after an error, and while others wait for it in the barrier.
ErrorInv ==
    /\ error => pc[Main] \in {"resume", "barrier", "raised"}
    /\ escaped => pc[Main] \in {"resume", "raised"}
    /\ \A r \in Crew : pc[r] = "barrier" =>
          \/ pc[Main] \in {"pause", "load", "resume", "retire", "barrier"}
          \/ pc[Main] = "raised" /\ escaped

\* How many futures there are.
DepthInv ==
    /\ futures \in Seq(Job)
    /\ Len(futures) = IF setup.path = "producer" /\ micro = 0 /\ ~At("train") THEN 0 ELSE
                      IF setup.path = "producer" /\ At("broadcast") THEN setup.depth - 1
                      ELSE setup.depth

\* One future runs exactly if the thread is busy, and none while the main rank syncs.
RunningInv ==
    /\ wpc \in {"idle", "check", "syncing", "ask", "asked", "queued", "generating"}
    /\ wpc = "idle" => \A i \in DOMAIN futures : futures[i].state # "running"
    /\ wpc # "idle" => \E i \in DOMAIN futures :
          /\ futures[i].state = "running"
          /\ \A j \in DOMAIN futures : futures[j].state = "running" => j = i
    /\ setup.sync = "stock" /\ At("syncing") =>
          wpc = "idle" /\ (setup.path = "legacy" => \A i \in DOMAIN futures : Finished(futures[i]))

\* The adapters were saved at later and later steps, and the last two are loaded.
ServerInv ==
    /\ published \in Seq(1 .. LastStep) /\ model = Len(published)
    /\ \A i \in DOMAIN published : published[i] >= i /\ published[i] <= GlobalStep
    /\ loaded \subseteq 1 .. model /\ \A v \in 1 .. model : v >= model - 1 => v \in loaded
    /\ weights \in 0 .. GlobalStep /\ marked \in 0 .. LastStep /\ using \in 0 .. LastStep
    /\ setup.sync = "lora" => using <= model

\* What was sent is no older than what the main rank believes.
SyncedInv ==
    /\ lastSynced \in [Ranks -> -1 .. LastStep] /\ lastSynced[Main] <= Current
    /\ pc[Main] \in {"gather", "pause", "load"} => GlobalStep >= 1 /\ lastSynced[Main] < GlobalStep
    /\ pc[Main] \notin {"resume", "retire", "barrier", "raised"} =>
          \A i \in DOMAIN published : published[i] <= lastSynced[Main]
    /\ pc[Main] \in {"resume", "retire", "barrier"} /\ ~error /\ ~escaped => Current = GlobalStep

\* One publication at most falls between the writing of a name and the end of its request.
NamesInv ==
    setup.sync = "lora" /\ setup.depth = 1 /\ wpc \in {"asked", "queued", "generating"} =>
        /\ using >= model - 1
        /\ pc[Main] \in {"prepare", "gather", "pause", "load", "broadcast", "train"} => using = model

\* The weights sent, those of the running request and of the finished ones are late enough.
FreshInv ==
    /\ rollout \in -1 .. LastStep
    /\ ~At("raised") /\ ~At("done") =>
          /\ Covers(Current, Sent)
          /\ \A i \in DOMAIN futures :
                /\ futures[i].state = "done" => Covers(futures[i].weights, Base + i - setup.depth)
                /\ futures[i].state = "running" /\ Chosen => Covers(Age, Base + i - setup.depth)
    /\ At("broadcast") \/ At("train") => rollout >= 0 /\ Covers(rollout, Number - setup.depth)

IInv == FlagsInv /\ PhaseInv /\ ErrorInv /\ DepthInv /\ RunningInv /\ ServerInv /\ SyncedInv
        /\ NamesInv /\ FreshInv

-----------------------------------------------------------------------------
(* Arithmetic.                                                             *)

\* Products are monotone.
LEMMA TimesMonotone ==
    ASSUME NEW a \in Nat, NEW b \in Nat, NEW c \in Nat, a <= b
    PROVE  a * c <= b * c
<1>1. PICK k \in Nat : b = a + k
    <2>1. b - a \in Nat /\ b = a + (b - a)
        BY SMT
    <2> QED
        BY <2>1
<1>2. (a + k) * c = a * c + k * c /\ k * c >= 0 /\ a * c \in Nat
    BY SMT
<1> QED
    BY <1>1, <1>2, SMT

\* Division with remainder.
LEMMA Division ==
    ASSUME NEW n \in Nat, NEW d \in Nat \ {0}
    PROVE  n \div d \in Nat /\ n % d \in 0 .. d - 1 /\ n = (n \div d) * d + (n % d)
  BY SMT

\* The quotient and the remainder are unique.
LEMMA DivisionIsUnique ==
    ASSUME NEW n \in Nat, NEW d \in Nat \ {0}, NEW q \in Nat, NEW r \in 0 .. d - 1,
           n = q * d + r
    PROVE  n \div d = q /\ n % d = r
  BY SMT

\* Division is monotone.
LEMMA DivisionIsMonotone ==
    ASSUME NEW m \in Nat, NEW n \in Nat, NEW d \in Nat \ {0}, m <= n
    PROVE  m \div d <= n \div d
<1> DEFINE q == m \div d
           p == n \div d
<1>1. q \in Nat /\ m % d \in 0 .. d - 1 /\ m = q * d + (m % d)
    BY Division
<1>2. p \in Nat /\ n % d \in 0 .. d - 1 /\ n = p * d + (n % d)
    BY Division
<1> HIDE DEF q, p
<1>3. ASSUME q >= p + 1 PROVE FALSE
    <2>1. (p + 1) * d <= q * d
        BY <1>1, <1>2, <1>3, TimesMonotone
    <2>2. (p + 1) * d = p * d + d /\ p * d \in Nat /\ q * d \in Nat
        BY <1>1, <1>2, SMT
    <2> QED
        BY <2>1, <2>2, <1>1, <1>2, SMT
<1>4. q <= p
    BY <1>1, <1>2, <1>3, SMT
<1> QED
    BY <1>4 DEF q, p

\* Counting on, the quotient grows where the remainder becomes zero.
LEMMA NextDivision ==
    ASSUME NEW n \in Nat, NEW d \in Nat \ {0}
    PROVE  (n + 1) \div d = IF (n + 1) % d = 0 THEN n \div d + 1 ELSE n \div d
<1>1. n \div d \in Nat /\ n % d \in 0 .. d - 1 /\ n = (n \div d) * d + (n % d)
    BY Division
<1>2. CASE n % d = d - 1
    <2>1. n + 1 = (n \div d + 1) * d + 0
        BY <1>1, <1>2, SMT
    <2>2. n + 1 \in Nat /\ n \div d + 1 \in Nat /\ 0 \in 0 .. d - 1
        BY <1>1, SMT
    <2>3. (n + 1) \div d = n \div d + 1 /\ (n + 1) % d = 0
        BY <2>1, <2>2, DivisionIsUnique
    <2> QED
        BY <2>3
<1>3. CASE n % d # d - 1
    <2>1. n + 1 = (n \div d) * d + ((n % d) + 1) /\ (n % d) + 1 \in 1 .. d - 1
        BY <1>1, <1>3, SMT
    <2>2. n + 1 \in Nat /\ (n % d) + 1 \in 0 .. d - 1 /\ (n % d) + 1 # 0
        BY <1>1, <1>3, SMT
    <2>3. (n + 1) \div d = n \div d /\ (n + 1) % d = (n % d) + 1
        BY <2>1, <2>2, <1>1, DivisionIsUnique
    <2> QED
        BY <2>2, <2>3
<1> QED
    BY <1>2, <1>3
-----------------------------------------------------------------------------
(* The configuration, the step and the ranks.                              *)

LEMMA SetupFacts ==
    ASSUME setup \in Setups
    PROVE  /\ setup.path \in {"producer", "legacy"} /\ setup.sync \in {"lora", "no_merge", "stock"}
           /\ setup.depth \in Nat \ {0} /\ setup.interval \in Nat \ {0} /\ setup.per \in Nat \ {0}
           /\ setup.alone \in BOOLEAN
  BY RolloutsAssumption DEF RolloutsAssumption

LEMMA Constants ==
    Accumulation \in Nat \ {0} /\ LastStep \in Nat \ {0} /\ Total \in Nat /\ Total > 0
           /\ Total \div Accumulation = LastStep
<1>1. Accumulation \in Nat \ {0} /\ LastStep \in Nat \ {0}
    BY RolloutsAssumption DEF RolloutsAssumption
<1>2. Total \in Nat /\ Total > 0 /\ Total = LastStep * Accumulation + 0 /\ 0 \in 0 .. Accumulation - 1
    BY <1>1, SMT DEF Total
<1>3. Total \div Accumulation = LastStep
    BY <1>1, <1>2, DivisionIsUnique
<1> QED
    BY <1>1, <1>2, <1>3

\* GlobalStep never exceeds max_steps.
LEMMA StepInRange ==
    ASSUME micro \in 0 .. Total
    PROVE  GlobalStep \in 0 .. LastStep
<1>1. micro \in Nat /\ Total \in Nat /\ micro <= Total
    BY Constants, SMT
<1>2. micro \div Accumulation <= LastStep
    BY <1>1, Constants, DivisionIsMonotone
<1>3. micro \div Accumulation \in Nat /\ LastStep \in Nat
    BY <1>1, Constants, Division
<1> QED
    BY <1>2, <1>3, SMT DEF GlobalStep

\* Training does not decrease it.
LEMMA StepIsMonotone ==
    ASSUME micro \in 0 .. Total, micro' \in 0 .. Total, micro <= micro'
    PROVE  GlobalStep <= GlobalStep'
<1>1. micro \in Nat /\ micro' \in Nat /\ Accumulation \in Nat \ {0}
    BY Constants, SMT
<1>2. micro \div Accumulation <= micro' \div Accumulation
    BY <1>1, DivisionIsMonotone
<1> QED
    BY <1>2 DEF GlobalStep

\* When the rollouts were due, seen from the next rollout.
LEMMA DueFacts ==
    ASSUME setup \in Setups, micro \in 0 .. Total
    PROVE  /\ Number \in Nat /\ \A k \in Nat : Due(k) \in Nat
           /\ \A k \in 0 .. Number : Due(k) <= GlobalStep
           /\ micro % setup.per = 0 => Due(Number) = GlobalStep
           /\ Due(0) = 0
<1>1. setup.per \in Nat \ {0} /\ Accumulation \in Nat \ {0} /\ micro \in Nat
    BY SetupFacts, Constants, SMT
<1>2. Number \in Nat /\ micro % setup.per \in Nat /\ micro = Number * setup.per + (micro % setup.per)
    <2>1. Number \in Nat /\ micro % setup.per \in 0 .. setup.per - 1
        BY <1>1, Division DEF Number
    <2>2. micro = Number * setup.per + (micro % setup.per)
        BY <1>1, Division DEF Number
    <2> QED
        BY <2>1, <2>2, SMT
<1>3. \A k \in Nat : k * setup.per \in Nat /\ Due(k) \in Nat
    <2>1. \A k \in Nat : k * setup.per \in Nat
        BY <1>1, SMT
    <2> QED
        BY <2>1, <1>1, Division DEF Due
<1>4. ASSUME NEW k \in 0 .. Number PROVE Due(k) <= GlobalStep
    <2>1. k \in Nat /\ k <= Number
        BY <1>2, SMT
    <2>2. k * setup.per <= Number * setup.per
        BY <2>1, <1>1, <1>2, TimesMonotone
    <2>3. k * setup.per <= micro
        <3>1. k * setup.per \in Nat /\ Number * setup.per \in Nat
            BY <2>1, <1>2, <1>3
        <3> QED
            BY <3>1, <2>2, <1>2, SMT
    <2> QED
        BY <2>1, <2>3, <1>1, <1>3, DivisionIsMonotone DEF Due, GlobalStep
<1>5. micro % setup.per = 0 => Due(Number) = GlobalStep
    <2>1. Number * setup.per \in Nat
        BY <1>2, <1>3
    <2>2. ASSUME micro % setup.per = 0 PROVE Number * setup.per = micro
        BY <2>1, <2>2, <1>2, SMT
    <2> QED
        BY <2>2 DEF Due, GlobalStep
<1>6. Due(0) = 0
    <2>1. 0 = 0 * Accumulation + 0 /\ 0 * setup.per = 0 /\ 0 \in 0 .. Accumulation - 1
        BY <1>1, SMT
    <2> QED
        BY <2>1, <1>1, DivisionIsUnique DEF Due
<1> QED
    BY <1>2, <1>3, <1>4, <1>5, <1>6

LEMMA CrewFacts ==
    Main \in Ranks /\ Main \in Crew /\ Crew \subseteq Ranks
  BY DEF Ranks, Crew

LEMMA GotoFacts ==
    ASSUME pc \in [Ranks -> Places], NEW r \in Ranks, NEW l \in Places, Goto(r, l)
    PROVE  /\ pc' \in [Ranks -> Places] /\ pc'[r] = l
           /\ \A s \in Ranks : s # r => pc'[s] = pc[s]
  BY DEF Goto

LEMMA EveryoneFacts ==
    ASSUME pc \in [Ranks -> Places], NEW l \in Places, Everyone(l)
    PROVE  /\ pc' \in [Ranks -> Places] /\ pc'[Main] = l /\ \A s \in Crew : pc'[s] = l
  BY CrewFacts DEF Everyone

-----------------------------------------------------------------------------
(* Flags and phases.                                                       *)

LEMMA FlagsInit == Init => FlagsInv
<1>1. Init => {error, paused, escaped} \subseteq BOOLEAN
    BY Zenon DEF Init
<1>2. Init => faults \in 0 .. MaxFaults /\ resume \in {"none", "due", "rejected"}
    BY RolloutsAssumption DEF Init, RolloutsAssumption
<1> QED
    BY <1>1, <1>2 DEF FlagsInv

LEMMA FaultFacts ==
    ASSUME faults \in 0 .. MaxFaults, Fault
    PROVE  faults' \in 0 .. MaxFaults
  BY RolloutsAssumption, SMT DEF Fault, RolloutsAssumption

LEMMA FlagsStep ==
    ASSUME FlagsInv, [Next]_vars
    PROVE  FlagsInv'
<1>1. ASSUME Fault PROVE faults' \in 0 .. MaxFaults
    BY <1>1, FaultFacts DEF FlagsInv
<1>2. ASSUME UNCHANGED <<error, paused, resume, escaped, faults>> PROVE FlagsInv'
    BY <1>2 DEF FlagsInv
<1>3. faults \in 0 .. MaxFaults /\ error \in BOOLEAN /\ paused \in BOOLEAN /\ escaped \in BOOLEAN
      /\ resume \in {"none", "due", "rejected"}
    BY Zenon DEF FlagsInv
<1>4. SUFFICES error' \in BOOLEAN /\ paused' \in BOOLEAN /\ escaped' \in BOOLEAN
               /\ faults' \in 0 .. MaxFaults /\ resume' \in {"none", "due", "rejected"}
    BY Zenon DEF FlagsInv
<1>5. ASSUME NEW r \in Crew, RankStep(r)
      PROVE  UNCHANGED <<error, paused, resume, escaped, faults>>
    BY <1>5, Zenon DEF RankStep, Prepare, Settle, PopNone, serverVars
<1>6. CASE MainStep
    <2>1. CASE Pause
        BY <2>1, <1>1, <1>3, Zenon DEF Pause, Escape
    <2>2. CASE Load
        BY <2>2, <1>1, <1>3, Zenon DEF Load, Escape
    <2>3. CASE Resume
        BY <2>3, <1>1, <1>3, Zenon DEF Resume, Escape, PausedAfter
    <2>4. CASE Retire
        BY <2>4, <1>1, <1>3, Zenon DEF Retire, Escape
    <2>5. CASE Pop
        BY <2>5, <1>1, <1>3, Zenon DEF Pop, serverVars
    <2> QED
        BY <1>6, <2>1, <2>2, <2>3, <2>4, <2>5 DEF MainStep
<1>7. CASE Collective
    <2>1. CASE Barrier \/ SyncWeights \/ Broadcast \/ Train
        BY <2>1, <1>3, Zenon DEF Barrier, SyncWeights, Broadcast, Train, serverVars
    <2>3. CASE Gather
        BY <2>3, <1>1, <1>3, Zenon DEF Gather, Escape, serverVars
    <2>2. CASE FirstRollout
        BY <2>2, <1>1, <1>3, Zenon DEF FirstRollout, serverVars
    <2> QED
        BY <1>7, <2>1, <2>2, <2>3 DEF Collective
<1>8. CASE WorkerStep
    <2>1. CASE Take \/ Check \/ SyncInBackground \/ Ask \/ Arrive \/ Admit
        BY <2>1, <1>3, Zenon
           DEF Take, Check, SyncInBackground, Ask, Arrive, Admit, mainVars, serverVars
    <2>2. CASE Generate
        BY <2>2, <1>1, <1>3, Zenon DEF Generate, mainVars, serverVars
    <2> QED
        BY <1>8, <2>1, <2>2 DEF WorkerStep
<1>9. CASE UNCHANGED vars
    BY <1>9, <1>3 DEF vars, mainVars, serverVars
<1> QED
    BY <1>3, <1>5, <1>6, <1>7, <1>8, <1>9 DEF Next

LEMMA PhaseInit == Init => PhaseInv /\ ErrorInv
<1> SUFFICES ASSUME Init PROVE PhaseInv /\ ErrorInv
    OBVIOUS
<1>1. Main \in Ranks /\ Crew \subseteq Ranks /\ \A r \in Ranks : pc[r] = "prepare"
    BY CrewFacts DEF Init
<1>2. pc \in [Ranks -> Places] /\ micro = 0 /\ setup \in Setups
    BY DEF Init, Places
<1>3. micro % setup.per = 0 /\ micro \in 0 .. Total /\ micro # Total
    BY <1>2, SetupFacts, Constants, SMT
<1>4. PhaseInv
    BY <1>1, <1>2, <1>3 DEF PhaseInv
<1>5. ErrorInv
    BY <1>1 DEF ErrorInv, Init
<1> QED
    BY <1>4, <1>5

\* The background thread does not touch what these two are about.
LEMMA PhaseFrame ==
    ASSUME PhaseInv, UNCHANGED <<setup, pc, micro>>
    PROVE  PhaseInv'
  BY DEF PhaseInv, Crew

LEMMA ErrorFrame ==
    ASSUME ErrorInv, UNCHANGED <<setup, pc, error, escaped>>
    PROVE  ErrorInv'
  BY DEF ErrorInv, Crew

\* A step of one rank that counts no micro-batch
LEMMA PhaseGoto ==
    ASSUME PhaseInv, NEW r \in Crew, NEW l \in Places \ {"done"}, Goto(r, l),
           UNCHANGED <<setup, micro>>, pc[r] # "done",
           r = Main => /\ l \notin {"train", "raised"} => micro % setup.per = 0
                       /\ l \in {"gather", "pause", "load", "resume", "retire", "barrier"}
                             => setup.sync = "lora"
                       /\ l = "settle" => setup.sync = "stock"
                       /\ l = "syncing" => setup.sync # "lora"
                       /\ setup.path = "producer" /\ micro = 0
                             => l \in {"prepare", "produce", "train", "raised"}
    PROVE  PhaseInv'
<1>1. /\ pc' \in [Ranks -> Places] /\ pc'[r] = l
      /\ \A s \in Ranks : s # r => pc'[s] = pc[s]
    BY CrewFacts, GotoFacts DEF PhaseInv
<1>2. micro # Total
    BY DEF PhaseInv
<1>3. CASE r = Main
    BY <1>1, <1>2, <1>3, CrewFacts DEF PhaseInv, Crew
<1>4. CASE r # Main
    BY <1>1, <1>2, <1>4, CrewFacts DEF PhaseInv, Crew
<1> QED
    BY <1>3, <1>4

\* Where a rank that is due to sync goes; nothing is sent before the first step.
LEMMA PrepareFacts ==
    ASSUME PhaseInv, NEW r \in Crew, Prepare(r)
    PROVE  \E l \in {"produce", "gather", "syncing", "settle"} :
              /\ Goto(r, l)
              /\ l # "produce" => ~SendsNothing(r) /\ micro # 0 /\ SyncDue(r)
                               /\ UNCHANGED lastSynced
              /\ l = "gather" => setup.sync = "lora"
              /\ l = "syncing" => setup.sync = "no_merge" /\ r = Main
              /\ l = "settle" => setup.sync = "stock"
<1>1. setup.sync \in {"lora", "no_merge", "stock"}
    BY SetupFacts DEF PhaseInv
<1>2. ASSUME micro = 0 PROVE GlobalStep = 0
    <2>1. 0 = 0 * Accumulation + 0 /\ 0 \in 0 .. Accumulation - 1
        BY Constants, SMT
    <2> QED
        BY <2>1, <1>2, Constants, DivisionIsUnique DEF GlobalStep
<1>3. CASE Goto(r, "produce")
    BY <1>3
<1>4. CASE /\ SyncDue(r) /\ ~SendsNothing(r)
           /\ Goto(r, [lora |-> "gather", no_merge |-> "syncing", stock |-> "settle"][setup.sync])
           /\ UNCHANGED lastSynced
    <2>1. micro # 0 /\ ~(setup.sync = "no_merge" /\ r # Main)
        BY <1>2, <1>4 DEF SendsNothing
    <2>2. CASE setup.sync = "lora"
        BY <1>4, <2>1, <2>2
    <2>3. CASE setup.sync = "no_merge"
        BY <1>4, <2>1, <2>3
    <2>4. CASE setup.sync = "stock"
        BY <1>4, <2>1, <2>4
    <2> QED
        BY <1>1, <2>2, <2>3, <2>4
<1> QED
    BY <1>3, <1>4 DEF Prepare

\* A collective that counts no micro-batch
LEMMA PhaseCollective ==
    ASSUME PhaseInv, UNCHANGED <<setup, micro>>, pc[Main] # "done", micro % setup.per = 0,
           setup.path = "producer" /\ micro = 0
              => pc'[Main] \in {"prepare", "produce", "train", "raised"},
           pc' \in [Ranks -> Places],
           pc'[Main] \in {"pause", "barrier"} => setup.sync = "lora",
           pc'[Main] \in {"pause", "barrier", "produce", "train", "raised"}
    PROVE  PhaseInv'
<1>1. micro # Total
    BY CrewFacts DEF PhaseInv
<1> QED
    BY <1>1 DEF PhaseInv, Crew

LEMMA TrainFacts ==
    ASSUME PhaseInv, Train
    PROVE  /\ pc' \in [Ranks -> Places] /\ micro' \in 0 .. Total /\ micro' = micro + 1
           /\ setup' = setup
           /\ \/ micro' = Total /\ \A r \in Crew : pc'[r] = "done"
              \/ micro' # Total /\ micro' % setup.per = 0 /\ \A r \in Crew : pc'[r] = "prepare"
              \/ micro' # Total /\ micro' % setup.per # 0 /\ \A r \in Crew : pc'[r] = "train"
<1>1. micro # Total
    BY CrewFacts DEF PhaseInv, Train, AllAt
<1>2. micro' = micro + 1 /\ micro' \in 0 .. Total /\ setup' = setup
    BY <1>1, Constants, SMT DEF PhaseInv, Train
<1>3. CASE micro' = Total
    <2>1. Everyone("done")
        BY <1>3 DEF Train, Total
    <2>2. pc' \in [Ranks -> Places] /\ \A r \in Crew : pc'[r] = "done"
        BY <2>1, EveryoneFacts DEF PhaseInv, Places
    <2> QED
        BY <1>2, <1>3, <2>2
<1>4. CASE micro' # Total /\ micro' % setup.per = 0
    <2>1. Everyone("prepare")
        BY <1>4 DEF Train, Total
    <2>2. pc' \in [Ranks -> Places] /\ \A r \in Crew : pc'[r] = "prepare"
        BY <2>1, EveryoneFacts DEF PhaseInv, Places
    <2> QED
        BY <1>2, <1>4, <2>2
<1>5. CASE micro' # Total /\ micro' % setup.per # 0
    <2>1. Everyone("train")
        BY <1>5 DEF Train, Total
    <2>2. pc' \in [Ranks -> Places] /\ \A r \in Crew : pc'[r] = "train"
        BY <2>1, EveryoneFacts DEF PhaseInv, Places
    <2> QED
        BY <1>2, <1>5, <2>2
<1> QED
    BY <1>3, <1>4, <1>5

\* Where the collectives take the ranks
LEMMA GatherFacts ==
    ASSUME PhaseInv, Gather
    PROVE  /\ pc' \in [Ranks -> Places] /\ pc[Main] = "gather"
           /\ \/ pc'[Main] = "pause" /\ UNCHANGED escaped
              \/ pc'[Main] = "raised" /\ escaped'
           /\ UNCHANGED <<setup, micro>>
  BY CrewFacts, GotoFacts DEF PhaseInv, Gather, AllAt, Places, Escape

LEMMA BarrierFacts ==
    ASSUME PhaseInv, Barrier
    PROVE  /\ pc' \in [Ranks -> Places] /\ pc'[Main] = IF error THEN "raised" ELSE "produce"
           /\ pc[Main] = "barrier" /\ \A r \in Crew : r # Main => pc'[r] = "produce"
           /\ UNCHANGED <<setup, micro>>
  BY CrewFacts DEF PhaseInv, Barrier, AllAt, Places

LEMMA SyncFacts ==
    ASSUME PhaseInv, SyncWeights
    PROVE  /\ pc' \in [Ranks -> Places] /\ pc'[Main] = "produce" /\ pc[Main] = "syncing"
           /\ \A r \in Crew : pc'[r] \in {pc[r], "produce"}
           /\ UNCHANGED <<setup, micro>>
  BY CrewFacts DEF PhaseInv, SyncWeights, Places

LEMMA PhaseStep ==
    ASSUME PhaseInv, [Next]_vars
    PROVE  PhaseInv'
<1>1. ASSUME NEW r \in Crew, RankStep(r) PROVE PhaseInv'
    <2>1. CASE Prepare(r)
        <3>1. PICK l \in {"produce", "gather", "syncing", "settle"} :
                 /\ Goto(r, l)
                 /\ l # "produce" => micro # 0
                 /\ l = "gather" => setup.sync = "lora"
                 /\ l = "syncing" => setup.sync = "no_merge"
                 /\ l = "settle" => setup.sync = "stock"
            BY <2>1, PrepareFacts
        <3>2. pc[r] = "prepare" /\ UNCHANGED <<setup, micro>> /\ l \in Places \ {"done"}
            BY <2>1 DEF Prepare, Places
        <3>3. r = Main => micro % setup.per = 0
            BY <3>2 DEF PhaseInv
        <3> QED
            BY <3>1, <3>2, <3>3, PhaseGoto
    <2>2. CASE Settle(r)
        <3>1. PICK l \in {"raised", "syncing"} : Goto(r, l)
            BY <2>2 DEF Settle
        <3>2. pc[r] = "settle" /\ UNCHANGED <<setup, micro>> /\ l \in Places \ {"done"}
            BY <2>2, <3>1 DEF Settle, Places
        <3>3. r = Main => micro % setup.per = 0 /\ setup.sync = "stock"
                          /\ ~(setup.path = "producer" /\ micro = 0)
            BY <3>2 DEF PhaseInv
        <3> QED
            BY <3>1, <3>2, <3>3, PhaseGoto
    <2>3. CASE PopNone(r)
        BY <2>3, PhaseGoto DEF PopNone, Places
    <2> QED
        BY <1>1, <2>1, <2>2, <2>3 DEF RankStep
<1>2. CASE MainStep
    <2>1. ASSUME Pause \/ Load \/ Resume \/ Retire PROVE PhaseInv'
        <3>1. PICK l \in {"load", "raised", "resume", "retire", "barrier"} : Goto(Main, l)
            BY <2>1 DEF Pause, Load, Resume, AfterFinally, AfterResume, Retire
        <3>2. pc[Main] \in {"pause", "load", "resume", "retire"} /\ UNCHANGED <<setup, micro>>
              /\ l \in Places \ {"done"}
            BY <2>1 DEF Pause, Load, Resume, Retire, At, Places
        <3>3. micro % setup.per = 0 /\ setup.sync = "lora"
              /\ ~(setup.path = "producer" /\ micro = 0)
            BY <3>2 DEF PhaseInv
        <3> QED
            BY <3>1, <3>2, <3>3, CrewFacts, PhaseGoto
    <2>2. CASE Pop
        <3>1. PICK l \in {"train", "broadcast", "raised"} : Goto(Main, l)
            BY <2>2 DEF Pop
        <3>2. pc[Main] = "produce" /\ UNCHANGED <<setup, micro>> /\ l \in Places \ {"done"}
            BY <2>2 DEF Pop, At, Places
        <3>3. micro % setup.per = 0 /\ ~(setup.path = "producer" /\ micro = 0)
            BY <2>2, <3>2 DEF PhaseInv, Pop, Initialized
        <3> QED
            BY <3>1, <3>2, <3>3, CrewFacts, PhaseGoto
    <2> QED
        BY <1>2, <2>1, <2>2 DEF MainStep
<1>3. CASE Collective
    <2>1. CASE Gather
        BY <2>1, GatherFacts, PhaseCollective DEF PhaseInv
    <2>2. CASE Barrier
        BY <2>2, BarrierFacts, PhaseCollective DEF PhaseInv
    <2>3. CASE SyncWeights
        BY <2>3, SyncFacts, PhaseCollective DEF PhaseInv
    <2>4. CASE FirstRollout
        <3>1. CASE Everyone("train")
            <4>1. pc' \in [Ranks -> Places] /\ pc'[Main] = "train"
                BY <3>1, EveryoneFacts DEF PhaseInv, Places
            <4>2. UNCHANGED <<setup, micro>> /\ pc[Main] = "produce"
                BY <2>4, CrewFacts DEF FirstRollout, AllAt
            <4> QED
                BY <4>1, <4>2, PhaseCollective DEF PhaseInv
        <3>2. CASE Goto(Main, "raised")
            <4>1. UNCHANGED <<setup, micro>> /\ pc[Main] = "produce" /\ "raised" \in Places \ {"done"}
                BY <2>4, CrewFacts DEF FirstRollout, AllAt, Places
            <4> QED
                BY <3>2, <4>1, CrewFacts, PhaseGoto
        <3> QED
            BY <2>4, <3>1, <3>2 DEF FirstRollout
    <2>5. CASE Broadcast
        <3>1. pc' \in [Ranks -> Places] /\ pc'[Main] = "train"
            BY <2>5, EveryoneFacts DEF Broadcast, PhaseInv, Places
        <3>2. UNCHANGED <<setup, micro>> /\ pc[Main] = "broadcast"
            BY <2>5, CrewFacts DEF Broadcast, AllAt
        <3> QED
            BY <3>1, <3>2, PhaseCollective DEF PhaseInv
    <2>6. CASE Train
        <3>1. /\ pc' \in [Ranks -> Places] /\ micro' \in 0 .. Total /\ micro' # 0
              /\ setup' = setup /\ Total' = Total /\ Crew' = Crew /\ Ranks' = Ranks
            BY <2>6, TrainFacts, SMT DEF PhaseInv, Total, Crew, Ranks
        <3> QED
            BY <2>6, <3>1, TrainFacts, CrewFacts DEF PhaseInv
    <2> QED
        BY <1>3, <2>1, <2>2, <2>3, <2>4, <2>5, <2>6 DEF Collective
<1>4. CASE WorkerStep
    BY <1>4, PhaseFrame
       DEF WorkerStep, Take, Check, SyncInBackground, Ask, Arrive, Admit, Generate, mainVars
<1>5. CASE UNCHANGED vars
    BY <1>5, PhaseFrame DEF vars, mainVars
<1> QED
    BY <1>1, <1>2, <1>3, <1>4, <1>5 DEF Next

\* A rank steps outside a publication, and not into the barrier.
LEMMA ErrorGoto ==
    ASSUME PhaseInv, ErrorInv, NEW r \in Crew, NEW l \in Places \ {"barrier"}, Goto(r, l),
           UNCHANGED <<setup, error, escaped>>,
           pc[r] \in {"prepare", "settle", "produce"}
    PROVE  ErrorInv'
<1>1. /\ pc'[r] = l /\ \A s \in Ranks : s # r => pc'[s] = pc[s]
      /\ Crew' = Crew
    BY CrewFacts, GotoFacts DEF PhaseInv, Crew
<1>2. CASE r = Main
    <2>1. ~error /\ ~escaped /\ \A s \in Crew : pc[s] # "barrier"
        BY <1>2 DEF ErrorInv
    <2>2. ~error' /\ ~escaped' /\ \A s \in Crew : pc'[s] # "barrier"
        BY <1>1, <2>1, CrewFacts
    <2> QED
        BY <1>1, <2>2 DEF ErrorInv
<1>3. CASE r # Main
    <2>1. pc'[Main] = pc[Main] /\ \A s \in Crew : pc'[s] = "barrier" => pc[s] = "barrier"
        BY <1>1, <1>3, CrewFacts
    <2> QED
        BY <1>1, <2>1 DEF ErrorInv
<1> QED
    BY <1>2, <1>3

\* A collective takes the ranks out of the barrier.
LEMMA ErrorCollective ==
    ASSUME UNCHANGED <<setup, error, escaped>>, ~error, ~escaped, \A s \in Crew : pc'[s] # "barrier"
    PROVE  ErrorInv'
  BY DEF ErrorInv, Crew

LEMMA ErrorStep ==
    ASSUME PhaseInv, ErrorInv, [Next]_vars
    PROVE  ErrorInv'
<1>1. ASSUME NEW r \in Crew, RankStep(r) PROVE ErrorInv'
    <2>1. CASE Prepare(r)
        <3>1. PICK l \in {"produce", "gather", "syncing", "settle"} : Goto(r, l)
            BY <2>1, PrepareFacts
        <3>2. pc[r] = "prepare" /\ UNCHANGED <<setup, error, escaped>> /\ l \in Places \ {"barrier"}
            BY <2>1 DEF Prepare, Places
        <3> QED
            BY <3>1, <3>2, ErrorGoto
    <2>2. CASE Settle(r)
        <3>1. PICK l \in {"raised", "syncing"} : Goto(r, l)
            BY <2>2 DEF Settle
        <3>2. pc[r] = "settle" /\ UNCHANGED <<setup, error, escaped>> /\ l \in Places \ {"barrier"}
            BY <2>2 DEF Settle, Places
        <3> QED
            BY <3>1, <3>2, ErrorGoto
    <2>3. CASE PopNone(r)
        BY <2>3, ErrorGoto DEF PopNone, Places
    <2> QED
        BY <1>1, <2>1, <2>2, <2>3 DEF RankStep
<1>2. CASE MainStep
    <2>1. CASE Pop
        <3>1. PICK l \in {"train", "broadcast", "raised"} : Goto(Main, l)
            BY <2>1 DEF Pop
        <3>2. pc[Main] = "produce" /\ UNCHANGED <<setup, error, escaped>> /\ l \in Places \ {"barrier"}
            BY <2>1 DEF Pop, At, Places
        <3> QED
            BY <3>1, <3>2, CrewFacts, ErrorGoto
    <2>2. ASSUME Pause \/ Load \/ Resume \/ Retire PROVE ErrorInv'
        <3>1. PICK l \in {"load", "raised", "resume", "retire", "barrier"} : Goto(Main, l)
            BY <2>2 DEF Pause, Load, Resume, AfterFinally, AfterResume, Retire
        <3>2. pc'[Main] = l /\ (\A s \in Ranks : s # Main => pc'[s] = pc[s]) /\ Crew' = Crew
            BY <2>2, <3>1, CrewFacts, GotoFacts
               DEF PhaseInv, Pause, Load, Resume, Retire, Places, Crew
        <3>3. SUFFICES /\ error' => l \in {"resume", "barrier", "raised"}
                       /\ escaped' => l \in {"resume", "raised"}
                       /\ l = "raised" => escaped'
            BY <3>2 DEF ErrorInv
        <3>4. CASE Pause
            <4>1. ~error /\ ~escaped /\ UNCHANGED error
                BY <3>4 DEF Pause, At, ErrorInv
            <4>2. \/ pc'[Main] = "load" /\ UNCHANGED escaped
                  \/ pc'[Main] = "raised" /\ escaped'
                BY <3>1, <3>2, <3>4, GotoFacts, CrewFacts DEF Pause, PhaseInv, Escape, Places
            <4> QED
                BY <3>2, <4>1, <4>2
        <3>5. CASE Load
            <4>1. pc'[Main] = "resume"
                BY <3>5, GotoFacts, CrewFacts DEF Load, PhaseInv, Places
            <4> QED
                BY <3>2, <4>1
        <3>6. CASE Resume
            <4>1. UNCHANGED error
                BY <3>6 DEF Resume
            <4>2. CASE Goto(Main, AfterFinally) /\ UNCHANGED escaped
                <5>1. pc'[Main] = AfterFinally
                    BY <4>2, GotoFacts, CrewFacts DEF AfterFinally, AfterResume, PhaseInv, Places
                <5> QED
                    BY <3>2, <4>1, <4>2, <5>1 DEF AfterFinally, AfterResume
            <4>3. CASE Escape /\ Goto(Main, "raised")
                <5>1. pc'[Main] = "raised" /\ escaped'
                    BY <4>3, GotoFacts, CrewFacts DEF Escape, PhaseInv, Places
                <5> QED
                    BY <3>2, <5>1
            <4> QED
                BY <3>6, <4>2, <4>3 DEF Resume
        <3>7. CASE Retire
            <4>1. ~error /\ ~escaped /\ UNCHANGED error
                BY <3>7 DEF Retire, At, ErrorInv
            <4>2. \/ pc'[Main] = "barrier" /\ UNCHANGED escaped
                  \/ pc'[Main] = "raised" /\ escaped'
                BY <3>7, GotoFacts, CrewFacts DEF Retire, PhaseInv, Escape, Places
            <4> QED
                BY <3>2, <4>1, <4>2
        <3> QED
            BY <2>2, <3>4, <3>5, <3>6, <3>7
    <2> QED
        BY <1>2, <2>1, <2>2 DEF MainStep
<1>3. CASE Collective
    <2>1. CASE Gather
        <3>1. ~error /\ ~escaped /\ UNCHANGED <<setup, error>>
            BY <2>1, CrewFacts DEF Gather, AllAt, ErrorInv
        <3>2. \/ pc'[Main] = "pause" /\ ~escaped'
              \/ pc'[Main] = "raised" /\ escaped'
            BY <2>1, <3>1, GatherFacts
        <3> QED
            BY <3>1, <3>2 DEF ErrorInv, Crew
    <2>2. CASE Barrier
        <3>1. UNCHANGED <<setup, error, escaped>> /\ ~escaped
            BY <2>2, CrewFacts DEF Barrier, AllAt, ErrorInv
        <3>2. \A r \in Crew : pc'[r] # "barrier"
            BY <2>2, BarrierFacts
        <3>3. error' => pc'[Main] = "raised"
            BY <2>2, <3>1, BarrierFacts
        <3> QED
            BY <3>1, <3>2, <3>3 DEF ErrorInv, Crew
    <2>3. CASE SyncWeights
        <3>1. /\ UNCHANGED <<setup, error, escaped>> /\ ~error /\ ~escaped
              /\ \A r \in Crew : pc[r] # "barrier"
            BY <2>3, SyncFacts DEF SyncWeights, ErrorInv
        <3>2. \A r \in Crew : pc'[r] # "barrier"
            BY <2>3, <3>1, SyncFacts
        <3> QED
            BY <3>1, <3>2, ErrorCollective
    <2>4. CASE FirstRollout
        <3>1. UNCHANGED <<setup, error, escaped>> /\ pc[Main] = "produce" /\ "raised" \in Places
            BY <2>4, CrewFacts DEF FirstRollout, AllAt, Places
        <3>2. CASE Everyone("train")
            <4>1. ~error /\ ~escaped /\ \A r \in Crew : pc'[r] # "barrier"
                BY <3>1, <3>2, EveryoneFacts DEF PhaseInv, ErrorInv, Places
            <4> QED
                BY <3>1, <4>1, ErrorCollective
        <3>3. CASE Goto(Main, "raised")
            BY <3>1, <3>3, CrewFacts, ErrorGoto
        <3> QED
            BY <2>4, <3>2, <3>3 DEF FirstRollout
    <2>5. CASE Broadcast
        <3>1. ~error /\ ~escaped /\ UNCHANGED <<setup, error, escaped>>
            BY <2>5, CrewFacts DEF Broadcast, AllAt, ErrorInv
        <3>2. \A r \in Crew : pc'[r] # "barrier"
            BY <2>5, EveryoneFacts DEF Broadcast, PhaseInv, Places
        <3> QED
            BY <3>1, <3>2, ErrorCollective
    <2>6. CASE Train
        <3>1. ~error /\ ~escaped /\ UNCHANGED <<setup, error, escaped>>
            BY <2>6, CrewFacts DEF Train, AllAt, ErrorInv
        <3>2. \A r \in Crew : pc'[r] # "barrier"
            BY <2>6, TrainFacts
        <3> QED
            BY <3>1, <3>2, ErrorCollective
    <2> QED
        BY <1>3, <2>1, <2>2, <2>3, <2>4, <2>5, <2>6 DEF Collective
<1>4. CASE WorkerStep
    BY <1>4, ErrorFrame
       DEF WorkerStep, Take, Check, SyncInBackground, Ask, Arrive, Admit, Generate, mainVars
<1>5. CASE UNCHANGED vars
    BY <1>5, ErrorFrame DEF vars, mainVars
<1> QED
    BY <1>1, <1>2, <1>3, <1>4, <1>5 DEF Next

-----------------------------------------------------------------------------
(* The deque of futures.                                                   *)

LEMMA PrefillFacts ==
    ASSUME NEW n \in Nat
    PROVE  /\ Prefill(n) \in Seq(Job) /\ Len(Prefill(n)) = n /\ DOMAIN Prefill(n) = 1 .. n
           /\ \A i \in 1 .. n : Prefill(n)[i] = Queued /\ Prefill(n)[i].state = "queued"
<1>1. Queued \in Job
    BY Constants, SMT DEF Queued, Job
<1>2. Prefill(n) = [i \in 1 .. n |-> Queued]
    BY DEF Prefill
<1>3. Prefill(n) \in [1 .. n -> Job]
    BY <1>1, <1>2
<1>4. Prefill(n) \in Seq(Job) /\ Len(Prefill(n)) = n
    BY <1>3, SeqDef, LenProperties, SMT
<1> QED
    BY <1>2, <1>4 DEF Queued

\* More jobs at the end of the deque
LEMMA PrefillMore ==
    ASSUME NEW deque \in Seq(Job), NEW n \in Nat
    PROVE  LET more == deque \o Prefill(n) IN
           /\ more \in Seq(Job) /\ Len(more) = Len(deque) + n
           /\ \A i \in DOMAIN more :
                 IF i \in DOMAIN deque THEN more[i] = deque[i] ELSE more[i].state = "queued"
<1>1. Prefill(n) \in Seq(Job) /\ Len(Prefill(n)) = n /\ DOMAIN Prefill(n) = 1 .. n
      /\ \A i \in 1 .. n : Prefill(n)[i].state = "queued"
    BY PrefillFacts
<1> DEFINE p == Prefill(n)
<1> HIDE DEF p
<1>2. p \in Seq(Job) /\ Len(p) = n /\ \A i \in 1 .. n : p[i].state = "queued"
    BY <1>1 DEF p
<1>3. /\ deque \o p \in Seq(Job) /\ Len(deque \o p) = Len(deque) + n
      /\ \A i \in 1 .. Len(deque) + n :
            (deque \o p)[i] = IF i <= Len(deque) THEN deque[i] ELSE p[i - Len(deque)]
    BY <1>2, ConcatProperties
<1>4. DOMAIN deque = 1 .. Len(deque) /\ DOMAIN (deque \o p) = 1 .. Len(deque) + n
      /\ Len(deque) \in Nat
    BY <1>3, LenProperties
<1>5. ASSUME NEW i \in 1 .. Len(deque) + n
      PROVE  IF i \in DOMAIN deque THEN (deque \o p)[i] = deque[i]
             ELSE (deque \o p)[i].state = "queued"
    <2>1. CASE i <= Len(deque)
        BY <2>1, <1>3, <1>4, SMT
    <2>2. CASE ~(i <= Len(deque))
        <3>1. i - Len(deque) \in 1 .. n /\ i \notin 1 .. Len(deque)
            BY <2>2, <1>4, SMT
        <3>2. (deque \o p)[i] = p[i - Len(deque)]
            BY <2>2, <1>3
        <3> QED
            BY <3>1, <3>2, <1>2, <1>4
    <2> QED
        BY <2>1, <2>2
<1> QED
    BY <1>3, <1>4, <1>5 DEF p

\* The oldest one is taken.
LEMMA TailFacts ==
    ASSUME NEW deque \in Seq(Job), Len(deque) > 0
    PROVE  /\ Tail(deque) \in Seq(Job) /\ Len(Tail(deque)) = Len(deque) - 1
           /\ Head(deque) = deque[1] /\ 1 \in DOMAIN deque
           /\ \A i \in DOMAIN Tail(deque) : i + 1 \in DOMAIN deque /\ Tail(deque)[i] = deque[i + 1]
<1>1. deque # <<>> /\ Len(deque) \in Nat /\ DOMAIN deque = 1 .. Len(deque)
    BY LenProperties, EmptySeq
<1>2. /\ Tail(deque) \in Seq(Job) /\ Len(Tail(deque)) = Len(deque) - 1
      /\ \A i \in 1 .. Len(deque) - 1 : Tail(deque)[i] = deque[i + 1]
      /\ Head(deque) = deque[1]
    BY <1>1, HeadTailProperties
<1>3. DOMAIN Tail(deque) = 1 .. Len(deque) - 1
    BY <1>2, LenProperties
<1> QED
    BY <1>1, <1>2, <1>3, SMT

\* One entry of the deque becomes another.
LEMMA ReplaceFacts ==
    ASSUME NEW deque \in Seq(Job), NEW i \in DOMAIN deque, NEW job \in Job
    PROVE  LET new == [deque EXCEPT ![i] = job] IN
           /\ new \in Seq(Job) /\ Len(new) = Len(deque) /\ DOMAIN new = DOMAIN deque
           /\ new[i] = job /\ \A j \in DOMAIN deque : j # i => new[j] = deque[j]
<1> DEFINE new == [deque EXCEPT ![i] = job]
<1>1. deque \in [1 .. Len(deque) -> Job] /\ Len(deque) \in Nat /\ DOMAIN deque = 1 .. Len(deque)
    BY LenProperties
<1>2. new \in [1 .. Len(deque) -> Job]
    BY <1>1
<1>3. new \in Seq(Job) /\ Len(new) = Len(deque)
    BY <1>1, <1>2, SeqDef, LenProperties, SMT
<1> QED
    BY <1>1, <1>2, <1>3

-----------------------------------------------------------------------------
(* What the steps do to the main rank and to the futures.                  *)

LEMMA RankFacts ==
    ASSUME PhaseInv, NEW r \in Crew, RankStep(r)
    PROVE  /\ UNCHANGED <<setup, micro, rollout, error, futures, wpc, marked, using, model, loaded,
                          published, weights, paused, escaped>>
           /\ lastSynced' \in {lastSynced, [lastSynced EXCEPT ![r] = GlobalStep]}
           /\ \/ r # Main /\ pc'[Main] = pc[Main]
              \/ /\ r = Main /\ pc[Main] = "prepare" /\ pc'[Main] = "produce"
                 /\ ~SyncDue(Main) /\ UNCHANGED lastSynced
              \/ /\ r = Main /\ pc[Main] = "prepare" /\ pc'[Main] = "produce"
                 /\ GlobalStep = 0 /\ lastSynced' = [lastSynced EXCEPT ![Main] = GlobalStep]
              \/ /\ r = Main /\ pc[Main] = "prepare" /\ UNCHANGED lastSynced
                 /\ pc'[Main] \in {"gather", "syncing", "settle"}
                 /\ GlobalStep # 0 /\ GlobalStep # lastSynced[Main]
                 /\ pc'[Main] = "syncing" => setup.sync = "no_merge"
              \/ r = Main /\ pc[Main] = "settle" /\ pc'[Main] = "raised" /\ UNCHANGED lastSynced
              \/ /\ r = Main /\ pc[Main] = "settle" /\ pc'[Main] = "syncing" /\ UNCHANGED lastSynced
                 /\ Quiet(Main)
<1>1. UNCHANGED <<setup, micro, rollout, error, futures, wpc, marked, using, model, loaded,
                  published, weights, paused, escaped>>
    BY DEF RankStep, Prepare, Settle, PopNone, workerVars, serverVars
<1>2. lastSynced' \in {lastSynced, [lastSynced EXCEPT ![r] = GlobalStep]}
    BY DEF RankStep, Prepare, Settle, PopNone, Synced
<1>3. CASE r # Main
    <2>1. PICK l \in Places : Goto(r, l)
        <3>1. CASE Prepare(r)
            BY <3>1, PrepareFacts DEF Places
        <3>2. CASE Settle(r) \/ PopNone(r)
            BY <3>2 DEF Settle, PopNone, Places
        <3> QED
            BY <3>1, <3>2 DEF RankStep
    <2>2. pc'[Main] = pc[Main]
        BY <2>1, <1>3, CrewFacts, GotoFacts DEF PhaseInv
    <2> QED
        BY <1>1, <1>2, <1>3, <2>2
<1>4. CASE r = Main
    <2>1. \A l \in Places : Goto(Main, l) => pc'[Main] = l
        BY GotoFacts, CrewFacts DEF PhaseInv
    <2>2. CASE Prepare(r)
        <3>1. pc[Main] = "prepare"
            BY <1>4, <2>2 DEF Prepare
        <3>2. CASE ~SyncDue(r) /\ Goto(r, "produce") /\ UNCHANGED lastSynced
            BY <1>1, <1>2, <1>4, <2>1, <3>1, <3>2 DEF Places
        <3>3. CASE SyncDue(r) /\ SendsNothing(r) /\ Goto(r, "produce") /\ Synced(r)
            <4>1. GlobalStep = 0 /\ pc'[Main] = "produce"
                BY <1>4, <3>3, <2>1 DEF SendsNothing, Places
            <4> QED
                BY <1>1, <1>2, <1>4, <3>1, <3>3, <4>1 DEF Synced
        <3>4. CASE /\ SyncDue(r) /\ ~SendsNothing(r) /\ UNCHANGED lastSynced
                   /\ Goto(r, [lora |-> "gather", no_merge |-> "syncing", stock |-> "settle"]
                              [setup.sync])
            <4>1. setup.sync \in {"lora", "no_merge", "stock"}
                BY SetupFacts DEF PhaseInv
            <4>2. GlobalStep # 0 /\ GlobalStep # lastSynced[Main]
                BY <1>4, <3>4 DEF SendsNothing, SyncDue
            <4>3. CASE setup.sync = "lora"
                <5>1. pc'[Main] = "gather"
                    BY <1>4, <3>4, <2>1, <4>3 DEF Places
                <5> QED
                    BY <1>1, <1>2, <1>4, <3>1, <3>4, <4>2, <5>1
            <4>4. CASE setup.sync = "no_merge"
                <5>1. pc'[Main] = "syncing"
                    BY <1>4, <3>4, <2>1, <4>4 DEF Places
                <5> QED
                    BY <1>1, <1>2, <1>4, <3>1, <3>4, <4>2, <4>4, <5>1
            <4>5. CASE setup.sync = "stock"
                <5>1. pc'[Main] = "settle"
                    BY <1>4, <3>4, <2>1, <4>5 DEF Places
                <5> QED
                    BY <1>1, <1>2, <1>4, <3>1, <3>4, <4>2, <5>1
            <4> QED
                BY <4>1, <4>3, <4>4, <4>5
        <3> QED
            BY <2>2, <3>2, <3>3, <3>4 DEF Prepare
    <2>3. CASE Settle(r)
        <3>1. pc[Main] = "settle" /\ Quiet(Main) /\ UNCHANGED lastSynced
            BY <1>4, <2>3 DEF Settle
        <3>2. pc'[Main] \in {"raised", "syncing"}
            BY <1>4, <2>1, <2>3 DEF Settle, Places
        <3> QED
            BY <1>1, <1>2, <1>4, <3>1, <3>2
    <2> QED
        BY <1>4, <2>2, <2>3 DEF RankStep, PopNone
<1> QED
    BY <1>3, <1>4

\* A publication leaves the futures, the background thread and the training alone.
LEMMA PublicationFacts ==
    ASSUME PhaseInv, Pause \/ Load \/ Resume \/ Retire
    PROVE  /\ UNCHANGED <<setup, micro, lastSynced, rollout, futures, wpc, marked, using, weights>>
           /\ pc[Main] \in {"pause", "load", "resume", "retire"}
           /\ pc'[Main] \in {"load", "resume", "retire", "barrier", "raised"}
<1>1. UNCHANGED <<setup, micro, lastSynced, rollout, futures, wpc, marked, using, weights>>
      /\ pc[Main] \in {"pause", "load", "resume", "retire"}
    BY DEF Pause, Load, Resume, Retire, workerVars, At
<1>2. PICK l \in {"load", "raised", "resume", "retire", "barrier"} : Goto(Main, l)
    BY DEF Pause, Load, Resume, AfterFinally, AfterResume, Retire
<1>3. pc'[Main] = l
    BY <1>2, GotoFacts, CrewFacts DEF PhaseInv, Places
<1> QED
    BY <1>1, <1>3

\* The oldest future answers.
LEMMA PopFacts ==
    ASSUME PhaseInv, DepthInv, Pop
    PROVE  /\ UNCHANGED <<setup, micro, lastSynced, error, wpc, marked, using, model, loaded,
                          published, weights, paused, escaped>>
           /\ pc[Main] = "produce" /\ Len(futures) = setup.depth
           /\ \/ /\ futures[1].state = "done" /\ 1 \in DOMAIN futures
                 /\ rollout' = futures[1].weights /\ futures' \in Seq(Job)
                 /\ Len(futures') =
                       IF setup.path = "legacy" \/ setup.alone THEN Len(futures) ELSE Len(futures) - 1
                 /\ \A i \in DOMAIN futures' : IF i + 1 \in DOMAIN futures
                                               THEN futures'[i] = futures[i + 1]
                                               ELSE futures'[i].state = "queued"
                 /\ \A i \in DOMAIN futures : i > 1 => i - 1 \in DOMAIN futures'
                 /\ pc'[Main] = IF setup.alone THEN "train" ELSE "broadcast"
              \/ pc'[Main] = "raised" /\ UNCHANGED <<rollout, futures>>
<1>1. UNCHANGED <<setup, micro, lastSynced, error, wpc, marked, using, model, loaded,
                  published, weights, paused, escaped>>
      /\ pc[Main] = "produce" /\ Initialized
    BY DEF Pop, workerVars, serverVars, At
<1>2. setup.depth \in Nat /\ setup.depth > 0 /\ setup.path \in {"producer", "legacy"}
    BY SetupFacts DEF PhaseInv
<1>3. Len(futures) = setup.depth
    BY <1>1, <1>2, SMT DEF DepthInv, Initialized, At
<1>4. \A l \in Places : Goto(Main, l) => pc'[Main] = l
    BY GotoFacts, CrewFacts DEF PhaseInv
<1>5. CASE Goto(Main, "raised") /\ UNCHANGED <<rollout, futures>>
    BY <1>1, <1>3, <1>4, <1>5 DEF Places
<1>6. CASE /\ Head(futures).state = "done" /\ rollout' = Head(futures).weights
           /\ futures' = Tail(futures) \o
                Prefill(IF setup.path = "legacy" \/ setup.alone THEN 1 ELSE 0)
           /\ Goto(Main, IF setup.alone THEN "train" ELSE "broadcast")
    <2> DEFINE n == IF setup.path = "legacy" \/ setup.alone THEN 1 ELSE 0
    <2>1. n \in Nat /\ n = IF setup.path = "legacy" \/ setup.alone THEN 1 ELSE 0
        OBVIOUS
    <2> HIDE DEF n
    <2>2. futures \in Seq(Job) /\ Len(futures) > 0 /\ futures' = Tail(futures) \o Prefill(n)
        BY <1>2, <1>3, <1>6 DEF DepthInv, n
    <2>3. /\ Tail(futures) \in Seq(Job) /\ Len(Tail(futures)) = Len(futures) - 1
          /\ Head(futures) = futures[1] /\ 1 \in DOMAIN futures
          /\ \A i \in DOMAIN Tail(futures) :
                i + 1 \in DOMAIN futures /\ Tail(futures)[i] = futures[i + 1]
        BY <2>2, TailFacts
    <2>4. /\ futures' \in Seq(Job) /\ Len(futures') = Len(futures) - 1 + n
          /\ \A i \in DOMAIN futures' : IF i \in DOMAIN Tail(futures)
                THEN futures'[i] = Tail(futures)[i] ELSE futures'[i].state = "queued"
        <3> DEFINE more == Tail(futures) \o Prefill(n)
        <3>1. /\ more \in Seq(Job) /\ Len(more) = Len(Tail(futures)) + n
              /\ \A i \in DOMAIN more : IF i \in DOMAIN Tail(futures)
                    THEN more[i] = Tail(futures)[i] ELSE more[i].state = "queued"
            BY <2>1, <2>3, PrefillMore
        <3>2. futures' = more
            BY <2>2
        <3> HIDE DEF more
        <3> QED
            BY <2>3, <3>1, <3>2
    <2>5. /\ DOMAIN futures = 1 .. Len(futures) /\ DOMAIN Tail(futures) = 1 .. Len(futures) - 1
          /\ DOMAIN futures' = 1 .. Len(futures) - 1 + n /\ Len(futures) \in Nat
        BY <2>2, <2>3, <2>4, LenProperties
    <2>6. \A i \in DOMAIN futures' : i \in DOMAIN Tail(futures) <=> i + 1 \in DOMAIN futures
        BY <2>1, <2>5, SMT
    <2>7. \A i \in DOMAIN futures' : IF i + 1 \in DOMAIN futures
                THEN futures'[i] = futures[i + 1] ELSE futures'[i].state = "queued"
        BY <2>3, <2>4, <2>6
    <2>8. \A i \in DOMAIN futures : i > 1 => i - 1 \in DOMAIN futures'
        BY <2>1, <2>5, SMT
    <2>9. Len(futures') = IF setup.path = "legacy" \/ setup.alone THEN Len(futures)
                          ELSE Len(futures) - 1
        BY <2>1, <2>4, <2>5, SMT
    <2>10. pc'[Main] = IF setup.alone THEN "train" ELSE "broadcast"
        BY <1>4, <1>6 DEF Places
    <2> QED
        BY <1>1, <1>3, <1>6, <2>3, <2>4, <2>7, <2>8, <2>9, <2>10
<1> QED
    BY <1>5, <1>6 DEF Pop

\* The oldest queued future starts.
LEMMA TakeFacts ==
    ASSUME futures \in Seq(Job), Take
    PROVE  /\ UNCHANGED <<setup, pc, micro, lastSynced, rollout, error, using, model, loaded,
                          published, weights, paused, escaped>>
           /\ wpc = "idle" /\ ~LockTaken
           /\ wpc' \in {"check", "ask"} /\ marked' \in {marked, GlobalStep}
           /\ futures' \in Seq(Job) /\ Len(futures') = Len(futures)
           /\ DOMAIN futures' = DOMAIN futures
           /\ \E i \in DOMAIN futures :
                 /\ futures[i].state = "queued" /\ futures'[i].state = "running"
                 /\ \A j \in DOMAIN futures : j # i => futures'[j] = futures[j]
<1>1. /\ UNCHANGED <<setup, pc, micro, lastSynced, rollout, error, using, model, loaded,
                     published, weights, paused, escaped>>
      /\ wpc = "idle" /\ ~LockTaken
      /\ wpc' \in {"check", "ask"} /\ marked' \in {marked, GlobalStep}
    BY DEF Take, mainVars, serverVars
<1>2. PICK i \in DOMAIN futures :
         futures[i].state = "queued" /\ futures' = [futures EXCEPT ![i].state = "running"]
    BY DEF Take
<1> DEFINE job == [futures[i] EXCEPT !.state = "running"]
<1>3. futures[i] \in Job
    BY <1>2, LenProperties
<1>4. job \in Job /\ job.state = "running"
    BY <1>3 DEF Job
<1> HIDE DEF job
<1>5. futures' = [futures EXCEPT ![i] = job]
    BY <1>2 DEF job
<1> QED
    BY <1>1, <1>2, <1>4, <1>5, ReplaceFacts

\* The running future gets its result.
LEMMA FutureFacts ==
    ASSUME futures \in Seq(Job), RunningInv, wpc # "idle",
           NEW state \in {"done", "failed"}, NEW w \in 0 .. LastStep, FutureIs(state, w)
    PROVE  /\ futures' \in Seq(Job) /\ Len(futures') = Len(futures)
           /\ DOMAIN futures' = DOMAIN futures /\ wpc' = "idle"
           /\ \E i \in DOMAIN futures :
                 /\ futures[i].state = "running"
                 /\ futures'[i].state = state /\ futures'[i].weights = w
                 /\ \A j \in DOMAIN futures : j # i =>
                       futures'[j] = futures[j] /\ futures[j].state # "running"
<1>1. PICK i \in DOMAIN futures :
         /\ futures[i].state = "running"
         /\ \A j \in DOMAIN futures : futures[j].state = "running" => j = i
    BY DEF RunningInv
<1>2. Running = i
    BY <1>1 DEF Running
<1> DEFINE job == [state |-> state, weights |-> w]
<1>3. job \in Job /\ job.state = state /\ job.weights = w
    BY DEF Job
<1> HIDE DEF job
<1>4. futures' = [futures EXCEPT ![i] = job] /\ wpc' = "idle"
    BY <1>2 DEF FutureIs, job
<1> QED
    BY <1>1, <1>3, <1>4, ReplaceFacts

LEMMA DepthInit == Init => DepthInv
<1> SUFFICES ASSUME Init PROVE DepthInv
    OBVIOUS
<1>1. setup \in Setups /\ pc[Main] = "prepare" /\ micro = 0
    BY CrewFacts DEF Init
<1>2. setup.path \in {"producer", "legacy"} /\ setup.depth \in Nat
    BY <1>1, SetupFacts
<1>3. CASE setup.path = "legacy"
    <2>1. futures = Prefill(setup.depth)
        BY <1>3 DEF Init
    <2>2. futures \in Seq(Job) /\ Len(futures) = setup.depth
        BY <1>2, <2>1, PrefillFacts
    <2> QED
        BY <1>3, <2>2 DEF DepthInv
<1>4. CASE setup.path = "producer"
    <2>1. futures = <<>>
        BY <1>4 DEF Init
    <2> QED
        BY <1>1, <1>4, <2>1, EmptySeq DEF DepthInv, At
<1> QED
    BY <1>2, <1>3, <1>4

LEMMA DepthFrame ==
    ASSUME DepthInv, UNCHANGED setup, futures' \in Seq(Job), Len(futures') = Len(futures),
           (micro = 0 /\ pc[Main] # "train") <=> (micro' = 0 /\ pc'[Main] # "train"),
           pc[Main] = "broadcast" <=> pc'[Main] = "broadcast"
    PROVE  DepthInv'
  BY DEF DepthInv, At, Job

LEMMA DepthStep ==
    ASSUME PhaseInv, DepthInv, RunningInv, using \in 0 .. LastStep, Age \in 0 .. LastStep, [Next]_vars
    PROVE  DepthInv'
<1>0. futures \in Seq(Job)
    BY DEF DepthInv
<1>1. ASSUME NEW r \in Crew, RankStep(r) PROVE DepthInv'
    <2>1. UNCHANGED <<setup, futures, micro>>
        BY <1>1, RankFacts
    <2>2. pc'[Main] = pc[Main]
          \/ (pc[Main] \notin {"train", "broadcast"} /\ pc'[Main] \notin {"train", "broadcast"})
        BY <1>1, RankFacts
    <2> QED
        BY <1>0, <2>1, <2>2, DepthFrame
<1>2. CASE MainStep
    <2>1. ASSUME Pause \/ Load \/ Resume \/ Retire PROVE DepthInv'
        <3>1. UNCHANGED <<setup, futures, micro>>
              /\ pc[Main] \notin {"train", "broadcast"} /\ pc'[Main] \notin {"train", "broadcast"}
            BY <2>1, PublicationFacts
        <3> QED
            BY <1>0, <3>1, DepthFrame
    <2>2. CASE Pop
        <3>1. UNCHANGED <<setup, micro>> /\ pc[Main] = "produce" /\ Len(futures) = setup.depth
              /\ (setup.path = "legacy" \/ micro # 0)
            <4>1. setup.path = "legacy" \/ micro # 0
                BY <2>2 DEF Pop, Initialized
            <4> QED
                BY <2>2, <4>1, PopFacts
        <3>2. CASE pc'[Main] = "raised" /\ UNCHANGED futures
            BY <1>0, <3>1, <3>2, DepthFrame, SetupFacts DEF DepthInv, PhaseInv, At
        <3>3. CASE /\ futures' \in Seq(Job)
                   /\ Len(futures') = IF setup.path = "legacy" \/ setup.alone THEN Len(futures)
                                      ELSE Len(futures) - 1
                   /\ pc'[Main] = IF setup.alone THEN "train" ELSE "broadcast"
            BY <3>1, <3>3, SetupFacts DEF DepthInv, PhaseInv, At, Job
        <3> QED
            BY <2>2, <3>2, <3>3, PopFacts
    <2> QED
        BY <1>2, <2>1, <2>2 DEF MainStep
<1>3. CASE Collective
    <2>1. CASE Gather
        BY <1>0, <2>1, GatherFacts, DepthFrame DEF Gather
    <2>2. CASE Barrier
        BY <1>0, <2>2, BarrierFacts, DepthFrame DEF Barrier
    <2>3. CASE SyncWeights
        BY <1>0, <2>3, SyncFacts, DepthFrame DEF SyncWeights
    <2>4. CASE FirstRollout
        <3>1. UNCHANGED <<setup, micro>> /\ pc[Main] = "produce" /\ micro = 0
              /\ setup.path = "producer" /\ setup.depth \in Nat
            BY <2>4, CrewFacts, SetupFacts, SMT DEF FirstRollout, AllAt, Initialized, PhaseInv
        <3>2. CASE Everyone("train") /\ futures' = Prefill(setup.depth)
            <4>1. pc'[Main] = "train"
                BY <3>2, EveryoneFacts DEF PhaseInv, Places
            <4>2. futures' \in Seq(Job) /\ Len(futures') = setup.depth
                BY <3>1, <3>2, PrefillFacts
            <4> QED
                BY <3>1, <4>1, <4>2 DEF DepthInv, At, Job
        <3>3. CASE Goto(Main, "raised") /\ UNCHANGED futures
            <4>1. pc'[Main] = "raised"
                BY <3>3, GotoFacts, CrewFacts DEF PhaseInv, Places
            <4> QED
                BY <1>0, <3>1, <3>3, <4>1, DepthFrame
        <3> QED
            BY <2>4, <3>2, <3>3 DEF FirstRollout
    <2>5. CASE Broadcast
        <3>1. pc[Main] = "broadcast" /\ pc'[Main] = "train" /\ UNCHANGED <<setup, micro>>
            BY <2>5, CrewFacts, EveryoneFacts DEF Broadcast, AllAt, PhaseInv, Places
        <3> DEFINE n == IF setup.path = "producer" THEN 1 ELSE 0
        <3>2. n \in Nat /\ n = IF setup.path = "producer" THEN 1 ELSE 0
            OBVIOUS
        <3>3. futures' = futures \o Prefill(n)
            BY <2>5 DEF Broadcast
        <3> HIDE DEF n
        <3>4. futures' \in Seq(Job) /\ Len(futures') = Len(futures) + n
            BY <1>0, <3>2, <3>3, PrefillMore
        <3>5. setup.path \in {"producer", "legacy"} /\ setup.depth \in Nat
              /\ ~(setup.path = "producer" /\ micro = 0)
            BY <3>1, SetupFacts DEF PhaseInv
        <3>6. Len(futures) = IF setup.path = "producer" THEN setup.depth - 1 ELSE setup.depth
            BY <3>1, <3>5 DEF DepthInv, At
        <3>7. Len(futures') = setup.depth
            BY <3>2, <3>4, <3>5, <3>6, SMT
        <3> QED
            BY <3>1, <3>4, <3>7 DEF DepthInv, At, Job
    <2>6. CASE Train
        <3>1. pc[Main] = "train" /\ UNCHANGED <<setup, futures>>
            BY <2>6, CrewFacts DEF Train, AllAt
        <3>2. micro' # 0 /\ pc'[Main] # "broadcast"
            BY <2>6, TrainFacts, CrewFacts, SMT DEF PhaseInv
        <3> QED
            BY <1>0, <3>1, <3>2, DepthFrame
    <2> QED
        BY <1>3, <2>1, <2>2, <2>3, <2>4, <2>5, <2>6 DEF Collective
<1>4. CASE WorkerStep
    <2>1. UNCHANGED <<setup, pc, micro>>
        BY <1>4 DEF WorkerStep, Take, Check, SyncInBackground, Ask, Arrive, Admit, Generate, mainVars
    <2>2. futures' \in Seq(Job) /\ Len(futures') = Len(futures)
        <3>1. CASE Take
            BY <1>0, <3>1, TakeFacts
        <3>2. CASE Check \/ SyncInBackground \/ Ask \/ Admit
            BY <1>0, <3>2 DEF Check, SyncInBackground, Ask, Admit
        <3>3. CASE Arrive
            <4>1. wpc = "asked" /\ 0 \in 0 .. LastStep
                BY <3>3, Constants, SMT DEF Arrive
            <4> QED
                BY <1>0, <3>3, <4>1, FutureFacts DEF Arrive
        <3>4. CASE Generate
            <4>1. wpc = "generating" /\ 0 \in 0 .. LastStep
                BY <3>4, Constants, SMT DEF Generate
            <4> QED
                BY <1>0, <3>4, <4>1, FutureFacts DEF Generate
        <3> QED
            BY <1>4, <3>1, <3>2, <3>3, <3>4 DEF WorkerStep
    <2> QED
        BY <2>1, <2>2, DepthFrame
<1>5. CASE UNCHANGED vars
    BY <1>0, <1>5, DepthFrame DEF vars, mainVars
<1> QED
    BY <1>1, <1>2, <1>3, <1>4, <1>5 DEF Next

LEMMA RunningInit == Init => RunningInv
<1> SUFFICES ASSUME Init PROVE RunningInv
    OBVIOUS
<1>1. setup \in Setups /\ pc[Main] = "prepare" /\ wpc = "idle"
    BY CrewFacts DEF Init
<1>2. setup.path \in {"producer", "legacy"} /\ setup.depth \in Nat
    BY <1>1, SetupFacts
<1>3. \A i \in DOMAIN futures : futures[i].state # "running"
    <2>1. CASE setup.path = "legacy"
        BY <1>2, <2>1, PrefillFacts DEF Init
    <2>2. CASE setup.path = "producer"
        BY <2>2 DEF Init
    <2> QED
        BY <1>2, <2>1, <2>2
<1> QED
    BY <1>1, <1>3 DEF RunningInv, At

LEMMA RunningFrame ==
    ASSUME RunningInv, UNCHANGED <<setup, futures, wpc>>,
           pc'[Main] = pc[Main] \/ pc'[Main] # "syncing" \/ setup.sync # "stock"
    PROVE  RunningInv'
  BY DEF RunningInv, At, Finished

\* The thread goes on with the request it is busy with.
LEMMA RunningWorker ==
    ASSUME RunningInv, UNCHANGED <<setup, pc, futures>>, wpc # "idle",
           wpc' \in {"check", "syncing", "ask", "asked", "queued", "generating"}
    PROVE  RunningInv'
  BY DEF RunningInv, At

\* New futures are queued, and the others move one place.
LEMMA RunningMoves ==
    ASSUME RunningInv, UNCHANGED <<setup, wpc>>, pc'[Main] # "syncing",
           NEW d \in {0, 1}, d = 1 => futures[1].state # "running",
           DOMAIN futures \subseteq Nat \ {0}, DOMAIN futures' \subseteq Nat \ {0},
           \A i \in DOMAIN futures' : IF i + d \in DOMAIN futures THEN futures'[i] = futures[i + d]
                                      ELSE futures'[i].state = "queued",
           \A i \in DOMAIN futures : i > d => i - d \in DOMAIN futures'
    PROVE  RunningInv'
<1>1. wpc' \in {"idle", "check", "syncing", "ask", "asked", "queued", "generating"}
    BY DEF RunningInv
<1>2. ASSUME NEW i \in DOMAIN futures', futures'[i].state = "running"
      PROVE  i + d \in DOMAIN futures /\ futures[i + d].state = "running"
    BY <1>2
<1>3. ASSUME wpc' = "idle" PROVE \A i \in DOMAIN futures' : futures'[i].state # "running"
    BY <1>2, <1>3 DEF RunningInv
<1>4. ASSUME wpc' # "idle"
      PROVE  \E i \in DOMAIN futures' :
                /\ futures'[i].state = "running"
                /\ \A j \in DOMAIN futures' : futures'[j].state = "running" => j = i
    <2>1. PICK k \in DOMAIN futures :
             /\ futures[k].state = "running"
             /\ \A j \in DOMAIN futures : futures[j].state = "running" => j = k
        BY <1>4 DEF RunningInv
    <2>2. k > d /\ k \in Nat
        <3>1. k \in Nat /\ k # 0
            BY <2>1
        <3>2. d = 1 => k # 1
            BY <2>1
        <3> QED
            BY <3>1, <3>2, SMT
    <2>3. k - d \in DOMAIN futures' /\ (k - d) + d = k
        BY <2>2, SMT
    <2>4. futures'[k - d] = futures[k]
        BY <2>1, <2>3
    <2>5. ASSUME NEW j \in DOMAIN futures', futures'[j].state = "running" PROVE j = k - d
        <3>1. j + d = k
            BY <1>2, <2>1, <2>5
        <3>2. j \in Nat
            OBVIOUS
        <3> QED
            BY <3>1, <3>2, SMT
    <2> QED
        BY <2>1, <2>3, <2>4, <2>5
<1> QED
    BY <1>1, <1>3, <1>4 DEF RunningInv, At

LEMMA RunningStep ==
    ASSUME PhaseInv, DepthInv, RunningInv, using \in 0 .. LastStep, Age \in 0 .. LastStep, [Next]_vars
    PROVE  RunningInv'
<1>0. futures \in Seq(Job) /\ DOMAIN futures = 1 .. Len(futures) /\ Len(futures) \in Nat
    BY LenProperties DEF DepthInv
<1>1. ASSUME NEW r \in Crew, RankStep(r) PROVE RunningInv'
    <2>1. UNCHANGED <<setup, futures, wpc>>
        BY <1>1, RankFacts
    <2>2. CASE pc'[Main] = pc[Main] \/ pc'[Main] # "syncing" \/ setup.sync # "stock"
        BY <2>1, <2>2, RunningFrame
    <2>3. CASE Quiet(Main)
        <3>1. CASE setup.path = "producer"
            <4>1. wpc = "idle"
                BY <2>3, <3>1 DEF Quiet
            <4> QED
                BY <2>1, <3>1, <4>1 DEF RunningInv, At
        <3>2. CASE setup.path = "legacy"
            <4>1. \A i \in DOMAIN futures : Finished(futures[i])
                BY <2>3, <3>2 DEF Quiet, Finished
            <4>2. wpc = "idle"
                BY <4>1 DEF RunningInv, Finished
            <4> QED
                BY <2>1, <4>1, <4>2 DEF RunningInv, At, Finished
        <3> QED
            BY <3>1, <3>2, SetupFacts DEF PhaseInv
    <2> QED
        BY <1>1, <2>2, <2>3, RankFacts
<1>2. CASE MainStep
    <2>1. ASSUME Pause \/ Load \/ Resume \/ Retire PROVE RunningInv'
        BY <2>1, PublicationFacts, RunningFrame
    <2>2. CASE Pop
        <3>1. UNCHANGED <<setup, wpc>>
            BY <2>2, PopFacts
        <3>2. CASE pc'[Main] = "raised" /\ UNCHANGED futures
            BY <3>1, <3>2, RunningFrame
        <3>3. CASE /\ futures[1].state = "done" /\ futures' \in Seq(Job)
                   /\ \A i \in DOMAIN futures' : IF i + 1 \in DOMAIN futures
                                                 THEN futures'[i] = futures[i + 1]
                                                 ELSE futures'[i].state = "queued"
                   /\ \A i \in DOMAIN futures : i > 1 => i - 1 \in DOMAIN futures'
                   /\ pc'[Main] = IF setup.alone THEN "train" ELSE "broadcast"
            <4>1. DOMAIN futures' = 1 .. Len(futures') /\ Len(futures') \in Nat
                BY <3>3, LenProperties
            <4>2. DOMAIN futures' \subseteq Nat \ {0} /\ DOMAIN futures \subseteq Nat \ {0}
                BY <1>0, <4>1, SMT
            <4> QED
                BY <3>1, <3>3, <4>2, RunningMoves
        <3> QED
            BY <2>2, <3>2, <3>3, PopFacts
    <2> QED
        BY <1>2, <2>1, <2>2 DEF MainStep
<1>3. CASE Collective
    <2>1. CASE Gather
        BY <2>1, GatherFacts, RunningFrame DEF Gather, workerVars
    <2>2. CASE Barrier
        BY <2>2, BarrierFacts, RunningFrame DEF Barrier, workerVars
    <2>3. CASE SyncWeights
        BY <2>3, SyncFacts, RunningFrame DEF SyncWeights, workerVars
    <2>4. CASE FirstRollout
        <3>1. UNCHANGED <<setup, wpc>> /\ pc[Main] = "produce" /\ micro = 0
              /\ setup.path = "producer" /\ setup.depth \in Nat
            BY <2>4, CrewFacts, SetupFacts, SMT
               DEF FirstRollout, AllAt, Initialized, PhaseInv, workerVars
        <3>2. CASE Everyone("train") /\ futures' = Prefill(setup.depth)
            <4>1. pc'[Main] = "train"
                BY <3>2, EveryoneFacts DEF PhaseInv, Places
            <4>2. \A i \in DOMAIN futures' : futures'[i].state = "queued"
                BY <3>1, <3>2, PrefillFacts
            <4>3. wpc = "idle"
                <5>1. Len(futures) = 0
                    BY <3>1 DEF DepthInv, At
                <5>2. \A i \in DOMAIN futures : FALSE
                    BY <1>0, <5>1, SMT
                <5> QED
                    BY <5>2 DEF RunningInv
            <4> QED
                BY <3>1, <4>1, <4>2, <4>3 DEF RunningInv, At
        <3>3. CASE Goto(Main, "raised") /\ UNCHANGED futures
            <4>1. pc'[Main] = "raised"
                BY <3>3, GotoFacts, CrewFacts DEF PhaseInv, Places
            <4> QED
                BY <3>1, <3>3, <4>1, RunningFrame
        <3> QED
            BY <2>4, <3>2, <3>3 DEF FirstRollout
    <2>5. CASE Broadcast
        <3>1. pc'[Main] = "train" /\ UNCHANGED <<setup, wpc>>
            BY <2>5, EveryoneFacts DEF Broadcast, PhaseInv, Places, workerVars
        <3> DEFINE n == IF setup.path = "producer" THEN 1 ELSE 0
        <3>2. n \in Nat
            OBVIOUS
        <3>3. futures' = futures \o Prefill(n)
            BY <2>5 DEF Broadcast
        <3> HIDE DEF n
        <3>4. /\ futures' \in Seq(Job) /\ Len(futures') = Len(futures) + n
              /\ \A i \in DOMAIN futures' : IF i \in DOMAIN futures THEN futures'[i] = futures[i]
                                            ELSE futures'[i].state = "queued"
            BY <1>0, <3>2, <3>3, PrefillMore
        <3>5. DOMAIN futures' = 1 .. Len(futures) + n
            BY <3>4, LenProperties
        <3>6. /\ DOMAIN futures' \subseteq Nat \ {0} /\ DOMAIN futures \subseteq Nat \ {0}
              /\ \A i \in DOMAIN futures : i - 0 = i /\ i \in DOMAIN futures'
              /\ \A i \in DOMAIN futures' : i + 0 = i
            BY <1>0, <3>2, <3>5, SMT
        <3> QED
            BY <3>1, <3>4, <3>6, RunningMoves
    <2>6. CASE Train
        <3>1. UNCHANGED <<setup, futures, wpc>>
            BY <2>6 DEF Train, workerVars
        <3>2. pc'[Main] # "syncing"
            BY <2>6, TrainFacts, CrewFacts
        <3> QED
            BY <3>1, <3>2, RunningFrame
    <2> QED
        BY <1>3, <2>1, <2>2, <2>3, <2>4, <2>5, <2>6 DEF Collective
<1>4. CASE WorkerStep
    <2>1. CASE Take
        <3>1. UNCHANGED <<setup, pc>> /\ wpc = "idle" /\ ~LockTaken /\ wpc' \in {"check", "ask"}
              /\ DOMAIN futures' = DOMAIN futures
            BY <1>0, <2>1, TakeFacts
        <3>2. PICK i \in DOMAIN futures :
                 /\ futures[i].state = "queued" /\ futures'[i].state = "running"
                 /\ \A j \in DOMAIN futures : j # i => futures'[j] = futures[j]
            BY <1>0, <2>1, TakeFacts
        <3>3. ~(setup.sync = "stock" /\ At("syncing"))
            <4>1. CASE setup.path = "producer"
                BY <3>1, <4>1 DEF LockTaken
            <4>2. CASE setup.path = "legacy"
                BY <3>2, <4>2 DEF RunningInv, Finished
            <4> QED
                BY <4>1, <4>2, SetupFacts DEF PhaseInv
        <3> QED
            BY <3>1, <3>2, <3>3 DEF RunningInv, At
    <2>2. CASE Check \/ SyncInBackground \/ Ask \/ Admit
        <3>1. UNCHANGED <<setup, pc, futures>> /\ wpc # "idle"
              /\ wpc' \in {"check", "syncing", "ask", "asked", "queued", "generating"}
            BY <2>2 DEF Check, SyncInBackground, Ask, Admit, mainVars
        <3> QED
            BY <3>1, RunningWorker
    <2>3. ASSUME NEW state \in {"done", "failed"}, NEW w \in 0 .. LastStep,
                 FutureIs(state, w), UNCHANGED <<setup, pc>>, wpc # "idle"
          PROVE  RunningInv'
        <3>1. DOMAIN futures' = DOMAIN futures /\ wpc' = "idle"
            BY <1>0, <2>3, FutureFacts
        <3>2. PICK i \in DOMAIN futures :
                 /\ futures'[i].state = state
                 /\ \A j \in DOMAIN futures : j # i =>
                       futures'[j] = futures[j] /\ futures[j].state # "running"
            BY <1>0, <2>3, FutureFacts
        <3>3. ~(setup.sync = "stock" /\ At("syncing"))
            BY <2>3 DEF RunningInv
        <3> QED
            BY <2>3, <3>1, <3>2, <3>3 DEF RunningInv, At
    <2>4. CASE Arrive
        <3>1. wpc = "asked" /\ 0 \in 0 .. LastStep /\ UNCHANGED <<setup, pc>>
            BY <2>4, Constants, SMT DEF Arrive, mainVars
        <3> QED
            BY <2>3, <2>4, <3>1, RunningWorker DEF Arrive
    <2>5. CASE Generate
        <3>1. wpc = "generating" /\ 0 \in 0 .. LastStep /\ UNCHANGED <<setup, pc>>
            BY <2>5, Constants, SMT DEF Generate, mainVars
        <3> QED
            BY <2>3, <2>5, <3>1 DEF Generate
    <2> QED
        BY <1>4, <2>1, <2>2, <2>4, <2>5 DEF WorkerStep
<1>5. CASE UNCHANGED vars
    BY <1>5, RunningFrame DEF vars, mainVars, workerVars
<1> QED
    BY <1>1, <1>2, <1>3, <1>4, <1>5 DEF Next

-----------------------------------------------------------------------------
(* The server and what was sent to it.                                     *)

\* Adapters are published at later and later steps, so there are no more than steps.
LEMMA ServerFacts ==
    ASSUME PhaseInv, ServerInv
    PROVE  /\ GlobalStep \in 0 .. LastStep /\ LastStep \in Nat
           /\ model \in Nat /\ model <= GlobalStep /\ DOMAIN published = 1 .. model
           /\ \A i \in 1 .. model : published[i] \in 1 .. LastStep /\ published[i] <= GlobalStep
           /\ Age \in 0 .. LastStep /\ Current \in 0 .. GlobalStep
<1>1. GlobalStep \in 0 .. LastStep /\ LastStep \in Nat
    BY StepInRange, Constants DEF PhaseInv
<1>2. model \in Nat /\ DOMAIN published = 1 .. model
    BY LenProperties DEF ServerInv
<1>3. \A i \in 1 .. model : /\ published[i] \in 1 .. LastStep
                            /\ published[i] <= GlobalStep /\ published[i] >= i
    BY <1>2, LenProperties DEF ServerInv
<1>4. model <= GlobalStep
    <2>1. CASE model = 0
        BY <1>1, <2>1, SMT
    <2>2. CASE model # 0
        <3>1. model \in 1 .. model
            BY <1>2, <2>2, SMT
        <3>2. published[model] \in 1 .. LastStep /\ published[model] >= model
              /\ published[model] <= GlobalStep
            BY <1>3, <3>1
        <3> QED
            BY <1>1, <1>2, <3>2, SMT
    <2> QED
        BY <2>1, <2>2
<1>5. Age \in 0 .. LastStep
    <2>1. CASE setup.sync = "lora" /\ using > 0
        <3>1. using \in 1 .. model
            BY <1>2, <2>1, SMT DEF ServerInv
        <3>2. published[using] \in 1 .. LastStep /\ Age = published[using]
            BY <1>3, <2>1, <3>1 DEF Age
        <3> QED
            BY <1>1, <3>2, SMT
    <2>2. CASE ~(setup.sync = "lora" /\ using > 0)
        BY <1>1, <2>2, SMT DEF Age, ServerInv
    <2> QED
        BY <2>1, <2>2
<1>6. Current \in 0 .. GlobalStep
    <2>1. CASE setup.sync = "lora" /\ model # 0
        <3>1. model \in 1 .. model
            BY <1>2, <2>1, SMT
        <3>2. published[model] \in 1 .. LastStep /\ published[model] <= GlobalStep
              /\ Current = published[model]
            BY <1>3, <2>1, <3>1 DEF Current
        <3> QED
            BY <1>1, <3>2, SMT
    <2>2. CASE ~(setup.sync = "lora" /\ model # 0)
        BY <1>1, <2>2, SMT DEF Current, ServerInv
    <2> QED
        BY <2>1, <2>2
<1> QED
    BY <1>1, <1>2, <1>3, <1>4, <1>5, <1>6

LEMMA ServerInit == Init => ServerInv /\ SyncedInv /\ NamesInv
<1> SUFFICES ASSUME Init PROVE ServerInv /\ SyncedInv /\ NamesInv
    OBVIOUS
<1>1. /\ published = <<>> /\ model = 0 /\ loaded = {} /\ weights = 0 /\ marked = 0 /\ using = 0
      /\ lastSynced = [r \in Ranks |-> -1] /\ wpc = "idle" /\ pc[Main] = "prepare" /\ micro = 0
      /\ setup \in Setups
    BY CrewFacts DEF Init
<1>2. GlobalStep \in 0 .. LastStep /\ LastStep \in Nat /\ LastStep > 0
    <2>1. micro \in 0 .. Total
        BY <1>1, Constants, SMT
    <2> QED
        BY <2>1, StepInRange, Constants, SMT
<1>3. published \in Seq(1 .. LastStep) /\ Len(published) = 0 /\ DOMAIN published = {}
    BY <1>1, EmptySeq
<1>4. ServerInv
    BY <1>1, <1>2, <1>3, SMT DEF ServerInv
<1>5. Current = 0
    BY <1>1 DEF Current
<1>6. lastSynced[Main] = -1 /\ lastSynced \in [Ranks -> -1 .. LastStep]
    BY <1>1, <1>2, CrewFacts, SMT
<1>7. SyncedInv
    BY <1>1, <1>3, <1>5, <1>6, SMT DEF SyncedInv
<1> QED
    BY <1>1, <1>4, <1>7 DEF NamesInv

LEMMA ServerFrame ==
    ASSUME ServerInv, UNCHANGED <<setup, published, model, loaded, weights, marked, using>>,
           GlobalStep <= GlobalStep', GlobalStep \in Nat, GlobalStep' \in Nat, LastStep \in Nat
    PROVE  ServerInv'
<1>1. \A i \in DOMAIN published : published[i] \in 1 .. LastStep
    BY LenProperties DEF ServerInv
<1>2. \A i \in DOMAIN published : published[i] <= GlobalStep'
    <2>1. ASSUME NEW i \in DOMAIN published PROVE published[i] <= GlobalStep'
        <3>1. published[i] \in 1 .. LastStep /\ published[i] <= GlobalStep
            BY <1>1, <2>1 DEF ServerInv
        <3> QED
            BY <3>1, SMT
    <2> QED
        BY <2>1
<1>3. weights \in 0 .. GlobalStep'
    BY SMT DEF ServerInv
<1> QED
    BY <1>2, <1>3 DEF ServerInv

LEMMA LoadFacts ==
    ASSUME PhaseInv, ServerInv, SyncedInv, Load
    PROVE  /\ UNCHANGED <<setup, micro, lastSynced, weights, marked, using>> /\ pc[Main] = "load"
           /\ pc'[Main] = "resume" /\ setup.sync = "lora"
           /\ \/ /\ published' \in Seq(1 .. LastStep) /\ Len(published') = model + 1
                 /\ model' = model + 1 /\ loaded' = loaded \cup {model + 1}
                 /\ \A i \in 1 .. model : published'[i] = published[i]
                 /\ published'[model + 1] = GlobalStep /\ GlobalStep >= model + 1
                 /\ UNCHANGED <<error, escaped>>
              \/ UNCHANGED <<published, model, loaded>> /\ (error' \/ escaped')
<1>1. UNCHANGED <<setup, micro, lastSynced, weights, marked, using>> /\ pc[Main] = "load"
    BY DEF Load, At, workerVars
<1>2. pc'[Main] = "resume" /\ setup.sync = "lora"
    BY <1>1, GotoFacts, CrewFacts DEF Load, PhaseInv, Places
<1>3. CASE UNCHANGED <<published, model, loaded>> /\ (error' \/ escaped')
    BY <1>1, <1>2, <1>3
<1>4. CASE /\ published' = Append(published, GlobalStep)
           /\ loaded' = loaded \cup {Len(published')} /\ model' = Len(published')
           /\ UNCHANGED <<error, escaped>>
    <2>1. /\ GlobalStep \in 0 .. LastStep /\ model \in Nat /\ model <= GlobalStep
          /\ LastStep \in Nat /\ DOMAIN published = 1 .. model
          /\ \A i \in 1 .. model : published[i] \in 1 .. LastStep /\ published[i] <= GlobalStep
        BY ServerFacts
    <2>2. GlobalStep >= 1 /\ lastSynced[Main] < GlobalStep /\ lastSynced[Main] \in -1 .. LastStep
        BY <1>1, CrewFacts DEF SyncedInv
    <2>3. GlobalStep >= model + 1
        <3>1. CASE model = 0
            BY <2>1, <2>2, <3>1, SMT
        <3>2. CASE model # 0
            <4>1. model \in 1 .. model
                BY <2>1, <3>2, SMT
            <4>2. published[model] >= model /\ published[model] <= lastSynced[Main]
                  /\ published[model] \in 1 .. LastStep
                BY <1>1, <2>1, <4>1 DEF ServerInv, SyncedInv
            <4> QED
                BY <2>1, <2>2, <4>2, SMT
        <3> QED
            BY <3>1, <3>2
    <2>4. GlobalStep \in 1 .. LastStep
        BY <2>1, <2>2, SMT
    <2>5. /\ published' \in Seq(1 .. LastStep) /\ Len(published') = model + 1
          /\ \A i \in 1 .. model : published'[i] = published[i]
          /\ published'[model + 1] = GlobalStep
        BY <1>4, <2>4, AppendProperties DEF ServerInv
    <2> QED
        BY <1>1, <1>2, <1>4, <2>3, <2>5
<1> QED
    BY <1>3, <1>4 DEF Load, Escape

LEMMA ServerLoad ==
    ASSUME PhaseInv, ServerInv, SyncedInv, Load
    PROVE  ServerInv' /\ SyncedInv'
<1>1. /\ GlobalStep \in 0 .. LastStep /\ LastStep \in Nat /\ model \in Nat
      /\ DOMAIN published = 1 .. model
      /\ \A i \in 1 .. model : published[i] \in 1 .. LastStep /\ published[i] <= GlobalStep
    BY ServerFacts
<1>2. GlobalStep' = GlobalStep
    BY LoadFacts DEF GlobalStep
<1>3. CASE UNCHANGED <<published, model, loaded>> /\ (error' \/ escaped')
    <2>1. ServerInv'
        BY <1>1, <1>2, <1>3, LoadFacts, ServerFrame
    <2>2. Current' = Current
        BY <1>3, LoadFacts DEF Current
    <2>3. SyncedInv'
        BY <1>3, <2>2, LoadFacts DEF SyncedInv
    <2> QED
        BY <2>1, <2>3
<1>4. CASE /\ published' \in Seq(1 .. LastStep) /\ Len(published') = model + 1
           /\ model' = model + 1 /\ loaded' = loaded \cup {model + 1}
           /\ \A i \in 1 .. model : published'[i] = published[i]
           /\ published'[model + 1] = GlobalStep /\ GlobalStep >= model + 1
    <2>1. DOMAIN published' = 1 .. model + 1
        BY <1>4, LenProperties
    <2>2. ASSUME NEW i \in 1 .. model + 1
          PROVE  published'[i] >= i /\ published'[i] <= GlobalStep
        <3>1. CASE i = model + 1
            BY <1>1, <1>4, <3>1, SMT
        <3>2. CASE i # model + 1
            <4>1. i \in 1 .. model
                BY <1>1, <3>2, SMT
            <4> QED
                BY <1>1, <1>4, <4>1 DEF ServerInv
        <3> QED
            BY <3>1, <3>2
    <2>3. loaded' \subseteq 1 .. model + 1
        <3>1. 1 .. model \subseteq 1 .. model + 1 /\ model + 1 \in 1 .. model + 1
            BY <1>1, SMT
        <3> QED
            BY <1>4, <3>1 DEF ServerInv
    <2>4. ASSUME NEW v \in 1 .. model + 1, v >= (model + 1) - 1 PROVE v \in loaded'
        <3>1. v = model + 1 \/ (v \in 1 .. model /\ v >= model - 1)
            BY <1>1, <2>4, SMT
        <3> QED
            BY <1>4, <3>1 DEF ServerInv
    <2>5. setup'.sync = "lora" => using' <= model'
        <3>1. using \in 0 .. LastStep /\ using <= model /\ using' = using
            BY LoadFacts DEF ServerInv
        <3> QED
            BY <1>1, <1>4, <3>1, SMT
    <2>6. ServerInv'
        BY <1>2, <1>4, <2>1, <2>2, <2>3, <2>4, <2>5, LoadFacts DEF ServerInv
    <2>7. Current' = GlobalStep
        <3>1. model + 1 # 0
            BY <1>1, SMT
        <3> QED
            BY <1>4, <3>1, LoadFacts DEF Current
    <2>8. lastSynced[Main] <= GlobalStep
        BY <1>1, LoadFacts, CrewFacts, SMT DEF SyncedInv
    <2>9. SyncedInv'
        BY <1>2, <2>7, <2>8, LoadFacts DEF SyncedInv
    <2> QED
        BY <2>6, <2>9
<1> QED
    BY <1>3, <1>4, LoadFacts

\* The step only moves in Train.
LEMMA StepUnchanged ==
    ASSUME UNCHANGED micro
    PROVE  GlobalStep' = GlobalStep
  BY DEF GlobalStep

LEMMA TrainStep ==
    ASSUME PhaseInv, Train
    PROVE  GlobalStep <= GlobalStep' /\ GlobalStep \in Nat /\ GlobalStep' \in Nat
<1>1. micro' \in 0 .. Total /\ micro \in 0 .. Total /\ micro <= micro'
    BY TrainFacts, Constants, SMT DEF PhaseInv
<1>2. GlobalStep <= GlobalStep'
    BY <1>1, StepIsMonotone
<1>3. micro \in Nat /\ micro' \in Nat
    BY <1>1, Constants, SMT
<1> QED
    BY <1>2, <1>3, Constants, Division DEF GlobalStep

LEMMA ServerStep ==
    ASSUME PhaseInv, ErrorInv, DepthInv, ServerInv, SyncedInv, [Next]_vars
    PROVE  ServerInv'
<1>0. /\ GlobalStep \in 0 .. LastStep /\ LastStep \in Nat /\ model \in Nat /\ model <= GlobalStep
      /\ DOMAIN published = 1 .. model /\ GlobalStep \in Nat
    BY ServerFacts, SMT
<1>1. ASSUME UNCHANGED <<setup, micro, published, model, loaded, weights, marked, using>>
      PROVE  ServerInv'
    <2>1. GlobalStep' = GlobalStep
        BY <1>1, StepUnchanged
    <2>2. GlobalStep <= GlobalStep' /\ GlobalStep' \in Nat
        BY <1>0, <2>1, SMT
    <2> QED
        BY <1>0, <1>1, <2>2, ServerFrame
<1>2. ASSUME NEW r \in Crew, RankStep(r) PROVE ServerInv'
    BY <1>1, <1>2, RankFacts
<1>3. CASE MainStep
    <2>1. CASE Pause \/ Resume
        BY <1>1, <2>1 DEF Pause, Resume, workerVars
    <2>2. CASE Load
        BY <2>2, ServerLoad
    <2>3. CASE Retire
        <3>1. UNCHANGED <<setup, micro, published, model, weights, marked, using>>
              /\ loaded' \in {loaded, loaded \ {Retired(model)}} /\ GlobalStep' = GlobalStep
            BY <2>3, StepUnchanged DEF Retire, workerVars
        <3>2. \A v \in 1 .. model : v >= model - 1 => v # Retired(model)
            BY <1>0, SMT DEF Retired
        <3> QED
            BY <3>1, <3>2 DEF ServerInv
    <2>4. CASE Pop
        BY <1>1, <2>4, PopFacts
    <2> QED
        BY <1>3, <2>1, <2>2, <2>3, <2>4 DEF MainStep
<1>4. CASE Collective
    <2>1. CASE Gather \/ Barrier \/ FirstRollout \/ Broadcast
        BY <1>1, <2>1 DEF Gather, Barrier, FirstRollout, Broadcast, workerVars, serverVars
    <2>2. CASE SyncWeights
        <3>1. UNCHANGED <<setup, micro, published, model, loaded, marked, using>>
              /\ weights' = GlobalStep /\ GlobalStep' = GlobalStep
            BY <2>2, StepUnchanged DEF SyncWeights, workerVars
        <3>2. weights' \in 0 .. GlobalStep
            BY <1>0, <3>1, SMT
        <3> QED
            BY <3>1, <3>2 DEF ServerInv
    <2>3. CASE Train
        <3>1. UNCHANGED <<setup, published, model, loaded, weights, marked, using>>
            BY <2>3 DEF Train, workerVars, serverVars
        <3> QED
            BY <1>0, <2>3, <3>1, TrainStep, ServerFrame
    <2> QED
        BY <1>4, <2>1, <2>2, <2>3 DEF Collective
<1>5. CASE WorkerStep
    <2>1. CASE Take
        <3>1. UNCHANGED <<setup, micro, published, model, loaded, weights, using>>
              /\ marked' \in {marked, GlobalStep} /\ GlobalStep' = GlobalStep
            BY <2>1, TakeFacts, StepUnchanged DEF DepthInv
        <3> QED
            BY <1>0, <3>1 DEF ServerInv
    <2>2. CASE Check \/ Arrive \/ Generate
        BY <1>1, <2>2 DEF Check, Arrive, Generate, mainVars, serverVars
    <2>3. CASE SyncInBackground
        <3>1. UNCHANGED <<setup, micro, published, model, loaded, marked, using>>
              /\ weights' = GlobalStep /\ GlobalStep' = GlobalStep
            BY <2>3, StepUnchanged DEF SyncInBackground, mainVars
        <3>2. weights' \in 0 .. GlobalStep
            BY <1>0, <3>1, SMT
        <3> QED
            BY <3>1, <3>2 DEF ServerInv
    <2>4. CASE Ask
        <3>1. UNCHANGED <<setup, micro, published, model, loaded, weights, marked>>
              /\ using' = model /\ GlobalStep' = GlobalStep
            BY <2>4, StepUnchanged DEF Ask, mainVars, serverVars
        <3>2. using' \in 0 .. LastStep /\ using' <= model
            BY <1>0, <3>1, SMT
        <3> QED
            BY <3>1, <3>2 DEF ServerInv
    <2>5. CASE Admit
        <3>1. UNCHANGED <<setup, micro, published, model, loaded, weights, marked>>
              /\ using' = (IF setup.sync = "lora" THEN using ELSE weights) /\ GlobalStep' = GlobalStep
            BY <2>5, StepUnchanged DEF Admit, mainVars, serverVars
        <3>2. weights \in 0 .. LastStep
            BY <1>0, SMT DEF ServerInv
        <3> QED
            BY <3>1, <3>2 DEF ServerInv
    <2> QED
        BY <1>5, <2>1, <2>2, <2>3, <2>4, <2>5 DEF WorkerStep
<1>6. CASE UNCHANGED vars
    BY <1>1, <1>6 DEF vars, mainVars, serverVars, workerVars
<1> QED
    BY <1>2, <1>3, <1>4, <1>5, <1>6 DEF Next

\* Steps that neither send weights nor change what the main rank believes
LEMMA SyncedFrame ==
    ASSUME SyncedInv, UNCHANGED <<setup, lastSynced, published>>,
           Current <= Current', GlobalStep' = GlobalStep, Current \in Nat, Current' \in Nat,
           pc'[Main] \in {"gather", "pause", "load"} =>
              GlobalStep >= 1 /\ lastSynced[Main] < GlobalStep,
           pc[Main] \in {"resume", "retire", "barrier", "raised"} =>
              pc'[Main] \in {"resume", "retire", "barrier", "raised"},
           pc'[Main] \in {"resume", "retire", "barrier"} /\ ~error' /\ ~escaped' =>
              Current' = GlobalStep
    PROVE  SyncedInv'
<1>1. lastSynced[Main] \in Int
    BY CrewFacts, Constants, SMT DEF SyncedInv
<1>2. lastSynced[Main] <= Current'
    BY <1>1, SMT DEF SyncedInv
<1> QED
    BY <1>2 DEF SyncedInv

\* The main rank has synced, or nothing was trained yet.
LEMMA SyncedNow ==
    ASSUME PhaseInv, ServerInv, SyncedInv, UNCHANGED <<setup, published, micro>>,
           lastSynced' \in [Ranks -> -1 .. LastStep], lastSynced'[Main] = GlobalStep,
           GlobalStep <= Current', pc'[Main] = "produce"
    PROVE  SyncedInv'
<1>1. \A i \in DOMAIN published : published[i] <= GlobalStep
    BY DEF ServerInv
<1> QED
    BY <1>1, StepUnchanged DEF SyncedInv

LEMMA SyncedStep ==
    ASSUME PhaseInv, ErrorInv, DepthInv, ServerInv, SyncedInv, [Next]_vars
    PROVE  SyncedInv'
<1>0. /\ GlobalStep \in 0 .. LastStep /\ LastStep \in Nat /\ Current \in 0 .. GlobalStep
      /\ GlobalStep \in Nat /\ Current \in Nat /\ Current <= Current
      /\ lastSynced \in [Ranks -> -1 .. LastStep] /\ GlobalStep \in -1 .. LastStep
    BY ServerFacts, SMT DEF SyncedInv
<1>1. ASSUME UNCHANGED <<setup, model, published, weights>> PROVE Current' = Current
    BY <1>1 DEF Current
<1>2. ASSUME NEW r \in Crew, RankStep(r) PROVE SyncedInv'
    <2>1. UNCHANGED <<setup, micro, error, escaped, model, published, weights>>
        BY <1>2, RankFacts
    <2>2. Current' = Current /\ GlobalStep' = GlobalStep
        BY <1>1, <2>1, StepUnchanged
    <2>3. CASE r # Main /\ pc'[Main] = pc[Main]
        <3>1. lastSynced' \in [Ranks -> -1 .. LastStep] /\ lastSynced'[Main] = lastSynced[Main]
            BY <1>0, <1>2, <2>3, RankFacts, CrewFacts
        <3> QED
            BY <2>1, <2>2, <2>3, <3>1 DEF SyncedInv
    <2>4. CASE /\ r = Main /\ pc[Main] = "prepare" /\ pc'[Main] = "produce"
               /\ ~SyncDue(Main) /\ UNCHANGED lastSynced
        BY <1>0, <2>1, <2>2, <2>4, SyncedFrame
    <2>5. CASE /\ r = Main /\ pc[Main] = "prepare" /\ pc'[Main] = "produce"
               /\ GlobalStep = 0 /\ lastSynced' = [lastSynced EXCEPT ![Main] = GlobalStep]
        <3>1. lastSynced' \in [Ranks -> -1 .. LastStep] /\ lastSynced'[Main] = GlobalStep
            BY <1>0, <2>5, CrewFacts
        <3>2. GlobalStep <= Current'
            BY <1>0, <2>2, <2>5, SMT
        <3> QED
            BY <2>1, <2>5, <3>1, <3>2, SyncedNow
    <2>6. CASE /\ r = Main /\ pc[Main] = "prepare" /\ UNCHANGED lastSynced
               /\ pc'[Main] \in {"gather", "syncing", "settle"}
               /\ GlobalStep # 0 /\ GlobalStep # lastSynced[Main]
        <3>1. lastSynced[Main] <= Current /\ lastSynced[Main] \in -1 .. LastStep
            BY CrewFacts DEF SyncedInv
        <3>2. GlobalStep >= 1 /\ lastSynced[Main] < GlobalStep
            BY <1>0, <2>6, <3>1, SMT
        <3> QED
            BY <1>0, <2>1, <2>2, <2>6, <3>2, SyncedFrame
    <2>7. CASE /\ r = Main /\ pc[Main] = "settle" /\ pc'[Main] \in {"raised", "syncing"}
               /\ UNCHANGED lastSynced
        BY <1>0, <2>1, <2>2, <2>7, SyncedFrame
    <2> QED
        BY <1>2, <2>3, <2>4, <2>5, <2>6, <2>7, RankFacts
<1>3. CASE MainStep
    <2>1. CASE Pause
        <3>1. UNCHANGED <<setup, micro, lastSynced, model, published, weights>> /\ pc[Main] = "pause"
              /\ pc'[Main] \in {"load", "raised"}
            BY <2>1, GotoFacts, CrewFacts DEF Pause, At, PhaseInv, Places
        <3>2. GlobalStep >= 1 /\ lastSynced[Main] < GlobalStep
            BY <3>1 DEF SyncedInv
        <3> QED
            BY <1>0, <1>1, <3>1, <3>2, StepUnchanged, SyncedFrame
    <2>2. CASE Load
        BY <2>2, ServerLoad
    <2>3. CASE Resume \/ Retire
        <3>1. UNCHANGED <<setup, micro, lastSynced, model, published, weights, error>>
              /\ pc[Main] \in {"resume", "retire"} /\ escaped' \in {escaped, TRUE}
            BY <2>3 DEF Resume, Retire, At, Escape
        <3>2. pc'[Main] \in {"retire", "barrier", "raised"}
            <4>1. PICK l \in {"retire", "barrier", "raised"} : Goto(Main, l)
                BY <2>3 DEF Resume, AfterFinally, AfterResume, Retire
            <4> QED
                BY <4>1, GotoFacts, CrewFacts DEF PhaseInv, Places
        <3>3. ~error' /\ ~escaped' => Current = GlobalStep
            <4>1. error' = error /\ (escaped' = escaped \/ escaped' = TRUE)
                BY <3>1
            <4>2. ~error /\ ~escaped => Current = GlobalStep
                BY <3>1, Zenon DEF SyncedInv
            <4>3. ASSUME ~error', ~escaped' PROVE Current = GlobalStep
                <5>1. ~error
                    BY <4>1, <4>3
                <5>2. ~escaped
                    BY <4>1, <4>3
                <5> QED
                    BY <4>2, <5>1, <5>2
            <4> QED
                BY <4>3
        <3> QED
            BY <1>0, <1>1, <3>1, <3>2, <3>3, StepUnchanged, SyncedFrame
    <2>4. CASE Pop
        <3>1. UNCHANGED <<setup, micro, lastSynced, model, published, weights>> /\ pc[Main] = "produce"
            BY <2>4, PopFacts
        <3>2. pc'[Main] \in {"train", "broadcast", "raised"}
            BY <2>4, PopFacts
        <3> QED
            BY <1>0, <1>1, <3>1, <3>2, StepUnchanged, SyncedFrame
    <2> QED
        BY <1>3, <2>1, <2>2, <2>3, <2>4 DEF MainStep
<1>4. CASE Collective
    <2>1. CASE Gather
        <3>1. UNCHANGED <<setup, micro, lastSynced, model, published, weights>>
              /\ pc[Main] = "gather" /\ pc'[Main] \in {"pause", "raised"}
            BY <2>1, GatherFacts DEF Gather, serverVars
        <3>2. GlobalStep >= 1 /\ lastSynced[Main] < GlobalStep
            BY <3>1 DEF SyncedInv
        <3> QED
            BY <1>0, <1>1, <3>1, <3>2, StepUnchanged, SyncedFrame
    <2>2. CASE Barrier
        <3>1. UNCHANGED <<setup, micro, error, escaped, model, published, weights>>
              /\ pc[Main] = "barrier" /\ pc'[Main] = (IF error THEN "raised" ELSE "produce") /\ ~escaped
            BY <2>2, BarrierFacts DEF Barrier, serverVars, ErrorInv
        <3>2. lastSynced' \in [Ranks -> -1 .. LastStep]
              /\ lastSynced'[Main] = IF error THEN lastSynced[Main] ELSE GlobalStep
            BY <1>0, <2>2, CrewFacts DEF Barrier
        <3>3. CASE error
            BY <1>0, <1>1, <3>1, <3>2, <3>3, StepUnchanged DEF SyncedInv
        <3>4. CASE ~error
            <4>1. Current' = GlobalStep
                BY <1>1, <3>1, <3>4 DEF SyncedInv
            <4>2. GlobalStep <= Current'
                BY <1>0, <4>1, SMT
            <4> QED
                BY <3>1, <3>2, <3>4, <4>2, SyncedNow
        <3> QED
            BY <3>3, <3>4
    <2>3. CASE SyncWeights
        <3>1. UNCHANGED <<setup, micro, published>> /\ pc[Main] = "syncing"
              /\ pc'[Main] = "produce" /\ weights' = GlobalStep
            BY <2>3, SyncFacts DEF SyncWeights
        <3>2. Current' = GlobalStep
            BY <3>1 DEF Current, PhaseInv
        <3>3. lastSynced' \in [Ranks -> -1 .. LastStep] /\ lastSynced'[Main] = GlobalStep
            BY <1>0, <2>3, CrewFacts DEF SyncWeights
        <3>4. GlobalStep <= Current'
            BY <1>0, <3>2, SMT
        <3> QED
            BY <3>1, <3>3, <3>4, SyncedNow
    <2>4. CASE FirstRollout \/ Broadcast
        <3>1. UNCHANGED <<setup, micro, lastSynced, model, published, weights>>
              /\ pc[Main] \in {"produce", "broadcast"}
            BY <2>4, CrewFacts DEF FirstRollout, Broadcast, AllAt, serverVars
        <3>2. pc'[Main] \in {"train", "raised"}
            BY <2>4, EveryoneFacts, GotoFacts, CrewFacts DEF FirstRollout, Broadcast, PhaseInv, Places
        <3> QED
            BY <1>0, <1>1, <3>1, <3>2, StepUnchanged, SyncedFrame
    <2>5. CASE Train
        <3>1. UNCHANGED <<setup, lastSynced, model, published, weights>> /\ pc[Main] = "train"
              /\ pc'[Main] \in {"prepare", "train", "done"}
            BY <2>5, TrainFacts, CrewFacts DEF Train, AllAt, serverVars
        <3>2. Current' = Current
            BY <1>1, <3>1
        <3> QED
            BY <3>1, <3>2 DEF SyncedInv
    <2> QED
        BY <1>4, <2>1, <2>2, <2>3, <2>4, <2>5 DEF Collective
<1>5. CASE WorkerStep
    <2>1. UNCHANGED <<setup, pc, micro, lastSynced, model, published, error, escaped>>
          /\ weights' \in {weights, GlobalStep}
        BY <1>5 DEF WorkerStep, Take, Check, SyncInBackground, Ask, Arrive, Admit, Generate,
                    mainVars, serverVars
    <2>2. Current' \in {Current, GlobalStep}
        BY <2>1 DEF Current
    <2>3. Current' \in Nat /\ Current <= Current'
        BY <1>0, <2>2, SMT
    <2>4. \/ pc[Main] \notin {"gather", "pause", "load"}
          \/ GlobalStep >= 1 /\ lastSynced[Main] < GlobalStep
        BY DEF SyncedInv
    <2>5. pc[Main] \in {"resume", "retire", "barrier"} /\ ~error /\ ~escaped => Current' = GlobalStep
        BY <2>2 DEF SyncedInv
    <2> QED
        BY <1>0, <2>1, <2>3, <2>4, <2>5, StepUnchanged, SyncedFrame
<1>6. CASE UNCHANGED vars
    BY <1>6, <1>1, StepUnchanged DEF vars, mainVars, serverVars, workerVars, SyncedInv
<1> QED
    BY <1>2, <1>3, <1>4, <1>5, <1>6 DEF Next

\* Steps that leave the request and the current adapter alone
LEMMA NamesFrame ==
    ASSUME NamesInv, UNCHANGED <<setup, model, wpc, using>>,
           pc'[Main] \in {"prepare", "gather", "pause", "load", "broadcast", "train"} =>
              pc[Main] \in {"prepare", "gather", "pause", "load", "broadcast", "train"}
    PROVE  NamesInv'
  BY DEF NamesInv

LEMMA NamesIdle ==
    ASSUME wpc' \notin {"asked", "queued", "generating"}
    PROVE  NamesInv'
  BY DEF NamesInv

\* With one future, the thread is idle while the main rank takes its result.
LEMMA LoneFuture ==
    ASSUME PhaseInv, DepthInv, RunningInv, setup.depth = 1, Len(futures) = 1,
           futures[1].state = "done"
    PROVE  wpc = "idle"
<1>1. DOMAIN futures = 1 .. 1
    BY LenProperties DEF DepthInv
<1>2. \A i \in DOMAIN futures : i = 1
    BY <1>1, SMT
<1>3. \A i \in DOMAIN futures : futures[i].state # "running"
    BY <1>2
<1> QED
    BY <1>3 DEF RunningInv

LEMMA NamesStep ==
    ASSUME PhaseInv, DepthInv, RunningInv, ServerInv, SyncedInv, NamesInv, [Next]_vars
    PROVE  NamesInv'
<1>1. ASSUME NEW r \in Crew, RankStep(r) PROVE NamesInv'
    <2>1. UNCHANGED <<setup, model, wpc, using>>
        BY <1>1, RankFacts
    <2>2. pc'[Main] \in {"prepare", "gather", "pause", "load", "broadcast", "train"} =>
              pc[Main] \in {"prepare", "gather", "pause", "load", "broadcast", "train"}
        BY <1>1, RankFacts
    <2> QED
        BY <2>1, <2>2, NamesFrame
<1>2. CASE MainStep
    <2>1. CASE Pause \/ Resume \/ Retire
        <3>1. UNCHANGED <<setup, model, wpc, using>>
            BY <2>1 DEF Pause, Resume, Retire, workerVars
        <3>2. \/ pc[Main] = "pause"
              \/ pc'[Main] \in {"retire", "barrier", "raised"}
            <4>1. CASE Pause
                BY <4>1 DEF Pause, At
            <4>2. CASE Resume \/ Retire
                <5>1. PICK l \in {"retire", "barrier", "raised"} : Goto(Main, l)
                    BY <4>2 DEF Resume, AfterFinally, AfterResume, Retire
                <5> QED
                    BY <5>1, GotoFacts, CrewFacts DEF PhaseInv, Places
            <4> QED
                BY <2>1, <4>1, <4>2
        <3> QED
            BY <3>1, <3>2, NamesFrame
    <2>2. CASE Load
        <3>1. UNCHANGED <<setup, wpc, using>> /\ pc[Main] = "load" /\ pc'[Main] = "resume"
              /\ model' \in {model, model + 1} /\ model \in Nat /\ using \in Nat
            <4>1. model \in Nat /\ using \in Nat
                BY ServerFacts, SMT DEF ServerInv
            <4> QED
                BY <2>2, <4>1, LoadFacts DEF Load, workerVars
        <3>2. ASSUME setup.sync = "lora", setup.depth = 1, wpc \in {"asked", "queued", "generating"}
              PROVE  using >= model' - 1
            <4>1. using = model
                BY <3>1, <3>2 DEF NamesInv
            <4>2. CASE model' = model
                BY <3>1, <4>1, <4>2, SMT
            <4>3. CASE model' = model + 1
                BY <3>1, <4>1, <4>3, SMT
            <4> QED
                BY <3>1, <4>2, <4>3
        <3> QED
            BY <3>1, <3>2 DEF NamesInv
    <2>3. CASE Pop
        <3>1. UNCHANGED <<setup, model, wpc, using>> /\ Len(futures) = setup.depth
            BY <2>3, PopFacts
        <3>2. CASE pc'[Main] = "raised"
            BY <3>1, <3>2, NamesFrame
        <3>3. CASE futures[1].state = "done"
            <4>1. CASE setup.depth = 1
                BY <3>1, <3>3, <4>1, LoneFuture, NamesIdle
            <4>2. CASE setup.depth # 1
                BY <3>1, <4>2 DEF NamesInv
            <4> QED
                BY <4>1, <4>2
        <3> QED
            BY <2>3, <3>2, <3>3, PopFacts
    <2> QED
        BY <1>2, <2>1, <2>2, <2>3 DEF MainStep
<1>3. CASE Collective
    <2>1. CASE Gather
        BY <2>1, GatherFacts, NamesFrame DEF Gather, workerVars, serverVars
    <2>2. CASE Barrier
        BY <2>2, BarrierFacts, NamesFrame DEF Barrier, workerVars, serverVars
    <2>3. CASE SyncWeights
        BY <2>3, SyncFacts, NamesFrame DEF SyncWeights, workerVars
    <2>4. CASE FirstRollout
        <3>1. UNCHANGED wpc /\ pc[Main] = "produce" /\ micro = 0 /\ setup.path = "producer"
            BY <2>4, CrewFacts, SetupFacts, SMT
               DEF FirstRollout, AllAt, Initialized, PhaseInv, workerVars
        <3>2. Len(futures) = 0 /\ DOMAIN futures = 1 .. Len(futures)
            BY <3>1, LenProperties DEF DepthInv, At
        <3>3. \A i \in DOMAIN futures : FALSE
            BY <3>2, SMT
        <3>4. wpc = "idle"
            BY <3>3 DEF RunningInv
        <3> QED
            BY <3>1, <3>4, NamesIdle
    <2>5. CASE Broadcast \/ Train
        <3>1. UNCHANGED <<setup, model, wpc, using>> /\ pc[Main] \in {"broadcast", "train"}
            BY <2>5, CrewFacts DEF Broadcast, Train, AllAt, workerVars, serverVars
        <3> QED
            BY <3>1, NamesFrame
    <2> QED
        BY <1>3, <2>1, <2>2, <2>3, <2>4, <2>5 DEF Collective
<1>4. CASE WorkerStep
    <2>1. UNCHANGED <<setup, pc, model>>
        BY <1>4 DEF WorkerStep, Take, Check, SyncInBackground, Ask, Arrive, Admit, Generate,
                    mainVars, serverVars
    <2>2. CASE Take \/ Check \/ SyncInBackground \/ Generate
        BY <2>2, NamesIdle DEF Take, Check, SyncInBackground, Generate, FutureIs
    <2>3. CASE Ask
        <3>1. using' = model /\ model \in Nat
            BY <2>3, ServerFacts DEF Ask
        <3>2. using' >= model - 1
            BY <3>1, SMT
        <3> QED
            BY <2>1, <3>1, <3>2 DEF NamesInv
    <2>4. CASE Arrive
        <3>1. using' = using /\ wpc = "asked"
            BY <2>4 DEF Arrive
        <3> QED
            BY <2>1, <3>1 DEF NamesInv
    <2>5. CASE Admit
        <3>1. wpc = "queued" /\ (setup.sync = "lora" => using' = using)
            BY <2>5 DEF Admit
        <3> QED
            BY <2>1, <3>1 DEF NamesInv
    <2> QED
        BY <1>4, <2>2, <2>3, <2>4, <2>5 DEF WorkerStep
<1>5. CASE UNCHANGED vars
    BY <1>5, NamesFrame DEF vars, mainVars, serverVars, workerVars
<1> QED
    BY <1>1, <1>2, <1>3, <1>4, <1>5 DEF Next

-----------------------------------------------------------------------------
(* The age of a rollout.                                                   *)

LEMMA CoversLater ==
    ASSUME setup \in Setups, micro \in 0 .. Total, NEW x \in Nat, NEW y \in Nat, x <= y,
           NEW n \in Int, Covers(x, n)
    PROVE  Covers(y, n)
<1>1. ASSUME NEW k \in 0 .. n, Due(k) % setup.interval = 0 PROVE y >= Due(k)
    <2>1. k \in Nat
        BY SMT
    <2>2. Due(k) \in Nat
        BY <2>1, DueFacts
    <2>3. x >= Due(k)
        BY <1>1 DEF Covers
    <2> QED
        BY <2>2, <2>3, SMT
<1> QED
    BY <1>1 DEF Covers

LEMMA CoversFewer ==
    ASSUME NEW x, NEW m \in Int, NEW n \in Int, m <= n, Covers(x, n)
    PROVE  Covers(x, m)
<1>1. \A k \in 0 .. m : k \in 0 .. n
    BY SMT
<1> QED
    BY <1>1 DEF Covers

\* Weights of the current step are as late as anything that was due so far.
LEMMA CoversNow ==
    ASSUME setup \in Setups, micro \in 0 .. Total, NEW x \in Nat, x >= GlobalStep
    PROVE  Covers(x, Number) /\ Covers(x, Number - 1)
<1>1. Number \in Nat /\ GlobalStep \in Nat
    BY DueFacts, StepInRange, Constants, SMT
<1>2. ASSUME NEW k \in 0 .. Number PROVE x >= Due(k)
    <2>1. Due(k) <= GlobalStep /\ Due(k) \in Nat
        <3>1. k \in Nat
            BY <1>1, SMT
        <3> QED
            BY <3>1, DueFacts
    <2> QED
        BY <1>1, <2>1, SMT
<1>3. Covers(x, Number)
    BY <1>2 DEF Covers
<1> QED
    BY <1>1, <1>3, CoversFewer, SMT

\* No sync is due for the next rollout.
LEMMA CoversNext ==
    ASSUME setup \in Setups, micro \in 0 .. Total, micro % setup.per = 0, NEW x,
           Covers(x, Number - 1), GlobalStep % setup.interval # 0
    PROVE  Covers(x, Number)
<1>1. Number \in Nat /\ Due(Number) = GlobalStep
    BY DueFacts
<1>2. \A k \in 0 .. Number : k = Number \/ k \in 0 .. Number - 1
    BY <1>1, SMT
<1> QED
    BY <1>1, <1>2 DEF Covers

\* A state predicate after a step that keeps the configuration
LEMMA CoversPrimed ==
    ASSUME UNCHANGED setup, Covers(Current', Sent')
    PROVE  Covers(Current, Sent)'
  BY DEF Covers, Due

\* Without a next rollout there is nothing to show.
LEMMA FreshOver ==
    ASSUME pc'[Main] \in {"raised", "done"}, rollout' \in -1 .. LastStep
    PROVE  FreshInv'
  BY DEF FreshInv, At

\* The main rank and the collectives: a future may be taken and queued ones added.
LEMMA FreshMoves ==
    ASSUME FreshInv, UNCHANGED <<setup, wpc, using>>, Age' = Age, NEW d \in {0, 1},
           pc[Main] \notin {"raised", "done"}, Base \in Int, Base' = Base + d,
           setup.depth \in Nat,
           Covers(Current', Sent'), rollout' \in -1 .. LastStep,
           pc'[Main] \in {"broadcast", "train"} =>
              rollout' >= 0 /\ Covers(rollout', Number' - setup.depth),
           DOMAIN futures \subseteq Nat, DOMAIN futures' \subseteq Nat,
           \A i \in DOMAIN futures' : IF i + d \in DOMAIN futures THEN futures'[i] = futures[i + d]
                                      ELSE futures'[i].state = "queued"
    PROVE  FreshInv'
<1>1. Covers(Current, Sent)'
    BY CoversPrimed
<1>2. ASSUME NEW i \in DOMAIN futures', futures'[i].state # "queued"
      PROVE  /\ i + d \in DOMAIN futures /\ futures'[i] = futures[i + d]
             /\ Base' + i - setup.depth = Base + (i + d) - setup.depth
    <2>1. i \in Nat
        OBVIOUS
    <2>2. (Base + d) + i - setup.depth = Base + (i + d) - setup.depth
        BY <2>1, SMT
    <2> QED
        BY <1>2, <2>2
<1>3. ASSUME NEW i \in DOMAIN futures', futures'[i].state = "done"
      PROVE  Covers(futures'[i].weights, Base' + i - setup.depth)
    <2>1. /\ i + d \in DOMAIN futures /\ futures'[i] = futures[i + d]
          /\ Base' + i - setup.depth = Base + (i + d) - setup.depth
        BY <1>2, <1>3
    <2>2. Covers(futures[i + d].weights, Base + (i + d) - setup.depth)
        BY <1>3, <2>1 DEF FreshInv, At
    <2> QED
        BY <2>1, <2>2
<1>4. ASSUME NEW i \in DOMAIN futures', futures'[i].state = "running", Chosen'
      PROVE  Covers(Age', Base' + i - setup.depth)
    <2>1. /\ i + d \in DOMAIN futures /\ futures'[i] = futures[i + d]
          /\ Base' + i - setup.depth = Base + (i + d) - setup.depth
        BY <1>2, <1>4
    <2>2. Chosen
        BY <1>4 DEF Chosen
    <2>3. Covers(Age, Base + (i + d) - setup.depth)
        BY <1>4, <2>1, <2>2 DEF FreshInv, At
    <2> QED
        BY <2>1, <2>3
<1>5. \A i \in DOMAIN futures' :
         /\ futures'[i].state = "done" => Covers(futures[i].weights, Base + i - setup.depth)'
         /\ futures'[i].state = "running" /\ Chosen' => Covers(Age, Base + i - setup.depth)'
    BY <1>3, <1>4 DEF Covers, Due
<1>6. pc'[Main] \in {"broadcast", "train"} => rollout' >= 0 /\ Covers(rollout, Number - setup.depth)'
    BY DEF Covers, Due
<1> QED
    BY <1>1, <1>5, <1>6 DEF FreshInv, At

LEMMA FreshSame ==
    ASSUME PhaseInv, DepthInv, FreshInv, UNCHANGED <<setup, futures, rollout, wpc, using>>,
           Age' = Age,
           pc'[Main] \notin {"raised", "done"} =>
              pc[Main] \notin {"raised", "done"} /\ Base' = Base /\ Covers(Current', Sent'),
           pc'[Main] \in {"broadcast", "train"} =>
              pc[Main] \in {"broadcast", "train"} /\ Number' = Number
    PROVE  FreshInv'
<1>1. rollout' \in -1 .. LastStep
    BY DEF FreshInv
<1>2. Number \in Nat /\ Base \in Int /\ setup.depth \in Nat
    <2>1. Number \in Nat /\ setup.depth \in Nat
        BY DueFacts, SetupFacts DEF PhaseInv
    <2> QED
        BY <2>1, SMT DEF Base
<1>3. DOMAIN futures = 1 .. Len(futures) /\ Len(futures) \in Nat
    BY LenProperties DEF DepthInv
<1>4. CASE pc'[Main] \in {"raised", "done"}
    BY <1>1, <1>4, FreshOver
<1>5. CASE pc'[Main] \notin {"raised", "done"}
    <2>1. DOMAIN futures \subseteq Nat /\ DOMAIN futures' \subseteq Nat
          /\ \A i \in DOMAIN futures' : i + 0 = i
        BY <1>3, SMT
    <2>2. Base' = Base + 0
        BY <1>2, <1>5, SMT
    <2>3. pc'[Main] \in {"broadcast", "train"} =>
             rollout' >= 0 /\ Covers(rollout', Number' - setup.depth)
        BY DEF FreshInv, At
    <2>4. \A i \in DOMAIN futures' : IF i + 0 \in DOMAIN futures THEN futures'[i] = futures[i + 0]
                                     ELSE futures'[i].state = "queued"
        BY <2>1
    <2> QED
        BY <1>1, <1>2, <1>5, <2>1, <2>2, <2>3, <2>4, FreshMoves
<1> QED
    BY <1>4, <1>5

LEMMA FreshRank ==
    ASSUME PhaseInv, DepthInv, ServerInv, SyncedInv, FreshInv, NEW r \in Crew, RankStep(r)
    PROVE  FreshInv'
<1>1. UNCHANGED <<setup, micro, rollout, futures, wpc, using, model, published, weights>>
    BY RankFacts
<1>2. Age' = Age /\ Current' = Current /\ Number' = Number
    BY <1>1 DEF Age, Current, Number
<1>3. setup \in Setups /\ micro \in 0 .. Total /\ Current \in Nat /\ GlobalStep \in Nat
    BY ServerFacts, SMT DEF PhaseInv
<1>4. CASE pc'[Main] = pc[Main]
    <2>1. Base' = Base /\ Sent' = Sent
        BY <1>2, <1>4 DEF Base, Sent, At
    <2>2. pc[Main] \notin {"raised", "done"} => Covers(Current', Sent')
        BY <1>2, <2>1 DEF FreshInv, At
    <2> QED
        BY <1>1, <1>2, <1>4, <2>1, <2>2, FreshSame
<1>5. CASE pc[Main] = "prepare" /\ pc'[Main] = "produce" /\ (~SyncDue(Main) \/ GlobalStep = 0)
    <2>1. Base' = Base /\ Sent' = Number
        BY <1>2, <1>5 DEF Base, Sent, At
    <2>2. Covers(Current, Number)
        <3>1. CASE GlobalStep = 0
            <4>1. Current >= GlobalStep
                BY <1>3, <3>1, SMT
            <4> QED
                BY <1>3, <4>1, CoversNow
        <3>2. CASE GlobalStep = lastSynced[Main]
            <4>1. Current >= GlobalStep
                BY <1>3, <3>2, SMT DEF SyncedInv
            <4> QED
                BY <1>3, <4>1, CoversNow
        <3>3. CASE GlobalStep % setup.interval # 0
            <4>1. Covers(Current, Number - 1) /\ micro % setup.per = 0
                BY <1>5 DEF FreshInv, Sent, At, PhaseInv
            <4> QED
                BY <1>3, <3>3, <4>1, CoversNext
        <3> QED
            BY <1>5, <3>1, <3>2, <3>3 DEF SyncDue
    <2> QED
        BY <1>1, <1>2, <1>5, <2>1, <2>2, FreshSame
<1>6. CASE /\ pc[Main] \in {"prepare", "settle"}
           /\ pc'[Main] \in {"gather", "syncing", "settle", "raised"}
    <2>1. Base' = Base /\ Sent' = Sent
        BY <1>2, <1>6 DEF Base, Sent, At
    <2>2. Covers(Current', Sent')
        BY <1>2, <1>6, <2>1 DEF FreshInv, At
    <2> QED
        BY <1>1, <1>2, <1>6, <2>1, <2>2, FreshSame
<1> QED
    BY <1>4, <1>5, <1>6, RankFacts

\* The weights sent are as late as the current step.
LEMMA FreshSent ==
    ASSUME PhaseInv, DepthInv, FreshInv, UNCHANGED <<setup, micro, futures, rollout, wpc, using>>,
           Age' = Age, Current' \in Nat, GlobalStep <= Current', GlobalStep \in Nat,
           pc[Main] \notin {"broadcast", "train", "raised", "done"},
           pc'[Main] \notin {"broadcast", "train"}
    PROVE  FreshInv'
<1>1. Number' = Number
    BY DEF Number
<1>2. Base' = Base /\ Sent' \in {Number, Number - 1}
    BY <1>1 DEF Base, Sent, At
<1>3. Covers(Current', Number) /\ Covers(Current', Number - 1)
    BY CoversNow, SMT DEF PhaseInv
<1> QED
    BY <1>2, <1>3, FreshSame

LEMMA FreshPublication ==
    ASSUME PhaseInv, ErrorInv, DepthInv, ServerInv, SyncedInv, FreshInv,
           Pause \/ Load \/ Resume \/ Retire
    PROVE  FreshInv'
<1>1. /\ UNCHANGED <<setup, micro, rollout, futures, wpc, using, weights>>
      /\ pc[Main] \in {"pause", "load", "resume", "retire"}
      /\ pc'[Main] \in {"load", "resume", "retire", "barrier", "raised"}
    BY PublicationFacts
<1>2. Number' = Number /\ Base' = Base /\ Sent' = Sent
    BY <1>1 DEF Number, Base, Sent, At
<1>3. Covers(Current, Sent)
    BY <1>1 DEF FreshInv, At
<1>4. CASE UNCHANGED <<published, model>>
    <2>1. Age' = Age /\ Current' = Current
        BY <1>1, <1>4 DEF Age, Current
    <2> QED
        BY <1>1, <1>2, <1>3, <2>1, FreshSame
<1>5. CASE Load /\ model' = model + 1 /\ published'[model + 1] = GlobalStep
           /\ \A i \in 1 .. model : published'[i] = published[i]
    <2>1. GlobalStep \in Nat /\ model \in Nat /\ setup.sync = "lora"
        BY <1>5, ServerFacts, LoadFacts, SMT
    <2>2. Current' = GlobalStep
        <3>1. model + 1 # 0
            BY <2>1, SMT
        <3> QED
            BY <1>1, <1>5, <2>1, <3>1 DEF Current
    <2>3. using > 0 => using \in 1 .. model
        BY <2>1, SMT DEF ServerInv
    <2>4. Age' = Age
        BY <1>1, <1>5, <2>3 DEF Age
    <2>5. Current' \in Nat /\ GlobalStep <= Current'
        BY <2>1, <2>2, SMT
    <2> QED
        BY <1>1, <2>1, <2>4, <2>5, FreshSent
<1>6. CASE Pause \/ Resume \/ Retire
    BY <1>4, <1>6 DEF Pause, Resume, Retire
<1> QED
    BY <1>4, <1>5, <1>6, LoadFacts

LEMMA FreshPop ==
    ASSUME PhaseInv, DepthInv, ServerInv, FreshInv, Pop
    PROVE  FreshInv'
<1>1. UNCHANGED <<setup, micro, wpc, using, model, published, weights>> /\ pc[Main] = "produce"
    BY PopFacts
<1>2. Age' = Age /\ Current' = Current /\ Number' = Number
    BY <1>1 DEF Age, Current, Number
<1>3. CASE pc'[Main] = "raised" /\ UNCHANGED rollout
    BY <1>3, FreshOver DEF FreshInv
<1>4. CASE /\ futures[1].state = "done" /\ 1 \in DOMAIN futures
           /\ rollout' = futures[1].weights /\ futures' \in Seq(Job)
           /\ \A i \in DOMAIN futures' : IF i + 1 \in DOMAIN futures
                                         THEN futures'[i] = futures[i + 1]
                                         ELSE futures'[i].state = "queued"
           /\ pc'[Main] = IF setup.alone THEN "train" ELSE "broadcast"
    <2>1. Number \in Nat /\ setup.depth \in Nat
        BY DueFacts, SetupFacts DEF PhaseInv
    <2>2. Base = Number - 1 /\ Base' = Number /\ Sent = Number /\ Sent' = Number
        BY <1>1, <1>2, <1>4 DEF Base, Sent, At
    <2>3. Base \in Int /\ Base' = Base + 1 /\ Base + 1 - setup.depth = Number - setup.depth
        BY <2>1, <2>2, SMT
    <2>4. Covers(Current', Sent')
        BY <1>1, <1>2, <2>2 DEF FreshInv, At
    <2>5. Covers(rollout', Number' - setup.depth)
        <3>1. Covers(futures[1].weights, Base + 1 - setup.depth)
            BY <1>1, <1>4 DEF FreshInv, At
        <3> QED
            BY <1>2, <1>4, <2>3, <3>1
    <2>6. rollout' \in 0 .. LastStep
        <3>1. futures[1] \in Job
            BY <1>4, LenProperties DEF DepthInv
        <3> QED
            BY <1>4, <3>1 DEF Job
    <2>7. rollout' >= 0 /\ rollout' \in -1 .. LastStep
        BY <2>6, Constants, SMT
    <2>8. /\ DOMAIN futures = 1 .. Len(futures) /\ Len(futures) \in Nat
          /\ DOMAIN futures' = 1 .. Len(futures') /\ Len(futures') \in Nat
        BY <1>4, LenProperties DEF DepthInv
    <2>9. DOMAIN futures \subseteq Nat /\ DOMAIN futures' \subseteq Nat
        BY <2>8, SMT
    <2> QED
        BY <1>1, <1>2, <1>4, <2>1, <2>3, <2>4, <2>5, <2>7, <2>9, FreshMoves
<1> QED
    BY <1>3, <1>4, PopFacts

LEMMA FreshCollective ==
    ASSUME PhaseInv, ErrorInv, DepthInv, ServerInv, SyncedInv, FreshInv, Collective
    PROVE  FreshInv'
<1>1. /\ setup \in Setups /\ Current \in Nat /\ GlobalStep \in Nat /\ Number \in Nat
      /\ setup.depth \in Nat /\ LastStep \in Nat /\ weights \in 0 .. LastStep
    <2>1. setup \in Setups /\ Number \in Nat /\ setup.depth \in Nat
        BY DueFacts, SetupFacts DEF PhaseInv
    <2>2. /\ GlobalStep \in 0 .. LastStep /\ LastStep \in Nat /\ Current \in 0 .. GlobalStep
          /\ weights \in 0 .. GlobalStep
        BY ServerFacts DEF ServerInv
    <2> QED
        BY <2>1, <2>2, SMT
<1>2. ASSUME UNCHANGED <<setup, using, published>> PROVE Age' = Age
    BY <1>2 DEF Age
<1>3. ASSUME UNCHANGED <<setup, model, published, weights>> PROVE Current' = Current
    BY <1>3 DEF Current
<1>4. CASE Gather
    <2>1. UNCHANGED <<setup, micro, futures, rollout, wpc, using, model, published, weights>>
          /\ pc[Main] = "gather" /\ pc'[Main] \in {"pause", "raised"}
        BY <1>4, GatherFacts DEF Gather, workerVars, serverVars
    <2>2. Number' = Number
        BY <2>1 DEF Number
    <2>3. Base' = Base /\ Sent' = Sent
        BY <2>1, <2>2 DEF Base, Sent, At
    <2>4. Covers(Current', Sent')
        BY <1>3, <2>1, <2>3 DEF FreshInv, At
    <2> QED
        BY <1>2, <2>1, <2>3, <2>4, FreshSame
<1>5. CASE Barrier
    <2>1. UNCHANGED <<setup, micro, futures, rollout, wpc, using, model, published, weights>>
          /\ pc[Main] = "barrier" /\ pc'[Main] = IF error THEN "raised" ELSE "produce"
        BY <1>5, BarrierFacts DEF Barrier, workerVars, serverVars
    <2>2. CASE error
        BY <2>1, <2>2, FreshOver DEF FreshInv
    <2>3. CASE ~error
        <3>1. Current = GlobalStep
            BY <2>1, <2>3 DEF ErrorInv, SyncedInv
        <3>2. Current' \in Nat /\ GlobalStep <= Current'
            BY <1>1, <1>3, <2>1, <3>1, SMT
        <3> QED
            BY <1>1, <1>2, <2>1, <2>3, <3>2, FreshSent
    <2> QED
        BY <2>2, <2>3
<1>6. CASE SyncWeights
    <2>1. UNCHANGED <<setup, micro, futures, rollout, wpc, using, published>>
          /\ pc[Main] = "syncing" /\ pc'[Main] = "produce" /\ weights' = GlobalStep
        BY <1>6, SyncFacts DEF SyncWeights, workerVars
    <2>2. Current' = GlobalStep
        BY <2>1 DEF Current, PhaseInv
    <2>3. Current' \in Nat /\ GlobalStep <= Current'
        BY <1>1, <2>2, SMT
    <2> QED
        BY <1>1, <1>2, <2>1, <2>3, FreshSent
<1>7. CASE FirstRollout
    <2>1. UNCHANGED <<setup, micro, wpc, using, model, published, weights>>
          /\ pc[Main] = "produce" /\ micro = 0 /\ micro \in Nat
        BY <1>1, <1>7, CrewFacts, Constants, SMT
           DEF FirstRollout, AllAt, Initialized, workerVars, serverVars, PhaseInv
    <2>2. CASE Goto(Main, "raised") /\ UNCHANGED <<rollout, futures>>
        <3>1. pc'[Main] = "raised"
            BY <2>2, GotoFacts, CrewFacts DEF PhaseInv, Places
        <3> QED
            BY <2>2, <3>1, FreshOver DEF FreshInv
    <2>3. CASE /\ Everyone("train") /\ rollout' = weights /\ futures' = Prefill(setup.depth)
        <3>1. pc'[Main] = "train"
            BY <2>3, EveryoneFacts DEF PhaseInv, Places
        <3>2. Number' = Number
            BY <2>1 DEF Number
        <3>3. Sent' = Number /\ Sent = Number
            BY <2>1, <3>1, <3>2 DEF Sent, At
        <3>4. Covers(Current, Sent)'
            BY <1>3, <2>1, <3>3, CoversPrimed DEF FreshInv, At
        <3>5. \A i \in DOMAIN futures' : futures'[i].state = "queued"
            BY <1>1, <2>3, PrefillFacts
        <3>6. Number = 0
            <4>1. setup.per \in Nat \ {0} /\ 0 = 0 * setup.per + 0 /\ 0 \in 0 .. setup.per - 1
                BY SetupFacts, SMT DEF PhaseInv
            <4> QED
                BY <2>1, <4>1, DivisionIsUnique DEF Number
        <3>7. Covers(rollout, Number - setup.depth)'
            <4>1. setup.depth \in Nat \ {0}
                BY SetupFacts DEF PhaseInv
            <4>2. \A k \in 0 .. Number' - setup'.depth : FALSE
                BY <2>1, <3>2, <3>6, <4>1, SMT
            <4> QED
                BY <4>2 DEF Covers
        <3>8. rollout' >= 0 /\ rollout' \in -1 .. LastStep
            BY <1>1, <2>3, SMT
        <3> QED
            BY <3>4, <3>5, <3>7, <3>8 DEF FreshInv
    <2> QED
        BY <1>7, <2>2, <2>3 DEF FirstRollout
<1>8. CASE Broadcast
    <2>1. UNCHANGED <<setup, micro, rollout, wpc, using, model, published, weights>>
          /\ pc[Main] = "broadcast" /\ pc'[Main] = "train"
        BY <1>8, CrewFacts, EveryoneFacts
           DEF Broadcast, AllAt, PhaseInv, Places, workerVars, serverVars
    <2> DEFINE n == IF setup.path = "producer" THEN 1 ELSE 0
    <2>2. n \in Nat /\ futures' = futures \o Prefill(n)
        BY <1>8 DEF Broadcast
    <2> HIDE DEF n
    <2>3. /\ futures \in Seq(Job) /\ futures' \in Seq(Job)
          /\ \A i \in DOMAIN futures' : IF i \in DOMAIN futures THEN futures'[i] = futures[i]
                                        ELSE futures'[i].state = "queued"
        BY <2>2, PrefillMore DEF DepthInv
    <2>4. /\ DOMAIN futures = 1 .. Len(futures) /\ Len(futures) \in Nat
          /\ DOMAIN futures' = 1 .. Len(futures') /\ Len(futures') \in Nat
        BY <2>3, LenProperties
    <2>5. DOMAIN futures \subseteq Nat /\ DOMAIN futures' \subseteq Nat
          /\ \A i \in DOMAIN futures' : i + 0 = i
        BY <2>4, SMT
    <2>6. Number' = Number
        BY <2>1 DEF Number
    <2>7. Base = Number /\ Base' = Number /\ Sent' = Number /\ Sent = Number
        BY <2>1, <2>6 DEF Base, Sent, At
    <2>8. Base \in Int /\ Base' = Base + 0
        BY <1>1, <2>7, SMT
    <2>9. Covers(Current', Sent') /\ rollout' \in -1 .. LastStep
          /\ rollout' >= 0 /\ Covers(rollout', Number' - setup.depth)
        BY <1>3, <2>1, <2>6, <2>7 DEF FreshInv, At
    <2>10. \A i \in DOMAIN futures' : IF i + 0 \in DOMAIN futures THEN futures'[i] = futures[i + 0]
                                      ELSE futures'[i].state = "queued"
        BY <2>3, <2>5
    <2> QED
        BY <1>1, <1>2, <2>1, <2>5, <2>8, <2>9, <2>10, FreshMoves
<1>9. CASE Train
    <2>1. UNCHANGED <<setup, futures, rollout, wpc, using, model, published, weights>>
          /\ pc[Main] = "train"
        BY <1>9, CrewFacts DEF Train, AllAt, workerVars, serverVars
    <2>2. micro \in Nat /\ setup.per \in Nat \ {0} /\ micro' = micro + 1
        BY <1>9, Constants, SetupFacts, TrainFacts, SMT DEF PhaseInv
    <2>3. Number' = IF micro' % setup.per = 0 THEN Number + 1 ELSE Number
        BY <2>1, <2>2, NextDivision DEF Number
    <2>4. Base = Number /\ Sent = Number
        BY <2>1 DEF Base, Sent, At
    <2>5. Covers(Current, Number)
        BY <2>1, <2>4 DEF FreshInv, At
    <2>6. CASE pc'[Main] = "done"
        BY <2>1, <2>6, FreshOver DEF FreshInv
    <2>7. CASE pc'[Main] = "prepare" /\ micro' % setup.per = 0
        <3>1. Base' = (Number + 1) - 1 /\ Sent' = (Number + 1) - 1
            BY <2>3, <2>7 DEF Base, Sent, At
        <3>2. (Number + 1) - 1 = Number
            BY <1>1, SMT
        <3> QED
            BY <1>2, <1>3, <2>1, <2>4, <2>5, <2>7, <3>1, <3>2, FreshSame
    <2>8. CASE pc'[Main] = "train" /\ micro' % setup.per # 0
        <3>1. Base' = Number /\ Sent' = Number /\ Number' = Number
            BY <2>3, <2>8 DEF Base, Sent, At
        <3> QED
            BY <1>2, <1>3, <2>1, <2>4, <2>5, <2>8, <3>1, FreshSame
    <2> QED
        BY <1>9, <2>6, <2>7, <2>8, TrainFacts, CrewFacts
<1> QED
    BY <1>4, <1>5, <1>6, <1>7, <1>8, <1>9 DEF Collective

\* Requests of a running future, and the results of the others, cover what they must.
LEMMA FreshBusy ==
    ASSUME PhaseInv, FreshInv, UNCHANGED <<setup, pc, micro, rollout>>,
           Current \in Nat, Current' \in Nat, Current <= Current',
           DOMAIN futures' = DOMAIN futures, NEW i \in DOMAIN futures,
           \A j \in DOMAIN futures : j # i =>
              futures'[j] = futures[j] /\ (Chosen' => futures[j].state # "running"),
           pc[Main] \notin {"raised", "done"} =>
              /\ futures'[i].state = "done" => Covers(futures'[i].weights, Base + i - setup.depth)
              /\ futures'[i].state = "running" /\ Chosen' => Covers(Age', Base + i - setup.depth)
    PROVE  FreshInv'
<1>1. Number' = Number /\ Base' = Base /\ Sent' = Sent
    BY DEF Number, Base, Sent, At
<1>2. Sent \in Int
    BY DueFacts, SMT DEF Sent, PhaseInv
<1>3. CASE pc[Main] \in {"raised", "done"}
    BY <1>1, <1>3 DEF FreshInv, At
<1>4. CASE pc[Main] \notin {"raised", "done"}
    <2>1. Covers(Current, Sent)
        BY <1>4 DEF FreshInv, At
    <2>2. Covers(Current', Sent')
        BY <1>1, <1>2, <2>1, CoversLater DEF PhaseInv
    <2>3. Covers(Current, Sent)'
        BY <2>2, CoversPrimed
    <2>4. ASSUME NEW j \in DOMAIN futures'
          PROVE  /\ futures'[j].state = "done" => Covers(futures'[j].weights, Base + j - setup.depth)
                 /\ futures'[j].state = "running" /\ Chosen' => Covers(Age', Base + j - setup.depth)
        <3>1. CASE j = i
            BY <1>4, <3>1
        <3>2. CASE j # i
            BY <1>4, <3>2 DEF FreshInv, At
        <3> QED
            BY <3>1, <3>2
    <2>5. \A j \in DOMAIN futures' :
             /\ futures'[j].state = "done" => Covers(futures[j].weights, Base + j - setup.depth)'
             /\ futures'[j].state = "running" /\ Chosen' => Covers(Age, Base + j - setup.depth)'
        BY <1>1, <2>4 DEF Covers, Due
    <2>6. pc'[Main] \in {"broadcast", "train"} =>
             rollout' >= 0 /\ Covers(rollout, Number - setup.depth)'
        BY <1>1 DEF FreshInv, At, Covers, Due
    <2>7. rollout' \in -1 .. LastStep
        BY DEF FreshInv
    <2> QED
        BY <2>3, <2>5, <2>6, <2>7 DEF FreshInv, At
<1> QED
    BY <1>3, <1>4

\* The server's weights cover what the future in place i of the deque must.
LEMMA CurrentSuffices ==
    ASSUME PhaseInv, DepthInv, FreshInv, pc[Main] \notin {"raised", "done"},
           NEW i \in DOMAIN futures
    PROVE  Covers(Current, Base + i - setup.depth)
<1>1. Number \in Nat /\ setup.depth \in Nat /\ setup.depth > 0
    BY DueFacts, SetupFacts DEF PhaseInv
<1>2. DOMAIN futures = 1 .. Len(futures) /\ Len(futures) \in Nat
    BY LenProperties DEF DepthInv
<1>3. Len(futures) <= setup.depth
    BY <1>1, SMT DEF DepthInv
<1>4. Base \in Int /\ Sent \in Int /\ Base <= Sent
    BY <1>1, SMT DEF Base, Sent
<1>5. Base + i - setup.depth \in Int /\ Base + i - setup.depth <= Sent
    BY <1>1, <1>2, <1>3, <1>4, SMT
<1>6. Covers(Current, Sent)
    BY DEF FreshInv, At
<1> QED
    BY <1>4, <1>5, <1>6, CoversFewer

LEMMA FreshWorker ==
    ASSUME PhaseInv, DepthInv, RunningInv, ServerInv, FreshInv, WorkerStep
    PROVE  FreshInv'
<1>1. UNCHANGED <<setup, pc, micro, rollout, model, published>>
    BY DEF WorkerStep, Take, Check, SyncInBackground, Ask, Arrive, Admit, Generate,
           mainVars, serverVars
<1>2. Current \in 0 .. GlobalStep /\ GlobalStep \in Nat /\ Age \in 0 .. LastStep /\ model \in Nat
    BY ServerFacts, SMT
<1>3. weights' \in {weights, GlobalStep}
    BY DEF WorkerStep, Take, Check, SyncInBackground, Ask, Arrive, Admit, Generate,
           mainVars, serverVars
<1>4. Current' \in {Current, GlobalStep}
    BY <1>1, <1>3 DEF Current
<1>5. Current \in Nat /\ Current' \in Nat /\ Current <= Current'
    BY <1>2, <1>4, SMT
<1>6. futures \in Seq(Job)
    BY DEF DepthInv
<1>7. ASSUME wpc # "idle", UNCHANGED futures,
             ~Chosen' \/ (Chosen /\ Age' = Age)
                      \/ (Age' = Current /\ pc[Main] \notin {"raised", "done"})
                      \/ pc[Main] \in {"raised", "done"}
      PROVE  FreshInv'
    <2>1. PICK i \in DOMAIN futures :
             /\ futures[i].state = "running"
             /\ \A j \in DOMAIN futures : futures[j].state = "running" => j = i
        BY <1>7 DEF RunningInv
    <2>2. ASSUME pc[Main] \notin {"raised", "done"}, Chosen'
          PROVE  Covers(Age', Base + i - setup.depth)
        <3>1. CASE Chosen /\ Age' = Age
            BY <2>1, <2>2, <3>1 DEF FreshInv, At
        <3>2. CASE Age' = Current
            BY <2>2, <3>2, CurrentSuffices
        <3> QED
            BY <1>7, <2>2, <3>1, <3>2
    <2> QED
        BY <1>1, <1>5, <1>7, <2>1, <2>2, FreshBusy
<1>8. CASE Take
    <2>1. PICK i \in DOMAIN futures :
             /\ futures[i].state = "queued" /\ futures'[i].state = "running"
             /\ \A j \in DOMAIN futures : j # i => futures'[j] = futures[j]
        BY <1>6, <1>8, TakeFacts
    <2>2. DOMAIN futures' = DOMAIN futures /\ ~Chosen'
        BY <1>6, <1>8, TakeFacts DEF Chosen
    <2> QED
        BY <1>1, <1>5, <2>1, <2>2, FreshBusy
<1>9. CASE Check \/ SyncInBackground
    <2>1. wpc # "idle" /\ UNCHANGED futures /\ ~Chosen'
        BY <1>9 DEF Check, SyncInBackground, Chosen
    <2> QED
        BY <1>7, <2>1
<1>10. CASE Ask
    <2>1. wpc = "ask" /\ wpc' = "asked" /\ UNCHANGED <<setup, futures, published>> /\ using' = model
        BY <1>10 DEF Ask, serverVars
    <2>2. CASE setup.sync = "lora"
        <3>1. Age' = Current
            <4>1. model > 0 <=> model # 0
                BY <1>2, SMT
            <4> QED
                BY <2>1, <2>2, <4>1 DEF Age, Current
        <3> QED
            BY <1>7, <2>1, <3>1
    <2>3. CASE setup.sync # "lora"
        <3>1. ~Chosen'
            BY <2>1, <2>3 DEF Chosen
        <3> QED
            BY <1>7, <2>1, <3>1
    <2> QED
        BY <2>2, <2>3
<1>11. CASE Admit
    <2>1. wpc = "queued" /\ wpc' = "generating" /\ UNCHANGED <<setup, futures, published>>
          /\ using' = IF setup.sync = "lora" THEN using ELSE weights
        BY <1>11 DEF Admit, serverVars
    <2>2. CASE setup.sync = "lora"
        <3>1. Age' = Age /\ Chosen
            BY <2>1, <2>2 DEF Age, Chosen
        <3> QED
            BY <1>7, <2>1, <3>1
    <2>3. CASE setup.sync # "lora"
        <3>1. Age' = Current
            BY <2>1, <2>3 DEF Age, Current
        <3> QED
            BY <1>7, <2>1, <3>1
    <2> QED
        BY <2>2, <2>3
<1>12. ASSUME NEW state \in {"done", "failed"}, NEW w \in 0 .. LastStep, FutureIs(state, w),
              wpc # "idle", state = "done" => w = Age /\ Chosen
       PROVE  FreshInv'
    <2>1. DOMAIN futures' = DOMAIN futures /\ wpc' = "idle"
        BY <1>6, <1>12, FutureFacts
    <2>2. PICK i \in DOMAIN futures :
             /\ futures[i].state = "running"
             /\ futures'[i].state = state /\ futures'[i].weights = w
             /\ \A j \in DOMAIN futures : j # i =>
                   futures'[j] = futures[j] /\ futures[j].state # "running"
        BY <1>6, <1>12, FutureFacts
    <2>3. ~Chosen'
        BY <2>1 DEF Chosen
    <2>4. ASSUME pc[Main] \notin {"raised", "done"}, futures'[i].state = "done"
          PROVE  Covers(futures'[i].weights, Base + i - setup.depth)
        <3>1. w = Age /\ Chosen
            BY <1>12, <2>2, <2>4
        <3> QED
            BY <2>2, <2>4, <3>1 DEF FreshInv, At
    <2> QED
        BY <1>1, <1>5, <2>1, <2>2, <2>3, <2>4, FreshBusy
<1>13. CASE Arrive
    <2>1. wpc = "asked" /\ 0 \in 0 .. LastStep /\ UNCHANGED using
        BY <1>13, Constants, SMT DEF Arrive
    <2>2. CASE wpc' = "queued" /\ UNCHANGED futures
        <3>1. Age' = Age /\ (Chosen' => Chosen)
            BY <1>1, <2>1, <2>2 DEF Age, Chosen
        <3> QED
            BY <1>7, <2>1, <2>2, <3>1
    <2>3. CASE FutureIs("failed", 0)
        BY <1>12, <2>1, <2>3
    <2> QED
        BY <1>13, <2>2, <2>3 DEF Arrive
<1>14. CASE Generate
    <2>1. wpc = "generating" /\ 0 \in 0 .. LastStep
        BY <1>14, Constants, SMT DEF Generate
    <2>2. Chosen
        BY <2>1 DEF Chosen
    <2> QED
        BY <1>2, <1>12, <1>14, <2>1, <2>2 DEF Generate
<1> QED
    BY <1>8, <1>9, <1>10, <1>11, <1>13, <1>14 DEF WorkerStep

LEMMA FreshInit == Init => FreshInv
<1> SUFFICES ASSUME Init PROVE FreshInv
    OBVIOUS
<1>1. setup \in Setups /\ micro = 0 /\ pc[Main] = "prepare" /\ rollout = -1
    BY CrewFacts DEF Init
<1>2. setup.per \in Nat \ {0} /\ setup.depth \in Nat /\ setup.path \in {"producer", "legacy"}
    BY <1>1, SetupFacts
<1>3. Number = 0
    <2>1. 0 = 0 * setup.per + 0 /\ 0 \in 0 .. setup.per - 1
        BY <1>2, SMT
    <2> QED
        BY <1>1, <1>2, <2>1, DivisionIsUnique DEF Number
<1>4. Covers(Current, Sent)
    <2>1. Sent = 0 - 1
        BY <1>1, <1>3 DEF Sent, At
    <2>2. \A k \in 0 .. Sent : FALSE
        BY <2>1, SMT
    <2> QED
        BY <2>2 DEF Covers
<1>5. \A i \in DOMAIN futures : futures[i].state = "queued"
    BY <1>2, PrefillFacts DEF Init
<1>6. rollout \in -1 .. LastStep
    BY <1>1, Constants, SMT
<1> QED
    BY <1>1, <1>4, <1>5, <1>6 DEF FreshInv, At

-----------------------------------------------------------------------------
(* The theorems.                                                           *)

\* The inductive invariant holds at the start and is kept by every step.
LEMMA Inductive == Spec => []IInv
<1>1. Init => IInv
    BY FlagsInit, PhaseInit, DepthInit, RunningInit, ServerInit, FreshInit DEF IInv
<1>2. IInv /\ [Next]_vars => IInv'
    <2> SUFFICES ASSUME IInv, [Next]_vars PROVE IInv'
        OBVIOUS
    <2>1. /\ FlagsInv /\ PhaseInv /\ ErrorInv /\ DepthInv /\ RunningInv /\ ServerInv /\ SyncedInv
          /\ NamesInv /\ FreshInv
        BY DEF IInv
    <2>2. using \in 0 .. LastStep /\ Age \in 0 .. LastStep
        BY <2>1, ServerFacts DEF ServerInv
    <2>3. FlagsInv' /\ PhaseInv' /\ ErrorInv'
        BY <2>1, FlagsStep, PhaseStep, ErrorStep
    <2>4. DepthInv' /\ RunningInv'
        BY <2>1, <2>2, DepthStep, RunningStep
    <2>5. ServerInv' /\ SyncedInv' /\ NamesInv'
        BY <2>1, ServerStep, SyncedStep, NamesStep
    <2>6. FreshInv'
        <3>1. ASSUME NEW r \in Crew, RankStep(r) PROVE FreshInv'
            BY <2>1, <3>1, FreshRank
        <3>2. CASE MainStep
            BY <2>1, <3>2, FreshPublication, FreshPop DEF MainStep
        <3>3. CASE Collective
            BY <2>1, <3>3, FreshCollective
        <3>4. CASE WorkerStep
            BY <2>1, <3>4, FreshWorker
        <3>5. CASE UNCHANGED vars
            <4>1. UNCHANGED <<setup, pc, micro, rollout, futures, wpc, using, model, published, weights>>
                BY <3>5 DEF vars, mainVars, workerVars, serverVars
            <4>2. /\ Current' = Current /\ Age' = Age /\ Number' = Number
                  /\ (Chosen' <=> Chosen)
                BY <4>1 DEF Current, Age, Number, Chosen
            <4>3. Base' = Base /\ Sent' = Sent
                BY <4>1, <4>2 DEF Base, Sent, At
            <4> QED
                BY <2>1, <4>1, <4>2, <4>3 DEF FreshInv, Covers, Due, At
        <3> QED
            BY <3>1, <3>2, <3>3, <3>4, <3>5 DEF Next
    <2> QED
        BY <2>3, <2>4, <2>5, <2>6 DEF IInv
<1> QED
    BY <1>1, <1>2, PTL DEF Spec

\* Every variable keeps its type: no more futures than prefetch_depth, no step after
\* max_steps, only published adapters loaded.
THEOREM TypeCorrect == Spec => []TypeOK
<1>1. IInv => TypeOK
    <2> SUFFICES ASSUME IInv PROVE TypeOK
        OBVIOUS
    <2>1. PhaseInv /\ ServerInv /\ DepthInv
        BY DEF IInv
    <2>2. setup \in Setups /\ micro \in 0 .. LastStep * Accumulation
        BY <2>1 DEF PhaseInv, Total
    <2>3. pc \in [Ranks -> {"prepare", "gather", "pause", "load", "resume", "retire", "barrier",
                            "settle", "syncing", "produce", "broadcast", "train", "done", "raised"}]
        BY <2>1 DEF PhaseInv, Places
    <2>4. lastSynced \in [Ranks -> -1 .. LastStep] /\ rollout \in -1 .. LastStep
        BY DEF IInv, SyncedInv, FreshInv
    <2>5. futures \in Seq([state : {"queued", "running", "done", "failed"}, weights : 0 .. LastStep])
        BY <2>1 DEF DepthInv, Job
    <2>6. Len(futures) <= setup.depth
        <3>1. setup.depth \in Nat /\ setup.depth > 0
            BY <2>2, SetupFacts
        <3> QED
            BY <2>1, <3>1, SMT DEF DepthInv
    <2>7. wpc \in {"idle", "check", "syncing", "ask", "asked", "queued", "generating"}
        BY DEF IInv, RunningInv
    <2>8. /\ GlobalStep \in 0 .. LastStep /\ LastStep \in Nat /\ model \in Nat
          /\ model = Len(published) /\ weights \in 0 .. GlobalStep
        BY <2>1, ServerFacts DEF ServerInv
    <2>9. model \in 0 .. Len(published) /\ weights \in 0 .. LastStep
        BY <2>8, SMT
    <2>10. marked \in 0 .. LastStep /\ using \in 0 .. LastStep /\ published \in Seq(1 .. LastStep)
           /\ loaded \subseteq 1 .. Len(published)
        BY <2>1 DEF ServerInv
    <2>11. {error, paused, escaped} \subseteq BOOLEAN /\ faults \in 0 .. MaxFaults
           /\ resume \in {"none", "due", "rejected"}
        BY DEF IInv, FlagsInv
    <2> QED
        BY <2>2, <2>3, <2>4, <2>5, <2>6, <2>7, <2>9, <2>10, <2>11 DEF TypeOK
<1> QED
    BY <1>1, Inductive, PTL

\* sync_weights merges the adapter in place only while the background thread of the same
\* process is idle: under the lock of the producer, or after the legacy queue was waited for.
THEOREM MergeExcludesGeneration == Spec => []SyncExcludesGeneration
<1>1. IInv => SyncExcludesGeneration
    BY DEF IInv, RunningInv, SyncExcludesGeneration
<1> QED
    BY <1>1, Inductive, PTL

\* A rank that waits in the barrier is left alone only by an exception that is no
\* RuntimeError (the adapter cannot be saved, a request gets no answer): a rejected adapter
\* is raised after the barrier.
THEOREM BarrierMet == Spec => []BarrierIsMet
<1>1. IInv => BarrierIsMet
    BY DEF IInv, ErrorInv, BarrierIsMet, At
<1> QED
    BY <1>1, Inductive, PTL

\* With a prefetch depth of one, the adapter named in a request stays loaded until it is
\* served, although the server may refuse to be paused.
THEOREM NamesStayLoaded == Spec => []NamesLoaded
<1>1. IInv => NamesLoaded
    <2> SUFFICES ASSUME IInv, setup.sync = "lora", setup.depth = 1,
                        wpc \in {"asked", "queued", "generating"}
                 PROVE  using \in loaded \cup {0}
        BY DEF NamesLoaded
    <2>1. using >= model - 1 /\ using \in 0 .. LastStep /\ using <= model
          /\ \A v \in 1 .. model : v >= model - 1 => v \in loaded
        BY DEF IInv, NamesInv, ServerInv
    <2>2. model \in Nat /\ LastStep \in Nat
        BY ServerFacts DEF IInv
    <2>3. using = 0 \/ using \in 1 .. model
        BY <2>1, <2>2, SMT
    <2> QED
        BY <2>1, <2>3
<1> QED
    BY <1>1, Inductive, PTL

\* A rollout was generated with the weights of the last sync that was due prefetch_depth
\* rollouts before it, or with later ones, on every path and for every way to sync.
THEOREM RolloutsAreFresh == Spec => []Fresh
<1>1. IInv => Fresh
    <2> DEFINE n == micro \div setup.per
               first == IF n < setup.depth THEN 0 ELSE n - setup.depth
    <2> SUFFICES ASSUME IInv, At("train"), micro % setup.per = 0, NEW s \in SyncsBy(first)
                 PROVE  rollout >= s
        BY DEF Fresh
    <2>1. n = Number /\ PhaseInv
        BY DEF Number, IInv
    <2>2. Number \in Nat /\ setup.depth \in Nat /\ Due(0) = 0
        BY <2>1, DueFacts, SetupFacts DEF PhaseInv
    <2>3. rollout >= 0 /\ Covers(rollout, Number - setup.depth)
        BY DEF IInv, FreshInv
    <2>4. PICK k \in 0 .. first : s = Due(k) /\ Due(k) % setup.interval = 0
        BY DEF SyncsBy, Due
    <2> HIDE DEF n
    <2>5. CASE n < setup.depth
        <3>1. k = 0
            BY <2>5, SMT
        <3> QED
            BY <2>2, <2>3, <2>4, <3>1
    <2>6. CASE ~(n < setup.depth)
        BY <2>1, <2>3, <2>4, <2>6 DEF Covers
    <2> QED
        BY <2>5, <2>6
<1> QED
    BY <1>1, Inductive, PTL
=============================================================================
