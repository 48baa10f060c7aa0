----------------------- MODULE PolicyTrainingRunProofs -----------------------
(***************************************************************************)
(* The safety properties of PolicyTrainingRun, for any number of replicas, *)
(* steps, launches and exceptions and any checkpoint plan.                 *)
(***************************************************************************)
EXTENDS PolicyTrainingRun, TLAPS

-----------------------------------------------------------------------------
(* The inductive invariant.                                                *)

Last == log[Len(log)].step

\* Where the process stands with respect to its step.
Full == /\ Len(actor) = step /\ cursor = step /\ metrics = actor
        /\ boundary = [step |-> step, cursor |-> step]
Sampling == /\ step > 0
            /\ Len(actor) = step - 1 /\ cursor = step /\ metrics = actor
            /\ boundary = [step |-> step - 1, cursor |-> step - 1]
Updated == /\ step > 0
           /\ Len(actor) = step /\ cursor = step
           /\ actor = Append(metrics, [batch |-> cursor, launch |-> launch])
           /\ boundary = [step |-> step - 1, cursor |-> step - 1]
Fresh == /\ cursor = 0 /\ metrics = <<>> /\ step = 0
         /\ boundary = [step |-> 0, cursor |-> 0]

FullCalls == SyncCalls \cup CheckpointCalls \cup {"hook", "batch", "done"}
SamplingCalls == {"generate", "sleep", "validate", "update"}

PhaseInv ==
    /\ InOrder(actor) /\ Len(actor) <= TotalSteps
    /\ pc \in FullCalls => Full
    /\ pc \in SamplingCalls => Sampling
    /\ pc = "record" => Updated
    /\ pc \in LoadCalls => Fresh /\ tracker > 0
    /\ pc = "load" => actor = <<>>
    /\ pc = "restore" => actor = generation[tracker].weights
    /\ pc = "batch" => step < TotalSteps

\* The flags, by the call the process is in.
FlagInv ==
    /\ pc \notin {"update", "record", "failing", "down"} => ~inflight
    /\ pc \in {"update", "record"} => inflight
    /\ pc \in (StepCalls \ {"hook"}) \cup LoadCalls \cup {"done"} => ~metricsPending
    /\ pc = "hook" => metricsPending /\ step > 0
    /\ pc \in StepCalls \cup LoadCalls \cup {"append", "wake", "done"} => ~checkpointPending
    /\ pc \in SaveCalls \cup {"quiet"} => checkpointPending
    /\ recovering => pc \in SaveCalls \cup {"down"}
    /\ pc \in SaveCalls /\ recovering => ~metricsPending
    /\ pc \in CheckpointCalls /\ ~recovering => metricsPending /\ step \in checkpointSteps
    /\ pc \in SyncCalls /\ metricsPending => step > 0
    /\ pc \in {"sync", "publish"} =>
           /\ checkpointPending => metricsPending /\ step \in checkpointSteps
           /\ metricsPending /\ step \in checkpointSteps => checkpointPending
    /\ pc = "append" /\ metricsPending /\ step \in checkpointSteps => tracker = step
    /\ pc \in CheckpointCalls => step > 0
    /\ pc = "wake" => tracker = step

\* The published version and the replicas.
Published == pointer = [exists |-> TRUE, step |-> Len(actor), weights |-> actor]
Loaded == loaded = Replicas /\ \A r \in Replicas : held[r] = actor

PublicationInv ==
    /\ pc \in SamplingCalls \cup {"append", "batch", "done"} \cup CheckpointCalls => Published
    /\ pc \in {"publish", "append", "batch", "generate", "sleep"} => awake = Replicas /\ Loaded
    /\ pc \in CheckpointCalls /\ ~recovering => Loaded
    /\ pc \in {"append", "batch", "generate", "sleep"} => ~sleepFlag
    /\ pc \in {"validate", "update", "record", "hook"} \cup SaveCalls => awake = {}
    /\ pc \in SyncCalls /\ ~metricsPending /\ step > 0 => tracker = step
    /\ pc \in {"sync", "publish"} /\ ~metricsPending /\ step > 0 => ResumeAccepted

\* What the disk says whoever looks at it: a generation with its project state
\* is one boundary, and the pair, the dataloader state and the tracker come
\* after it.
Exact(n) == LET g == generation[n]
            IN  /\ "project" \in g.files =>
                     /\ "shards" \in g.files
                     /\ Len(g.weights) = n /\ InOrder(g.weights)
                     /\ g.policy = [exists |-> TRUE, step |-> n, weights |-> g.weights]
                     /\ g.progress = [step |-> n, cursor |-> n]
                     /\ g.metrics = g.weights
                /\ "pair" \in g.files => "project" \in g.files
                /\ "data" \in g.files => g.data = n /\ "pair" \in g.files

ExactInv == /\ \A n \in Steps : Exact(n)
            /\ tracker > 0 => {"project", "pair", "data"} \subseteq generation[tracker].files

\* How far the generation being written has come.
WritingInv ==
    /\ pc \in SaveCalls => step \in Steps
    /\ pc \in SaveCalls \ {"prepare"} => progress = [step |-> step, cursor |-> step]
    /\ pc \in {"project", "pair", "data", "tracker"} =>
           "shards" \in generation[step].files /\ generation[step].weights = actor
    /\ pc \in {"pair", "data", "tracker"} => "project" \in generation[step].files
    /\ pc \in {"data", "tracker"} => "pair" \in generation[step].files
    /\ pc = "tracker" => "data" \in generation[step].files
    /\ pc \in {"shards", "project"} =>
           generation[step].files \cap {"project", "pair"} = {}

LogInv ==
    /\ \A i \in DOMAIN log :
          /\ log[i].step = log[1].step + (i - 1) /\ log[i].step > 0
          /\ tracker > 0 /\ log[i].step <= tracker =>
                 log[i].weights = Prefix(generation[tracker].weights, log[i].step)
    /\ tracker = 0 /\ log # <<>> => 1 \notin checkpointSteps

\* A generation past the tracker: the pointer has passed the tracker too, so
\* no launch gets beyond its load; or there is no tracker, and a launch from
\* scratch is stopped by the log or by that very generation.
Orphan(n) == n > tracker /\ "project" \in generation[n].files
DiskInv ==
    /\ tracker > 0 => /\ pointer.exists /\ pointer.step >= tracker
                      /\ log # <<>> => Last <= pointer.step
    /\ \A n \in Steps : Orphan(n) =>
           \/ tracker > 0 /\ n <= pointer.step
           \/ tracker = 0 /\ (log # <<>> \/ (n = 1 /\ 1 \in checkpointSteps))

\* The process continues what the disk records.
Aligned ==
    /\ tracker > 0 => /\ tracker <= Len(metrics)
                      /\ generation[tracker].weights = Prefix(metrics, tracker)
    /\ \A i \in DOMAIN log : /\ log[i].step <= Len(metrics)
                             /\ log[i].weights = Prefix(metrics, log[i].step)
\* ... or it starts again from scratch although the log has begun.
Doomed == tracker = 0 /\ log # <<>> /\ 1 \notin checkpointSteps /\ step <= 1
\* No generation past the tracker was begun by an earlier launch.
Clean == \A n \in Steps : Orphan(n) =>
             \/ pc \in SaveCalls /\ n = step
             \/ tracker = 0 /\ log = <<>> /\ n = 1 /\ 1 \in checkpointSteps
                /\ step <= 1

LiveCalls == FullCalls \cup SamplingCalls \cup {"record"}
LineageInv ==
    /\ pc \in LiveCalls => (Aligned /\ Clean) \/ Doomed
    /\ pc \in SaveCalls \/ (pc = "batch" /\ step > 0) => Aligned /\ Clean
    /\ pc \in LiveCalls /\ tracker = 0 /\ log = <<>> => step <= 1
    /\ pc \in {"batch"} \cup SaveCalls /\ tracker = 0 /\ log = <<>> =>
           step = 0 \/ metricsPending

\* What the handler finds when it may save.
FailureInv ==
    pc = "failing" /\ ~NothingToSave /\ BoundaryIsComplete =>
        /\ metrics = actor /\ Len(actor) \in Steps
        /\ boundary = [step |-> Len(actor), cursor |-> Len(actor)]
        /\ Aligned
        /\ \A n \in Steps : ~Orphan(n)
        /\ tracker > 0 \/ log # <<>>
        /\ pointer.exists /\ pointer.step = Len(actor)
        /\ VersionNamesWeights \/ ~Committed(Len(actor)) => pointer.weights = actor
        /\ ~Committed(Len(actor)) /\ sleepFlag => awake = {}

OutcomeInv == SavedIsResumable

IInv == /\ TypeOK /\ PhaseInv /\ FlagInv /\ PublicationInv /\ ExactInv
        /\ WritingInv /\ LogInv /\ DiskInv /\ LineageInv /\ FailureInv /\ OutcomeInv

-----------------------------------------------------------------------------
(* Histories of updates.                                                   *)

\* One more update, of the next batch, keeps a history in order.
LEMMA OrderedAppend ==
    ASSUME NEW h \in Seq(Update), InOrder(h), NEW e \in Update,
           e.batch = Len(h) + 1
    PROVE  InOrder(Append(h, e))
    BY DEF InOrder

\* A prefix is untouched by an append.
LEMMA PrefixOfAppend ==
    ASSUME NEW h \in Seq(Update), NEW e \in Update, NEW k \in 0..Len(h)
    PROVE  Prefix(Append(h, e), k) = Prefix(h, k)
    BY DEF Prefix

\* A history is its own longest prefix.
LEMMA WholePrefix ==
    ASSUME NEW h \in Seq(Update)
    PROVE  Prefix(h, Len(h)) = h
    BY DEF Prefix

\* A prefix is a history.
LEMMA PrefixIsHistory ==
    ASSUME NEW h \in Seq(Update), NEW k \in 0..Len(h)
    PROVE  Prefix(h, k) \in Seq(Update) /\ Len(Prefix(h, k)) = k
    BY DEF Prefix

\* The record a step appends is an update, the weights on disk are a history.
LEMMA NewUpdate ==
    TypeOK => [batch |-> cursor, launch |-> launch] \in Update
    BY DEF TypeOK, Update

\* What WriteShards leaves of the generations.
LEMMA WriteShardsEffect ==
    ASSUME TypeOK, WritingInv, WriteShards
    PROVE  /\ step \in Steps
           /\ \A n \in Steps : n # step => generation'[n] = generation[n]
           /\ generation'[step].files = generation[step].files \cup {"shards"}
           /\ generation'[step].weights = actor
           /\ generation'[step].policy = generation[step].policy
           /\ generation'[step].progress = generation[step].progress
           /\ generation'[step].metrics = generation[step].metrics
           /\ generation'[step].data = generation[step].data
<1>1. step \in Steps /\ generation[step] \in Generation
    BY DEF TypeOK, WritingInv, WriteShards, SaveCalls
<1> QED
    BY <1>1 DEF WriteShards, Write, TypeOK

\* What WriteProject leaves of the generations.
LEMMA WriteProjectEffect ==
    ASSUME TypeOK, WritingInv, WriteProject
    PROVE  /\ step \in Steps
           /\ \A n \in Steps : n # step => generation'[n] = generation[n]
           /\ generation'[step].files = generation[step].files \cup {"project"}
           /\ generation'[step].weights = generation[step].weights
           /\ generation'[step].policy = pointer
           /\ generation'[step].progress = progress
           /\ generation'[step].metrics = metrics
           /\ generation'[step].data = generation[step].data
<1>1. step \in Steps /\ generation[step] \in Generation
    BY DEF TypeOK, WritingInv, WriteProject, SaveCalls
<1> QED
    BY <1>1 DEF WriteProject, Write, TypeOK

\* What WritePair leaves of the generations.
LEMMA WritePairEffect ==
    ASSUME TypeOK, WritingInv, WritePair
    PROVE  /\ step \in Steps
           /\ \A n \in Steps : n # step => generation'[n] = generation[n]
           /\ generation'[step].files = generation[step].files \cup {"pair"}
           /\ generation'[step].weights = generation[step].weights
           /\ generation'[step].policy = generation[step].policy
           /\ generation'[step].progress = generation[step].progress
           /\ generation'[step].metrics = generation[step].metrics
           /\ generation'[step].data = generation[step].data
<1>1. step \in Steps /\ generation[step] \in Generation
    BY DEF TypeOK, WritingInv, WritePair, SaveCalls
<1> QED
    BY <1>1 DEF WritePair, Write, TypeOK

\* What WriteData leaves of the generations.
LEMMA WriteDataEffect ==
    ASSUME TypeOK, WritingInv, WriteData
    PROVE  /\ step \in Steps
           /\ \A n \in Steps : n # step => generation'[n] = generation[n]
           /\ generation'[step].files = generation[step].files \cup {"data"}
           /\ generation'[step].weights = generation[step].weights
           /\ generation'[step].policy = generation[step].policy
           /\ generation'[step].progress = generation[step].progress
           /\ generation'[step].metrics = generation[step].metrics
           /\ generation'[step].data = cursor
<1>1. step \in Steps /\ generation[step] \in Generation
    BY DEF TypeOK, WritingInv, WriteData, SaveCalls
<1> QED
    BY <1>1 DEF WriteData, Write, TypeOK

\* Every step preserves the types.
LEMMA TypeStep == IInv /\ [Next]_vars => TypeOK'
<1> SUFFICES ASSUME IInv, [Next]_vars PROVE TypeOK'
    OBVIOUS
<1>0. TypeOK /\ PhaseInv /\ ExactInv /\ WritingInv /\ FailureInv
    BY DEF IInv
<1>1. CASE Launch
    <2>1. launch' \in 0..MaxLaunches
        BY <1>0, <1>1, RunAssumption DEF Launch, TypeOK
    <2>2. progress' \in Cursor /\ boundary' \in Cursor /\ cursor' \in Nat
        BY <1>1 DEF Launch, Cursor
    <2>3. actor' \in Seq(Update) /\ metrics' \in Seq(Update)
        BY <1>1 DEF Launch
    <2>4. held' \in [Replicas -> Seq(Update)]
        BY <1>1 DEF Launch
    <2>5. awake' \subseteq Replicas /\ loaded' \subseteq Replicas /\ step' \in 0..TotalSteps
        BY <1>1, RunAssumption DEF Launch
    <2> QED
        BY <1>0, <1>1, <2>1, <2>2, <2>3, <2>4, <2>5
           DEF Launch, TypeOK, disk, Calls, LoadCalls, SyncCalls
<1>2. CASE LoadShards
    <2>1. actor' \in Seq(Update)
        BY <1>0, <1>2 DEF LoadShards, TypeOK, PhaseInv, LoadCalls, Generation, Steps
    <2> QED
        BY <1>0, <1>2, <2>1 DEF LoadShards, TypeOK, disk, flags, replicas, Calls, LoadCalls
<1>3. CASE RestoreProject
    <2>1. generation[tracker] \in Generation
        BY <1>0, <1>3 DEF RestoreProject, TypeOK, PhaseInv, LoadCalls, Steps
    <2>2. progress' \in Cursor /\ boundary' \in Cursor /\ cursor' \in Nat
          /\ metrics' \in Seq(Update)
        BY <1>3, <2>1 DEF RestoreProject, Generation
    <2> QED
        BY <1>0, <1>3, <2>2
           DEF RestoreProject, TypeOK, disk, flags, replicas, Calls, SyncCalls
<1>4. CASE RefuseResume
    BY <1>0, <1>4 DEF RefuseResume, ResumeAccepted, TypeOK, Steps, Version, Cursor,
           Generation, Event, PhaseInv, ExactInv, Full, FullCalls, Calls, SyncCalls,
           SaveCalls, CheckpointCalls, StepCalls, LoadCalls, disk, owners, flags, replicas
<1>5. CASE TransferWeights
    BY <1>0, <1>5 DEF TransferWeights, TypeOK, Calls, SyncCalls, disk, owners, flags
<1>6. CASE PublishVersion
    <2>1. pointer' \in Version
        BY <1>0, <1>6 DEF PublishVersion, TypeOK, Version
    <2> QED
        BY <1>0, <1>6, <2>1
           DEF PublishVersion, TypeOK, owners, flags, Calls, SyncCalls, CheckpointCalls
<1>7. CASE AppendMetrics
    <2>1. log' \in Seq(Event)
        <3>1. [step |-> step, weights |-> metrics] \in Event
            BY <1>0 DEF TypeOK, Event
        <3> QED
            BY <1>0, <1>7, <3>1 DEF AppendMetrics, TypeOK
    <2>2. pc' \in Calls \cup {"down", "failing", "done"}
        BY <1>7 DEF AppendMetrics, Calls, StepCalls
    <2> QED
        BY <1>0, <1>7, <2>1, <2>2 DEF AppendMetrics, TypeOK, owners, replicas
<1>8. CASE RefuseMetrics
    BY <1>0, <1>8 DEF RefuseMetrics, LogAccepts, TypeOK, Steps, Version, Cursor,
           Generation, Event, PhaseInv, ExactInv, Full, FullCalls, Calls, SyncCalls,
           SaveCalls, CheckpointCalls, StepCalls, LoadCalls, disk, owners, flags, replicas
<1>9. CASE CheckpointSleep
    BY <1>0, <1>9 DEF CheckpointSleep, TypeOK, Calls, SaveCalls, CheckpointCalls, disk,
           owners, flags
<1>10. CASE PrepareCheckpoint
    <2>1. progress' \in Cursor
        BY <1>0, <1>10 DEF PrepareCheckpoint, TypeOK, Cursor
    <2> QED
        BY <1>0, <1>10, <2>1
           DEF PrepareCheckpoint, TypeOK, disk, flags, replicas, Calls, SaveCalls,
               CheckpointCalls
<1>11. CASE RefuseCheckpoint
    <2>1. sleepFlag' \in BOOLEAN /\ awake' \subseteq Replicas /\ loaded' \subseteq Replicas
          /\ held' \in [Replicas -> Seq(Update)]
        BY <1>0, <1>11 DEF RefuseCheckpoint, BestEffortWake, TypeOK, replicas
    <2>2. progress' \in Cursor
        BY <1>0, <1>11 DEF RefuseCheckpoint, TypeOK, Cursor
    <2> QED
        BY <1>0, <1>11, <2>1, <2>2 DEF RefuseCheckpoint, TypeOK, disk, owners
<1>12. CASE WriteShards
    <2>1. step \in Steps /\ generation[step] \in Generation
        BY <1>0, <1>12 DEF WriteShards, TypeOK, WritingInv, SaveCalls
    <2>2. [[generation[step] EXCEPT !.weights = actor] EXCEPT !.files = generation[step].files \cup {"shards"}]
           \in Generation
        BY <1>0, <2>1 DEF TypeOK, Generation
    <2>3. generation' \in [Steps -> Generation]
        BY <1>0, <1>12, <2>1, <2>2 DEF WriteShards, Write, TypeOK
    <2> QED
        BY <1>0, <1>12, <2>3
           DEF WriteShards, TypeOK, owners, flags, replicas, Calls, SaveCalls,
               CheckpointCalls
<1>13. CASE WriteProject
    <2>1. step \in Steps /\ generation[step] \in Generation
        BY <1>0, <1>13 DEF WriteProject, TypeOK, WritingInv, SaveCalls
    <2>2. [[generation[step] EXCEPT !.policy = pointer,
                       !.progress = progress, !.metrics = metrics] EXCEPT !.files = generation[step].files \cup {"project"}]
                              \in Generation
        BY <1>0, <2>1 DEF TypeOK, Generation
    <2>3. generation' \in [Steps -> Generation]
        BY <1>0, <1>13, <2>1, <2>2 DEF WriteProject, Write, TypeOK
    <2> QED
        BY <1>0, <1>13, <2>3
           DEF WriteProject, TypeOK, owners, flags, replicas, Calls, SaveCalls,
               CheckpointCalls
<1>14. CASE WritePair
    <2>1. step \in Steps /\ generation[step] \in Generation
        BY <1>0, <1>14 DEF WritePair, TypeOK, WritingInv, SaveCalls
    <2>2. [generation[step] EXCEPT !.files = generation[step].files \cup {"pair"}]
           \in Generation
        BY <1>0, <2>1 DEF TypeOK, Generation
    <2>3. generation' \in [Steps -> Generation]
        BY <1>0, <1>14, <2>1, <2>2 DEF WritePair, Write, TypeOK
    <2> QED
        BY <1>0, <1>14, <2>3
           DEF WritePair, TypeOK, owners, flags, replicas, Calls, SaveCalls,
               CheckpointCalls
<1>15. CASE WriteData
    <2>1. step \in Steps /\ generation[step] \in Generation
        BY <1>0, <1>15 DEF WriteData, TypeOK, WritingInv, SaveCalls
    <2>2. [[generation[step] EXCEPT !.data = cursor] EXCEPT !.files = generation[step].files \cup {"data"}]
           \in Generation
        BY <1>0, <2>1 DEF TypeOK, Generation
    <2>3. generation' \in [Steps -> Generation]
        BY <1>0, <1>15, <2>1, <2>2 DEF WriteData, Write, TypeOK
    <2> QED
        BY <1>0, <1>15, <2>3
           DEF WriteData, TypeOK, owners, flags, replicas, Calls, SaveCalls,
               CheckpointCalls
<1>16. CASE WriteTracker
    BY <1>0, <1>16 DEF WriteTracker, TypeOK, Steps, Version, Cursor, Generation, Event,
           PhaseInv, ExactInv, Full, FullCalls, Calls, SyncCalls, SaveCalls,
           CheckpointCalls, StepCalls, LoadCalls, disk, owners, flags, replicas
<1>17. CASE CheckpointWake
    BY <1>0, <1>17 DEF CheckpointWake, TypeOK, Steps, Version, Cursor, Generation, Event,
           PhaseInv, ExactInv, Full, FullCalls, Calls, SyncCalls, SaveCalls,
           CheckpointCalls, StepCalls, LoadCalls, disk, owners, flags, replicas
<1>18. CASE NextBatch
    <2>1. step' \in 0..TotalSteps /\ cursor' \in Nat
        BY <1>0, <1>18, RunAssumption DEF NextBatch, TypeOK, PhaseInv
    <2> QED
        BY <1>0, <1>18, <2>1 DEF NextBatch, TypeOK, disk, flags, replicas, Calls, StepCalls
<1>19. CASE GenerateSequences
    BY <1>0, <1>19 DEF GenerateSequences, TypeOK, Calls, StepCalls, disk, owners, flags,
           replicas
<1>20. CASE SleepReplicas
    BY <1>0, <1>20 DEF SleepReplicas, TypeOK, Calls, StepCalls, disk, owners, flags
<1>21. CASE ValidateBatch
    BY <1>0, <1>21 DEF ValidateBatch, TypeOK, Calls, StepCalls, disk, owners, replicas
<1>22. CASE UpdateActor
    <2>1. actor' \in Seq(Update)
        BY <1>0, <1>22, NewUpdate DEF UpdateActor, TypeOK
    <2> QED
        BY <1>0, <1>22, <2>1
           DEF UpdateActor, TypeOK, disk, flags, replicas, Calls, StepCalls
<1>23. CASE RecordStep
    <2>1. metrics' \in Seq(Update)
        BY <1>0, <1>23, NewUpdate DEF RecordStep, TypeOK
    <2>2. boundary' \in Cursor
        BY <1>0, <1>23 DEF RecordStep, TypeOK, Cursor
    <2> QED
        BY <1>0, <1>23, <2>1, <2>2 DEF RecordStep, TypeOK, disk, replicas, Calls, StepCalls
<1>24. CASE RequestCheckpoint
    <2>1. checkpointPending' \in BOOLEAN
        BY <1>24 DEF RequestCheckpoint
    <2> QED
        BY <1>0, <1>24, <2>1
           DEF RequestCheckpoint, TypeOK, disk, owners, replicas, Calls, SyncCalls
<1>25. CASE GiveUp
    BY <1>0, <1>25 DEF GiveUp, TypeOK, disk, owners, flags, replicas
<1>26. CASE AlreadySaved
    BY <1>0, <1>26 DEF AlreadySaved, TypeOK, disk, owners, flags, replicas
<1>27. CASE RecoverBoundary
    <2>1. cursor' \in Nat /\ boundary.step \in Nat
        BY <1>0, <1>27 DEF RecoverBoundary, TypeOK, Cursor
    <2>2. step' \in 0..TotalSteps
        BY <1>0, <1>27 DEF RecoverBoundary, FailureInv, Steps
    <2> QED
        BY <1>0, <1>27, <2>1, <2>2
           DEF RecoverBoundary, TypeOK, disk, Calls, SaveCalls, CheckpointCalls
<1>28. CASE Finish
    BY <1>0, <1>28 DEF Finish, TypeOK, disk, owners, flags, replicas
<1>29. CASE Fault
    <2>1. actor' \in Seq(Update) /\ metrics' \in Seq(Update)
        <3>1. [batch |-> cursor, launch |-> launch] \in Update
            BY <1>0, NewUpdate
        <3>2. /\ Append(actor, [batch |-> cursor, launch |-> launch]) \in Seq(Update)
              /\ Append(metrics, [batch |-> cursor, launch |-> launch]) \in Seq(Update)
            BY <1>0, <3>1 DEF TypeOK
        <3> QED
            BY <1>0, <1>29, <3>2 DEF Fault, TypeOK
    <2>2. boundary' \in Cursor
        BY <1>0, <1>29 DEF Fault, TypeOK, Cursor
    <2>3. sleepFlag' \in BOOLEAN /\ awake' \subseteq Replicas /\ loaded' \subseteq Replicas
        BY <1>0, <1>29 DEF Fault, ReplicasAfterFault, BestEffortWake, TypeOK, replicas
    <2>4. held' \in [Replicas -> Seq(Update)]
        BY <1>0, <1>29 DEF Fault, ReplicasAfterFault, BestEffortWake, TypeOK, replicas
    <2>5. faults' \in 0..MaxFaults /\ checkpointPending' \in BOOLEAN
        BY <1>0, <1>29, RunAssumption DEF Fault, TypeOK
    <2> QED
        BY <1>0, <1>29, <2>1, <2>2, <2>3, <2>4, <2>5 DEF Fault, TypeOK, disk
<1>30. CASE Crash
    BY <1>0, <1>30 DEF Crash, TypeOK, disk, owners, flags, replicas
<1>31. CASE UNCHANGED vars
    BY <1>0, <1>31 DEF vars, TypeOK, disk, owners, flags, replicas
<1> QED
    BY <1>1, <1>2, <1>3, <1>4, <1>5, <1>6, <1>7, <1>8, <1>9, <1>10, <1>11, <1>12, <1>13,
           <1>14, <1>15, <1>16, <1>17, <1>18, <1>19, <1>20, <1>21, <1>22, <1>23, <1>24,
           <1>25, <1>26, <1>27, <1>28, <1>29, <1>30, <1>31
       DEF Next, Advance, Resume, Sync, Save, Train, Handle

\* Every step preserves the phase invariant.
LEMMA PhaseStep == IInv /\ [Next]_vars => PhaseInv'
<1> SUFFICES ASSUME IInv, [Next]_vars PROVE PhaseInv'
    OBVIOUS
<1>0. TypeOK /\ PhaseInv /\ ExactInv /\ FailureInv
    BY DEF IInv
<1>1. CASE Launch
    <2>1. InOrder(<<>>) /\ Len(<<>>) = 0
        BY DEF InOrder
    <2> QED
        BY <1>0, <1>1, <2>1, RunAssumption
           DEF Launch, PhaseInv, TypeOK, Full, Fresh, disk, SamplingCalls, LoadCalls
<1>2. CASE LoadShards
    <2>1. tracker \in Steps /\ tracker > 0
        BY <1>0, <1>2 DEF LoadShards, TypeOK, PhaseInv, LoadCalls, Steps
    <2>2. InOrder(actor') /\ Len(actor') = tracker
        BY <1>0, <1>2, <2>1 DEF LoadShards, ExactInv, Exact
    <2> QED
        BY <1>0, <1>2, <2>1, <2>2
           DEF LoadShards, PhaseInv, TypeOK, Fresh, disk, FullCalls, SamplingCalls,
               LoadCalls, SyncCalls, CheckpointCalls, SaveCalls
<1>3. CASE RestoreProject
    <2>1. tracker \in Steps /\ tracker > 0
        BY <1>0, <1>3 DEF RestoreProject, TypeOK, PhaseInv, LoadCalls, Steps
    <2>2. Full'
        BY <1>0, <1>3, <2>1 DEF RestoreProject, ExactInv, Exact, PhaseInv, Full
    <2> QED
        BY <1>0, <1>3, <2>1, <2>2 DEF RestoreProject, PhaseInv, SamplingCalls, LoadCalls
<1>4. CASE RefuseResume
    BY <1>0, <1>4 DEF RefuseResume, PhaseInv, FullCalls, SamplingCalls, SyncCalls,
           SaveCalls, CheckpointCalls, LoadCalls, owners
<1>5. CASE TransferWeights
    BY <1>0, <1>5 DEF TransferWeights, PhaseInv, Full, FullCalls, SamplingCalls,
           SyncCalls, LoadCalls, owners
<1>6. CASE PublishVersion
    BY <1>0, <1>6 DEF PublishVersion, PhaseInv, Full, FullCalls, SamplingCalls, SyncCalls,
           LoadCalls, owners
<1>7. CASE AppendMetrics
    <2>1. pc' = "batch" => step < TotalSteps
        BY <1>0, <1>7, RunAssumption DEF AppendMetrics, CompletedResume, TypeOK
    <2>2. Full' /\ pc' \in {"batch", "done"} /\ UNCHANGED <<actor, step>>
        BY <1>0, <1>7 DEF AppendMetrics, PhaseInv, Full, FullCalls, SyncCalls, owners
    <2> QED
        BY <1>0, <2>1, <2>2 DEF PhaseInv, SamplingCalls, LoadCalls
<1>8. CASE RefuseMetrics
    BY <1>0, <1>8 DEF RefuseMetrics, PhaseInv, Full, FullCalls, SamplingCalls, SyncCalls,
           LoadCalls, owners
<1>9. CASE CheckpointSleep
    BY <1>0, <1>9 DEF CheckpointSleep, PhaseInv, Full, FullCalls, SamplingCalls,
           CheckpointCalls, LoadCalls, owners
<1>10. CASE PrepareCheckpoint
    BY <1>0, <1>10 DEF PrepareCheckpoint, PhaseInv, Full, FullCalls, SamplingCalls,
           SaveCalls, CheckpointCalls, LoadCalls
<1>11. CASE RefuseCheckpoint
    BY <1>0, <1>11 DEF RefuseCheckpoint, MayPrepare, MayCapture, BestEffortWake, PhaseInv,
           Full, Sampling, Updated, Fresh, FullCalls, SamplingCalls, InOrder, Calls,
           SyncCalls, SaveCalls, CheckpointCalls, StepCalls, LoadCalls, disk, owners,
           flags, replicas
<1>12. CASE WriteShards
    BY <1>0, <1>12 DEF WriteShards, PhaseInv, Full, FullCalls, SamplingCalls, SaveCalls,
           CheckpointCalls, LoadCalls, owners
<1>13. CASE WriteProject
    BY <1>0, <1>13 DEF WriteProject, PhaseInv, Full, FullCalls, SamplingCalls, SaveCalls,
           CheckpointCalls, LoadCalls, owners
<1>14. CASE WritePair
    BY <1>0, <1>14 DEF WritePair, PhaseInv, Full, FullCalls, SamplingCalls, SaveCalls,
           CheckpointCalls, LoadCalls, owners
<1>15. CASE WriteData
    BY <1>0, <1>15 DEF WriteData, PhaseInv, Full, FullCalls, SamplingCalls, SaveCalls,
           CheckpointCalls, LoadCalls, owners
<1>16. CASE WriteTracker
    BY <1>0, <1>16 DEF WriteTracker, PhaseInv, Full, FullCalls, SamplingCalls, SaveCalls,
           CheckpointCalls, LoadCalls, owners
<1>17. CASE CheckpointWake
    BY <1>0, <1>17 DEF CheckpointWake, PhaseInv, Full, FullCalls, SamplingCalls,
           CheckpointCalls, LoadCalls, owners
<1>18. CASE NextBatch
    BY <1>0, <1>18 DEF NextBatch, PhaseInv, Full, Sampling, FullCalls, SyncCalls,
           SaveCalls, CheckpointCalls, LoadCalls
<1>19. CASE GenerateSequences
    BY <1>0, <1>19 DEF GenerateSequences, PhaseInv, Sampling, FullCalls, SamplingCalls,
           SyncCalls, SaveCalls, CheckpointCalls, LoadCalls, owners
<1>20. CASE SleepReplicas
    BY <1>0, <1>20 DEF SleepReplicas, PhaseInv, Sampling, FullCalls, SamplingCalls,
           SyncCalls, SaveCalls, CheckpointCalls, LoadCalls, owners
<1>21. CASE ValidateBatch
    BY <1>0, <1>21 DEF ValidateBatch, PhaseInv, Sampling, FullCalls, SamplingCalls,
           SyncCalls, SaveCalls, CheckpointCalls, LoadCalls, owners
<1>22. CASE UpdateActor
    <2>1. actor \in Seq(Update) /\ [batch |-> cursor, launch |-> launch] \in Update
        BY <1>0, NewUpdate DEF TypeOK
    <2>2. InOrder(actor) /\ Sampling
        BY <1>0, <1>22 DEF UpdateActor, PhaseInv, SamplingCalls
    <2>3. Len(actor) + 1 = step /\ cursor = step /\ metrics = actor
          /\ step \in 0..TotalSteps /\ step > 0
        BY <1>0, <2>1, <2>2 DEF Sampling, TypeOK
    <2>4. InOrder(Append(actor, [batch |-> cursor, launch |-> launch]))
        BY <2>1, <2>2, <2>3, OrderedAppend
    <2>5. Len(Append(actor, [batch |-> cursor, launch |-> launch])) = step
        BY <2>1, <2>3
    <2>6. Updated'
        BY <1>0, <1>22, <2>2, <2>3, <2>5 DEF UpdateActor, Updated, Sampling
    <2> QED
        BY <1>0, <1>22, <2>3, <2>4, <2>5, <2>6
           DEF UpdateActor, PhaseInv, FullCalls, SamplingCalls, LoadCalls, SyncCalls,
               CheckpointCalls, SaveCalls
<1>23. CASE RecordStep
    <2>1. Full'
        BY <1>0, <1>23 DEF RecordStep, PhaseInv, Updated, Full
    <2> QED
        BY <1>0, <1>23, <2>1 DEF RecordStep, PhaseInv, SamplingCalls, LoadCalls
<1>24. CASE RequestCheckpoint
    BY <1>0, <1>24 DEF RequestCheckpoint, PhaseInv, Full, FullCalls, SamplingCalls,
           LoadCalls, owners
<1>25. CASE GiveUp
    BY <1>0, <1>25 DEF GiveUp, PhaseInv, FullCalls, SamplingCalls, SyncCalls, SaveCalls,
           CheckpointCalls, LoadCalls, owners
<1>26. CASE AlreadySaved
    BY <1>0, <1>26 DEF AlreadySaved, PhaseInv, FullCalls, SamplingCalls, SyncCalls,
           SaveCalls, CheckpointCalls, LoadCalls, owners
<1>27. CASE RecoverBoundary
    <2>1. Full'
        BY <1>0, <1>27 DEF RecoverBoundary, FailureInv, Full
    <2> QED
        BY <1>0, <1>27, <2>1 DEF RecoverBoundary, PhaseInv, SamplingCalls, LoadCalls
<1>28. CASE Finish
    BY <1>0, <1>28 DEF Finish, PhaseInv, Full, FullCalls, SamplingCalls, LoadCalls, owners
<1>29. CASE Fault
    <2>a. InOrder(actor') /\ Len(actor') <= TotalSteps
      <3>1. CASE actor' = actor
        BY <1>0, <3>1 DEF PhaseInv
      <3>2. CASE actor' # actor
        <4>1. pc = "update" /\ actor' = Append(actor, [batch |-> cursor, launch |-> launch])
          BY <1>29, <3>2 DEF Fault
        <4>2. actor \in Seq(Update) /\ [batch |-> cursor, launch |-> launch] \in Update
          BY <1>0, NewUpdate DEF TypeOK
        <4>3. InOrder(actor) /\ Len(actor) + 1 = step /\ cursor = step
              /\ step \in 0..TotalSteps
          BY <1>0, <4>1, <4>2 DEF PhaseInv, SamplingCalls, Sampling, TypeOK
        <4> QED
          BY <4>1, <4>2, <4>3, OrderedAppend
      <3> QED
        BY <3>1, <3>2
    <2> QED
      BY <1>29, <2>a DEF Fault, PhaseInv, FullCalls, SamplingCalls, LoadCalls, SyncCalls,
             CheckpointCalls, SaveCalls
<1>30. CASE Crash
    BY <1>0, <1>30 DEF Crash, PhaseInv, FullCalls, SamplingCalls, SyncCalls, SaveCalls,
           CheckpointCalls, LoadCalls, owners
<1>31. CASE UNCHANGED vars
    BY <1>0, <1>31 DEF vars, PhaseInv, Full, Sampling, Updated, Fresh, disk, owners
<1> QED
    BY <1>1, <1>2, <1>3, <1>4, <1>5, <1>6, <1>7, <1>8, <1>9, <1>10, <1>11, <1>12, <1>13,
           <1>14, <1>15, <1>16, <1>17, <1>18, <1>19, <1>20, <1>21, <1>22, <1>23, <1>24,
           <1>25, <1>26, <1>27, <1>28, <1>29, <1>30, <1>31
       DEF Next, Advance, Resume, Sync, Save, Train, Handle

\* Every step preserves what the flags mean.
LEMMA FlagStep == IInv /\ [Next]_vars => FlagInv'
<1> SUFFICES ASSUME IInv, [Next]_vars PROVE FlagInv'
    OBVIOUS
<1>0. TypeOK /\ PhaseInv /\ FlagInv
    BY DEF IInv
<1>1. CASE Launch
    BY <1>0, <1>1 DEF Launch, FlagInv, SaveCalls, CheckpointCalls
<1>2. CASE LoadShards
    BY <1>0, <1>2 DEF LoadShards, FlagInv, SaveCalls, CheckpointCalls, LoadCalls, flags
<1>3. CASE RestoreProject
    BY <1>0, <1>3 DEF RestoreProject, FlagInv, SaveCalls, CheckpointCalls, LoadCalls, flags
<1>4. CASE RefuseResume
    BY <1>0, <1>4 DEF RefuseResume, FlagInv, SaveCalls, CheckpointCalls, LoadCalls, flags
<1>5. CASE TransferWeights
    BY <1>0, <1>5 DEF TransferWeights, FlagInv, SyncCalls, SaveCalls, CheckpointCalls,
           StepCalls, LoadCalls, disk, flags
<1>6. CASE PublishVersion
    BY <1>0, <1>6 DEF PublishVersion, FlagInv, SyncCalls, SaveCalls, CheckpointCalls,
           StepCalls, LoadCalls, flags
<1>7. CASE AppendMetrics
    BY <1>0, <1>7 DEF AppendMetrics, FlagInv, SaveCalls, CheckpointCalls
<1>8. CASE RefuseMetrics
    BY <1>0, <1>8 DEF RefuseMetrics, FlagInv, SyncCalls, SaveCalls, CheckpointCalls,
           StepCalls, LoadCalls, flags
<1>9. CASE CheckpointSleep
    BY <1>0, <1>9 DEF CheckpointSleep, FlagInv, SaveCalls, CheckpointCalls, StepCalls,
           LoadCalls, disk, flags
<1>10. CASE PrepareCheckpoint
    BY <1>0, <1>10 DEF PrepareCheckpoint, FlagInv, SaveCalls, CheckpointCalls, StepCalls,
           LoadCalls, disk, flags
<1>11. CASE RefuseCheckpoint
    BY <1>0, <1>11 DEF RefuseCheckpoint, MayPrepare, MayCapture, BestEffortWake, FlagInv,
           PhaseInv, Full, Updated, FullCalls, Calls, SyncCalls, SaveCalls,
           CheckpointCalls, StepCalls, LoadCalls, disk, owners, flags, replicas
<1>12. CASE WriteShards
    BY <1>0, <1>12 DEF WriteShards, FlagInv, SaveCalls, CheckpointCalls, StepCalls,
           LoadCalls, flags
<1>13. CASE WriteProject
    BY <1>0, <1>13 DEF WriteProject, FlagInv, SaveCalls, CheckpointCalls, StepCalls,
           LoadCalls, flags
<1>14. CASE WritePair
    BY <1>0, <1>14 DEF WritePair, FlagInv, SaveCalls, CheckpointCalls, StepCalls,
           LoadCalls, flags
<1>15. CASE WriteData
    BY <1>0, <1>15 DEF WriteData, FlagInv, SaveCalls, CheckpointCalls, StepCalls,
           LoadCalls, flags
<1>16. CASE WriteTracker
    BY <1>0, <1>16 DEF WriteTracker, FlagInv, SaveCalls, CheckpointCalls, StepCalls,
           LoadCalls
<1>17. CASE CheckpointWake
    BY <1>0, <1>17 DEF CheckpointWake, FlagInv, SaveCalls, CheckpointCalls, StepCalls,
           LoadCalls, disk, flags
<1>18. CASE NextBatch
    BY <1>0, <1>18 DEF NextBatch, FlagInv, SaveCalls, CheckpointCalls, StepCalls, flags
<1>19. CASE GenerateSequences
    BY <1>0, <1>19 DEF GenerateSequences, FlagInv, SaveCalls, CheckpointCalls, StepCalls,
           flags
<1>20. CASE SleepReplicas
    BY <1>0, <1>20 DEF SleepReplicas, FlagInv, SaveCalls, CheckpointCalls, StepCalls, flags
<1>21. CASE ValidateBatch
    BY <1>0, <1>21 DEF ValidateBatch, FlagInv, SaveCalls, CheckpointCalls, StepCalls
<1>22. CASE UpdateActor
    BY <1>0, <1>22 DEF UpdateActor, FlagInv, SaveCalls, CheckpointCalls, StepCalls, flags
<1>23. CASE RecordStep
    BY <1>0, <1>23 DEF RecordStep, FlagInv, PhaseInv, Updated, SaveCalls, CheckpointCalls,
           StepCalls, LoadCalls
<1>24. CASE RequestCheckpoint
    <2>1. checkpointPending' <=> step \in checkpointSteps
        BY <1>24 DEF RequestCheckpoint
    <2>2. pc = "hook" /\ pc' = "sync" /\ metricsPending /\ step > 0
        BY <1>0, <1>24 DEF RequestCheckpoint, FlagInv
    <2>3. UNCHANGED <<step, checkpointSteps, inflight, metricsPending, recovering, tracker>>
        BY <1>24 DEF RequestCheckpoint, disk
    <2> QED
        BY <1>0, <2>1, <2>2, <2>3
           DEF FlagInv, CheckpointCalls, SaveCalls, StepCalls, LoadCalls
<1>25. CASE GiveUp
    BY <1>0, <1>25 DEF GiveUp, FlagInv, SyncCalls, SaveCalls, CheckpointCalls, StepCalls,
           LoadCalls
<1>26. CASE AlreadySaved
    BY <1>0, <1>26 DEF AlreadySaved, FlagInv, SyncCalls, SaveCalls, CheckpointCalls,
           StepCalls, LoadCalls
<1>27. CASE RecoverBoundary
    BY <1>0, <1>27 DEF RecoverBoundary, NothingToSave, BoundaryIsComplete, FlagInv,
           SaveCalls, StepCalls, LoadCalls
<1>28. CASE Finish
    BY <1>0, <1>28 DEF Finish, FlagInv, SaveCalls, CheckpointCalls, flags
<1>29. CASE Fault
    BY <1>0, <1>29 DEF Fault, FlagInv, SyncCalls, SaveCalls, CheckpointCalls, StepCalls,
           LoadCalls
<1>30. CASE Crash
    BY <1>0, <1>30 DEF Crash, FlagInv, SyncCalls, SaveCalls, CheckpointCalls, StepCalls,
           LoadCalls
<1>31. CASE UNCHANGED vars
    BY <1>0, <1>31 DEF vars, FlagInv, disk, flags
<1> QED
    BY <1>1, <1>2, <1>3, <1>4, <1>5, <1>6, <1>7, <1>8, <1>9, <1>10, <1>11, <1>12, <1>13,
           <1>14, <1>15, <1>16, <1>17, <1>18, <1>19, <1>20, <1>21, <1>22, <1>23, <1>24,
           <1>25, <1>26, <1>27, <1>28, <1>29, <1>30, <1>31
       DEF Next, Advance, Resume, Sync, Save, Train, Handle

\* Every step preserves what is published and what the replicas hold.
LEMMA PublicationStep == IInv /\ [Next]_vars => PublicationInv'
<1> SUFFICES ASSUME IInv, [Next]_vars PROVE PublicationInv'
    OBVIOUS
<1>0. TypeOK /\ PhaseInv /\ FlagInv /\ PublicationInv /\ FailureInv
    BY DEF IInv
<1>1. CASE Launch
    BY <1>0, <1>1 DEF Launch, PublicationInv, SamplingCalls, SaveCalls, CheckpointCalls
<1>2. CASE LoadShards
    BY <1>0, <1>2 DEF LoadShards, PublicationInv, SamplingCalls, SyncCalls, SaveCalls,
           CheckpointCalls
<1>3. CASE RestoreProject
    BY <1>0, <1>3 DEF RestoreProject, ResumeAccepted, PublicationInv, SamplingCalls,
           SaveCalls, CheckpointCalls, disk
<1>4. CASE RefuseResume
    BY <1>0, <1>4 DEF RefuseResume, PublicationInv, SamplingCalls, SyncCalls, SaveCalls,
           CheckpointCalls
<1>5. CASE TransferWeights
    BY <1>0, <1>5 DEF TransferWeights, PublicationInv, Loaded, SamplingCalls,
           ResumeAccepted, SyncCalls, SaveCalls, CheckpointCalls, disk, owners, flags
<1>6. CASE PublishVersion
    BY <1>0, <1>6 DEF PublishVersion, PublicationInv, PhaseInv, FlagInv, Full, Sampling,
           Published, Loaded, FullCalls, SamplingCalls, ResumeAccepted, Calls, SyncCalls,
           SaveCalls, CheckpointCalls, StepCalls, LoadCalls, disk, owners, flags, replicas
<1>7. CASE AppendMetrics
    BY <1>0, <1>7 DEF AppendMetrics, PublicationInv, Published, Loaded, SyncCalls,
           SaveCalls, owners, replicas
<1>8. CASE RefuseMetrics
    BY <1>0, <1>8 DEF RefuseMetrics, PublicationInv, SamplingCalls, SyncCalls, SaveCalls,
           CheckpointCalls
<1>9. CASE CheckpointSleep
    BY <1>0, <1>9 DEF CheckpointSleep, PublicationInv, Published, Loaded, SyncCalls,
           CheckpointCalls, disk, owners, flags
<1>10. CASE PrepareCheckpoint
    BY <1>0, <1>10 DEF PrepareCheckpoint, PublicationInv, Published, Loaded, SyncCalls,
           SaveCalls, CheckpointCalls, disk, flags, replicas
<1>11. CASE RefuseCheckpoint
    BY <1>0, <1>11 DEF RefuseCheckpoint, MayPrepare, MayCapture, BestEffortWake,
           PublicationInv, PhaseInv, FlagInv, Full, Sampling, Published, Loaded,
           FullCalls, SamplingCalls, ResumeAccepted, Calls, SyncCalls, SaveCalls,
           CheckpointCalls, StepCalls, LoadCalls, disk, owners, flags, replicas
<1>12. CASE WriteShards
    BY <1>0, <1>12 DEF WriteShards, PublicationInv, Published, Loaded, SyncCalls,
           SaveCalls, CheckpointCalls, owners, flags, replicas
<1>13. CASE WriteProject
    BY <1>0, <1>13 DEF WriteProject, PublicationInv, Published, Loaded, SyncCalls,
           SaveCalls, CheckpointCalls, owners, flags, replicas
<1>14. CASE WritePair
    BY <1>0, <1>14 DEF WritePair, PublicationInv, Published, Loaded, SyncCalls, SaveCalls,
           CheckpointCalls, owners, flags, replicas
<1>15. CASE WriteData
    BY <1>0, <1>15 DEF WriteData, PublicationInv, Published, Loaded, SyncCalls, SaveCalls,
           CheckpointCalls, owners, flags, replicas
<1>16. CASE WriteTracker
    BY <1>0, <1>16 DEF WriteTracker, PublicationInv, Published, Loaded, SaveCalls,
           CheckpointCalls, owners, replicas
<1>17. CASE CheckpointWake
    BY <1>0, <1>17 DEF CheckpointWake, PublicationInv, FlagInv, Published, Loaded,
           SaveCalls, CheckpointCalls, disk, owners
<1>18. CASE NextBatch
    BY <1>0, <1>18 DEF NextBatch, PublicationInv, Published, Loaded, SyncCalls, SaveCalls,
           disk, replicas
<1>19. CASE GenerateSequences
    BY <1>0, <1>19 DEF GenerateSequences, PublicationInv, Published, Loaded,
           SamplingCalls, SyncCalls, SaveCalls, disk, owners, replicas
<1>20. CASE SleepReplicas
    BY <1>0, <1>20 DEF SleepReplicas, PublicationInv, Published, SamplingCalls, SyncCalls,
           SaveCalls, CheckpointCalls, disk, owners
<1>21. CASE ValidateBatch
    BY <1>0, <1>21 DEF ValidateBatch, PublicationInv, Published, SamplingCalls, SyncCalls,
           SaveCalls, CheckpointCalls, disk, owners, replicas
<1>22. CASE UpdateActor
    BY <1>0, <1>22 DEF UpdateActor, PublicationInv, SamplingCalls, SyncCalls, SaveCalls,
           CheckpointCalls, replicas
<1>23. CASE RecordStep
    BY <1>0, <1>23 DEF RecordStep, PublicationInv, SamplingCalls, SaveCalls,
           CheckpointCalls, replicas
<1>24. CASE RequestCheckpoint
    BY <1>0, <1>24 DEF RequestCheckpoint, PublicationInv, FlagInv, SamplingCalls,
           SaveCalls, CheckpointCalls
<1>25. CASE GiveUp
    BY <1>0, <1>25 DEF GiveUp, PublicationInv, SamplingCalls, SyncCalls, SaveCalls,
           CheckpointCalls
<1>26. CASE AlreadySaved
    BY <1>0, <1>26 DEF AlreadySaved, PublicationInv, SamplingCalls, SyncCalls, SaveCalls,
           CheckpointCalls
<1>27. CASE RecoverBoundary
    <2>1. pointer = [exists |-> TRUE, step |-> Len(actor), weights |-> actor]
        BY <1>0, <1>27 DEF RecoverBoundary, FailureInv, TypeOK, Version
    <2>2. awake' = {}
        BY <1>0, <1>27 DEF RecoverBoundary, FailureInv
    <2> QED
        BY <1>0, <1>27, <2>1, <2>2
           DEF RecoverBoundary, PublicationInv, Published, disk, SyncCalls
<1>28. CASE Finish
    BY <1>0, <1>28 DEF Finish, PublicationInv, SamplingCalls, SyncCalls, SaveCalls,
           CheckpointCalls
<1>29. CASE Fault
    BY <1>0, <1>29 DEF Fault, PublicationInv, SamplingCalls, SyncCalls, SaveCalls,
           CheckpointCalls
<1>30. CASE Crash
    BY <1>0, <1>30 DEF Crash, PublicationInv, SamplingCalls, SyncCalls, SaveCalls,
           CheckpointCalls
<1>31. CASE UNCHANGED vars
    BY <1>0, <1>31 DEF vars, PublicationInv, Published, Loaded, ResumeAccepted, disk,
           owners, flags, replicas
<1> QED
    BY <1>1, <1>2, <1>3, <1>4, <1>5, <1>6, <1>7, <1>8, <1>9, <1>10, <1>11, <1>12, <1>13,
           <1>14, <1>15, <1>16, <1>17, <1>18, <1>19, <1>20, <1>21, <1>22, <1>23, <1>24,
           <1>25, <1>26, <1>27, <1>28, <1>29, <1>30, <1>31
       DEF Next, Advance, Resume, Sync, Save, Train, Handle

\* Every step keeps the generations exact.
LEMMA ExactStep == IInv /\ [Next]_vars => ExactInv'
<1> SUFFICES ASSUME IInv, [Next]_vars PROVE ExactInv'
    OBVIOUS
<1>0. TypeOK /\ PhaseInv /\ PublicationInv /\ ExactInv /\ WritingInv
    BY DEF IInv
<1>a. generation' = generation => \A n \in Steps : Exact(n)'
    BY <1>0 DEF ExactInv, Exact
<1>1. CASE Launch
    BY <1>0, <1>a, <1>1 DEF Launch, ExactInv, disk
<1>2. CASE LoadShards
    BY <1>0, <1>a, <1>2 DEF LoadShards, ExactInv, disk
<1>3. CASE RestoreProject
    BY <1>0, <1>a, <1>3 DEF RestoreProject, ExactInv, disk
<1>4. CASE RefuseResume
    BY <1>0, <1>a, <1>4 DEF RefuseResume, ExactInv, disk
<1>5. CASE TransferWeights
    BY <1>0, <1>a, <1>5 DEF TransferWeights, ExactInv, disk
<1>6. CASE PublishVersion
    BY <1>0, <1>a, <1>6 DEF PublishVersion, ExactInv
<1>7. CASE AppendMetrics
    BY <1>0, <1>a, <1>7 DEF AppendMetrics, ExactInv
<1>8. CASE RefuseMetrics
    BY <1>0, <1>a, <1>8 DEF RefuseMetrics, ExactInv, disk
<1>9. CASE CheckpointSleep
    BY <1>0, <1>a, <1>9 DEF CheckpointSleep, ExactInv, disk
<1>10. CASE PrepareCheckpoint
    BY <1>0, <1>a, <1>10 DEF PrepareCheckpoint, ExactInv, disk
<1>11. CASE RefuseCheckpoint
    BY <1>0, <1>a, <1>11 DEF RefuseCheckpoint, ExactInv, disk
<1>12. CASE WriteShards
    <2>1. \A n \in Steps : n # step => Exact(n)'
        BY <1>0, <1>12, WriteShardsEffect DEF ExactInv, Exact
    <2>2. ASSUME NEW n \in Steps, n = step PROVE Exact(n)'
        <3>1. pc = "shards" /\ step \in Steps /\ Exact(step)
            BY <1>0, <1>12, WriteShardsEffect DEF WriteShards, ExactInv
        <3>2. generation[step].files \cap {"project", "pair"} = {}
            BY <1>0, <3>1 DEF WritingInv
        <3>3. generation[step].files \cap {"project", "pair", "data"} = {}
            BY <3>1, <3>2 DEF Exact
        <3>4. generation'[step].files = generation[step].files \cup {"shards"}
            BY <1>0, <1>12, WriteShardsEffect
        <3>5. "project" \notin generation'[step].files /\ "pair" \notin generation'[step].files
              /\ "data" \notin generation'[step].files
            BY <3>3, <3>4
        <3> QED
            BY <2>2, <3>5 DEF Exact
    <2>3. tracker' = tracker /\ (tracker > 0 => tracker \in Steps)
        BY <1>0, <1>12 DEF WriteShards, TypeOK, Steps
    <2>4. tracker > 0 => {"project", "pair", "data"} \subseteq generation'[tracker].files
        BY <1>0, <1>12, <2>3, WriteShardsEffect DEF ExactInv
    <2> QED
        BY <2>1, <2>2, <2>3, <2>4 DEF ExactInv
<1>13. CASE WriteProject
    <2>1. \A n \in Steps : n # step => Exact(n)'
        BY <1>0, <1>13, WriteProjectEffect DEF ExactInv, Exact
    <2>2. ASSUME NEW n \in Steps, n = step PROVE Exact(n)'
        <3>1. pc = "project" /\ step \in Steps /\ Exact(step)
            BY <1>0, <1>13, WriteProjectEffect DEF WriteProject, ExactInv
        <3>2. Len(actor) = step /\ InOrder(actor) /\ metrics = actor
              /\ pointer = [exists |-> TRUE, step |-> step, weights |-> actor]
            BY <1>0, <3>1 DEF PhaseInv, PublicationInv, Full, Published, FullCalls,
                   SaveCalls, CheckpointCalls
        <3>3. /\ progress = [step |-> step, cursor |-> step]
              /\ "shards" \in generation[step].files /\ generation[step].weights = actor
              /\ generation[step].files \cap {"project", "pair"} = {}
            BY <1>0, <3>1 DEF WritingInv, SaveCalls
        <3> QED
            BY <1>0, <1>13, <2>2, <3>1, <3>2, <3>3, WriteProjectEffect DEF Exact
    <2>3. tracker' = tracker /\ (tracker > 0 => tracker \in Steps)
        BY <1>0, <1>13 DEF WriteProject, TypeOK, Steps
    <2>4. tracker > 0 => {"project", "pair", "data"} \subseteq generation'[tracker].files
        BY <1>0, <1>13, <2>3, WriteProjectEffect DEF ExactInv
    <2> QED
        BY <2>1, <2>2, <2>3, <2>4 DEF ExactInv
<1>14. CASE WritePair
    <2>1. \A n \in Steps : n # step => Exact(n)'
        BY <1>0, <1>14, WritePairEffect DEF ExactInv, Exact
    <2>2. \A n \in Steps : n = step => Exact(n)'
        BY <1>0, <1>14, WritePairEffect DEF ExactInv, Exact, WritingInv, WritePair
    <2>3. tracker' = tracker /\ (tracker > 0 => tracker \in Steps)
        BY <1>0, <1>14 DEF WritePair, TypeOK, Steps
    <2>4. tracker > 0 => {"project", "pair", "data"} \subseteq generation'[tracker].files
        BY <1>0, <1>14, <2>3, WritePairEffect DEF ExactInv
    <2> QED
        BY <2>1, <2>2, <2>3, <2>4 DEF ExactInv
<1>15. CASE WriteData
    <2>1. \A n \in Steps : n # step => Exact(n)'
        BY <1>0, <1>15, WriteDataEffect DEF ExactInv, Exact
    <2>2. \A n \in Steps : n = step => Exact(n)'
        BY <1>0, <1>15, WriteDataEffect
           DEF ExactInv, Exact, WritingInv, PhaseInv, Full, FullCalls, WriteData,
               SaveCalls, CheckpointCalls
    <2>3. tracker' = tracker /\ (tracker > 0 => tracker \in Steps)
        BY <1>0, <1>15 DEF WriteData, TypeOK, Steps
    <2>4. tracker > 0 => {"project", "pair", "data"} \subseteq generation'[tracker].files
        BY <1>0, <1>15, <2>3, WriteDataEffect DEF ExactInv
    <2> QED
        BY <2>1, <2>2, <2>3, <2>4 DEF ExactInv
<1>16. CASE WriteTracker
    <2>1. generation' = generation
        BY <1>16 DEF WriteTracker
    <2>2. {"project", "pair", "data"} \subseteq generation[step].files
        BY <1>0, <1>16 DEF WriteTracker, WritingInv
    <2> QED
        BY <1>0, <1>16, <1>a, <2>1, <2>2 DEF WriteTracker, ExactInv
<1>17. CASE CheckpointWake
    BY <1>0, <1>a, <1>17 DEF CheckpointWake, ExactInv, disk
<1>18. CASE NextBatch
    BY <1>0, <1>a, <1>18 DEF NextBatch, ExactInv, disk
<1>19. CASE GenerateSequences
    BY <1>0, <1>a, <1>19 DEF GenerateSequences, ExactInv, disk
<1>20. CASE SleepReplicas
    BY <1>0, <1>a, <1>20 DEF SleepReplicas, ExactInv, disk
<1>21. CASE ValidateBatch
    BY <1>0, <1>a, <1>21 DEF ValidateBatch, ExactInv, disk
<1>22. CASE UpdateActor
    BY <1>0, <1>a, <1>22 DEF UpdateActor, ExactInv, disk
<1>23. CASE RecordStep
    BY <1>0, <1>a, <1>23 DEF RecordStep, ExactInv, disk
<1>24. CASE RequestCheckpoint
    BY <1>0, <1>a, <1>24 DEF RequestCheckpoint, ExactInv, disk
<1>25. CASE GiveUp
    BY <1>0, <1>a, <1>25 DEF GiveUp, ExactInv, disk
<1>26. CASE AlreadySaved
    BY <1>0, <1>a, <1>26 DEF AlreadySaved, ExactInv, disk
<1>27. CASE RecoverBoundary
    BY <1>0, <1>a, <1>27 DEF RecoverBoundary, ExactInv, disk
<1>28. CASE Finish
    BY <1>0, <1>a, <1>28 DEF Finish, ExactInv, disk
<1>29. CASE Fault
    BY <1>0, <1>a, <1>29 DEF Fault, ExactInv, disk
<1>30. CASE Crash
    BY <1>0, <1>a, <1>30 DEF Crash, ExactInv, disk
<1>31. CASE UNCHANGED vars
    BY <1>0, <1>a, <1>31 DEF vars, ExactInv, disk
<1> QED
    BY <1>1, <1>2, <1>3, <1>4, <1>5, <1>6, <1>7, <1>8, <1>9, <1>10, <1>11, <1>12, <1>13,
           <1>14, <1>15, <1>16, <1>17, <1>18, <1>19, <1>20, <1>21, <1>22, <1>23, <1>24,
           <1>25, <1>26, <1>27, <1>28, <1>29, <1>30, <1>31
       DEF Next, Advance, Resume, Sync, Save, Train, Handle

\* Every step preserves how far the generation being written has come.
LEMMA WritingStep == IInv /\ [Next]_vars => WritingInv'
<1> SUFFICES ASSUME IInv, [Next]_vars PROVE WritingInv'
    OBVIOUS
<1>0. TypeOK /\ PhaseInv /\ FlagInv /\ FailureInv /\ WritingInv
    BY DEF IInv
<1>1. CASE Launch
    BY <1>0, <1>1 DEF Launch, WritingInv, SaveCalls
<1>2. CASE LoadShards
    BY <1>0, <1>2 DEF LoadShards, WritingInv, SaveCalls
<1>3. CASE RestoreProject
    BY <1>0, <1>3 DEF RestoreProject, WritingInv, SaveCalls
<1>4. CASE RefuseResume
    BY <1>0, <1>4 DEF RefuseResume, WritingInv, SaveCalls
<1>5. CASE TransferWeights
    BY <1>0, <1>5 DEF TransferWeights, WritingInv, SaveCalls
<1>6. CASE PublishVersion
    BY <1>0, <1>6 DEF PublishVersion, WritingInv, SaveCalls
<1>7. CASE AppendMetrics
    BY <1>0, <1>7 DEF AppendMetrics, WritingInv, SaveCalls
<1>8. CASE RefuseMetrics
    BY <1>0, <1>8 DEF RefuseMetrics, WritingInv, SaveCalls
<1>9. CASE CheckpointSleep
    <2>1. step \in Steps
        BY <1>0, <1>9 DEF CheckpointSleep, FlagInv, CheckpointCalls, TypeOK, Steps
    <2> QED
        BY <1>0, <1>9, <2>1 DEF CheckpointSleep, WritingInv
<1>10. CASE PrepareCheckpoint
    BY <1>0, <1>10 DEF PrepareCheckpoint, MayPrepare, WritingInv, PhaseInv, Full,
           FullCalls, CheckpointCalls, disk, SaveCalls
<1>11. CASE RefuseCheckpoint
    BY <1>0, <1>11 DEF RefuseCheckpoint, MayPrepare, MayCapture, BestEffortWake,
           WritingInv, SaveCalls, disk, owners, flags, replicas
<1>12. CASE WriteShards
    BY <1>0, <1>12, WriteShardsEffect DEF WriteShards, WritingInv, owners, SaveCalls
<1>13. CASE WriteProject
    BY <1>0, <1>13, WriteProjectEffect DEF WriteProject, WritingInv, owners, SaveCalls
<1>14. CASE WritePair
    BY <1>0, <1>14, WritePairEffect DEF WritePair, WritingInv, owners, SaveCalls
<1>15. CASE WriteData
    BY <1>0, <1>15, WriteDataEffect DEF WriteData, WritingInv, owners, SaveCalls
<1>16. CASE WriteTracker
    BY <1>0, <1>16 DEF WriteTracker, WritingInv, SaveCalls
<1>17. CASE CheckpointWake
    BY <1>0, <1>17 DEF CheckpointWake, WritingInv, SaveCalls
<1>18. CASE NextBatch
    BY <1>0, <1>18 DEF NextBatch, WritingInv, SaveCalls
<1>19. CASE GenerateSequences
    BY <1>0, <1>19 DEF GenerateSequences, WritingInv, SaveCalls
<1>20. CASE SleepReplicas
    BY <1>0, <1>20 DEF SleepReplicas, WritingInv, SaveCalls
<1>21. CASE ValidateBatch
    BY <1>0, <1>21 DEF ValidateBatch, WritingInv, SaveCalls
<1>22. CASE UpdateActor
    BY <1>0, <1>22 DEF UpdateActor, WritingInv, SaveCalls
<1>23. CASE RecordStep
    BY <1>0, <1>23 DEF RecordStep, WritingInv, SaveCalls
<1>24. CASE RequestCheckpoint
    BY <1>0, <1>24 DEF RequestCheckpoint, WritingInv, SaveCalls
<1>25. CASE GiveUp
    BY <1>0, <1>25 DEF GiveUp, WritingInv, SaveCalls
<1>26. CASE AlreadySaved
    BY <1>0, <1>26 DEF AlreadySaved, WritingInv, SaveCalls
<1>27. CASE RecoverBoundary
    BY <1>0, <1>27 DEF RecoverBoundary, FailureInv, WritingInv
<1>28. CASE Finish
    BY <1>0, <1>28 DEF Finish, WritingInv, SaveCalls
<1>29. CASE Fault
    BY <1>0, <1>29 DEF Fault, WritingInv, SaveCalls
<1>30. CASE Crash
    BY <1>0, <1>30 DEF Crash, WritingInv, SaveCalls
<1>31. CASE UNCHANGED vars
    BY <1>0, <1>31 DEF vars, WritingInv, disk, owners
<1> QED
    BY <1>1, <1>2, <1>3, <1>4, <1>5, <1>6, <1>7, <1>8, <1>9, <1>10, <1>11, <1>12, <1>13,
           <1>14, <1>15, <1>16, <1>17, <1>18, <1>19, <1>20, <1>21, <1>22, <1>23, <1>24,
           <1>25, <1>26, <1>27, <1>28, <1>29, <1>30, <1>31
       DEF Next, Advance, Resume, Sync, Save, Train, Handle

\* Every step preserves the order of the log.
LEMMA LogStep == IInv /\ [Next]_vars => LogInv'
<1> SUFFICES ASSUME IInv, [Next]_vars PROVE LogInv'
    OBVIOUS
<1>0. TypeOK /\ PhaseInv /\ FlagInv /\ ExactInv /\ WritingInv /\ LogInv /\ LineageInv
    BY DEF IInv
<1>1. CASE Launch
    BY <1>0, <1>1 DEF Launch, LogInv, disk
<1>2. CASE LoadShards
    BY <1>0, <1>2 DEF LoadShards, LogInv, disk
<1>3. CASE RestoreProject
    BY <1>0, <1>3 DEF RestoreProject, LogInv, disk
<1>4. CASE RefuseResume
    BY <1>0, <1>4 DEF RefuseResume, LogInv, disk
<1>5. CASE TransferWeights
    BY <1>0, <1>5 DEF TransferWeights, LogInv, disk
<1>6. CASE PublishVersion
    BY <1>0, <1>6 DEF PublishVersion, LogInv
<1>7. CASE AppendMetrics
    <2>1. CASE ~metricsPending
        BY <1>0, <1>7, <2>1 DEF AppendMetrics, LogInv
    <2>2. CASE metricsPending
      <3> DEFINE e == [step |-> step, weights |-> metrics]
      <3>1. log' = Append(log, e) /\ UNCHANGED <<tracker, generation, checkpointSteps>>
        BY <1>7, <2>2 DEF AppendMetrics
      <3>2. metrics \in Seq(Update) /\ e \in Event /\ log \in Seq(Event) /\ step > 0
            /\ Len(metrics) = step /\ step \in Nat
        BY <1>0, <1>7, <2>2
           DEF AppendMetrics, TypeOK, Event, FlagInv, PhaseInv, Full, FullCalls, SyncCalls
      <3>3. log # <<>> => log[Len(log)].step + 1 = step
        BY <1>7, <2>2 DEF AppendMetrics, LogAccepts
      <3>4. tracker > 0 /\ step <= tracker =>
                metrics = Prefix(generation[tracker].weights, step)
        <4> SUFFICES ASSUME tracker > 0, step <= tracker
                     PROVE  metrics = Prefix(generation[tracker].weights, step)
          OBVIOUS
        <4>1. Aligned
          BY <1>0, <1>7 DEF AppendMetrics, LineageInv, Doomed, LiveCalls, FullCalls,
                 SyncCalls
        <4>2. tracker = step /\ generation[tracker].weights = Prefix(metrics, tracker)
          BY <1>0, <3>2, <4>1 DEF Aligned, TypeOK
        <4> QED
          BY <3>2, <4>2, WholePrefix
      <3>5. tracker = 0 => 1 \notin checkpointSteps
        BY <1>0, <1>7, <2>2, <3>2, <3>3
           DEF AppendMetrics, LogInv, FlagInv, LineageInv, LiveCalls, FullCalls, SyncCalls
      <3>6. \A i \in DOMAIN log' :
               /\ log'[i].step = log'[1].step + (i - 1) /\ log'[i].step > 0
               /\ tracker > 0 /\ log'[i].step <= tracker =>
                      log'[i].weights = Prefix(generation[tracker].weights, log'[i].step)
        <4> TAKE i \in DOMAIN log'
        <4>1. CASE i \in DOMAIN log
          <5>1. log'[i] = log[i] /\ log'[1] = log[1]
            BY <3>1, <3>2, <4>1
          <5> QED
            BY <1>0, <4>1, <5>1 DEF LogInv
        <4>2. CASE i = Len(log) + 1
          <5>1. log'[i] = e
            BY <3>1, <3>2, <4>2
          <5>2. CASE log = <<>>
            BY <3>1, <3>2, <3>4, <4>2, <5>1, <5>2
          <5>3. CASE log # <<>>
            <6>1. Len(log) \in DOMAIN log /\ 1 \in DOMAIN log /\ log'[1] = log[1] /\ Len(log) \in Nat
              BY <3>1, <3>2, <5>3
            <6>2. log[Len(log)].step = log[1].step + (Len(log) - 1)
              BY <1>0, <6>1 DEF LogInv
            <6>3. log[1].step \in Nat
              <7>1. log[1] \in Event
                BY <3>2, <6>1
              <7> QED
                BY <7>1 DEF Event
            <6> QED
              BY <3>2, <3>3, <3>4, <4>2, <5>1, <5>3, <6>1, <6>2, <6>3
          <5> QED
            BY <5>2, <5>3
        <4> QED
          BY <3>1, <3>2, <4>1, <4>2
      <3> QED
        BY <3>1, <3>5, <3>6 DEF LogInv
    <2> QED
        BY <2>1, <2>2
<1>8. CASE RefuseMetrics
    BY <1>0, <1>8 DEF RefuseMetrics, LogInv, disk
<1>9. CASE CheckpointSleep
    BY <1>0, <1>9 DEF CheckpointSleep, LogInv, disk
<1>10. CASE PrepareCheckpoint
    BY <1>0, <1>10 DEF PrepareCheckpoint, LogInv, disk
<1>11. CASE RefuseCheckpoint
    BY <1>0, <1>11 DEF RefuseCheckpoint, LogInv, disk
<1>12. CASE WriteShards
    <2>1. tracker > 0 => tracker \in Steps /\ tracker # step
        BY <1>0, <1>12 DEF WriteShards, ExactInv, WritingInv, TypeOK, Steps
    <2> QED
        BY <1>0, <1>12, <2>1, WriteShardsEffect DEF WriteShards, LogInv
<1>13. CASE WriteProject
    <2>1. tracker > 0 => generation'[tracker].weights = generation[tracker].weights
        BY <1>0, <1>13, WriteProjectEffect DEF TypeOK, Steps
    <2> QED
        BY <1>0, <1>13, <2>1 DEF WriteProject, LogInv
<1>14. CASE WritePair
    <2>1. tracker > 0 => generation'[tracker].weights = generation[tracker].weights
        BY <1>0, <1>14, WritePairEffect DEF TypeOK, Steps
    <2> QED
        BY <1>0, <1>14, <2>1 DEF WritePair, LogInv
<1>15. CASE WriteData
    <2>1. tracker > 0 => generation'[tracker].weights = generation[tracker].weights
        BY <1>0, <1>15, WriteDataEffect DEF TypeOK, Steps
    <2> QED
        BY <1>0, <1>15, <2>1 DEF WriteData, LogInv
<1>16. CASE WriteTracker
    <2>1. generation[step].weights = metrics /\ step > 0
        BY <1>0, <1>16 DEF WriteTracker, WritingInv, PhaseInv, Full, FullCalls,
               CheckpointCalls, SaveCalls, Steps
    <2>2. Aligned
        BY <1>0, <1>16 DEF WriteTracker, LineageInv, SaveCalls
    <2> QED
        BY <1>0, <1>16, <2>1, <2>2 DEF WriteTracker, LogInv, Aligned
<1>17. CASE CheckpointWake
    BY <1>0, <1>17 DEF CheckpointWake, LogInv, disk
<1>18. CASE NextBatch
    BY <1>0, <1>18 DEF NextBatch, LogInv, disk
<1>19. CASE GenerateSequences
    BY <1>0, <1>19 DEF GenerateSequences, LogInv, disk
<1>20. CASE SleepReplicas
    BY <1>0, <1>20 DEF SleepReplicas, LogInv, disk
<1>21. CASE ValidateBatch
    BY <1>0, <1>21 DEF ValidateBatch, LogInv, disk
<1>22. CASE UpdateActor
    BY <1>0, <1>22 DEF UpdateActor, LogInv, disk
<1>23. CASE RecordStep
    BY <1>0, <1>23 DEF RecordStep, LogInv, disk
<1>24. CASE RequestCheckpoint
    BY <1>0, <1>24 DEF RequestCheckpoint, LogInv, disk
<1>25. CASE GiveUp
    BY <1>0, <1>25 DEF GiveUp, LogInv, disk
<1>26. CASE AlreadySaved
    BY <1>0, <1>26 DEF AlreadySaved, LogInv, disk
<1>27. CASE RecoverBoundary
    BY <1>0, <1>27 DEF RecoverBoundary, LogInv, disk
<1>28. CASE Finish
    BY <1>0, <1>28 DEF Finish, LogInv, disk
<1>29. CASE Fault
    BY <1>0, <1>29 DEF Fault, LogInv, disk
<1>30. CASE Crash
    BY <1>0, <1>30 DEF Crash, LogInv, disk
<1>31. CASE UNCHANGED vars
    BY <1>0, <1>31 DEF vars, LogInv, disk
<1> QED
    BY <1>1, <1>2, <1>3, <1>4, <1>5, <1>6, <1>7, <1>8, <1>9, <1>10, <1>11, <1>12, <1>13,
           <1>14, <1>15, <1>16, <1>17, <1>18, <1>19, <1>20, <1>21, <1>22, <1>23, <1>24,
           <1>25, <1>26, <1>27, <1>28, <1>29, <1>30, <1>31
       DEF Next, Advance, Resume, Sync, Save, Train, Handle

\* Every step keeps a leftover generation out of reach.
LEMMA DiskStep == IInv /\ [Next]_vars => DiskInv'
<1> SUFFICES ASSUME IInv, [Next]_vars PROVE DiskInv'
    OBVIOUS
<1>0. /\ TypeOK /\ PhaseInv /\ FlagInv /\ PublicationInv /\ ExactInv
      /\ WritingInv /\ LogInv /\ DiskInv /\ LineageInv
    BY DEF IInv
<1>1. CASE Launch
    BY <1>0, <1>1 DEF Launch, DiskInv, Orphan, Last, disk
<1>2. CASE LoadShards
    BY <1>0, <1>2 DEF LoadShards, DiskInv, Orphan, Last, disk
<1>3. CASE RestoreProject
    BY <1>0, <1>3 DEF RestoreProject, DiskInv, Orphan, Last, disk
<1>4. CASE RefuseResume
    BY <1>0, <1>4 DEF RefuseResume, DiskInv, Orphan, Last, disk
<1>5. CASE TransferWeights
    BY <1>0, <1>5 DEF TransferWeights, DiskInv, Orphan, Last, disk
<1>6. CASE PublishVersion
    <2>1. Len(metrics) = step /\ pointer'.exists /\ pointer'.step = step
          /\ UNCHANGED <<tracker, log, generation, checkpointSteps>> /\ pc = "publish"
        BY <1>0, <1>6 DEF PublishVersion, PhaseInv, Full, FullCalls, SyncCalls
    <2>2. CASE tracker = 0
        BY <1>0, <2>1, <2>2 DEF DiskInv, Orphan
    <2>3. CASE tracker > 0
        <3>1. Aligned /\ Clean
            BY <1>0, <2>1, <2>3 DEF LineageInv, Doomed, LiveCalls, FullCalls, SyncCalls
        <3>2. log # <<>> => Len(log) \in DOMAIN log
            BY <1>0
        <3>3. \A n \in Steps : ~Orphan(n)
            BY <2>1, <2>3, <3>1 DEF Clean, SaveCalls
        <3> QED
            BY <1>0, <2>1, <2>3, <3>1, <3>2, <3>3 DEF DiskInv, Orphan, Last, Aligned
    <2> QED
        BY <1>0, <2>2, <2>3 DEF TypeOK
<1>7. CASE AppendMetrics
    <2>1. CASE ~metricsPending
        BY <1>0, <1>7, <2>1 DEF AppendMetrics, DiskInv, Orphan, Last
    <2>2. CASE metricsPending
        <3> DEFINE e == [step |-> step, weights |-> metrics]
        <3>1. /\ log' = Append(log, e)
              /\ UNCHANGED <<tracker, generation, checkpointSteps, pointer>>
            BY <1>7, <2>2 DEF AppendMetrics
        <3>2. e \in Event /\ log \in Seq(Event) /\ pointer.step = step /\ step \in Nat
            BY <1>0, <1>7 DEF AppendMetrics, TypeOK, Event, PhaseInv, Full, FullCalls,
                   SyncCalls, PublicationInv, Published
        <3>3. log' # <<>> /\ Last' = step
            BY <3>1, <3>2 DEF Last
        <3> QED
            BY <1>0, <3>1, <3>2, <3>3 DEF DiskInv, Orphan
    <2> QED
        BY <2>1, <2>2
<1>8. CASE RefuseMetrics
    BY <1>0, <1>8 DEF RefuseMetrics, DiskInv, Orphan, Last, disk
<1>9. CASE CheckpointSleep
    BY <1>0, <1>9 DEF CheckpointSleep, DiskInv, Orphan, Last, disk
<1>10. CASE PrepareCheckpoint
    BY <1>0, <1>10 DEF PrepareCheckpoint, DiskInv, Orphan, Last, disk
<1>11. CASE RefuseCheckpoint
    BY <1>0, <1>11 DEF RefuseCheckpoint, DiskInv, Orphan, Last, disk
<1>12. CASE WriteShards
    <2>1. UNCHANGED <<tracker, log, checkpointSteps, pointer>>
        BY <1>12 DEF WriteShards
    <2>2. \A n \in Steps : Orphan(n)' => Orphan(n)
        BY <2>1, <1>0, <1>12, WriteShardsEffect DEF Orphan
    <2> QED
        BY <1>0, <2>1, <2>2 DEF DiskInv, Last
<1>13. CASE WriteProject
    <2>1. UNCHANGED <<tracker, log, checkpointSteps, pointer>> /\ pc = "project"
        BY <1>13 DEF WriteProject
    <2>2. \A n \in Steps : n # step /\ Orphan(n)' => Orphan(n)
        BY <2>1, <1>0, <1>13, WriteProjectEffect DEF Orphan
    <2>3. pointer.step = step
        BY <1>0, <2>1 DEF PublicationInv, Published, PhaseInv, Full, FullCalls,
               CheckpointCalls, SaveCalls
    <2>4. tracker = 0 /\ log = <<>> => step = 1 /\ 1 \in checkpointSteps
        <3> SUFFICES ASSUME tracker = 0, log = <<>> PROVE step = 1 /\ 1 \in checkpointSteps
            OBVIOUS
        <3>1. step \in Steps /\ step <= 1
            BY <1>0, <2>1 DEF WritingInv, LineageInv, LiveCalls, FullCalls,
                   CheckpointCalls, SaveCalls
        <3>2. step = 1
            BY <3>1 DEF Steps
        <3>3. metricsPending
            BY <1>0, <2>1, <3>2 DEF LineageInv, SaveCalls
        <3>4. step \in checkpointSteps
            BY <1>0, <2>1, <3>3 DEF FlagInv, CheckpointCalls, SaveCalls
        <3> QED
            BY <3>2, <3>4
    <2>5. tracker \in Nat
        BY <1>0 DEF TypeOK
    <2> QED
        BY <1>0, <2>1, <2>2, <2>3, <2>4, <2>5 DEF DiskInv, Last, Steps
<1>14. CASE WritePair
    <2>1. UNCHANGED <<tracker, log, checkpointSteps, pointer>>
        BY <1>14 DEF WritePair
    <2>2. \A n \in Steps : Orphan(n)' => Orphan(n)
        BY <2>1, <1>0, <1>14, WritePairEffect DEF Orphan
    <2> QED
        BY <1>0, <2>1, <2>2 DEF DiskInv, Last
<1>15. CASE WriteData
    <2>1. UNCHANGED <<tracker, log, checkpointSteps, pointer>>
        BY <1>15 DEF WriteData
    <2>2. \A n \in Steps : Orphan(n)' => Orphan(n)
        BY <2>1, <1>0, <1>15, WriteDataEffect DEF Orphan
    <2> QED
        BY <1>0, <2>1, <2>2 DEF DiskInv, Last
<1>16. CASE WriteTracker
    <2>1. tracker' = step /\ UNCHANGED <<generation, log, checkpointSteps, pointer>>
          /\ pc = "tracker" /\ step \in Steps
        BY <1>0, <1>16 DEF WriteTracker, WritingInv, SaveCalls
    <2>2. Aligned /\ Clean
        BY <1>0, <2>1 DEF LineageInv, SaveCalls
    <2>3. pointer.exists /\ pointer.step = step /\ Len(metrics) = step
        BY <1>0, <2>1 DEF PublicationInv, Published, PhaseInv, Full, FullCalls,
               CheckpointCalls, SaveCalls
    <2>4. log # <<>> => Len(log) \in DOMAIN log
        BY <1>0
    <2>5. tracker <= step
        BY <1>0, <2>1, <2>2, <2>3 DEF Aligned, TypeOK
    <2>6. \A n \in Steps : ~Orphan(n)'
        <3> SUFFICES ASSUME NEW n \in Steps, Orphan(n)' PROVE FALSE
            OBVIOUS
        <3>1. n \in Nat /\ step \in Nat /\ tracker \in Nat /\ step >= 1
            BY <1>0, <2>1, RunAssumption DEF Steps, TypeOK
        <3>2. n > step /\ Orphan(n)
            BY <2>1, <2>5, <3>1 DEF Orphan
        <3>3. n = step \/ (n = 1 /\ step <= 1)
            BY <2>2, <3>2 DEF Clean
        <3> QED
            BY <3>1, <3>2, <3>3
    <2> QED
        BY <2>1, <2>2, <2>3, <2>4, <2>6 DEF DiskInv, Last, Aligned
<1>17. CASE CheckpointWake
    BY <1>0, <1>17 DEF CheckpointWake, DiskInv, Orphan, Last, disk
<1>18. CASE NextBatch
    BY <1>0, <1>18 DEF NextBatch, DiskInv, Orphan, Last, disk
<1>19. CASE GenerateSequences
    BY <1>0, <1>19 DEF GenerateSequences, DiskInv, Orphan, Last, disk
<1>20. CASE SleepReplicas
    BY <1>0, <1>20 DEF SleepReplicas, DiskInv, Orphan, Last, disk
<1>21. CASE ValidateBatch
    BY <1>0, <1>21 DEF ValidateBatch, DiskInv, Orphan, Last, disk
<1>22. CASE UpdateActor
    BY <1>0, <1>22 DEF UpdateActor, DiskInv, Orphan, Last, disk
<1>23. CASE RecordStep
    BY <1>0, <1>23 DEF RecordStep, DiskInv, Orphan, Last, disk
<1>24. CASE RequestCheckpoint
    BY <1>0, <1>24 DEF RequestCheckpoint, DiskInv, Orphan, Last, disk
<1>25. CASE GiveUp
    BY <1>0, <1>25 DEF GiveUp, DiskInv, Orphan, Last, disk
<1>26. CASE AlreadySaved
    BY <1>0, <1>26 DEF AlreadySaved, DiskInv, Orphan, Last, disk
<1>27. CASE RecoverBoundary
    BY <1>0, <1>27 DEF RecoverBoundary, DiskInv, Orphan, Last, disk
<1>28. CASE Finish
    BY <1>0, <1>28 DEF Finish, DiskInv, Orphan, Last, disk
<1>29. CASE Fault
    BY <1>0, <1>29 DEF Fault, DiskInv, Orphan, Last, disk
<1>30. CASE Crash
    BY <1>0, <1>30 DEF Crash, DiskInv, Orphan, Last, disk
<1>31. CASE UNCHANGED vars
    BY <1>0, <1>31 DEF vars, DiskInv, Orphan, Last, disk
<1> QED
    BY <1>1, <1>2, <1>3, <1>4, <1>5, <1>6, <1>7, <1>8, <1>9, <1>10, <1>11, <1>12, <1>13,
           <1>14, <1>15, <1>16, <1>17, <1>18, <1>19, <1>20, <1>21, <1>22, <1>23, <1>24,
           <1>25, <1>26, <1>27, <1>28, <1>29, <1>30, <1>31
       DEF Next, Advance, Resume, Sync, Save, Train, Handle

\* Every step keeps the process on the lineage of the disk.
LEMMA LineageStep == IInv /\ [Next]_vars => LineageInv'
<1> SUFFICES ASSUME IInv, [Next]_vars PROVE LineageInv'
    OBVIOUS
<1>0. /\ TypeOK /\ PhaseInv /\ FlagInv /\ PublicationInv /\ ExactInv
      /\ WritingInv /\ LogInv /\ DiskInv /\ LineageInv /\ FailureInv
    BY DEF IInv
<1>1. CASE Launch
    <2>1. CASE tracker = 0 /\ log = <<>>
        <3>1. pc' = "sync" /\ step' = 0 /\ metrics' = <<>> /\ UNCHANGED disk
            BY <1>1, <2>1 DEF Launch
        <3>2. Aligned'
            BY <2>1, <3>1 DEF Aligned, disk
        <3>3. Clean'
            BY <1>0, <2>1, <3>1 DEF Clean, DiskInv, Orphan, disk
        <3> QED
            BY <2>1, <3>1, <3>2, <3>3 DEF LineageInv
    <2>2. CASE tracker = 0 /\ log # <<>>
        <3>1. pc' = "sync" /\ step' = 0 /\ UNCHANGED disk
            BY <1>1, <2>2 DEF Launch
        <3>2. Doomed'
            BY <1>0, <2>2, <3>1 DEF Doomed, LogInv, disk
        <3> QED
            BY <2>2, <3>1, <3>2 DEF LineageInv, SaveCalls
    <2>3. CASE tracker # 0
        BY <1>1, <2>3 DEF Launch, LineageInv, LiveCalls, FullCalls, SamplingCalls,
               SyncCalls, CheckpointCalls, SaveCalls
    <2> QED
        BY <2>1, <2>2, <2>3
<1>2. CASE LoadShards
    BY <1>0, <1>2 DEF LoadShards, LineageInv, LiveCalls, FullCalls, SamplingCalls,
           SyncCalls, SaveCalls, CheckpointCalls
<1>3. CASE RestoreProject
    <2>1. /\ tracker \in Steps /\ tracker > 0 /\ pc' = "sync"
          /\ step' = tracker /\ UNCHANGED disk
        BY <1>0, <1>3 DEF RestoreProject, PhaseInv, TypeOK, LoadCalls, Steps
    <2>2. /\ Len(generation[tracker].weights) = tracker
          /\ metrics' = generation[tracker].weights
          /\ pointer.step = tracker
        <3>1. Exact(tracker) /\ "project" \in generation[tracker].files
            BY <1>0, <2>1 DEF ExactInv
        <3>2. /\ Len(generation[tracker].weights) = tracker
              /\ generation[tracker].metrics = generation[tracker].weights
              /\ generation[tracker].policy.step = tracker
            BY <3>1 DEF Exact
        <3> QED
            BY <1>3, <3>2 DEF RestoreProject, ResumeAccepted, SameVersion
    <2>3. generation[tracker].weights \in Seq(Update)
        BY <1>0, <2>1 DEF TypeOK, Generation
    <2>4. \A i \in DOMAIN log : log[i].step <= tracker
        <3> SUFFICES ASSUME NEW i \in DOMAIN log PROVE log[i].step <= tracker
            OBVIOUS
        <3>1. log \in Seq(Event) /\ Len(log) \in DOMAIN log /\ 1 \in DOMAIN log
              /\ i \in 1..Len(log) /\ Len(log) \in Nat
            BY <1>0 DEF TypeOK
        <3>2. log[1] \in Event
            BY <3>1
        <3>3. log[i].step = log[1].step + (i - 1)
              /\ log[Len(log)].step = log[1].step + (Len(log) - 1)
            BY <1>0, <3>1 DEF LogInv
        <3>4. log[Len(log)].step <= tracker
            BY <1>0, <2>1, <2>2, <3>1 DEF DiskInv, Last
        <3>5. log[1].step \in Nat
            BY <3>2 DEF Event
        <3> QED
            BY <2>1, <3>1, <3>3, <3>4, <3>5 DEF Steps
    <2>5. Aligned'
        BY <1>0, <2>1, <2>2, <2>3, <2>4, WholePrefix DEF Aligned, LogInv, disk
    <2>6. Clean'
        BY <1>0, <2>1, <2>2 DEF Clean, Orphan, DiskInv, disk, Steps
    <2> QED
        BY <1>0, <2>1, <2>5, <2>6 DEF LineageInv, disk
<1>4. CASE RefuseResume
    BY <1>0, <1>4 DEF RefuseResume, LineageInv, LiveCalls, FullCalls, SamplingCalls,
           SyncCalls, SaveCalls, CheckpointCalls
<1>5. CASE TransferWeights
    BY <1>0, <1>5 DEF TransferWeights, LineageInv, Aligned, Doomed, Clean, Orphan,
           LiveCalls, FullCalls, SyncCalls, SaveCalls, disk, owners
<1>6. CASE PublishVersion
    BY <1>0, <1>6 DEF PublishVersion, LineageInv, Aligned, Doomed, Clean, Orphan,
           LiveCalls, FullCalls, SyncCalls, SaveCalls, owners
<1>7. CASE AppendMetrics
    <2>1. CASE ~metricsPending
        <3>1. UNCHANGED <<log, tracker, generation, checkpointSteps, metrics, step>>
              /\ pc = "append" /\ pc' \in {"batch", "done"}
            BY <1>7, <2>1 DEF AppendMetrics, owners
        <3>2. (Aligned /\ Clean) \/ Doomed
            BY <1>0, <3>1 DEF LineageInv, LiveCalls, FullCalls, SyncCalls
        <3>3. Aligned => Aligned'
            BY <3>1 DEF Aligned
        <3>4. Clean => Clean'
            BY <3>1 DEF Clean, Orphan, SaveCalls
        <3>5. Doomed => Doomed'
            BY <3>1 DEF Doomed
        <3>6. step > 0 => tracker = step
            BY <1>0, <2>1, <3>1 DEF PublicationInv, SyncCalls
        <3>7. step \in Nat
            BY <1>0 DEF TypeOK
        <3> QED
            BY <1>0, <3>1, <3>2, <3>3, <3>4, <3>5, <3>6, <3>7
               DEF LineageInv, Doomed, SaveCalls
    <2>2. CASE metricsPending
        <3> DEFINE e == [step |-> step, weights |-> metrics]
        <3>1. /\ log' = Append(log, e) /\ pc = "append" /\ pc' \in {"batch", "done"}
              /\ UNCHANGED <<tracker, generation, checkpointSteps, metrics, step>>
              /\ log # <<>> => log[Len(log)].step + 1 = step
            BY <1>7, <2>2 DEF AppendMetrics, owners, LogAccepts
        <3>2. metrics \in Seq(Update) /\ e \in Event /\ log \in Seq(Event) /\ step > 0
              /\ Len(metrics) = step /\ step \in Nat
            BY <1>0, <2>2, <3>1
               DEF TypeOK, Event, FlagInv, PhaseInv, Full, FullCalls, SyncCalls
        <3>3. ~Doomed
            <4> SUFFICES ASSUME Doomed PROVE FALSE
                OBVIOUS
            <4>1. log # <<>> /\ step = 1
                BY <3>2 DEF Doomed
            <4>2. Len(log) \in DOMAIN log
                BY <3>2, <4>1
            <4>3. log[Len(log)] \in Event /\ log[Len(log)].step > 0
                BY <1>0, <3>2, <4>2 DEF LogInv
            <4>4. log[Len(log)].step \in Nat
                BY <4>3 DEF Event
            <4> QED
                BY <3>1, <4>1, <4>3, <4>4
        <3>4. Aligned /\ Clean
            BY <1>0, <3>1, <3>3 DEF LineageInv, LiveCalls, FullCalls, SyncCalls
        <3>5. Aligned'
            <4>1. \A i \in DOMAIN log' : /\ log'[i].step <= Len(metrics)
                                        /\ log'[i].weights = Prefix(metrics, log'[i].step)
                <5> TAKE i \in DOMAIN log'
                <5>1. CASE i \in DOMAIN log
                    BY <3>1, <3>2, <3>4, <5>1 DEF Aligned
                <5>2. CASE i = Len(log) + 1
                    BY <3>1, <3>2, <5>2, WholePrefix
                <5> QED
                    BY <3>1, <3>2, <5>1, <5>2
            <4> QED
                BY <3>1, <3>4, <4>1 DEF Aligned
        <3>6. log' # <<>>
            BY <3>1, <3>2
        <3>7. Clean'
            <4>1. \A n \in Steps : ~Orphan(n)
                BY <1>0, <2>2, <3>1, <3>2, <3>4 DEF Clean, FlagInv
            <4> QED
                BY <3>1, <4>1 DEF Clean, Orphan
        <3> QED
            BY <3>1, <3>5, <3>6, <3>7 DEF LineageInv
    <2> QED
        BY <2>1, <2>2
<1>8. CASE RefuseMetrics
    BY <1>0, <1>8 DEF RefuseMetrics, LineageInv, LiveCalls, FullCalls, SamplingCalls,
           SyncCalls, SaveCalls, CheckpointCalls
<1>9. CASE CheckpointSleep
    <2>1. /\ pc = "quiet" /\ pc' = "prepare"
          /\ UNCHANGED <<disk, metrics, step, metricsPending>>
        BY <1>9 DEF CheckpointSleep, owners, flags
    <2>2. metricsPending /\ step \in checkpointSteps /\ step > 0 /\ step \in Nat
        BY <1>0, <2>1 DEF FlagInv, CheckpointCalls, SaveCalls, TypeOK
    <2>3. Aligned /\ Clean
        BY <1>0, <2>1, <2>2 DEF LineageInv, Doomed, LiveCalls, FullCalls, CheckpointCalls
    <2>4. Aligned'
        BY <2>1, <2>3 DEF Aligned, disk
    <2>5. Clean'
        BY <2>1, <2>3 DEF Clean, Orphan, disk, SaveCalls
    <2> QED
        BY <1>0, <2>1, <2>2, <2>4, <2>5
           DEF LineageInv, disk, LiveCalls, FullCalls, CheckpointCalls
<1>10. CASE PrepareCheckpoint
    BY <1>0, <1>10 DEF PrepareCheckpoint, LineageInv, Aligned, Clean, Orphan, LiveCalls,
           FullCalls, SaveCalls, CheckpointCalls, disk, flags
<1>11. CASE RefuseCheckpoint
    BY <1>0, <1>11 DEF RefuseCheckpoint, MayPrepare, MayCapture, BestEffortWake,
           LineageInv, Aligned, Doomed, Clean, Orphan, LiveCalls, FullCalls,
           SamplingCalls, Calls, SyncCalls, SaveCalls, CheckpointCalls, StepCalls,
           LoadCalls, disk, owners, flags, replicas
<1>12. CASE WriteShards
    <2>1. UNCHANGED <<tracker, log, checkpointSteps, metrics, step, metricsPending>>
          /\ pc \in SaveCalls /\ pc' \in SaveCalls
        BY <1>12 DEF WriteShards, owners, flags, SaveCalls
    <2>2. Aligned /\ Clean
        BY <1>0, <2>1 DEF LineageInv
    <2>3. tracker > 0 => generation'[tracker].weights = generation[tracker].weights
        <3>1. tracker > 0 => tracker \in Steps /\ tracker # step
            BY <1>0, <1>12 DEF WriteShards, TypeOK, Steps, ExactInv, WritingInv
        <3> QED
            BY <1>0, <1>12, <3>1, WriteShardsEffect
    <2>4. Aligned'
        BY <2>1, <2>2, <2>3 DEF Aligned
    <2>5. Clean'
        BY <1>0, <1>12, <2>1, <2>2, WriteShardsEffect DEF Clean, Orphan
    <2> QED
        BY <1>0, <2>1, <2>4, <2>5 DEF LineageInv, LiveCalls, FullCalls, CheckpointCalls
<1>13. CASE WriteProject
    <2>1. UNCHANGED <<tracker, log, checkpointSteps, metrics, step, metricsPending>>
          /\ pc \in SaveCalls /\ pc' \in SaveCalls
        BY <1>13 DEF WriteProject, owners, flags, SaveCalls
    <2>2. Aligned /\ Clean
        BY <1>0, <2>1 DEF LineageInv
    <2>3. tracker > 0 => generation'[tracker].weights = generation[tracker].weights
        <3>1. tracker > 0 => tracker \in Steps
            BY <1>0, <1>13 DEF TypeOK, Steps
        <3> QED
            BY <1>0, <1>13, <3>1, WriteProjectEffect
    <2>4. Aligned'
        BY <2>1, <2>2, <2>3 DEF Aligned
    <2>5. Clean'
        BY <1>0, <1>13, <2>1, <2>2, WriteProjectEffect DEF Clean, Orphan
    <2> QED
        BY <1>0, <2>1, <2>4, <2>5 DEF LineageInv, LiveCalls, FullCalls, CheckpointCalls
<1>14. CASE WritePair
    <2>1. UNCHANGED <<tracker, log, checkpointSteps, metrics, step, metricsPending>>
          /\ pc \in SaveCalls /\ pc' \in SaveCalls
        BY <1>14 DEF WritePair, owners, flags, SaveCalls
    <2>2. Aligned /\ Clean
        BY <1>0, <2>1 DEF LineageInv
    <2>3. tracker > 0 => generation'[tracker].weights = generation[tracker].weights
        <3>1. tracker > 0 => tracker \in Steps
            BY <1>0, <1>14 DEF TypeOK, Steps
        <3> QED
            BY <1>0, <1>14, <3>1, WritePairEffect
    <2>4. Aligned'
        BY <2>1, <2>2, <2>3 DEF Aligned
    <2>5. Clean'
        BY <1>0, <1>14, <2>1, <2>2, WritePairEffect DEF Clean, Orphan
    <2> QED
        BY <1>0, <2>1, <2>4, <2>5 DEF LineageInv, LiveCalls, FullCalls, CheckpointCalls
<1>15. CASE WriteData
    <2>1. UNCHANGED <<tracker, log, checkpointSteps, metrics, step, metricsPending>>
          /\ pc \in SaveCalls /\ pc' \in SaveCalls
        BY <1>15 DEF WriteData, owners, flags, SaveCalls
    <2>2. Aligned /\ Clean
        BY <1>0, <2>1 DEF LineageInv
    <2>3. tracker > 0 => generation'[tracker].weights = generation[tracker].weights
        <3>1. tracker > 0 => tracker \in Steps
            BY <1>0, <1>15 DEF TypeOK, Steps
        <3> QED
            BY <1>0, <1>15, <3>1, WriteDataEffect
    <2>4. Aligned'
        BY <2>1, <2>2, <2>3 DEF Aligned
    <2>5. Clean'
        BY <1>0, <1>15, <2>1, <2>2, WriteDataEffect DEF Clean, Orphan
    <2> QED
        BY <1>0, <2>1, <2>4, <2>5 DEF LineageInv, LiveCalls, FullCalls, CheckpointCalls
<1>16. CASE WriteTracker
    <2>1. tracker' = step /\ UNCHANGED <<generation, log, checkpointSteps, metrics, step>>
          /\ pc = "tracker" /\ step \in Steps /\ pc' \in {"wake", "down"}
        BY <1>0, <1>16 DEF WriteTracker, WritingInv, SaveCalls, owners
    <2>2. Aligned /\ Clean
        BY <1>0, <2>1 DEF LineageInv, SaveCalls
    <2>3. /\ Len(metrics) = step /\ generation[step].weights = metrics
          /\ metrics \in Seq(Update)
        BY <1>0, <2>1 DEF WritingInv, PhaseInv, Full, FullCalls, CheckpointCalls,
               SaveCalls, TypeOK
    <2>4. Aligned'
        BY <2>1, <2>2, <2>3, WholePrefix DEF Aligned
    <2>5. tracker <= step
        BY <1>0, <2>1, <2>2, <2>3 DEF Aligned, TypeOK
    <2>6. Clean'
        BY <1>0, <2>1, <2>2, <2>5 DEF Clean, Orphan, TypeOK
    <2> QED
        BY <2>1, <2>4, <2>6 DEF LineageInv
<1>17. CASE CheckpointWake
    BY <1>0, <1>17 DEF CheckpointWake, LineageInv, Aligned, Doomed, Clean, Orphan,
           LiveCalls, FullCalls, SaveCalls, CheckpointCalls, disk, owners
<1>18. CASE NextBatch
    <2>1. pc = "batch" /\ pc' = "generate" /\ step' = step + 1
          /\ UNCHANGED <<disk, metrics>> /\ step \in Nat /\ ~metricsPending
        BY <1>0, <1>18 DEF NextBatch, TypeOK, FlagInv, StepCalls
    <2>2. tracker = 0 /\ log = <<>> => step = 0
        BY <1>0, <2>1 DEF LineageInv
    <2>3. (Aligned /\ Clean) \/ (Doomed /\ step = 0)
        BY <1>0, <2>1 DEF LineageInv, LiveCalls, FullCalls
    <2>4. Aligned => Aligned'
        BY <2>1 DEF Aligned, disk
    <2>5. Clean => Clean'
        BY <2>1, <2>2 DEF Clean, Orphan, disk, SaveCalls
    <2>6. Doomed /\ step = 0 => Doomed'
        BY <2>1 DEF Doomed, disk
    <2> QED
        BY <2>1, <2>2, <2>3, <2>4, <2>5, <2>6 DEF LineageInv, SaveCalls, disk
<1>19. CASE GenerateSequences
    BY <1>0, <1>19 DEF GenerateSequences, LineageInv, Aligned, Doomed, Clean, Orphan,
           LiveCalls, SamplingCalls, SaveCalls, disk, owners
<1>20. CASE SleepReplicas
    BY <1>0, <1>20 DEF SleepReplicas, LineageInv, Aligned, Doomed, Clean, Orphan,
           LiveCalls, SamplingCalls, SaveCalls, disk, owners
<1>21. CASE ValidateBatch
    BY <1>0, <1>21 DEF ValidateBatch, LineageInv, Aligned, Doomed, Clean, Orphan,
           LiveCalls, SamplingCalls, SaveCalls, disk, owners
<1>22. CASE UpdateActor
    BY <1>0, <1>22 DEF UpdateActor, LineageInv, Aligned, Doomed, Clean, Orphan, LiveCalls,
           SamplingCalls, SaveCalls, disk
<1>23. CASE RecordStep
    <2>1. pc = "record" /\ pc' = "hook" /\ UNCHANGED <<disk, step>>
          /\ metrics' = Append(metrics, [batch |-> cursor, launch |-> launch])
        BY <1>23 DEF RecordStep
    <2>2. metrics \in Seq(Update) /\ [batch |-> cursor, launch |-> launch] \in Update
        BY <1>0, NewUpdate DEF TypeOK
    <2>3. Len(metrics) \in Nat /\ Len(metrics') = Len(metrics) + 1
        BY <2>1, <2>2
    <2>4. Aligned => Aligned'
        <3> SUFFICES ASSUME Aligned PROVE Aligned'
            OBVIOUS
        <3>1. tracker \in Nat
            BY <1>0 DEF TypeOK
        <3>2. \A i \in DOMAIN log : log[i].step \in Nat
            <4> SUFFICES ASSUME NEW i \in DOMAIN log PROVE log[i].step \in Nat
                OBVIOUS
            <4>1. log[i] \in Event
                BY <1>0 DEF TypeOK
            <4> QED
                BY <4>1 DEF Event
        <3> QED
            BY <2>1, <2>2, <2>3, <3>1, <3>2, PrefixOfAppend DEF Aligned, disk
    <2>5. Clean => Clean'
        BY <2>1 DEF Clean, Orphan, disk, SaveCalls
    <2>6. Doomed => Doomed'
        BY <2>1 DEF Doomed, disk
    <2> QED
        BY <1>0, <2>1, <2>4, <2>5, <2>6 DEF LineageInv, LiveCalls, SaveCalls, disk
<1>24. CASE RequestCheckpoint
    BY <1>0, <1>24 DEF RequestCheckpoint, LineageInv, Aligned, Doomed, Clean, Orphan,
           LiveCalls, FullCalls, SaveCalls, disk, owners
<1>25. CASE GiveUp
    BY <1>0, <1>25 DEF GiveUp, LineageInv, LiveCalls, FullCalls, SamplingCalls, SyncCalls,
           SaveCalls, CheckpointCalls
<1>26. CASE AlreadySaved
    BY <1>0, <1>26 DEF AlreadySaved, LineageInv, LiveCalls, FullCalls, SamplingCalls,
           SyncCalls, SaveCalls, CheckpointCalls
<1>27. CASE RecoverBoundary
    <2>1. pc' = "prepare" /\ UNCHANGED <<disk, metrics>>
        BY <1>27 DEF RecoverBoundary
    <2>2. Aligned /\ (\A n \in Steps : ~Orphan(n)) /\ (tracker > 0 \/ log # <<>>)
        BY <1>0, <1>27 DEF RecoverBoundary, FailureInv
    <2>3. Aligned'
        BY <2>1, <2>2 DEF Aligned, disk
    <2>4. Clean'
        BY <2>1, <2>2 DEF Clean, Orphan, disk
    <2> QED
        BY <2>1, <2>2, <2>3, <2>4 DEF LineageInv, disk
<1>28. CASE Finish
    BY <1>0, <1>28 DEF Finish, LineageInv, LiveCalls, FullCalls, SamplingCalls, SyncCalls,
           SaveCalls, CheckpointCalls
<1>29. CASE Fault
    BY <1>0, <1>29 DEF Fault, LineageInv, LiveCalls, FullCalls, SamplingCalls, SyncCalls,
           SaveCalls, CheckpointCalls
<1>30. CASE Crash
    BY <1>0, <1>30 DEF Crash, LineageInv, LiveCalls, FullCalls, SamplingCalls, SyncCalls,
           SaveCalls, CheckpointCalls
<1>31. CASE UNCHANGED vars
    BY <1>0, <1>31 DEF vars, LineageInv, Aligned, Doomed, Clean, Orphan, disk, owners, flags
<1> QED
    BY <1>1, <1>2, <1>3, <1>4, <1>5, <1>6, <1>7, <1>8, <1>9, <1>10, <1>11, <1>12, <1>13,
           <1>14, <1>15, <1>16, <1>17, <1>18, <1>19, <1>20, <1>21, <1>22, <1>23, <1>24,
           <1>25, <1>26, <1>27, <1>28, <1>29, <1>30, <1>31
       DEF Next, Advance, Resume, Sync, Save, Train, Handle

\* Every step preserves what the handler may rely on.
LEMMA FailureStep == IInv /\ [Next]_vars => FailureInv'
<1> SUFFICES ASSUME IInv, [Next]_vars PROVE FailureInv'
    OBVIOUS
<1>0. /\ TypeOK /\ PhaseInv /\ FlagInv /\ PublicationInv /\ ExactInv
      /\ LogInv /\ DiskInv /\ LineageInv /\ FailureInv
    BY DEF IInv
<1>1. CASE Launch
    BY <1>0, <1>1 DEF Launch, FailureInv
<1>2. CASE LoadShards
    BY <1>0, <1>2 DEF LoadShards, FailureInv
<1>3. CASE RestoreProject
    BY <1>0, <1>3 DEF RestoreProject, FailureInv
<1>4. CASE RefuseResume
    <2>1. boundary.step = 0 /\ metrics = <<>> /\ UNCHANGED <<boundary, metrics>>
        BY <1>0, <1>4 DEF RefuseResume, PhaseInv, Fresh, LoadCalls, owners
    <2> QED
        BY <2>1 DEF FailureInv, NothingToSave
<1>5. CASE TransferWeights
    BY <1>0, <1>5 DEF TransferWeights, FailureInv
<1>6. CASE PublishVersion
    BY <1>0, <1>6 DEF PublishVersion, FailureInv
<1>7. CASE AppendMetrics
    BY <1>0, <1>7 DEF AppendMetrics, FailureInv
<1>8. CASE RefuseMetrics
    <2>1. metricsPending'
        BY <1>8 DEF RefuseMetrics, flags
    <2> QED
        BY <2>1 DEF FailureInv, BoundaryIsComplete
<1>9. CASE CheckpointSleep
    BY <1>0, <1>9 DEF CheckpointSleep, FailureInv
<1>10. CASE PrepareCheckpoint
    BY <1>0, <1>10 DEF PrepareCheckpoint, FailureInv
<1>11. CASE RefuseCheckpoint
    <2>1. CASE recovering
        BY <1>11, <2>1 DEF RefuseCheckpoint, FailureInv
    <2>2. CASE ~recovering
        <3>1. metricsPending'
            BY <1>0, <1>11, <2>2 DEF RefuseCheckpoint, FlagInv, CheckpointCalls, SaveCalls
        <3> QED
            BY <3>1 DEF FailureInv, BoundaryIsComplete
    <2> QED
        BY <2>1, <2>2
<1>12. CASE WriteShards
    BY <1>0, <1>12 DEF WriteShards, FailureInv
<1>13. CASE WriteProject
    BY <1>0, <1>13 DEF WriteProject, FailureInv
<1>14. CASE WritePair
    BY <1>0, <1>14 DEF WritePair, FailureInv
<1>15. CASE WriteData
    BY <1>0, <1>15 DEF WriteData, FailureInv
<1>16. CASE WriteTracker
    BY <1>0, <1>16 DEF WriteTracker, FailureInv
<1>17. CASE CheckpointWake
    BY <1>0, <1>17 DEF CheckpointWake, FailureInv
<1>18. CASE NextBatch
    BY <1>0, <1>18 DEF NextBatch, FailureInv
<1>19. CASE GenerateSequences
    BY <1>0, <1>19 DEF GenerateSequences, FailureInv
<1>20. CASE SleepReplicas
    BY <1>0, <1>20 DEF SleepReplicas, FailureInv
<1>21. CASE ValidateBatch
    BY <1>0, <1>21 DEF ValidateBatch, FailureInv
<1>22. CASE UpdateActor
    BY <1>0, <1>22 DEF UpdateActor, FailureInv
<1>23. CASE RecordStep
    BY <1>0, <1>23 DEF RecordStep, FailureInv
<1>24. CASE RequestCheckpoint
    BY <1>0, <1>24 DEF RequestCheckpoint, FailureInv
<1>25. CASE GiveUp
    BY <1>0, <1>25 DEF GiveUp, FailureInv
<1>26. CASE AlreadySaved
    BY <1>0, <1>26 DEF AlreadySaved, FailureInv
<1>27. CASE RecoverBoundary
    BY <1>0, <1>27 DEF RecoverBoundary, FailureInv
<1>28. CASE Finish
    BY <1>0, <1>28 DEF Finish, FailureInv
<1>29. CASE Fault
    <2> SUFFICES ASSUME pc' = "failing", ~NothingToSave', BoundaryIsComplete'
                 PROVE  FailureInv'
        BY DEF FailureInv
    <2>1. /\ ~recovering /\ ~inflight /\ ~metricsPending
          /\ pc \in Calls
          /\ UNCHANGED <<disk, step, cursor>>
          /\ pc # "record" => UNCHANGED <<metrics, boundary>>
          /\ pc # "update" => UNCHANGED actor
        BY <1>0, <1>29 DEF Fault, BoundaryIsComplete
    <2>2. pc \in SyncCalls \cup {"batch", "generate", "sleep", "validate"}
          /\ UNCHANGED <<actor, metrics, boundary>>
        <3>1. pc \notin {"update", "record", "hook"} \cup CheckpointCalls
            BY <1>0, <2>1 DEF FlagInv
        <3>2. pc \notin LoadCalls
            BY <1>0, <2>1, <3>1 DEF PhaseInv, Fresh, NothingToSave
        <3> QED
            BY <2>1, <3>1, <3>2 DEF Calls, StepCalls
    <2>3. actor \in Seq(Update) /\ step \in Nat /\ tracker \in Nat /\ Len(actor) \in Nat
          /\ Len(actor) <= TotalSteps
        BY <1>0 DEF TypeOK, PhaseInv
    <2>4. metrics = actor /\ boundary = [step |-> Len(actor), cursor |-> Len(actor)]
        BY <1>0, <2>2, <2>3 DEF PhaseInv, Full, Sampling, FullCalls, SamplingCalls
    <2>5. Len(actor) \in Steps
        <3>1. actor # <<>> \/ Len(actor) # 0
            BY <2>2, <2>4 DEF NothingToSave
        <3> QED
            BY <2>3, <3>1 DEF Steps
    <2>6. CASE pc \in SyncCalls
        <3>1. step > 0 /\ Len(actor) = step
            BY <1>0, <2>3, <2>5, <2>6 DEF PhaseInv, Full, FullCalls, Steps
        <3>2. tracker = step
            BY <1>0, <2>1, <2>6, <3>1 DEF PublicationInv
        <3>3. Aligned /\ Clean
            BY <1>0, <2>6, <3>1, <3>2 DEF LineageInv, LiveCalls, FullCalls, Doomed
        <3>4. Exact(tracker) /\ {"project", "pair"} \subseteq generation[tracker].files
            BY <1>0, <2>5, <3>1, <3>2 DEF ExactInv
        <3>5. generation[tracker].weights = actor
            BY <2>3, <2>4, <3>1, <3>2, <3>3, WholePrefix DEF Aligned
        <3>6. /\ pointer.exists /\ pointer.step = Len(actor)
              /\ VersionNamesWeights => pointer.weights = actor
            <4>1. CASE pc = "append"
                BY <1>0, <4>1 DEF PublicationInv, Published
            <4>2. CASE pc \in {"sync", "publish"}
                <5>1. ResumeAccepted
                    BY <1>0, <2>1, <3>1, <4>2 DEF PublicationInv
                <5>2. generation[tracker].policy.step = tracker
                      /\ generation[tracker].policy.weights = actor
                    BY <3>4, <3>5 DEF Exact
                <5> QED
                    BY <3>1, <3>2, <5>1, <5>2 DEF ResumeAccepted, SameVersion
            <4> QED
                BY <2>6, <4>1, <4>2 DEF SyncCalls
        <3>7. Committed(Len(actor))
            BY <3>1, <3>2, <3>4 DEF Committed
        <3>8. \A n \in Steps : ~Orphan(n)
            BY <2>6, <3>1, <3>2, <3>3 DEF Clean, SyncCalls, SaveCalls
        <3> QED
            BY <2>1, <2>2, <2>3, <2>4, <2>5, <3>1, <3>2, <3>3, <3>6, <3>7, <3>8
               DEF FailureInv, Aligned, Orphan, Committed, disk
    <2>7. CASE pc \in {"batch", "generate", "sleep", "validate"}
        <3>1. pointer = [exists |-> TRUE, step |-> Len(actor), weights |-> actor]
            BY <1>0, <2>7 DEF PublicationInv, Published, SamplingCalls
        <3>2. IF pc = "batch" THEN step > 0 ELSE step > 1
            BY <1>0, <2>3, <2>5, <2>7
               DEF PhaseInv, Full, Sampling, FullCalls, SamplingCalls, Steps
        <3>3. Aligned /\ Clean
            BY <1>0, <2>3, <2>7, <3>2 DEF LineageInv, LiveCalls, SamplingCalls, Doomed
        <3>4. tracker > 0 \/ log # <<>>
            BY <1>0, <2>1, <2>3, <2>7, <3>2 DEF LineageInv, LiveCalls, SamplingCalls
        <3>5. \A n \in Steps : ~Orphan(n)
            BY <2>3, <2>7, <3>3, <3>4 DEF Clean, SaveCalls
        <3>6. sleepFlag' => awake' = {}
            BY <1>0, <1>29, <2>7
               DEF Fault, ReplicasAfterFault, replicas, PublicationInv, SaveCalls,
                   CheckpointCalls
        <3> QED
            BY <2>1, <2>2, <2>3, <2>4, <2>5, <3>1, <3>3, <3>4, <3>5, <3>6
               DEF FailureInv, Aligned, Orphan, disk
    <2> QED
        BY <2>2, <2>6, <2>7
<1>30. CASE Crash
    BY <1>0, <1>30 DEF Crash, FailureInv
<1>31. CASE UNCHANGED vars
    BY <1>0, <1>31 DEF vars, disk, owners, flags, replicas, FailureInv, NothingToSave,
           BoundaryIsComplete, Committed, Aligned, Orphan
<1> QED
    BY <1>1, <1>2, <1>3, <1>4, <1>5, <1>6, <1>7, <1>8, <1>9, <1>10, <1>11, <1>12, <1>13,
           <1>14, <1>15, <1>16, <1>17, <1>18, <1>19, <1>20, <1>21, <1>22, <1>23, <1>24,
           <1>25, <1>26, <1>27, <1>28, <1>29, <1>30, <1>31
       DEF Next, Advance, Resume, Sync, Save, Train, Handle

\* Every step keeps a saved boundary resumable.
LEMMA OutcomeStep == IInv /\ [Next]_vars => OutcomeInv'
<1> SUFFICES ASSUME IInv, [Next]_vars PROVE OutcomeInv'
    OBVIOUS
<1>0. /\ TypeOK /\ PhaseInv /\ FlagInv /\ PublicationInv /\ ExactInv
      /\ WritingInv /\ LineageInv /\ FailureInv /\ OutcomeInv
    BY DEF IInv
<1>1. CASE Launch
    BY <1>0, <1>1 DEF Launch, OutcomeInv, SavedIsResumable
<1>2. CASE LoadShards
    BY <1>0, <1>2 DEF LoadShards, OutcomeInv, SavedIsResumable
<1>3. CASE RestoreProject
    BY <1>0, <1>3 DEF RestoreProject, OutcomeInv, SavedIsResumable
<1>4. CASE RefuseResume
    BY <1>0, <1>4 DEF RefuseResume, OutcomeInv, SavedIsResumable
<1>5. CASE TransferWeights
    BY <1>0, <1>5 DEF TransferWeights, OutcomeInv, SavedIsResumable
<1>6. CASE PublishVersion
    BY <1>0, <1>6 DEF PublishVersion, OutcomeInv, SavedIsResumable
<1>7. CASE AppendMetrics
    BY <1>0, <1>7 DEF AppendMetrics, OutcomeInv, SavedIsResumable
<1>8. CASE RefuseMetrics
    BY <1>0, <1>8 DEF RefuseMetrics, OutcomeInv, SavedIsResumable
<1>9. CASE CheckpointSleep
    BY <1>0, <1>9 DEF CheckpointSleep, OutcomeInv, SavedIsResumable
<1>10. CASE PrepareCheckpoint
    BY <1>0, <1>10 DEF PrepareCheckpoint, OutcomeInv, SavedIsResumable
<1>11. CASE RefuseCheckpoint
    BY <1>0, <1>11 DEF RefuseCheckpoint, OutcomeInv, SavedIsResumable
<1>12. CASE WriteShards
    BY <1>0, <1>12 DEF WriteShards, OutcomeInv, SavedIsResumable
<1>13. CASE WriteProject
    BY <1>0, <1>13 DEF WriteProject, OutcomeInv, SavedIsResumable
<1>14. CASE WritePair
    BY <1>0, <1>14 DEF WritePair, OutcomeInv, SavedIsResumable
<1>15. CASE WriteData
    BY <1>0, <1>15 DEF WriteData, OutcomeInv, SavedIsResumable
<1>16. CASE WriteTracker
    <2>1. CASE ~recovering
        BY <1>16, <2>1 DEF WriteTracker, OutcomeInv, SavedIsResumable
    <2>2. CASE recovering
        <3>1. pc = "tracker" /\ step \in Steps /\ tracker' = step
              /\ UNCHANGED <<generation, pointer, boundary>>
            BY <1>0, <1>16 DEF WriteTracker, WritingInv, SaveCalls, owners
        <3>2. boundary.step = step /\ pointer.exists /\ pointer.step = step
              /\ pointer.weights = actor
            BY <1>0, <3>1 DEF PhaseInv, Full, FullCalls, CheckpointCalls, SaveCalls,
                   PublicationInv, Published
        <3>3. {"project", "pair"} \subseteq generation[step].files
              /\ generation[step].policy.step = step
              /\ generation[step].policy.weights = actor
            <4>1. Exact(step) /\ {"project", "pair"} \subseteq generation[step].files
                  /\ generation[step].weights = actor
                BY <1>0, <3>1 DEF WritingInv, ExactInv
            <4> QED
                BY <4>1 DEF Exact
        <3> QED
            BY <3>1, <3>2, <3>3
               DEF OutcomeInv, SavedIsResumable, Committed, ResumeAccepted, SameVersion,
                   Steps
    <2> QED
        BY <2>1, <2>2
<1>17. CASE CheckpointWake
    BY <1>0, <1>17 DEF CheckpointWake, OutcomeInv, SavedIsResumable
<1>18. CASE NextBatch
    BY <1>0, <1>18 DEF NextBatch, OutcomeInv, SavedIsResumable
<1>19. CASE GenerateSequences
    BY <1>0, <1>19 DEF GenerateSequences, OutcomeInv, SavedIsResumable
<1>20. CASE SleepReplicas
    BY <1>0, <1>20 DEF SleepReplicas, OutcomeInv, SavedIsResumable
<1>21. CASE ValidateBatch
    BY <1>0, <1>21 DEF ValidateBatch, OutcomeInv, SavedIsResumable
<1>22. CASE UpdateActor
    BY <1>0, <1>22 DEF UpdateActor, OutcomeInv, SavedIsResumable
<1>23. CASE RecordStep
    BY <1>0, <1>23 DEF RecordStep, OutcomeInv, SavedIsResumable
<1>24. CASE RequestCheckpoint
    BY <1>0, <1>24 DEF RequestCheckpoint, OutcomeInv, SavedIsResumable
<1>25. CASE GiveUp
    BY <1>0, <1>25 DEF GiveUp, OutcomeInv, SavedIsResumable
<1>26. CASE AlreadySaved
    <2>1. UNCHANGED <<disk, boundary>>
        BY <1>26 DEF AlreadySaved, owners
    <2>2. /\ metrics = actor /\ Len(actor) \in Steps /\ boundary.step = Len(actor)
          /\ Aligned /\ (\A n \in Steps : ~Orphan(n))
          /\ pointer.exists /\ pointer.step = Len(actor)
          /\ VersionNamesWeights => pointer.weights = actor
          /\ Committed(Len(actor))
        BY <1>0, <1>26 DEF AlreadySaved, FailureInv
    <2>3. tracker = Len(actor) /\ tracker > 0
        BY <1>0, <2>2 DEF Aligned, Orphan, Committed, Steps, TypeOK
    <2>4. /\ generation[tracker].policy.step = tracker
          /\ generation[tracker].policy.weights = generation[tracker].weights
        <3>1. Exact(tracker) /\ "project" \in generation[tracker].files
            BY <1>0, <2>2, <2>3 DEF ExactInv
        <3> QED
            BY <3>1 DEF Exact
    <2>5. generation[tracker].weights = actor
        BY <1>0, <2>2, <2>3, WholePrefix DEF Aligned, TypeOK
    <2> QED
        BY <2>1, <2>2, <2>3, <2>4, <2>5
           DEF OutcomeInv, SavedIsResumable, Committed, ResumeAccepted, SameVersion, disk
<1>27. CASE RecoverBoundary
    BY <1>0, <1>27 DEF RecoverBoundary, OutcomeInv, SavedIsResumable
<1>28. CASE Finish
    BY <1>0, <1>28 DEF Finish, OutcomeInv, SavedIsResumable
<1>29. CASE Fault
    BY <1>0, <1>29 DEF Fault, OutcomeInv, SavedIsResumable
<1>30. CASE Crash
    BY <1>0, <1>30 DEF Crash, OutcomeInv, SavedIsResumable
<1>31. CASE UNCHANGED vars
    BY <1>0, <1>31 DEF vars, OutcomeInv, SavedIsResumable, Committed, ResumeAccepted,
           disk, owners
<1> QED
    BY <1>1, <1>2, <1>3, <1>4, <1>5, <1>6, <1>7, <1>8, <1>9, <1>10, <1>11, <1>12, <1>13,
           <1>14, <1>15, <1>16, <1>17, <1>18, <1>19, <1>20, <1>21, <1>22, <1>23, <1>24,
           <1>25, <1>26, <1>27, <1>28, <1>29, <1>30, <1>31
       DEF Next, Advance, Resume, Sync, Save, Train, Handle

-----------------------------------------------------------------------------
(* The invariant and the properties.                                       *)

\* The first state: nothing on the disk, no process.
LEMMA InitInvariant == Init => IInv
<1> SUFFICES ASSUME Init PROVE IInv
    OBVIOUS
<1>1. TypeOK
    <2>1. generation \in [Steps -> Generation]
        BY DEF Init, NoGeneration, Generation, NoVersion, Version, Cursor
    <2>2. pointer \in Version /\ progress \in Cursor /\ boundary \in Cursor
        BY DEF Init, NoVersion, Version, Cursor
    <2>3. /\ checkpointSteps \in SUBSET Steps /\ tracker \in 0..TotalSteps
          /\ log \in Seq(Event) /\ launch \in 0..MaxLaunches /\ step \in 0..TotalSteps
          /\ actor \in Seq(Update) /\ metrics \in Seq(Update) /\ cursor \in Nat
          /\ held \in [Replicas -> Seq(Update)] /\ faults \in 0..MaxFaults
        BY RunAssumption DEF Init
    <2> QED
        BY <2>1, <2>2, <2>3 DEF Init, TypeOK
<1>2. PhaseInv /\ FlagInv /\ PublicationInv /\ WritingInv /\ LineageInv
    BY RunAssumption DEF Init, PhaseInv, FlagInv, PublicationInv, WritingInv, LineageInv,
           InOrder, LiveCalls, FullCalls, SamplingCalls, SyncCalls, SaveCalls,
           CheckpointCalls, LoadCalls
<1>3. ExactInv /\ DiskInv
    BY DEF Init, ExactInv, Exact, DiskInv, Orphan, NoGeneration
<1>4. LogInv
    BY DEF Init, LogInv
<1>5. FailureInv /\ OutcomeInv
    BY DEF Init, FailureInv, OutcomeInv, SavedIsResumable
<1> QED
    BY <1>1, <1>2, <1>3, <1>4, <1>5 DEF IInv

\* Every step preserves the invariant.
LEMMA StepInvariant == IInv /\ [Next]_vars => IInv'
    BY TypeStep, PhaseStep, FlagStep, PublicationStep, ExactStep, WritingStep, LogStep,
           DiskStep, LineageStep, FailureStep, OutcomeStep
       DEF IInv

-----------------------------------------------------------------------------
(* The run without its machinery.                                          *)

\* How launches end: only a complete run counts as trained, and it is over.
EndInv == /\ Trained => pc = "down"
          /\ pc = "done" => step = TotalSteps

LEMMA EndStep == EndInv /\ [Next]_vars => EndInv'
<1> SUFFICES ASSUME EndInv, [Next]_vars PROVE EndInv'
    OBVIOUS
<1>1. CASE UNCHANGED vars
    BY <1>1 DEF EndInv, Trained, vars
<1>2. CASE Resume
    BY <1>2 DEF EndInv, Trained, Resume, Launch, LoadShards, RestoreProject, RefuseResume
<1>3. CASE Sync
    BY <1>3 DEF EndInv, Trained, Sync, TransferWeights, PublishVersion, AppendMetrics,
                RefuseMetrics, CompletedResume
<1>4. CASE Save
    BY <1>4 DEF EndInv, Trained, Save, CheckpointSleep, PrepareCheckpoint,
                RefuseCheckpoint, WriteShards, WriteProject, WritePair, WriteData,
                WriteTracker, CheckpointWake
<1>5. CASE Train
    BY <1>5 DEF EndInv, Trained, Train, NextBatch, GenerateSequences, SleepReplicas,
                ValidateBatch, UpdateActor, RecordStep, RequestCheckpoint
<1>6. CASE Handle
    BY <1>6 DEF EndInv, Trained, Handle, GiveUp, AlreadySaved, RecoverBoundary
<1>7. CASE Finish \/ Fault \/ Crash
    BY <1>7 DEF EndInv, Trained, Finish, Fault, Crash, Calls, SyncCalls,
                CheckpointCalls, SaveCalls, StepCalls, LoadCalls
<1> QED
    BY <1>1, <1>2, <1>3, <1>4, <1>5, <1>6, <1>7 DEF Next, Advance

\* A live call is one of a process that continues what was saved.
LEMMA LiveCallsTrain ==
    ASSUME IInv, pc \in LiveCalls
    PROVE  Training
<1>1. tracker \in Nat /\ Len(actor) \in Nat
    BY RunAssumption DEF IInv, TypeOK
<1>2. CASE pc \in FullCalls
    BY <1>1, <1>2 DEF IInv, LineageInv, Aligned, Doomed, PhaseInv, Full, Training,
              FullCalls, SyncCalls, CheckpointCalls, SaveCalls
<1>3. CASE pc \in SamplingCalls
    BY <1>1, <1>3 DEF IInv, LineageInv, Aligned, Doomed, PhaseInv, Sampling, Training,
              SamplingCalls, LiveCalls
<1>4. CASE pc = "record"
    <2>1. /\ actor = Append(metrics, [batch |-> cursor, launch |-> launch])
          /\ metrics \in Seq(Update)
        BY <1>4 DEF IInv, TypeOK, PhaseInv, Updated
    <2>2. Len(metrics) \in Nat /\ Len(actor) = Len(metrics) + 1
        BY <2>1
    <2>3. tracker = 0 \/ tracker <= Len(metrics)
        <3>1. pc \in LiveCalls
            BY <1>4 DEF LiveCalls
        <3>2. Aligned \/ Doomed
            BY <3>1 DEF IInv, LineageInv
        <3> QED
            BY <1>1, <3>2 DEF Aligned, Doomed
    <2> QED
        BY <1>1, <1>4, <2>2, <2>3 DEF Training
<1> QED
    BY <1>2, <1>3, <1>4 DEF LiveCalls

\* What was saved is of the tracker's step, and only the tracker replaces it.
LEMMA SavedLength ==
    ASSUME IInv
    PROVE  Saved \in Seq(Update) /\ Len(Saved) = tracker /\ tracker \in Nat
<1>1. CASE tracker = 0
    BY <1>1 DEF Saved
<1>2. CASE tracker # 0
    <2>1. tracker \in Steps /\ generation[tracker] \in Generation
        BY <1>2, RunAssumption DEF IInv, TypeOK, Steps
    <2>2. Len(generation[tracker].weights) = tracker
        <3>1. Exact(tracker)
            BY <2>1 DEF IInv, ExactInv
        <3>2. tracker \in Nat /\ tracker > 0
            BY <2>1, RunAssumption DEF Steps
        <3>3. {"project", "pair", "data"} \subseteq generation[tracker].files
            BY <3>2 DEF IInv, ExactInv
        <3> QED
            BY <3>1, <3>3 DEF Exact
    <2> QED
        BY <1>2, <2>1, <2>2 DEF Saved, Generation, Steps
<1> QED
    BY <1>1, <1>2

LEMMA SavedKept ==
    ASSUME IInv, [Next]_vars, ~WriteTracker
    PROVE  tracker' = tracker /\ Saved' = Saved
<1>1. tracker = 0 \/ tracker \in Steps
    BY RunAssumption DEF IInv, TypeOK, Steps
<1>2. CASE WriteShards
    <2>1. step # tracker
        BY <1>2 DEF IInv, WritingInv, ExactInv, WriteShards, Steps, SaveCalls
    <2> QED
        BY <1>1, <1>2, <2>1, WriteShardsEffect DEF IInv, Saved, WriteShards
<1>3. CASE WriteProject
    BY <1>1, <1>3, WriteProjectEffect DEF IInv, Saved, WriteProject
<1>4. CASE WritePair
    BY <1>1, <1>4, WritePairEffect DEF IInv, Saved, WritePair
<1>5. CASE WriteData
    BY <1>1, <1>5, WriteDataEffect DEF IInv, Saved, WriteData
<1>6. CASE ~(WriteShards \/ WriteProject \/ WritePair \/ WriteData)
    <2>1. UNCHANGED <<generation, tracker>>
        BY <1>6 DEF vars, disk, Next, Advance, Resume, Launch, LoadShards,
                    RestoreProject, RefuseResume, Sync, TransferWeights, PublishVersion,
                    AppendMetrics, RefuseMetrics, Save, CheckpointSleep,
                    PrepareCheckpoint, RefuseCheckpoint, CheckpointWake, Train,
                    NextBatch, GenerateSequences, SleepReplicas, ValidateBatch,
                    UpdateActor, RecordStep, RequestCheckpoint, Handle, GiveUp,
                    AlreadySaved, RecoverBoundary, Finish, Fault, Crash
    <2> QED
        BY <2>1 DEF Saved
<1> QED
    BY <1>2, <1>3, <1>4, <1>5, <1>6

\* What the abstract run sees of a step: nothing, or that the launch has ended.
Quiet == /\ (pc' = "down" <=> pc = "down") /\ actor' = actor /\ tracker' = tracker
         /\ Trained' = Trained
Ends == /\ pc # "down" /\ pc' = "down" /\ tracker' = tracker /\ actor' = actor
        /\ Trained' => pc = "done"

LEMMA QuietIsStutter ==
    ASSUME Quiet, Saved' = Saved
    PROVE  UNCHANGED Resumable!vars
  BY DEF Quiet, Resumable!vars, Training, Live

LEMMA EndsIsStop ==
    ASSUME IInv, EndInv, Ends, Saved' = Saved
    PROVE  [Resumable!Next]_(Resumable!vars)
<1>1. ~Training' /\ Live' = <<>> /\ ~Trained
    BY DEF Ends, Training, Live, EndInv
<1>2. Trained \in BOOLEAN /\ Trained' \in BOOLEAN /\ Training \in BOOLEAN /\ Training' \in BOOLEAN
    BY DEF Trained, Training
<1>3. CASE Training
    <2>1. Trained' => Len(Live) = TotalSteps
        BY <1>3 DEF Ends, EndInv, IInv, PhaseInv, Full, FullCalls, Live
    <2>2. Resumable!Stop
        BY <1>1, <1>2, <1>3, <2>1, Zenon DEF Resumable!Stop, Resumable!Halt
    <2> QED
        BY <2>2 DEF Resumable!Next
<1>4. CASE ~Training
    <2>1. pc # "done"
        BY <1>4, LiveCallsTrain DEF LiveCalls, FullCalls
    <2>2. ~Trained' /\ Live = <<>>
        BY <1>4, <2>1 DEF Ends, Live
    <2> QED
        BY <1>1, <1>2, <1>4, <2>2, Zenon DEF Resumable!vars
<1> QED
    BY <1>3, <1>4

\* An update is of the batch after those the weights are made of.
LEMMA UpdateIsLearn ==
    ASSUME IInv, EndInv, pc = "update", pc' # "down", tracker' = tracker, Saved' = Saved,
           actor' = Append(actor, [batch |-> cursor, launch |-> launch]), ~Trained'
    PROVE  Resumable!Next
<1>1. Training /\ ~Trained
    BY LiveCallsTrain DEF LiveCalls, SamplingCalls, EndInv
<1>2. /\ Len(actor) = step - 1 /\ cursor = step /\ step \in 1..TotalSteps
      /\ actor \in Seq(Update) /\ launch \in 0..MaxLaunches /\ tracker \in Nat
    BY RunAssumption DEF IInv, TypeOK, PhaseInv, Sampling, SamplingCalls
<1> DEFINE u == [batch |-> cursor, launch |-> launch]
<1>3. u \in [batch: Steps, launch: 0..MaxLaunches] /\ u.batch = cursor
    BY <1>2 DEF Steps
<1> HIDE DEF u
<1>4. Len(actor') = Len(actor) + 1
    BY <1>2 DEF u
<1>5. Training'
    BY <1>1, <1>2, <1>4 DEF Training
<1>6. Live = actor /\ Live' = actor'
    BY <1>1, <1>5 DEF Live
<1>7. u.batch = Len(Live) + 1 /\ u.batch <= TotalSteps
    BY <1>2, <1>3, <1>6
<1>8. Live' = Append(Live, u)
    BY <1>6 DEF u
<1>9. Training' = Training /\ Trained' = Trained
    BY <1>1, <1>5, Zenon DEF Training, Trained
<1>10. Resumable!Learn(u)
    BY <1>1, <1>7, <1>8, <1>9 DEF Resumable!Learn
<1> QED
    BY <1>3, <1>10 DEF Resumable!Next

\* The tracker is replaced by what the process is training.
LEMMA TrackerIsSave ==
    ASSUME IInv, EndInv, WriteTracker
    PROVE  Resumable!Next
<1>1. /\ pc = "tracker" /\ step \in Steps /\ generation[step].weights = actor
      /\ Len(actor) = step /\ generation' = generation /\ tracker' = step
      /\ actor' = actor /\ actor \in Seq(Update)
    BY DEF WriteTracker, IInv, TypeOK, WritingInv, PhaseInv, Full, FullCalls,
           CheckpointCalls, SaveCalls, owners
<1>2. Training /\ ~Trained
    BY <1>1, LiveCallsTrain DEF LiveCalls, FullCalls, CheckpointCalls, SaveCalls, EndInv
<1>3. Saved' = actor
    BY <1>1 DEF Saved, Steps
<1>4. Live = actor
    BY <1>2 DEF Live
<1>5. ~Trained'
    BY <1>2 DEF WriteTracker, Trained
<1>6. Trained' = Trained
    BY <1>2, <1>5, Zenon DEF Trained
<1>7. CASE recovering
    <2>1. ~Training' /\ Live' = <<>>
        BY <1>7 DEF WriteTracker, Training, Live
    <2>2. Training' = FALSE
        BY <2>1, Zenon DEF Training
    <2> QED
        BY <1>2, <1>3, <1>4, <1>6, <2>1, <2>2
           DEF Resumable!Next, Resumable!Save, Resumable!Halt
<1>8. CASE ~recovering
    <2>1. Training'
        BY <1>1, <1>8 DEF WriteTracker, Training, Steps
    <2>2. Live' = Live
        BY <1>1, <1>4, <2>1 DEF Live
    <2>3. Training' = Training
        BY <1>2, <2>1, Zenon DEF Training
    <2> QED
        BY <1>2, <1>3, <1>4, <1>6, <2>2, <2>3 DEF Resumable!Next, Resumable!Save
<1> QED
    BY <1>7, <1>8

\* A launch from scratch starts at once, any other when its weights are loaded.
LEMMA StartOrNothing ==
    ASSUME IInv, EndInv, Launch \/ LoadShards
    PROVE  [Resumable!Next]_(Resumable!vars)
<1>1. Len(Saved) = tracker /\ tracker \in Nat /\ Saved \in Seq(Update)
    BY SavedLength
<1>2. tracker' = tracker /\ Saved' = Saved
    BY DEF Launch, LoadShards, disk, Saved
<1>3. ~Trained /\ ~Trained'
    BY DEF Launch, LoadShards, Trained, EndInv
<1>4. ~Training /\ Live = <<>>
    <2>1. CASE Launch
        BY <2>1 DEF Launch, Training, Live
    <2>2. CASE LoadShards
        BY <2>2, <1>1 DEF LoadShards, Training, Live, IInv, PhaseInv, LoadCalls
    <2> QED
        BY <2>1, <2>2
<1>5. Trained' = Trained
    BY <1>3, Zenon DEF Trained
<1>6. CASE Launch /\ tracker > 0
    <2>1. ~Training' /\ Live' = <<>>
        BY <1>1, <1>2, <1>6 DEF Launch, Training, Live
    <2>2. Training' = Training
        BY <1>4, <2>1, Zenon DEF Training
    <2> QED
        BY <1>2, <1>4, <1>5, <2>1, <2>2 DEF Resumable!vars
<1>7. CASE LoadShards \/ (Launch /\ tracker = 0)
    <2>1. pc' # "down" /\ actor' = Saved
        <3>1. CASE LoadShards
            BY <3>1, <1>1 DEF LoadShards, Saved, IInv, PhaseInv, LoadCalls
        <3>2. CASE Launch /\ tracker = 0
            BY <3>2 DEF Launch, Saved
        <3> QED
            BY <1>7, <3>1, <3>2
    <2>2. Training' /\ Live' = Saved
        BY <1>1, <1>2, <2>1 DEF Training, Live
    <2>3. Training' = TRUE
        BY <2>2, Zenon DEF Training
    <2>4. Resumable!Start
        BY <1>2, <1>3, <1>4, <1>5, <2>2, <2>3 DEF Resumable!Start
    <2> QED
        BY <2>4 DEF Resumable!Next
<1> QED
    BY <1>1, <1>6, <1>7

\* Every other step is quiet, ends the launch, or is an update.
LEMMA StepKinds ==
    ASSUME IInv, EndInv, [Next]_vars, ~WriteTracker, ~Launch, ~LoadShards
    PROVE  \/ Quiet \/ Ends
           \/ /\ pc = "update" /\ pc' # "down" /\ ~Trained'
              /\ actor' = Append(actor, [batch |-> cursor, launch |-> launch])
<1>1. CASE UNCHANGED vars
    BY <1>1 DEF Quiet, Trained, vars, owners, disk
<1>2. CASE Resume
    BY <1>2 DEF Resume, RestoreProject, RefuseResume, Quiet, Trained, EndInv, owners,
                disk
<1>3. CASE Sync
    BY <1>3 DEF Sync, TransferWeights, PublishVersion, AppendMetrics, RefuseMetrics,
                Quiet, Trained, EndInv, owners, disk
<1>4. CASE Save
    BY <1>4 DEF Save, CheckpointSleep, PrepareCheckpoint, RefuseCheckpoint,
                WriteShards, WriteProject, WritePair, WriteData, CheckpointWake,
                Quiet, Ends, Trained, EndInv, owners, disk
<1>5. CASE Train
    BY <1>5 DEF Train, NextBatch, GenerateSequences, SleepReplicas, ValidateBatch,
                UpdateActor, RecordStep, RequestCheckpoint, Quiet, Trained, EndInv,
                owners, disk
<1>6. CASE Handle
    BY <1>6 DEF Handle, GiveUp, AlreadySaved, RecoverBoundary, Quiet, Ends, Trained,
                EndInv, owners, disk
<1>7. CASE Finish \/ Crash
    BY <1>7 DEF Finish, Crash, Ends, Trained, owners, disk
<1>8. CASE Fault
    <2>1. tracker' = tracker /\ pc # "down" /\ ~Trained
        BY <1>8 DEF Fault, disk, EndInv, Calls, SyncCalls, CheckpointCalls, SaveCalls,
                    StepCalls, LoadCalls
    <2>2. ~Trained' /\ pc' \in {"down", "failing"}
        BY <1>8, <2>1 DEF Fault, Trained
    <2>3. CASE actor' = actor
        BY <2>1, <2>2, <2>3 DEF Quiet, Ends, Trained
    <2>4. CASE actor' # actor
        <3>1. /\ pc = "update"
              /\ actor' = Append(actor, [batch |-> cursor, launch |-> launch])
            BY <1>8, <2>4 DEF Fault
        <3>2. ~recovering
            BY <3>1 DEF IInv, FlagInv, SaveCalls
        <3>3. pc' # "down"
            BY <1>8, <3>2 DEF Fault
        <3> QED
            BY <2>2, <3>1, <3>3
    <2> QED
        BY <2>3, <2>4
<1> QED
    BY <1>1, <1>2, <1>3, <1>4, <1>5, <1>6, <1>7, <1>8 DEF Next, Advance

LEMMA StepIsResumable ==
    ASSUME IInv, EndInv, [Next]_vars
    PROVE  [Resumable!Next]_(Resumable!vars)
<1>1. CASE WriteTracker
    BY <1>1, TrackerIsSave
<1>2. CASE Launch \/ LoadShards
    BY <1>2, StartOrNothing
<1>3. CASE ~WriteTracker /\ ~Launch /\ ~LoadShards
    <2>1. tracker' = tracker /\ Saved' = Saved
        BY <1>3, SavedKept
    <2>2. CASE Quiet
        BY <2>1, <2>2, QuietIsStutter
    <2>3. CASE Ends
        BY <2>1, <2>3, EndsIsStop
    <2>4. CASE /\ pc = "update" /\ pc' # "down" /\ ~Trained'
               /\ actor' = Append(actor, [batch |-> cursor, launch |-> launch])
        BY <2>1, <2>4, UpdateIsLearn
    <2> QED
        BY <1>3, <2>2, <2>3, <2>4, StepKinds
<1> QED
    BY <1>1, <1>2, <1>3

LEMMA InitIsResumable == Init => EndInv /\ Resumable!Init
<1> SUFFICES ASSUME Init PROVE EndInv /\ Resumable!Init
    OBVIOUS
<1>1. pc = "down" /\ outcome = "new" /\ tracker = 0
    BY DEF Init
<1>2. ~Training /\ ~Trained /\ Live = <<>> /\ Saved = <<>>
    BY <1>1 DEF Training, Trained, Live, Saved
<1>3. Training = FALSE /\ Trained = FALSE
    BY <1>2, Zenon DEF Training, Trained
<1> QED
    BY <1>1, <1>2, <1>3 DEF EndInv, Resumable!Init

\* What a launch trains on begins with what was saved last.
Extends(h, g) == Len(g) <= Len(h) /\ Prefix(h, Len(g)) = g

KeptInv == Training => Extends(Live, Saved)

LEMMA ExtendsItself ==
    ASSUME NEW h \in Seq(Update)
    PROVE  Extends(h, h)
<1>1. Len(h) \in Nat
    OBVIOUS
<1> QED
    BY <1>1, WholePrefix DEF Extends

LEMMA ExtendsByOne ==
    ASSUME NEW g \in Seq(Update), NEW h \in Seq(Update), NEW e \in Update,
           Extends(h, g)
    PROVE  Extends(Append(h, e), g)
<1>1. Len(g) \in Nat /\ Len(h) \in Nat /\ Len(g) <= Len(h)
    BY DEF Extends
<1>2. Len(Append(h, e)) = Len(h) + 1
    OBVIOUS
<1>3. Prefix(Append(h, e), Len(g)) = Prefix(h, Len(g))
    BY <1>1, PrefixOfAppend
<1> QED
    BY <1>1, <1>2, <1>3 DEF Extends

LEMMA KeptStep ==
    ASSUME IInv, KeptInv, [Resumable!Next]_(Resumable!vars)
    PROVE  KeptInv' /\ Extends(Saved', Saved)
<1>1. Saved \in Seq(Update) /\ Live \in Seq(Update)
    BY SavedLength DEF Live, IInv, TypeOK
<1>2. Extends(Saved, Saved)
    BY <1>1, ExtendsItself
<1>3. CASE UNCHANGED Resumable!vars
    <2>1. Saved' = Saved /\ Live' = Live
        BY <1>3 DEF Resumable!vars
    <2>2. Training' = Training
        BY <1>3, Zenon DEF Resumable!vars
    <2> QED
        BY <1>2, <2>1, <2>2 DEF KeptInv, Extends, Prefix
<1>4. CASE Resumable!Start
    <2>1. Saved' = Saved /\ Live' = Saved
        BY <1>4 DEF Resumable!Start
    <2> QED
        BY <1>2, <2>1 DEF KeptInv, Extends, Prefix
<1>5. CASE Resumable!Save
    <2>1. Training /\ Saved' = Live
        BY <1>5 DEF Resumable!Save
    <2>2. Extends(Saved', Saved) /\ Extends(Saved', Saved')
        BY <1>1, <2>1, ExtendsItself DEF KeptInv
    <2>3. Live' = Live \/ ~Training'
        BY <1>5 DEF Resumable!Save, Resumable!Halt
    <2> QED
        BY <2>1, <2>2, <2>3 DEF KeptInv, Extends, Prefix
<1>6. CASE Resumable!Stop
    <2>1. Saved' = Saved /\ ~Training'
        BY <1>6 DEF Resumable!Stop, Resumable!Halt
    <2> QED
        BY <1>2, <2>1 DEF KeptInv
<1>7. ASSUME NEW u \in [batch: Steps, launch: 0..MaxLaunches], Resumable!Learn(u)
      PROVE  KeptInv' /\ Extends(Saved', Saved)
    <2>1. Training /\ Saved' = Saved /\ Live' = Append(Live, u)
        BY <1>7 DEF Resumable!Learn
    <2>2. Extends(Append(Live, u), Saved)
        <3>1. u \in Update
            BY RunAssumption DEF Update, Steps
        <3> QED
            BY <1>1, <2>1, <3>1, ExtendsByOne DEF KeptInv
    <2> QED
        BY <1>2, <2>1, <2>2 DEF KeptInv, Extends, Prefix
<1> QED
    BY <1>3, <1>4, <1>5, <1>6, <1>7 DEF Resumable!Next

-----------------------------------------------------------------------------
(* The theorems.                                                           *)

\* The inductive invariant holds of every reachable state.
THEOREM Invariant == Spec => []IInv
<1>1. Init => IInv
    BY InitInvariant
<1>2. IInv /\ [Next]_vars => IInv'
    BY StepInvariant
<1> QED
    BY <1>1, <1>2, PTL DEF Spec

\* Every variable keeps its type: steps stay within total_training_steps, a
\* generation only holds files of global_step_<n>.
THEOREM TypeCorrect == Spec => []TypeOK
    BY Invariant, PTL DEF IInv

\* However often the run is killed, resumed or saved by the handler, the
\* actor's weights are made of the batches 1, 2, ... each trained once.
THEOREM TrainedOnce == Spec => []EachBatchTrainedOnce
<1>1. IInv => EachBatchTrainedOnce
    BY DEF IInv, PhaseInv, EachBatchTrainedOnce
<1> QED
    BY <1>1, Invariant, PTL

\* A generation with its pair file is one optimizer boundary in all its parts,
\* and the tracker names only complete generations.
THEOREM GenerationsAreExact == Spec => []CommittedGenerationIsExact
<1>1. IInv => CommittedGenerationIsExact
    <2> SUFFICES ASSUME IInv, NEW n \in Steps
                 PROVE  /\ "pair" \in generation[n].files =>
                             /\ {"shards", "project"} \subseteq generation[n].files
                             /\ Len(generation[n].weights) = n
                             /\ InOrder(generation[n].weights)
                             /\ generation[n].policy =
                                  [exists |-> TRUE, step |-> n,
                                   weights |-> generation[n].weights]
                             /\ generation[n].progress = [step |-> n, cursor |-> n]
                             /\ generation[n].metrics = generation[n].weights
                             /\ "data" \in generation[n].files =>
                                    generation[n].data = n
                        /\ tracker = n =>
                             {"pair", "data"} \subseteq generation[n].files
        BY DEF CommittedGenerationIsExact
    <2>1. Exact(n)
        BY DEF IInv, ExactInv
    <2>2. tracker = n => {"pair", "data"} \subseteq generation[n].files
        BY DEF IInv, ExactInv, Steps
    <2> QED
        BY <2>1, <2>2 DEF Exact
<1> QED
    BY <1>1, Invariant, PTL

\* Trajectories are sampled by awake replicas that all hold the actor's
\* weights, under the version that names exactly these weights.
THEOREM RolloutsAreLabelled == Spec => []RolloutIsLabelled
<1>1. IInv => RolloutIsLabelled
    <2> SUFFICES ASSUME IInv, pc = "generate" PROVE RolloutIsLabelled
        BY DEF RolloutIsLabelled
    <2>1. Published /\ awake = Replicas /\ Loaded
        BY DEF IInv, PublicationInv, SamplingCalls
    <2>2. Len(actor) = step - 1
        BY DEF IInv, PhaseInv, Sampling, SamplingCalls
    <2> QED
        BY <2>1, <2>2 DEF Published, Loaded, RolloutIsLabelled
<1> QED
    BY <1>1, Invariant, PTL

\* No replica is awake while a generation is being written.
THEOREM CheckpointsAreWrittenQuietly == Spec => []CheckpointsAreQuiet
<1>1. IInv => CheckpointsAreQuiet
    BY DEF IInv, PublicationInv, CheckpointsAreQuiet
<1> QED
    BY <1>1, Invariant, PTL

\* What the handler reports as saved is what the next launch resumes from.
THEOREM SavedBoundariesResume == Spec => []SavedIsResumable
    BY Invariant, PTL DEF IInv, OutcomeInv

\* The metrics log is contiguous and agrees with the generation the tracker
\* names on every step both of them cover.
THEOREM LogAgrees == Spec => []LogNeverContradictsCheckpoint
<1>1. IInv => LogNeverContradictsCheckpoint
    <2> SUFFICES ASSUME IInv PROVE LogNeverContradictsCheckpoint
        OBVIOUS
    <2>1. LogInv /\ log \in Seq(Event)
        BY DEF IInv, TypeOK
    <2>2. ASSUME NEW i \in 1..(Len(log) - 1)
          PROVE  log[i + 1].step = log[i].step + 1
        <3>1. i \in DOMAIN log /\ i + 1 \in DOMAIN log /\ 1 \in DOMAIN log /\ i \in Nat
            BY <2>1
        <3>2. log[1] \in Event
            BY <2>1, <3>1
        <3>3. log[1].step \in Nat
            BY <3>2 DEF Event
        <3>4. log[i].step = log[1].step + (i - 1)
            BY <2>1, <3>1 DEF LogInv
        <3>5. log[i + 1].step = log[1].step + ((i + 1) - 1)
            BY <2>1, <3>1 DEF LogInv
        <3> QED
            BY <3>1, <3>3, <3>4, <3>5
    <2> QED
        BY <2>1, <2>2 DEF LogInv, LogNeverContradictsCheckpoint
<1> QED
    BY <1>1, Invariant, PTL

\* However its launches are interrupted, refused or resumed, the run is one
\* that trains on top of what it saved last: no saved update is trained again,
\* dropped or replaced (checkpoint_bridge.py:266, policy_task_runner.py:1199).
THEOREM RunIsResumable == Spec => ImplementsResumableTraining
<1>1. Init => EndInv /\ Resumable!Init
    BY InitIsResumable
<1>2. EndInv /\ [Next]_vars => EndInv'
    BY EndStep
<1>3. IInv /\ EndInv /\ [Next]_vars => [Resumable!Next]_(Resumable!vars)
    BY StepIsResumable
<1> QED
    BY <1>1, <1>2, <1>3, Invariant, PTL DEF Spec, ImplementsResumableTraining, Resumable!Spec

\* What was saved stays: however often the run is killed, refused or resumed,
\* all that it saves later is made of what it saved before, and goes on from
\* there (checkpoint_bridge.py:294, policy_task_runner.py:1268).
THEOREM SavedWorkIsKept == Spec => [][Extends(Saved', Saved)]_vars
<1>1. Init => IInv /\ EndInv /\ KeptInv
    BY InitInvariant, InitIsResumable DEF Resumable!Init, KeptInv
<1>2. IInv /\ EndInv /\ KeptInv /\ [Next]_vars
          => IInv' /\ EndInv' /\ KeptInv' /\ Extends(Saved', Saved)
    BY StepInvariant, EndStep, StepIsResumable, KeptStep
<1> QED
    BY <1>1, <1>2, PTL DEF Spec
=============================================================================
