-------------------------- MODULE PolicyTrainingRun --------------------------
(***************************************************************************)
(* One policy training run over several launches of its process:           *)
(* framework/verl/policy_task_runner.py (the trainer's hooks, the wrapper   *)
(* of the weight-sync manager, the project state of the checkpoint and the *)
(* metrics log) composed with framework/verl/checkpoint_bridge.py (the     *)
(* paired checkpoint) and with the published pointer of                    *)
(* policy_weight_sync.py and policy_behavior_version.py.                   *)
(*                                                                         *)
(* The process runs one control flow, so `pc` names the call it is in.  A  *)
(* call may raise (Fault), the trainer's handler then tries to save the    *)
(* last completed boundary; the process may also be killed at any point    *)
(* (Crash), and a later launch resumes from what is on the disk.  Model     *)
(* weights are the history of the updates that made them: one record per   *)
(* optimizer step, with the batch and the launch it was computed in (a     *)
(* repeated step samples other trajectories and takes other timings, so it *)
(* never gives the same weights or the same metrics event).                *)
(***************************************************************************)
EXTENDS Naturals, Sequences, FiniteSets

CONSTANTS
    Replicas,             \* the rollout replicas
    TotalSteps,           \* total_training_steps
    VersionNamesWeights,  \* TRUE: a version's hash covers the weights (LoRA,
                          \* RP66); FALSE: only the step (full-Qwen receipt)
    MaxLaunches,          \* bound: launches of the process
    MaxFaults             \* bound: exceptions

ASSUME RunAssumption ==
    /\ Replicas # {}
    /\ TotalSteps \in Nat \ {0}
    /\ VersionNamesWeights \in BOOLEAN
    /\ MaxLaunches \in Nat
    /\ MaxFaults \in Nat

VARIABLES
    \* --- on disk ---
    checkpointSteps,  \* the immutable configuration's checkpoint_steps
    pointer,          \* the latest published policy version
    generation,       \* step -> the files of global_step_<n> and their content
    tracker,          \* latest_checkpointed_iteration.txt, 0 when absent
    log,              \* the metrics log, one event per line
    \* --- the process ---
    launch,           \* number of the current (or last) launch
    pc,               \* the call it is in; "down" when there is no process
    step,             \* global_steps
    actor,            \* the actor's weights
    cursor,           \* batches the live dataloader has yielded
    progress,         \* the step and data cursor a checkpoint would capture
    boundary,         \* the last completed optimizer boundary (_recovery_progress)
    metrics,          \* the metrics accumulator: the steps it has recorded
    inflight,         \* _policy_actor_update_inflight
    metricsPending,   \* _policy_metrics_pending is not None
    checkpointPending,\* _policy_checkpoint_pending
    recovering,       \* the handler of an exception is saving
    sleepFlag,        \* _replicas_sleeping of the manager wrapper
    awake,            \* the replicas that are really awake
    loaded,           \* the replicas that hold weights (asleep or awake)
    held,             \* what each of them holds
    \* --- the record of how launches ended ---
    outcome,
    faults

disk == <<checkpointSteps, pointer, generation, tracker, log>>
owners == <<actor, cursor, progress, boundary, metrics>>
flags == <<inflight, metricsPending, checkpointPending, recovering>>
replicas == <<sleepFlag, awake, loaded, held>>
vars == <<disk, launch, pc, step, owners, flags, replicas, outcome, faults>>

-----------------------------------------------------------------------------
Steps == 1..TotalSteps
Update == [batch: Nat, launch: Nat]
Version == [exists: BOOLEAN, step: Nat, weights: Seq(Update)]
Cursor == [step: Nat, cursor: Nat]
Event == [step: Nat, weights: Seq(Update)]
Generation == [files: SUBSET {"shards", "project", "pair", "data"},
               weights: Seq(Update), policy: Version, progress: Cursor,
               metrics: Seq(Update), data: Nat]

NoVersion == [exists |-> FALSE, step |-> 0, weights |-> <<>>]
NoGeneration == [files |-> {}, weights |-> <<>>, policy |-> NoVersion,
                 progress |-> [step |-> 0, cursor |-> 0], metrics |-> <<>>,
                 data |-> 0]

\* The calls of an update_weights, of the checkpoint inside it, and of a step.
SyncCalls == {"sync", "publish", "append"}
SaveCalls == {"prepare", "shards", "project", "pair", "data", "tracker"}
CheckpointCalls == SaveCalls \cup {"quiet", "wake"}
StepCalls == {"batch", "generate", "sleep", "validate", "update", "record", "hook"}
LoadCalls == {"load", "restore"}
Calls == SyncCalls \cup CheckpointCalls \cup StepCalls \cup LoadCalls

\* Both files of the committed pair are there.
Committed(n) == {"project", "pair"} \subseteq generation[n].files

\* PolicyVersion equality: the run and step, and the weights when the hash
\* covers them.
SameVersion(v, w) == /\ v.step = w.step
                     /\ VersionNamesWeights => v.weights = w.weights

Init ==
    /\ checkpointSteps \in SUBSET Steps
    /\ pointer = NoVersion
    /\ generation = [n \in Steps |-> NoGeneration]
    /\ tracker = 0
    /\ log = <<>>
    /\ launch = 0 /\ pc = "down" /\ step = 0
    /\ actor = <<>> /\ cursor = 0 /\ metrics = <<>>
    /\ progress = [step |-> 0, cursor |-> 0]
    /\ boundary = [step |-> 0, cursor |-> 0]
    /\ inflight = FALSE /\ metricsPending = FALSE
    /\ checkpointPending = FALSE /\ recovering = FALSE
    /\ sleepFlag = TRUE /\ awake = {} /\ loaded = {}
    /\ held = [r \in Replicas |-> <<>>]
    /\ outcome = "new"
    /\ faults = 0

-----------------------------------------------------------------------------
(* Launch and resume.                                                      *)

\* A new process: every owner is at its initial value, the replicas sleep.
\* The upstream trainer picks the tracker's generation, or starts from scratch.
Launch ==
    /\ pc = "down" /\ outcome # "trained" /\ launch < MaxLaunches
    /\ launch' = launch + 1
    /\ pc' = IF tracker = 0 THEN "sync" ELSE "load"
    /\ step' = 0
    /\ actor' = <<>> /\ cursor' = 0 /\ metrics' = <<>>
    /\ progress' = [step |-> 0, cursor |-> 0]
    /\ boundary' = [step |-> 0, cursor |-> 0]
    /\ inflight' = FALSE /\ metricsPending' = FALSE
    /\ checkpointPending' = FALSE /\ recovering' = FALSE
    /\ sleepFlag' = TRUE /\ awake' = {} /\ loaded' = {}
    /\ held' = [r \in Replicas |-> <<>>]
    /\ outcome' = "running"
    /\ UNCHANGED <<disk, faults>>

\* The framework's weights and optimizer are loaded before the project state
\* is validated.
LoadShards ==
    /\ pc = "load" /\ Committed(tracker)
    /\ actor' = generation[tracker].weights
    /\ pc' = "restore"
    /\ UNCHANGED <<disk, launch, step, cursor, progress, boundary, metrics,
                   flags, replicas, outcome, faults>>

\* The version "loaded" is the one the latest pointer names.
ResumeAccepted ==
    pointer.exists /\ SameVersion(pointer, generation[tracker].policy)

\* The project's owners take the saved values, then upstream loads its own
\* copy of the dataloader state.
RestoreProject ==
    /\ pc = "restore" /\ ResumeAccepted
    /\ progress' = generation[tracker].progress
    /\ boundary' = generation[tracker].progress
    /\ metrics' = generation[tracker].metrics
    /\ cursor' = generation[tracker].data
    /\ step' = tracker
    /\ pc' = "sync"
    /\ UNCHANGED <<disk, launch, actor, flags, replicas, outcome, faults>>

RefuseResume ==
    /\ \/ pc = "load" /\ ~Committed(tracker)
       \/ pc = "restore" /\ ~ResumeAccepted
    /\ outcome' = "refused"
    /\ pc' = "failing"
    /\ UNCHANGED <<disk, launch, step, owners, flags, replicas, faults>>

-----------------------------------------------------------------------------
(* Weight synchronisation: the replicas wake with the actor's weights, then *)
(* the version is published, then a requested checkpoint is written.        *)

TransferWeights ==
    /\ pc = "sync"
    /\ awake' = Replicas /\ loaded' = Replicas
    /\ held' = [r \in Replicas |-> actor]
    /\ pc' = "publish"
    /\ UNCHANGED <<disk, launch, step, owners, flags, sleepFlag, outcome, faults>>

PublishVersion ==
    /\ pc = "publish"
    /\ pointer' = [exists |-> TRUE, step |-> step, weights |-> actor]
    /\ sleepFlag' = FALSE
    /\ pc' = IF checkpointPending THEN "quiet" ELSE "append"
    /\ UNCHANGED <<checkpointSteps, generation, tracker, log, launch, step,
                   owners, flags, awake, loaded, held, outcome, faults>>

\* Mutant: the checkpoint sleeps the replicas as the trainer does.
CheckpointSleepDiscarding ==
    /\ pc = "quiet"
    /\ sleepFlag' = TRUE
    /\ awake' = {} /\ loaded' = {}
    /\ pc' = "prepare"
    /\ UNCHANGED <<disk, launch, step, owners, flags, held, outcome, faults>>

\* The checkpoint's sleep keeps the replicas' weights; the flag is set before
\* the fan-out.
CheckpointSleep ==
    /\ pc = "quiet"
    /\ sleepFlag' = TRUE
    /\ awake' = {}
    /\ pc' = "prepare"
    /\ UNCHANGED <<disk, launch, step, owners, flags, loaded, held, outcome, faults>>

CheckpointWake ==
    /\ pc = "wake"
    /\ awake' = Replicas
    /\ sleepFlag' = FALSE
    /\ pc' = "append"
    /\ UNCHANGED <<disk, launch, step, owners, flags, loaded, held, outcome, faults>>

\* Mutant: the log takes a step whatever it ends with.
LogAcceptsAny == TRUE

\* An empty log takes any step; otherwise the step must follow the last one.
\* (A repeated step carries other timings: it never equals the event on disk.)
LogAccepts == log # <<>> => log[Len(log)].step + 1 = step

\* Mutant: a complete run is resumed like any other.
CompletedResumeUnseen == FALSE

\* Resuming a run that is already complete trains no further step.
CompletedResume == step = TotalSteps

\* The metrics event of the step, after its checkpoint; the first sync of a
\* launch has none.
AppendMetrics ==
    /\ pc = "append"
    /\ metricsPending => LogAccepts
    /\ log' = IF metricsPending
              THEN Append(log, [step |-> step, weights |-> metrics]) ELSE log
    /\ metricsPending' = FALSE
    /\ pc' = IF \/ metricsPending /\ step = TotalSteps
                \/ ~metricsPending /\ CompletedResume
             THEN "done" ELSE "batch"
    /\ UNCHANGED <<checkpointSteps, pointer, generation, tracker, launch, step,
                   owners, inflight, checkpointPending, recovering, replicas,
                   outcome, faults>>

RefuseMetrics ==
    /\ pc = "append" /\ metricsPending /\ ~LogAccepts
    /\ outcome' = "refused"
    /\ pc' = "failing"
    /\ UNCHANGED <<disk, launch, step, owners, flags, replicas, faults>>

Finish ==
    /\ pc = "done"
    /\ outcome' = "trained"
    /\ pc' = "down"
    /\ UNCHANGED <<disk, launch, step, owners, flags, replicas, faults>>

-----------------------------------------------------------------------------
(* One optimizer step.                                                     *)

NextBatch ==
    /\ pc = "batch"
    /\ step' = step + 1
    /\ cursor' = cursor + 1
    /\ pc' = "generate"
    /\ UNCHANGED <<disk, launch, actor, progress, boundary, metrics, flags,
                   replicas, outcome, faults>>

\* The replicas sample the step's trajectories, labelled by the pointer.
GenerateSequences ==
    /\ pc = "generate"
    /\ pc' = "sleep"
    /\ UNCHANGED <<disk, launch, step, owners, flags, replicas, outcome, faults>>

\* The trainer's own sleep discards the replicas' weights.
SleepReplicas ==
    /\ pc = "sleep"
    /\ awake' = {} /\ loaded' = {}
    /\ sleepFlag' = TRUE
    /\ pc' = "validate"
    /\ UNCHANGED <<disk, launch, step, owners, flags, held, outcome, faults>>

\* _update_actor: the batch is validated before the update is in flight.
ValidateBatch ==
    /\ pc = "validate"
    /\ inflight' = TRUE
    /\ pc' = "update"
    /\ UNCHANGED <<disk, launch, step, owners, metricsPending, checkpointPending,
                   recovering, replicas, outcome, faults>>

UpdateActor ==
    /\ pc = "update"
    /\ actor' = Append(actor, [batch |-> cursor, launch |-> launch])
    /\ pc' = "record"
    /\ UNCHANGED <<disk, launch, step, cursor, progress, boundary, metrics,
                   flags, replicas, outcome, faults>>

\* record_optimizer_step and the rest of _update_actor.
RecordStep ==
    /\ pc = "record"
    /\ metrics' = Append(metrics, [batch |-> cursor, launch |-> launch])
    /\ boundary' = [step |-> step, cursor |-> cursor]
    /\ metricsPending' = TRUE
    /\ inflight' = FALSE
    /\ pc' = "hook"
    /\ UNCHANGED <<disk, launch, step, actor, cursor, progress,
                   checkpointPending, recovering, replicas, outcome, faults>>

\* _save_checkpoint only requests: the commit waits for the weight sync.
RequestCheckpoint ==
    /\ pc = "hook"
    /\ checkpointPending' = (step \in checkpointSteps)
    /\ pc' = "sync"
    /\ UNCHANGED <<disk, launch, step, owners, inflight, metricsPending,
                   recovering, replicas, outcome, faults>>

-----------------------------------------------------------------------------
(* Writing a generation: shards, project state, pair, upstream's dataloader *)
(* state, tracker last.                                                    *)

\* A checkpoint that fails wakes the replicas again: the flag says awake only
\* when the whole fan-out has returned.
BestEffortWake ==
    \E S \in SUBSET Replicas :
        /\ awake' = S
        /\ sleepFlag' \in {TRUE, S # Replicas}
        /\ UNCHANGED <<loaded, held>>

\* Mutant: the checkpoint expects the version the step sampled with.
MayCaptureSampled == Len(metrics) = step /\ pointer.exists /\ pointer.step + 1 = step

MayCapture == Len(metrics) = step /\ pointer.exists /\ pointer.step = step

MayPrepare == MayCapture /\ generation[step].files \cap {"project", "pair"} = {}

\* prepare_checkpoint captures the live data cursor.
PrepareCheckpoint ==
    /\ pc = "prepare" /\ MayPrepare
    /\ progress' = [step |-> step, cursor |-> cursor]
    /\ pc' = "shards"
    /\ UNCHANGED <<disk, launch, step, actor, cursor, boundary, metrics, flags,
                   replicas, outcome, faults>>

RefuseCheckpoint ==
    /\ pc = "prepare" /\ ~MayPrepare
    /\ progress' = IF MayCapture THEN [step |-> step, cursor |-> cursor] ELSE progress
    /\ outcome' = "refused"
    /\ checkpointPending' = FALSE
    /\ IF recovering THEN pc' = "down" /\ UNCHANGED replicas
                     ELSE pc' = "failing" /\ BestEffortWake
    /\ UNCHANGED <<disk, launch, step, actor, cursor, boundary, metrics, inflight,
                   metricsPending, recovering, faults>>

\* One file of the generation appears with the rest of the record unchanged.
Write(file, g) ==
    generation' = [generation EXCEPT ![step] =
                       [g EXCEPT !.files = generation[step].files \cup {file}]]

WriteShards ==
    /\ pc = "shards"
    /\ Write("shards", [generation[step] EXCEPT !.weights = actor])
    /\ pc' = "project"
    /\ UNCHANGED <<checkpointSteps, pointer, tracker, log, launch, step, owners,
                   flags, replicas, outcome, faults>>

WriteProject ==
    /\ pc = "project"
    /\ Write("project", [generation[step] EXCEPT !.policy = pointer,
                                                 !.progress = progress,
                                                 !.metrics = metrics])
    /\ pc' = "pair"
    /\ UNCHANGED <<checkpointSteps, pointer, tracker, log, launch, step, owners,
                   flags, replicas, outcome, faults>>

WritePair ==
    /\ pc = "pair"
    /\ Write("pair", generation[step])
    /\ pc' = "data"
    /\ UNCHANGED <<checkpointSteps, pointer, tracker, log, launch, step, owners,
                   flags, replicas, outcome, faults>>

WriteData ==
    /\ pc = "data"
    /\ Write("data", [generation[step] EXCEPT !.data = cursor])
    /\ pc' = "tracker"
    /\ UNCHANGED <<checkpointSteps, pointer, tracker, log, launch, step, owners,
                   flags, replicas, outcome, faults>>

WriteTracker ==
    /\ pc = "tracker"
    /\ tracker' = step
    /\ checkpointPending' = FALSE
    /\ IF recovering THEN pc' = "down" /\ outcome' = "saved"
                     ELSE pc' = "wake" /\ UNCHANGED outcome
    /\ UNCHANGED <<checkpointSteps, pointer, generation, log, launch, step,
                   owners, inflight, metricsPending, recovering, replicas, faults>>

-----------------------------------------------------------------------------
(* Exceptions and the trainer's handler; a killed process.                 *)

\* What a call that raises leaves of the replicas: a fan-out has reached only
\* some of them, a failed checkpoint is followed by the best-effort wake.
ReplicasAfterFault ==
    IF pc = "sync" THEN
        \E S \in SUBSET Replicas :
            /\ awake' = S /\ loaded' = S
            /\ held' = [r \in Replicas |-> IF r \in S THEN actor ELSE held[r]]
            /\ UNCHANGED sleepFlag
    ELSE IF pc = "sleep" THEN
        \E S \in SUBSET Replicas :
            /\ awake' = S /\ loaded' = S
            /\ UNCHANGED <<sleepFlag, held>>
    ELSE IF pc = "wake" THEN
        /\ awake' \in SUBSET Replicas
        /\ UNCHANGED <<sleepFlag, loaded, held>>
    ELSE IF pc = "quiet" \/ (pc \in SaveCalls /\ ~recovering) THEN BestEffortWake
    ELSE UNCHANGED replicas

\* A call raises.  Inside the optimizer nobody knows whether it committed;
\* recording a step may fail before or after the metrics and the boundary.
Fault ==
    /\ pc \in Calls /\ faults < MaxFaults
    /\ faults' = faults + 1
    /\ ReplicasAfterFault
    /\ actor' \in {actor} \cup
           IF pc = "update"
           THEN {Append(actor, [batch |-> cursor, launch |-> launch])} ELSE {}
    /\ \/ UNCHANGED <<metrics, boundary>>
       \/ /\ pc = "record"
          /\ metrics' = Append(metrics, [batch |-> cursor, launch |-> launch])
          /\ boundary' \in {boundary, [step |-> step, cursor |-> cursor]}
    /\ checkpointPending' = (checkpointPending /\ pc \notin SaveCalls)
    /\ IF recovering THEN pc' = "down" /\ outcome' = "unsaved"
                     ELSE pc' = "failing" /\ UNCHANGED outcome
    /\ UNCHANGED <<disk, launch, step, cursor, progress, inflight,
                   metricsPending, recovering>>

\* _save_last_completed_checkpoint_after_failure: nothing to save before the
\* first boundary; no save when the boundary is not known to be complete; a
\* committed pair is not written again.
NothingToSave == boundary.step = 0 /\ metrics = <<>>

\* Mutant: a step whose metrics are still to be published counts as complete.
BoundaryIsRecorded ==
    /\ boundary.step = Len(metrics)
    /\ ~inflight /\ ~checkpointPending

BoundaryIsComplete ==
    /\ boundary.step = Len(metrics)
    /\ ~inflight /\ ~metricsPending /\ ~checkpointPending

GiveUp ==
    /\ pc = "failing"
    /\ NothingToSave \/ ~BoundaryIsComplete
    /\ outcome' = IF outcome = "refused" THEN outcome
                  ELSE IF NothingToSave THEN "nothing" ELSE "unsaved"
    /\ pc' = "down"
    /\ UNCHANGED <<disk, launch, step, owners, flags, replicas, faults>>

AlreadySaved ==
    /\ pc = "failing" /\ ~NothingToSave /\ BoundaryIsComplete
    /\ Committed(boundary.step)
    /\ outcome' = "saved"
    /\ pc' = "down"
    /\ UNCHANGED <<disk, launch, step, owners, flags, replicas, faults>>

\* Mutant: the live data cursor is saved.
RecoverBoundaryForward ==
    /\ pc = "failing" /\ ~NothingToSave /\ BoundaryIsComplete
    /\ ~Committed(boundary.step)
    /\ IF sleepFlag THEN UNCHANGED <<awake, loaded>>
                    ELSE awake' = {} /\ loaded' = {}
    /\ sleepFlag' = TRUE
    /\ step' = boundary.step
    /\ checkpointPending' = TRUE
    /\ recovering' = TRUE
    /\ pc' = "prepare"
    /\ UNCHANGED <<disk, launch, actor, cursor, progress, boundary, metrics,
                   inflight, metricsPending, held, outcome, faults>>

\* Mutant: the handler leaves the rollout as it is.
RecoverBoundaryAwake ==
    /\ pc = "failing" /\ ~NothingToSave /\ BoundaryIsComplete
    /\ ~Committed(boundary.step)
    /\ cursor' = boundary.cursor
    /\ progress' = boundary
    /\ step' = boundary.step
    /\ checkpointPending' = TRUE
    /\ recovering' = TRUE
    /\ pc' = "prepare"
    /\ UNCHANGED <<disk, launch, actor, boundary, metrics, inflight,
                   metricsPending, replicas, outcome, faults>>

\* The data cursor goes back to the boundary, the rollout is quiesced unless
\* the replicas are thought asleep, and the boundary is committed.
RecoverBoundary ==
    /\ pc = "failing" /\ ~NothingToSave /\ BoundaryIsComplete
    /\ ~Committed(boundary.step)
    /\ cursor' = boundary.cursor
    /\ progress' = boundary
    /\ IF sleepFlag THEN UNCHANGED <<awake, loaded>>
                    ELSE awake' = {} /\ loaded' = {}
    /\ sleepFlag' = TRUE
    /\ step' = boundary.step
    /\ checkpointPending' = TRUE
    /\ recovering' = TRUE
    /\ pc' = "prepare"
    /\ UNCHANGED <<disk, launch, actor, boundary, metrics, inflight,
                   metricsPending, held, outcome, faults>>

\* The process is killed: no handler runs.
Crash ==
    /\ pc # "down"
    /\ pc' = "down"
    /\ outcome' = "crashed"
    /\ UNCHANGED <<disk, launch, step, owners, flags, replicas, faults>>

-----------------------------------------------------------------------------
Sync == TransferWeights \/ PublishVersion \/ AppendMetrics \/ RefuseMetrics
Save == \/ CheckpointSleep \/ PrepareCheckpoint \/ RefuseCheckpoint
        \/ WriteShards \/ WriteProject \/ WritePair \/ WriteData
        \/ WriteTracker \/ CheckpointWake
Train == \/ NextBatch \/ GenerateSequences \/ SleepReplicas \/ ValidateBatch
         \/ UpdateActor \/ RecordStep \/ RequestCheckpoint
Resume == Launch \/ LoadShards \/ RestoreProject \/ RefuseResume
Handle == GiveUp \/ AlreadySaved \/ RecoverBoundary

Advance == Resume \/ Sync \/ Save \/ Train \/ Handle \/ Finish
Next == Advance \/ Fault \/ Crash

\* A live process goes on, and the supervisor launches the run again.
Spec == Init /\ [][Next]_vars /\ WF_vars(Advance)

-----------------------------------------------------------------------------
(* Properties.                                                             *)

TypeOK ==
    /\ checkpointSteps \in SUBSET Steps
    /\ pointer \in Version
    /\ generation \in [Steps -> Generation]
    /\ tracker \in 0..TotalSteps
    /\ log \in Seq(Event)
    /\ launch \in 0..MaxLaunches
    /\ pc \in Calls \cup {"down", "failing", "done"}
    /\ step \in 0..TotalSteps
    /\ actor \in Seq(Update) /\ metrics \in Seq(Update)
    /\ cursor \in Nat /\ progress \in Cursor /\ boundary \in Cursor
    /\ inflight \in BOOLEAN /\ metricsPending \in BOOLEAN
    /\ checkpointPending \in BOOLEAN /\ recovering \in BOOLEAN
    /\ sleepFlag \in BOOLEAN
    /\ awake \subseteq Replicas /\ loaded \subseteq Replicas
    /\ held \in [Replicas -> Seq(Update)]
    /\ outcome \in {"new", "running", "trained", "refused", "nothing",
                    "unsaved", "saved", "crashed"}
    /\ faults \in 0..MaxFaults

\* Weights made of the first n batches, each once and in order.
Prefix(h, k) == SubSeq(h, 1, k)
InOrder(h) == \A i \in DOMAIN h : h[i].batch = i

\* Whatever was interrupted and resumed on the way, the actor's weights are
\* made of the batches 1, 2, ... each trained once and in order, and never of
\* more than the configured steps.
EachBatchTrainedOnce == InOrder(actor) /\ Len(actor) <= TotalSteps

\* A generation with its pair file holds one boundary: the weights, the
\* version, the data cursor and the metrics are all those of the same n
\* steps, and the tracker only names a generation that has all its files.
CommittedGenerationIsExact ==
    \A n \in Steps :
        LET g == generation[n]
        IN  /\ "pair" \in g.files =>
                 /\ {"shards", "project"} \subseteq g.files
                 /\ Len(g.weights) = n /\ InOrder(g.weights)
                 /\ g.policy = [exists |-> TRUE, step |-> n, weights |-> g.weights]
                 /\ g.progress = [step |-> n, cursor |-> n]
                 /\ g.metrics = g.weights
                 /\ "data" \in g.files => g.data = n
            /\ tracker = n => {"pair", "data"} \subseteq g.files

\* While a step is sampled every replica is awake with the actor's weights,
\* and the pointer that labels the trajectories names exactly those weights.
RolloutIsLabelled ==
    pc = "generate" =>
        /\ awake = Replicas /\ loaded = Replicas
        /\ \A r \in Replicas : held[r] = actor
        /\ pointer = [exists |-> TRUE, step |-> step - 1, weights |-> actor]

\* No replica is awake while a checkpoint is written, in a step or by the
\* handler of an exception, after whatever partial sleep or wake came before.
CheckpointsAreQuiet == pc \in SaveCalls => awake = {}

\* When the handler reports the last boundary saved, the next launch finds it
\* through the tracker and the published pointer lets it in.
SavedIsResumable ==
    pc = "down" /\ outcome = "saved" =>
        /\ tracker = boundary.step /\ tracker > 0
        /\ Committed(tracker)
        /\ ResumeAccepted

\* The metrics log never contradicts the weights a launch resumes from: an
\* event of a step the tracker's generation covers is the event of the very
\* updates that generation is made of; and its steps are contiguous.
LogNeverContradictsCheckpoint ==
    /\ \A i \in DOMAIN log :
          tracker > 0 /\ log[i].step <= tracker =>
              log[i].weights = Prefix(generation[tracker].weights, log[i].step)
    /\ \A i \in 1..(Len(log) - 1) : log[i + 1].step = log[i].step + 1

\* The run without its machinery.  A process that has not loaded the tracker's
\* generation yet does not train.
Training == pc # "down" /\ tracker <= Len(actor)
Live == IF Training THEN actor ELSE <<>>
Saved == IF tracker = 0 THEN <<>> ELSE generation[tracker].weights
Trained == outcome = "trained"

Resumable ==
    INSTANCE ResumableTraining
        WITH Updates <- [batch: Steps, launch: 0..MaxLaunches],
             running <- Training, live <- Live, saved <- Saved, trained <- Trained

\* Through exceptions, saves by the handler, kills and refused launches, a run
\* trains only on top of what was saved last, saves only what it has trained,
\* and counts as trained only with all its batches
\* (policy_task_runner.py:1199, checkpoint_bridge.py:266).
ImplementsResumableTraining == Resumable!Spec

\* If no launch is killed and no handler has to give up a boundary, the run
\* is trained to its last step, whatever else fails on the way.
EventuallyTrained ==
    [](outcome \notin {"crashed", "unsaved"}) => <>(outcome = "trained")

\* launch.py calls one configuration valid before the first launch and after a
\* clean-process restart, upstream taking the latest checkpoint when it exists:
\* a restart that finds a committed checkpoint is let in.
RestartIsAccepted == pc = "restore" => ResumeAccepted
=============================================================================
