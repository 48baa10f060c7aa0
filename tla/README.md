# TGVF end-to-end RL: a TLA+ development of its rollout and training core

This directory holds TLA+ modules for the parts of `src/src/tgvf_rl` in which
order matters: which thread does what first, what a failure or a killed process
leaves behind, when a batch may train the policy and which weights a trajectory is
labelled with.  TLC checks each of them on a small instance, and the proof system
TLAPS proves their safety properties and refinements for every value of the
constants.  Paths below are relative to `src/src/tgvf_rl`.

## 1. The system

A *trajectory* is one conversation of the policy with its tools: the policy
samples a turn, the turn may call a visual tool, the tool's *observation* goes
into the next prompt, until there is a final answer or a stop.  A *batch* of
trajectories is rolled out with one version of the policy, replayed to compute
log-probabilities, turned into a loss and an optimizer step, and then the new
weights are published to the rollout engine.  Everything a rollout produced
stays in in-memory stores until its batch is released.

### Inventory

| Component | State it keeps | Operations | What is hard |
|---|---|---|---|
| Observation store (`observations/store.py`) | tensors by content, owners of each tensor, records, replays, released trajectories | `put_tensor`, `put`, `put_replay`, `resolve_*`, `release_trajectories` | tensors shared by batches that are released independently; late puts |
| Execution ledgers (`environment/focus_runtime.py`, `crop_runtime.py`) | entry per (trajectory, call), released trajectories, a condition | `execute_once`, `assert_releasable`, `release_trajectories` | threads that wait for another thread's tool; failures; release against execution |
| Batch lifecycle (`policy/lifecycle.py`) | milestones, consumers, payloads of each batch; active batches, update gate, checkpoint gate | `open_batch`, `consume`, `attach_*`, `close`, `abort`, `checkpoint_barrier` | overlapping batches, half-made updates, releases that fail half-way |
| Behavior trace store (`trajectories/behavior.py`) | trace per turn, released trajectories | `put`, `release_trajectories` | late puts |
| Agent loop (`environment/agent_loop.py`) and state machine (`protocol/state_machine.py`) | phase, attempt and call counters, turns, results, errors, token budget | one generator, resumed with each sampled turn and tool result | failed and refused attempts, cap and recovery, five ways to stop |
| Trajectory validation (`trajectories/validation.py`) | none | `validate` | written apart from the loop whose records it judges |
| Policy group runtime (`policy/runtime.py`) | none of its own | `run_group` | order and nesting of consumers |
| Policy task runner (`framework/verl/policy_task_runner.py`, `full_qwen_checkpoint_manager.py`) | step, actor, data cursor, last boundary, metrics; flags of the update, the metrics and the checkpoint; whether the replicas sleep | the trainer's hooks in the order of the veRL loop, the handler of exceptions | an exception in any call of a step, then a save of the boundary before it; a kill and a resume |
| Project checkpoint (`policy/checkpoint.py`, `framework/verl/checkpoint_bridge.py`) | files: shards, project state, pair, data cursor, tracker | `save`, `load` | crash between files; what is loaded before it is validated |
| Checkpoint coordinator (`checkpoint/`) | contributors | `capture`, `restore` | one contributor of several failing |
| Weight synchronisation, behavior version and version port (`framework/verl/policy_weight_*.py`, `policy_behavior_version.py`, `policy_runtime.py`) | files: request, tensors, manifest, latest pointer; in each rollout process, the version and the pointer's signature it saw | publish, stream, verify, load, answer | crash between files, stale pointers, readers in other processes, a stream that outlives its trainer |
| Immutable publication (`immutable_publication.py`) | a file | create-only and content-consistent publish | racing writers, changes between the looks of a comparison |
| veRL agent loop and its client (`framework/verl/native_agent_*.py`, `framework/async_worker.py`, `vllm_tool_runtime.py`) | rollout indices; routes, turns and backend ids per trajectory; at the vLLM worker, sources and trace buffers | `run`, `generate`, `materialize_*`, `release_trajectory`, cancellation | cancellation while a worker thread runs; late tool calls; calls cut off half-way |
| Evaluation driver (`evaluation/policy_coredev.py`) | worker threads | run, clean up | cancellation while a worker thread runs, releases after one that raised |
| Live vLLM turns (`framework/vllm/turn_runtime.py`) | registered, claimed and resolved turns | register, claim, resolve | single-use turns and retries |
| Judges (`judges/dispatch.py`) | closed flag, executor, slots | judge, close | close against submit, slots of cancelled requests |
| Protocol parsing, tools, rewards, objectives, conditioning, Qwen adapters, configuration, data, representation training, operations, command line | none that outlives a call, or files written once | pure or numerical | nothing a model checker adds to |

How they interact: a trajectory is an asyncio task of veRL's agent loop.  It
resumes the framework-neutral loop on worker threads, one segment at a time, and
awaits the rollout server between them; a tool call goes from the segment's thread
back to the event loop and from there to the vLLM worker.  Each tool call goes
through a ledger, whose operation puts tensors and a record in the observation
store and returns a handle; each turn puts a trace in the behavior store.  When
the loop ends the finalizer puts a replay.  The lifecycle manager sees all
three stores: it releases the trajectories of a batch in each of them, and
refuses checkpoints while one of them is not empty.

Around all of this runs the trainer's process.  After each optimizer step it sends
the weights to the rollout replicas, publishes the *version* that labels the next
trajectories and writes a checkpoint when one is due.  Trainer, weight-streaming
worker and rollout processes agree on the version through files only, and so do a
launch and the one that resumes after it.

## 2. Modules

| Module | Code | What it is |
|---|---|---|
| `ObservationStore` | `observations/store.py` | the store's methods, one action each |
| `ObservationStoreProofs` | | its inductive invariant, its properties and the implementation of `EvidenceStore` proved |
| `FocusExecutionLedger` | `environment/focus_runtime.py:233-309` | `execute_once` by several threads, with its condition |
| `FocusExecutionLedgerProofs` | | its inductive invariant, its properties and the implementation of `EvidenceStore` proved |
| `EvidenceStore` | | the abstract specification of one store of evidence: the two above implement it, the next one uses three |
| `PolicyBatchLifecycle` | `policy/lifecycle.py` | the manager, its batches, and the stores as the manager sees them |
| `ZeroStalenessGate` | | the abstract specification the lifecycle implements |
| `PolicyBatchLifecycleProofs` | | its inductive invariant, its properties, the implementation of the gate and the use of the stores proved |
| `AgentLoop` | `environment/agent_loop.py`, `protocol/state_machine.py`, `trajectories/validation.py` | one trajectory from first turn to record |
| `AgentLoopProofs` | | its inductive invariants and its safety properties proved, a bound on the steps of a trajectory among them |
| `NativeAgentDriver` | `framework/verl/native_agent_loop.py`, `native_agent_client.py`, `vllm_tool_runtime.py`, `policy_live_runtime.py`, `framework/async_worker.py` | one trajectory's task, with its threads, its client and the vLLM worker |
| `NativeAgentDriverProofs` | | its inductive invariants and its safety properties proved |
| `PolicyTrainingRun` | `framework/verl/policy_task_runner.py`, `checkpoint_bridge.py`, and the version of `policy_weight_sync.py` and `policy_behavior_version.py` | one run over several launches of its process: steps, exceptions, kills, checkpoints and resumes |
| `ResumableTraining` | | the abstract specification of a run that trains on top of what it saved last |
| `PolicyTrainingRunProofs` | | its inductive invariant, its properties and the implementation of `ResumableTraining` proved |
| `SnapshotPublication` | `framework/verl/policy_weight_sync.py`, `policy_weight_snapshot_store.py`, the version port of `policy_runtime.py` | the publication of a version, file by file, with its readers |
| `SnapshotRegister` | | the abstract specification those files implement |
| `SnapshotPublicationProofs` | | its inductive invariant, its properties and the implementation proved |
| `ImmutablePublication` | `immutable_publication.py` | racing writers of one file, look by look |
| `AtomicFile` | | the abstract specification those looks implement |
| `ImmutablePublicationProofs` | | its inductive invariant, its properties, a bound on the steps of a call and the implementation proved |
| `MC...` | | the constants TLC uses |

`PolicyTrainingRun` publishes a version in one step, and `SnapshotPublication`
shows what that step is made of.  `ImmutablePublication` is the general form of the
create-only file that `SnapshotPublication` uses twice.

Definitions whose comment begins with "Mutant" are wrong versions of the
definition that follows them.  They are used by nothing: each says which mistake
in the code one of the properties would notice.

### ObservationStore

`_tensors`, `_tensor_owners`, `_records` (with their digests), `_replays` and
`_released_trajectory_ids` are the variables `tensors`, `owners`, `records`,
`replays` and `released`.  Each method holds the store's lock throughout and
does all its checks before its first write, so it is one action whose guard is
"does not raise".  A checksum is modelled as the content it is made from, so
"same identity, other digest" is "same identity, other content".  A batch is the
unit of release, as in the manager.

Two facts of the callers are in the model.  `put_tensor` may be called without
a trajectory, but every caller in `src` names one.  And `put_replay` itself
accepts handles of other trajectories, so `PutReplay` does; that such a replay
blocks the release of the batch it refers to is then part of the model (the
finalizer's validator excludes it in the running system).

### FocusExecutionLedger

One thread executes one call at a time.  `Enter` is the call; `Reject`, `Admit`,
`Answer` and `Wait` are the ways the locked loop at `focus_runtime.py:256-270`
may go; `Succeed` and `Fail` are the return of the operation and the locked
block after it.  A thread that sleeps is in `waiting`; `notify_all` moves all of
them to `locking`, where they take the lock in any order, as with Python's
`Condition`.  Waiters of other keys are woken too: there is one condition.
`CropExecutionLedger` (`crop_runtime.py:40-110`) has the same methods line by
line, so what is said here holds for it as well.

`successes`, `failures` and `answers` record history for the properties;
`failures` also bounds the model (`MaxFailures`).

### EvidenceStore

What the manager knows of a store: which units it keeps evidence of, for which
evidence is being computed, and which it was told are released; nothing arrives
for those, and nothing of them is kept.  The pieces fit as follows.

- `ObservationStore` and `FocusExecutionLedger` implement it (`ImplementsEvidenceStore`
  of each), the first with the batch as the unit, as the manager releases it, the
  second with the trajectory.  Owners, digests and replays of the one, and waiting,
  failing and retrying threads of the other, are stutters or disappear in `End`.
- `PolicyBatchLifecycle` uses three of them, one for each store
  (`UsesEvidenceStores`): whatever the manager, its batches and its threads do is a
  step a store allows.  So it asks of a store no more than the stores promise.
- The other half is that it expects no less.  `ProducersAreUnrestricted` says that
  whatever a store may do by itself for a batch that was opened is a step of the
  lifecycle: it was not proved against stores that are better behaved than these.

Several executions of one batch may run at once, so the end of one need not end
them all (`EndTool`), while in the ledger a trajectory is busy as long as one of
its keys runs.

### PolicyBatchLifecycle and ZeroStalenessGate

The manager's methods hold its lock, and those of a batch the batch's lock, so
each is one action, with one exception.  The stores have locks of their own and
tool threads do not take the manager's.  So while `_finish` releases the stores
one after another (`lifecycle.py:501-519`), executions start and end and
evidence is put.  `_finish` is therefore `BeginFinish`, three times
`ReleaseStore` and `EndFinish`; between them the manager's lock is held
(`LockFree` is false), and the stores' actions go on.  A preflight that refuses
raises before anything is changed, so no action stands for it.  After it a store
may still refuse (`Answers`): the ledger when an execution has started since, the
observation store when a replay of another batch has come to refer to its records;
the others are then released all the same.  The behavior store and the transient
states never raise, and a sidecar would only if its mapping were replaced under
the batch's lock.

`trained`, `published` and `openedAt` are not variables of the manager: they are
the effect of the bodies of the consumers `optimizer_step` and
`zero_staleness_barrier` (the first makes a new policy, the second publishes it,
by the meaning the milestones have for their callers) and are what staleness is
about.  Rollout threads write evidence only for batches that were opened:
trajectories are made from an opened batch.

`ZeroStalenessGate` is the promise without milestones, locks and stores: leases
taken at a version; an update only by the holder of the only lease, of data of
the current version; nothing leased or captured until the update is published; a
torn update never left.  `ImplementsGate` instantiates it with the lifecycle's
state: leases are the active batches, the phase follows from the holder's
milestones.

### AgentLoop

The loop is a generator that gives up control where it asks for a turn and
inside a tool call.  `pc` says where it is; what it does from one such point to
the next is one action.  `machine` is the `AgentState`, and `Apply` the
transition function of `state_machine.py`, with "raises" as the empty set of
next states.  A sampled turn is one of a small set of classes:

- `kind`: `final`, `tool`, `disabled_tool` (parsed, its tool not enabled in this
  arm) or `malformed`: the verdict of boundary classifier and parser;
- `tokens` and `length`: its size, and whether the sampler cut it;
- `think`, `answer`, `well_formed`: what its text has.  What counts as
  well-formed differs by dialect (thinking, instruct, legacy); all of them lie
  between "has an answer" and "has both", so `well_formed` is any value between.

`max_response_length = 0` stands for a request without a sampling contract,
which has no token budget.  `RecordValid` is what
`trajectories/validation.py` demands of the shape of a record: order of attempts
and calls, turns that fit, and the conditions on `call_cap` and
`invalid_format` stops.  `Crash` is any exception that leaves the loop.

### NativeAgentDriver

An asyncio task gives up control only at an `await`, so what `run()` does from
one await to the next is one action, and `pc` names the await: one of the seven
kinds of thread the run uses (`Kinds`), a remote call (`build`, `register`,
`sampling`, `releasing`), or `sampled`, where the generation under `wait_for` is
finished and the task not yet resumed.  `Leave` enters the `finally` block.  A run
is `over` when it went through that block, and `abandoned` when it ended before
its `try`.

A thread cannot be stopped.  `run_side_effecting_in_thread` answers a cancellation
by waiting for its thread (`CancelDraining`, `pending`), `asyncio.to_thread` by
leaving it behind (`CancelAwait`).  A tool call is made in the segment's thread,
which then waits in `future.result` (`parked`) for a `coroutine` on the event loop;
on its timeout the coroutine goes on without anyone waiting for it, and meets
whatever is left of the trajectory.  `focus` stands for the tool calls that use
and drop the trace of their turn, `crop` for those that need only the cached source.
A run whose profile captures no hidden states (`capture` is FALSE) makes only the
latter (`Tools`).

The calls of the client form a queue, `inbox`; they are executed in the order they
were made (the actor and engine queues between them are external).  A call may fail
before it changes anything.  The wait for a free server inside `_route` is upstream
code and is taken as immediate.  A cancellation that meets a finished generation is
answered with its result by Python 3.11's `wait_for` (the project supports 3.11 and
3.12): `swallowed` counts those.

Not modelled: the shutdown of the event loop, which cancels the helper's own task
as well; the claims of rollout indices; and what the output's validation looks at
(`ReleaseEnds` lets it refuse any output).

### PolicyTrainingRun

The trainer's process has one control flow, so `pc` names the call it is in and an
action is the return of that call.  The order of the calls is that of the pinned
veRL loop, which `src` uses and does not contain: load the framework's checkpoint,
synchronise the weights, then for each step sample, sleep the replicas, update,
synchronise again.  That loop, its dataloader and its own files (`data.pt` after
the project's files, `latest_checkpointed_iteration.txt` last) are external; the
hooks, the wrapper of the weight-sync manager, the project state, the pair and the
metrics log are the repository's.

Weights are the history of the updates that made them.  Two launches that repeat a
step therefore make different weights, and "these two agree" can be told from
"these two have the same step".  `generation` is step -> the files of
`global_step_<n>`; every file is written by an action of its own.

`Fault` lets any call raise, with whatever the call may have done by then: some of
the replicas reached by a fan-out, an optimizer step that was or was not taken, a
step recorded in the metrics and not in the boundary.  The handler
(`policy_task_runner.py:1199-1290`) is `GiveUp`, `AlreadySaved` or `RecoverBoundary`
and then the same `Prepare...` to `WriteTracker` as a regular checkpoint.  It catches
`Exception`, so a keyboard interrupt or a signal is `Crash`, like a kill.  `Launch` may
follow any end but success.

`VersionNamesWeights` tells the two kinds of version apart: a hash over the weights,
or (full-Qwen receipts) over the run and step.  Not modelled: the removal of old
generations, validation runs, and how workers and datasets are built.

`ResumableTraining` is the run without calls, files, flags and replicas: a launch
starts from what was saved last, learns one batch after another, saves what it has, and
stops.  `ImplementsResumableTraining` maps to it what a process trains on (`Live`, once
it has loaded what it resumes from), the weights of the tracker's generation (`Saved`)
and the outcome.  `WriteTracker` is the one action that saves; the four files before it
are stutters, and so is every exception that leaves the actor as it is.

### SnapshotPublication and SnapshotRegister

The state directory holds an active request, an immutable safetensors file for each
content, an immutable manifest for each request, and the latest pointer.  The trainer
replaces the request and hands over to the stream of the rank-zero worker
(`StartStream` to `ReplacePointer`), then verifies that the pointer answers its own
request (`VerifyPointer`) and that the files behind it are complete
(`VerifyClosure`).  Each rollout process has a version port: its first call builds
a runtime from the pointer and reads the signature afterwards, later calls load
only when the signature changed.

A stream belongs to a launch and may outlive it: the worker is another process, and
nothing waits for it when the trainer dies.  What it does after the next launch has
begun is the interesting part, and `late` records that it has published there.

A file is created by linking a temporary name and unlinking it, under a lock of its
directory.  A process that is killed between the two leaves a file with two names
(`doubled`), which every later writer of the same bytes refuses, because the store
demands a link count of one.  `RefusedOnlyIfDisturbed` says that this and a late
stream are the only ways for a launch to be refused.

The model follows the LoRA snapshot.  The stream of the trainable modules publishes
by the same function; the behavior snapshots' port is its twin and differs only in
the file it reads.

`SnapshotRegister` is the promise without files: a request is answered once, an
answered request is published, a reader that fetched a value keeps it.
`ImplementsRegister` maps the pointer, and what each process holds of it, to the
values whose manifest and tensors are complete; so a pointer to an incomplete
snapshot would be a pointer to nothing, and a step that makes one is no step of the
register.

### ImmutablePublication

Every writer makes one private file and links it, so a writer stands for its inode.
`_publish_bytes` is `WriteTemporary`, `Link`, the three looks of the comparison
(`Stat`, `Open`, `Compare`) and `RemoveTemporary`.  The comparison opens, reads and
looks again; the looks whose order cannot matter (two consecutive ones at the same
descriptor) are one action.  `opened` keeps what the change time of the inode
depended on at the open: an inode's change time moves when its temporary name is
unlinked.  Two changes within one tick of the file system's clock look like one, so
`Compare` may also accept a touched file.  Others may remove the destination
(`Remove`, bounded by `MaxRemovals`).  That an inode number is used again for
another file between two looks is not modelled.

`AtomicFile` is the promise without names and looks: each call meets one whole file at
one instant.  `ImplementsAtomicFile` puts that instant at `Link` when the link succeeds,
and otherwise at the look that decides, the last one.  It says what a call may return
when the file is removed on the way, which `OutcomesAreTrue` does not.

## 3. What is checked

Each run finishes within about a minute.

| Run | Instance | States | Properties |
|---|---|---|---|
| `observation_store` | 3 trajectories in 2 batches, 2 keys, 2 records, 1 replay, calls 0 and 1 | 303,370 | `TensorsResolve`, `HandlesResolve`, `NoOrphanTensor`, `ImplementsEvidenceStore` |
| `focus_execution_ledger` | 3 threads, 2 keys, 2 fingerprints, 1 failure for a key | 97,856 | `ExecuteOnce`, `EveryCallEnds`, `ImplementsEvidenceStore` |
| `policy_batch_lifecycle` | 2 interchangeable batches (symmetry), 1 holder | 644,328 | `ZeroStaleness`, `FinishedLeavesNothing`, `CheckpointIsClean`, `FailureIsTerminal`, `LeasedEvidenceStays`, `ImplementsGate`, `UsesEvidenceStores` |
| `agent_loop` | caps 1 and 2, both cap behaviours, with and without direct-only, budgets none, 3 and 5, turns of at most 2 tokens | 17,168 | `RecordAccepted`, `ContextIsValid`, `CapHolds`, `ErrorsAreHonest`, `StopTellsTheEnd`, `MachineNeverRaises`, `EveryTrajectoryEnds` |
| `native_agent_driver` | 2 turns, 2 cancellations, with focus and crop calls and with crop calls only | 4,062 | `DrainedBeforeRelease`, `NothingHeld`, `CancellationWins`, `ReleaseCleansServer`, `EveryAwaitIsServed`, `EveryRunEnds` |
| `policy_training_run` | 3 steps, every set of checkpoint steps, 2 replicas, 3 launches, 2 exceptions, kills anywhere | 91,663 | `CommittedGenerationIsExact`, `RolloutIsLabelled`, `CheckpointsAreQuiet`, `SavedIsResumable`, `LogNeverContradictsCheckpoint`, `ImplementsResumableTraining`, `EventuallyTrained` |
| `snapshot_publication` | 2 launches, steps 0 and 1, 2 weights, 2 rollout processes | 113,142 | `LabelsAreTrue`, `RefusedOnlyIfDisturbed`, `ImplementsRegister` |
| `immutable_publication` | 3 interchangeable writers (symmetry), 2 contents, 2 attempts, 1 removal | 632,612 | `OnlyInstabilityRaces`, `CallsAreWaitFree`, `ImplementsAtomicFile` |
| `preflight_suffices` | 1 batch | (counterexample) | `PreflightSuffices`, violated |
| `cancelled_is_released` | 1 turn, 1 cancellation | (counterexample) | `CancelledIsReleased`, violated |
| `restart_is_accepted` | 3 steps, 3 launches, no exception | (counterexample) | `RestartIsAccepted`, violated |

The type invariant of each module (`TypeOK`) is not among the properties of a run:
it is proved (section 4).  Nor are properties that say again, in a component's own
words, what one of the listed ones demands; they too are proved:

| Proved property | said again, or needed, by |
|---|---|
| `UpdateIsExclusive`, `NoHalfUpdate` (lifecycle) | `ImplementsGate`, `CheckpointIsClean` |
| `ReleasedLeaveNothing` (store), `ReleasedIsQuiet` (ledger) | `ImplementsEvidenceStore` of each |
| `ReleaseIsSelective` (store) | `TensorsResolve` |
| `RunnerOwnsEntry`, `NoLostWakeup` (ledger) | `EveryCallEnds`: a runner without its entry never returns, a sleeper without a runner never wakes |
| `StepsAreBounded`, `BudgetRemains` (loop) | `EveryTrajectoryEnds` |
| `EachBatchTrainedOnce` (training run) | `ImplementsResumableTraining` |
| `OutcomesAreTrue` (publication) | `ImplementsAtomicFile` |

Why these bounds are enough to meet the hard cases:

- *Store*: a batch with two trajectories and one with a single one; two keys that
  any of them may share; a replay that can reference records of its own or of
  another trajectory.  Sharing between batches, between trajectories of a batch,
  and puts after the release all occur.
- *Ledger*: with three threads one can run while two sleep, and after a failure
  the two race, possibly with different fingerprints.  Two keys share the one
  condition.  One failure gives one retry; a second failure would only repeat it.
- *Lifecycle*: two batches are the least that can overlap, and enough for one
  to be opened before, during or after the update of the other.  `Holders` has only the payload that closing
  demands: other held state is never read (the proofs do not fix it).
- *Loop*: with cap 2 every order of executed, refused, failed and malformed
  attempts before and over the cap is reached, with budgets that end before, on and
  after it.
- *Driver*: a second turn is what makes the first one's trace, tool call and turn
  entry stale; a second cancellation reaches the helper while it drains, or the
  release while it runs.  With 3 and 3 (12,915 states) nothing new was found.
- *Training run*: two exceptions are one in a step and one in the handler's save,
  or one in each of two launches; three launches are a first one, one that
  resumes and one that resumes from what that one saved.  Three steps allow a
  checkpoint before, at and after an interrupted step.  The run has
  `VersionNamesWeights = FALSE`, the weaker version; the proofs have both.
- *Snapshots*: the second launch is the one that an old stream disturbs.  Two
  weights are enough for a stale answer to differ from a true one, and for an equal
  one to meet the file that is already there.
- *Publication*: the third writer is what makes the file another one compares
  against change by an unlink while a second has yet to link.  With two removals
  (1.8 million states) the properties hold as well.

**Fairness.**  Safety needs none.  `EveryCallEnds` (ledger) assumes weak fairness
of each thread's steps: a thread that can take the ledger's lock at last does, and
a tool operation returns or raises (the operations are finite computations).  It
does *not* assume that waiting threads are served in an order.  `EveryTrajectoryEnds`
(loop) assumes weak fairness of the loop's own step: the sampler and the tool
runtime return or raise.  Nothing is assumed about *what* the policy samples: it
may answer each refusal with another malformed action.  `EveryRunEnds` (driver)
assumes that the event loop runs what is ready, that threads return or raise, that
a tool's coroutine is started and resumed, and that the vLLM worker gets to each
call; *not* that a call succeeds, nor that anybody cancels.  `EventuallyTrained`
(training run) assumes that a live process goes on and that a run which ended without
success is launched again; that is what the launch supervisor is for.  It does not
assume that calls succeed, and it is stated for runs in which nobody kills the process
and the handler never has to give a boundary up.

**Deadlock** is checked in the runs of the store, the ledger and the lifecycle.  The
others end: a trajectory is over, a run is trained or has used its launches, every
writer has returned.

**The findings.**  `lifecycle.py:484` says "Preflight every potentially rejecting
operation before mutation."  `PreflightSuffices` states that: once the preflight
passed, no release is refused.  TLC refutes it in a few steps: the ledger gives
its lock back after `assert_releasable`, a tool execution starts, and
`release_trajectories` refuses (`focus_runtime.py:303`), while the observation and
behavior stores are released all the same.  The batch then ends `cleanup_failed`
and blocks later batches and checkpoints.  `FinishedLeavesNothing` and
`FailureIsTerminal` show that the damage stays contained: the batch is never
counted as finished and nothing is built on it.

`docs/VTOOL_R1_THROUGHPUT_ALIGNMENT_20260901.md:15` says that cancellation first
drains the side-effecting segments that have begun and then releases the sticky
trajectory.  `CancelledIsReleased` states the second half, and TLC refutes it in
two steps: `run()` awaits `build_async` before its `try` (`native_agent_loop.py:565`
and `:603`), and `build_async` acquires the server, notes the route and has the
source cached.  A cancellation there leaves all three, and so does a failure of what
`build_async` does after them.  `NothingHeld` shows that this is the only place: a
run that reaches its `finally` block holds nothing afterwards.

`policy/launch.py:684-687` says that one configuration is valid before the first
launch and after a clean-process restart, the latest checkpoint being taken when it
exists.  `RestartIsAccepted` states that such a restart is let in, and TLC refutes it: a
process is killed after it has published the version of a later step whose
checkpoint was not (yet) committed.  The next launch loads the tracker's generation
and then compares its version with the *published* one (`checkpoint_bridge.py:294`,
`policy_task_runner.py:763-770`), which is now ahead of it and which nothing sets back;
so is every launch after it.  After an exception this does not happen, since the
handler saves the boundary the pointer names: that is `SavedIsResumable`.

## 4. What is proved

TLAPS checks the following for every value of the constants, under the named
assumptions of the modules only: identities are drawn from sets, `None` is not
one of them, bounds are naturals, `data_proto` is among the holders, there are
finitely many writers, `"trainer"` is no rollout process, no payload is the mark of a
missing file.  The type invariant is part
of each inductive invariant and a theorem of its own.

- **Store.**  The properties are not inductive: that references resolve depends on
  who owns what.  `StoreInv` adds that a key is stored exactly while somebody
  owns it, that whatever references a key owns it, and that batches are released
  as a whole.  The last one carries `HandlesResolve`: `_prepare_release_locked`
  skips its check when one of the identities was released before, which is
  harmless only because identities are released batch by batch.
  `ObservationsImplementEvidenceStore` needs it for the same reason: a batch whose
  evidence is dropped is a batch nothing is put for afterwards.
- **Ledger.**  `LedgerInv` adds that an entry that is running has exactly one
  runner and a runner's entry is its own, that a key's number of successes agrees
  with its entry, and that released trajectories have no entry.  At-most-once
  execution, agreement of all answers and the safety half of "no lost wake-up" (a
  sleeper's key is running, `NoLostWakeup`) follow.  `LedgerImplementsEvidenceStore`
  proves that what the threads do among themselves does not show outside.
- **Lifecycle.**  `LifecycleInv` gathers ownership of batches, the order of
  milestones, the exclusiveness of the update gate, the version of each open batch,
  the quietness of released stores and the progress of a release in course.
  `LifecycleImplementsGate` proves that every step is a step of
  `ZeroStalenessGate` or leaves it unchanged, for any number of batches, and
  `LifecycleUsesEvidenceStores` that every step is one the three stores allow.
- **Agent loop.**  `RecordAccepted` and the others speak of the end of a
  trajectory, where the validator looks; `LoopInv` says what holds at every point
  where the loop gives up control.  The attempt numbered *k* is the action of
  turn *k*, every attempt ended in exactly one result or error, the counters of the
  `AgentState` are those of the recorded events, a cap error is the last event,
  and the phase of the machine agrees with where the loop is.  It holds for all
  caps, budgets and requests the constants allow, and any turns.
  `ProgressInv` adds the budget and the checks the `AgentState` makes of itself
  (`StateIsValid`): the next transition always exists (`TransitionsExist`), a turn is
  asked for only with tokens left (`BudgetsRemain`), and `TrajectoriesAreBounded` counts
  at most `2 * max_tool_calls + 5` steps.  The bound is what remains of
  `EveryTrajectoryEnds` without fairness.

- **Driver.**  What a run leaves behind depends on what was on its way when it was
  cut off.  `DriverInv` says that a draining thread exists only while the task awaits
  it, that a cancellation is held by the helper, swallowed, or the outcome, and that
  one server is held exactly while the route or the release holds it.  For the vLLM
  worker it speaks of the calls not yet executed: the release is the last of them,
  and every id with a trace, or with a registration on its way, is noted by the
  client or in that release, but for the last one if it was cut off.  It holds for
  any number of turns and cancellations.  `AwaitInv` follows each call from who made it
  to who waits for its answer: a call is on its way at most once, one that nobody waits
  for belongs to a run that is ending, and so nobody waits for an answer that will not
  come (`AwaitsAreServed`).  That is why `EveryRunEnds` needs no more than the steps of
  those who have something to do.

- **Training run.**  The properties speak of moments: the pair file of a generation
  written, a step sampled, a launch let in.  `IInv` says for each call what the
  owners agree on (`PhaseInv`, `FlagInv`), what the replicas hold and the pointer names
  (`PublicationInv`), how far the generation being written has come (`WritingInv`),
  and what the disk says to whoever looks at it later (`ExactInv`, `DiskInv`).  The hard
  part is what one launch may find of another.  `LineageInv` and `Orphan` say that a
  generation beyond the tracker is one no launch can get to, because the pointer has
  passed the tracker with it, or the log stops a launch from scratch; therefore a
  process either continues what the disk records or will be refused before it writes
  any of it (`Doomed`).  It holds for any replicas, steps, launches and exceptions, any
  checkpoint plan and both kinds of version.
  `RunIsResumable` proves that every step is a step of `ResumableTraining` or leaves it
  unchanged.  Besides `IInv` it needs `EndInv` (a run counts as trained only when it is
  complete and down) and takes from `LineageInv` that a process which writes has loaded
  the tracker's generation (`LiveCallsTrain`).  `SavedWorkIsKept` is proved from the
  abstract steps alone: whatever is saved later begins with what was saved before.
- **Snapshots.**  `SnapshotInv` says of each stream that its place in the protocol is
  what is on the disk, and of the trainer and the ports that what they hold is
  complete.  That no late stream answers the request of this step follows from
  `IssuedInv` (a manifest exists only for a request that was made by now), and that
  labels are true in a quiet launch from `QuietInv`.  `TornInv` finds the file with two
  names behind every refusal.  `RegisterImplemented` proves that every step is a step
  of `SnapshotRegister` or leaves it unchanged.
- **Immutable publication.**  Whether a call gives up rightly depends on changes that
  happened between its looks.  `CountInv` counts: each failed attempt of a writer has
  had a change of the destination to itself, and so has the attempt that is about to
  fail (`Disturbed`).  It holds for any finite set of writers, any number of attempts
  and of removals.  `PublicationIsWaitFree` gives each call `4 * Retries + 2` steps of its
  own, a measure no other writer can raise, so it ends under any scheduling that runs it;
  `PublicationIsLinearizable` proves that every step is a step of `AtomicFile` or leaves
  it unchanged.

Every safety property of the passing runs is proved.  Only model-checked are
`EveryCallEnds`, `EveryTrajectoryEnds`, `EveryRunEnds` and `EventuallyTrained`, which are
liveness under fairness and out of the proof system's reach.  What of them is safety is
proved: no lost wake-up for the first, a bound on the steps for the second, that every
await is served for the third, and for the last that saved work is never lost.

## 5. What is not modelled

Most of the repository's lines are numerical code (replay, losses, conditioning,
representation training), parsing and configuration, data preparation, evaluation
artefacts and launch scripts.  They have no state that outlives a call, or nothing
that happens in different orders, and a model of them would either copy them or say
nothing.  So the share of the lines that is modelled is small, and stays small; the
lines where threads, tasks, processes and files meet are the ones above.

Left out with state of their own, and why:

- **Live vLLM turns** (`framework/vllm/turn_runtime.py`): a registry under one lock, whose
  methods are a check and an assignment; no caller retries.
- **Judges** (`judges/dispatch.py`): a slot is given back by the thread that took it,
  whatever its call returns; the dispatcher is closed when its process ends.
- **Checkpoint coordinator** (`checkpoint/coordinator.py`): the training run saves and loads
  through the pair of `checkpoint_bridge.py`; a restore that raises ends the launch, and
  the next one starts from fresh objects.
- **Evaluation driver** (`evaluation/policy_coredev.py`): its worker is not drained on a
  cancellation, but nothing in `src` cancels an evaluation except the end of its process,
  which ends its in-memory stores as well.
- **Other bridges, actors and launchers** of `framework/verl`: adapters to the upstream
  trainer and the code that builds its workers.

What is left out of the modelled parts is named in section 2 and in the notes of
`PROJECT.json`.
