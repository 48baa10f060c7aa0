------------------------ MODULE PolicyBatchLifecycle ------------------------
(***************************************************************************)
(* The batch lifecycle of policy/lifecycle.py: one lease per rollout batch, *)
(* from the rollouts through replay, loss and optimizer step to the         *)
(* zero-staleness barrier, and the gates between batches and checkpoints.   *)
(*                                                                          *)
(* PolicyBatchLifecycleManager's methods hold the manager lock (and the     *)
(* batch lock) throughout, so each is one action, with one exception: while *)
(* _finish releases the stores, tool threads and recorders keep calling     *)
(* them, since each store has a lock of its own.  _finish is therefore one  *)
(* action per store, and "finishing" stands for the manager lock it holds.  *)
(* A method that raises before its first write is a disabled action.        *)
(*                                                                          *)
(* The stores are modelled by what the manager asks of them: whether they   *)
(* hold evidence of a batch and whether they were told that its             *)
(* trajectories are released (ObservationStore and FocusExecutionLedger     *)
(* model their inside).                                                     *)
(***************************************************************************)
EXTENDS Naturals, FiniteSets

CONSTANTS
    Batches,    \* batch identities, each with its own trajectories
    Holders,    \* what a batch holds itself: sidecars, transient state
    None        \* no owner, nothing being finished

ASSUME NoneAssumption == None \notin Batches
ASSUME HoldersAssumption == "data_proto" \in Holders

(* PolicyBatchMilestone and _MILESTONE_DEPENDENCIES                          *)
Milestones ==
    {"behavior_replay", "current_replay", "reference_replay",
     "loss_backward", "optimizer_step", "zero_staleness_barrier"}

Dependencies ==
    [m \in Milestones |->
        CASE m = "behavior_replay" -> {}
          [] m \in {"current_replay", "reference_replay"} -> {"behavior_replay"}
          [] m = "loss_backward" -> {"current_replay", "reference_replay"}
          [] m = "optimizer_step" -> {"loss_backward"}
          [] m = "zero_staleness_barrier" -> {"optimizer_step"}]

(* The stores in the order _finish releases them.                           *)
Stores == {"ledger", "observation", "behavior"}
Order == <<"ledger", "observation", "behavior">>

VARIABLES
    state,      \* PolicyBatchState; "unopened" before open_batch
    active,     \* _active: the batches the manager owns
    completed,  \* _completed milestones of each batch
    inflight,   \* _inflight milestones of each batch
    consumers,  \* _active_consumers of each batch
    held,       \* _data_protos and _transient_states of each batch
    gate,       \* _update_gate_owner
    capturing,  \* _checkpoint_gate_active
    finishing,  \* the _finish in progress: batch, aborted, next store, errors
    evidence,   \* the stores that keep entries of a batch
    running,    \* batches with a tool execution in progress
    released,   \* the stores told that a batch is released
    trained,    \* optimizer steps done: the version of the trainer's policy
    published,  \* version the rollout engine samples from
    openedAt    \* version published when a batch was opened

vars == <<state, active, completed, inflight, consumers, held, gate, capturing,
          finishing, evidence, running, released, trained, published, openedAt>>

batchVars == <<state, active, completed, inflight, consumers, held>>
storeVars == <<evidence, running, released>>
policyVars == <<trained, published, openedAt>>

States == {"unopened", "open", "closed", "aborted", "commit_unknown", "cleanup_failed"}

Finish == [batch : Batches, aborted : BOOLEAN, next : 1 .. 4, failed : BOOLEAN]

TypeOK ==
    /\ state \in [Batches -> States]
    /\ active \in SUBSET Batches
    /\ completed \in [Batches -> SUBSET Milestones]
    /\ inflight \in [Batches -> SUBSET Milestones]
    /\ consumers \in [Batches -> Nat]
    /\ held \in [Batches -> SUBSET Holders]
    /\ gate \in Batches \cup {None}
    /\ capturing \in BOOLEAN
    /\ finishing \in Finish \cup {None}
    /\ evidence \in [Batches -> SUBSET Stores]
    /\ running \in SUBSET Batches
    /\ released \in [Batches -> SUBSET Stores]
    /\ trained \in Nat
    /\ published \in Nat
    /\ openedAt \in [Batches -> Nat]

Init ==
    /\ state = [b \in Batches |-> "unopened"]
    /\ active = {}
    /\ completed = [b \in Batches |-> {}]
    /\ inflight = [b \in Batches |-> {}]
    /\ consumers = [b \in Batches |-> 0]
    /\ held = [b \in Batches |-> {}]
    /\ gate = None
    /\ capturing = FALSE
    /\ finishing = None
    /\ evidence = [b \in Batches |-> {}]
    /\ running = {}
    /\ released = [b \in Batches |-> {}]
    /\ trained = 0
    /\ published = 0
    /\ openedAt = [b \in Batches |-> 0]

-----------------------------------------------------------------------------
(* The manager lock is free.                                                *)
LockFree == finishing = None

(* The lock of this batch is held by _finish.                               *)
BeingFinished(b) == finishing # None /\ finishing.batch = b

(* Mutants of the checks of open_batch, each with one of them dropped.      *)
MayOpenWhileCapturing ==
    gate = None /\ \A a \in active : state[a] # "cleanup_failed"
MayOpenAfterFailure ==
    ~ capturing /\ gate = None

MayOpen ==
    /\ ~ capturing
    /\ gate = None
    /\ \A a \in active : state[a] # "cleanup_failed"

(* open_batch: identities are used once.                                    *)
OpenBatch(b) ==
    /\ LockFree
    /\ MayOpen
    /\ state[b] = "unopened"
    /\ state' = [state EXCEPT ![b] = "open"]
    /\ active' = active \cup {b}
    /\ openedAt' = [openedAt EXCEPT ![b] = published]
    /\ UNCHANGED <<completed, inflight, consumers, held, gate, capturing, finishing>>
    /\ UNCHANGED <<storeVars, trained, published>>

(* attach_data_proto and attach_transient_state hold the batch lock only,   *)
(* which _finish holds as well.                                             *)
Attach(b, h) ==
    /\ ~ BeingFinished(b)
    /\ state[b] = "open"
    /\ held' = [held EXCEPT ![b] = @ \cup {h}]
    /\ UNCHANGED <<state, active, completed, inflight, consumers, gate, capturing, finishing>>
    /\ UNCHANGED <<storeVars, policyVars>>

(* _validate_dependencies_locked                                            *)
Admissible(b, m) ==
    /\ m \notin completed[b]
    /\ m \notin inflight[b]
    /\ Dependencies[m] \subseteq completed[b]

(* Mutant: the optimizer step does not look at other open batches.          *)
GateAdmitsOverlap(b, m) ==
    /\ m = "optimizer_step" => gate = None
    /\ m = "zero_staleness_barrier" => gate = b

(* The gate an update takes and its barrier must still own.                 *)
GateAdmits(b, m) ==
    /\ m = "optimizer_step" => active = {b} /\ gate = None
    /\ m = "zero_staleness_barrier" => gate = b

(* _begin_consumer                                                          *)
BeginConsumer(b, m) ==
    /\ LockFree
    /\ b \in active
    /\ state[b] = "open"
    /\ Admissible(b, m)
    /\ GateAdmits(b, m)
    /\ gate' = IF m = "optimizer_step" THEN b ELSE gate
    /\ inflight' = [inflight EXCEPT ![b] = @ \cup {m}]
    /\ consumers' = [consumers EXCEPT ![b] = @ + 1]
    /\ UNCHANGED <<state, active, completed, held, capturing, finishing>>
    /\ UNCHANGED <<storeVars, policyVars>>

(* _end_consumer when the body succeeded.  The body of optimizer_step makes *)
(* a new policy, that of the barrier hands it to the rollout engine.        *)
EndConsumer(b, m) ==
    /\ LockFree
    /\ m \in inflight[b]
    /\ consumers[b] > 0
    /\ inflight' = [inflight EXCEPT ![b] = @ \ {m}]
    /\ consumers' = [consumers EXCEPT ![b] = @ - 1]
    /\ completed' = [completed EXCEPT ![b] = @ \cup {m}]
    /\ gate' = IF m = "zero_staleness_barrier" /\ gate = b THEN None ELSE gate
    /\ trained' = IF m = "optimizer_step" THEN trained + 1 ELSE trained
    /\ published' = IF m = "zero_staleness_barrier" THEN trained ELSE published
    /\ UNCHANGED <<state, active, held, capturing, finishing, storeVars, openedAt>>

(* Mutant: the barrier frees the gate even when it failed.                  *)
FailConsumerFreesGate(b, m) ==
    /\ LockFree
    /\ m \in inflight[b]
    /\ consumers[b] > 0
    /\ inflight' = [inflight EXCEPT ![b] = @ \ {m}]
    /\ consumers' = [consumers EXCEPT ![b] = @ - 1]
    /\ state' = IF m = "optimizer_step" THEN [state EXCEPT ![b] = "commit_unknown"] ELSE state
    /\ gate' = IF m = "zero_staleness_barrier" THEN None ELSE gate
    /\ UNCHANGED <<active, completed, held, capturing, finishing>>
    /\ UNCHANGED <<storeVars, policyVars>>

(* _end_consumer when the body raised.                                      *)
FailConsumer(b, m) ==
    /\ LockFree
    /\ m \in inflight[b]
    /\ consumers[b] > 0
    /\ inflight' = [inflight EXCEPT ![b] = @ \ {m}]
    /\ consumers' = [consumers EXCEPT ![b] = @ - 1]
    /\ state' = IF m = "optimizer_step" THEN [state EXCEPT ![b] = "commit_unknown"] ELSE state
    /\ UNCHANGED <<active, completed, held, gate, capturing, finishing>>
    /\ UNCHANGED <<storeVars, policyVars>>

-----------------------------------------------------------------------------
Committed(b) == "optimizer_step" \in completed[b]
Synced(b) == "zero_staleness_barrier" \in completed[b]

(* Mutant: a batch may finish under an active consumer.                     *)
MayFinishInUse(b, aborted) ==
    /\ state[b] = "open"
    /\ b \in active
    /\ IF aborted THEN Committed(b) => Synced(b)
                  ELSE completed[b] = Milestones /\ "data_proto" \in held[b]

(* The checks of close (or abort) before anything is released.              *)
MayFinish(b, aborted) ==
    /\ state[b] = "open"
    /\ b \in active
    /\ consumers[b] = 0
    /\ IF aborted THEN Committed(b) => Synced(b)
                  ELSE completed[b] = Milestones /\ "data_proto" \in held[b]

(* _finish up to its preflight: a tool execution holds it back.  What else   *)
(* the preflight refuses (a replay that another batch made of this one's     *)
(* records, a payload that was released early) only delays the release       *)
(* further: a refusal changes nothing.                                       *)
BeginFinish(b, aborted) ==
    /\ LockFree
    /\ MayFinish(b, aborted)
    /\ b \notin running
    /\ finishing' = [batch |-> b, aborted |-> aborted, next |-> 1, failed |-> FALSE]
    /\ UNCHANGED <<batchVars, gate, capturing, storeVars, policyVars>>

(* Mutant: the ledger releases a batch under a running execution.            *)
AnswersUnchecked(b, s) == {FALSE}

(* Whether a store refuses what the preflight admitted.  The ledger does if  *)
(* an execution started since; the observation store may once another batch  *)
(* keeps evidence, for a replay that refers to this batch's records may be   *)
(* part of it; the behaviour store never does.                               *)
Answers(b, s) ==
    CASE s = "ledger" -> {b \in running}
      [] s = "observation" -> {FALSE, \E a \in Batches \ {b} : s \in evidence[a]}
      [] OTHER -> {FALSE}

(* One attempt of _finish: an error is kept, and the other stores are        *)
(* released all the same.                                                    *)
ReleaseStore ==
    /\ finishing # None
    /\ finishing.next <= 3
    /\ LET b == finishing.batch
           s == Order[finishing.next]
       IN  \E refused \in Answers(b, s) :
              /\ finishing' = [finishing EXCEPT !.next = @ + 1, !.failed = @ \/ refused]
              /\ evidence' = IF refused THEN evidence ELSE [evidence EXCEPT ![b] = @ \ {s}]
              /\ released' = IF refused THEN released ELSE [released EXCEPT ![b] = @ \cup {s}]
    /\ UNCHANGED <<batchVars, gate, capturing, running, policyVars>>

(* The end of _finish: the held payloads are released, and the batch leaves *)
(* the manager only if every store released it.  The payloads passed the    *)
(* preflight and are used by no one else while the batch lock is held: a    *)
(* transient state never raises, a sidecar only if its mapping was replaced.*)
EndFinish ==
    /\ finishing # None
    /\ finishing.next = 4
    /\ LET b == finishing.batch
       IN  /\ gate' = IF gate = b THEN None ELSE gate
           /\ held' = [held EXCEPT ![b] = {}]
           /\ IF finishing.failed
              THEN /\ state' = [state EXCEPT ![b] = "cleanup_failed"]
                   /\ UNCHANGED active
              ELSE /\ state' = [state EXCEPT ![b] =
                                  IF finishing.aborted THEN "aborted" ELSE "closed"]
                   /\ active' = active \ {b}
    /\ finishing' = None
    /\ UNCHANGED <<completed, inflight, consumers, capturing, storeVars, policyVars>>

-----------------------------------------------------------------------------
(* _assert_quiescent_locked                                                 *)
Quiescent ==
    /\ active = {}
    /\ running = {}
    /\ \A b \in Batches : evidence[b] = {}

(* checkpoint_barrier                                                       *)
BeginCapture ==
    /\ LockFree
    /\ Quiescent
    /\ ~ capturing
    /\ gate = None
    /\ capturing' = TRUE
    /\ UNCHANGED <<batchVars, gate, finishing, storeVars, policyVars>>

EndCapture ==
    /\ LockFree
    /\ capturing
    /\ capturing' = FALSE
    /\ UNCHANGED <<batchVars, gate, finishing, storeVars, policyVars>>

-----------------------------------------------------------------------------
(* The producers: threads of a batch that was opened, at any time, for they *)
(* hold no lease.  A store that was told of the release rejects them.       *)
Opened(b) == state[b] # "unopened"

(* execute_once begins: its entry is running.                               *)
StartTool(b) ==
    /\ Opened(b)
    /\ "ledger" \notin released[b]
    /\ b \notin running
    /\ running' = running \cup {b}
    /\ UNCHANGED <<batchVars, gate, capturing, finishing, evidence, released, policyVars>>

(* The operation returns, its entry stays; or it raises and the entry goes. *)
(* Other executions of the batch may still run.                             *)
EndTool(b, succeeded) ==
    /\ b \in running
    /\ running' \in {running, running \ {b}}
    /\ evidence' = IF succeeded THEN [evidence EXCEPT ![b] = @ \cup {"ledger"}] ELSE evidence
    /\ UNCHANGED <<batchVars, gate, capturing, finishing, released, policyVars>>

(* Mutant: a store does not remember what was released.                     *)
PutEvidenceLate(b, s) ==
    /\ Opened(b)
    /\ evidence' = [evidence EXCEPT ![b] = @ \cup {s}]
    /\ UNCHANGED <<batchVars, gate, capturing, finishing, running, released, policyVars>>

(* A tensor, record or replay is put, or a sampled turn is recorded.        *)
PutEvidence(b, s) ==
    /\ Opened(b)
    /\ s \notin released[b]
    /\ evidence' = [evidence EXCEPT ![b] = @ \cup {s}]
    /\ UNCHANGED <<batchVars, gate, capturing, finishing, running, released, policyVars>>

Next ==
    \/ \E b \in Batches : OpenBatch(b)
    \/ \E b \in Batches, h \in Holders : Attach(b, h)
    \/ \E b \in Batches, m \in Milestones : BeginConsumer(b, m)
    \/ \E b \in Batches, m \in Milestones : EndConsumer(b, m)
    \/ \E b \in Batches, m \in Milestones : FailConsumer(b, m)
    \/ \E b \in Batches, aborted \in BOOLEAN : BeginFinish(b, aborted)
    \/ ReleaseStore
    \/ EndFinish
    \/ BeginCapture
    \/ EndCapture
    \/ \E b \in Batches : StartTool(b)
    \/ \E b \in Batches, succeeded \in BOOLEAN : EndTool(b, succeeded)
    \/ \E b \in Batches, s \in {"observation", "behavior"} : PutEvidence(b, s)

Spec == Init /\ [][Next]_vars

-----------------------------------------------------------------------------
(* A batch that has not been stepped was rolled out by the very policy the  *)
(* trainer would step from, however batches overlap, fail and retry         *)
(* (lifecycle.py:388): no update uses stale data.                           *)
ZeroStaleness ==
    \A b \in active : ~ Committed(b) => openedAt[b] = trained

(* From the begin of an optimizer step to its barrier, its batch is the     *)
(* only one, owns the gate, and no checkpoint is captured                   *)
(* (lifecycle.py:388, 398).                                                 *)
Updating(b) ==
    "optimizer_step" \in inflight[b] \/ (Committed(b) /\ ~ Synced(b)) \/ state[b] = "commit_unknown"

UpdateIsExclusive ==
    \A b \in Batches : Updating(b) <=> gate = b /\ active = {b} /\ ~ capturing

(* After an optimizer step that raised, or a partial release, nothing is    *)
(* opened, trained or captured any more (lifecycle.py:427, 535).            *)
FailureIsTerminal ==
    [][(\E b \in Batches : state[b] \in {"commit_unknown", "cleanup_failed"}) =>
          /\ UNCHANGED trained
          /\ \A b \in Batches : state[b] = "unopened" => state'[b] = "unopened"
          /\ ~ capturing']_vars

(* While a consumer of a batch is active, nothing it reads is taken away    *)
(* (lifecycle.py:456).                                                      *)
LeasedEvidenceStays ==
    [][\A b \in Batches : inflight[b] # {} =>
          evidence[b] \subseteq evidence'[b] /\ held[b] \subseteq held'[b]]_vars

(* A finished batch leaves nothing in any store, although its tool threads  *)
(* and recorders may still run: late results are rejected, so they never    *)
(* become the orphan evidence that blocks checkpoints (lifecycle.py:373).   *)
FinishedLeavesNothing ==
    \A b \in Batches : state[b] \in {"closed", "aborted"} =>
       evidence[b] = {} /\ b \notin running /\ held[b] = {}

(* A checkpoint is captured between batches, of a published policy, with    *)
(* empty stores, from its begin to its end (lifecycle.py:343).              *)
CheckpointIsClean ==
    capturing => Quiescent /\ gate = None /\ trained = published

(* A batch leaves the manager with its update complete and published, or    *)
(* without any (lifecycle.py:466).                                          *)
NoHalfUpdate ==
    \A b \in Batches :
       /\ state[b] = "closed" => completed[b] = Milestones
       /\ state[b] = "aborted" => (Committed(b) <=> Synced(b))

(* The preflight makes the release all or nothing, as the comment on it     *)
(* claims (lifecycle.py:484).                                               *)
PreflightSuffices ==
    \A b \in Batches : state[b] # "cleanup_failed"

(* What makes these inductive.  A batch is owned from open to its release,  *)
(* only an open batch has consumers, and they are counted.                  *)
Ownership ==
    \A b \in Batches :
       /\ b \in active <=> state[b] \in {"open", "commit_unknown", "cleanup_failed"}
       /\ inflight[b] # {} => state[b] = "open"
       /\ consumers[b] = Cardinality(inflight[b])
       /\ state[b] = "unopened" => completed[b] = {}

(* Milestones are reached in the order of their dependencies, each once.    *)
Chain ==
    \A b \in Batches :
       /\ completed[b] \cap inflight[b] = {}
       /\ \A m \in completed[b] \cup inflight[b] : Dependencies[m] \subseteq completed[b]

(* The gate is held for an update, and without one the engine samples from  *)
(* the trainer's policy.                                                    *)
GateHeld ==
    IF gate = None THEN trained = published ELSE Updating(gate)

(* A store told of a release keeps nothing, and finished batches told all.  *)
Quiet ==
    \A b \in Batches :
       /\ released[b] \cap evidence[b] = {}
       /\ "ledger" \in released[b] => b \notin running
       /\ state[b] = "unopened" => evidence[b] = {} /\ b \notin running
       /\ state[b] \in {"closed", "aborted"} => released[b] = Stores /\ held[b] = {}

(* What _finish has checked and done so far.                                *)
FinishProgress ==
    finishing # None =>
       LET b == finishing.batch
       IN  /\ state[b] = "open"
           /\ consumers[b] = 0
           /\ IF finishing.aborted THEN Committed(b) => Synced(b) ELSE completed[b] = Milestones
           /\ ~ finishing.failed =>
                 \A i \in 1 .. 3 : i < finishing.next => Order[i] \in released[b]

LifecycleInv ==
    /\ TypeOK
    /\ Ownership
    /\ Chain
    /\ UpdateIsExclusive
    /\ GateHeld
    /\ ZeroStaleness
    /\ Quiet
    /\ FinishProgress
    /\ capturing => active = {}
    /\ NoHalfUpdate

(* The lifecycle implements the gate the training loop relies on.           *)
Phase ==
    IF gate = None THEN "idle"
    ELSE IF state[gate] = "commit_unknown" THEN "torn"
    ELSE IF Committed(gate) THEN "syncing"
    ELSE "stepping"

Gate ==
    INSTANCE ZeroStalenessGate
        WITH leases <- active, leasedAt <- openedAt, phase <- Phase, holder <- gate

ImplementsGate == Gate!Spec

(* The lifecycle's view of its three stores.                                 *)
Keeping(s) == {b \in Batches : s \in evidence[b]}
Told(s) == {b \in Batches : s \in released[b]}

Ledger ==
    INSTANCE EvidenceStore
        WITH Units <- Batches, kept <- Keeping("ledger"), busy <- running, closed <- Told("ledger")

Observation ==
    INSTANCE EvidenceStore
        WITH Units <- Batches, kept <- Keeping("observation"), busy <- {},
             closed <- Told("observation")

Behavior ==
    INSTANCE EvidenceStore
        WITH Units <- Batches, kept <- Keeping("behavior"), busy <- {}, closed <- Told("behavior")

(* The manager asks of its stores only what they promise: each is released   *)
(* per batch, the ledger never under a running execution, although the       *)
(* preflight was earlier (lifecycle.py:484, 501).                            *)
UsesEvidenceStores == Ledger!Spec /\ Observation!Spec /\ Behavior!Spec

=============================================================================
