-------------------------- MODULE ZeroStalenessGate --------------------------
(***************************************************************************)
(* What the batch lifecycle promises to the training loop, without its      *)
(* milestones, locks and stores: rollouts run under leases that remember    *)
(* the policy version they were taken at; the policy is updated only by the *)
(* holder of the only lease, and nothing is leased or captured until the    *)
(* update is published to the rollout engine.  A failed update is never     *)
(* left again.  (policy/lifecycle.py, states.)                              *)
(***************************************************************************)
EXTENDS Naturals

CONSTANTS
    Batches,    \* batch identities
    None        \* no holder; no batch

VARIABLES
    leases,     \* the batches under lease
    leasedAt,   \* the version each batch was leased at
    trained,    \* version of the trainer's policy
    published,  \* version the rollout engine samples from
    phase,      \* of the update: idle, stepping, syncing or torn
    holder,     \* the batch that updates
    capturing   \* a checkpoint is being captured

vars == <<leases, leasedAt, trained, published, phase, holder, capturing>>

TypeOK ==
    /\ leases \in SUBSET Batches
    /\ leasedAt \in [Batches -> Nat]
    /\ trained \in Nat
    /\ published \in Nat
    /\ phase \in {"idle", "stepping", "syncing", "torn"}
    /\ holder \in Batches \cup {None}
    /\ capturing \in BOOLEAN

Init ==
    /\ leases = {}
    /\ leasedAt = [b \in Batches |-> 0]
    /\ trained = 0
    /\ published = 0
    /\ phase = "idle"
    /\ holder = None
    /\ capturing = FALSE

(* A rollout batch starts from what the engine samples now.                 *)
Lease(b) ==
    /\ phase = "idle"
    /\ ~ capturing
    /\ b \notin leases
    /\ leases' = leases \cup {b}
    /\ leasedAt' = [leasedAt EXCEPT ![b] = published]
    /\ UNCHANGED <<trained, published, phase, holder, capturing>>

Return(b) ==
    /\ b \in leases
    /\ b # holder
    /\ leases' = leases \ {b}
    /\ UNCHANGED <<leasedAt, trained, published, phase, holder, capturing>>

(* The update of a batch needs its lease to be the only one and its data to *)
(* be of the current policy.                                                *)
BeginStep(b) ==
    /\ phase = "idle"
    /\ leases = {b}
    /\ leasedAt[b] = trained
    /\ phase' = "stepping"
    /\ holder' = b
    /\ UNCHANGED <<leases, leasedAt, trained, published, capturing>>

CommitStep ==
    /\ phase = "stepping"
    /\ trained' = trained + 1
    /\ phase' = "syncing"
    /\ UNCHANGED <<leases, leasedAt, published, holder, capturing>>

TearStep ==
    /\ phase = "stepping"
    /\ phase' = "torn"
    /\ UNCHANGED <<leases, leasedAt, trained, published, holder, capturing>>

Publish ==
    /\ phase = "syncing"
    /\ published' = trained
    /\ phase' = "idle"
    /\ holder' = None
    /\ UNCHANGED <<leases, leasedAt, trained, capturing>>

BeginCapture ==
    /\ phase = "idle"
    /\ leases = {}
    /\ ~ capturing
    /\ capturing' = TRUE
    /\ UNCHANGED <<leases, leasedAt, trained, published, phase, holder>>

EndCapture ==
    /\ capturing
    /\ capturing' = FALSE
    /\ UNCHANGED <<leases, leasedAt, trained, published, phase, holder>>

Next ==
    \/ \E b \in Batches : Lease(b) \/ Return(b) \/ BeginStep(b)
    \/ CommitStep
    \/ TearStep
    \/ Publish
    \/ BeginCapture
    \/ EndCapture

Spec == Init /\ [][Next]_vars
=============================================================================
