-------------------------- MODULE ObservationStore --------------------------
(***************************************************************************)
(* The in-memory observation store (observations/store.py).  Rollout       *)
(* threads put tensors, observation records and trajectory replays; the    *)
(* batch manager releases the trajectories of one batch.  Tensors are      *)
(* content addressed and therefore shared between trajectories: the store  *)
(* keeps, for each storage key, the set of trajectories that own it.       *)
(*                                                                         *)
(* Every method holds the store's lock from its first check to its last    *)
(* write, so each is one action; a raise before the first write leaves the *)
(* state alone and is a disabled action.  A checksum is modelled as the    *)
(* content it is computed from.  The shape, position, model and policy     *)
(* checks of put_replay only reject a payload; only payloads that pass     *)
(* them are considered.                                                    *)
(***************************************************************************)
EXTENDS Naturals, FiniteSets

CONSTANTS
    Trajectories,   \* trajectory identities
    Batches,        \* the units in which trajectories are released
    BatchOf,        \* the batch a trajectory is rolled out for
    Keys,           \* tensor storage keys
    RecordIds,      \* observation identities
    ReplayIds,      \* replay identities
    MaxCalls,       \* bound on the tool calls of one trajectory
    None            \* an identity not in the dictionary

ASSUME BatchOfAssumption == BatchOf \in [Trajectories -> Batches]
ASSUME MaxCallsAssumption == MaxCalls \in Nat

(* An observation record: whose it is, which tool call made it, the tensors *)
(* it references.                                                           *)
Record == [traj : Trajectories, call : 0 .. MaxCalls - 1, refs : SUBSET Keys]

(* An ObservationHandle: the identity and the digest of the record.         *)
Handle == [id : RecordIds, rec : Record]

(* A TrajectoryReplayRecord: its own tensors (replay and source visual) and *)
(* the handles of the observations it replays.                              *)
Replay == [traj : Trajectories, refs : SUBSET Keys, handles : SUBSET Handle]

ASSUME NoneAssumption == None \notin Record /\ None \notin Replay

VARIABLES
    tensors,    \* _tensors: the keys stored
    owners,     \* _tensor_owners, {} when the key is not in the dictionary
    records,    \* _records and _record_digests
    replays,    \* _replays and _replay_digests
    released    \* _released_trajectory_ids

vars == <<tensors, owners, records, replays, released>>

TypeOK ==
    /\ tensors \in SUBSET Keys
    /\ owners \in [Keys -> SUBSET Trajectories]
    /\ records \in [RecordIds -> Record \cup {None}]
    /\ replays \in [ReplayIds -> Replay \cup {None}]
    /\ released \in SUBSET Trajectories

Init ==
    /\ tensors = {}
    /\ owners = [k \in Keys |-> {}]
    /\ records = [o \in RecordIds |-> None]
    /\ replays = [r \in ReplayIds |-> None]
    /\ released = {}

-----------------------------------------------------------------------------
(* _claim_refs                                                              *)
ClaimRefs(t, refs) ==
    [k \in Keys |-> IF k \in refs THEN owners[k] \cup {t} ELSE owners[k]]

(* Mutant: a tensor stored without its trajectory, as the signature allows.   *)
PutTensorUnowned(k, t) ==
    /\ t \notin released
    /\ tensors' = tensors \cup {k}
    /\ UNCHANGED <<owners, records, replays, released>>

(* put_tensor: every caller names the trajectory the tensor belongs to.     *)
PutTensor(k, t) ==
    /\ t \notin released
    /\ tensors' = tensors \cup {k}
    /\ owners' = ClaimRefs(t, {k})
    /\ UNCHANGED <<records, replays, released>>

(* Mutant: a record that arrives after the release is accepted.               *)
PutLate(o, rec) ==
    /\ rec.refs \subseteq tensors
    /\ records[o] \in {None, rec}
    /\ records' = [records EXCEPT ![o] = rec]
    /\ owners' = ClaimRefs(rec.traj, rec.refs)
    /\ UNCHANGED <<tensors, replays, released>>

(* put: the tensors must be there, and an identity keeps its content.       *)
Put(o, rec) ==
    /\ rec.traj \notin released
    /\ rec.refs \subseteq tensors
    /\ records[o] \in {None, rec}
    /\ records' = [records EXCEPT ![o] = rec]
    /\ owners' = ClaimRefs(rec.traj, rec.refs)
    /\ UNCHANGED <<tensors, replays, released>>

(* resolve_record succeeds for this handle.                                 *)
Resolves(h) == records[h.id] = h.rec

(* The call indices of a replay are 0, 1, ... without a gap.                *)
ContiguousCalls(handles) ==
    {h.rec.call : h \in handles} = 0 .. Cardinality(handles) - 1

(* put_replay.  The observations may belong to another trajectory: only the *)
(* caller's validator looks at that.                                        *)
PutReplay(r, rep) ==
    /\ rep.traj \notin released
    /\ rep.refs \subseteq tensors
    /\ \A h \in rep.handles : Resolves(h)
    /\ ContiguousCalls(rep.handles)
    /\ replays[r] \in {None, rep}
    /\ replays' = [replays EXCEPT ![r] = rep]
    /\ owners' = ClaimRefs(rep.traj, rep.refs)
    /\ UNCHANGED <<tensors, records, released>>

-----------------------------------------------------------------------------
Present(f) == {f[x] : x \in DOMAIN f} \ {None}

(* Mutant: replays of other trajectories are not looked at.                   *)
ReleasableUnchecked(ids) == TRUE

(* _prepare_release_locked: releasing again is a no-op, and no replay that  *)
(* stays may reference a record that goes.                                  *)
Releasable(ids) ==
    \/ ids \cap released # {}
    \/ \A rep \in Present(replays) :
          rep.traj \notin ids =>
             \A h \in rep.handles :
                records[h.id] # None => records[h.id].traj \notin ids

(* The dictionary without the entries of these trajectories.                *)
Without(f, ids) ==
    [x \in DOMAIN f |->
        IF f[x] # None /\ f[x].traj \in ids THEN None ELSE f[x]]

(* Keys some stored record or replay references.                            *)
LiveKeys(recs, reps) ==
    UNION ({rec.refs : rec \in Present(recs)} \cup {rep.refs : rep \in Present(reps)})

(* Mutant: what a released trajectory owned goes, whoever else owns it.       *)
ReleaseShared(ids) ==
    /\ Releasable(ids)
    /\ records' = Without(records, ids)
    /\ replays' = Without(replays, ids)
    /\ owners' = [k \in Keys |-> owners[k] \ ids]
    /\ tensors' = tensors \ {k \in Keys : owners[k] \cap ids # {}}
    /\ released' = released \cup ids

(* release_trajectories.  The keys the released trajectories owned go when  *)
(* nobody else owns them and nothing stored references them.                *)
ReleaseTrajectories(ids) ==
    /\ Releasable(ids)
    /\ records' = Without(records, ids)
    /\ replays' = Without(replays, ids)
    /\ owners' = [k \in Keys |-> owners[k] \ ids]
    /\ LET candidates == {k \in Keys : owners[k] \cap ids # {}}
       IN  tensors' = tensors \ {k \in candidates :
                                    /\ owners'[k] = {}
                                    /\ k \notin LiveKeys(records', replays')}
    /\ released' = released \cup ids

(* The manager releases all trajectories of a batch together.               *)
TrajectoriesOf(b) == {t \in Trajectories : BatchOf[t] = b}

(* The handles put returned for these observations: no others resolve.      *)
HandlesOf(ids) == {[id |-> o, rec |-> records[o]] : o \in ids}

StoredIds == {o \in RecordIds : records[o] # None}

Next ==
    \/ \E k \in Keys, t \in Trajectories : PutTensor(k, t)
    \/ \E o \in RecordIds, rec \in Record : Put(o, rec)
    \/ \E r \in ReplayIds, t \in Trajectories, refs \in SUBSET Keys, ids \in SUBSET StoredIds :
          PutReplay(r, [traj |-> t, refs |-> refs, handles |-> HandlesOf(ids)])
    \/ \E b \in Batches : ReleaseTrajectories(TrajectoriesOf(b))

Spec == Init /\ [][Next]_vars

-----------------------------------------------------------------------------
(* Every stored record and replay finds its tensors: resolve_replay and     *)
(* export_replay_bundle of a live replay never raise "missing tensor",      *)
(* whatever other batches release in the meantime (store.py:755).           *)
TensorsResolve ==
    LiveKeys(records, replays) \subseteq tensors

(* Every stored replay still finds exactly the observations it was frozen   *)
(* with, although records are released by batch and replays may reference   *)
(* records of other trajectories (store.py:874).                            *)
HandlesResolve ==
    \A rep \in Present(replays) : \A h \in rep.handles : Resolves(h)

(* No tensor outlives its owners.  The checkpoint barrier refuses to run    *)
(* while the store holds a tensor, so one that nobody owns would block      *)
(* every later checkpoint (lifecycle.py:373).                               *)
NoOrphanTensor ==
    \A k \in tensors : owners[k] # {}

(* Nothing of a released trajectory stays, and what is put after the        *)
(* release is rejected (store.py:397, 885).                                 *)
ReleasedLeaveNothing ==
    /\ \A v \in Present(records) \cup Present(replays) : v.traj \notin released
    /\ \A k \in Keys : owners[k] \cap released = {}

(* A release takes nothing another trajectory owns: the tensors that go     *)
(* were owned only by trajectories that are released now (store.py:744).    *)
ReleaseIsSelective ==
    [][\A k \in tensors \ tensors' : owners[k] \subseteq released']_vars

(* What holds between any two calls, and makes the properties above          *)
(* inductive: a key is stored exactly while somebody owns it, whatever       *)
(* references a key owns it, and batches are released as a whole.            *)
Stored == Present(records) \cup Present(replays)

OwnedIffStored == \A k \in Keys : k \in tensors <=> owners[k] # {}

RefsOwned == \A v \in Stored : \A k \in v.refs : v.traj \in owners[k]

WholeBatches ==
    \A t \in released : TrajectoriesOf(BatchOf[t]) \subseteq released

StoreInv ==
    /\ TypeOK
    /\ OwnedIffStored
    /\ RefsOwned
    /\ WholeBatches
    /\ HandlesResolve
    /\ ReleasedLeaveNothing

(* What the batch manager sees of the store: the batches it keeps tensors,   *)
(* records or replays of, and those it was told are released.                *)
EvidenceOf(t) ==
    (\E k \in Keys : t \in owners[k]) \/ (\E v \in Stored : v.traj = t)

KeptBatches == {BatchOf[t] : t \in {u \in Trajectories : EvidenceOf(u)}}

Evidence ==
    INSTANCE EvidenceStore
        WITH Units <- Batches, kept <- KeptBatches, busy <- {},
             closed <- {BatchOf[t] : t \in released}

(* The store is the one the lifecycle relies on: whatever threads put, and   *)
(* however tensors and replays are shared, evidence of a batch appears only  *)
(* before its release, which takes exactly that batch away (store.py:885).   *)
ImplementsEvidenceStore == Evidence!Spec

=============================================================================
