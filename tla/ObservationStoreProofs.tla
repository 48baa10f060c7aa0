----------------------- MODULE ObservationStoreProofs -----------------------
(* The safety of the observation store, for any number of trajectories,      *)
(* batches, keys and identities.                                             *)
EXTENDS ObservationStore, TLAPS

(* What is present in a dictionary is a value of one of its entries.         *)
LEMMA PresentValues ==
    ASSUME NEW f
    PROVE  \A v : v \in Present(f) <=> \E x \in DOMAIN f : v = f[x] /\ v # None
BY DEF Present

(* A dictionary after a write holds the written value and old ones.          *)
LEMMA PresentAfterWrite ==
    ASSUME NEW f, NEW y, NEW w,
           NEW v \in Present([f EXCEPT ![y] = w])
    PROVE  v = w \/ v \in Present(f)
BY DEF Present

(* A dictionary after a release holds old values of other trajectories.      *)
LEMMA PresentAfterRelease ==
    ASSUME NEW f, NEW ids, NEW v \in Present(Without(f, ids))
    PROVE  v \in Present(f) /\ v.traj \notin ids
<1>1. PICK x \in DOMAIN f : v = Without(f, ids)[x] /\ v # None
  BY DEF Present, Without
<1>2. v = f[x] /\ ~(f[x] # None /\ f[x].traj \in ids)
  BY <1>1 DEF Without
<1> QED
  BY <1>1, <1>2 DEF Present

(* What a well typed store holds has a trajectory and references keys.       *)
LEMMA StoredTypes ==
    ASSUME TypeOK
    PROVE  /\ \A v \in Stored : v.traj \in Trajectories /\ v.refs \subseteq Keys
           /\ Present(records) \subseteq Record
           /\ Present(replays) \subseteq Replay
BY DEF TypeOK, Stored, Present, Record, Replay

(* Claiming only adds the claimant, and adds it to every key it references.  *)
LEMMA ClaimProperties ==
    ASSUME NEW t, NEW refs, NEW k \in Keys
    PROVE  /\ owners[k] \subseteq ClaimRefs(t, refs)[k]
           /\ ClaimRefs(t, refs)[k] \subseteq owners[k] \cup {t}
           /\ k \in refs => t \in ClaimRefs(t, refs)[k]
           /\ k \notin refs => ClaimRefs(t, refs)[k] = owners[k]
BY DEF ClaimRefs

-----------------------------------------------------------------------------
LEMMA InitStoreInv == Init => StoreInv
BY NoneAssumption
   DEF Init, StoreInv, TypeOK, OwnedIffStored, RefsOwned, WholeBatches,
       HandlesResolve, ReleasedLeaveNothing, Stored, Present

(* A new tensor belongs to a live trajectory.                                *)
LEMMA PutTensorStoreInv ==
    ASSUME StoreInv, NEW k \in Keys, NEW t \in Trajectories, PutTensor(k, t)
    PROVE  StoreInv'
<1> USE DEF StoreInv, PutTensor
<1>1. TypeOK'
  BY DEF TypeOK, ClaimRefs
<1>2. OwnedIffStored'
  BY ClaimProperties DEF OwnedIffStored, TypeOK
<1>3. RefsOwned'
  BY ClaimProperties, StoredTypes DEF RefsOwned, Stored
<1>4. WholeBatches'
  BY DEF WholeBatches, TrajectoriesOf
<1>5. HandlesResolve'
  BY DEF HandlesResolve, Resolves
<1>6. ReleasedLeaveNothing'
  BY ClaimProperties DEF ReleasedLeaveNothing
<1> QED
  BY <1>1, <1>2, <1>3, <1>4, <1>5, <1>6

(* A new record owns what it references, and replays keep resolving because  *)
(* an identity never changes its content.                                    *)
LEMMA PutStoreInv ==
    ASSUME StoreInv, NEW o \in RecordIds, NEW rec \in Record, Put(o, rec)
    PROVE  StoreInv'
<1> USE DEF StoreInv, Put
<1>a. rec.traj \in Trajectories /\ rec.refs \subseteq Keys
  BY DEF Record
<1>b. \A v \in Stored' : v = rec \/ v \in Stored
  BY PresentAfterWrite DEF Stored
<1>1. TypeOK'
  BY <1>a DEF TypeOK, ClaimRefs
<1>2. OwnedIffStored'
  BY <1>a, ClaimProperties DEF OwnedIffStored
<1>3. RefsOwned'
  <2> SUFFICES ASSUME NEW v \in Stored', NEW k \in v.refs
               PROVE  v.traj \in ClaimRefs(rec.traj, rec.refs)[k]
    BY DEF RefsOwned
  <2>1. k \in Keys
    BY <1>a, <1>b, StoredTypes
  <2> QED
    BY <1>b, <2>1, ClaimProperties DEF RefsOwned
<1>4. WholeBatches'
  BY DEF WholeBatches, TrajectoriesOf
<1>5. HandlesResolve'
  <2> SUFFICES ASSUME NEW rep \in Present(replays), NEW h \in rep.handles
               PROVE  records'[h.id] = h.rec
    BY DEF HandlesResolve, Resolves
  <2>1. rep \in Replay /\ h \in Handle
    BY StoredTypes DEF Replay
  <2>2. h.id \in RecordIds /\ h.rec \in Record
    BY <2>1 DEF Handle
  <2>3. records[h.id] = h.rec
    BY DEF HandlesResolve, Resolves
  <2> QED
    BY <2>2, <2>3, NoneAssumption DEF TypeOK
<1>6. ReleasedLeaveNothing'
  <2>1. \A v \in Stored' : v.traj \notin released'
    BY <1>b DEF ReleasedLeaveNothing, Stored
  <2>2. \A k \in Keys : owners'[k] \cap released' = {}
    BY ClaimProperties DEF ReleasedLeaveNothing
  <2> QED
    BY <2>1, <2>2 DEF ReleasedLeaveNothing, Stored
<1> QED
  BY <1>1, <1>2, <1>3, <1>4, <1>5, <1>6

(* A new replay owns what it references and its handles resolve.             *)
LEMMA PutReplayStoreInv ==
    ASSUME StoreInv, NEW r \in ReplayIds, NEW rep \in Replay, PutReplay(r, rep)
    PROVE  StoreInv'
<1> USE DEF StoreInv, PutReplay
<1>a. rep.traj \in Trajectories /\ rep.refs \subseteq Keys
  BY DEF Replay
<1>b. \A v \in Stored' : v = rep \/ v \in Stored
  BY PresentAfterWrite DEF Stored
<1>1. TypeOK'
  BY <1>a DEF TypeOK, ClaimRefs
<1>2. OwnedIffStored'
  BY <1>a, ClaimProperties DEF OwnedIffStored
<1>3. RefsOwned'
  <2> SUFFICES ASSUME NEW v \in Stored', NEW k \in v.refs
               PROVE  v.traj \in ClaimRefs(rep.traj, rep.refs)[k]
    BY DEF RefsOwned
  <2>1. k \in Keys
    BY <1>a, <1>b, StoredTypes
  <2> QED
    BY <1>b, <2>1, ClaimProperties DEF RefsOwned
<1>4. WholeBatches'
  BY DEF WholeBatches, TrajectoriesOf
<1>5. HandlesResolve'
  BY PresentAfterWrite DEF HandlesResolve, Resolves
<1>6. ReleasedLeaveNothing'
  <2>1. \A v \in Stored' : v.traj \notin released'
    BY <1>b DEF ReleasedLeaveNothing, Stored
  <2>2. \A k \in Keys : owners'[k] \cap released' = {}
    BY ClaimProperties DEF ReleasedLeaveNothing
  <2> QED
    BY <2>1, <2>2 DEF ReleasedLeaveNothing, Stored
<1> QED
  BY <1>1, <1>2, <1>3, <1>4, <1>5, <1>6

(* The handles a caller can hold are handles of stored records.              *)
LEMMA HandlesOfType ==
    ASSUME TypeOK, NEW ids \in SUBSET StoredIds
    PROVE  HandlesOf(ids) \in SUBSET Handle
BY DEF TypeOK, StoredIds, HandlesOf, Handle

-----------------------------------------------------------------------------
(* No replay that stays references a record that goes, by the check or, when *)
(* the batch was released before, because it left no record.                 *)
LEMMA ReleaseKeepsForeign ==
    ASSUME StoreInv, NEW b \in Batches, Releasable(TrajectoriesOf(b)),
           NEW rep \in Present(replays), rep.traj \notin TrajectoriesOf(b),
           NEW h \in rep.handles
    PROVE  records[h.id].traj \notin TrajectoriesOf(b)
<1> DEFINE ids == TrajectoriesOf(b)
<1>1. rep \in Replay /\ h \in Handle
  BY StoredTypes DEF StoreInv, Replay
<1>2. /\ h.id \in RecordIds
      /\ h.rec \in Record
      /\ records[h.id] = h.rec
      /\ records[h.id] # None
  BY <1>1, NoneAssumption DEF StoreInv, HandlesResolve, Resolves, Handle
<1>3. CASE ids \cap released # {}
  <2>1. ids \subseteq released
    BY <1>3 DEF StoreInv, WholeBatches, TrajectoriesOf
  <2>2. records[h.id] \in Present(records)
    BY <1>2 DEF Present, StoreInv, TypeOK
  <2> QED
    BY <2>1, <2>2 DEF StoreInv, ReleasedLeaveNothing
<1>4. CASE ids \cap released = {}
  BY <1>2, <1>4 DEF Releasable
<1> QED
  BY <1>3, <1>4

(* A release keeps what is stored, owned and resolvable of the others.       *)
LEMMA ReleaseStoreInv ==
    ASSUME StoreInv, NEW b \in Batches, ReleaseTrajectories(TrajectoriesOf(b))
    PROVE  StoreInv'
<1> DEFINE ids == TrajectoriesOf(b)
<1> USE DEF StoreInv
<1>a. /\ Releasable(ids)
      /\ records' = Without(records, ids)
      /\ replays' = Without(replays, ids)
      /\ owners' = [k \in Keys |-> owners[k] \ ids]
      /\ tensors' = tensors \ {k \in {k \in Keys : owners[k] \cap ids # {}} :
                                  /\ owners'[k] = {}
                                  /\ k \notin LiveKeys(records', replays')}
      /\ released' = released \cup ids
  BY DEF ReleaseTrajectories
<1>b. ids \subseteq Trajectories
  BY DEF TrajectoriesOf
<1>c. \A v \in Stored' : v \in Stored /\ v.traj \notin ids
  BY <1>a, PresentAfterRelease DEF Stored
<1>1. TypeOK'
  BY <1>a, <1>b DEF TypeOK, Without
<1>3. RefsOwned'
  <2> SUFFICES ASSUME NEW v \in Stored', NEW k \in v.refs
               PROVE  v.traj \in owners'[k]
    BY DEF RefsOwned
  <2>1. k \in Keys /\ v.traj \in owners[k] /\ v.traj \notin ids
    BY <1>c, StoredTypes DEF RefsOwned
  <2> QED
    BY <1>a, <2>1
<1>2. OwnedIffStored'
  <2> SUFFICES ASSUME NEW k \in Keys
               PROVE  k \in tensors' <=> owners'[k] # {}
    BY DEF OwnedIffStored
  <2>1. owners'[k] = owners[k] \ ids
    BY <1>a
  <2>2. k \in LiveKeys(records', replays') => owners'[k] # {}
    <3>1. ASSUME k \in LiveKeys(records', replays')
          PROVE  \E v \in Stored' : k \in v.refs
      BY <3>1 DEF LiveKeys, Stored
    <3> QED
      BY <3>1, <1>3 DEF RefsOwned
  <2> QED
    BY <1>a, <2>1, <2>2 DEF OwnedIffStored
<1>4. WholeBatches'
  BY <1>a DEF WholeBatches, TrajectoriesOf
<1>5. HandlesResolve'
  <2> SUFFICES ASSUME NEW rep \in Present(replays'), NEW h \in rep.handles
               PROVE  records'[h.id] = h.rec
    BY DEF HandlesResolve, Resolves
  <2>1. rep \in Present(replays) /\ rep.traj \notin ids
    BY <1>a, PresentAfterRelease
  <2>2. records[h.id].traj \notin ids /\ records[h.id] = h.rec
    BY <1>a, <2>1, ReleaseKeepsForeign DEF HandlesResolve, Resolves
  <2>3. h.id \in DOMAIN records
    BY <2>1, StoredTypes DEF Replay, Handle, TypeOK
  <2> QED
    BY <1>a, <2>2, <2>3 DEF Without
<1>6. ReleasedLeaveNothing'
  BY <1>a, <1>c DEF ReleasedLeaveNothing, Stored
<1> QED
  BY <1>1, <1>2, <1>3, <1>4, <1>5, <1>6

-----------------------------------------------------------------------------
LEMMA NextStoreInv == StoreInv /\ [Next]_vars => StoreInv'
<1> SUFFICES ASSUME StoreInv, [Next]_vars
             PROVE  StoreInv'
  OBVIOUS
<1>1. CASE \E k \in Keys, t \in Trajectories : PutTensor(k, t)
  BY <1>1, PutTensorStoreInv
<1>2. CASE \E o \in RecordIds, rec \in Record : Put(o, rec)
  BY <1>2, PutStoreInv
<1>3. CASE \E r \in ReplayIds, t \in Trajectories, refs \in SUBSET Keys, ids \in SUBSET StoredIds :
             PutReplay(r, [traj |-> t, refs |-> refs, handles |-> HandlesOf(ids)])
  <2>1. PICK r \in ReplayIds, t \in Trajectories, refs \in SUBSET Keys, ids \in SUBSET StoredIds :
             PutReplay(r, [traj |-> t, refs |-> refs, handles |-> HandlesOf(ids)])
    BY <1>3
  <2>2. [traj |-> t, refs |-> refs, handles |-> HandlesOf(ids)] \in Replay
    BY HandlesOfType DEF StoreInv, Replay
  <2> QED
    BY <2>1, <2>2, PutReplayStoreInv
<1>4. CASE \E b \in Batches : ReleaseTrajectories(TrajectoriesOf(b))
  BY <1>4, ReleaseStoreInv
<1>5. CASE UNCHANGED vars
  BY <1>5 DEF vars, StoreInv, TypeOK, OwnedIffStored, RefsOwned, WholeBatches,
              HandlesResolve, ReleasedLeaveNothing, Stored, Resolves, TrajectoriesOf
<1> QED
  BY <1>1, <1>2, <1>3, <1>4, <1>5 DEF Next

(* The invariant of the store holds in every state: rollout threads and      *)
(* releases may interleave in any order.                                     *)
THEOREM StoreInvariant == Spec => []StoreInv
<1>1. Init => StoreInv
  BY InitStoreInv
<1>2. StoreInv /\ [Next]_vars => StoreInv'
  BY NextStoreInv
<1> QED
  BY <1>1, <1>2, PTL DEF Spec

(* Types are preserved.                                                      *)
THEOREM TypeCorrect == Spec => []TypeOK
<1>1. StoreInv => TypeOK
  BY DEF StoreInv
<1> QED
  BY <1>1, StoreInvariant, PTL

(* A live record or replay always finds its tensors, whatever other batches  *)
(* release (release_trajectories).                                           *)
THEOREM LiveTensorsResolve == Spec => []TensorsResolve
<1>1. StoreInv => TensorsResolve
  <2> SUFFICES ASSUME StoreInv, NEW k \in LiveKeys(records, replays)
               PROVE  k \in tensors
    BY DEF TensorsResolve
  <2>1. PICK v \in Stored : k \in v.refs
    BY DEF LiveKeys, Stored
  <2> QED
    BY <2>1, StoredTypes DEF StoreInv, OwnedIffStored, RefsOwned
<1> QED
  BY <1>1, StoreInvariant, PTL

(* A live replay always finds the observations it was frozen with.           *)
THEOREM LiveHandlesResolve == Spec => []HandlesResolve
<1>1. StoreInv => HandlesResolve
  BY DEF StoreInv
<1> QED
  BY <1>1, StoreInvariant, PTL

(* Every stored tensor has an owner, so releasing every batch empties the    *)
(* store and the checkpoint barrier can pass.                                *)
THEOREM TensorsAreOwned == Spec => []NoOrphanTensor
<1>1. StoreInv => NoOrphanTensor
  BY DEF StoreInv, NoOrphanTensor, OwnedIffStored, TypeOK
<1> QED
  BY <1>1, StoreInvariant, PTL

(* Released trajectories leave nothing and never come back.                  *)
THEOREM ReleasedAreGone == Spec => []ReleasedLeaveNothing
<1>1. StoreInv => ReleasedLeaveNothing
  BY DEF StoreInv
<1> QED
  BY <1>1, StoreInvariant, PTL

(* A release removes only tensors all of whose owners are released.          *)
THEOREM SelectiveRelease == Spec => ReleaseIsSelective
<1>1. StoreInv /\ [Next]_vars
        => [\A k \in tensors \ tensors' : owners[k] \subseteq released']_vars
  <2> SUFFICES ASSUME StoreInv, Next, NEW k \in tensors \ tensors'
               PROVE  owners[k] \subseteq released'
    OBVIOUS
  <2>1. PICK b \in Batches : ReleaseTrajectories(TrajectoriesOf(b))
    BY DEF Next, PutTensor, Put, PutReplay
  <2>2. k \in Keys
    BY DEF StoreInv, TypeOK
  <2>3. owners'[k] = {} /\ owners'[k] = owners[k] \ TrajectoriesOf(b)
    BY <2>1, <2>2 DEF ReleaseTrajectories
  <2> QED
    BY <2>1, <2>3 DEF ReleaseTrajectories
<1> QED
  BY <1>1, StoreInvariant, PTL DEF Spec, ReleaseIsSelective

-----------------------------------------------------------------------------
(* The evidence of one trajectory more: its batch is kept, and was not       *)
(* released, for batches are released as a whole.                            *)
LEMMA EvidenceArrives ==
    ASSUME StoreInv, NEW t \in Trajectories, t \notin released, released' = released,
           \A u \in Trajectories : EvidenceOf(u)' <=> EvidenceOf(u) \/ u = t
    PROVE  \E b \in Batches : Evidence!Keep(b)
<1>1. BatchOf[t] \in Batches
  BY BatchOfAssumption
<1>2. BatchOf[t] \notin {BatchOf[u] : u \in released}
  BY DEF StoreInv, TypeOK, WholeBatches, TrajectoriesOf
<1>3. KeptBatches' = KeptBatches \cup {BatchOf[t]}
  BY DEF KeptBatches
<1>4. {BatchOf[u] : u \in released'} = {BatchOf[u] : u \in released}
  OBVIOUS
<1> QED
  BY <1>1, <1>2, <1>3, <1>4 DEF Evidence!Keep

(* What a write leaves in a dictionary: what was there, and what is written. *)
LEMMA PresentAfterInsert ==
    ASSUME NEW f, NEW y \in DOMAIN f, NEW w, w # None, f[y] \in {None, w}
    PROVE  Present([f EXCEPT ![y] = w]) = Present(f) \cup {w}
BY DEF Present

(* What a release leaves in a dictionary: the values of other trajectories.  *)
LEMMA PresentWithout ==
    ASSUME NEW f, NEW ids
    PROVE  Present(Without(f, ids)) = {v \in Present(f) : v.traj \notin ids}
<1>1. ASSUME NEW v \in Present(f), v.traj \notin ids
      PROVE  v \in Present(Without(f, ids))
  <2>1. PICK x \in DOMAIN f : v = f[x] /\ v # None
    BY DEF Present
  <2>2. Without(f, ids)[x] = v /\ x \in DOMAIN Without(f, ids)
    BY <1>1, <2>1 DEF Without
  <2> QED
    BY <2>1, <2>2 DEF Present
<1> QED
  BY <1>1, PresentAfterRelease

(* A tensor, a record or a replay is evidence of its trajectory alone.       *)
LEMMA PutTensorKeeps ==
    ASSUME StoreInv, NEW k \in Keys, NEW t \in Trajectories, PutTensor(k, t)
    PROVE  \E b \in Batches : Evidence!Keep(b)
<1>1. \A u \in Trajectories : EvidenceOf(u)' <=> EvidenceOf(u) \/ u = t
  <2>1. Stored' = Stored /\ owners' = ClaimRefs(t, {k})
    BY DEF PutTensor, Stored
  <2> QED
    BY <2>1, ClaimProperties DEF EvidenceOf
<1> QED
  BY <1>1, EvidenceArrives DEF PutTensor

LEMMA PutKeeps ==
    ASSUME StoreInv, NEW o \in RecordIds, NEW rec \in Record, Put(o, rec)
    PROVE  \E b \in Batches : Evidence!Keep(b)
<1>1. Stored' = Stored \cup {rec} /\ owners' = ClaimRefs(rec.traj, rec.refs)
  <2>1. rec # None /\ o \in DOMAIN records /\ records[o] \in {None, rec}
    BY NoneAssumption DEF Put, StoreInv, TypeOK
  <2>2. Present([records EXCEPT ![o] = rec]) = Present(records) \cup {rec}
    BY <2>1, PresentAfterInsert
  <2>3. records' = [records EXCEPT ![o] = rec] /\ replays' = replays
    BY DEF Put
  <2>4. Present(records)' = Present(records) \cup {rec} /\ Present(replays)' = Present(replays)
    BY <2>2, <2>3
  <2> QED
    BY <2>4 DEF Put, Stored
<1>2. \A u \in Trajectories : EvidenceOf(u)' <=> EvidenceOf(u) \/ u = rec.traj
  BY <1>1, ClaimProperties DEF EvidenceOf
<1> QED
  BY <1>2, EvidenceArrives DEF Put, Record

LEMMA PutReplayKeeps ==
    ASSUME StoreInv, NEW r \in ReplayIds, NEW rep \in Replay, PutReplay(r, rep)
    PROVE  \E b \in Batches : Evidence!Keep(b)
<1>1. Stored' = Stored \cup {rep} /\ owners' = ClaimRefs(rep.traj, rep.refs)
  <2>1. rep # None /\ r \in DOMAIN replays /\ replays[r] \in {None, rep}
    BY NoneAssumption DEF PutReplay, StoreInv, TypeOK
  <2>2. Present([replays EXCEPT ![r] = rep]) = Present(replays) \cup {rep}
    BY <2>1, PresentAfterInsert
  <2>3. replays' = [replays EXCEPT ![r] = rep] /\ records' = records
    BY DEF PutReplay
  <2>4. Present(replays)' = Present(replays) \cup {rep} /\ Present(records)' = Present(records)
    BY <2>2, <2>3
  <2> QED
    BY <2>4 DEF PutReplay, Stored
<1>2. \A u \in Trajectories : EvidenceOf(u)' <=> EvidenceOf(u) \/ u = rep.traj
  BY <1>1, ClaimProperties DEF EvidenceOf
<1> QED
  BY <1>2, EvidenceArrives DEF PutReplay, Replay

(* A release takes the evidence of its batch and of no other.                *)
LEMMA ReleaseReleases ==
    ASSUME StoreInv, NEW b \in Batches, ReleaseTrajectories(TrajectoriesOf(b))
    PROVE  \E bs \in SUBSET Batches : Evidence!Release(bs)
<1> DEFINE ids == TrajectoriesOf(b)
           bs == {BatchOf[t] : t \in ids}
<1>1. \A u \in Trajectories : EvidenceOf(u)' <=> EvidenceOf(u) /\ u \notin ids
  <2>1. Stored' = {v \in Stored : v.traj \notin ids}
    BY PresentWithout DEF ReleaseTrajectories, Stored
  <2>2. \A k \in Keys : owners'[k] = owners[k] \ ids
    BY DEF ReleaseTrajectories
  <2> QED
    BY <2>1, <2>2 DEF EvidenceOf
<1>2. \A u \in Trajectories : BatchOf[u] \in bs <=> u \in ids
  BY DEF TrajectoriesOf
<1>3. KeptBatches' = KeptBatches \ bs
  BY <1>1, <1>2 DEF KeptBatches
<1>4. {BatchOf[t] : t \in released'} = {BatchOf[t] : t \in released} \cup bs
  BY DEF ReleaseTrajectories
<1>5. bs \in SUBSET Batches
  BY BatchOfAssumption DEF TrajectoriesOf
<1> QED
  BY <1>3, <1>4, <1>5 DEF Evidence!Release

(* The observation store implements the evidence store of the lifecycle, at  *)
(* the granularity of batches: sharing tensors and replaying the records of  *)
(* other trajectories is invisible to the manager.                           *)
THEOREM ObservationsImplementEvidenceStore == Spec => ImplementsEvidenceStore
<1>1. Init => Evidence!Init
  BY DEF Init, Evidence!Init, KeptBatches, EvidenceOf, Stored, Present
<1>2. StoreInv /\ [Next]_vars => [Evidence!Next]_(Evidence!vars)
  <2> SUFFICES ASSUME StoreInv, [Next]_vars
               PROVE  Evidence!Next \/ UNCHANGED Evidence!vars
    OBVIOUS
  <2>1. ASSUME NEW r \in ReplayIds, NEW t \in Trajectories, NEW refs \in SUBSET Keys,
               NEW ids \in SUBSET StoredIds,
               PutReplay(r, [traj |-> t, refs |-> refs, handles |-> HandlesOf(ids)])
        PROVE  \E b \in Batches : Evidence!Keep(b)
    <3>1. [traj |-> t, refs |-> refs, handles |-> HandlesOf(ids)] \in Replay
      BY HandlesOfType DEF StoreInv, Replay
    <3> QED
      BY <2>1, <3>1, PutReplayKeeps
  <2>2. CASE UNCHANGED vars
    BY <2>2 DEF vars, Evidence!vars, KeptBatches, EvidenceOf, Stored
  <2> QED
    BY <2>1, <2>2, PutTensorKeeps, PutKeeps, ReleaseReleases DEF Next, Evidence!Next
<1> QED
  BY <1>1, <1>2, StoreInvariant, PTL DEF Spec, ImplementsEvidenceStore, Evidence!Spec

(* The manager sees the store empty exactly when the store is: no tensor,    *)
(* record or replay is hidden from the count the checkpoint barrier takes.   *)
THEOREM EmptyIffNothingKept ==
    StoreInv => (KeptBatches = {} <=> tensors = {} /\ Stored = {})
<1> SUFFICES ASSUME StoreInv
             PROVE  KeptBatches = {} <=> tensors = {} /\ Stored = {}
  OBVIOUS
<1>1. KeptBatches = {} <=> \A t \in Trajectories : ~ EvidenceOf(t)
  BY DEF KeptBatches
<1>2. (\A t \in Trajectories : ~ EvidenceOf(t)) => tensors = {} /\ Stored = {}
  BY StoredTypes DEF StoreInv, TypeOK, OwnedIffStored, EvidenceOf
<1>3. tensors = {} /\ Stored = {} => \A t \in Trajectories : ~ EvidenceOf(t)
  BY DEF StoreInv, OwnedIffStored, EvidenceOf
<1> QED
  BY <1>1, <1>2, <1>3

=============================================================================
