--------------------- MODULE PolicyBatchLifecycleProofs ---------------------
(* The safety of the batch lifecycle, for any number of batches.             *)
EXTENDS PolicyBatchLifecycle, FiniteSetTheorems, TLAPS

(* What each milestone waits for.                                            *)
LEMMA DependencyFacts ==
    /\ Dependencies \in [Milestones -> SUBSET Milestones]
    /\ Dependencies["behavior_replay"] = {}
    /\ Dependencies["current_replay"] = {"behavior_replay"}
    /\ Dependencies["reference_replay"] = {"behavior_replay"}
    /\ Dependencies["loss_backward"] = {"current_replay", "reference_replay"}
    /\ Dependencies["optimizer_step"] = {"loss_backward"}
    /\ Dependencies["zero_staleness_barrier"] = {"optimizer_step"}
BY DEF Dependencies, Milestones

(* The optimizer step runs alone, the barrier after it.                      *)
LEMMA ChainFacts ==
    ASSUME TypeOK, Chain, NEW b \in Batches
    PROVE  /\ "optimizer_step" \in inflight[b]
                => inflight[b] = {"optimizer_step"} /\ ~ Committed(b) /\ ~ Synced(b)
           /\ Synced(b) => Committed(b)
           /\ "zero_staleness_barrier" \in inflight[b]
                => Committed(b) /\ ~ Synced(b) /\ "optimizer_step" \notin inflight[b]
<1> USE DependencyFacts DEF Chain, Committed, Synced
<1>1. completed[b] \subseteq Milestones /\ inflight[b] \subseteq Milestones
  BY DEF TypeOK
<1>2. ASSUME "optimizer_step" \in inflight[b]
      PROVE  inflight[b] = {"optimizer_step"}
  <2>1. "loss_backward" \in completed[b]
    BY <1>2
  <2>2. "current_replay" \in completed[b] /\ "reference_replay" \in completed[b]
    BY <2>1
  <2>3. "behavior_replay" \in completed[b]
    BY <2>2
  <2>4. "optimizer_step" \notin completed[b]
    BY <1>2
  <2>5. "zero_staleness_barrier" \notin inflight[b]
    BY <2>4
  <2> QED
    BY <1>1, <1>2, <2>1, <2>2, <2>3, <2>5 DEF Milestones
<1> QED
  BY <1>2

(* Inflight sets are finite, so beginning and ending a consumer counts.      *)
LEMMA ConsumerCount ==
    ASSUME TypeOK, NEW b \in Batches
    PROVE  /\ IsFiniteSet(inflight[b])
           /\ \A m \in inflight[b] :
                 Cardinality(inflight[b] \ {m}) = Cardinality(inflight[b]) - 1
           /\ \A m \in Milestones \ inflight[b] :
                 Cardinality(inflight[b] \cup {m}) = Cardinality(inflight[b]) + 1
           /\ Cardinality(inflight[b]) = 0 <=> inflight[b] = {}
           /\ Cardinality({}) = 0
<1>1. IsFiniteSet(Milestones)
  <2>1. IsFiniteSet({})
    BY FS_EmptySet
  <2> DEFINE s1 == {} \cup {"behavior_replay"}
             s2 == s1 \cup {"current_replay"}
             s3 == s2 \cup {"reference_replay"}
             s4 == s3 \cup {"loss_backward"}
             s5 == s4 \cup {"optimizer_step"}
             s6 == s5 \cup {"zero_staleness_barrier"}
  <2>2. IsFiniteSet(s1) BY <2>1, FS_AddElement
  <2>3. IsFiniteSet(s2) BY <2>2, FS_AddElement
  <2>4. IsFiniteSet(s3) BY <2>3, FS_AddElement
  <2>5. IsFiniteSet(s4) BY <2>4, FS_AddElement
  <2>6. IsFiniteSet(s5) BY <2>5, FS_AddElement
  <2>7. IsFiniteSet(s6) BY <2>6, FS_AddElement
  <2>8. Milestones = s6
    BY DEF Milestones
  <2> QED
    BY <2>7, <2>8
<1>2. IsFiniteSet(inflight[b])
  BY <1>1, FS_Subset DEF TypeOK
<1> QED
  BY <1>2, FS_RemoveElement, FS_AddElement, FS_EmptySet

LEMMA InitLifecycleInv == Init => LifecycleInv
<1> SUFFICES ASSUME Init
             PROVE  LifecycleInv
  OBVIOUS
<1> USE DEF Init
<1>1. TypeOK
  BY DEF TypeOK, States
<1>2. Ownership
  BY FS_EmptySet DEF Ownership
<1>3. Chain /\ Quiet /\ FinishProgress /\ (capturing => active = {})
  BY DEF Chain, Quiet, FinishProgress
<1>4. UpdateIsExclusive /\ GateHeld /\ ZeroStaleness /\ NoHalfUpdate
  BY NoneAssumption
     DEF UpdateIsExclusive, GateHeld, ZeroStaleness, NoHalfUpdate, Updating, Committed, Synced
<1> QED
  BY <1>1, <1>2, <1>3, <1>4 DEF LifecycleInv

-----------------------------------------------------------------------------
(* A batch opens with the policy the trainer has: no gate, so published.     *)
LEMMA OpenLifecycleInv ==
    ASSUME LifecycleInv, NEW b \in Batches, OpenBatch(b)
    PROVE  LifecycleInv'
<1> USE DEF LifecycleInv, OpenBatch, MayOpen, LockFree, storeVars
<1>1. TypeOK'
  BY DEF TypeOK, States
<1>2. Ownership'
  BY DEF TypeOK, Ownership
<1>3. Chain'
  BY DEF Chain
<1>4. UpdateIsExclusive'
  <2>1. \A a \in Batches : ~ Updating(a)
    BY NoneAssumption DEF UpdateIsExclusive
  <2>2. \A a \in Batches : ~ Updating(a)'
    BY <2>1 DEF TypeOK, Updating, Committed, Synced
  <2> QED
    BY <2>2, NoneAssumption DEF UpdateIsExclusive
<1>5. GateHeld'
  BY DEF GateHeld
<1>6. ZeroStaleness'
  BY DEF TypeOK, ZeroStaleness, GateHeld, Committed
<1>7. Quiet'
  BY DEF TypeOK, Quiet
<1>8. FinishProgress' /\ (capturing => active = {})'
  BY DEF FinishProgress
<1>9. NoHalfUpdate'
  BY DEF TypeOK, NoHalfUpdate, Committed, Synced
<1> QED
  BY <1>1, <1>2, <1>3, <1>4, <1>5, <1>6, <1>7, <1>8, <1>9

(* Attaching touches only what an open batch holds.                          *)
LEMMA AttachLifecycleInv ==
    ASSUME LifecycleInv, NEW b \in Batches, NEW h \in Holders, Attach(b, h)
    PROVE  LifecycleInv'
<1> USE DEF LifecycleInv, Attach, storeVars, policyVars
<1>1. TypeOK'
  BY DEF TypeOK
<1>2. Ownership' /\ Chain' /\ GateHeld' /\ ZeroStaleness' /\ NoHalfUpdate'
  BY DEF Ownership, Chain, GateHeld, ZeroStaleness, NoHalfUpdate, Updating, Committed, Synced
<1>3. UpdateIsExclusive' /\ (capturing => active = {})'
  BY DEF UpdateIsExclusive, Updating, Committed, Synced
<1>4. Quiet'
  BY DEF TypeOK, Quiet
<1>5. FinishProgress'
  BY DEF FinishProgress, Committed, Synced
<1> QED
  BY <1>1, <1>2, <1>3, <1>4, <1>5

-----------------------------------------------------------------------------
(* A consumer begins after its dependencies; an optimizer step takes the     *)
(* gate when its batch is the only one.                                      *)
LEMMA BeginLifecycleInv ==
    ASSUME LifecycleInv, NEW b \in Batches, NEW m \in Milestones, BeginConsumer(b, m)
    PROVE  LifecycleInv'
<1> USE DEF LifecycleInv, BeginConsumer, LockFree, Admissible, GateAdmits, storeVars, policyVars
<1>1. TypeOK'
  BY DEF TypeOK
<1>2. Ownership'
  BY ConsumerCount DEF TypeOK, Ownership
<1>3. Chain'
  BY DEF TypeOK, Chain
<1>4. \A a \in Batches : Updating(a)' <=> Updating(a) \/ (a = b /\ m = "optimizer_step")
  BY DEF TypeOK, Updating, Committed, Synced
<1>5. ~ capturing
  BY DEF Ownership
<1>6. UpdateIsExclusive'
  <2>1. CASE m = "optimizer_step"
    <3>1. \A a \in Batches : ~ Updating(a)
      BY <2>1, NoneAssumption DEF UpdateIsExclusive
    <3> QED
      BY <1>4, <1>5, <2>1, <3>1 DEF UpdateIsExclusive
  <2>2. CASE m # "optimizer_step"
    BY <1>4, <2>2 DEF UpdateIsExclusive
  <2> QED
    BY <2>1, <2>2
<1>7. GateHeld'
  <2>1. CASE m = "optimizer_step"
    BY <1>4, <2>1, NoneAssumption DEF GateHeld
  <2>2. CASE m # "optimizer_step"
    BY <1>4, <2>2 DEF TypeOK, GateHeld
  <2> QED
    BY <2>1, <2>2
<1>8. ZeroStaleness' /\ Quiet' /\ NoHalfUpdate'
  BY DEF ZeroStaleness, Quiet, NoHalfUpdate, Committed, Synced
<1>9. FinishProgress' /\ (capturing => active = {})'
  BY DEF FinishProgress
<1> QED
  BY <1>1, <1>2, <1>3, <1>6, <1>7, <1>8, <1>9

(* A consumer succeeds.  Only the step of the one active batch makes a new   *)
(* version, and only the barrier of the gate's owner publishes it.           *)
LEMMA EndLifecycleInv ==
    ASSUME LifecycleInv, NEW b \in Batches, NEW m \in Milestones, EndConsumer(b, m)
    PROVE  LifecycleInv'
<1> USE DEF LifecycleInv, EndConsumer, LockFree, storeVars
<1>a. state[b] = "open" /\ b \in active /\ ~ capturing
  BY DEF Ownership
<1>b. /\ completed'[b] = completed[b] \cup {m}
      /\ inflight'[b] = inflight[b] \ {m}
      /\ \A a \in Batches \ {b} : completed'[a] = completed[a] /\ inflight'[a] = inflight[a]
  BY DEF TypeOK
<1>c. ASSUME m = "optimizer_step"
      PROVE  gate = b /\ active = {b} /\ ~ Committed(b) /\ ~ Synced(b) /\ inflight[b] = {m}
  BY <1>c, ChainFacts DEF UpdateIsExclusive, Updating
<1>d. ASSUME m = "zero_staleness_barrier"
      PROVE  gate = b /\ active = {b} /\ Committed(b) /\ "optimizer_step" \notin inflight[b]
  <2>1. Committed(b) /\ ~ Synced(b) /\ "optimizer_step" \notin inflight[b]
    BY <1>d, ChainFacts
  <2> QED
    BY <2>1 DEF UpdateIsExclusive, Updating
<1>1. TypeOK'
  BY DEF TypeOK
<1>2. Ownership'
  <2>1. consumers'[b] = Cardinality(inflight'[b])
    BY <1>b, ConsumerCount DEF TypeOK, Ownership
  <2>2. \A a \in Batches \ {b} : consumers'[a] = consumers[a]
    BY DEF TypeOK
  <2> QED
    BY <1>a, <1>b, <2>1, <2>2 DEF Ownership
<1>3. Chain'
  BY <1>b DEF Chain
<1>4. UpdateIsExclusive' /\ GateHeld'
  <2>1. CASE m = "optimizer_step"
    <3>1. Updating(b)' /\ gate' = b
      BY <1>b, <1>c, <2>1 DEF Updating, Committed, Synced
    <3>2. \A a \in Batches \ {b} : ~ Updating(a)'
      BY <1>b, <1>c, <2>1 DEF UpdateIsExclusive, Updating, Committed, Synced
    <3> QED
      BY <1>a, <1>c, <2>1, <3>1, <3>2, NoneAssumption DEF UpdateIsExclusive, GateHeld
  <2>2. CASE m = "zero_staleness_barrier"
    <3>1. ~ Updating(b)'
      BY <1>a, <1>b, <1>d, <2>2 DEF Updating, Committed, Synced
    <3>2. \A a \in Batches \ {b} : ~ Updating(a)'
      BY <1>b, <1>d, <2>2 DEF UpdateIsExclusive, Updating, Committed, Synced
    <3>3. gate' = None /\ published' = trained /\ trained' = trained
      BY <1>d, <2>2
    <3> QED
      BY <3>1, <3>2, <3>3, NoneAssumption DEF UpdateIsExclusive, GateHeld
  <2>3. CASE m \notin {"optimizer_step", "zero_staleness_barrier"}
    <3>1. \A a \in Batches : Updating(a)' <=> Updating(a)
      BY <1>b, <2>3 DEF Updating, Committed, Synced
    <3> QED
      BY <2>3, <3>1 DEF TypeOK, UpdateIsExclusive, GateHeld
  <2> QED
    BY <2>1, <2>2, <2>3
<1>5. ZeroStaleness'
  <2>1. CASE m = "optimizer_step"
    BY <1>b, <1>c, <2>1 DEF ZeroStaleness, Committed
  <2>2. CASE m # "optimizer_step"
    BY <1>b, <2>2 DEF TypeOK, ZeroStaleness, Committed
  <2> QED
    BY <2>1, <2>2
<1>6. Quiet'
  BY DEF Quiet
<1>7. NoHalfUpdate'
  BY <1>a, <1>b DEF NoHalfUpdate, Committed, Synced
<1>8. FinishProgress' /\ (capturing => active = {})'
  BY DEF FinishProgress
<1> QED
  BY <1>1, <1>2, <1>3, <1>4, <1>5, <1>6, <1>7, <1>8

(* A consumer fails.  A failed step keeps the gate for ever, a failed        *)
(* barrier until it is retried.                                              *)
LEMMA FailLifecycleInv ==
    ASSUME LifecycleInv, NEW b \in Batches, NEW m \in Milestones, FailConsumer(b, m)
    PROVE  LifecycleInv'
<1> USE DEF LifecycleInv, FailConsumer, LockFree, storeVars, policyVars
<1>a. state[b] = "open" /\ b \in active
  BY DEF Ownership
<1>b. /\ inflight'[b] = inflight[b] \ {m}
      /\ \A a \in Batches \ {b} : inflight'[a] = inflight[a]
      /\ m # "optimizer_step" => state' = state
      /\ m = "optimizer_step" => state'[b] = "commit_unknown" /\ inflight'[b] = {}
      /\ \A a \in Batches \ {b} : state'[a] = state[a]
  BY ChainFacts DEF TypeOK
<1>1. TypeOK'
  BY DEF TypeOK, States
<1>2. Ownership'
  BY <1>a, <1>b, ConsumerCount DEF TypeOK, Ownership
<1>3. Chain'
  BY <1>b DEF Chain
<1>4. \A a \in Batches : Updating(a)' <=> Updating(a)
  <2>1. CASE m = "optimizer_step"
    BY <1>b, <2>1 DEF Updating, Committed, Synced
  <2>2. CASE m # "optimizer_step"
    BY <1>b, <2>2 DEF Updating, Committed, Synced
  <2> QED
    BY <2>1, <2>2
<1>5. UpdateIsExclusive' /\ GateHeld'
  BY <1>4 DEF TypeOK, UpdateIsExclusive, GateHeld
<1>6. ZeroStaleness'
  BY DEF ZeroStaleness, Committed
<1>7. Quiet' /\ NoHalfUpdate'
  BY <1>a, <1>b DEF Quiet, NoHalfUpdate, Committed, Synced
<1>8. FinishProgress' /\ (capturing => active = {})'
  BY DEF FinishProgress
<1> QED
  BY <1>1, <1>2, <1>3, <1>5, <1>6, <1>7, <1>8

-----------------------------------------------------------------------------
(* _finish starts between updates: its batch does not hold the gate.         *)
LEMMA BeginFinishLifecycleInv ==
    ASSUME LifecycleInv, NEW b \in Batches, NEW aborted \in BOOLEAN, BeginFinish(b, aborted)
    PROVE  LifecycleInv'
<1> USE DEF LifecycleInv, BeginFinish, LockFree, batchVars, storeVars, policyVars
<1>1. TypeOK'
  BY DEF TypeOK, Finish
<1>2. Ownership' /\ Chain' /\ GateHeld' /\ ZeroStaleness' /\ Quiet' /\ NoHalfUpdate'
  BY DEF Ownership, Chain, GateHeld, ZeroStaleness, Quiet, NoHalfUpdate, Updating, Committed, Synced
<1>3. UpdateIsExclusive' /\ (capturing => active = {})'
  BY DEF UpdateIsExclusive, Updating, Committed, Synced
<1>4. FinishProgress'
  BY NoneAssumption DEF FinishProgress, MayFinish, Committed, Synced
<1> QED
  BY <1>1, <1>2, <1>3, <1>4

(* Only the ledger is bound to its answer, and every answer is yes or no.    *)
LEMMA AnswerFacts ==
    ASSUME NEW b, NEW s, NEW refused \in Answers(b, s)
    PROVE  /\ refused \in BOOLEAN
           /\ s = "ledger" => refused = (b \in running)
<1>1. CASE s = "ledger"
  <2>1. Answers(b, s) = {b \in running}
    BY <1>1 DEF Answers
  <2>2. refused = (b \in running)
    BY <2>1, Zenon
  <2>3. (b \in running) \in BOOLEAN
    OBVIOUS
  <2>4. refused \in BOOLEAN
    BY <2>2, <2>3, Zenon
  <2> QED
    BY <2>2, <2>4, Zenon
<1>2. CASE s = "observation"
  <2>1. Answers(b, s) = {FALSE, \E a \in Batches \ {b} : s \in evidence[a]}
    BY <1>2 DEF Answers
  <2>2. refused \in BOOLEAN
    BY <2>1, Zenon
  <2> QED
    BY <1>2, <2>2
<1>3. CASE s # "ledger" /\ s # "observation"
  <2>1. Answers(b, s) = {FALSE}
    BY <1>3 DEF Answers
  <2> QED
    BY <1>3, <2>1
<1> QED
  BY <1>1, <1>2, <1>3

(* A release touches one store of one batch, and notes that it was refused.  *)
LEMMA ReleaseStoreUnchanged ==
    ASSUME ReleaseStore
    PROVE  UNCHANGED <<batchVars, gate, capturing, running, policyVars>>
BY DEF ReleaseStore

(* A release empties the store for good, or the finish is marked as failed.  *)
LEMMA ReleaseStoreLifecycleInv ==
    ASSUME LifecycleInv, ReleaseStore
    PROVE  LifecycleInv'
<1> USE DEF LifecycleInv, batchVars, policyVars
<1> DEFINE b == finishing.batch
           s == Order[finishing.next]
<1>a. /\ finishing # None
      /\ finishing \in Finish
      /\ finishing.next \in 1 .. 3
      /\ b \in Batches
  BY DEF ReleaseStore, TypeOK, Finish
<1>b. s \in Stores
  <2>1. Order[1] \in Stores /\ Order[2] \in Stores /\ Order[3] \in Stores
    BY DEF Order, Stores
  <2>2. finishing.next = 1 \/ finishing.next = 2 \/ finishing.next = 3
    BY <1>a
  <2> QED
    BY <2>1, <2>2
<1>r. PICK refused \in Answers(b, s) :
         /\ finishing' = [finishing EXCEPT !.next = @ + 1, !.failed = @ \/ refused]
         /\ evidence' = IF refused THEN evidence ELSE [evidence EXCEPT ![b] = @ \ {s}]
         /\ released' = IF refused THEN released ELSE [released EXCEPT ![b] = @ \cup {s}]
  BY DEF ReleaseStore
<1>q. refused \in BOOLEAN /\ (s = "ledger" => refused = (b \in running))
  BY AnswerFacts
<1>c. /\ finishing' = [finishing EXCEPT !.next = @ + 1, !.failed = @ \/ refused]
      /\ evidence' = IF refused THEN evidence ELSE [evidence EXCEPT ![b] = @ \ {s}]
      /\ released' = IF refused THEN released ELSE [released EXCEPT ![b] = @ \cup {s}]
      /\ UNCHANGED <<batchVars, gate, capturing, running, policyVars>>
  BY <1>r, ReleaseStoreUnchanged
<1>d. /\ finishing' \in Finish
      /\ finishing'.batch = b
      /\ finishing'.aborted = finishing.aborted
      /\ finishing'.next = finishing.next + 1
      /\ ~ finishing'.failed => ~ finishing.failed /\ ~ refused
  <2> DEFINE failed == finishing.failed \/ refused
  <2>1. failed \in BOOLEAN
    OBVIOUS
  <2>2. finishing' = [finishing EXCEPT !.next = finishing.next + 1, !.failed = failed]
    BY <1>c
  <2> HIDE DEF failed
  <2> DEFINE next == finishing.next + 1
  <2>a. next \in 1 .. 4
    BY <1>a
  <2> HIDE DEF next
  <2>b. finishing' = [finishing EXCEPT !.next = next, !.failed = failed]
    BY <2>2 DEF next
  <2>c. /\ finishing' \in Finish
        /\ finishing'.batch = b
        /\ finishing'.aborted = finishing.aborted
        /\ finishing'.next = next
        /\ finishing'.failed = failed
    BY <1>a, <2>1, <2>a, <2>b, Zenon DEF Finish
  <2>3. /\ finishing' \in Finish
        /\ finishing'.batch = b
        /\ finishing'.aborted = finishing.aborted
        /\ finishing'.next = finishing.next + 1
        /\ finishing'.failed = failed
    BY <2>c DEF next
  <2> QED
    BY <2>3 DEF failed
<1>1. TypeOK'
  BY <1>a, <1>b, <1>c, <1>d DEF TypeOK
<1>2. Ownership' /\ Chain' /\ GateHeld' /\ ZeroStaleness' /\ NoHalfUpdate'
  BY <1>c DEF Ownership, Chain, GateHeld, ZeroStaleness, NoHalfUpdate, Updating, Committed, Synced
<1>3. UpdateIsExclusive' /\ (capturing => active = {})'
  BY <1>c DEF UpdateIsExclusive, Updating, Committed, Synced
<1>4. Quiet'
  <2>1. CASE refused
    BY <1>c, <2>1 DEF Quiet
  <2>2. CASE ~ refused
    <3>1. state[b] = "open"
      BY <1>a DEF FinishProgress
    <3> QED
      BY <1>a, <1>b, <1>c, <1>q, <2>2, <3>1 DEF TypeOK, Quiet
  <2> QED
    BY <2>1, <2>2
<1>5. FinishProgress'
  <2>1. /\ state'[b] = "open"
        /\ consumers'[b] = 0
        /\ IF finishing'.aborted THEN (Committed(b) => Synced(b))' ELSE completed'[b] = Milestones
    BY <1>a, <1>c, <1>d DEF FinishProgress, Committed, Synced
  <2>2. ASSUME ~ finishing'.failed, NEW i \in 1 .. 3, i < finishing'.next
        PROVE  Order[i] \in released'[b]
    <3>1. released' = [released EXCEPT ![b] = @ \cup {s}]
      BY <1>c, <1>d, <2>2
    <3>2. i < finishing.next \/ i = finishing.next
      BY <1>a, <1>d, <2>2
    <3>3. i < finishing.next => Order[i] \in released[b]
      BY <1>a, <1>d, <2>2 DEF FinishProgress
    <3> QED
      BY <1>a, <3>1, <3>2, <3>3 DEF TypeOK
  <2> QED
    BY <1>d, <2>1, <2>2 DEF FinishProgress
<1> QED
  BY <1>1, <1>2, <1>3, <1>4, <1>5

(* The end of _finish: every store was told, or the batch stays owned.       *)
LEMMA EndFinishLifecycleInv ==
    ASSUME LifecycleInv, EndFinish
    PROVE  LifecycleInv'
<1> USE DEF LifecycleInv, storeVars, policyVars
<1> DEFINE b == finishing.batch
           new == IF finishing.failed THEN "cleanup_failed"
                  ELSE IF finishing.aborted THEN "aborted" ELSE "closed"
<1>a. /\ finishing # None
      /\ finishing \in Finish
      /\ finishing.next = 4
      /\ b \in Batches
  BY DEF EndFinish, TypeOK, Finish
<1>b. /\ state[b] = "open"
      /\ inflight[b] = {}
      /\ Committed(b) <=> Synced(b)
      /\ ~ finishing.aborted => completed[b] = Milestones
      /\ ~ finishing.failed => released[b] = Stores
  <2>1. state[b] = "open" /\ inflight[b] = {}
    BY <1>a, ConsumerCount DEF FinishProgress, Ownership
  <2>2. Committed(b) <=> Synced(b)
    BY <1>a, ChainFacts DEF FinishProgress, Committed, Synced, Milestones
  <2>3. ~ finishing.aborted => completed[b] = Milestones
    BY <1>a DEF FinishProgress
  <2>4. ASSUME ~ finishing.failed
        PROVE  released[b] = Stores
    <3>1. Order[1] \in released[b] /\ Order[2] \in released[b] /\ Order[3] \in released[b]
      BY <1>a, <2>4 DEF FinishProgress
    <3>2. released[b] \subseteq Stores
      BY <1>a DEF TypeOK
    <3> QED
      BY <3>1, <3>2 DEF Order, Stores
  <2> QED
    BY <2>1, <2>2, <2>3, <2>4
<1>c. ~ Updating(b) /\ gate # b /\ (gate = None \/ gate \in Batches)
  BY <1>a, <1>b, NoneAssumption DEF Updating, GateHeld, TypeOK
<1>d. gate = None
  <2>1. b \in active
    BY <1>a, <1>b DEF Ownership
  <2> QED
    BY <1>c, <2>1 DEF GateHeld, UpdateIsExclusive
<1>e. /\ gate' = gate
      /\ held' = [held EXCEPT ![b] = {}]
      /\ state' = [state EXCEPT ![b] = new]
      /\ active' = IF finishing.failed THEN active ELSE active \ {b}
      /\ finishing' = None
      /\ UNCHANGED <<completed, inflight, consumers, capturing, storeVars, policyVars>>
  BY <1>c, <1>d DEF EndFinish
<1>1. TypeOK'
  BY <1>a, <1>e DEF TypeOK, States
<1>2. Ownership'
  BY <1>a, <1>b, <1>e DEF TypeOK, Ownership
<1>3. Chain'
  BY <1>e DEF Chain
<1>4. UpdateIsExclusive' /\ GateHeld'
  <2>1. \A a \in Batches : ~ Updating(a)
    BY <1>d, NoneAssumption DEF UpdateIsExclusive
  <2>2. \A a \in Batches : ~ Updating(a)'
    BY <1>a, <1>e, <2>1 DEF TypeOK, Updating, Committed, Synced
  <2> QED
    BY <1>d, <1>e, <2>2, NoneAssumption DEF UpdateIsExclusive, GateHeld
<1>5. ZeroStaleness'
  BY <1>e DEF ZeroStaleness, Committed
<1>6. Quiet'
  BY <1>a, <1>b, <1>e DEF TypeOK, Quiet
<1>7. FinishProgress' /\ (capturing => active = {})'
  BY <1>e DEF FinishProgress
<1>8. NoHalfUpdate'
  BY <1>a, <1>b, <1>e DEF TypeOK, NoHalfUpdate, Committed, Synced
<1> QED
  BY <1>1, <1>2, <1>3, <1>4, <1>5, <1>6, <1>7, <1>8

-----------------------------------------------------------------------------
(* Capturing starts when no batch is owned.                                  *)
LEMMA CaptureLifecycleInv ==
    ASSUME LifecycleInv, BeginCapture \/ EndCapture
    PROVE  LifecycleInv'
<1> USE DEF LifecycleInv, BeginCapture, EndCapture, Quiescent, LockFree, batchVars, storeVars, policyVars
<1>a. UNCHANGED <<batchVars, gate, finishing, storeVars, policyVars>> /\ capturing' \in BOOLEAN
  OBVIOUS
<1>1. TypeOK'
  BY <1>a DEF TypeOK
<1>b. Ownership' /\ Chain' /\ GateHeld' /\ ZeroStaleness' /\ Quiet' /\ NoHalfUpdate'
  BY <1>a DEF Ownership, Chain, GateHeld, ZeroStaleness, Quiet, NoHalfUpdate, Updating,
              Committed, Synced
<1>2. UpdateIsExclusive'
  <2>1. active = {}
    OBVIOUS
  <2> QED
    BY <2>1 DEF UpdateIsExclusive, Updating, Committed, Synced
<1>3. FinishProgress' /\ (capturing => active = {})'
  BY DEF FinishProgress
<1> QED
  BY <1>1, <1>b, <1>2, <1>3

(* Producers only reach stores that were not told of a release.              *)
LEMMA ProducerLifecycleInv ==
    ASSUME LifecycleInv, NEW b \in Batches,
           \/ StartTool(b)
           \/ \E succeeded \in BOOLEAN : EndTool(b, succeeded)
           \/ \E s \in {"observation", "behavior"} : PutEvidence(b, s)
    PROVE  LifecycleInv'
<1> USE DEF LifecycleInv, StartTool, EndTool, PutEvidence, Opened, batchVars, policyVars
<1>a. UNCHANGED <<batchVars, gate, capturing, finishing, released, policyVars>>
  OBVIOUS
<1>1. TypeOK'
  BY DEF TypeOK, Stores
<1>2. Ownership' /\ Chain' /\ GateHeld' /\ ZeroStaleness' /\ NoHalfUpdate'
  BY <1>a DEF Ownership, Chain, GateHeld, ZeroStaleness, NoHalfUpdate, Updating, Committed, Synced
<1>3. UpdateIsExclusive' /\ (capturing => active = {})' /\ FinishProgress'
  BY <1>a DEF UpdateIsExclusive, FinishProgress, Updating, Committed, Synced
<1>4. Quiet'
  BY DEF TypeOK, Quiet
<1> QED
  BY <1>1, <1>2, <1>3, <1>4

LEMMA NextLifecycleInv == LifecycleInv /\ [Next]_vars => LifecycleInv'
<1> SUFFICES ASSUME LifecycleInv, [Next]_vars
             PROVE  LifecycleInv'
  OBVIOUS
<1>1. CASE UNCHANGED vars
  BY <1>1 DEF vars, LifecycleInv, TypeOK, Ownership, Chain, UpdateIsExclusive, GateHeld,
              ZeroStaleness, Quiet, FinishProgress, NoHalfUpdate, Updating, Committed, Synced
<1>2. CASE Next
  BY <1>2, OpenLifecycleInv, AttachLifecycleInv, BeginLifecycleInv, EndLifecycleInv,
     FailLifecycleInv, BeginFinishLifecycleInv, ReleaseStoreLifecycleInv, EndFinishLifecycleInv,
     CaptureLifecycleInv, ProducerLifecycleInv DEF Next
<1> QED
  BY <1>1, <1>2

-----------------------------------------------------------------------------
(* The invariant of the lifecycle holds in every state.                      *)
THEOREM LifecycleInvariant == Spec => []LifecycleInv
<1> QED
  BY InitLifecycleInv, NextLifecycleInv, PTL DEF Spec

(* Types are preserved.                                                      *)
THEOREM LifecycleTypeCorrect == Spec => []TypeOK
<1>1. LifecycleInv => TypeOK
  BY DEF LifecycleInv
<1> QED
  BY <1>1, LifecycleInvariant, PTL

(* No optimizer step uses rollouts of another policy than the trainer's, for *)
(* any number of overlapping batches.                                        *)
THEOREM NoStaleUpdate == Spec => []ZeroStaleness
<1>1. LifecycleInv => ZeroStaleness
  BY DEF LifecycleInv
<1> QED
  BY <1>1, LifecycleInvariant, PTL

(* From optimizer step to barrier a batch is alone and owns the gate.        *)
THEOREM UpdatesAreExclusive == Spec => []UpdateIsExclusive
<1>1. LifecycleInv => UpdateIsExclusive
  BY DEF LifecycleInv
<1> QED
  BY <1>1, LifecycleInvariant, PTL

(* No batch leaves between its optimizer step and its barrier.               *)
THEOREM UpdatesAreWhole == Spec => []NoHalfUpdate
<1>1. LifecycleInv => NoHalfUpdate
  BY DEF LifecycleInv
<1> QED
  BY <1>1, LifecycleInvariant, PTL

(* A finished batch leaves nothing, whatever its threads still do.           *)
THEOREM FinishedBatchesAreGone == Spec => []FinishedLeavesNothing
<1>1. LifecycleInv => FinishedLeavesNothing
  BY DEF LifecycleInv, TypeOK, Quiet, FinishedLeavesNothing, Stores
<1> QED
  BY <1>1, LifecycleInvariant, PTL

(* A checkpoint sees no batch, no evidence and no unpublished policy.        *)
THEOREM CheckpointsAreClean == Spec => []CheckpointIsClean
<1>1. LifecycleInv => CheckpointIsClean
  <2> SUFFICES ASSUME LifecycleInv, capturing
               PROVE  Quiescent /\ gate = None /\ trained = published
    BY DEF CheckpointIsClean
  <2>1. active = {}
    BY DEF LifecycleInv
  <2>2. gate = None /\ trained = published
    BY <2>1 DEF LifecycleInv, TypeOK, GateHeld, UpdateIsExclusive
  <2>3. \A b \in Batches : state[b] \in {"unopened", "closed", "aborted"}
    BY <2>1 DEF LifecycleInv, TypeOK, Ownership, States
  <2>4. \A b \in Batches : evidence[b] = {} /\ b \notin running
    BY <2>3 DEF LifecycleInv, TypeOK, Quiet, Stores
  <2> QED
    BY <2>1, <2>2, <2>4 DEF Quiescent, LifecycleInv, TypeOK
<1> QED
  BY <1>1, LifecycleInvariant, PTL

-----------------------------------------------------------------------------
(* A failed batch still owns its place: it blocks what open and begin check. *)
LEMMA FailureBlocks ==
    ASSUME LifecycleInv, [Next]_vars,
           NEW f \in Batches, state[f] \in {"commit_unknown", "cleanup_failed"}
    PROVE  /\ UNCHANGED trained
           /\ \A b \in Batches : state[b] = "unopened" => state'[b] = "unopened"
           /\ ~ capturing'
<1>1. f \in active /\ ~ capturing
  BY DEF LifecycleInv, Ownership
<1>2. inflight[f] = {} /\ (state[f] = "commit_unknown" => gate = f /\ gate # None)
  BY NoneAssumption DEF LifecycleInv, Ownership, UpdateIsExclusive, Updating
<1>3. ASSUME NEW b \in Batches
      PROVE  ~ OpenBatch(b)
  BY <1>1, <1>2 DEF OpenBatch, MayOpen
<1>4. ASSUME NEW b \in Batches
      PROVE  ~ EndConsumer(b, "optimizer_step")
  <2>1. SUFFICES ASSUME "optimizer_step" \in inflight[b]
                 PROVE  FALSE
    BY DEF EndConsumer
  <2>2. active = {b}
    BY <2>1 DEF LifecycleInv, UpdateIsExclusive, Updating
  <2> QED
    BY <1>1, <1>2, <2>1, <2>2
<1>5. UNCHANGED trained /\ ~ capturing'
  <2>1. ~ BeginCapture
    BY <1>1 DEF BeginCapture, Quiescent
  <2> QED
    BY <1>1, <1>3, <1>4, <2>1, ReleaseStoreUnchanged
       DEF Next, vars, Attach, BeginConsumer, EndConsumer, FailConsumer, BeginFinish,
           EndFinish, EndCapture, StartTool, EndTool, PutEvidence, policyVars
<1>6. ASSUME NEW b \in Batches, state[b] = "unopened"
      PROVE  state'[b] = "unopened"
  <2>1. inflight[b] = {}
    BY <1>6 DEF LifecycleInv, Ownership
  <2>2. ASSUME NEW a \in Batches, NEW m \in Milestones, FailConsumer(a, m)
        PROVE  state'[b] = "unopened"
    BY <1>6, <2>1, <2>2 DEF FailConsumer, LifecycleInv, TypeOK
  <2>3. ASSUME EndFinish
        PROVE  state'[b] = "unopened"
    <3>1. finishing # None /\ finishing.batch # b
      BY <1>6, <2>3 DEF EndFinish, LifecycleInv, FinishProgress
    <3> QED
      BY <1>6, <2>3, <3>1 DEF EndFinish, LifecycleInv, TypeOK
  <2> QED
    BY <1>3, <1>6, <2>2, <2>3
       DEF Next, vars, Attach, BeginConsumer, EndConsumer, BeginFinish, ReleaseStore,
           BeginCapture, EndCapture, StartTool, EndTool, PutEvidence, batchVars
<1> QED
  BY <1>1, <1>5, <1>6

(* After a failed step or a partial release nothing is opened, trained or    *)
(* captured.                                                                 *)
THEOREM FailuresAreTerminal == Spec => FailureIsTerminal
<1>1. LifecycleInv /\ [Next]_vars
        => [(\E b \in Batches : state[b] \in {"commit_unknown", "cleanup_failed"}) =>
               /\ UNCHANGED trained
               /\ \A b \in Batches : state[b] = "unopened" => state'[b] = "unopened"
               /\ ~ capturing']_vars
  BY FailureBlocks
<1> QED
  BY <1>1, LifecycleInvariant, PTL DEF Spec, FailureIsTerminal

(* Only _finish takes evidence away, and it has no consumer.                 *)
THEOREM ConsumersKeepEvidence == Spec => LeasedEvidenceStays
<1>1. LifecycleInv /\ [Next]_vars
        => [\A b \in Batches : inflight[b] # {} =>
               evidence[b] \subseteq evidence'[b] /\ held[b] \subseteq held'[b]]_vars
  <2> SUFFICES ASSUME LifecycleInv, Next, NEW b \in Batches, inflight[b] # {}
               PROVE  evidence[b] \subseteq evidence'[b] /\ held[b] \subseteq held'[b]
    OBVIOUS
  <2>1. ~ (finishing # None /\ finishing.batch = b)
    BY ConsumerCount DEF LifecycleInv, FinishProgress, Ownership
  <2>2. ASSUME ReleaseStore
        PROVE  evidence[b] \subseteq evidence'[b] /\ held[b] \subseteq held'[b]
    BY <2>1, <2>2 DEF ReleaseStore, LifecycleInv, TypeOK, batchVars
  <2>3. ASSUME EndFinish
        PROVE  evidence[b] \subseteq evidence'[b] /\ held[b] \subseteq held'[b]
    BY <2>1, <2>3 DEF EndFinish, LifecycleInv, TypeOK, storeVars
  <2>4. ASSUME NEW a \in Batches, NEW h \in Holders, Attach(a, h)
        PROVE  evidence[b] \subseteq evidence'[b] /\ held[b] \subseteq held'[b]
    BY <2>4 DEF Attach, LifecycleInv, TypeOK, storeVars
  <2>5. ASSUME NEW a \in Batches,
               \/ StartTool(a)
               \/ \E succeeded \in BOOLEAN : EndTool(a, succeeded)
               \/ \E s \in {"observation", "behavior"} : PutEvidence(a, s)
        PROVE  evidence[b] \subseteq evidence'[b] /\ held[b] \subseteq held'[b]
    BY <2>5 DEF StartTool, EndTool, PutEvidence, LifecycleInv, TypeOK, batchVars
  <2> QED
    BY <2>2, <2>3, <2>4, <2>5
       DEF Next, OpenBatch, BeginConsumer, EndConsumer, FailConsumer, BeginFinish, BeginCapture,
           EndCapture, batchVars, storeVars
<1> QED
  BY <1>1, LifecycleInvariant, PTL DEF Spec, LeasedEvidenceStays

-----------------------------------------------------------------------------
(* Every step of the lifecycle is a step of the gate, or none.               *)
LEMMA StepImplementsGate ==
    ASSUME LifecycleInv, [Next]_vars
    PROVE  [Gate!Next]_(Gate!vars)
<1> USE DEF Gate!vars, Gate!Next
<1>0. (gate = None \/ gate \in Batches) /\ None \notin Batches
  BY NoneAssumption DEF LifecycleInv, TypeOK
<1>s. ASSUME UNCHANGED <<state, active, completed, gate, capturing, trained, published, openedAt>>
      PROVE  UNCHANGED Gate!vars
  BY <1>s DEF Phase, Committed
<1>1. ASSUME NEW b \in Batches, OpenBatch(b)
      PROVE  Gate!Lease(b)
  <2>1. b \notin active
    BY <1>1 DEF OpenBatch, LifecycleInv, Ownership
  <2> QED
    BY <1>1, <2>1 DEF OpenBatch, MayOpen, Phase, Gate!Lease
<1>2. ASSUME NEW b \in Batches, NEW m \in Milestones, BeginConsumer(b, m)
      PROVE  Gate!BeginStep(b) \/ UNCHANGED Gate!vars
  <2>1. CASE m = "optimizer_step"
    <3>1. /\ gate = None /\ gate' = b /\ active = {b}
          /\ state' = state /\ state[b] = "open" /\ completed' = completed /\ ~ Committed(b)
          /\ UNCHANGED <<active, capturing, trained, published, openedAt>>
      BY <1>2, <2>1 DEF BeginConsumer, GateAdmits, Admissible, Committed, policyVars
    <3>2. Phase = "idle" /\ Phase' = "stepping"
      BY <1>0, <3>1 DEF Phase, Committed
    <3>3. openedAt[b] = trained
      BY <3>1 DEF LifecycleInv, ZeroStaleness
    <3> QED
      BY <3>1, <3>2, <3>3 DEF Gate!BeginStep
  <2>2. CASE m # "optimizer_step"
    BY <1>2, <1>s, <2>2 DEF BeginConsumer, policyVars
  <2> QED
    BY <2>1, <2>2
<1>3. ASSUME NEW b \in Batches, NEW m \in Milestones, EndConsumer(b, m)
      PROVE  Gate!CommitStep \/ Gate!Publish \/ UNCHANGED Gate!vars
  <2>a. state[b] = "open" /\ state' = state /\ UNCHANGED <<active, openedAt, capturing>>
    BY <1>3 DEF EndConsumer, LifecycleInv, Ownership
  <2>b. completed' = [completed EXCEPT ![b] = @ \cup {m}]
    BY <1>3 DEF EndConsumer
  <2>1. CASE m = "optimizer_step"
    <3>1. gate = b /\ ~ Committed(b)
      BY <1>3, <2>1, ChainFacts DEF EndConsumer, LifecycleInv, UpdateIsExclusive, Updating
    <3>2. gate' = b /\ Committed(b)' /\ trained' = trained + 1 /\ published' = published
      BY <1>3, <2>1, <2>b, <3>1 DEF EndConsumer, Committed, LifecycleInv, TypeOK
    <3>3. Phase = "stepping" /\ Phase' = "syncing"
      BY <1>0, <2>a, <3>1, <3>2 DEF Phase
    <3> QED
      BY <2>a, <3>1, <3>2, <3>3 DEF Gate!CommitStep
  <2>2. CASE m = "zero_staleness_barrier"
    <3>1. Committed(b) /\ ~ Synced(b)
      BY <1>3, <2>2, ChainFacts DEF EndConsumer, LifecycleInv
    <3>2. gate = b
      BY <3>1 DEF LifecycleInv, UpdateIsExclusive, Updating
    <3>3. gate' = None /\ published' = trained /\ trained' = trained
      BY <1>3, <2>2, <3>2 DEF EndConsumer
    <3>4. Phase = "syncing" /\ Phase' = "idle"
      BY <1>0, <2>a, <3>1, <3>2, <3>3 DEF Phase
    <3> QED
      BY <2>a, <3>3, <3>4 DEF Gate!Publish
  <2>3. CASE m \notin {"optimizer_step", "zero_staleness_barrier"}
    <3>1. UNCHANGED <<gate, trained, published>>
      BY <1>3, <2>3 DEF EndConsumer
    <3>2. \A a \in Batches : Committed(a)' <=> Committed(a)
      BY <2>b, <2>3 DEF Committed, LifecycleInv, TypeOK
    <3>3. Phase' = Phase
      BY <1>0, <2>a, <3>1, <3>2 DEF Phase
    <3> QED
      BY <2>a, <3>1, <3>3
  <2> QED
    BY <2>1, <2>2, <2>3
<1>4. ASSUME NEW b \in Batches, NEW m \in Milestones, FailConsumer(b, m)
      PROVE  Gate!TearStep \/ UNCHANGED Gate!vars
  <2>1. CASE m = "optimizer_step"
    <3>1. gate = b /\ ~ Committed(b) /\ state[b] = "open"
      BY <1>4, <2>1, ChainFacts
         DEF FailConsumer, LifecycleInv, UpdateIsExclusive, Updating, Ownership
    <3>2. /\ gate' = b /\ state'[b] = "commit_unknown"
          /\ UNCHANGED <<active, completed, capturing, trained, published, openedAt>>
      BY <1>4, <2>1, <3>1 DEF FailConsumer, LifecycleInv, TypeOK, policyVars
    <3>3. Phase = "stepping" /\ Phase' = "torn"
      BY <1>0, <3>1, <3>2 DEF Phase
    <3> QED
      BY <3>1, <3>2, <3>3 DEF Gate!TearStep
  <2>2. CASE m # "optimizer_step"
    BY <1>4, <1>s, <2>2 DEF FailConsumer, policyVars
  <2> QED
    BY <2>1, <2>2
<1>5. ASSUME EndFinish
      PROVE  (\E b \in Batches : Gate!Return(b)) \/ UNCHANGED Gate!vars
  <2> DEFINE b == finishing.batch
  <2>1. /\ b \in Batches /\ state[b] = "open" /\ b \in active /\ ~ Updating(b)
    <3>1. b \in Batches /\ finishing # None
      BY <1>5 DEF EndFinish, LifecycleInv, TypeOK, Finish
    <3>2. state[b] = "open" /\ b \in active /\ inflight[b] = {}
      BY <3>1, ConsumerCount DEF LifecycleInv, FinishProgress, Ownership
    <3>3. Committed(b) => Synced(b)
      BY <3>1 DEF LifecycleInv, FinishProgress, Committed, Synced, Milestones
    <3> QED
      BY <3>1, <3>2, <3>3 DEF Updating
  <2>2. gate = None
    BY <1>0, <2>1 DEF LifecycleInv, GateHeld, UpdateIsExclusive
  <2>3. gate' = None /\ UNCHANGED <<capturing, trained, published, openedAt>>
    BY <1>5, <2>2 DEF EndFinish, policyVars
  <2>4. Phase = "idle" /\ Phase' = "idle"
    BY <2>2, <2>3 DEF Phase
  <2>5. active' = active \/ active' = active \ {b}
    BY <1>5 DEF EndFinish
  <2> QED
    BY <1>0, <2>1, <2>2, <2>3, <2>4, <2>5 DEF Gate!Return
<1>6. ASSUME BeginCapture \/ EndCapture
      PROVE  Gate!BeginCapture \/ Gate!EndCapture
  <2>1. UNCHANGED <<state, active, completed, gate, trained, published, openedAt>>
    BY <1>6 DEF BeginCapture, EndCapture, batchVars, policyVars
  <2>2. Phase' = Phase
    BY <2>1 DEF Phase, Committed
  <2> QED
    BY <1>6, <2>1, <2>2
       DEF BeginCapture, EndCapture, Quiescent, Phase, Gate!BeginCapture, Gate!EndCapture
<1>7. ASSUME NEW b \in Batches,
             \/ \E h \in Holders : Attach(b, h)
             \/ \E aborted \in BOOLEAN : BeginFinish(b, aborted)
             \/ StartTool(b)
             \/ \E succeeded \in BOOLEAN : EndTool(b, succeeded)
             \/ \E s \in {"observation", "behavior"} : PutEvidence(b, s)
      PROVE  UNCHANGED Gate!vars
  BY <1>7, <1>s DEF Attach, BeginFinish, StartTool, EndTool, PutEvidence, batchVars, policyVars
<1>8. ASSUME ReleaseStore \/ UNCHANGED vars
      PROVE  UNCHANGED Gate!vars
  BY <1>8, <1>s DEF ReleaseStore, vars, batchVars, policyVars
<1> QED
  BY <1>1, <1>2, <1>3, <1>4, <1>5, <1>6, <1>7, <1>8 DEF Next

(* The lifecycle, with its milestones, locks and stores, implements the      *)
(* gate: exclusive updates of leased data, published before the next lease.  *)
THEOREM LifecycleImplementsGate == Spec => ImplementsGate
<1>1. Init => Gate!Init
  BY DEF Init, Gate!Init, Phase
<1>2. LifecycleInv /\ [Next]_vars => [Gate!Next]_(Gate!vars)
  BY StepImplementsGate
<1> QED
  BY <1>1, <1>2, LifecycleInvariant, PTL DEF Spec, ImplementsGate, Gate!Spec

-----------------------------------------------------------------------------
(* What a store is told or keeps is what the two families of sets say.       *)
LEMMA StoreViews ==
    ASSUME NEW s
    PROVE  /\ \A b \in Batches : b \in Keeping(s) <=> s \in evidence[b]
           /\ \A b \in Batches : b \in Told(s) <=> s \in released[b]
           /\ Keeping(s) \subseteq Batches /\ Told(s) \subseteq Batches
BY DEF Keeping, Told

(* One store keeps evidence of a batch, or none does: the views of the       *)
(* others do not change.                                                     *)
LEMMA StoreKeeps ==
    ASSUME TypeOK, NEW b \in Batches, NEW s \in Stores,
           evidence' = [evidence EXCEPT ![b] = @ \cup {s}], UNCHANGED released
    PROVE  /\ Keeping(s)' = Keeping(s) \cup {b}
           /\ \A other \in Stores \ {s} : Keeping(other)' = Keeping(other)
           /\ \A any \in Stores : Told(any)' = Told(any)
<1>1. \A a \in Batches : evidence'[a] = IF a = b THEN evidence[a] \cup {s} ELSE evidence[a]
  BY DEF TypeOK
<1> QED
  BY <1>1 DEF Keeping, Told

(* A store that is told of a release loses the batch, the others nothing.    *)
LEMMA StoreReleases ==
    ASSUME TypeOK, NEW b \in Batches, NEW s \in Stores,
           evidence' = [evidence EXCEPT ![b] = @ \ {s}],
           released' = [released EXCEPT ![b] = @ \cup {s}]
    PROVE  /\ Keeping(s)' = Keeping(s) \ {b}
           /\ Told(s)' = Told(s) \cup {b}
           /\ \A other \in Stores \ {s} : Keeping(other)' = Keeping(other) /\ Told(other)' = Told(other)
<1>1. \A a \in Batches :
         /\ evidence'[a] = IF a = b THEN evidence[a] \ {s} ELSE evidence[a]
         /\ released'[a] = IF a = b THEN released[a] \cup {s} ELSE released[a]
  BY DEF TypeOK
<1> QED
  BY <1>1 DEF Keeping, Told

(* What the manager and the producers do is a step of every store, or none.  *)
StoresStep ==
    /\ [Ledger!Next]_(Ledger!vars)
    /\ [Observation!Next]_(Observation!vars)
    /\ [Behavior!Next]_(Behavior!vars)

LEMMA StoresUntouched ==
    ASSUME UNCHANGED storeVars
    PROVE  StoresStep
BY DEF storeVars, StoresStep, Ledger!vars, Observation!vars, Behavior!vars, Keeping, Told

LEMMA StoreReleaseStep ==
    ASSUME TypeOK, NEW b \in Batches, NEW s \in Stores, s = "ledger" => b \notin running,
           evidence' = [evidence EXCEPT ![b] = @ \ {s}],
           released' = [released EXCEPT ![b] = @ \cup {s}],
           running' = running
    PROVE  StoresStep
<1>1. /\ Keeping(s)' = Keeping(s) \ {b}
      /\ Told(s)' = Told(s) \cup {b}
      /\ \A other \in Stores \ {s} : Keeping(other)' = Keeping(other) /\ Told(other)' = Told(other)
  BY StoreReleases
<1>2. {b} \in SUBSET Batches
  OBVIOUS
<1>3. CASE s = "ledger"
  <2>1. Ledger!Release({b})
    BY <1>1, <1>3 DEF Ledger!Release
  <2> QED
    BY <1>1, <1>2, <1>3, <2>1
       DEF StoresStep, Stores, Ledger!Next, Observation!vars, Behavior!vars
<1>4. CASE s = "observation"
  <2>1. Observation!Release({b})
    BY <1>1, <1>4 DEF Observation!Release
  <2> QED
    BY <1>1, <1>2, <1>4, <2>1
       DEF StoresStep, Stores, Observation!Next, Ledger!vars, Behavior!vars
<1>5. CASE s = "behavior"
  <2>1. Behavior!Release({b})
    BY <1>1, <1>5 DEF Behavior!Release
  <2> QED
    BY <1>1, <1>2, <1>5, <2>1
       DEF StoresStep, Stores, Behavior!Next, Ledger!vars, Observation!vars
<1> QED
  BY <1>3, <1>4, <1>5 DEF Stores

LEMMA ReleaseStoreStep ==
    ASSUME LifecycleInv, ReleaseStore
    PROVE  StoresStep
<1> DEFINE b == finishing.batch
           s == Order[finishing.next]
<1>1. b \in Batches /\ s \in Stores
  BY DEF ReleaseStore, LifecycleInv, TypeOK, Finish, Order, Stores
<1>r. PICK refused \in Answers(b, s) :
         /\ evidence' = IF refused THEN evidence ELSE [evidence EXCEPT ![b] = @ \ {s}]
         /\ released' = IF refused THEN released ELSE [released EXCEPT ![b] = @ \cup {s}]
  BY DEF ReleaseStore
<1>q. /\ refused \in BOOLEAN /\ (s = "ledger" => refused = (b \in running))
      /\ running' = running
  BY AnswerFacts, ReleaseStoreUnchanged
<1>2. CASE refused
  <2>1. UNCHANGED storeVars
    BY <1>2, <1>r, <1>q DEF storeVars
  <2> QED
    BY <2>1, StoresUntouched
<1>3. CASE ~ refused
  <2>1. /\ evidence' = [evidence EXCEPT ![b] = @ \ {s}]
        /\ released' = [released EXCEPT ![b] = @ \cup {s}]
        /\ running' = running
    BY <1>3, <1>r, <1>q
  <2> QED
    BY <1>1, <1>3, <1>q, <2>1, StoreReleaseStep DEF LifecycleInv
<1> QED
  BY <1>2, <1>3

LEMMA StartToolStep ==
    ASSUME LifecycleInv, NEW b \in Batches, StartTool(b)
    PROVE  StoresStep
<1>1. Ledger!Start(b)
  BY DEF StartTool, Ledger!Start, Keeping, Told
<1>2. UNCHANGED Observation!vars /\ UNCHANGED Behavior!vars
  BY DEF StartTool, Observation!vars, Behavior!vars, Keeping, Told
<1> QED
  BY <1>1, <1>2 DEF StoresStep, Ledger!Next

LEMMA EndToolStep ==
    ASSUME LifecycleInv, NEW b \in Batches, NEW succeeded \in BOOLEAN, EndTool(b, succeeded)
    PROVE  StoresStep
<1>a. b \in running /\ running' \in {running, running \ {b}} /\ released' = released
  BY DEF EndTool
<1>1. /\ Keeping("ledger")' \in {Keeping("ledger"), Keeping("ledger") \cup {b}}
      /\ Keeping("observation")' = Keeping("observation")
      /\ Keeping("behavior")' = Keeping("behavior")
      /\ Told("ledger")' = Told("ledger")
      /\ Told("observation")' = Told("observation")
      /\ Told("behavior")' = Told("behavior")
  <2>1. CASE succeeded
    BY <2>1, StoreKeeps DEF EndTool, LifecycleInv, Stores
  <2>2. CASE ~ succeeded
    BY <2>2 DEF EndTool, Keeping, Told
  <2> QED
    BY <2>1, <2>2
<1>2. Ledger!End(b)
  BY <1>a, <1>1 DEF Ledger!End
<1>3. UNCHANGED Observation!vars /\ UNCHANGED Behavior!vars
  BY <1>1 DEF Observation!vars, Behavior!vars
<1> QED
  BY <1>2, <1>3 DEF StoresStep, Ledger!Next

LEMMA PutEvidenceStep ==
    ASSUME LifecycleInv, NEW b \in Batches, NEW s \in {"observation", "behavior"}, PutEvidence(b, s)
    PROVE  StoresStep
<1>a. running' = running /\ b \notin Told(s)
  BY DEF PutEvidence, Told
<1>b. /\ Keeping(s)' = Keeping(s) \cup {b}
      /\ \A other \in Stores \ {s} : Keeping(other)' = Keeping(other)
      /\ \A any \in Stores : Told(any)' = Told(any)
  <2>1. s \in Stores /\ TypeOK
    BY DEF Stores, LifecycleInv
  <2>2. evidence' = [evidence EXCEPT ![b] = @ \cup {s}] /\ UNCHANGED released
    BY DEF PutEvidence
  <2> QED
    BY <2>1, <2>2, StoreKeeps
<1>1. CASE s = "observation"
  <2>1. Observation!Keep(b)
    BY <1>1, <1>a, <1>b DEF Observation!Keep, Stores
  <2> QED
    BY <1>1, <1>a, <1>b, <2>1
       DEF StoresStep, Stores, Observation!Next, Ledger!vars, Behavior!vars
<1>2. CASE s = "behavior"
  <2>1. Behavior!Keep(b)
    BY <1>2, <1>a, <1>b DEF Behavior!Keep, Stores
  <2> QED
    BY <1>2, <1>a, <1>b, <2>1
       DEF StoresStep, Stores, Behavior!Next, Ledger!vars, Observation!vars
<1> QED
  BY <1>1, <1>2

LEMMA StepUsesStores == LifecycleInv /\ [Next]_vars => StoresStep
<1> SUFFICES ASSUME LifecycleInv, [Next]_vars
             PROVE  StoresStep
  OBVIOUS
<1>1. ASSUME UNCHANGED storeVars
      PROVE  StoresStep
  BY <1>1, StoresUntouched
<1>2. ASSUME NEW b \in Batches,
             \/ OpenBatch(b)
             \/ \E h \in Holders : Attach(b, h)
             \/ \E m \in Milestones :
                   BeginConsumer(b, m) \/ EndConsumer(b, m) \/ FailConsumer(b, m)
             \/ \E aborted \in BOOLEAN : BeginFinish(b, aborted)
      PROVE  UNCHANGED storeVars
  BY <1>2 DEF OpenBatch, Attach, BeginConsumer, EndConsumer, FailConsumer, BeginFinish
<1>3. ASSUME EndFinish \/ BeginCapture \/ EndCapture \/ UNCHANGED vars
      PROVE  UNCHANGED storeVars
  BY <1>3 DEF EndFinish, BeginCapture, EndCapture, vars, storeVars
<1> QED
  BY <1>1, <1>2, <1>3, ReleaseStoreStep, StartToolStep, EndToolStep, PutEvidenceStep DEF Next

(* The lifecycle composed with its producers uses three evidence stores: it  *)
(* never releases the ledger under a running execution (_finish), and what   *)
(* arrives late is rejected.                                                 *)
THEOREM LifecycleUsesEvidenceStores == Spec => UsesEvidenceStores
<1>1. Init => Ledger!Init /\ Observation!Init /\ Behavior!Init
  BY DEF Init, Ledger!Init, Observation!Init, Behavior!Init, Keeping, Told
<1>2. LifecycleInv /\ [Next]_vars
        => /\ [Ledger!Next]_(Ledger!vars)
           /\ [Observation!Next]_(Observation!vars)
           /\ [Behavior!Next]_(Behavior!vars)
  BY StepUsesStores DEF StoresStep
<1> QED
  BY <1>1, <1>2, LifecycleInvariant, PTL
     DEF Spec, UsesEvidenceStores, Ledger!Spec, Observation!Spec, Behavior!Spec

-----------------------------------------------------------------------------
(* Everything but the stores.                                                *)
managerVars == <<batchVars, gate, capturing, finishing, policyVars>>

(* Sets of stores that agree on each store are equal.                        *)
LEMMA StoreExtensionality ==
    ASSUME TypeOK, TypeOK',
           \A s \in Stores : Told(s)' = Told(s)
    PROVE  released' = released
<1>1. \A b \in Batches : \A s \in Stores : s \in released'[b] <=> s \in released[b]
  BY DEF Told
<1>2. \A b \in Batches : released'[b] = released[b]
  BY <1>1 DEF TypeOK
<1> QED
  BY <1>2 DEF TypeOK

LEMMA EvidenceExtensionality ==
    ASSUME TypeOK, TypeOK', NEW s \in Stores,
           \A other \in Stores \ {s} : Keeping(other)' = Keeping(other)
    PROVE  /\ Keeping(s)' = Keeping(s) => evidence' = evidence
           /\ \A b \in Batches :
                 Keeping(s)' = Keeping(s) \cup {b}
                   => evidence' = [evidence EXCEPT ![b] = @ \cup {s}]
<1>1. \A a \in Batches : \A other \in Stores \ {s} :
         other \in evidence'[a] <=> other \in evidence[a]
  BY DEF Keeping
<1>2. ASSUME Keeping(s)' = Keeping(s)
      PROVE  evidence' = evidence
  <2>1. \A a \in Batches : s \in evidence'[a] <=> s \in evidence[a]
    BY <1>2 DEF Keeping
  <2>2. \A a \in Batches : evidence'[a] = evidence[a]
    <3> SUFFICES ASSUME NEW a \in Batches
                 PROVE  evidence'[a] = evidence[a]
      OBVIOUS
    <3>1. evidence'[a] \subseteq Stores /\ evidence[a] \subseteq Stores
      BY DEF TypeOK
    <3>2. \A x \in Stores : x \in evidence'[a] <=> x \in evidence[a]
      BY <1>1, <2>1
    <3> QED
      BY <3>1, <3>2
  <2> QED
    BY <2>2 DEF TypeOK
<1>3. ASSUME NEW b \in Batches, Keeping(s)' = Keeping(s) \cup {b}
      PROVE  evidence' = [evidence EXCEPT ![b] = @ \cup {s}]
  <2>1. \A a \in Batches : s \in evidence'[a] <=> s \in evidence[a] \/ a = b
    BY <1>3 DEF Keeping
  <2>2. \A a \in Batches \ {b} : evidence'[a] = evidence[a]
    <3> SUFFICES ASSUME NEW a \in Batches \ {b}
                 PROVE  evidence'[a] = evidence[a]
      OBVIOUS
    <3>1. evidence'[a] \subseteq Stores /\ evidence[a] \subseteq Stores
      BY DEF TypeOK
    <3>2. \A x \in Stores : x \in evidence'[a] <=> x \in evidence[a]
      BY <1>1, <2>1
    <3> QED
      BY <3>1, <3>2
  <2>3. evidence'[b] = evidence[b] \cup {s}
    BY <1>1, <2>1 DEF TypeOK
  <2> QED
    BY <2>2, <2>3 DEF TypeOK
<1> QED
  BY <1>2, <1>3

(* The other half of the composition: whatever a store may do by itself for  *)
(* a batch that was opened is a step the lifecycle is proved against.  No    *)
(* behaviour of a tool thread or a recorder is missing from it.              *)
THEOREM ProducersAreUnrestricted ==
    ASSUME TypeOK, TypeOK', UNCHANGED managerVars,
           NEW b \in Batches, Opened(b),
           \/ /\ Ledger!Start(b) \/ Ledger!End(b)
              /\ UNCHANGED Observation!vars /\ UNCHANGED Behavior!vars
           \/ /\ Observation!Keep(b)
              /\ UNCHANGED Ledger!vars /\ UNCHANGED Behavior!vars
           \/ /\ Behavior!Keep(b)
              /\ UNCHANGED Ledger!vars /\ UNCHANGED Observation!vars
    PROVE  [Next]_vars
<1>a. UNCHANGED <<batchVars, gate, capturing, finishing, policyVars>>
  BY DEF managerVars
<1>b. released' = released
  BY StoreExtensionality
     DEF Stores, Ledger!Start, Ledger!End, Observation!Keep, Behavior!Keep,
         Ledger!vars, Observation!vars, Behavior!vars
<1>1. ASSUME Ledger!Start(b), UNCHANGED Observation!vars, UNCHANGED Behavior!vars
      PROVE  StartTool(b) \/ UNCHANGED vars
  <2>1. evidence' = evidence
    <3>1. Keeping("ledger")' = Keeping("ledger")
      BY <1>1 DEF Ledger!Start
    <3>2. \A other \in Stores \ {"ledger"} : Keeping(other)' = Keeping(other)
      BY <1>1 DEF Stores, Observation!vars, Behavior!vars
    <3> QED
      BY <3>1, <3>2, EvidenceExtensionality DEF Stores
  <2>2. "ledger" \notin released[b] /\ running' = running \cup {b}
    BY <1>1, StoreViews DEF Ledger!Start
  <2>3. CASE b \in running
    <3>1. running' = running
      BY <2>2, <2>3
    <3> QED
      BY <1>a, <1>b, <2>1, <3>1 DEF vars, batchVars, policyVars
  <2>4. CASE b \notin running
    BY <1>a, <1>b, <2>1, <2>2, <2>4 DEF StartTool
  <2> QED
    BY <2>3, <2>4
<1>2. ASSUME Ledger!End(b), UNCHANGED Observation!vars, UNCHANGED Behavior!vars
      PROVE  \E succeeded \in BOOLEAN : EndTool(b, succeeded)
  <2>1. \A other \in Stores \ {"ledger"} : Keeping(other)' = Keeping(other)
    BY <1>2 DEF Stores, Observation!vars, Behavior!vars
  <2>2. b \in running /\ running' \in {running, running \ {b}}
    BY <1>2 DEF Ledger!End
  <2>3. \/ Keeping("ledger")' = Keeping("ledger")
        \/ Keeping("ledger")' = Keeping("ledger") \cup {b}
    BY <1>2 DEF Ledger!End
  <2>4. \/ evidence' = evidence
        \/ evidence' = [evidence EXCEPT ![b] = @ \cup {"ledger"}]
    BY <2>1, <2>3, EvidenceExtensionality DEF Stores
  <2>5. CASE evidence' = evidence
    <3>1. EndTool(b, FALSE)
      BY <1>a, <1>b, <2>2, <2>5 DEF EndTool
    <3> QED
      BY <3>1
  <2>6. CASE evidence' = [evidence EXCEPT ![b] = @ \cup {"ledger"}]
    <3>1. EndTool(b, TRUE)
      BY <1>a, <1>b, <2>2, <2>6 DEF EndTool
    <3> QED
      BY <3>1
  <2> QED
    BY <2>4, <2>5, <2>6
<1>3. ASSUME Observation!Keep(b), UNCHANGED Ledger!vars, UNCHANGED Behavior!vars
      PROVE  PutEvidence(b, "observation")
  <2>1. \A other \in Stores \ {"observation"} : Keeping(other)' = Keeping(other)
    BY <1>3 DEF Stores, Ledger!vars, Behavior!vars
  <2>2. evidence' = [evidence EXCEPT ![b] = @ \cup {"observation"}]
    BY <1>3, <2>1, EvidenceExtensionality DEF Stores, Observation!Keep
  <2>3. "observation" \notin released[b] /\ running' = running
    BY <1>3, StoreViews DEF Observation!Keep, Ledger!vars
  <2> QED
    BY <1>a, <1>b, <2>2, <2>3 DEF PutEvidence
<1>4. ASSUME Behavior!Keep(b), UNCHANGED Ledger!vars, UNCHANGED Observation!vars
      PROVE  PutEvidence(b, "behavior")
  <2>1. \A other \in Stores \ {"behavior"} : Keeping(other)' = Keeping(other)
    BY <1>4 DEF Stores, Ledger!vars, Observation!vars
  <2>2. evidence' = [evidence EXCEPT ![b] = @ \cup {"behavior"}]
    BY <1>4, <2>1, EvidenceExtensionality DEF Stores, Behavior!Keep
  <2>3. "behavior" \notin released[b] /\ running' = running
    BY <1>4, StoreViews DEF Behavior!Keep, Ledger!vars
  <2> QED
    BY <1>a, <1>b, <2>2, <2>3 DEF PutEvidence
<1> QED
  BY <1>1, <1>2, <1>3, <1>4 DEF Next

=============================================================================
