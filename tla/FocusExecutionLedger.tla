------------------------ MODULE FocusExecutionLedger ------------------------
(***************************************************************************)
(* The execute-once ledger of tool calls (environment/focus_runtime.py; the *)
(* crop ledger of environment/crop_runtime.py is the same code).  Rollout   *)
(* threads call execute_once for a (trajectory, call index) key: the first  *)
(* caller runs the operation without the lock, the others sleep on the      *)
(* condition until it succeeds or fails.  The batch manager releases        *)
(* trajectories at any time.                                                *)
(*                                                                          *)
(* One turn of the loop under the lock is one action, and so is the section *)
(* that ends a run, with the wake-up in it.  A handle is modelled as the    *)
(* number of the execution that made it.                                    *)
(***************************************************************************)
EXTENDS Naturals, FiniteSets

CONSTANTS
    Threads,        \* callers of execute_once
    Keys,           \* (trajectory, call index) pairs
    Trajectories,   \* trajectory identities
    TrajOf,         \* key[0]
    Fingerprints,   \* digests of a call's content
    MaxFailures,    \* bound on the operations that raise, per key
    None            \* no entry

ASSUME TrajOfAssumption == TrajOf \in [Keys -> Trajectories]
ASSUME MaxFailuresAssumption == MaxFailures \in Nat

(* _LedgerEntry; handle 0 is no handle.  An entry that no longer runs has a *)
(* handle: execute_once asserts it.                                         *)
Entry ==
    {e \in [fingerprint : Fingerprints, running : BOOLEAN, handle : Nat] :
        ~ e.running => e.handle # 0}

ASSUME NoneAssumption == None \notin Entry

VARIABLES
    entries,    \* _entries
    released,   \* _released_trajectory_ids
    pc,         \* where each thread is in execute_once
    call,       \* the key and fingerprint each thread passed last
    successes,  \* history: operations that returned a handle, per key
    failures,   \* history: operations that raised, per key
    answers     \* history: the handles given for a key, with the fingerprint

vars == <<entries, released, pc, call, successes, failures, answers>>
history == <<successes, failures, answers>>

Call == [key : Keys, fingerprint : Fingerprints]

TypeOK ==
    /\ entries \in [Keys -> Entry \cup {None}]
    /\ released \in SUBSET Trajectories
    /\ pc \in [Threads -> {"outside", "locking", "waiting", "running"}]
    /\ call \in [Threads -> Call]
    /\ successes \in [Keys -> Nat]
    /\ failures \in [Keys -> 0 .. MaxFailures]
    /\ answers \in [Keys -> SUBSET (Fingerprints \X Nat)]

Init ==
    /\ entries = [k \in Keys |-> None]
    /\ released = {}
    /\ pc = [th \in Threads |-> "outside"]
    /\ call \in [Threads -> Call]
    /\ successes = [k \in Keys |-> 0]
    /\ failures = [k \in Keys |-> 0]
    /\ answers = [k \in Keys |-> {}]

-----------------------------------------------------------------------------
Goto(th, place) == pc' = [pc EXCEPT ![th] = place]

(* notify_all: every sleeper goes back to the lock; th goes elsewhere.      *)
WakeAll == [th \in Threads |-> IF pc[th] = "waiting" THEN "locking" ELSE pc[th]]
WakeAllAnd(th, place) == pc' = [WakeAll EXCEPT ![th] = place]

(* The entry a thread asked for, and whether its trajectory was released.   *)
EntryOf(th) == entries[call[th].key]
CallReleased(th) == TrajOf[call[th].key] \in released

(* A caller enters execute_once.                                            *)
Enter(th, c) ==
    /\ pc[th] = "outside"
    /\ call' = [call EXCEPT ![th] = c]
    /\ Goto(th, "locking")
    /\ UNCHANGED <<entries, released, history>>

(* The loop raises: the trajectory was released, or the key has other       *)
(* content.                                                                 *)
Reject(th) ==
    /\ pc[th] = "locking"
    /\ \/ CallReleased(th)
       \/ EntryOf(th) # None /\ EntryOf(th).fingerprint # call[th].fingerprint
    /\ Goto(th, "outside")
    /\ UNCHANGED <<entries, released, call, history>>

(* Mutant: the loop looks at the entry before it looks at the release.      *)
AdmitReleased(th) ==
    /\ pc[th] = "locking"
    /\ EntryOf(th) = None
    /\ entries' = [entries EXCEPT ![call[th].key] =
                      [fingerprint |-> call[th].fingerprint, running |-> TRUE, handle |-> 0]]
    /\ Goto(th, "running")
    /\ UNCHANGED <<released, call, history>>

(* The loop admits: this caller runs the operation.                         *)
Admit(th) ==
    /\ pc[th] = "locking"
    /\ ~ CallReleased(th)
    /\ EntryOf(th) = None
    /\ entries' = [entries EXCEPT ![call[th].key] =
                      [fingerprint |-> call[th].fingerprint, running |-> TRUE, handle |-> 0]]
    /\ Goto(th, "running")
    /\ UNCHANGED <<released, call, history>>

Matches(th) ==
    EntryOf(th) # None /\ EntryOf(th).fingerprint = call[th].fingerprint

(* The loop returns the handle of a finished entry.                         *)
Answer(th) ==
    /\ pc[th] = "locking"
    /\ ~ CallReleased(th)
    /\ Matches(th)
    /\ ~ EntryOf(th).running
    /\ answers' = [answers EXCEPT ![call[th].key] =
                      @ \cup {<<call[th].fingerprint, EntryOf(th).handle>>}]
    /\ Goto(th, "outside")
    /\ UNCHANGED <<entries, released, call, successes, failures>>

(* The loop sleeps on the condition.                                        *)
Wait(th) ==
    /\ pc[th] = "locking"
    /\ ~ CallReleased(th)
    /\ Matches(th)
    /\ EntryOf(th).running
    /\ Goto(th, "waiting")
    /\ UNCHANGED <<entries, released, call, history>>

(* Mutant: the handle is published but nobody is notified.                   *)
SucceedQuietly(th) ==
    LET k == call[th].key
        handle == successes[k] + 1
    IN  /\ pc[th] = "running"
        /\ entries[k] # None
        /\ entries' = [entries EXCEPT ![k].handle = handle, ![k].running = FALSE]
        /\ successes' = [successes EXCEPT ![k] = handle]
        /\ answers' = [answers EXCEPT ![k] = @ \cup {<<call[th].fingerprint, handle>>}]
        /\ Goto(th, "outside")
        /\ UNCHANGED <<released, call, failures>>

(* The operation returned: publish its handle and wake the sleepers.        *)
Succeed(th) ==
    LET k == call[th].key
        handle == successes[k] + 1
    IN  /\ pc[th] = "running"
        /\ entries[k] # None
        /\ entries' = [entries EXCEPT ![k].handle = handle, ![k].running = FALSE]
        /\ successes' = [successes EXCEPT ![k] = handle]
        /\ answers' = [answers EXCEPT ![k] = @ \cup {<<call[th].fingerprint, handle>>}]
        /\ WakeAllAnd(th, "outside")
        /\ UNCHANGED <<released, call, failures>>

(* The operation raised: forget the entry and wake the sleepers, one of     *)
(* which will run its own operation.                                        *)
Fail(th) ==
    LET k == call[th].key
    IN  /\ pc[th] = "running"
        /\ failures[k] < MaxFailures
        /\ entries' = [entries EXCEPT ![k] = None]
        /\ failures' = [failures EXCEPT ![k] = @ + 1]
        /\ WakeAllAnd(th, "outside")
        /\ UNCHANGED <<released, call, successes, answers>>

(* assert_releasable                                                        *)
Releasable(ids) ==
    \A k \in Keys : TrajOf[k] \in ids /\ entries[k] # None => ~ entries[k].running

(* Mutant: the released identities are not remembered.                       *)
ReleaseForgetful(ids) ==
    /\ Releasable(ids)
    /\ entries' = [k \in Keys |-> IF TrajOf[k] \in ids THEN None ELSE entries[k]]
    /\ pc' = WakeAll
    /\ UNCHANGED <<released, call, history>>

(* release_trajectories                                                     *)
ReleaseTrajectories(ids) ==
    /\ Releasable(ids)
    /\ entries' = [k \in Keys |-> IF TrajOf[k] \in ids THEN None ELSE entries[k]]
    /\ released' = released \cup ids
    /\ pc' = WakeAll
    /\ UNCHANGED <<call, history>>

Step(th) ==
    \/ Reject(th)
    \/ Admit(th)
    \/ Answer(th)
    \/ Wait(th)
    \/ Succeed(th)
    \/ Fail(th)

Next ==
    \/ \E th \in Threads, c \in Call : Enter(th, c)
    \/ \E th \in Threads : Step(th)
    \/ \E ids \in SUBSET Trajectories \ {{}} : ReleaseTrajectories(ids)

Spec == Init /\ [][Next]_vars

(* A thread that has work under the lock gets the lock, and an operation    *)
(* ends: it is a bounded forward pass.  Callers may stop calling.           *)
Fairness == \A th \in Threads : WF_vars(Step(th))

FairSpec == Spec /\ Fairness

-----------------------------------------------------------------------------
(* An operation runs for at most one caller of a key at a time, and the     *)
(* entry it will complete is still the one that caller made: the lookup     *)
(* after the operation cannot fail (focus_runtime.py:281).                  *)
RunnerOwnsEntry ==
    \A th \in Threads : pc[th] = "running" =>
       /\ EntryOf(th) = [fingerprint |-> call[th].fingerprint, running |-> TRUE, handle |-> 0]
       /\ \A other \in Threads \ {th} : pc[other] = "running" => call[other].key # call[th].key

(* An operation succeeds at most once per key, whatever fails, retries or   *)
(* is released in between, and everybody is given that one result, for the  *)
(* content it was computed from (focus_runtime.py:262).                     *)
ExecuteOnce ==
    \A k \in Keys : successes[k] <= 1 /\ Cardinality(answers[k]) <= 1

(* No wake-up is lost: somebody runs the operation a sleeper waits for, and  *)
(* will notify it (focus_runtime.py:270).                                   *)
NoLostWakeup ==
    \A th \in Threads : pc[th] = "waiting" =>
       \E runner \in Threads : pc[runner] = "running" /\ call[runner].key = call[th].key

(* Once its trajectories are released nothing runs for them and nothing is  *)
(* kept for them: no tool result can appear after the release               *)
(* (focus_runtime.py:303).                                                  *)
ReleasedIsQuiet ==
    /\ \A k \in Keys : TrajOf[k] \in released => entries[k] = None
    /\ \A th \in Threads : pc[th] = "running" => ~ CallReleased(th)

(* Every call ends: with a handle or with an exception.                     *)
EveryCallEnds ==
    \A th \in Threads : pc[th] # "outside" ~> pc[th] = "outside"

(* What makes these inductive: a running entry has a runner, a sleeper's    *)
(* entry runs, and what was answered is what the entry holds until the      *)
(* trajectory is released.                                                  *)
RunningHasRunner ==
    \A k \in Keys : entries[k] # None /\ entries[k].running =>
       \E th \in Threads : pc[th] = "running" /\ call[th].key = k

SleeperEntryRuns ==
    \A th \in Threads : pc[th] = "waiting" => EntryOf(th) # None /\ EntryOf(th).running

NotYetExecuted(k) ==
    /\ successes[k] = 0
    /\ answers[k] = {}
    /\ entries[k] = None \/ entries[k].running

Executed(k) ==
    /\ successes[k] = 1
    /\ \E fp \in Fingerprints :
          /\ answers[k] = {<<fp, 1>>}
          /\ \/ TrajOf[k] \in released
             \/ entries[k] = [fingerprint |-> fp, running |-> FALSE, handle |-> 1]

LedgerInv ==
    /\ TypeOK
    /\ RunnerOwnsEntry
    /\ RunningHasRunner
    /\ SleeperEntryRuns
    /\ ReleasedIsQuiet
    /\ \A k \in Keys : NotYetExecuted(k) \/ Executed(k)

(* What the batch manager sees of the ledger: the trajectories with a        *)
(* finished entry, those with a running one, and those it released.          *)
FinishedFor == {TrajOf[k] : k \in {e \in Keys : entries[e] # None /\ ~ entries[e].running}}
RunningFor == {TrajOf[k] : k \in {e \in Keys : entries[e] # None /\ entries[e].running}}

Evidence ==
    INSTANCE EvidenceStore
        WITH Units <- Trajectories, kept <- FinishedFor, busy <- RunningFor, closed <- released

(* The ledger is the one the lifecycle relies on: while callers wait, fail   *)
(* and retry, no execution starts for a released trajectory, and none is     *)
(* released while it runs (focus_runtime.py:262, 303).                       *)
ImplementsEvidenceStore == Evidence!Spec

=============================================================================
