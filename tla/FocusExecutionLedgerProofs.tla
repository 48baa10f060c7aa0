--------------------- MODULE FocusExecutionLedgerProofs ---------------------
(* The safety of the execute-once ledger, for any number of callers, keys    *)
(* and failures.                                                             *)
EXTENDS FocusExecutionLedger, FiniteSetTheorems, TLAPS

(* A caller waits at one place, and waking the sleepers moves nobody else.   *)
LEMMA WakeProperties ==
    ASSUME TypeOK
    PROVE  /\ WakeAll \in [Threads -> {"outside", "locking", "waiting", "running"}]
           /\ \A th \in Threads : WakeAll[th] # "waiting"
           /\ \A th \in Threads : WakeAll[th] = "running" <=> pc[th] = "running"
BY DEF TypeOK, WakeAll

LEMMA CallTypes ==
    ASSUME TypeOK, NEW th \in Threads
    PROVE  /\ call[th].key \in Keys
           /\ call[th].fingerprint \in Fingerprints
           /\ TrajOf[call[th].key] \in Trajectories
           /\ EntryOf(th) # None => EntryOf(th) \in Entry
BY TrajOfAssumption DEF TypeOK, Call, EntryOf

(* The entries the ledger makes: one that runs, one that has its handle.     *)
LEMMA EntryValues ==
    ASSUME NEW fp \in Fingerprints
    PROVE  /\ [fingerprint |-> fp, running |-> TRUE, handle |-> 0] \in Entry \ {None}
           /\ [fingerprint |-> fp, running |-> FALSE, handle |-> 1] \in Entry \ {None}
<1>1. [fingerprint |-> fp, running |-> TRUE, handle |-> 0]
         \in [fingerprint : Fingerprints, running : BOOLEAN, handle : Nat]
  OBVIOUS
<1>2. [fingerprint |-> fp, running |-> FALSE, handle |-> 1]
         \in [fingerprint : Fingerprints, running : BOOLEAN, handle : Nat]
  OBVIOUS
<1>3. /\ [fingerprint |-> fp, running |-> TRUE, handle |-> 0].running
      /\ [fingerprint |-> fp, running |-> FALSE, handle |-> 1].handle # 0
  OBVIOUS
<1>4. /\ [fingerprint |-> fp, running |-> TRUE, handle |-> 0] \in Entry
      /\ [fingerprint |-> fp, running |-> FALSE, handle |-> 1] \in Entry
  BY <1>1, <1>2, <1>3, Zenon DEF Entry
<1> QED
  BY <1>4, NoneAssumption

LEMMA InitLedgerInv == Init => LedgerInv
<1> SUFFICES ASSUME Init
             PROVE  LedgerInv
  OBVIOUS
<1>1. TypeOK
  BY MaxFailuresAssumption DEF Init, TypeOK
<1>2. RunnerOwnsEntry /\ RunningHasRunner /\ SleeperEntryRuns /\ ReleasedIsQuiet
  BY DEF Init, RunnerOwnsEntry, RunningHasRunner, SleeperEntryRuns, ReleasedIsQuiet,
         EntryOf, CallReleased
<1>3. \A k \in Keys : NotYetExecuted(k)
  BY DEF Init, NotYetExecuted
<1> QED
  BY <1>1, <1>2, <1>3 DEF LedgerInv

-----------------------------------------------------------------------------
(* Steps of one caller that change nothing but where it is.                  *)
LEMMA EnterLedgerInv ==
    ASSUME LedgerInv, NEW th \in Threads, NEW c \in Call, Enter(th, c)
    PROVE  LedgerInv'
<1> USE DEF LedgerInv, Enter, Goto, history, EntryOf, CallReleased
<1>1. TypeOK'
  BY DEF TypeOK
<1>2. RunnerOwnsEntry' /\ RunningHasRunner' /\ SleeperEntryRuns' /\ ReleasedIsQuiet'
  BY DEF TypeOK, RunnerOwnsEntry, RunningHasRunner, SleeperEntryRuns, ReleasedIsQuiet
<1>3. \A k \in Keys : (NotYetExecuted(k) \/ Executed(k))'
  BY DEF NotYetExecuted, Executed
<1> QED
  BY <1>1, <1>2, <1>3

LEMMA RejectLedgerInv ==
    ASSUME LedgerInv, NEW th \in Threads, Reject(th)
    PROVE  LedgerInv'
<1> USE DEF LedgerInv, Reject, Goto, history, EntryOf, CallReleased
<1>1. TypeOK'
  BY DEF TypeOK
<1>2. RunnerOwnsEntry' /\ RunningHasRunner' /\ SleeperEntryRuns' /\ ReleasedIsQuiet'
  BY DEF TypeOK, RunnerOwnsEntry, RunningHasRunner, SleeperEntryRuns, ReleasedIsQuiet
<1>3. \A k \in Keys : (NotYetExecuted(k) \/ Executed(k))'
  BY DEF NotYetExecuted, Executed
<1> QED
  BY <1>1, <1>2, <1>3

LEMMA WaitLedgerInv ==
    ASSUME LedgerInv, NEW th \in Threads, Wait(th)
    PROVE  LedgerInv'
<1> USE DEF LedgerInv, Wait, Goto, history, EntryOf, CallReleased, Matches
<1>1. TypeOK'
  BY DEF TypeOK
<1>2. RunnerOwnsEntry' /\ RunningHasRunner' /\ SleeperEntryRuns' /\ ReleasedIsQuiet'
  BY DEF TypeOK, RunnerOwnsEntry, RunningHasRunner, SleeperEntryRuns, ReleasedIsQuiet
<1>3. \A k \in Keys : (NotYetExecuted(k) \/ Executed(k))'
  BY DEF NotYetExecuted, Executed
<1> QED
  BY <1>1, <1>2, <1>3

(* The first caller of a key creates its entry: nobody runs that key, or     *)
(* there would be an entry, and it was not executed, or it would be kept.    *)
LEMMA AdmitLedgerInv ==
    ASSUME LedgerInv, NEW th \in Threads, Admit(th)
    PROVE  LedgerInv'
<1> DEFINE k == call[th].key
           new == [fingerprint |-> call[th].fingerprint, running |-> TRUE, handle |-> 0]
<1> USE DEF LedgerInv, Admit, Goto, EntryOf, CallReleased
<1>a. k \in Keys /\ call[th].fingerprint \in Fingerprints
  BY CallTypes
<1>b. new \in Entry /\ new # None
  BY <1>a, EntryValues
<1>1. TypeOK'
  BY <1>a, <1>b DEF TypeOK, history
<1>2. RunnerOwnsEntry'
  <2>1. \A other \in Threads : pc[other] = "running" => call[other].key # k
    BY CallTypes, EntryValues DEF RunnerOwnsEntry
  <2> QED
    BY <1>a, <2>1, CallTypes DEF TypeOK, RunnerOwnsEntry
<1>3. RunningHasRunner'
  BY <1>a DEF TypeOK, RunningHasRunner
<1>4. SleeperEntryRuns'
  BY <1>a, <1>b DEF TypeOK, SleeperEntryRuns
<1>5. ReleasedIsQuiet'
  BY <1>a DEF TypeOK, ReleasedIsQuiet
<1>6. \A key \in Keys : (NotYetExecuted(key) \/ Executed(key))'
  <2> SUFFICES ASSUME NEW key \in Keys
               PROVE  (NotYetExecuted(key) \/ Executed(key))'
    OBVIOUS
  <2>0. UNCHANGED <<successes, answers, released>>
    BY DEF history
  <2>1. CASE key = k
    <3>1. NotYetExecuted(k)
      BY <1>a, EntryValues DEF Executed
    <3> QED
      BY <1>a, <2>0, <2>1, <3>1 DEF TypeOK, NotYetExecuted
  <2>2. CASE key # k
    BY <2>0, <2>2 DEF TypeOK, NotYetExecuted, Executed
  <2> QED
    BY <2>1, <2>2
<1> QED
  BY <1>1, <1>2, <1>3, <1>4, <1>5, <1>6

(* A finished entry holds the one handle: answering repeats it.              *)
LEMMA AnswerLedgerInv ==
    ASSUME LedgerInv, NEW th \in Threads, Answer(th)
    PROVE  LedgerInv'
<1> DEFINE k == call[th].key
<1> USE DEF LedgerInv, Answer, Goto, EntryOf, CallReleased, Matches
<1>a. k \in Keys /\ call[th].fingerprint \in Fingerprints
  BY CallTypes
<1>b. /\ answers[k] = {<<call[th].fingerprint, 1>>}
      /\ EntryOf(th).handle = 1
      /\ answers' = answers
  <2>1. Executed(k)
    BY <1>a DEF NotYetExecuted
  <2>2. PICK fp \in Fingerprints :
          /\ answers[k] = {<<fp, 1>>}
          /\ entries[k] = [fingerprint |-> fp, running |-> FALSE, handle |-> 1]
    BY <2>1 DEF Executed
  <2>3. answers \in [Keys -> SUBSET (Fingerprints \X Nat)]
    BY DEF TypeOK
  <2> QED
    BY <1>a, <2>2, <2>3
<1>1. TypeOK'
  BY <1>b DEF TypeOK
<1>2. RunnerOwnsEntry' /\ RunningHasRunner' /\ SleeperEntryRuns' /\ ReleasedIsQuiet'
  BY DEF TypeOK, RunnerOwnsEntry, RunningHasRunner, SleeperEntryRuns, ReleasedIsQuiet
<1>3. \A key \in Keys : (NotYetExecuted(key) \/ Executed(key))'
  <2>1. UNCHANGED <<entries, released, successes, answers>>
    BY <1>b
  <2>2. ASSUME NEW key \in Keys
        PROVE  /\ NotYetExecuted(key) => NotYetExecuted(key)'
               /\ Executed(key) => Executed(key)'
    BY <2>1, Zenon DEF NotYetExecuted, Executed
  <2> QED
    BY <2>2
<1> QED
  BY <1>1, <1>2, <1>3

-----------------------------------------------------------------------------
(* A successful operation completes the entry its caller made, for the first *)
(* time, and wakes everybody.                                                *)
LEMMA SucceedLedgerInv ==
    ASSUME LedgerInv, NEW th \in Threads, Succeed(th)
    PROVE  LedgerInv'
<1> DEFINE k == call[th].key
           fp == call[th].fingerprint
           done == [fingerprint |-> fp, running |-> FALSE, handle |-> 1]
<1> USE DEF LedgerInv, EntryOf, CallReleased
<1>a. k \in Keys /\ fp \in Fingerprints /\ TrajOf[k] \notin released
  BY CallTypes DEF Succeed, ReleasedIsQuiet
<1>b. entries[k] = [fingerprint |-> fp, running |-> TRUE, handle |-> 0]
  BY DEF Succeed, RunnerOwnsEntry
<1>c. successes[k] = 0 /\ answers[k] = {}
  <2>1. ~ Executed(k)
    <3>1. entries[k].running
      BY <1>b
    <3>2. \A f \in Fingerprints :
             ~ [fingerprint |-> f, running |-> FALSE, handle |-> 1].running
      OBVIOUS
    <3> QED
      BY <1>a, <3>1, <3>2, Zenon DEF Executed
  <2> QED
    BY <1>a, <2>1 DEF NotYetExecuted
<1>d. /\ entries' = [entries EXCEPT ![k] = done]
      /\ successes' = [successes EXCEPT ![k] = 1]
      /\ answers' = [answers EXCEPT ![k] = {<<fp, 1>>}]
      /\ pc' = [WakeAll EXCEPT ![th] = "outside"]
      /\ UNCHANGED <<released, call, failures>>
  <2>1. successes[k] + 1 = 1
    BY <1>c
  <2>2. [entries EXCEPT ![k].handle = 1, ![k].running = FALSE] = [entries EXCEPT ![k] = done]
    BY <1>a, <1>b DEF TypeOK
  <2>3. [answers EXCEPT ![k] = @ \cup {<<fp, 1>>}] = [answers EXCEPT ![k] = {<<fp, 1>>}]
    BY <1>a, <1>c DEF TypeOK
  <2> QED
    BY <2>1, <2>2, <2>3 DEF Succeed, WakeAllAnd
<1>e. done \in Entry /\ done # None
  BY <1>a, EntryValues
<1>f. \A other \in Threads :
         /\ pc'[other] # "waiting"
         /\ pc'[other] = "running" => pc[other] = "running" /\ other # th
  BY <1>d, WakeProperties DEF TypeOK
<1>g. \A other \in Threads : pc[other] = "running" /\ other # th => pc'[other] = "running"
  BY <1>d, WakeProperties DEF TypeOK
<1>h. \A other \in Threads : pc'[other] = "running" => call[other].key # k
  BY <1>f DEF RunnerOwnsEntry, Succeed
<1>1. TypeOK'
  BY <1>a, <1>d, <1>e, WakeProperties DEF TypeOK
<1>2. RunnerOwnsEntry'
  BY <1>a, <1>d, <1>f, <1>h, CallTypes DEF TypeOK, RunnerOwnsEntry
<1>3. RunningHasRunner'
  BY <1>a, <1>d, <1>g DEF TypeOK, RunningHasRunner
<1>4. SleeperEntryRuns'
  BY <1>f DEF SleeperEntryRuns
<1>5. ReleasedIsQuiet'
  BY <1>a, <1>d, <1>f DEF TypeOK, ReleasedIsQuiet
<1>6. \A key \in Keys : (NotYetExecuted(key) \/ Executed(key))'
  <2> SUFFICES ASSUME NEW key \in Keys
               PROVE  (NotYetExecuted(key) \/ Executed(key))'
    OBVIOUS
  <2>1. CASE key = k
    BY <1>a, <1>d, <2>1 DEF TypeOK, Executed
  <2>2. CASE key # k
    BY <1>d, <2>2 DEF TypeOK, NotYetExecuted, Executed
  <2> QED
    BY <2>1, <2>2
<1> QED
  BY <1>1, <1>2, <1>3, <1>4, <1>5, <1>6

(* A failed operation takes its own entry away and wakes everybody.          *)
LEMMA FailLedgerInv ==
    ASSUME LedgerInv, NEW th \in Threads, Fail(th)
    PROVE  LedgerInv'
<1> DEFINE k == call[th].key
<1> USE DEF LedgerInv, EntryOf, CallReleased
<1>a. k \in Keys /\ TrajOf[k] \notin released
  BY CallTypes DEF Fail, ReleasedIsQuiet
<1>b. entries[k] = [fingerprint |-> call[th].fingerprint, running |-> TRUE, handle |-> 0]
  BY DEF Fail, RunnerOwnsEntry
<1>d. /\ entries' = [entries EXCEPT ![k] = None]
      /\ failures' = [failures EXCEPT ![k] = failures[k] + 1]
      /\ failures[k] < MaxFailures
      /\ pc' = [WakeAll EXCEPT ![th] = "outside"]
      /\ UNCHANGED <<released, call, successes, answers>>
  BY <1>a DEF Fail, WakeAllAnd
<1>f. \A other \in Threads :
         /\ pc'[other] # "waiting"
         /\ pc'[other] = "running" => pc[other] = "running" /\ other # th
  BY <1>d, WakeProperties DEF TypeOK
<1>g. \A other \in Threads : pc[other] = "running" /\ other # th => pc'[other] = "running"
  BY <1>d, WakeProperties DEF TypeOK
<1>h. \A other \in Threads : pc'[other] = "running" => call[other].key # k
  BY <1>f DEF RunnerOwnsEntry, Fail
<1>1. TypeOK'
  BY <1>a, <1>d, WakeProperties, MaxFailuresAssumption DEF TypeOK
<1>2. RunnerOwnsEntry'
  BY <1>a, <1>d, <1>f, <1>h, CallTypes DEF TypeOK, RunnerOwnsEntry
<1>3. RunningHasRunner'
  BY <1>a, <1>d, <1>g DEF TypeOK, RunningHasRunner
<1>4. SleeperEntryRuns'
  BY <1>f DEF SleeperEntryRuns
<1>5. ReleasedIsQuiet'
  BY <1>a, <1>d, <1>f DEF TypeOK, ReleasedIsQuiet
<1>6. \A key \in Keys : (NotYetExecuted(key) \/ Executed(key))'
  <2> SUFFICES ASSUME NEW key \in Keys
               PROVE  (NotYetExecuted(key) \/ Executed(key))'
    OBVIOUS
  <2>1. CASE key = k
    BY <1>a, <1>b, <1>d, <2>1 DEF TypeOK, NotYetExecuted, Executed
  <2>2. CASE key # k
    BY <1>d, <2>2 DEF TypeOK, NotYetExecuted, Executed
  <2> QED
    BY <2>1, <2>2
<1> QED
  BY <1>1, <1>2, <1>3, <1>4, <1>5, <1>6

(* A release finds nothing running for its trajectories.                     *)
LEMMA ReleaseLedgerInv ==
    ASSUME LedgerInv, NEW ids \in SUBSET Trajectories, ReleaseTrajectories(ids)
    PROVE  LedgerInv'
<1> USE DEF LedgerInv, EntryOf, CallReleased
<1>a. /\ entries' = [k \in Keys |-> IF TrajOf[k] \in ids THEN None ELSE entries[k]]
      /\ released' = released \cup ids
      /\ pc' = WakeAll
      /\ UNCHANGED <<call, successes, failures, answers>>
  BY DEF ReleaseTrajectories, history
<1>b. \A th \in Threads : pc[th] = "running" => TrajOf[call[th].key] \notin ids
  <2> SUFFICES ASSUME NEW th \in Threads, pc[th] = "running"
               PROVE  TrajOf[call[th].key] \notin ids
    OBVIOUS
  <2>1. call[th].key \in Keys /\ call[th].fingerprint \in Fingerprints
    BY CallTypes
  <2>2. entries[call[th].key]
           = [fingerprint |-> call[th].fingerprint, running |-> TRUE, handle |-> 0]
    BY DEF RunnerOwnsEntry
  <2>3. entries[call[th].key].running
    BY <2>2
  <2>4. entries[call[th].key] # None
    BY <2>1, <2>2, EntryValues
  <2> QED
    BY <2>1, <2>3, <2>4 DEF ReleaseTrajectories, Releasable
<1>c. \A th \in Threads :
         /\ pc'[th] # "waiting"
         /\ pc'[th] = "running" <=> pc[th] = "running"
  BY <1>a, WakeProperties
<1>1. TypeOK'
  BY <1>a, WakeProperties DEF TypeOK
<1>2. RunnerOwnsEntry'
  BY <1>a, <1>b, <1>c, CallTypes DEF RunnerOwnsEntry
<1>3. RunningHasRunner'
  BY <1>a, <1>c DEF RunningHasRunner
<1>4. SleeperEntryRuns'
  BY <1>c DEF SleeperEntryRuns
<1>5. ReleasedIsQuiet'
  BY <1>a, <1>b, <1>c, CallTypes DEF ReleasedIsQuiet
<1>6. \A k \in Keys : (NotYetExecuted(k) \/ Executed(k))'
  BY <1>a DEF NotYetExecuted, Executed
<1> QED
  BY <1>1, <1>2, <1>3, <1>4, <1>5, <1>6

LEMMA NextLedgerInv == LedgerInv /\ [Next]_vars => LedgerInv'
<1> SUFFICES ASSUME LedgerInv, [Next]_vars
             PROVE  LedgerInv'
  OBVIOUS
<1>1. ASSUME NEW th \in Threads, Step(th)
      PROVE  LedgerInv'
  BY <1>1, RejectLedgerInv, AdmitLedgerInv, AnswerLedgerInv, WaitLedgerInv,
     SucceedLedgerInv, FailLedgerInv DEF Step
<1>2. CASE UNCHANGED vars
  BY <1>2 DEF vars, LedgerInv, TypeOK, RunnerOwnsEntry, RunningHasRunner, SleeperEntryRuns,
              ReleasedIsQuiet, NotYetExecuted, Executed, EntryOf, CallReleased
<1> QED
  BY <1>1, <1>2, EnterLedgerInv, ReleaseLedgerInv DEF Next

-----------------------------------------------------------------------------
(* The invariant of the ledger holds in every state.                         *)
THEOREM LedgerInvariant == Spec => []LedgerInv
<1> QED
  BY InitLedgerInv, NextLedgerInv, PTL DEF Spec

(* Types are preserved, and no finished entry lacks a handle.                *)
THEOREM LedgerTypeCorrect == Spec => []TypeOK
<1>1. LedgerInv => TypeOK
  BY DEF LedgerInv
<1> QED
  BY <1>1, LedgerInvariant, PTL

(* The caller that runs an operation owns the entry until it ends.           *)
THEOREM RunnersOwnTheirEntries == Spec => []RunnerOwnsEntry
<1>1. LedgerInv => RunnerOwnsEntry
  BY DEF LedgerInv
<1> QED
  BY <1>1, LedgerInvariant, PTL

(* One success and one answer per key, across failures and releases.         *)
THEOREM ExecutedAtMostOnce == Spec => []ExecuteOnce
<1>1. LedgerInv => ExecuteOnce
  <2> SUFFICES ASSUME LedgerInv, NEW k \in Keys
               PROVE  successes[k] <= 1 /\ Cardinality(answers[k]) <= 1
    BY DEF ExecuteOnce
  <2>1. CASE NotYetExecuted(k)
    BY <2>1, FS_EmptySet DEF NotYetExecuted
  <2>2. CASE Executed(k)
    <3>1. \A x : Cardinality({x}) = 1
      BY FS_Singleton
    <3>2. PICK fp \in Fingerprints : answers[k] = {<<fp, 1>>}
      BY <2>2 DEF Executed
    <3>3. Cardinality(answers[k]) = 1
      BY <3>1, <3>2
    <3> QED
      BY <2>2, <3>3 DEF Executed
  <2> QED
    BY <2>1, <2>2 DEF LedgerInv
<1> QED
  BY <1>1, LedgerInvariant, PTL

(* A sleeping caller has somebody who will wake it.                          *)
THEOREM SleepersHaveRunners == Spec => []NoLostWakeup
<1>1. LedgerInv => NoLostWakeup
  <2> SUFFICES ASSUME LedgerInv, NEW th \in Threads, pc[th] = "waiting"
               PROVE  \E runner \in Threads :
                         pc[runner] = "running" /\ call[runner].key = call[th].key
    BY DEF NoLostWakeup
  <2>1. call[th].key \in Keys
    BY CallTypes DEF LedgerInv
  <2> QED
    BY <2>1 DEF LedgerInv, SleeperEntryRuns, RunningHasRunner, EntryOf
<1> QED
  BY <1>1, LedgerInvariant, PTL

(* A released trajectory has no entry and nothing running.                   *)
THEOREM ReleasedStaysQuiet == Spec => []ReleasedIsQuiet
<1>1. LedgerInv => ReleasedIsQuiet
  BY DEF LedgerInv
<1> QED
  BY <1>1, LedgerInvariant, PTL

-----------------------------------------------------------------------------
(* Which trajectories have an entry that runs, or one that has finished.     *)
LEMMA RunningForEntries ==
    ASSUME NEW t
    PROVE  t \in RunningFor
             <=> \E k \in Keys : entries[k] # None /\ entries[k].running /\ TrajOf[k] = t
BY DEF RunningFor

(* An entry that stops running leaves the others of its trajectory alone.    *)
LEMMA EntryStops ==
    ASSUME LedgerInv, NEW k \in Keys, NEW e, e = None \/ ~ e.running,
           entries' = [entries EXCEPT ![k] = e]
    PROVE  RunningFor' \in {RunningFor, RunningFor \ {TrajOf[k]}}
<1> DEFINE Others(t) ==
              \E x \in Keys \ {k} : entries[x] # None /\ entries[x].running /\ TrajOf[x] = t
<1>b. entries'[k] = e /\ \A x \in Keys \ {k} : entries'[x] = entries[x]
  BY DEF LedgerInv, TypeOK
<1>1. \A t : t \in RunningFor' <=> Others(t)
  BY <1>b DEF RunningFor
<1>2. \A t : t # TrajOf[k] => (t \in RunningFor <=> Others(t))
  BY DEF RunningFor
<1>3. \A t : Others(t) => t \in RunningFor
  BY DEF RunningFor
<1> HIDE DEF Others
<1>4. CASE Others(TrajOf[k])
  <2>1. RunningFor' = RunningFor
    <3>1. \A t : t \in RunningFor' <=> t \in RunningFor
      BY <1>1, <1>2, <1>3, <1>4
    <3> QED
      BY <3>1
  <2> QED
    BY <2>1
<1>5. CASE ~ Others(TrajOf[k])
  <2>1. RunningFor' = RunningFor \ {TrajOf[k]}
    <3>1. \A t : t \in RunningFor' <=> t \in RunningFor /\ t # TrajOf[k]
      BY <1>1, <1>2, <1>5
    <3> QED
      BY <3>1
  <2> QED
    BY <2>1
<1> QED
  BY <1>4, <1>5

(* The fields of a finished and of a running entry.                          *)
LEMMA EntryRuns ==
    ASSUME NEW k \in Keys, NEW fp \in Fingerprints
    PROVE  /\ entries[k] = [fingerprint |-> fp, running |-> TRUE, handle |-> 0]
                => entries[k] # None /\ entries[k].running
           /\ entries[k] = [fingerprint |-> fp, running |-> FALSE, handle |-> 1]
                => entries[k] # None /\ ~ entries[k].running
<1>1. /\ [fingerprint |-> fp, running |-> TRUE, handle |-> 0].running
      /\ ~ [fingerprint |-> fp, running |-> FALSE, handle |-> 1].running
  OBVIOUS
<1>2. /\ [fingerprint |-> fp, running |-> TRUE, handle |-> 0] # None
      /\ [fingerprint |-> fp, running |-> FALSE, handle |-> 1] # None
  BY EntryValues
<1> QED
  BY <1>1, <1>2, Zenon

(* A caller that is admitted starts an execution for an open trajectory.     *)
LEMMA AdmitStarts ==
    ASSUME LedgerInv, NEW th \in Threads, Admit(th)
    PROVE  Evidence!Start(TrajOf[call[th].key])
<1> DEFINE k == call[th].key
           new == [fingerprint |-> call[th].fingerprint, running |-> TRUE, handle |-> 0]
<1>a. k \in Keys /\ TrajOf[k] \in Trajectories /\ call[th].fingerprint \in Fingerprints
  BY CallTypes DEF LedgerInv
<1>b. new # None /\ new.running
  BY <1>a, EntryValues
<1>c. /\ entries[k] = None /\ entries'[k] = new
      /\ \A x \in Keys \ {k} : entries'[x] = entries[x]
      /\ released' = released
      /\ TrajOf[k] \notin released
  BY <1>a DEF Admit, EntryOf, CallReleased, LedgerInv, TypeOK
<1> HIDE DEF new
<1>1. RunningFor' = RunningFor \cup {TrajOf[k]}
  BY <1>a, <1>b, <1>c DEF RunningFor, FinishedFor
<1>2. FinishedFor' = FinishedFor
  BY <1>a, <1>b, <1>c DEF RunningFor, FinishedFor
<1> QED
  BY <1>c, <1>1, <1>2 DEF Evidence!Start

(* A success keeps its result for a trajectory it ran for.                   *)
LEMMA SucceedEnds ==
    ASSUME LedgerInv, NEW th \in Threads, Succeed(th)
    PROVE  Evidence!End(TrajOf[call[th].key])
<1> DEFINE k == call[th].key
           done == [entries[k] EXCEPT !.handle = successes[k] + 1, !.running = FALSE]
<1>a. k \in Keys /\ call[th].fingerprint \in Fingerprints
  BY CallTypes DEF LedgerInv
<1>b. entries[k] = [fingerprint |-> call[th].fingerprint, running |-> TRUE, handle |-> 0]
  BY DEF Succeed, LedgerInv, RunnerOwnsEntry, EntryOf
<1>c. entries[k] # None /\ entries[k].running
  BY <1>a, <1>b, EntryRuns
<1>d. entries' = [entries EXCEPT ![k] = done] /\ released' = released /\ call' = call
  BY <1>a DEF Succeed, LedgerInv, TypeOK
<1>e. ~ done.running /\ done # None
  <2>1. LedgerInv'
    BY SucceedLedgerInv
  <2>2. ~ NotYetExecuted(k)'
    BY <1>a DEF Succeed, LedgerInv, TypeOK, NotYetExecuted
  <2>3. Executed(k)' /\ TrajOf[k] \notin released'
    BY <1>a, <2>1, <2>2, <1>d DEF LedgerInv, ReleasedIsQuiet, CallReleased, Succeed
  <2>4. PICK fp \in Fingerprints :
           entries'[k] = [fingerprint |-> fp, running |-> FALSE, handle |-> 1]
    BY <1>d, <2>3 DEF Executed
  <2>5. entries'[k] = done
    BY <1>a, <1>d DEF LedgerInv, TypeOK
  <2>6. ~ [fingerprint |-> fp, running |-> FALSE, handle |-> 1].running
    OBVIOUS
  <2>7. [fingerprint |-> fp, running |-> FALSE, handle |-> 1] # None
    BY EntryValues
  <2> QED
    BY <2>4, <2>5, <2>6, <2>7, Zenon
<1>f. entries'[k] = done /\ \A x \in Keys \ {k} : entries'[x] = entries[x]
  BY <1>a, <1>d DEF LedgerInv, TypeOK
<1> HIDE DEF done
<1>1. RunningFor' \in {RunningFor, RunningFor \ {TrajOf[k]}}
  BY <1>a, <1>d, <1>e, EntryStops
<1>2. FinishedFor' = FinishedFor \cup {TrajOf[k]}
  BY <1>a, <1>c, <1>e, <1>f DEF RunningFor, FinishedFor
<1>3. TrajOf[k] \in RunningFor
  BY <1>a, <1>c, RunningForEntries
<1> QED
  BY <1>d, <1>1, <1>2, <1>3 DEF Evidence!End

(* A failure keeps nothing.                                                  *)
LEMMA FailEnds ==
    ASSUME LedgerInv, NEW th \in Threads, Fail(th)
    PROVE  Evidence!End(TrajOf[call[th].key])
<1> DEFINE k == call[th].key
<1>a. k \in Keys /\ call[th].fingerprint \in Fingerprints
  BY CallTypes DEF LedgerInv
<1>b. entries[k] = [fingerprint |-> call[th].fingerprint, running |-> TRUE, handle |-> 0]
  BY DEF Fail, LedgerInv, RunnerOwnsEntry, EntryOf
<1>c. entries[k] # None /\ entries[k].running
  BY <1>a, <1>b, EntryRuns
<1>d. entries' = [entries EXCEPT ![k] = None] /\ released' = released
  BY DEF Fail
<1>e. entries'[k] = None /\ \A x \in Keys \ {k} : entries'[x] = entries[x]
  BY <1>a, <1>d DEF LedgerInv, TypeOK
<1>1. RunningFor' \in {RunningFor, RunningFor \ {TrajOf[k]}}
  BY <1>a, <1>d, EntryStops
<1>2. FinishedFor' = FinishedFor
  BY <1>a, <1>c, <1>e DEF RunningFor, FinishedFor
<1>3. TrajOf[k] \in RunningFor
  BY <1>a, <1>c, RunningForEntries
<1> QED
  BY <1>d, <1>1, <1>2, <1>3 DEF Evidence!End

(* A release takes the finished entries of its trajectories, none of which   *)
(* runs.                                                                     *)
LEMMA ReleaseReleases ==
    ASSUME LedgerInv, NEW ids \in SUBSET Trajectories, ReleaseTrajectories(ids)
    PROVE  Evidence!Release(ids)
<1>a. \A k \in Keys : entries'[k] = IF TrajOf[k] \in ids THEN None ELSE entries[k]
  BY DEF ReleaseTrajectories
<1>b. ids \cap RunningFor = {}
  BY RunningForEntries DEF ReleaseTrajectories, Releasable
<1>1. RunningFor' = RunningFor
  BY <1>a, <1>b DEF RunningFor, FinishedFor
<1>2. FinishedFor' = FinishedFor \ ids
  BY <1>a DEF RunningFor, FinishedFor
<1> QED
  BY <1>b, <1>1, <1>2 DEF Evidence!Release, ReleaseTrajectories

(* The ledger implements the evidence store of the lifecycle: waiting,       *)
(* failing and retrying callers are invisible to the manager.                *)
THEOREM LedgerImplementsEvidenceStore == Spec => ImplementsEvidenceStore
<1>1. Init => Evidence!Init
  BY DEF Init, Evidence!Init, RunningFor, FinishedFor
<1>2. LedgerInv /\ [Next]_vars => [Evidence!Next]_(Evidence!vars)
  <2> SUFFICES ASSUME LedgerInv, [Next]_vars
               PROVE  Evidence!Next \/ UNCHANGED Evidence!vars
    OBVIOUS
  <2>1. ASSUME UNCHANGED <<entries, released>>
        PROVE  UNCHANGED Evidence!vars
    BY <2>1 DEF Evidence!vars, RunningFor, FinishedFor
  <2>2. ASSUME NEW th \in Threads, Step(th)
        PROVE  Evidence!Next \/ UNCHANGED Evidence!vars
    <3>1. TrajOf[call[th].key] \in Trajectories
      BY CallTypes DEF LedgerInv
    <3>2. ASSUME Reject(th) \/ Answer(th) \/ Wait(th)
          PROVE  UNCHANGED Evidence!vars
      BY <2>1, <3>2 DEF Reject, Answer, Wait
    <3> QED
      BY <2>2, <3>1, <3>2, AdmitStarts, SucceedEnds, FailEnds DEF Step, Evidence!Next
  <2>3. ASSUME NEW th \in Threads, NEW c \in Call, Enter(th, c)
        PROVE  UNCHANGED Evidence!vars
    BY <2>1, <2>3 DEF Enter
  <2>4. CASE UNCHANGED vars
    BY <2>1, <2>4 DEF vars
  <2> QED
    BY <2>2, <2>3, <2>4, ReleaseReleases DEF Next, Evidence!Next
<1> QED
  BY <1>1, <1>2, LedgerInvariant, PTL DEF Spec, ImplementsEvidenceStore, Evidence!Spec

=============================================================================
