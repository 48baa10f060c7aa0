------------------------- MODULE SnapshotPublication -------------------------
(***************************************************************************)
(* How the actor's weights become the version that trajectories are        *)
(* labelled with, file by file and over several launches of the trainer:   *)
(* framework/verl/policy_weight_sync.py (the request, the snapshot that    *)
(* the rank-zero worker streams, the latest pointer and their reading),    *)
(* policy_weight_snapshot_store.py (how a file is created or replaced) and *)
(* the version port of the rollout processes in policy_runtime.py.         *)
(*                                                                         *)
(* Trainer, rank-zero worker and rollout processes share files only.  Each *)
(* launch has one stream at a time; the process that runs it may outlive   *)
(* its trainer and go on while the next launch publishes.  A value that    *)
(* may be absent is a set of at most one element.                          *)
(***************************************************************************)
EXTENDS Naturals

CONSTANTS
    Weights,         \* the weights the actor may have
    InitialWeights,  \* those a run starts from
    Readers,         \* the rollout processes of a launch
    TotalSteps,      \* bound: optimizer steps
    MaxLaunches      \* bound: launches

ASSUME PublicationAssumption ==
    /\ "trainer" \notin Readers
    /\ InitialWeights \in Weights
    /\ TotalSteps \in Nat
    /\ MaxLaunches \in Nat

VARIABLES
    \* --- files of the state directory ---
    request,    \* the active sync request
    tensors,    \* the weights that have a safetensors file
    manifest,   \* request -> the weights its manifest names
    doubled,    \* the immutable files whose temporary name is still linked
    pointer,    \* the latest pointer
    saved,      \* the checkpoint: step, weights and the version it records
    \* --- the trainer ---
    launch, pc, step, actor,
    candidate,  \* the pointer it has read and not yet verified
    acked,      \* the publication it has verified
    outcome,    \* how the launch ended
    \* --- the stream of each launch ---
    phase, target, payload,
    \* --- the version port of each rollout process ---
    port,       \* what it is doing
    current,    \* _current
    signature,  \* _latest_pointer_signature
    seen,       \* the signature read at the beginning of a call
    got,        \* the pointer whose closure is being loaded
    answer,     \* what its last call in this step returned
    \* --- history ---
    late        \* a stream of another launch has published in this launch

files == <<request, tensors, manifest, doubled, pointer, saved>>
trainer == <<launch, pc, step, actor, candidate, acked, outcome>>
streams == <<phase, target, payload>>
ports == <<port, current, signature, seen, got, answer>>
vars == <<files, trainer, streams, ports, late>>

-----------------------------------------------------------------------------
Launches == 1..MaxLaunches
Steps == 0..TotalSteps
Request == [launch: Launches, step: Steps]         \* a nonce for each sync
Value == [request: Request, weights: Weights]      \* content of a pointer
Version == [step: Steps, weights: Weights]         \* PolicyVersion
Checkpoint == [step: Steps, weights: Weights, policy: Weights]

VersionOf(v) == [step |-> v.request.step, weights |-> v.weights]
NoneOrOne(S) == {{}} \cup {{x} : x \in S}

\* A file of the store: the safetensors of some weights, the manifest of a
\* request.
TensorFile(w) == <<"tensors", w>>
ManifestFile(q) == <<"manifest", q>>

\* load_lora_snapshot_pointer: manifest and tensors exist and agree with the
\* pointer.
Closed(v) == manifest[v.request] = {v.weights} /\ v.weights \in tensors

Init ==
    /\ request = {} /\ tensors = {} /\ doubled = {}
    /\ manifest = [q \in Request |-> {}]
    /\ pointer = {} /\ saved = {}
    /\ launch = 0 /\ pc = "down" /\ step = 0 /\ actor = InitialWeights
    /\ candidate = {} /\ acked = {} /\ outcome = "new"
    /\ phase = [l \in Launches |-> "none"]
    /\ target = [l \in Launches |-> {}]
    /\ payload = [l \in Launches |-> InitialWeights]
    /\ port = [r \in Readers |-> "new"]
    /\ current = [r \in Readers |-> {}]
    /\ signature = [r \in Readers |-> {}]
    /\ seen = [r \in Readers |-> {}]
    /\ got = [r \in Readers |-> {}]
    /\ answer = [r \in Readers |-> {}]
    /\ late = FALSE

-----------------------------------------------------------------------------
(* The trainer.                                                            *)

NewPorts ==
    /\ port' = [r \in Readers |-> "new"]
    /\ current' = [r \in Readers |-> {}]
    /\ signature' = [r \in Readers |-> {}]
    /\ seen' = [r \in Readers |-> {}]
    /\ got' = [r \in Readers |-> {}]
    /\ answer' = [r \in Readers |-> {}]

\* A launch starts from scratch, or from the checkpoint when the published
\* version is the one it records.
Launch ==
    /\ pc = "down" /\ outcome # "trained" /\ launch < MaxLaunches
    /\ \/ /\ saved = {}
          /\ step' = 0 /\ actor' = InitialWeights
       \/ \E s \in saved, p \in pointer :
             /\ VersionOf(p) = [step |-> s.step, weights |-> s.policy]
             /\ Closed(p)
             /\ step' = s.step /\ actor' = s.weights
    /\ launch' = launch + 1
    /\ pc' = "request"
    /\ candidate' = {} /\ acked' = {} /\ outcome' = "running"
    /\ NewPorts
    /\ late' = FALSE
    /\ UNCHANGED <<files, streams>>

\* update_weights: the request is replaced, then the workers stream.
PublishRequest ==
    /\ pc = "request"
    /\ request' = {[launch |-> launch, step |-> step]}
    /\ phase' = [phase EXCEPT ![launch] = "start"]
    /\ target' = [target EXCEPT ![launch] = {}]
    /\ payload' = [payload EXCEPT ![launch] = actor]
    /\ pc' = "upstream"
    /\ UNCHANGED <<tensors, manifest, doubled, pointer, saved, launch, step,
                   actor, candidate, acked, outcome, ports, late>>

UpstreamReturns ==
    /\ pc = "upstream" /\ phase[launch] = "done"
    /\ pc' = "verify"
    /\ UNCHANGED <<files, launch, step, actor, candidate, acked, outcome,
                   streams, ports, late>>

UpstreamRaises ==
    /\ pc = "upstream" /\ phase[launch] \in {"refused", "failed"}
    /\ pc' = "down"
    /\ outcome' = phase[launch]
    /\ UNCHANGED <<files, launch, step, actor, candidate, acked, streams, ports,
                   late>>

\* The pointer must answer this very request.
Answers(v) == v.request = [launch |-> launch, step |-> step]

VerifyPointer ==
    /\ pc = "verify"
    /\ \E p \in pointer : Answers(p)
    /\ candidate' = pointer
    /\ pc' = "closure"
    /\ UNCHANGED <<files, launch, step, actor, acked, outcome, streams, ports, late>>

RefusePointer ==
    /\ pc = "verify"
    /\ ~ \E p \in pointer : Answers(p)
    /\ pc' = "down"
    /\ outcome' = "refused"
    /\ UNCHANGED <<files, launch, step, actor, candidate, acked, streams, ports,
                   late>>

VerifyClosure ==
    /\ pc = "closure"
    /\ \A v \in candidate : Closed(v)
    /\ acked' = candidate
    /\ candidate' = {}
    /\ pc' = "synced"
    /\ UNCHANGED <<files, launch, step, actor, outcome, streams, ports, late>>

\* After the sync the step's checkpoint is written, if it has one; it records
\* the version the pointer names.
SaveCheckpoint ==
    /\ pc = "synced"
    /\ \E p \in pointer :
          /\ p.request.step = step
          /\ saved' = {[step |-> step, weights |-> actor, policy |-> p.weights]}
    /\ pc' = "rolling"
    /\ UNCHANGED <<request, tensors, manifest, doubled, pointer, launch, step,
                   actor, candidate, acked, outcome, streams, ports, late>>

NoCheckpoint ==
    /\ pc = "synced"
    /\ pc' = "rolling"
    /\ UNCHANGED <<files, launch, step, actor, candidate, acked, outcome,
                   streams, ports, late>>

\* The rollout ends when no port is in a call; the next step trains.
EndRollout ==
    /\ pc = "rolling"
    /\ \A r \in Readers : port[r] \in {"new", "idle"}
    /\ answer' = [r \in Readers |-> {}]
    /\ IF step = TotalSteps
       THEN /\ pc' = "down" /\ outcome' = "trained"
            /\ UNCHANGED <<step, actor>>
       ELSE /\ pc' = "request" /\ UNCHANGED outcome
            /\ step' = step + 1
            /\ actor' \in Weights
    /\ UNCHANGED <<files, launch, candidate, acked, streams, port, current,
                   signature, seen, got, late>>

\* The trainer raises or is killed, with its rollout processes.
Crash ==
    /\ pc # "down"
    /\ pc' = "down"
    /\ outcome' = "crashed"
    /\ candidate' = {}
    /\ NewPorts
    /\ UNCHANGED <<files, launch, step, actor, acked, streams, late>>

-----------------------------------------------------------------------------
(* The stream of launch l, whose trainer may be gone.                      *)

\* The request that is active when the stream begins is the one it answers.
StartStream(l) ==
    /\ phase[l] = "start"
    /\ target' = [target EXCEPT ![l] = request]
    /\ phase' = [phase EXCEPT ![l] = "tensors"]
    /\ UNCHANGED <<files, trainer, payload, ports, late>>

\* write_immutable_bytes: the directory is locked from before the link to
\* after the unlink of the temporary name; a file that exists must have the
\* same content and no second name.
Locked(here) == \E k \in Launches : phase[k] = here

\* Mutant: a file that exists is a conflict.
WriteTensorsOnce(l) ==
    /\ phase[l] = "tensors" /\ ~Locked("tensors linked")
    /\ LET w == payload[l]
       IN  IF w \notin tensors
           THEN /\ tensors' = tensors \cup {w}
                /\ doubled' = doubled \cup {TensorFile(w)}
                /\ phase' = [phase EXCEPT ![l] = "tensors linked"]
           ELSE /\ phase' = [phase EXCEPT ![l] = "refused"]
                /\ UNCHANGED <<tensors, doubled>>
    /\ UNCHANGED <<request, manifest, pointer, saved, trainer, target, payload,
                   ports, late>>

WriteTensors(l) ==
    /\ phase[l] = "tensors" /\ ~Locked("tensors linked")
    /\ LET w == payload[l]
       IN  IF w \notin tensors
           THEN /\ tensors' = tensors \cup {w}
                /\ doubled' = doubled \cup {TensorFile(w)}
                /\ phase' = [phase EXCEPT ![l] = "tensors linked"]
           ELSE /\ phase' = [phase EXCEPT ![l] =
                       IF TensorFile(w) \in doubled THEN "refused" ELSE "manifest"]
                /\ UNCHANGED <<tensors, doubled>>
    /\ UNCHANGED <<request, manifest, pointer, saved, trainer, target, payload,
                   ports, late>>

UnlinkTensors(l) ==
    /\ phase[l] = "tensors linked"
    /\ doubled' = doubled \ {TensorFile(payload[l])}
    /\ phase' = [phase EXCEPT ![l] = "manifest"]
    /\ UNCHANGED <<request, tensors, manifest, pointer, saved, trainer, target,
                   payload, ports, late>>

\* Mutant: the manifest is replaced like the pointer.
WriteManifestOver(l) ==
    /\ phase[l] = "manifest" /\ ~Locked("manifest linked")
    /\ \E q \in target[l] : manifest' = [manifest EXCEPT ![q] = {payload[l]}]
    /\ phase' = [phase EXCEPT ![l] = "pointer"]
    /\ late' = (late \/ l # launch)
    /\ UNCHANGED <<request, tensors, doubled, pointer, saved, trainer, target,
                   payload, ports>>

WriteManifest(l) ==
    /\ phase[l] = "manifest" /\ ~Locked("manifest linked")
    /\ \E q \in target[l] :
          IF manifest[q] = {}
          THEN /\ manifest' = [manifest EXCEPT ![q] = {payload[l]}]
               /\ doubled' = doubled \cup {ManifestFile(q)}
               /\ phase' = [phase EXCEPT ![l] = "manifest linked"]
          ELSE /\ phase' = [phase EXCEPT ![l] =
                      IF manifest[q] = {payload[l]} /\ ManifestFile(q) \notin doubled
                      THEN "pointer" ELSE "refused"]
               /\ UNCHANGED <<manifest, doubled>>
    /\ late' = (late \/ l # launch)
    /\ UNCHANGED <<request, tensors, pointer, saved, trainer, target, payload, ports>>

UnlinkManifest(l) ==
    /\ phase[l] = "manifest linked"
    /\ doubled' = doubled \ {ManifestFile(q) : q \in target[l]}
    /\ phase' = [phase EXCEPT ![l] = "pointer"]
    /\ UNCHANGED <<request, tensors, manifest, pointer, saved, trainer, target,
                   payload, ports, late>>

\* Mutant: the pointer does not wait for the manifest.
ReplacePointerEarly(l) ==
    /\ phase[l] \in {"manifest", "pointer"}
    /\ \E q \in target[l] : pointer' = {[request |-> q, weights |-> payload[l]]}
    /\ phase' = [phase EXCEPT ![l] = IF @ = "pointer" THEN "done" ELSE @]
    /\ late' = (late \/ l # launch)
    /\ UNCHANGED <<request, tensors, manifest, doubled, saved, trainer, target,
                   payload, ports>>

ReplacePointer(l) ==
    /\ phase[l] = "pointer"
    /\ \E q \in target[l] : pointer' = {[request |-> q, weights |-> payload[l]]}
    /\ phase' = [phase EXCEPT ![l] = "done"]
    /\ late' = (late \/ l # launch)
    /\ UNCHANGED <<request, tensors, manifest, doubled, saved, trainer, target,
                   payload, ports>>

Active == {"start", "tensors", "tensors linked", "manifest", "manifest linked",
           "pointer"}

\* The stream raises or its process is killed.  A file it has linked and not
\* yet unlinked keeps its second name if it was killed, or if the cleanup of
\* the exception fails as well.
EndStream(l) ==
    /\ phase[l] \in Active
    /\ phase' = [phase EXCEPT ![l] = "failed"]
    /\ \/ UNCHANGED doubled
       \/ phase[l] = "tensors linked"
          /\ doubled' = doubled \ {TensorFile(payload[l])}
       \/ phase[l] = "manifest linked"
          /\ doubled' = doubled \ {ManifestFile(q) : q \in target[l]}
    /\ UNCHANGED <<request, tensors, manifest, pointer, saved, trainer, target,
                   payload, ports, late>>

-----------------------------------------------------------------------------
(* The version port of a rollout process.                                  *)

\* The first call of a process loads a snapshot, builds its runtime from it,
\* and reads the pointer's signature afterwards.
BuildRead(r) ==
    /\ pc = "rolling" /\ port[r] = "new" /\ pointer # {}
    /\ got' = [got EXCEPT ![r] = pointer]
    /\ port' = [port EXCEPT ![r] = "building"]
    /\ UNCHANGED <<files, trainer, streams, current, signature, seen, answer, late>>

\* What is loaded must be complete; a later load must not go back in steps,
\* nor change the weights of a step.
Acceptable(r) ==
    \A v \in got[r] :
        /\ Closed(v)
        /\ \A c \in current[r] :
              /\ VersionOf(v).step >= c.step
              /\ VersionOf(v).step = c.step => VersionOf(v) = c

BuildLoad(r) ==
    /\ port[r] = "building" /\ Acceptable(r)
    /\ current' = [current EXCEPT ![r] = {VersionOf(v) : v \in got[r]}]
    /\ got' = [got EXCEPT ![r] = {}]
    /\ port' = [port EXCEPT ![r] = "signing"]
    /\ UNCHANGED <<files, trainer, streams, signature, seen, answer, late>>

BuildSign(r) ==
    /\ port[r] = "signing"
    /\ signature' = [signature EXCEPT ![r] = pointer]
    /\ port' = [port EXCEPT ![r] = "idle"]
    /\ UNCHANGED <<files, trainer, streams, current, seen, got, answer, late>>

\* current_policy_version: an unchanged signature answers without loading.
Ask(r) ==
    /\ pc = "rolling" /\ port[r] = "idle"
    /\ IF pointer = signature[r]
       THEN /\ answer' = [answer EXCEPT ![r] = current[r]]
            /\ UNCHANGED <<port, seen>>
       ELSE /\ seen' = [seen EXCEPT ![r] = pointer]
            /\ port' = [port EXCEPT ![r] = "asking"]
            /\ UNCHANGED answer
    /\ UNCHANGED <<files, trainer, streams, current, signature, got, late>>

AskRead(r) ==
    /\ port[r] = "asking"
    /\ got' = [got EXCEPT ![r] = pointer]
    /\ port' = [port EXCEPT ![r] = "loading"]
    /\ UNCHANGED <<files, trainer, streams, current, signature, seen, answer, late>>

AskLoad(r) ==
    /\ port[r] = "loading" /\ Acceptable(r)
    /\ current' = [current EXCEPT ![r] = {VersionOf(v) : v \in got[r]}]
    /\ signature' = [signature EXCEPT ![r] = seen[r]]
    /\ answer' = [answer EXCEPT ![r] = {VersionOf(v) : v \in got[r]}]
    /\ got' = [got EXCEPT ![r] = {}]
    /\ port' = [port EXCEPT ![r] = "idle"]
    /\ UNCHANGED <<files, trainer, streams, seen, late>>

\* A refused snapshot fails the rollout and with it the launch.
RefuseLoad(r) ==
    /\ port[r] \in {"building", "loading"} /\ ~Acceptable(r)
    /\ pc' = "down"
    /\ outcome' = "refused"
    /\ candidate' = {}
    /\ NewPorts
    /\ UNCHANGED <<files, launch, step, actor, acked, streams, late>>

-----------------------------------------------------------------------------
Trainer == \/ Launch \/ PublishRequest \/ UpstreamReturns \/ UpstreamRaises
           \/ VerifyPointer \/ RefusePointer \/ VerifyClosure
           \/ SaveCheckpoint \/ NoCheckpoint \/ EndRollout \/ Crash
Stream(l) == \/ StartStream(l) \/ WriteTensors(l) \/ UnlinkTensors(l)
             \/ WriteManifest(l) \/ UnlinkManifest(l) \/ ReplacePointer(l)
             \/ EndStream(l)
Port(r) == \/ BuildRead(r) \/ BuildLoad(r) \/ BuildSign(r)
           \/ Ask(r) \/ AskRead(r) \/ AskLoad(r) \/ RefuseLoad(r)

Next == \/ Trainer
        \/ \E l \in Launches : Stream(l)
        \/ \E r \in Readers : Port(r)

Spec == Init /\ [][Next]_vars

-----------------------------------------------------------------------------
(* Properties.                                                             *)

TypeOK ==
    /\ request \in NoneOrOne(Request)
    /\ tensors \subseteq Weights
    /\ manifest \in [Request -> NoneOrOne(Weights)]
    /\ doubled \subseteq {TensorFile(w) : w \in Weights}
                         \cup {ManifestFile(q) : q \in Request}
    /\ pointer \in NoneOrOne(Value)
    /\ saved \in NoneOrOne(Checkpoint)
    /\ launch \in 0..MaxLaunches
    /\ pc \in {"down", "request", "upstream", "verify", "closure", "synced",
               "rolling"}
    /\ step \in Steps /\ actor \in Weights
    /\ candidate \in NoneOrOne(Value) /\ acked \in NoneOrOne(Value)
    /\ outcome \in {"new", "running", "refused", "failed", "crashed", "trained"}
    /\ phase \in [Launches -> Active \cup {"none", "done", "refused", "failed"}]
    /\ target \in [Launches -> NoneOrOne(Request)]
    /\ payload \in [Launches -> Weights]
    /\ port \in [Readers -> {"new", "building", "signing", "idle", "asking",
                             "loading"}]
    /\ current \in [Readers -> NoneOrOne(Version)]
    /\ signature \in [Readers -> NoneOrOne(Value)]
    /\ seen \in [Readers -> NoneOrOne(Value)]
    /\ got \in [Readers -> NoneOrOne(Value)]
    /\ answer \in [Readers -> NoneOrOne(Version)]
    /\ late \in BOOLEAN

\* A rollout starts only when the trainer has verified a publication of its
\* own request with its own weights, whatever streams of earlier launches
\* still write; and unless one of those publishes in this launch, every rollout
\* process labels its trajectories with exactly that step and those weights.
LabelsAreTrue ==
    pc \in {"synced", "rolling"} =>
        /\ acked = {[request |-> [launch |-> launch, step |-> step],
                     weights |-> actor]}
        /\ ~late => \A r \in Readers :
                       answer[r] \subseteq {[step |-> step, weights |-> actor]}

\* A launch is refused by the store or by a port only when a stream was cut off
\* between the two names of a file, or a stream of an earlier launch published.
RefusedOnlyIfDisturbed == outcome = "refused" => doubled # {} \/ late

\* The files together are one atomic register: a value is in it only when its
\* manifest and tensors are complete, a request keeps its first answer, and
\* what a process has fetched stays loadable while others publish.
Complete(S) == {v \in S : Closed(v)}

Register == INSTANCE SnapshotRegister WITH
    Requests <- Request,
    Readers <- Readers \cup {"trainer"},
    answered <- manifest,
    latest <- Complete(pointer),
    fetched <- [r \in Readers \cup {"trainer"} |->
                   IF r = "trainer" THEN Complete(candidate) ELSE Complete(got[r])]

ImplementsRegister == Register!Spec
=============================================================================
