-------------------- MODULE SnapshotPublicationProofs --------------------
(***************************************************************************)
(* Proofs about the publication of snapshots, for any number of weights,   *)
(* rollout processes, steps and launches: labels are true, a refusal has a  *)
(* cause, and the files implement the abstract register.                   *)
(***************************************************************************)
EXTENDS SnapshotPublication, TLAPS

(* The request of this step, its answer, and the version that names it.    *)
Own == [launch |-> launch, step |-> step]
Now == [request |-> Own, weights |-> actor]
Label == [step |-> step, weights |-> actor]

Syncing == {"upstream", "verify", "closure", "synced", "rolling"}
Writing == {"tensors", "tensors linked", "manifest", "manifest linked", "pointer", "done"}
HasTensors == {"tensors linked", "manifest", "manifest linked", "pointer", "done"}
HasManifest == {"manifest linked", "pointer", "done"}

(* What a process has read of the pointer is complete.                     *)
FilesInv ==
    /\ \A w \in Weights : TensorFile(w) \in doubled => w \in tensors
    /\ \A q \in Request : ManifestFile(q) \in doubled => manifest[q] # {}
    /\ \A v \in pointer : Closed(v)
    /\ \A v \in candidate : Closed(v)
    /\ \A r \in Readers : \A v \in got[r] : Closed(v)

(* How far a stream has come is what is on disk.                           *)
StreamInv ==
    \A l \in Launches :
        /\ phase[l] = "start" => request # {}
        /\ phase[l] \in Writing => target[l] # {}
        /\ phase[l] \in HasTensors => payload[l] \in tensors
        /\ phase[l] \in HasManifest => \A q \in target[l] : manifest[q] = {payload[l]}
        /\ phase[l] = "done" => pointer # {}

(* The requests that were made by now.                                     *)
Issued(q) ==
    \/ q.launch < launch
    \/ q.launch = launch /\ q.step < step
    \/ q.launch = launch /\ q.step = step /\ pc # "request"

IssuedInv ==
    /\ \A q \in request : Issued(q)
    /\ \A l \in Launches : \A q \in target[l] : Issued(q)
    /\ \A q \in Request : manifest[q] # {} => Issued(q)

(* The trainer waits for its own stream and verifies its own answer.       *)
TrainerInv ==
    /\ pc # "down" => launch \in Launches /\ outcome = "running"
    /\ pc \in Syncing =>
          /\ request = {Own} /\ payload[launch] = actor
          /\ phase[launch] \in Writing => target[launch] = {Own}
    /\ pc \in Syncing \ {"upstream"} => phase[launch] = "done"
    /\ pc = "closure" => candidate = {Now}
    /\ pc \in {"synced", "rolling"} => acked = {Now}

PortInv ==
    \A r \in Readers :
        /\ port[r] \notin {"new", "idle"} => pc = "rolling"
        /\ pc # "rolling" => answer[r] = {}
        /\ port[r] \in {"new", "building"} => current[r] = {}

(* While no other launch publishes, the pointer is the answer to this step  *)
(* and the ports have read nothing else in it.                             *)
PointerQuiet == pc \in Syncing /\ phase[launch] = "done" => pointer = {Now}

Unanswered == {"start", "tensors", "tensors linked", "manifest"}
AnswerQuiet == pc = "upstream" /\ phase[launch] \in Unanswered => manifest[Own] = {}

PortQuiet(r) ==
    /\ port[r] \in {"building", "loading"} => got[r] = {Now}
    /\ port[r] \in {"asking", "loading"} => seen[r] = {Now}
    /\ port[r] = "signing" => current[r] = {Label}
    /\ port[r] \in {"idle", "asking", "loading"} =>
          current[r] = {VersionOf(v) : v \in signature[r]}
    /\ \A c \in current[r] :
          c.step < step \/ (pc \in {"rolling", "down"} /\ c = Label)
    /\ answer[r] \subseteq {Label}

QuietInv == ~late => PointerQuiet /\ AnswerQuiet /\ \A r \in Readers : PortQuiet(r)

(* The second names that nobody is about to remove.                        *)
Holds(l, f) ==
    \/ phase[l] = "tensors linked" /\ f = TensorFile(payload[l])
    \/ phase[l] = "manifest linked" /\ \E q \in target[l] : f = ManifestFile(q)
Torn == {f \in doubled : \A l \in Launches : ~Holds(l, f)}

TornInv ==
    ~late =>
        /\ outcome = "refused" => Torn # {}
        /\ pc = "upstream" /\ phase[launch] = "refused" => Torn # {}

SnapshotInv ==
    /\ TypeOK /\ FilesInv /\ StreamInv /\ IssuedInv /\ TrainerInv /\ PortInv
    /\ QuietInv /\ TornInv

-----------------------------------------------------------------------------
(* A set of at most one element.                                           *)
LEMMA NoneOrOneIs ==
    ASSUME NEW S, NEW x
    PROVE  x \in NoneOrOne(S) <=> x = {} \/ \E y \in S : x = {y}
  BY DEF NoneOrOne

(* Members of an optional value are the value.                             *)
LEMMA NoneOrOneHas ==
    ASSUME NEW S
    PROVE  /\ {} \in NoneOrOne(S)
           /\ \A y \in S : {y} \in NoneOrOne(S)
           /\ \A x \in NoneOrOne(S) : \A y \in x : y \in S /\ x = {y}
  BY DEF NoneOrOne

(* Every optional value may be absent.                                     *)
LEMMA EmptySets ==
    /\ {} \in NoneOrOne(Request) /\ {} \in NoneOrOne(Weights) /\ {} \in NoneOrOne(Value)
    /\ {} \in NoneOrOne(Checkpoint) /\ {} \in NoneOrOne(Version)
  BY NoneOrOneHas

(* The version of an optional pointer value is optional.                   *)
LEMMA VersionTypes ==
    ASSUME NEW x \in NoneOrOne(Value)
    PROVE  {VersionOf(v) : v \in x} \in NoneOrOne(Version)
<1>1. CASE x = {}
  BY <1>1, NoneOrOneHas
<1>2. CASE \E y \in Value : x = {y}
  <2>1. PICK y \in Value : x = {y}
    BY <1>2
  <2>2. {VersionOf(v) : v \in x} = {VersionOf(y)}
    BY <2>1
  <2>3. VersionOf(y) \in Version
    BY DEF VersionOf, Version, Value, Request
  <2>. QED
    BY <2>2, <2>3, NoneOrOneHas
<1>. QED
  BY <1>1, <1>2, NoneOrOneIs

(* The invariant holds before the first launch.                            *)
LEMMA InitialInv == Init => SnapshotInv
<1>. SUFFICES ASSUME Init PROVE SnapshotInv
  OBVIOUS
<1>1. TypeOK
  <2>1. 0 \in Steps /\ 0 \in 0..MaxLaunches
    BY PublicationAssumption DEF Steps
  <2>2. /\ phase \in [Launches -> Active \cup {"none", "done", "refused", "failed"}]
        /\ target \in [Launches -> NoneOrOne(Request)]
        /\ payload \in [Launches -> Weights]
        /\ manifest \in [Request -> NoneOrOne(Weights)]
    BY PublicationAssumption, EmptySets DEF Init
  <2>3. /\ port \in [Readers -> {"new", "building", "signing", "idle", "asking", "loading"}]
        /\ current \in [Readers -> NoneOrOne(Version)]
        /\ signature \in [Readers -> NoneOrOne(Value)]
        /\ seen \in [Readers -> NoneOrOne(Value)]
        /\ got \in [Readers -> NoneOrOne(Value)]
        /\ answer \in [Readers -> NoneOrOne(Version)]
    BY EmptySets DEF Init
  <2>. QED
    BY <2>1, <2>2, <2>3, PublicationAssumption, EmptySets DEF Init, TypeOK
<1>2. FilesInv
  BY DEF Init, FilesInv
<1>3. StreamInv
  BY DEF Init, StreamInv, Writing, HasTensors, HasManifest
<1>4. IssuedInv
  BY DEF Init, IssuedInv
<1>5. TrainerInv
  BY DEF Init, TrainerInv, Syncing
<1>6. PortInv
  BY DEF Init, PortInv
<1>7. QuietInv
  BY DEF Init, QuietInv, PointerQuiet, AnswerQuiet, PortQuiet, Syncing
<1>8. TornInv
  BY DEF Init, TornInv
<1>. QED
  BY <1>1, <1>2, <1>3, <1>4, <1>5, <1>6, <1>7, <1>8 DEF SnapshotInv

-----------------------------------------------------------------------------
(* Frames: what the trainer, a stream and a port leave alone.              *)

(* The trainer writes the request and begins its stream, in one action.    *)
LEMMA TrainerFrame ==
    ASSUME Trainer
    PROVE  /\ UNCHANGED <<tensors, manifest, doubled, pointer>>
           /\ PublishRequest \/ UNCHANGED <<request, streams>>
<1>1. CASE PublishRequest
  BY <1>1 DEF PublishRequest
<1>2. CASE Launch \/ UpstreamReturns \/ UpstreamRaises \/ VerifyPointer
  BY <1>2 DEF Launch, UpstreamReturns, UpstreamRaises, VerifyPointer, files
<1>3. CASE RefusePointer \/ VerifyClosure \/ SaveCheckpoint \/ NoCheckpoint
  BY <1>3 DEF RefusePointer, VerifyClosure, SaveCheckpoint, NoCheckpoint, files
<1>4. CASE EndRollout \/ Crash
  BY <1>4 DEF EndRollout, Crash, files
<1>. QED
  BY <1>1, <1>2, <1>3, <1>4 DEF Trainer

(* A stream leaves the request, the trainer and the ports alone.           *)
LEMMA StreamFrame ==
    ASSUME NEW l \in Launches, Stream(l)
    PROVE  UNCHANGED <<request, trainer, ports>>
<1>1. CASE StartStream(l) \/ WriteTensors(l) \/ UnlinkTensors(l)
  BY <1>1 DEF StartStream, WriteTensors, UnlinkTensors, files
<1>2. CASE WriteManifest(l) \/ UnlinkManifest(l)
  BY <1>2 DEF WriteManifest, UnlinkManifest
<1>3. CASE ReplacePointer(l) \/ EndStream(l)
  BY <1>3 DEF ReplacePointer, EndStream
<1>. QED
  BY <1>1, <1>2, <1>3 DEF Stream

(* A port writes no file; the trainer it changes by failing it only.       *)
LEMMA PortFrame ==
    ASSUME NEW r \in Readers, Port(r)
    PROVE  UNCHANGED <<files, streams>> /\ (RefuseLoad(r) \/ UNCHANGED trainer)
<1>1. CASE BuildRead(r) \/ BuildLoad(r) \/ BuildSign(r)
  BY <1>1 DEF BuildRead, BuildLoad, BuildSign
<1>2. CASE Ask(r) \/ AskRead(r) \/ AskLoad(r)
  BY <1>2 DEF Ask, AskRead, AskLoad
<1>3. CASE RefuseLoad(r)
  BY <1>3 DEF RefuseLoad
<1>. QED
  BY <1>1, <1>2, <1>3 DEF Port

-----------------------------------------------------------------------------
(* Types.                                                                  *)

(* New ports are typed.                                                    *)
LEMMA NewPortsTyped ==
    ASSUME NewPorts
    PROVE  /\ port' \in [Readers -> {"new", "building", "signing", "idle", "asking",
                                     "loading"}]
           /\ current' \in [Readers -> NoneOrOne(Version)]
           /\ signature' \in [Readers -> NoneOrOne(Value)]
           /\ seen' \in [Readers -> NoneOrOne(Value)]
           /\ got' \in [Readers -> NoneOrOne(Value)]
           /\ answer' \in [Readers -> NoneOrOne(Version)]
  BY EmptySets DEF NewPorts

(* Every action keeps the types.                                           *)
LEMMA TypeStep ==
    ASSUME TypeOK, TrainerInv, [Next]_vars PROVE TypeOK'
<1>1. ASSUME Launch PROVE TypeOK'
  <2>1. step' \in Steps /\ actor' \in Weights
    <3>1. CASE step' = 0 /\ actor' = InitialWeights
      BY <3>1, PublicationAssumption DEF Steps
    <3>2. ASSUME NEW s \in saved, step' = s.step, actor' = s.weights
          PROVE  step' \in Steps /\ actor' \in Weights
      <4>1. s \in Checkpoint
        BY NoneOrOneHas DEF TypeOK
      <4>. QED
        BY <3>2, <4>1 DEF Checkpoint
    <3>. QED
      BY <1>1, <3>1, <3>2 DEF Launch
  <2>2. launch' \in 0..MaxLaunches
    BY <1>1, PublicationAssumption DEF TypeOK, Launch
  <2>. QED
    BY <1>1, <2>1, <2>2, NewPortsTyped, EmptySets DEF TypeOK, Launch, files, streams
<1>2. ASSUME PublishRequest PROVE TypeOK'
  <2>1. launch \in Launches
    BY <1>2 DEF TrainerInv, PublishRequest
  <2>2. [launch |-> launch, step |-> step] \in Request
    BY <2>1 DEF TypeOK, Request
  <2>3. request' \in NoneOrOne(Request)
    BY <1>2, <2>2, NoneOrOneHas DEF PublishRequest
  <2>. QED
    BY <1>2, <2>1, <2>3, EmptySets DEF TypeOK, PublishRequest, Active, ports
<1>3. ASSUME UpstreamReturns PROVE TypeOK'
  BY <1>3, PublicationAssumption, NoneOrOneHas, VersionTypes
     DEF TypeOK, UpstreamReturns, files, trainer, streams, ports
<1>4. ASSUME UpstreamRaises PROVE TypeOK'
  BY <1>4, PublicationAssumption, NoneOrOneHas, VersionTypes
     DEF TypeOK, UpstreamRaises, files, trainer, streams, ports
<1>5. ASSUME VerifyPointer PROVE TypeOK'
  BY <1>5, PublicationAssumption, NoneOrOneHas, VersionTypes
     DEF TypeOK, VerifyPointer, files, trainer, streams, ports
<1>6. ASSUME RefusePointer PROVE TypeOK'
  BY <1>6, PublicationAssumption, NoneOrOneHas, VersionTypes
     DEF TypeOK, RefusePointer, files, trainer, streams, ports
<1>7. ASSUME VerifyClosure PROVE TypeOK'
  BY <1>7, PublicationAssumption, NoneOrOneHas, VersionTypes
     DEF TypeOK, VerifyClosure, files, trainer, streams, ports
<1>8. ASSUME SaveCheckpoint PROVE TypeOK'
  <2>1. PICK p \in pointer :
            saved' = {[step |-> step, weights |-> actor, policy |-> p.weights]}
    BY <1>8 DEF SaveCheckpoint
  <2>2. p \in Value
    BY NoneOrOneHas DEF TypeOK
  <2>3. [step |-> step, weights |-> actor, policy |-> p.weights] \in Checkpoint
    BY <2>2 DEF TypeOK, Checkpoint, Value
  <2>4. saved' \in NoneOrOne(Checkpoint)
    BY <2>1, <2>3, NoneOrOneHas
  <2>. QED
    BY <1>8, <2>4 DEF TypeOK, SaveCheckpoint, streams, ports
<1>9. ASSUME NoCheckpoint PROVE TypeOK'
  BY <1>9, PublicationAssumption, NoneOrOneHas, VersionTypes
     DEF TypeOK, NoCheckpoint, files, trainer, streams, ports
<1>10. ASSUME EndRollout PROVE TypeOK'
  <2>1. answer' \in [Readers -> NoneOrOne(Version)]
    BY <1>10, EmptySets DEF EndRollout
  <2>2. step' \in Steps /\ actor' \in Weights
    BY <1>10, PublicationAssumption DEF TypeOK, EndRollout, Steps
  <2>. QED
    BY <1>10, <2>1, <2>2 DEF TypeOK, EndRollout, files, streams
<1>11. ASSUME Crash PROVE TypeOK'
  BY <1>11, NewPortsTyped, EmptySets DEF TypeOK, Crash, files, streams
<1>12. ASSUME NEW l \in Launches, StartStream(l) PROVE TypeOK'
  BY <1>12 DEF TypeOK, StartStream, Active, files, trainer, ports
<1>13. ASSUME NEW l \in Launches, WriteTensors(l) PROVE TypeOK'
  <2>1. payload[l] \in Weights
    BY DEF TypeOK
  <2>2. tensors' \subseteq Weights
    BY <1>13, <2>1 DEF TypeOK, WriteTensors
  <2>3. doubled' \subseteq {TensorFile(w) : w \in Weights}
                           \cup {ManifestFile(q) : q \in Request}
    <3>1. doubled \subseteq {TensorFile(w) : w \in Weights}
                            \cup {ManifestFile(q) : q \in Request}
      BY DEF TypeOK
    <3>2. TensorFile(payload[l]) \in {TensorFile(w) : w \in Weights}
      BY <2>1
    <3>3. doubled' \in {doubled, doubled \cup {TensorFile(payload[l])}}
      BY <1>13 DEF WriteTensors
    <3>. QED
      BY <3>1, <3>2, <3>3
  <2>4. phase' \in [Launches -> Active \cup {"none", "done", "refused", "failed"}]
    BY <1>13 DEF TypeOK, WriteTensors, Active
  <2>. QED
    BY <1>13, <2>2, <2>3, <2>4 DEF TypeOK, WriteTensors, trainer, ports
<1>14. ASSUME NEW l \in Launches, UnlinkTensors(l) PROVE TypeOK'
  BY <1>14 DEF TypeOK, UnlinkTensors, Active, trainer, ports
<1>15. ASSUME NEW l \in Launches, WriteManifest(l) PROVE TypeOK'
  <2>1. \A q \in target[l] : q \in Request
    BY NoneOrOneHas DEF TypeOK
  <2>2. {payload[l]} \in NoneOrOne(Weights)
    BY NoneOrOneHas DEF TypeOK
  <2>3. manifest' \in [Request -> NoneOrOne(Weights)]
    BY <1>15, <2>1, <2>2 DEF TypeOK, WriteManifest
  <2>4. doubled' \subseteq {TensorFile(w) : w \in Weights}
                           \cup {ManifestFile(q) : q \in Request}
    <3>1. doubled \subseteq {TensorFile(w) : w \in Weights}
                            \cup {ManifestFile(q) : q \in Request}
      BY DEF TypeOK
    <3>2. \A q \in target[l] : ManifestFile(q) \in {ManifestFile(x) : x \in Request}
      BY <2>1
    <3>3. \/ doubled' = doubled
          \/ \E q \in target[l] : doubled' = doubled \cup {ManifestFile(q)}
      BY <1>15 DEF WriteManifest
    <3>. QED
      BY <3>1, <3>2, <3>3
  <2>5. phase' \in [Launches -> Active \cup {"none", "done", "refused", "failed"}]
    BY <1>15 DEF TypeOK, WriteManifest, Active
  <2>6. late' \in BOOLEAN
    BY <1>15 DEF TypeOK, WriteManifest
  <2>. QED
    BY <1>15, <2>3, <2>4, <2>5, <2>6 DEF TypeOK, WriteManifest, trainer, ports
<1>16. ASSUME NEW l \in Launches, UnlinkManifest(l) PROVE TypeOK'
  BY <1>16 DEF TypeOK, UnlinkManifest, Active, trainer, ports
<1>17. ASSUME NEW l \in Launches, ReplacePointer(l) PROVE TypeOK'
  <2>1. PICK q \in target[l] : pointer' = {[request |-> q, weights |-> payload[l]]}
    BY <1>17 DEF ReplacePointer
  <2>2. q \in Request
    BY NoneOrOneHas DEF TypeOK
  <2>3. [request |-> q, weights |-> payload[l]] \in Value
    BY <2>2 DEF TypeOK, Value
  <2>4. pointer' \in NoneOrOne(Value)
    BY <2>1, <2>3, NoneOrOneHas
  <2>5. late' \in BOOLEAN
    BY <1>17 DEF TypeOK, ReplacePointer
  <2>. QED
    BY <1>17, <2>4, <2>5 DEF TypeOK, ReplacePointer, trainer, ports
<1>18. ASSUME NEW l \in Launches, EndStream(l) PROVE TypeOK'
  BY <1>18, PublicationAssumption, NoneOrOneHas, VersionTypes
     DEF TypeOK, EndStream, files, trainer, streams, ports
<1>19. ASSUME NEW r \in Readers, BuildRead(r) PROVE TypeOK'
  BY <1>19, PublicationAssumption, NoneOrOneHas, VersionTypes
     DEF TypeOK, BuildRead, files, trainer, streams, ports
<1>20. ASSUME NEW r \in Readers, BuildLoad(r) PROVE TypeOK'
  BY <1>20, PublicationAssumption, NoneOrOneHas, VersionTypes
     DEF TypeOK, BuildLoad, files, trainer, streams, ports
<1>21. ASSUME NEW r \in Readers, BuildSign(r) PROVE TypeOK'
  BY <1>21, PublicationAssumption, NoneOrOneHas, VersionTypes
     DEF TypeOK, BuildSign, files, trainer, streams, ports
<1>22. ASSUME NEW r \in Readers, Ask(r) PROVE TypeOK'
  BY <1>22, PublicationAssumption, NoneOrOneHas, VersionTypes
     DEF TypeOK, Ask, files, trainer, streams, ports
<1>23. ASSUME NEW r \in Readers, AskRead(r) PROVE TypeOK'
  BY <1>23, PublicationAssumption, NoneOrOneHas, VersionTypes
     DEF TypeOK, AskRead, files, trainer, streams, ports
<1>24. ASSUME NEW r \in Readers, AskLoad(r) PROVE TypeOK'
  BY <1>24, PublicationAssumption, NoneOrOneHas, VersionTypes
     DEF TypeOK, AskLoad, files, trainer, streams, ports
<1>25. ASSUME NEW r \in Readers, RefuseLoad(r) PROVE TypeOK'
  BY <1>25, NewPortsTyped, EmptySets DEF TypeOK, RefuseLoad, files, streams
<1>26. ASSUME UNCHANGED vars PROVE TypeOK'
  BY <1>26, PublicationAssumption, NoneOrOneHas, VersionTypes
     DEF TypeOK, vars, files, trainer, streams, ports
<1>. QED
  BY <1>1, <1>2, <1>3, <1>4, <1>5, <1>6, <1>7, <1>8, <1>9, <1>10, <1>11, <1>12, <1>13,
         <1>14, <1>15, <1>16, <1>17, <1>18, <1>19, <1>20, <1>21, <1>22, <1>23, <1>24,
         <1>25, <1>26
     DEF Next, Trainer, Stream, Port

-----------------------------------------------------------------------------
(* The files.                                                              *)

(* Immutable files stay.                                                   *)
LEMMA FilesGrow ==
    ASSUME TypeOK, [Next]_vars
    PROVE  /\ tensors \subseteq tensors'
           /\ \A q \in Request : manifest[q] # {} => manifest'[q] = manifest[q]
<1>1. ASSUME NEW l \in Launches, WriteTensors(l)
      PROVE  tensors \subseteq tensors' /\ UNCHANGED manifest
  BY <1>1 DEF WriteTensors
<1>2. ASSUME NEW l \in Launches, WriteManifest(l)
      PROVE  /\ UNCHANGED tensors
             /\ \A q \in Request : manifest[q] # {} => manifest'[q] = manifest[q]
  BY <1>2 DEF TypeOK, WriteManifest
<1>3. ASSUME NEW l \in Launches,
             \/ StartStream(l) \/ UnlinkTensors(l) \/ UnlinkManifest(l)
             \/ ReplacePointer(l) \/ EndStream(l)
      PROVE  UNCHANGED <<tensors, manifest>>
  BY <1>3 DEF StartStream, UnlinkTensors, UnlinkManifest, ReplacePointer, EndStream, files
<1>4. ASSUME Trainer PROVE UNCHANGED <<tensors, manifest>>
  BY <1>4, TrainerFrame
<1>5. ASSUME NEW r \in Readers, Port(r) PROVE UNCHANGED <<tensors, manifest>>
  BY <1>5, PortFrame DEF files
<1>6. ASSUME UNCHANGED vars PROVE UNCHANGED <<tensors, manifest>>
  BY <1>6 DEF vars, files
<1>. QED
  BY <1>1, <1>2, <1>3, <1>4, <1>5, <1>6 DEF Next, Stream

(* What a reader may load, it may load for ever.                           *)
LEMMA ClosedStays ==
    ASSUME TypeOK, [Next]_vars, NEW v \in Value, Closed(v)
    PROVE  Closed(v)'
<1>1. v.request \in Request
  BY DEF Value
<1>. QED
  BY <1>1, FilesGrow DEF Closed

(* The pointer is replaced by streams only; trainer and ports take what is  *)
(* in it, or forget what they had.                                         *)
LEMMA PointerStep ==
    ASSUME TypeOK, [Next]_vars
    PROVE  \/ UNCHANGED pointer
           \/ /\ \E l \in Launches : \E q \in target[l] :
                    /\ phase[l] = "pointer"
                    /\ pointer' = {[request |-> q, weights |-> payload[l]]}
                    /\ late' = (late \/ l # launch)
              /\ UNCHANGED <<manifest, tensors, trainer, ports>>
<1>1. ASSUME NEW l \in Launches, Stream(l), ~ReplacePointer(l) PROVE UNCHANGED pointer
  BY <1>1 DEF Stream, StartStream, WriteTensors, UnlinkTensors, WriteManifest,
              UnlinkManifest, EndStream, files
<1>2. ASSUME Trainer PROVE UNCHANGED pointer
  BY <1>2, TrainerFrame
<1>3. ASSUME NEW r \in Readers, Port(r) PROVE UNCHANGED pointer
  BY <1>3, PortFrame DEF files
<1>4. ASSUME UNCHANGED vars PROVE UNCHANGED pointer
  BY <1>4 DEF vars, files
<1>5. ASSUME NEW l \in Launches, ReplacePointer(l)
      PROVE  /\ \E q \in target[l] :
                    /\ phase[l] = "pointer"
                    /\ pointer' = {[request |-> q, weights |-> payload[l]]}
                    /\ late' = (late \/ l # launch)
             /\ UNCHANGED <<manifest, tensors, trainer, ports>>
  BY <1>5 DEF ReplacePointer
<1>. QED
  BY <1>1, <1>2, <1>3, <1>4, <1>5 DEF Next

(* Trainer and ports take what is in the pointer, or forget what they had. *)
LEMMA ReadStep ==
    ASSUME TypeOK, [Next]_vars
    PROVE  /\ candidate' \in {candidate, {}, pointer}
           /\ \A r \in Readers : got'[r] \in {got[r], {}, pointer}
<1>1. ASSUME NEW l \in Launches, Stream(l) PROVE UNCHANGED <<candidate, got>>
  BY <1>1, StreamFrame DEF trainer, ports
<1>2. ASSUME PublishRequest \/ UpstreamReturns \/ UpstreamRaises \/ RefusePointer
             \/ SaveCheckpoint \/ NoCheckpoint \/ EndRollout
      PROVE  UNCHANGED <<candidate, got>>
  BY <1>2 DEF PublishRequest, UpstreamReturns, UpstreamRaises, RefusePointer,
              SaveCheckpoint, NoCheckpoint, EndRollout, ports
<1>3. ASSUME VerifyPointer PROVE candidate' = pointer /\ UNCHANGED got
  BY <1>3 DEF VerifyPointer, ports
<1>4. ASSUME VerifyClosure PROVE candidate' = {} /\ UNCHANGED got
  BY <1>4 DEF VerifyClosure, ports
<1>5. ASSUME Launch \/ Crash \/ \E r \in Readers : RefuseLoad(r)
      PROVE  candidate' = {} /\ \A r \in Readers : got'[r] = {}
  BY <1>5 DEF Launch, Crash, RefuseLoad, NewPorts
<1>6. ASSUME NEW r \in Readers, BuildRead(r) \/ AskRead(r)
      PROVE  UNCHANGED candidate /\ got' = [got EXCEPT ![r] = pointer]
  BY <1>6 DEF BuildRead, AskRead, trainer
<1>7. ASSUME NEW r \in Readers, BuildLoad(r) \/ AskLoad(r)
      PROVE  UNCHANGED candidate /\ got' = [got EXCEPT ![r] = {}]
  BY <1>7 DEF BuildLoad, AskLoad, trainer
<1>8. ASSUME NEW r \in Readers, BuildSign(r) \/ Ask(r) PROVE UNCHANGED <<candidate, got>>
  BY <1>8 DEF BuildSign, Ask, trainer
<1>9. ASSUME UNCHANGED vars PROVE UNCHANGED <<candidate, got>>
  BY <1>9 DEF vars, trainer, ports
<1>. QED
  BY <1>1, <1>2, <1>3, <1>4, <1>5, <1>6, <1>7, <1>8, <1>9 DEF TypeOK, Next, Trainer, Port

(* A file gets a second name only when it is made.                         *)
LEMMA DoubledStep ==
    ASSUME TypeOK, [Next]_vars
    PROVE  \/ doubled' \subseteq doubled
           \/ \E l \in Launches :
                 /\ phase' = [phase EXCEPT ![l] = "tensors linked"]
                 /\ payload[l] \notin tensors /\ payload[l] \in tensors'
                 /\ ~Locked("tensors linked")
                 /\ doubled' = doubled \cup {TensorFile(payload[l])}
                 /\ UNCHANGED <<target, payload, outcome, pc, late>>
           \/ \E l \in Launches : \E q \in target[l] :
                 /\ phase' = [phase EXCEPT ![l] = "manifest linked"]
                 /\ manifest[q] = {} /\ manifest'[q] # {}
                 /\ ~Locked("manifest linked")
                 /\ doubled' = doubled \cup {ManifestFile(q)}
                 /\ UNCHANGED <<target, payload, outcome, pc>>
<1>1. ASSUME NEW l \in Launches, WriteTensors(l), doubled' # doubled
      PROVE  /\ phase' = [phase EXCEPT ![l] = "tensors linked"]
             /\ payload[l] \notin tensors /\ payload[l] \in tensors'
             /\ ~Locked("tensors linked")
             /\ doubled' = doubled \cup {TensorFile(payload[l])}
             /\ UNCHANGED <<target, payload, outcome, pc, late>>
  BY <1>1 DEF WriteTensors, trainer
<1>2. ASSUME NEW l \in Launches, WriteManifest(l), doubled' # doubled
      PROVE  \E q \in target[l] :
                 /\ phase' = [phase EXCEPT ![l] = "manifest linked"]
                 /\ manifest[q] = {} /\ manifest'[q] # {}
                 /\ ~Locked("manifest linked")
                 /\ doubled' = doubled \cup {ManifestFile(q)}
                 /\ UNCHANGED <<target, payload, outcome, pc>>
  <2>1. PICK q \in target[l] :
            /\ manifest[q] = {}
            /\ manifest' = [manifest EXCEPT ![q] = {payload[l]}]
            /\ doubled' = doubled \cup {ManifestFile(q)}
            /\ phase' = [phase EXCEPT ![l] = "manifest linked"]
    BY <1>2 DEF WriteManifest
  <2>2. q \in Request
    BY NoneOrOneHas DEF TypeOK
  <2>3. manifest'[q] = {payload[l]}
    BY <2>1, <2>2 DEF TypeOK
  <2>. QED
    BY <1>2, <2>1, <2>3 DEF WriteManifest, trainer
<1>3. ASSUME NEW l \in Launches,
             \/ StartStream(l) \/ UnlinkTensors(l) \/ UnlinkManifest(l)
             \/ ReplacePointer(l) \/ EndStream(l)
      PROVE  doubled' \subseteq doubled
  BY <1>3 DEF StartStream, UnlinkTensors, UnlinkManifest, ReplacePointer, EndStream, files
<1>4. ASSUME Trainer PROVE UNCHANGED doubled
  BY <1>4, TrainerFrame
<1>5. ASSUME NEW r \in Readers, Port(r) PROVE UNCHANGED doubled
  BY <1>5, PortFrame DEF files
<1>6. ASSUME UNCHANGED vars PROVE UNCHANGED doubled
  BY <1>6 DEF vars, files
<1>. QED
  BY <1>1, <1>2, <1>3, <1>4, <1>5, <1>6 DEF Next, Stream

(* The two kinds of files are different, and named by what they hold.      *)
LEMMA FileNames ==
    /\ \A x, y : TensorFile(x) # ManifestFile(y)
    /\ \A x, y : TensorFile(x) = TensorFile(y) <=> x = y
    /\ \A x, y : ManifestFile(x) = ManifestFile(y) <=> x = y
  BY DEF TensorFile, ManifestFile

(* Every action keeps what was read complete.                              *)
LEMMA FilesStep ==
    ASSUME TypeOK, TypeOK', FilesInv, StreamInv, [Next]_vars
    PROVE  FilesInv'
<1>1. ASSUME NEW w \in Weights, TensorFile(w) \in doubled' PROVE w \in tensors'
  <2>1. CASE TensorFile(w) \in doubled
    BY <2>1, FilesGrow DEF FilesInv
  <2>2. CASE TensorFile(w) \notin doubled
    <3>1. CASE doubled' \subseteq doubled
      BY <1>1, <2>2, <3>1
    <3>2. ASSUME NEW l \in Launches, payload[l] \in tensors',
                 doubled' = doubled \cup {TensorFile(payload[l])}
          PROVE  w \in tensors'
      BY <1>1, <2>2, <3>2, FileNames
    <3>3. ASSUME NEW q, doubled' = doubled \cup {ManifestFile(q)} PROVE FALSE
      BY <1>1, <2>2, <3>3, FileNames
    <3>. QED
      BY <3>1, <3>2, <3>3, DoubledStep
  <2>. QED
    BY <2>1, <2>2
<1>2. ASSUME NEW q \in Request, ManifestFile(q) \in doubled' PROVE manifest'[q] # {}
  <2>1. CASE ManifestFile(q) \in doubled
    BY <2>1, FilesGrow DEF FilesInv
  <2>2. CASE ManifestFile(q) \notin doubled
    <3>1. CASE doubled' \subseteq doubled
      BY <1>2, <2>2, <3>1
    <3>2. ASSUME NEW w, doubled' = doubled \cup {TensorFile(w)} PROVE FALSE
      BY <1>2, <2>2, <3>2, FileNames
    <3>3. ASSUME NEW x, manifest'[x] # {}, doubled' = doubled \cup {ManifestFile(x)}
          PROVE  manifest'[q] # {}
      BY <1>2, <2>2, <3>3, FileNames
    <3>. QED
      BY <3>1, <3>2, <3>3, DoubledStep
  <2>. QED
    BY <2>1, <2>2
<1>3. ASSUME NEW v \in pointer' PROVE Closed(v)'
  <2>1. v \in Value
    BY NoneOrOneHas DEF TypeOK
  <2>2. CASE UNCHANGED pointer
    BY <2>1, <2>2, <1>3, ClosedStays DEF FilesInv
  <2>3. ASSUME NEW l \in Launches, NEW q \in target[l], phase[l] = "pointer",
               pointer' = {[request |-> q, weights |-> payload[l]]},
               UNCHANGED <<manifest, tensors>>
        PROVE  Closed(v)'
    <3>1. manifest[q] = {payload[l]} /\ payload[l] \in tensors
      BY <2>3 DEF StreamInv, HasManifest, HasTensors
    <3>. QED
      BY <1>3, <2>3, <3>1 DEF Closed
  <2>. QED
    BY <2>2, <2>3, PointerStep
<1>4. \A v \in pointer : v \in Value /\ Closed(v)'
  BY ClosedStays, NoneOrOneHas DEF TypeOK, FilesInv
<1>5. ASSUME NEW v \in candidate' PROVE Closed(v)'
  BY <1>4, <1>5, ReadStep, ClosedStays, NoneOrOneHas DEF TypeOK, FilesInv
<1>6. ASSUME NEW r \in Readers, NEW v \in got'[r] PROVE Closed(v)'
  <2>1. got[r] \in NoneOrOne(Value) /\ got'[r] \in {got[r], {}, pointer}
    BY ReadStep DEF TypeOK
  <2>2. \A x \in got[r] : x \in Value /\ Closed(x)
    BY <2>1, NoneOrOneHas DEF FilesInv
  <2>. QED
    BY <1>4, <1>6, <2>1, <2>2, ClosedStays
<1>. QED
  BY <1>1, <1>2, <1>3, <1>5, <1>6 DEF FilesInv

-----------------------------------------------------------------------------
(* The streams.                                                            *)

(* Only the trainer replaces the request, by its own.                      *)
LEMMA RequestStep ==
    ASSUME TypeOK, [Next]_vars
    PROVE  \/ UNCHANGED request
           \/ /\ pc = "request" /\ pc' = "upstream"
              /\ request' = {Own} /\ UNCHANGED <<launch, step>>
<1>1. ASSUME NEW l \in Launches, Stream(l) PROVE UNCHANGED request
  BY <1>1, StreamFrame
<1>2. ASSUME Trainer, ~PublishRequest PROVE UNCHANGED request
  BY <1>2, TrainerFrame
<1>3. ASSUME NEW r \in Readers, Port(r) PROVE UNCHANGED request
  BY <1>3, PortFrame DEF files
<1>4. ASSUME UNCHANGED vars PROVE UNCHANGED request
  BY <1>4 DEF vars, files
<1>5. ASSUME PublishRequest
      PROVE  /\ pc = "request" /\ pc' = "upstream"
             /\ request' = {Own} /\ UNCHANGED <<launch, step>>
  BY <1>5 DEF PublishRequest, Own
<1>. QED
  BY <1>1, <1>2, <1>3, <1>4, <1>5 DEF Next

(* What a step may do to the stream of a launch.                           *)
Begins(l) ==
    /\ l = launch /\ pc = "request" /\ pc' = "upstream"
    /\ phase'[l] = "start" /\ target'[l] = {} /\ payload'[l] = actor
    /\ request' # {}
Starts(l) ==
    /\ phase[l] = "start" /\ phase'[l] = "tensors"
    /\ target'[l] = request
    /\ UNCHANGED <<payload[l], trainer, request>>
Advances(l) ==
    /\ UNCHANGED <<target[l], payload[l], trainer, request>>
    /\ \/ /\ phase[l] = "tensors"
          /\ \/ phase'[l] = "tensors linked" /\ payload[l] \in tensors'
             \/ phase'[l] = "manifest" /\ payload[l] \in tensors
             \/ phase'[l] = "refused" /\ TensorFile(payload[l]) \in doubled
                /\ ~Locked("tensors linked") /\ UNCHANGED <<doubled, tensors>>
       \/ phase[l] = "tensors linked" /\ phase'[l] = "manifest"
       \/ /\ phase[l] = "manifest" /\ late' = (late \/ l # launch)
          /\ \E q \in target[l] :
                \/ phase'[l] = "manifest linked" /\ manifest'[q] = {payload[l]}
                \/ phase'[l] = "pointer" /\ manifest'[q] = {payload[l]}
                \/ phase'[l] = "refused" /\ manifest[q] # {}
       \/ phase[l] = "manifest linked" /\ phase'[l] = "pointer"
       \/ /\ phase[l] = "pointer" /\ phase'[l] = "done"
          /\ \E q \in target[l] : pointer' = {[request |-> q, weights |-> payload[l]]}
       \/ phase[l] \in Active /\ phase'[l] = "failed"

(* Every step of a stream is one of these.                                 *)
LEMMA StreamMoves ==
    ASSUME TypeOK, [Next]_vars, NEW l \in Launches
    PROVE  \/ UNCHANGED <<phase[l], target[l], payload[l]>>
           \/ Begins(l) \/ Starts(l) \/ Advances(l)
<1>. DEFINE Goal == \/ UNCHANGED <<phase[l], target[l], payload[l]>>
                    \/ Begins(l) \/ Starts(l) \/ Advances(l)
<1>1. ASSUME PublishRequest PROVE Goal
  BY <1>1 DEF TypeOK, PublishRequest, Begins
<1>2. ASSUME NEW k \in Launches, StartStream(k) PROVE Goal
  BY <1>2 DEF TypeOK, StartStream, Starts, files
<1>3. ASSUME NEW k \in Launches, WriteTensors(k) PROVE Goal
  BY <1>3 DEF TypeOK, WriteTensors, Advances
<1>4. ASSUME NEW k \in Launches, UnlinkTensors(k) PROVE Goal
  BY <1>4 DEF TypeOK, UnlinkTensors, Advances
<1>5. ASSUME NEW k \in Launches, WriteManifest(k) PROVE Goal
  <2>1. CASE k # l
    BY <1>5, <2>1 DEF TypeOK, WriteManifest
  <2>2. CASE k = l
    <3>1. PICK q \in target[l] :
            IF manifest[q] = {}
            THEN /\ manifest' = [manifest EXCEPT ![q] = {payload[l]}]
                 /\ phase' = [phase EXCEPT ![l] = "manifest linked"]
            ELSE /\ phase' = [phase EXCEPT ![l] =
                        IF manifest[q] = {payload[l]} /\ ManifestFile(q) \notin doubled
                        THEN "pointer" ELSE "refused"]
                 /\ UNCHANGED manifest
      BY <1>5, <2>2 DEF WriteManifest
    <3>2. q \in Request
      BY NoneOrOneHas DEF TypeOK
    <3>3. \/ phase'[l] = "manifest linked" /\ manifest'[q] = {payload[l]}
          \/ phase'[l] = "pointer" /\ manifest'[q] = {payload[l]}
          \/ phase'[l] = "refused" /\ manifest[q] # {}
      BY <3>1, <3>2 DEF TypeOK
    <3>. QED
      BY <1>5, <2>2, <3>3 DEF WriteManifest, Advances
  <2>. QED
    BY <2>1, <2>2
<1>6. ASSUME NEW k \in Launches, UnlinkManifest(k) PROVE Goal
  BY <1>6 DEF TypeOK, UnlinkManifest, Advances
<1>7. ASSUME NEW k \in Launches, ReplacePointer(k) PROVE Goal
  BY <1>7 DEF TypeOK, ReplacePointer, Advances
<1>8. ASSUME NEW k \in Launches, EndStream(k) PROVE Goal
  BY <1>8 DEF TypeOK, EndStream, Advances
<1>9. ASSUME Trainer, ~PublishRequest PROVE UNCHANGED streams
  BY <1>9, TrainerFrame
<1>10. ASSUME NEW r \in Readers, Port(r) PROVE UNCHANGED streams
  BY <1>10, PortFrame
<1>11. ASSUME UNCHANGED vars PROVE UNCHANGED streams
  BY <1>11 DEF vars
<1>12. UNCHANGED streams => Goal
  BY DEF streams
<1>. HIDE DEF Goal
<1>13. Goal
  BY <1>1, <1>2, <1>3, <1>4, <1>5, <1>6, <1>7, <1>8, <1>9, <1>10, <1>11, <1>12
     DEF Next, Stream
<1>. QED
  BY <1>13 DEF Goal

(* Every action keeps the streams and the disk in step.                    *)
LEMMA StreamStep ==
    ASSUME TypeOK, TypeOK', FilesInv, StreamInv, [Next]_vars
    PROVE  StreamInv'
<1>. SUFFICES ASSUME NEW l \in Launches
              PROVE  /\ phase'[l] = "start" => request' # {}
                     /\ phase'[l] \in Writing => target'[l] # {}
                     /\ phase'[l] \in HasTensors => payload'[l] \in tensors'
                     /\ phase'[l] \in HasManifest =>
                           \A q \in target'[l] : manifest'[q] = {payload'[l]}
                     /\ phase'[l] = "done" => pointer' # {}
  BY DEF StreamInv, Writing, HasTensors, HasManifest
<1>0. /\ phase[l] = "start" => request # {}
      /\ phase[l] \in Writing => target[l] # {}
      /\ phase[l] \in HasTensors => payload[l] \in tensors
      /\ phase[l] \in HasManifest => \A q \in target[l] : manifest[q] = {payload[l]}
      /\ phase[l] = "done" => pointer # {}
  BY DEF StreamInv
<1>1. request # {} => request' # {}
  BY RequestStep
<1>2. pointer # {} => pointer' # {}
  BY PointerStep
<1>3. \A q \in target[l] : q \in Request /\ target[l] = {q}
  BY NoneOrOneHas DEF TypeOK
<1>4. CASE UNCHANGED <<phase[l], target[l], payload[l]>>
  BY <1>0, <1>1, <1>2, <1>3, <1>4, FilesGrow DEF Writing, HasTensors, HasManifest
<1>5. CASE Begins(l)
  BY <1>5, RequestStep DEF Begins, Writing, HasTensors, HasManifest
<1>6. CASE Starts(l)
  BY <1>0, <1>6 DEF Starts, Writing, HasTensors, HasManifest
<1>7. CASE Advances(l)
  <2>1. /\ phase'[l] # "start" /\ UNCHANGED <<target[l], payload[l]>>
        /\ phase'[l] \in Writing => phase[l] \in Writing
        /\ phase'[l] = "done" => pointer' # {}
    BY <1>7 DEF Advances, Writing, Active
  <2>2. phase'[l] \in HasTensors => payload[l] \in tensors'
    BY <1>0, <1>7, FilesGrow DEF Advances, HasTensors, Active
  <2>3. phase'[l] \in HasManifest => \A q \in target[l] : manifest'[q] = {payload[l]}
    BY <1>0, <1>3, <1>7, FilesGrow DEF Advances, HasManifest, Active
  <2>. QED
    BY <1>0, <2>1, <2>2, <2>3
<1>. QED
  BY <1>4, <1>5, <1>6, <1>7, StreamMoves

-----------------------------------------------------------------------------
(* The requests.                                                           *)

(* A manifest appears only by the stream that answers its request.         *)
LEMMA ManifestStep ==
    ASSUME TypeOK, [Next]_vars
    PROVE  \/ UNCHANGED manifest
           \/ \E l \in Launches : \E q \in target[l] :
                 /\ phase[l] = "manifest" /\ manifest[q] = {}
                 /\ manifest' = [manifest EXCEPT ![q] = {payload[l]}]
                 /\ phase' = [phase EXCEPT ![l] = "manifest linked"]
                 /\ late' = (late \/ l # launch)
                 /\ UNCHANGED <<request, pointer, trainer, target, payload, ports>>
<1>1. ASSUME NEW l \in Launches, WriteManifest(l), manifest' # manifest
      PROVE  \E q \in target[l] :
                 /\ phase[l] = "manifest" /\ manifest[q] = {}
                 /\ manifest' = [manifest EXCEPT ![q] = {payload[l]}]
                 /\ phase' = [phase EXCEPT ![l] = "manifest linked"]
                 /\ late' = (late \/ l # launch)
                 /\ UNCHANGED <<request, pointer, trainer, target, payload, ports>>
  BY <1>1 DEF WriteManifest
<1>2. ASSUME NEW l \in Launches, Stream(l), ~WriteManifest(l) PROVE UNCHANGED manifest
  BY <1>2 DEF Stream, StartStream, WriteTensors, UnlinkTensors, UnlinkManifest,
              ReplacePointer, EndStream, files
<1>3. ASSUME Trainer PROVE UNCHANGED manifest
  BY <1>3, TrainerFrame
<1>4. ASSUME NEW r \in Readers, Port(r) PROVE UNCHANGED manifest
  BY <1>4, PortFrame DEF files
<1>5. ASSUME UNCHANGED vars PROVE UNCHANGED manifest
  BY <1>5 DEF vars, files
<1>. QED
  BY <1>1, <1>2, <1>3, <1>4, <1>5 DEF Next

(* Launch and step only grow, and a new request is due when they do.       *)
LEMMA ClockStep ==
    ASSUME TypeOK, [Next]_vars
    PROVE  \/ UNCHANGED <<launch, step, actor>> /\ (pc' # "request" \/ UNCHANGED pc)
           \/ launch' = launch + 1
           \/ UNCHANGED launch /\ step' = step + 1
<1>1. ASSUME Launch PROVE launch' = launch + 1
  BY <1>1 DEF Launch
<1>2. ASSUME EndRollout
      PROVE  \/ UNCHANGED <<launch, step, actor>> /\ pc' # "request"
             \/ UNCHANGED launch /\ step' = step + 1
  BY <1>2 DEF EndRollout
<1>3. ASSUME \/ PublishRequest \/ UpstreamReturns \/ UpstreamRaises \/ VerifyPointer
             \/ RefusePointer \/ VerifyClosure \/ SaveCheckpoint \/ NoCheckpoint \/ Crash
      PROVE  UNCHANGED <<launch, step, actor>> /\ pc' # "request"
  BY <1>3 DEF PublishRequest, UpstreamReturns, UpstreamRaises, VerifyPointer,
              RefusePointer, VerifyClosure, SaveCheckpoint, NoCheckpoint, Crash
<1>4. ASSUME NEW l \in Launches, Stream(l) PROVE UNCHANGED <<launch, step, actor, pc>>
  BY <1>4, StreamFrame DEF trainer
<1>5. ASSUME NEW r \in Readers, Port(r)
      PROVE  UNCHANGED <<launch, step, actor>> /\ (pc' # "request" \/ UNCHANGED pc)
  BY <1>5 DEF Port, BuildRead, BuildLoad, BuildSign, Ask, AskRead, AskLoad, RefuseLoad,
         trainer
<1>6. ASSUME UNCHANGED vars PROVE UNCHANGED <<launch, step, actor, pc>>
  BY <1>6 DEF vars, trainer
<1>. QED
  BY <1>1, <1>2, <1>3, <1>4, <1>5, <1>6 DEF Next, Trainer

(* A request that was made stays made.                                     *)
LEMMA IssuedStays ==
    ASSUME TypeOK, TypeOK', [Next]_vars, NEW q \in Request, Issued(q)
    PROVE  Issued(q)'
<1>1. /\ q.launch \in Nat /\ q.step \in Nat /\ launch \in Nat /\ step \in Nat
  BY PublicationAssumption DEF TypeOK, Request, Launches, Steps
<1>. QED
  BY <1>1, ClockStep DEF Issued

(* Every action keeps that only requests made by now are known.            *)
LEMMA IssuedInvStep ==
    ASSUME TypeOK, TypeOK', IssuedInv, [Next]_vars
    PROVE  IssuedInv'
<1>1. ASSUME NEW q \in request' PROVE Issued(q)'
  <2>1. CASE UNCHANGED request
    BY <1>1, <2>1, IssuedStays, NoneOrOneHas DEF TypeOK, IssuedInv
  <2>2. CASE pc' = "upstream" /\ request' = {Own} /\ UNCHANGED <<launch, step>>
    BY <1>1, <2>2 DEF Issued, Own
  <2>. QED
    BY <2>1, <2>2, RequestStep
<1>2. ASSUME NEW l \in Launches, NEW q \in target'[l] PROVE Issued(q)'
  <2>1. target'[l] \in {target[l], {}, request}
    BY StreamMoves DEF Begins, Starts, Advances
  <2>2. \A x \in target[l] : x \in Request /\ Issued(x)
    BY NoneOrOneHas DEF TypeOK, IssuedInv
  <2>3. \A x \in request : x \in Request /\ Issued(x)
    BY NoneOrOneHas DEF TypeOK, IssuedInv
  <2>. QED
    BY <1>2, <2>1, <2>2, <2>3, IssuedStays
<1>3. ASSUME NEW q \in Request, manifest'[q] # {} PROVE Issued(q)'
  <2>1. CASE manifest[q] # {}
    BY <2>1, IssuedStays DEF IssuedInv
  <2>2. CASE manifest[q] = {}
    <3>0. ~UNCHANGED manifest
      BY <1>3, <2>2
    <3>1. PICK l \in Launches : \E x \in target[l] :
              manifest' = [manifest EXCEPT ![x] = {payload[l]}]
      BY <3>0, ManifestStep
    <3>3. PICK x \in target[l] : manifest' = [manifest EXCEPT ![x] = {payload[l]}]
      BY <3>1
    <3>2. q = x
      BY <1>3, <2>2, <3>3 DEF TypeOK
    <3>. QED
      BY <3>2, IssuedStays DEF IssuedInv
  <2>. QED
    BY <2>1, <2>2
<1>. QED
  BY <1>1, <1>2, <1>3 DEF IssuedInv

-----------------------------------------------------------------------------
(* The trainer.                                                            *)

(* Every action keeps what the trainer knows at each place of the sync.    *)
LEMMA TrainerStep ==
    ASSUME TypeOK, TypeOK', FilesInv, StreamInv, TrainerInv, [Next]_vars
    PROVE  TrainerInv'
<1>1. CASE Launch
  <2>1. launch' \in Launches
    BY <1>1, PublicationAssumption DEF TypeOK, Launch, Launches
  <2>. QED
    BY <1>1, <2>1 DEF Launch, TrainerInv, Syncing
<1>2. CASE PublishRequest
  <2>1. launch \in Launches
    BY <1>2 DEF TrainerInv, PublishRequest
  <2>. QED
    BY <1>2, <2>1 DEF TypeOK, PublishRequest, TrainerInv, Syncing, Writing, Own
<1>3. CASE UpstreamReturns
  BY <1>3 DEF UpstreamReturns, TrainerInv, Syncing, Own, Now, files, streams
<1>4. CASE UpstreamRaises \/ RefusePointer \/ Crash
  BY <1>4 DEF UpstreamRaises, RefusePointer, Crash, TrainerInv, Syncing
<1>5. CASE VerifyPointer
  <2>1. /\ phase[launch] = "done" /\ target[launch] = {Own} /\ payload[launch] = actor
        /\ launch \in Launches
    BY <1>5 DEF VerifyPointer, TrainerInv, Syncing, Writing
  <2>2. manifest[Own] = {actor}
    BY <2>1 DEF StreamInv, HasManifest
  <2>3. PICK p \in pointer : Answers(p)
    BY <1>5 DEF VerifyPointer
  <2>4. pointer = {p} /\ p \in Value /\ Closed(p)
    BY NoneOrOneHas DEF TypeOK, FilesInv
  <2>5. p.weights = actor /\ p.request = Own
    BY <2>2, <2>3, <2>4 DEF Closed, Answers, Own
  <2>6. p = Now
    BY <2>4, <2>5 DEF Value, Now
  <2>. QED
    BY <1>5, <2>4, <2>6 DEF VerifyPointer, TrainerInv, Syncing, Own, Now, files, streams
<1>6. CASE VerifyClosure
  BY <1>6 DEF VerifyClosure, TrainerInv, Syncing, Own, Now, files, streams
<1>7. CASE SaveCheckpoint
  BY <1>7 DEF SaveCheckpoint, TrainerInv, Syncing, Own, Now, streams
<1>8. CASE NoCheckpoint
  BY <1>8 DEF NoCheckpoint, TrainerInv, Syncing, Own, Now, files, streams
<1>9. CASE EndRollout
  BY <1>9 DEF EndRollout, TrainerInv, Syncing
<1>10. ASSUME NEW l \in Launches, Stream(l) PROVE TrainerInv'
  <2>1. UNCHANGED <<trainer, request>>
    BY <1>10 DEF Stream, StartStream, WriteTensors, UnlinkTensors, WriteManifest,
                 UnlinkManifest, ReplacePointer, EndStream, files
  <2>2. ASSUME pc \in Syncing
        PROVE  /\ launch \in Launches
               /\ request = {Own} /\ payload'[launch] = actor
               /\ phase'[launch] \in Writing => target'[launch] = {Own}
               /\ phase[launch] = "done" => phase'[launch] = "done"
    <3>1. /\ launch \in Launches
          /\ request = {Own} /\ payload[launch] = actor
          /\ phase[launch] \in Writing => target[launch] = {Own}
      BY <2>2 DEF TrainerInv, Syncing
    <3>2. ~Begins(launch)
      BY <2>1, <2>2 DEF Begins, Syncing, trainer
    <3>. QED
      BY <3>1, <3>2, StreamMoves DEF Starts, Advances, Writing, Active
  <2>. QED
    BY <2>1, <2>2 DEF TrainerInv, Syncing, Own, Now, trainer
<1>11. ASSUME NEW r \in Readers, RefuseLoad(r) PROVE TrainerInv'
  BY <1>11 DEF RefuseLoad, TrainerInv, Syncing
<1>12. ASSUME NEW r \in Readers, Port(r), ~RefuseLoad(r) PROVE TrainerInv'
  <2>1. UNCHANGED <<files, trainer, streams>>
    BY <1>12 DEF Port, BuildRead, BuildLoad, BuildSign, Ask, AskRead, AskLoad
  <2>. QED
    BY <2>1 DEF TrainerInv, Syncing, Own, Now, files, trainer, streams
<1>13. CASE UNCHANGED vars
  BY <1>13 DEF TrainerInv, Syncing, Own, Now, vars, files, trainer, streams
<1>. QED
  BY <1>1, <1>2, <1>3, <1>4, <1>5, <1>6, <1>7, <1>8, <1>9, <1>10, <1>11, <1>12, <1>13
     DEF Next, Trainer

-----------------------------------------------------------------------------
(* The ports.                                                              *)

(* Every action keeps that ports are in a call only during a rollout.      *)
LEMMA PortStep ==
    ASSUME TypeOK, TypeOK', PortInv, [Next]_vars
    PROVE  PortInv'
<1>1. CASE Launch \/ Crash
  BY <1>1 DEF Launch, Crash, NewPorts, PortInv
<1>2. ASSUME NEW r \in Readers, RefuseLoad(r) PROVE PortInv'
  BY <1>2 DEF RefuseLoad, NewPorts, PortInv
<1>3. CASE EndRollout
  BY <1>3 DEF EndRollout, PortInv
<1>4. ASSUME \/ PublishRequest \/ UpstreamReturns \/ UpstreamRaises \/ VerifyPointer
             \/ RefusePointer \/ VerifyClosure \/ SaveCheckpoint \/ NoCheckpoint
      PROVE  pc # "rolling" /\ UNCHANGED ports
  BY <1>4 DEF PublishRequest, UpstreamReturns, UpstreamRaises, VerifyPointer,
              RefusePointer, VerifyClosure, SaveCheckpoint, NoCheckpoint
<1>5. ASSUME NEW l \in Launches, Stream(l) PROVE UNCHANGED <<pc, ports>>
  BY <1>5, StreamFrame DEF trainer
<1>6. ASSUME NEW r \in Readers, BuildRead(r) PROVE PortInv'
  BY <1>6 DEF TypeOK, BuildRead, PortInv, trainer
<1>7. ASSUME NEW r \in Readers, BuildLoad(r) PROVE PortInv'
  BY <1>7 DEF TypeOK, BuildLoad, PortInv, trainer
<1>8. ASSUME NEW r \in Readers, BuildSign(r) PROVE PortInv'
  BY <1>8 DEF TypeOK, BuildSign, PortInv, trainer
<1>9. ASSUME NEW r \in Readers, Ask(r) PROVE PortInv'
  BY <1>9 DEF TypeOK, Ask, PortInv, trainer
<1>10. ASSUME NEW r \in Readers, AskRead(r) PROVE PortInv'
  BY <1>10 DEF TypeOK, AskRead, PortInv, trainer
<1>11. ASSUME NEW r \in Readers, AskLoad(r) PROVE PortInv'
  BY <1>11 DEF TypeOK, AskLoad, PortInv, trainer
<1>12. ASSUME UNCHANGED vars PROVE UNCHANGED <<pc, ports>>
  BY <1>12 DEF vars, trainer
<1>13. ASSUME UNCHANGED ports, pc # "rolling" \/ UNCHANGED pc PROVE PortInv'
  BY <1>13 DEF PortInv, ports
<1>. QED
  BY <1>1, <1>2, <1>3, <1>4, <1>5, <1>6, <1>7, <1>8, <1>9, <1>10, <1>11, <1>12, <1>13
     DEF Next, Trainer, Port

-----------------------------------------------------------------------------
(* The quiet launch.                                                       *)

(* A quiet launch was quiet before.                                        *)
LEMMA LateStays ==
    ASSUME TypeOK, [Next]_vars, ~late', ~Launch
    PROVE  ~late
<1>1. ASSUME NEW l \in Launches, Stream(l) PROVE ~late
  BY <1>1 DEF TypeOK, Stream, StartStream, WriteTensors, UnlinkTensors, WriteManifest,
              UnlinkManifest, ReplacePointer, EndStream
<1>2. ASSUME Trainer PROVE ~late
  BY <1>2 DEF Trainer, PublishRequest, UpstreamReturns, UpstreamRaises, VerifyPointer,
              RefusePointer, VerifyClosure, SaveCheckpoint, NoCheckpoint, EndRollout,
              Crash
<1>3. ASSUME NEW r \in Readers, Port(r) PROVE ~late
  BY <1>3 DEF Port, BuildRead, BuildLoad, BuildSign, Ask, AskRead, AskLoad, RefuseLoad
<1>4. ASSUME UNCHANGED vars PROVE ~late
  BY <1>4 DEF vars
<1>. QED
  BY <1>1, <1>2, <1>3, <1>4 DEF Next

(* A sync is one step of one launch.                                       *)
LEMMA SyncStep ==
    ASSUME TypeOK, [Next]_vars, pc' \in Syncing, ~PublishRequest
    PROVE  /\ pc \in Syncing /\ UNCHANGED <<launch, step, actor>>
           /\ pc' = "upstream" => pc = "upstream"
<1>1. ASSUME NEW l \in Launches, Stream(l) PROVE UNCHANGED <<pc, launch, step, actor>>
  BY <1>1, StreamFrame DEF trainer
<1>2. ASSUME Launch \/ UpstreamRaises \/ RefusePointer \/ EndRollout \/ Crash
             \/ \E r \in Readers : RefuseLoad(r)
      PROVE  pc' \notin Syncing
  BY <1>2 DEF Launch, UpstreamRaises, RefusePointer, EndRollout, Crash, RefuseLoad, Syncing
<1>3. ASSUME \/ UpstreamReturns \/ VerifyPointer \/ VerifyClosure
             \/ SaveCheckpoint \/ NoCheckpoint
      PROVE  pc \in Syncing /\ UNCHANGED <<launch, step, actor>> /\ pc' # "upstream"
  BY <1>3 DEF UpstreamReturns, VerifyPointer, VerifyClosure, SaveCheckpoint, NoCheckpoint,
         Syncing
<1>4. ASSUME NEW r \in Readers, Port(r), ~RefuseLoad(r)
      PROVE  UNCHANGED <<pc, launch, step, actor>>
  BY <1>4, PortFrame DEF trainer
<1>5. ASSUME UNCHANGED vars PROVE UNCHANGED <<pc, launch, step, actor>>
  BY <1>5 DEF vars, trainer
<1>. QED
  BY <1>1, <1>2, <1>3, <1>4, <1>5 DEF Next, Trainer

(* In a quiet launch the pointer keeps its answer.                         *)
LEMMA PointerQuietStep ==
    ASSUME TypeOK, TrainerInv, [Next]_vars, ~late, ~late', PointerQuiet
    PROVE  PointerQuiet'
<1>. SUFFICES ASSUME pc' \in Syncing, phase'[launch'] = "done" PROVE pointer' = {Now}'
  BY DEF PointerQuiet
<1>1. ~PublishRequest
  <2>1. SUFFICES ASSUME PublishRequest PROVE FALSE
    OBVIOUS
  <2>2. launch \in Launches
    BY <2>1 DEF TrainerInv, PublishRequest
  <2>. QED
    BY <2>1, <2>2 DEF TypeOK, PublishRequest
<1>2. pc \in Syncing /\ UNCHANGED <<launch, step, actor>>
  BY <1>1, SyncStep
<1>3. /\ launch \in Launches /\ payload[launch] = actor
      /\ phase[launch] \in Writing => target[launch] = {Own}
  BY <1>2 DEF TrainerInv, Syncing
<1>4. Now' = Now
  BY <1>2 DEF Now, Own
<1>5. CASE phase[launch] = "done"
  <2>1. pointer = {Now}
    BY <1>2, <1>5 DEF PointerQuiet
  <2>2. ASSUME NEW l \in Launches, phase[l] = "pointer", late' = (late \/ l # launch)
        PROVE  FALSE
    BY <1>5, <2>2
  <2>3. UNCHANGED pointer
    BY <2>2, PointerStep
  <2>. QED
    BY <1>4, <2>1, <2>3
<1>6. CASE phase[launch] # "done"
  <2>1. ~Begins(launch)
    BY <1>2 DEF Begins, Syncing
  <2>2. phase'[launch] = "done"
    BY <1>2
  <2>3. phase[launch] = "pointer"
        /\ \E q \in target[launch] :
              pointer' = {[request |-> q, weights |-> payload[launch]]}
    BY <1>3, <1>6, <2>1, <2>2, StreamMoves DEF Starts, Advances, Active
  <2>4. pointer' = {[request |-> Own, weights |-> actor]}
    BY <1>3, <2>3 DEF Writing
  <2>. QED
    BY <1>4, <2>4 DEF Now
<1>. QED
  BY <1>5, <1>6

(* In a quiet launch nobody else answers the request.                      *)
LEMMA AnswerQuietStep ==
    ASSUME TypeOK, IssuedInv, TrainerInv, [Next]_vars, ~late, ~late', AnswerQuiet
    PROVE  AnswerQuiet'
<1>. SUFFICES ASSUME pc' = "upstream", phase'[launch'] \in Unanswered
              PROVE  manifest'[Own'] = {}
  BY DEF AnswerQuiet
<1>1. CASE PublishRequest
  <2>1. launch \in Launches /\ pc = "request"
    BY <1>1 DEF TrainerInv, PublishRequest
  <2>2. Own \in Request /\ launch \in Nat /\ step \in Nat
    BY <2>1, PublicationAssumption DEF TypeOK, Own, Request, Steps, Launches
  <2>3. ~Issued(Own)
    BY <2>1, <2>2 DEF Issued, Own
  <2>4. manifest[Own] = {}
    BY <2>2, <2>3 DEF IssuedInv
  <2>5. Own' = Own /\ UNCHANGED manifest
    BY <1>1 DEF PublishRequest, Own
  <2>. QED
    BY <2>4, <2>5
<1>2. CASE ~PublishRequest
  <2>1. pc = "upstream" /\ UNCHANGED <<launch, step, actor>>
    BY <1>2, SyncStep DEF Syncing
  <2>2. launch \in Launches
    BY <2>1 DEF TrainerInv
  <2>3. ~Begins(launch)
    BY <2>1 DEF Begins
  <2>4. phase'[launch] \in Unanswered
    BY <2>1
  <2>5. phase[launch] \in Unanswered
    BY <2>2, <2>3, <2>4, StreamMoves DEF Starts, Advances, Active, Unanswered
  <2>6. manifest[Own] = {} /\ Own' = Own
    BY <2>1, <2>5 DEF AnswerQuiet, Own
  <2>7. ASSUME NEW l \in Launches, phase' = [phase EXCEPT ![l] = "manifest linked"],
               late' = (late \/ l # launch)
        PROVE  FALSE
    <3>1. l = launch
      BY <2>7
    <3>. QED
      BY <2>2, <2>4, <2>7, <3>1 DEF TypeOK, Unanswered
  <2>8. UNCHANGED manifest
    BY <2>7, ManifestStep
  <2>. QED
    BY <2>6, <2>8
<1>. QED
  BY <1>1, <1>2

(* Ports that are new know nothing.                                        *)
LEMMA NewPortsQuiet ==
    ASSUME NewPorts, NEW r \in Readers
    PROVE  PortQuiet(r)'
<1>1. /\ port'[r] = "new" /\ current'[r] = {} /\ answer'[r] = {}
  BY DEF NewPorts
<1>. QED
  BY <1>1 DEF PortQuiet

(* The version of this step's answer.                                      *)
LEMMA NowIs == VersionOf(Now) = Label /\ {VersionOf(v) : v \in {Now}} = {Label}
  BY DEF VersionOf, Now, Own, Label

(* In a quiet launch a port learns only this step's answer.                *)
LEMMA PortQuietStep ==
    ASSUME TypeOK, TypeOK', TrainerInv, PortInv, PointerQuiet, [Next]_vars,
           \A s \in Readers : PortQuiet(s), NEW r \in Readers
    PROVE  PortQuiet(r)'
<1>1. CASE Launch \/ Crash \/ \E s \in Readers : RefuseLoad(s)
  BY <1>1, NewPortsQuiet DEF Launch, Crash, RefuseLoad
<1>2. CASE EndRollout
  <2>1. /\ port[r] \in {"new", "idle"} /\ answer'[r] = {}
        /\ UNCHANGED <<port, current, signature>>
    BY <1>2 DEF EndRollout
  <2>2. step \in Nat /\ \A c \in current[r] : c.step \in Nat
    <3>1. current[r] \in NoneOrOne(Version) /\ step \in Nat
      BY PublicationAssumption DEF TypeOK, Steps
    <3>2. \A c \in current[r] : c \in Version
      BY <3>1, NoneOrOneHas
    <3>. QED
      BY <3>1, <3>2, PublicationAssumption DEF Version, Steps
  <2>3. ASSUME NEW c \in current[r]
        PROVE  c.step < step' \/ (pc' \in {"rolling", "down"} /\ c = Label')
    <3>1. c.step < step \/ c = Label
      BY <2>3 DEF PortQuiet
    <3>. QED
      BY <1>2, <2>2, <3>1 DEF EndRollout, Label
  <2>. QED
    BY <2>1, <2>3 DEF PortQuiet
<1>3. ASSUME \/ PublishRequest \/ UpstreamReturns \/ UpstreamRaises \/ VerifyPointer
             \/ RefusePointer \/ VerifyClosure \/ SaveCheckpoint \/ NoCheckpoint
      PROVE  PortQuiet(r)'
  <2>1. pc \notin {"rolling", "down"} /\ UNCHANGED <<step, actor, ports>>
    BY <1>3 DEF PublishRequest, UpstreamReturns, UpstreamRaises, VerifyPointer,
                RefusePointer, VerifyClosure, SaveCheckpoint, NoCheckpoint
  <2>2. port[r] \in {"new", "idle"} /\ answer[r] = {}
    BY <2>1 DEF PortInv
  <2>. QED
    BY <2>1, <2>2 DEF PortQuiet, ports
<1>4. ASSUME UNCHANGED <<pc, step, actor, launch>>,
             UNCHANGED <<port[r], current[r], signature[r], seen[r], got[r], answer[r]>>
      PROVE  PortQuiet(r)'
  BY <1>4 DEF PortQuiet, Now, Own, Label
<1>5. ASSUME NEW l \in Launches, Stream(l) PROVE UNCHANGED <<trainer, ports>>
  BY <1>5, StreamFrame
<1>6. ASSUME UNCHANGED vars PROVE UNCHANGED <<trainer, ports>>
  BY <1>6 DEF vars
<1>7. ASSUME NEW s \in Readers, Port(s), s # r, ~RefuseLoad(s)
      PROVE  /\ UNCHANGED trainer
             /\ UNCHANGED <<port[r], current[r], signature[r], seen[r], got[r], answer[r]>>
  BY <1>7 DEF TypeOK, Port, BuildRead, BuildLoad, BuildSign, Ask, AskRead, AskLoad
<1>8. ASSUME Port(r), ~RefuseLoad(r) PROVE PortQuiet(r)'
  <2>1. UNCHANGED trainer /\ pc = "rolling"
    BY <1>8 DEF Port, BuildRead, BuildLoad, BuildSign, Ask, AskRead, AskLoad, PortInv
  <2>2. pointer = {Now}
    BY <2>1 DEF PointerQuiet, TrainerInv, Syncing
  <2>3. Now' = Now /\ Label' = Label /\ UNCHANGED <<pc, step>>
    BY <2>1 DEF Now, Own, Label, trainer
  <2>4. PortQuiet(r)
    OBVIOUS
  <2>5. CASE BuildRead(r)
    BY <2>1, <2>2, <2>3, <2>4, <2>5 DEF TypeOK, BuildRead, PortQuiet
  <2>6. CASE BuildLoad(r)
    <3>1. current'[r] = {Label} /\ port'[r] = "signing" /\ UNCHANGED answer
      BY <2>4, <2>6, NowIs DEF TypeOK, BuildLoad, PortQuiet
    <3>. QED
      BY <2>1, <2>3, <2>4, <3>1 DEF PortQuiet
  <2>7. CASE BuildSign(r)
    <3>1. /\ current'[r] = {Label} /\ port'[r] = "idle" /\ signature'[r] = {Now}
          /\ UNCHANGED answer
      BY <2>2, <2>4, <2>7 DEF TypeOK, BuildSign, PortQuiet
    <3>. QED
      BY <2>1, <2>3, <2>4, <3>1, NowIs DEF PortQuiet
  <2>8. CASE Ask(r)
    <3>1. CASE pointer = signature[r]
      <4>1. current[r] = {Label}
        BY <2>2, <2>4, <2>8, <3>1, NowIs DEF Ask, PortQuiet
      <4>2. answer'[r] = {Label} /\ UNCHANGED <<port, current, signature, seen, got>>
        BY <2>8, <3>1, <4>1 DEF TypeOK, Ask
      <4>. QED
        BY <2>3, <2>4, <4>2 DEF PortQuiet
    <3>2. CASE pointer # signature[r]
      <4>1. /\ seen'[r] = {Now} /\ port'[r] = "asking" /\ port[r] = "idle"
            /\ UNCHANGED <<current, signature, got, answer>>
        BY <2>2, <2>8, <3>2 DEF TypeOK, Ask
      <4>. QED
        BY <2>3, <2>4, <4>1 DEF PortQuiet
    <3>. QED
      BY <3>1, <3>2
  <2>9. CASE AskRead(r)
    <3>1. /\ got'[r] = {Now} /\ port'[r] = "loading" /\ port[r] = "asking"
          /\ UNCHANGED <<current, signature, seen, answer>>
      BY <2>2, <2>9 DEF TypeOK, AskRead
    <3>. QED
      BY <2>3, <2>4, <3>1 DEF PortQuiet
  <2>10. CASE AskLoad(r)
    <3>1. got[r] = {Now} /\ seen[r] = {Now}
      BY <2>4, <2>10 DEF AskLoad, PortQuiet
    <3>2. /\ current'[r] = {Label} /\ answer'[r] = {Label} /\ port'[r] = "idle"
          /\ signature'[r] = {Now}
      BY <2>10, <3>1, NowIs DEF TypeOK, AskLoad
    <3>. QED
      BY <2>1, <2>3, <3>2, NowIs DEF PortQuiet
  <2>. QED
    BY <1>8, <2>5, <2>6, <2>7, <2>8, <2>9, <2>10 DEF Port
<1>9. ASSUME UNCHANGED <<trainer, ports>> PROVE PortQuiet(r)'
  <2>1. UNCHANGED <<pc, step, actor, launch>>
    BY <1>9 DEF trainer
  <2>2. UNCHANGED <<port[r], current[r], signature[r], seen[r], got[r], answer[r]>>
    BY <1>9 DEF ports
  <2>. QED
    BY <1>4, <2>1, <2>2
<1>10. ASSUME NEW s \in Readers, Port(s), ~RefuseLoad(s) PROVE PortQuiet(r)'
  <2>1. CASE s = r
    BY <1>8, <1>10, <2>1
  <2>2. CASE s # r
    BY <1>4, <1>7, <1>10, <2>2 DEF trainer
  <2>. QED
    BY <2>1, <2>2
<1>. QED
  BY <1>1, <1>2, <1>3, <1>5, <1>6, <1>9, <1>10 DEF Next, Trainer

(* Every action keeps the quiet launch's invariant.                        *)
LEMMA QuietStep ==
    ASSUME TypeOK, TypeOK', IssuedInv, TrainerInv, PortInv, QuietInv, [Next]_vars
    PROVE  QuietInv'
<1>. SUFFICES ASSUME ~late'
              PROVE  PointerQuiet' /\ AnswerQuiet' /\ \A r \in Readers : PortQuiet(r)'
  BY DEF QuietInv
<1>1. CASE Launch
  <2>1. pc' = "request" /\ NewPorts
    BY <1>1 DEF Launch
  <2>. QED
    BY <2>1, NewPortsQuiet DEF PointerQuiet, AnswerQuiet, Syncing
<1>2. CASE ~Launch
  <2>1. ~late
    BY <1>2, LateStays
  <2>2. PointerQuiet /\ AnswerQuiet /\ \A r \in Readers : PortQuiet(r)
    BY <2>1 DEF QuietInv
  <2>. QED
    BY <2>1, <2>2, PointerQuietStep, AnswerQuietStep, PortQuietStep
<1>. QED
  BY <1>1, <1>2

-----------------------------------------------------------------------------
(* The second names.                                                       *)

(* A second name that nobody is about to remove stays.                     *)
LEMMA TornStays ==
    ASSUME TypeOK, FilesInv, [Next]_vars, NEW f \in Torn
    PROVE  f \in Torn'
<1>0. f \in doubled /\ \A l \in Launches : ~Holds(l, f)
  BY DEF Torn
<1>1. f \in doubled'
  <2>1. ASSUME NEW l \in Launches, UnlinkTensors(l) PROVE f \in doubled'
    BY <1>0, <2>1 DEF UnlinkTensors, Holds
  <2>2. ASSUME NEW l \in Launches, UnlinkManifest(l) PROVE f \in doubled'
    BY <1>0, <2>2 DEF UnlinkManifest, Holds
  <2>3. ASSUME NEW l \in Launches, EndStream(l) PROVE f \in doubled'
    BY <1>0, <2>3 DEF EndStream, Holds
  <2>4. ASSUME NEW l \in Launches,
               \/ StartStream(l) \/ WriteTensors(l) \/ WriteManifest(l) \/ ReplacePointer(l)
        PROVE  f \in doubled'
    BY <1>0, <2>4 DEF StartStream, WriteTensors, WriteManifest, ReplacePointer, files
  <2>5. ASSUME Trainer PROVE UNCHANGED doubled
    BY <2>5, TrainerFrame
  <2>6. ASSUME NEW r \in Readers, Port(r) PROVE UNCHANGED doubled
    BY <2>6, PortFrame DEF files
  <2>7. ASSUME UNCHANGED vars PROVE UNCHANGED doubled
    BY <2>7 DEF vars, files
  <2>. QED
    BY <1>0, <2>1, <2>2, <2>3, <2>4, <2>5, <2>6, <2>7 DEF Next, Stream
<1>2. ASSUME NEW k \in Launches PROVE ~Holds(k, f)'
  <2>0. ~Holds(k, f)
    BY <1>0
  <2>1. ASSUME NEW l \in Launches, WriteTensors(l) PROVE ~Holds(k, f)'
    <3>1. payload[l] \in Weights
      BY DEF TypeOK
    <3>2. payload[l] \notin tensors => f # TensorFile(payload[l])
      BY <1>0, <3>1 DEF FilesInv
    <3>. QED
      BY <2>0, <2>1, <3>2 DEF TypeOK, WriteTensors, Holds
  <2>2. ASSUME NEW l \in Launches, WriteManifest(l) PROVE ~Holds(k, f)'
    <3>1. \A q \in target[l] : q \in Request /\ target[l] = {q}
      BY NoneOrOneHas DEF TypeOK
    <3>2. \A q \in target[l] : manifest[q] = {} => f # ManifestFile(q)
      BY <1>0, <3>1 DEF FilesInv
    <3>3. UNCHANGED <<target, payload>> /\ \A x \in Launches : x # l => phase'[x] = phase[x]
      BY <2>2 DEF TypeOK, WriteManifest
    <3>4. phase'[l] # "tensors linked"
      BY <2>2 DEF TypeOK, WriteManifest
    <3>5. phase'[l] = "manifest linked" => \E q \in target[l] : manifest[q] = {}
      BY <2>2 DEF TypeOK, WriteManifest
    <3>6. CASE k # l
      BY <2>0, <3>3, <3>6 DEF Holds
    <3>7. CASE k = l
      BY <3>1, <3>2, <3>3, <3>4, <3>5, <3>7 DEF Holds
    <3>. QED
      BY <3>6, <3>7
  <2>3. ASSUME NEW l \in Launches,
               \/ StartStream(l) \/ UnlinkTensors(l) \/ UnlinkManifest(l)
               \/ ReplacePointer(l) \/ EndStream(l)
        PROVE  ~Holds(k, f)'
    BY <2>0, <2>3 DEF TypeOK, StartStream, UnlinkTensors, UnlinkManifest, ReplacePointer,
                      EndStream, Holds, Active
  <2>4. ASSUME PublishRequest PROVE ~Holds(k, f)'
    BY <2>0, <2>4 DEF TypeOK, PublishRequest, Holds
  <2>5. ASSUME Trainer, ~PublishRequest PROVE UNCHANGED streams
    BY <2>5, TrainerFrame
  <2>6. ASSUME NEW r \in Readers, Port(r) PROVE UNCHANGED streams
    BY <2>6, PortFrame
  <2>7. ASSUME UNCHANGED vars PROVE UNCHANGED streams
    BY <2>7 DEF vars
  <2>8. UNCHANGED streams => ~Holds(k, f)'
    BY <2>0 DEF streams, Holds
  <2>. QED
    BY <2>1, <2>2, <2>3, <2>4, <2>5, <2>6, <2>7, <2>8 DEF Next, Stream
<1>. QED
  BY <1>1, <1>2 DEF Torn

(* A port that has read the answer to this step accepts it.                *)
LEMMA QuietAccepts ==
    ASSUME TypeOK, FilesInv, PortInv, NEW r \in Readers, PortQuiet(r),
           port[r] \in {"building", "loading"}
    PROVE  Acceptable(r)
<1>1. got[r] = {Now} /\ Closed(Now)
  BY DEF PortQuiet, FilesInv
<1>2. \A c \in current[r] : c.step < step \/ c = Label
  BY DEF PortQuiet
<1>3. step \in Nat
  BY PublicationAssumption DEF TypeOK, Steps
<1>4. current[r] \in NoneOrOne(Version)
  BY DEF TypeOK
<1>5. \A c \in current[r] : c.step \in Nat
  <2>1. \A c \in current[r] : c \in Version
    BY <1>4, NoneOrOneHas
  <2>. QED
    BY <2>1, PublicationAssumption DEF Version, Steps
<1>6. Label.step = step
  BY DEF Label
<1>7. \A c \in current[r] : Label.step >= c.step /\ (Label.step = c.step => Label = c)
  BY <1>2, <1>3, <1>5, <1>6
<1>. QED
  BY <1>1, <1>7, NowIs DEF Acceptable

(* How a launch comes to be refused.                                       *)
LEMMA OutcomeStep ==
    ASSUME [Next]_vars, outcome' = "refused"
    PROVE  \/ outcome = "refused"
           \/ UpstreamRaises \/ RefusePointer \/ \E r \in Readers : RefuseLoad(r)
<1>1. ASSUME NEW l \in Launches, Stream(l) PROVE UNCHANGED outcome
  BY <1>1, StreamFrame DEF trainer
<1>2. ASSUME Trainer, ~UpstreamRaises, ~RefusePointer PROVE outcome = "refused"
  BY <1>2 DEF Trainer, Launch, PublishRequest, UpstreamReturns, VerifyPointer,
              VerifyClosure, SaveCheckpoint, NoCheckpoint, EndRollout, Crash
<1>3. ASSUME NEW r \in Readers, Port(r), ~RefuseLoad(r) PROVE UNCHANGED outcome
  BY <1>3, PortFrame DEF trainer
<1>4. ASSUME UNCHANGED vars PROVE UNCHANGED outcome
  BY <1>4 DEF vars, trainer
<1>. QED
  BY <1>1, <1>2, <1>3, <1>4 DEF Next

(* Every action keeps that a refusal in a quiet launch has a torn file.    *)
LEMMA TornStep ==
    ASSUME TypeOK, FilesInv, TrainerInv, PortInv, QuietInv, TornInv, [Next]_vars
    PROVE  TornInv'
<1>. SUFFICES ASSUME ~late'
              PROVE  /\ outcome' = "refused" => Torn' # {}
                     /\ pc' = "upstream" /\ phase'[launch'] = "refused" => Torn' # {}
  BY DEF TornInv
<1>1. CASE Launch
  BY <1>1 DEF Launch
<1>2. CASE ~Launch
  <2>1. ~late
    BY <1>2, LateStays
  <2>2. PointerQuiet /\ AnswerQuiet /\ \A r \in Readers : PortQuiet(r)
    BY <2>1 DEF QuietInv
  <2>3. /\ outcome = "refused" => Torn # {}
        /\ pc = "upstream" /\ phase[launch] = "refused" => Torn # {}
    BY <2>1 DEF TornInv
  <2>4. Torn # {} => Torn' # {}
    BY TornStays
  <2>5. ASSUME outcome' = "refused" PROVE Torn' # {}
    <3>1. CASE UpstreamRaises
      BY <2>3, <2>4, <2>5, <3>1 DEF UpstreamRaises
    <3>2. ~RefusePointer
      <4>1. SUFFICES ASSUME pc = "verify" PROVE \E p \in pointer : Answers(p)
        BY DEF RefusePointer
      <4>2. pointer = {Now}
        BY <2>2, <4>1 DEF PointerQuiet, TrainerInv, Syncing
      <4>. QED
        BY <4>2 DEF Answers, Now, Own
    <3>3. ~ \E r \in Readers : RefuseLoad(r)
      BY <2>2, QuietAccepts DEF RefuseLoad
    <3>. QED
      BY <2>3, <2>4, <2>5, <3>1, <3>2, <3>3, OutcomeStep
  <2>6. ASSUME pc' = "upstream", phase'[launch'] = "refused" PROVE Torn' # {}
    <3>1. ~PublishRequest
      <4>1. SUFFICES ASSUME PublishRequest PROVE FALSE
        OBVIOUS
      <4>2. launch \in Launches
        BY <4>1 DEF TrainerInv, PublishRequest
      <4>. QED
        BY <2>6, <4>1, <4>2 DEF TypeOK, PublishRequest
    <3>2. pc = "upstream" /\ UNCHANGED launch
      BY <2>6, <3>1, SyncStep DEF Syncing
    <3>3. /\ launch \in Launches
          /\ phase[launch] \in Writing => target[launch] = {Own}
      BY <3>2 DEF TrainerInv, Syncing
    <3>4. CASE phase[launch] = "refused"
      BY <2>3, <2>4, <3>2, <3>4
    <3>5. CASE phase[launch] # "refused"
      <4>1. ~Begins(launch) /\ phase'[launch] = "refused"
        BY <2>6, <3>2 DEF Begins
      <4>2. \/ /\ TensorFile(payload[launch]) \in doubled
               /\ ~Locked("tensors linked")
            \/ phase[launch] = "manifest" /\ \E q \in target[launch] : manifest[q] # {}
        BY <3>3, <3>5, <4>1, StreamMoves DEF Starts, Advances
      <4>3. ~(phase[launch] = "manifest" /\ \E q \in target[launch] : manifest[q] # {})
        BY <2>2, <3>2, <3>3 DEF AnswerQuiet, Unanswered, Writing
      <4>4. TensorFile(payload[launch]) \in Torn
        BY <4>2, <4>3, FileNames DEF Torn, Holds, Locked
      <4>. QED
        BY <2>4, <4>4
    <3>. QED
      BY <3>4, <3>5
  <2>. QED
    BY <2>5, <2>6
<1>. QED
  BY <1>1, <1>2

-----------------------------------------------------------------------------
(* Theorems.                                                               *)

(* Every reachable state satisfies the inductive invariant: how far each   *)
(* stream has come is what is on disk, each process knows what its place   *)
(* in the protocol says it knows.                                          *)
THEOREM SnapshotInvariant == Spec => []SnapshotInv
<1>1. ASSUME SnapshotInv, [Next]_vars PROVE SnapshotInv'
  <2>1. /\ TypeOK /\ FilesInv /\ StreamInv /\ IssuedInv /\ TrainerInv /\ PortInv
        /\ QuietInv /\ TornInv
    BY <1>1 DEF SnapshotInv
  <2>2. TypeOK'
    BY <1>1, <2>1, TypeStep
  <2>3. FilesInv'
    BY <1>1, <2>1, <2>2, FilesStep
  <2>4. StreamInv'
    BY <1>1, <2>1, <2>2, StreamStep
  <2>5. IssuedInv'
    BY <1>1, <2>1, <2>2, IssuedInvStep
  <2>6. TrainerInv'
    BY <1>1, <2>1, <2>2, TrainerStep
  <2>7. PortInv'
    BY <1>1, <2>1, <2>2, PortStep
  <2>8. QuietInv'
    BY <1>1, <2>1, <2>2, QuietStep
  <2>9. TornInv'
    BY <1>1, <2>1, TornStep
  <2>. QED
    BY <2>2, <2>3, <2>4, <2>5, <2>6, <2>7, <2>8, <2>9 DEF SnapshotInv
<1>. QED
  BY <1>1, InitialInv, PTL DEF Spec

(* Every variable keeps its type: there is at most one pointer, one        *)
(* checkpoint and one answer per request.                                  *)
THEOREM SnapshotTypeCorrect == Spec => []TypeOK
<1>1. SnapshotInv => TypeOK
  BY DEF SnapshotInv
<1>. QED
  BY <1>1, SnapshotInvariant, PTL

(* A rollout starts only on a verified publication of its own step and     *)
(* weights; and unless a stream of an earlier launch publishes in this     *)
(* one, what the rollout processes label is that step and those weights.   *)
THEOREM LabelsHold == Spec => []LabelsAreTrue
<1>1. SnapshotInv => LabelsAreTrue
  <2>1. SUFFICES ASSUME SnapshotInv, pc \in {"synced", "rolling"}
                 PROVE  /\ acked = {Now}
                        /\ ~late => \A r \in Readers : answer[r] \subseteq {Label}
    BY DEF LabelsAreTrue, Now, Own, Label
  <2>. QED
    BY <2>1 DEF SnapshotInv, TrainerInv, QuietInv, PortQuiet
<1>. QED
  BY <1>1, SnapshotInvariant, PTL

(* A launch is refused only when a file was left with its second name, or  *)
(* a stream of an earlier launch published.                                *)
THEOREM RefusalsHaveACause == Spec => []RefusedOnlyIfDisturbed
<1>1. SnapshotInv => RefusedOnlyIfDisturbed
  BY DEF SnapshotInv, TornInv, Torn, RefusedOnlyIfDisturbed
<1>. QED
  BY <1>1, SnapshotInvariant, PTL

-----------------------------------------------------------------------------
(* The register.                                                           *)

Hand == [r \in Readers \cup {"trainer"} |-> IF r = "trainer" THEN candidate ELSE got[r]]

(* All that was read is complete, so the mapping leaves nothing out.       *)
LEMMA RegisterView ==
    ASSUME FilesInv
    PROVE  /\ Complete(pointer) = pointer
           /\ [r \in Readers \cup {"trainer"} |->
                  IF r = "trainer" THEN Complete(candidate) ELSE Complete(got[r])] = Hand
<1>1. Complete(pointer) = pointer /\ Complete(candidate) = candidate
  BY DEF FilesInv, Complete
<1>2. ASSUME NEW r \in Readers PROVE Complete(got[r]) = got[r]
  BY DEF FilesInv, Complete
<1>. QED
  BY <1>1, <1>2 DEF Hand

(* The abstract actions over what the mapping shows.                       *)
RVars == <<manifest, pointer, Hand>>
RFetch(r) == /\ pointer # {}
             /\ Hand' = [Hand EXCEPT ![r] = pointer]
             /\ UNCHANGED <<manifest, pointer>>
RForget(S) ==
    /\ Hand' = [r \in Readers \cup {"trainer"} |-> IF r \in S THEN {} ELSE Hand[r]]
    /\ UNCHANGED <<manifest, pointer>>
RAnswer(q, w) == /\ manifest[q] = {} /\ manifest' = [manifest EXCEPT ![q] = {w}]
                 /\ UNCHANGED <<pointer, Hand>>
RPublish(v) == /\ v.weights \in manifest[v.request] /\ pointer' = {v}
               /\ UNCHANGED <<manifest, Hand>>
RNext == \/ \E q \in Request, w \in Weights : RAnswer(q, w)
         \/ \E v \in Value : RPublish(v)
         \/ \E r \in Readers \cup {"trainer"} : RFetch(r)
         \/ \E S \in SUBSET (Readers \cup {"trainer"}) : RForget(S)

(* A step over what the mapping shows is a step of the register.           *)
LEMMA RegisterStep ==
    ASSUME FilesInv, FilesInv', [RNext]_RVars
    PROVE  [Register!Next]_(Register!vars)
<1>. DEFINE F == [r \in Readers \cup {"trainer"} |->
                  IF r = "trainer" THEN Complete(candidate) ELSE Complete(got[r])]
<1>1. Complete(pointer) = pointer /\ F = Hand
  BY RegisterView
<1>2. Complete(pointer)' = pointer' /\ F' = Hand'
  <2>1. FilesInv' => (Complete(pointer) = pointer /\ F = Hand)'
    BY RegisterView, PTL
  <2>. QED
    BY <2>1
<1>. QED
  BY <1>1, <1>2 DEF Register!Next, Register!vars, Register!Answer, Register!Publish,
              Register!Fetch,
              Register!Forget, Register!Value, Register!Known, RNext, RVars, RFetch,
              RForget, RAnswer, RPublish, Value

(* The register is empty at first.                                         *)
LEMMA RegisterInit ==
    ASSUME Init
    PROVE  Register!Init
  BY DEF Init, Register!Init, Complete

(* A stream answers, publishes, or does nothing the register shows.        *)
LEMMA StreamRegister ==
    ASSUME TypeOK, StreamInv, [Next]_vars, NEW l \in Launches, Stream(l)
    PROVE  [RNext]_RVars
<1>1. UNCHANGED <<candidate, got>>
  BY DEF Stream, StartStream, WriteTensors, UnlinkTensors, WriteManifest,
              UnlinkManifest, ReplacePointer, EndStream, trainer, ports
<1>2. UNCHANGED Hand
  BY <1>1 DEF Hand
<1>3. \A q \in target[l] : q \in Request
  BY NoneOrOneHas DEF TypeOK
<1>4. payload[l] \in Weights
  BY DEF TypeOK
<1>5. CASE WriteManifest(l)
  <2>1. CASE UNCHANGED manifest
    BY <1>2, <1>5, <2>1 DEF WriteManifest, RVars
  <2>2. CASE manifest' # manifest
    <3>1. PICK q \in target[l] :
              manifest[q] = {} /\ manifest' = [manifest EXCEPT ![q] = {payload[l]}]
      BY <1>5, <2>2 DEF WriteManifest
    <3>2. RAnswer(q, payload[l])
      BY <1>2, <1>5, <3>1 DEF WriteManifest, RAnswer
    <3>. QED
      BY <1>3, <1>4, <3>2 DEF RNext
  <2>. QED
    BY <2>1, <2>2
<1>6. CASE ReplacePointer(l)
  <2>1. PICK q \in target[l] : pointer' = {[request |-> q, weights |-> payload[l]]}
    BY <1>6 DEF ReplacePointer
  <2>2. manifest[q] = {payload[l]}
    BY <1>6, <2>1 DEF ReplacePointer, StreamInv, HasManifest
  <2>3. RPublish([request |-> q, weights |-> payload[l]])
    BY <1>2, <1>6, <2>1, <2>2 DEF ReplacePointer, RPublish
  <2>4. [request |-> q, weights |-> payload[l]] \in Value
    BY <1>3, <1>4 DEF Value
  <2>. QED
    BY <2>3, <2>4 DEF RNext
<1>7. CASE ~WriteManifest(l) /\ ~ReplacePointer(l)
  <2>1. UNCHANGED <<manifest, pointer>>
    BY <1>7 DEF Stream, StartStream, WriteTensors, UnlinkTensors, UnlinkManifest,
           EndStream, files
  <2>. QED
    BY <1>2, <2>1 DEF RVars
<1>. QED
  BY <1>5, <1>6, <1>7

(* To forget what some have in hand is one step of the register.           *)
LEMMA ForgetIs ==
    ASSUME TypeOK, UNCHANGED <<manifest, pointer>>,
           NEW S \in SUBSET (Readers \cup {"trainer"}),
           candidate' = IF "trainer" \in S THEN {} ELSE candidate,
           \A r \in Readers : got'[r] = IF r \in S THEN {} ELSE got[r]
    PROVE  [RNext]_RVars
<1>1. ASSUME NEW r \in Readers \cup {"trainer"}
      PROVE  Hand'[r] = IF r \in S THEN {} ELSE Hand[r]
  BY <1>1, PublicationAssumption DEF Hand
<1>2. Hand' = [r \in Readers \cup {"trainer"} |-> IF r \in S THEN {} ELSE Hand[r]]
  BY <1>1 DEF Hand
<1>. QED
  BY <1>2 DEF RForget, RNext

(* To forget what all have in hand is one step as well.                    *)
LEMMA ForgetAll ==
    ASSUME TypeOK, UNCHANGED <<manifest, pointer>>,
           candidate' = {}, \A r \in Readers : got'[r] = {}
    PROVE  [RNext]_RVars
<1>. DEFINE S == Readers \cup {"trainer"}
<1>1. Hand' = [r \in Readers \cup {"trainer"} |-> IF r \in S THEN {} ELSE Hand[r]]
  BY DEF Hand
<1>2. RForget(S) /\ S \in SUBSET (Readers \cup {"trainer"})
  BY <1>1 DEF RForget
<1>. QED
  BY <1>2 DEF RNext

(* The trainer fetches, forgets, or does nothing the register shows.       *)
LEMMA TrainerRegister ==
    ASSUME TypeOK, TypeOK', FilesInv, [Next]_vars, Trainer
    PROVE  [RNext]_RVars
<1>1. UNCHANGED <<manifest, pointer>>
  BY DEF Trainer, Launch, PublishRequest, UpstreamReturns, UpstreamRaises, VerifyPointer,
         RefusePointer, VerifyClosure, SaveCheckpoint, NoCheckpoint, EndRollout, Crash, files
<1>2. CASE Launch \/ Crash
  <2>1. candidate' = {} /\ \A r \in Readers : got'[r] = {}
    BY <1>2 DEF Launch, Crash, NewPorts
  <2>. QED
    BY <1>1, <2>1, ForgetAll
<1>3. CASE VerifyPointer
  <2>1. pointer # {} /\ candidate' = pointer /\ UNCHANGED got
    BY <1>3 DEF VerifyPointer, ports
  <2>2. RFetch("trainer")
    BY <1>1, <2>1, PublicationAssumption DEF RFetch, Hand
  <2>. QED
    BY <2>2 DEF RNext
<1>4. CASE VerifyClosure
  <2>1. candidate' = {} /\ UNCHANGED got
    BY <1>4 DEF VerifyClosure, ports
  <2>2. /\ candidate' = IF "trainer" \in {"trainer"} THEN {} ELSE candidate
        /\ \A r \in Readers : got'[r] = IF r \in {"trainer"} THEN {} ELSE got[r]
    BY <2>1, PublicationAssumption
  <2>3. {"trainer"} \in SUBSET (Readers \cup {"trainer"})
    OBVIOUS
  <2>. QED
    BY <1>1, <2>2, <2>3, ForgetIs
<1>5. CASE ~(Launch \/ Crash \/ VerifyPointer \/ VerifyClosure)
  <2>1. UNCHANGED <<candidate, got>>
    BY <1>5 DEF Trainer, PublishRequest, UpstreamReturns, UpstreamRaises, RefusePointer,
                SaveCheckpoint, NoCheckpoint, EndRollout, ports
  <2>. QED
    BY <1>1, <2>1 DEF RVars, Hand
<1>. QED
  BY <1>2, <1>3, <1>4, <1>5

(* A port fetches, forgets, or does nothing the register shows.            *)
LEMMA PortRegister ==
    ASSUME TypeOK, TypeOK', StreamInv, TrainerInv, PortInv, [Next]_vars,
           NEW r \in Readers, Port(r)
    PROVE  [RNext]_RVars
<1>1. UNCHANGED <<manifest, pointer>>
  BY DEF Port, BuildRead, BuildLoad, BuildSign, Ask, AskRead, AskLoad, RefuseLoad, files
<1>2. CASE BuildRead(r) \/ AskRead(r)
  <2>1. pc = "rolling"
    BY <1>2 DEF BuildRead, AskRead, PortInv
  <2>2. pointer # {}
    BY <2>1 DEF TrainerInv, Syncing, StreamInv
  <2>3. UNCHANGED candidate /\ got' = [got EXCEPT ![r] = pointer]
    BY <1>2 DEF BuildRead, AskRead, trainer
  <2>4. RFetch(r)
    BY <1>1, <2>2, <2>3, PublicationAssumption DEF TypeOK, RFetch, Hand
  <2>. QED
    BY <2>4 DEF RNext
<1>3. CASE BuildLoad(r) \/ AskLoad(r)
  <2>1. UNCHANGED candidate /\ got' = [got EXCEPT ![r] = {}]
    BY <1>3 DEF BuildLoad, AskLoad, trainer
  <2>2. /\ candidate' = IF "trainer" \in {r} THEN {} ELSE candidate
        /\ \A s \in Readers : got'[s] = IF s \in {r} THEN {} ELSE got[s]
    BY <2>1, PublicationAssumption DEF TypeOK
  <2>3. {r} \in SUBSET (Readers \cup {"trainer"})
    OBVIOUS
  <2>. QED
    BY <1>1, <2>2, <2>3, ForgetIs
<1>4. CASE RefuseLoad(r)
  <2>1. candidate' = {} /\ \A s \in Readers : got'[s] = {}
    BY <1>4 DEF RefuseLoad, NewPorts
  <2>. QED
    BY <1>1, <2>1, ForgetAll
<1>5. CASE BuildSign(r) \/ Ask(r)
  <2>1. UNCHANGED <<candidate, got>>
    BY <1>5 DEF BuildSign, Ask, trainer
  <2>. QED
    BY <1>1, <2>1 DEF RVars, Hand
<1>. QED
  BY <1>2, <1>3, <1>4, <1>5 DEF Port

(* The state directory is one atomic register, whatever crashes between    *)
(* its three files and whoever reads it meanwhile.                         *)
THEOREM RegisterImplemented == Spec => ImplementsRegister
<1>1. SnapshotInv /\ SnapshotInv' /\ [Next]_vars => [Register!Next]_(Register!vars)
  <2>. SUFFICES ASSUME SnapshotInv, SnapshotInv', [Next]_vars
                PROVE  [Register!Next]_(Register!vars)
    OBVIOUS
  <2>1. /\ TypeOK /\ FilesInv /\ StreamInv /\ TrainerInv /\ PortInv
        /\ TypeOK' /\ FilesInv'
    BY DEF SnapshotInv
  <2>2. ASSUME UNCHANGED vars PROVE [RNext]_RVars
    BY <2>2 DEF vars, files, trainer, ports, RVars, Hand
  <2>3. [RNext]_RVars
    BY <2>1, <2>2, StreamRegister, TrainerRegister, PortRegister DEF Next
  <2>. QED
    BY <2>1, <2>3, RegisterStep
<1>. QED
  BY <1>1, RegisterInit, SnapshotInvariant, PTL DEF Spec, ImplementsRegister, Register!Spec
=============================================================================
