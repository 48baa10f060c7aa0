----------------------- MODULE NativeAgentDriverProofs -----------------------
(* The inductive invariant of the driver, and what follows from it.          *)
EXTENDS NativeAgentDriver, TLAPS

(* The initial states satisfy the invariant.                                 *)
LEMMA InitDriverInv == Init => DriverInv
  <1> SUFFICES ASSUME Init PROVE DriverInv
    OBVIOUS
  <1>1. TypeOK
    <2>1. inbox \in Seq(Calls)
      BY DEF Init
    <2>2. worker \in [Kinds -> {"idle", "running", "returned", "raised"}]
      BY DEF Init
    <2>3. reply \in [{"task", "tool"} -> Replies]
      BY DEF Init, Replies
    <2>4. pc \in Pcs /\ turns \in Ids /\ generated \in Ids
      BY MaxTurnsAssumption DEF Init, Pcs, Ids
    <2>5. /\ pending \in BOOLEAN /\ parked \in BOOLEAN /\ routes \in BOOLEAN
          /\ capture \in BOOLEAN /\ source_cache \in BOOLEAN /\ released \in BOOLEAN
      BY Zenon DEF Init
    <2>6. /\ cancels \in 0 .. MaxCancels /\ swallowed \in 0 .. MaxCancels
          /\ slots \in Nat
          /\ backend_ids \subseteq Ids /\ behavior_traces \subseteq Ids
          /\ outcome \in {"running", "returned", "failed", "cancelled"}
          /\ coroutine \in {"none", "scheduled", "running", "done"}
      BY MaxCancelsAssumption DEF Init
    <2> QED
      BY <2>1, <2>2, <2>3, <2>4, <2>5, <2>6 DEF TypeOK
  <1>2. TaskInv
    BY DEF Init, TaskInv, DrainedIsAwaited, ParkedRuns, TurnsLeft, CancellationKept,
           SlotsMatch, Finished, Kinds
  <1>3. CallsInv
    BY DEF Init, CallsInv, ReleaseIsLast, TracesAreNoted, NotedIn, Traced,
           ReleaseCleansServer
  <1> QED
    BY <1>1, <1>2, <1>3 DEF DriverInv

-----------------------------------------------------------------------------
(* What the calls and the server need of a step that sends nothing: the      *)
(* client's notes stay, a registration cut off is a failure or a             *)
(* cancellation, and these stay what they are.                               *)
LEMMA CallsKept ==
    ASSUME CallsInv,
           UNCHANGED <<inbox, server, generated, backend_ids>>,
           pc' \in Given <=> pc \in Given,
           pc = "register" => pc' = "register" \/ outcome' \in {"failed", "cancelled"},
           outcome \in {"failed", "cancelled"} => outcome' \in {"failed", "cancelled"}
    PROVE  CallsInv'
  <1>1. Traced' = Traced
    BY DEF Traced, server
  <1>2. ASSUME NEW ids, NotedIn(ids) PROVE NotedIn(ids)'
    BY <1>1, <1>2 DEF NotedIn
  <1>3. TracesAreNoted'
    BY <1>2 DEF CallsInv, TracesAreNoted
  <1>4. ReleaseIsLast' /\ ReleaseCleansServer'
    BY DEF CallsInv, ReleaseIsLast, ReleaseCleansServer, server
  <1> QED
    BY <1>3, <1>4 DEF CallsInv

-----------------------------------------------------------------------------
(* Calls and the inbox                                                       *)

(* A call is a record of the type, and its fields are of theirs.             *)
LEMMA CallType ==
    /\ \A op \in {"source", "register", "focus", "crop"}, id \in Ids :
          Call(op, id) \in Calls
    /\ \A m \in Calls : m.id \in Ids /\ m.ids \subseteq Ids
  <1>1. ASSUME NEW op \in {"source", "register", "focus", "crop"}, NEW id \in Ids
        PROVE  Call(op, id) \in Calls
    BY DEF Call, Calls
  <1>2. ASSUME NEW m \in Calls PROVE m.id \in Ids /\ m.ids \subseteq Ids
    <2>1. CASE m \in [op : {"source", "register", "focus", "crop"}, id : Ids, ids : {{}}]
      BY <2>1
    <2>2. CASE m \in [op : {"release"}, id : {0}, ids : SUBSET Ids]
      BY <2>2, MaxTurnsAssumption DEF Ids
    <2> QED
      BY <2>1, <2>2 DEF Calls
  <1> QED
    BY <1>1, <1>2

(* The client sends a call that is not the release, before its release.      *)
LEMMA SentCall ==
    ASSUME TypeOK, CallsInv, NEW m \in Calls, m.op # "release", Send(m),
           pc \notin Given, pc' \notin Given, UNCHANGED server
    PROVE  /\ inbox' \in Seq(Calls)
           /\ ReleaseIsLast' /\ ReleaseCleansServer'
           /\ Traced' = Traced \cup (IF m.op = "register" THEN {m.id} ELSE {})
  <1>1. inbox \in Seq(Calls)
    BY DEF TypeOK
  <1>2. /\ inbox' \in Seq(Calls) /\ Len(inbox') = Len(inbox) + 1
        /\ \A i \in 1 .. Len(inbox) : inbox'[i] = inbox[i]
        /\ inbox'[Len(inbox) + 1] = m
    BY <1>1 DEF Send
  <1>3. ~released
    BY DEF CallsInv, ReleaseIsLast
  <1>4. ReleaseIsLast'
    BY <1>1, <1>2, <1>3 DEF CallsInv, ReleaseIsLast, server
  <1>5. ReleaseCleansServer'
    BY <1>3 DEF ReleaseCleansServer, server
  <1>6. Traced' = Traced \cup (IF m.op = "register" THEN {m.id} ELSE {})
    BY <1>1, <1>2 DEF Traced, server
  <1> QED
    BY <1>2, <1>4, <1>5, <1>6

(* The vLLM worker takes the first call.                                     *)
LEMMA TakenCall ==
    ASSUME TypeOK, inbox # <<>>, inbox' = Tail(inbox)
    PROVE  /\ Head(inbox) \in Calls /\ Head(inbox) = inbox[1]
           /\ inbox' \in Seq(Calls) /\ Len(inbox') = Len(inbox) - 1
           /\ \A i \in 1 .. Len(inbox') : inbox'[i] = inbox[i + 1]
           /\ Len(inbox) \in Nat \ {0}
           /\ Len(inbox) = 1 => inbox' = <<>>
  BY DEF TypeOK
-----------------------------------------------------------------------------
(* Every action preserves the invariant: the types, what the task holds, and *)
(* the calls on their way.                                                   *)

(* A refused sample ends the run before it holds anything.                   *)
LEMMA BuildRefusedInv ==
    ASSUME DriverInv, BuildRefused
    PROVE  DriverInv'
  <1>1. TypeOK'
    BY DEF DriverInv, BuildRefused, End, TypeOK, tool, client, server, remote,
           counters, Pcs, Ended
  <1>2. TaskInv'
    BY DEF DriverInv, BuildRefused, End, TaskInv, DrainedIsAwaited, ParkedRuns,
           TurnsLeft, CancellationKept, SlotsMatch, Finished, Drained, tool, client,
           counters
  <1>3. CallsInv'
    BY CallsKept DEF DriverInv, BuildRefused, End, Given, client, remote, counters
  <1> QED
    BY <1>1, <1>2, <1>3 DEF DriverInv

(* The source has arrived: the factory's thread starts, or the run is abandoned. *)
LEMMA BuildEndsInv ==
    ASSUME DriverInv, BuildEnds
    PROVE  DriverInv'
  <1>1. TypeOK'
    BY DEF DriverInv, BuildEnds, Forget, GoTo, End, TypeOK, tool, client, server,
           counters, Pcs, Kinds, Plain, Ended, Replies
  <1>2. TaskInv'
    BY DEF DriverInv, TypeOK, BuildEnds, GoTo, End, TaskInv, DrainedIsAwaited,
           ParkedRuns, TurnsLeft, CancellationKept, SlotsMatch, Finished, Given,
           Drained, Kinds, tool, client, counters
  <1>3. CallsInv'
    BY CallsKept DEF DriverInv, BuildEnds, GoTo, End, Given, client, counters
  <1> QED
    BY <1>1, <1>2, <1>3 DEF DriverInv

(* One thread follows another; none holds more than the task awaits.         *)
LEMMA NextThreadInv ==
    ASSUME NEW k \in Kinds, DriverInv, NextThread(k)
    PROVE  DriverInv'
  <1>1. TypeOK'
    BY DEF DriverInv, NextThread, GoTo, TypeOK, client, server, remote, counters, Pcs
  <1>2. TaskInv'
    BY DEF DriverInv, TypeOK, NextThread, Continues, GoTo, Follows, TaskInv,
           DrainedIsAwaited, ParkedRuns, TurnsLeft, CancellationKept, SlotsMatch,
           Finished, Given, Drained, Kinds, client, counters
  <1>3. CallsInv'
    BY CallsKept DEF DriverInv, NextThread, Continues, GoTo, Follows, Given, client,
           remote, counters
  <1> QED
    BY <1>1, <1>2, <1>3 DEF DriverInv

(* The generation is noted as the trajectory's last turn.                    *)
LEMMA SampledInv ==
    ASSUME DriverInv, Sampled
    PROVE  DriverInv'
  <1>1. TypeOK'
    BY DEF DriverInv, Sampled, GoTo, TypeOK, tool, server, remote, counters, Pcs
  <1>2. TaskInv'
    BY DEF DriverInv, Sampled, GoTo, TaskInv, DrainedIsAwaited, ParkedRuns, TurnsLeft,
           CancellationKept, SlotsMatch, Finished, Given, Drained, tool, counters
  <1>3. CallsInv'
    BY CallsKept DEF DriverInv, Sampled, GoTo, Given, remote, counters
  <1> QED
    BY <1>1, <1>2, <1>3 DEF DriverInv

(* The task takes the generation and starts the thread that reads it.        *)
LEMMA TakeSampledInv ==
    ASSUME DriverInv, TakeSampled
    PROVE  DriverInv'
  <1>1. TypeOK'
    BY DEF DriverInv, TakeSampled, GoTo, TypeOK, tool, client, server, remote,
           counters, Pcs, Kinds, Plain
  <1>2. TaskInv'
    BY DEF DriverInv, TakeSampled, GoTo, TaskInv, DrainedIsAwaited, ParkedRuns,
           TurnsLeft, CancellationKept, SlotsMatch, Finished, Given, Drained, tool,
           client, counters
  <1>3. CallsInv'
    BY CallsKept DEF DriverInv, TakeSampled, GoTo, Given, client, remote, counters
  <1> QED
    BY <1>1, <1>2, <1>3 DEF DriverInv

(* A failed generation may have left a registration on its way.              *)
LEMMA GenerationFailsInv ==
    ASSUME DriverInv, GenerationFails
    PROVE  DriverInv'
  <1>1. TypeOK'
    BY MaxTurnsAssumption, MaxCancelsAssumption DEF DriverInv, TaskInv,
           CancellationKept, SlotsMatch, TurnsLeft, GenerationFails, Leave, Forget,
           TypeOK, task, tool, client, server, remote, counters, Pcs, Kinds, Drained,
           Plain, Ended, Ids, Replies
  <1>2. TaskInv'
    BY DEF DriverInv, GenerationFails, Leave, TaskInv, DrainedIsAwaited, ParkedRuns,
           TurnsLeft, CancellationKept, SlotsMatch, Finished, Given, Drained, tool,
           client, counters
  <1>3. CallsInv'
    BY CallsKept DEF DriverInv, GenerationFails, Leave, Given, client, counters
  <1> QED
    BY <1>1, <1>2, <1>3 DEF DriverInv

(* The output is built: the run leaves its try statement.                    *)
LEMMA OutputReadyInv ==
    ASSUME DriverInv, OutputReady
    PROVE  DriverInv'
  <1>1. TypeOK'
    BY MaxTurnsAssumption, MaxCancelsAssumption DEF DriverInv, TaskInv,
           CancellationKept, SlotsMatch, TurnsLeft, OutputReady, Continues, Leave,
           TypeOK, task, tool, client, server, remote, counters, Pcs, Kinds, Drained,
           Plain, Ended, Ids, Replies
  <1>2. TaskInv'
    BY DEF DriverInv, OutputReady, Continues, Leave, TaskInv, DrainedIsAwaited,
           ParkedRuns, TurnsLeft, CancellationKept, SlotsMatch, Finished, Given,
           Drained, tool, client, counters
  <1>3. CallsInv'
    BY CallsKept DEF DriverInv, TaskInv, CancellationKept, Finished, OutputReady,
           Continues, Leave, Given, client, remote, counters
  <1> QED
    BY <1>1, <1>2, <1>3 DEF DriverInv

(* A thread raised, or was drained for a cancellation.                       *)
LEMMA ThreadFailsInv ==
    ASSUME NEW k \in Kinds, DriverInv, ThreadFails(k)
    PROVE  DriverInv'
  <1>1. TypeOK'
    BY MaxTurnsAssumption, MaxCancelsAssumption DEF DriverInv, TaskInv,
           CancellationKept, SlotsMatch, TurnsLeft, ThreadFails, Leave, TypeOK, task,
           tool, client, server, remote, counters, Pcs, Kinds, Drained, Plain, Ended,
           Ids, Replies
  <1>2. TaskInv'
    BY DEF DriverInv, TypeOK, ThreadFails, Leave, TaskInv, DrainedIsAwaited,
           ParkedRuns, TurnsLeft, CancellationKept, SlotsMatch, Finished, Given,
           Drained, Kinds, Plain, tool, client, counters
  <1>3. CallsInv'
    BY CallsKept DEF DriverInv, ThreadFails, Leave, Given, Kinds, Drained, Plain,
           client, remote, counters
  <1> QED
    BY <1>1, <1>2, <1>3 DEF DriverInv

(* The release was answered: its server is given back.                       *)
LEMMA ReleaseEndsInv ==
    ASSUME DriverInv, ReleaseEnds
    PROVE  DriverInv'
  <1>1. TypeOK'
    BY DEF DriverInv, TaskInv, SlotsMatch, ReleaseEnds, Forget, End, TypeOK, tool,
           server, counters, Pcs, Ended, Replies
  <1>2. TaskInv'
    BY DEF DriverInv, ReleaseEnds, End, TaskInv, DrainedIsAwaited, ParkedRuns,
           TurnsLeft, CancellationKept, SlotsMatch, Finished, Given, Drained, tool,
           counters
  <1>3. CallsInv'
    BY CallsKept DEF DriverInv, ReleaseEnds, End, Given, counters
  <1> QED
    BY <1>1, <1>2, <1>3 DEF DriverInv

(* Cancelled before the try statement, the run keeps what it acquired.       *)
LEMMA CancelOutsideInv ==
    ASSUME DriverInv, CancelOutside
    PROVE  DriverInv'
  <1>1. TypeOK'
    BY MaxCancelsAssumption DEF DriverInv, CancelOutside, Cancelling, End, Forget,
           TypeOK, tool, client, server, Pcs, Ended, Replies
  <1>2. TaskInv'
    BY DEF DriverInv, TypeOK, CancelOutside, Cancelling, End, TaskInv,
           DrainedIsAwaited, ParkedRuns, TurnsLeft, CancellationKept, SlotsMatch,
           Finished, Given, Drained, tool, client
  <1>3. CallsInv'
    BY CallsKept DEF DriverInv, CancelOutside, End, Given, client
  <1> QED
    BY <1>1, <1>2, <1>3 DEF DriverInv

(* The helper holds the cancellation, its thread goes on.                    *)
LEMMA CancelDrainingInv ==
    ASSUME DriverInv, CancelDraining
    PROVE  DriverInv'
  <1>1. TypeOK'
    BY MaxCancelsAssumption DEF DriverInv, CancelDraining, Cancelling, TypeOK, tool,
           client, server, remote
  <1>2. TaskInv'
    BY DEF DriverInv, TypeOK, CancelDraining, Cancelling, TaskInv, DrainedIsAwaited,
           ParkedRuns, TurnsLeft, CancellationKept, SlotsMatch, tool, client
  <1>3. CallsInv'
    BY CallsKept DEF DriverInv, CancelDraining, client, remote
  <1> QED
    BY <1>1, <1>2, <1>3 DEF DriverInv

(* A cancelled await may leave a plain thread or a registration behind.      *)
LEMMA CancelAwaitInv ==
    ASSUME DriverInv, CancelAwait
    PROVE  DriverInv'
  <1>1. TypeOK'
    <2>1. /\ pc' \in Pcs /\ pending' \in BOOLEAN
          /\ outcome' \in {"running", "returned", "failed", "cancelled"}
      BY DEF CancelAwait, Leave, Pcs
    <2>2. reply' \in [{"task", "tool"} -> Replies]
      BY DEF DriverInv, TypeOK, CancelAwait, Forget, Replies
    <2>3. cancels' \in 0 .. MaxCancels
      BY MaxCancelsAssumption DEF DriverInv, TypeOK, CancelAwait, Cancelling
    <2> QED
      BY <2>1, <2>2, <2>3 DEF DriverInv, TypeOK, CancelAwait, tool, client, server
  <1>2. TaskInv'
    BY DEF DriverInv, TypeOK, CancelAwait, Cancelling, Leave, TaskInv,
           DrainedIsAwaited, ParkedRuns, TurnsLeft, CancellationKept, SlotsMatch,
           Finished, Given, Drained, Plain, tool, client
  <1>3. CallsInv'
    BY CallsKept DEF DriverInv, CancelAwait, Leave, Given, Plain, client
  <1> QED
    BY <1>1, <1>2, <1>3 DEF DriverInv

(* The wait that answers with its result counts the cancellation.            *)
LEMMA CancelSwallowedInv ==
    ASSUME DriverInv, CancelSwallowed
    PROVE  DriverInv'
  <1>1. TypeOK'
    BY MaxCancelsAssumption DEF DriverInv, TaskInv, CancellationKept, CancelSwallowed,
           Cancelling, TypeOK, task, tool, client, server, remote
  <1>2. TaskInv'
    BY DEF DriverInv, TypeOK, CancelSwallowed, Cancelling, TaskInv, DrainedIsAwaited,
           ParkedRuns, TurnsLeft, CancellationKept, SlotsMatch, task, tool, client
  <1>3. CallsInv'
    BY CallsKept DEF DriverInv, CancelSwallowed, task, client, remote
  <1> QED
    BY <1>1, <1>2, <1>3 DEF DriverInv

(* A cancelled release gives its server back.                                *)
LEMMA CancelReleaseInv ==
    ASSUME DriverInv, CancelRelease
    PROVE  DriverInv'
  <1>1. TypeOK'
    BY MaxCancelsAssumption DEF DriverInv, TaskInv, SlotsMatch, CancelRelease,
           Cancelling, End, Forget, TypeOK, tool, server, Pcs, Ended, Replies
  <1>2. TaskInv'
    BY DEF DriverInv, TypeOK, CancelRelease, Cancelling, End, TaskInv,
           DrainedIsAwaited, ParkedRuns, TurnsLeft, CancellationKept, SlotsMatch,
           Finished, Given, Drained, tool
  <1>3. CallsInv'
    BY CallsKept DEF DriverInv, CancelRelease, End, Given
  <1> QED
    BY <1>1, <1>2, <1>3 DEF DriverInv

(* A thread returns or raises; only the task forgets it.                     *)
LEMMA WorkerEndsInv ==
    ASSUME NEW k \in Kinds, DriverInv, WorkerEnds(k)
    PROVE  DriverInv'
  <1>1. TypeOK'
    BY DEF DriverInv, WorkerEnds, TypeOK, task, tool, client, server, remote, counters
  <1>2. TaskInv'
    BY DEF DriverInv, WorkerEnds, TaskInv, DrainedIsAwaited, ParkedRuns, TurnsLeft,
           CancellationKept, SlotsMatch, task, tool, client, counters
  <1>3. CallsInv'
    BY CallsKept DEF DriverInv, WorkerEnds, task, client, remote, counters
  <1> QED
    BY <1>1, <1>2, <1>3 DEF DriverInv

(* The segment's thread hands a tool call to the event loop.                 *)
LEMMA CallToolInv ==
    ASSUME DriverInv, CallTool
    PROVE  DriverInv'
  <1>1. TypeOK'
    BY DEF DriverInv, CallTool, TypeOK, task, client, server, remote, counters
  <1>2. TaskInv'
    BY DEF DriverInv, CallTool, TaskInv, DrainedIsAwaited, ParkedRuns, TurnsLeft,
           CancellationKept, SlotsMatch, task, client, counters
  <1>3. CallsInv'
    BY CallsKept DEF DriverInv, CallTool, task, client, remote, counters
  <1> QED
    BY <1>1, <1>2, <1>3 DEF DriverInv

(* The tool's answer reaches the segment, if it still waits.                 *)
LEMMA ToolAnsweredInv ==
    ASSUME DriverInv, ToolAnswered
    PROVE  DriverInv'
  <1>1. TypeOK'
    <2>1. worker' \in [Kinds -> {"idle", "running", "returned", "raised"}]
      BY DEF DriverInv, TypeOK, ToolAnswered, Kinds, Drained
    <2>2. reply' \in [{"task", "tool"} -> Replies]
      BY DEF DriverInv, TypeOK, ToolAnswered, Forget, Replies
    <2> QED
      BY <2>1, <2>2 DEF DriverInv, TypeOK, ToolAnswered, task, client, counters, server
  <1>2. TaskInv'
    BY DEF DriverInv, ToolAnswered, TaskInv, DrainedIsAwaited, ParkedRuns, TurnsLeft,
           CancellationKept, SlotsMatch, task, client, counters
  <1>3. CallsInv'
    BY CallsKept DEF DriverInv, ToolAnswered, task, client, counters
  <1> QED
    BY <1>1, <1>2, <1>3 DEF DriverInv

(* The segment gives its tool up; the coroutine stays.                       *)
LEMMA ToolTimesOutInv ==
    ASSUME DriverInv, ToolTimesOut
    PROVE  DriverInv'
  <1>1. TypeOK'
    <2>1. /\ worker' \in [Kinds -> {"idle", "running", "returned", "raised"}]
          /\ parked' \in BOOLEAN
      BY DEF DriverInv, TypeOK, ToolTimesOut
    <2> QED
      BY <2>1 DEF DriverInv, TypeOK, ToolTimesOut, task, client, server, remote,
             counters
  <1>2. TaskInv'
    BY DEF DriverInv, ToolTimesOut, TaskInv, DrainedIsAwaited, ParkedRuns, TurnsLeft,
           CancellationKept, SlotsMatch, task, client, counters
  <1>3. CallsInv'
    BY CallsKept DEF DriverInv, ToolTimesOut, task, client, remote, counters
  <1> QED
    BY <1>1, <1>2, <1>3 DEF DriverInv

(* The id of the registered trace is noted.                                  *)
LEMMA RegisteredInv ==
    ASSUME DriverInv, Registered
    PROVE  DriverInv'
  <1>1. TypeOK'
    BY DEF DriverInv, Registered, Forget, GoTo, TypeOK, tool, server, counters, Pcs,
           Replies
  <1>2. TaskInv'
    BY DEF DriverInv, Registered, GoTo, TaskInv, DrainedIsAwaited, ParkedRuns,
           TurnsLeft, CancellationKept, SlotsMatch, Finished, Given, Drained, tool,
           counters
  <1>3. CallsInv'
    <2>1. Traced' = Traced
      BY DEF Registered, Traced, server
    <2>2. pc \notin Given /\ pc' \notin Given
      BY DEF Registered, GoTo, Given
    <2>3. NotedIn(backend_ids)
      BY <2>2 DEF DriverInv, CallsInv, TracesAreNoted
    <2>4. TracesAreNoted'
      BY <2>1, <2>2, <2>3 DEF Registered, TracesAreNoted, NotedIn
    <2>5. ReleaseIsLast' /\ ReleaseCleansServer'
      BY <2>2 DEF DriverInv, CallsInv, Registered, ReleaseIsLast, ReleaseCleansServer,
             server
    <2> QED
      BY <2>4, <2>5 DEF CallsInv
  <1> QED
    BY <1>1, <1>2, <1>3 DEF DriverInv

(* The first call of the client: it acquires the server.                     *)
LEMMA BuildInv ==
    ASSUME DriverInv, Build
    PROVE  DriverInv'
  <1>1. TypeOK'
    <2>1. Call("source", 0) \in Calls
      BY CallType, MaxTurnsAssumption DEF Ids
    <2>2. inbox' \in Seq(Calls)
      <3>1. inbox \in Seq(Calls)
        BY DEF DriverInv, TypeOK
      <3>2. inbox' \in {inbox, Append(inbox, Call("source", 0))}
        BY DEF Build, Send
      <3> QED
        BY <2>1, <3>1, <3>2
    <2>3. pc' \in Pcs /\ routes' \in BOOLEAN /\ slots' \in Nat
      BY DEF DriverInv, TypeOK, Build, GoTo, Route, Pcs
    <2> QED
      BY <2>2, <2>3 DEF DriverInv, TypeOK, Build, GoTo, tool, counters, server
  <1>2. TaskInv'
    BY DEF DriverInv, Build, Route, GoTo, TaskInv, DrainedIsAwaited, ParkedRuns,
           TurnsLeft, CancellationKept, SlotsMatch, Finished, Given, Drained, tool,
           counters
  <1>3. CallsInv'
    <2>1. pc \notin Given /\ pc' \notin Given
      BY DEF Build, GoTo, Given
    <2>2. Call("source", 0) \in Calls /\ Call("source", 0).op = "source"
      BY CallType, MaxTurnsAssumption DEF Call, Ids
    <2>3. ReleaseIsLast' /\ ReleaseCleansServer' /\ Traced' = Traced
      BY <2>1, <2>2, SentCall DEF Build, DriverInv
    <2>4. NotedIn(backend_ids)
      BY <2>1 DEF DriverInv, CallsInv, TracesAreNoted
    <2>5. TracesAreNoted'
      BY <2>1, <2>3, <2>4 DEF Build, GoTo, TracesAreNoted, NotedIn, counters
    <2> QED
      BY <2>3, <2>5 DEF CallsInv
  <1> QED
    BY <1>1, <1>2, <1>3 DEF DriverInv

(* The client sends a registration whose id it has not noted.                *)
LEMMA GenerateInv ==
    ASSUME DriverInv, Generate
    PROVE  DriverInv'
  <1>1. TypeOK'
    <2>1. generated' \in Ids /\ generated + 1 \in Ids
      BY MaxTurnsAssumption DEF DriverInv, TypeOK, TaskInv, TurnsLeft, Generate,
             Continues, Ids
    <2>2. Call("register", generated + 1) \in Calls
      BY <2>1, CallType
    <2>3. inbox' \in Seq(Calls)
      <3>1. inbox \in Seq(Calls)
        BY DEF DriverInv, TypeOK
      <3>2. inbox' \in {inbox, Append(inbox, Call("register", generated + 1))}
        BY DEF Generate, Send
      <3> QED
        BY <2>2, <3>1, <3>2
    <2>4. /\ pc' \in Pcs /\ routes' \in BOOLEAN /\ slots' \in Nat
          /\ UNCHANGED <<outcome, pending>>
      BY DEF DriverInv, TypeOK, Generate, GoTo, Route, Pcs
    <2>5. worker' \in [Kinds -> {"idle", "running", "returned", "raised"}]
      BY DEF DriverInv, TypeOK, Generate
    <2> QED
      BY <2>1, <2>3, <2>4, <2>5 DEF DriverInv, TypeOK, Generate, tool, server
  <1>2. TaskInv'
    BY DEF DriverInv, TypeOK, Generate, Continues, Route, GoTo, TaskInv,
           DrainedIsAwaited, ParkedRuns, TurnsLeft, CancellationKept, SlotsMatch,
           Finished, Given, Kinds, tool
  <1>3. CallsInv'
    <2>1. /\ pc = "prepare" /\ pc \notin Given /\ pc' \notin Given /\ outcome = "running"
          /\ generated' = generated + 1 /\ UNCHANGED <<outcome, backend_ids, server>>
      BY DEF Generate, Continues, GoTo, Given, DriverInv, TaskInv, CancellationKept,
             Finished
    <2>2. NotedIn(backend_ids) /\ Traced \subseteq backend_ids
      BY <2>1 DEF DriverInv, CallsInv, TracesAreNoted, NotedIn
    <2>3. CASE capture
      <3>1. Call("register", generated + 1) \in Calls
        BY CallType, MaxTurnsAssumption DEF DriverInv, TypeOK, TaskInv, TurnsLeft,
               Generate, Continues, Ids
      <3>2. /\ Call("register", generated + 1).op = "register"
            /\ Call("register", generated + 1).id = generated + 1
        BY DEF Call
      <3>3. Send(Call("register", generated + 1)) /\ pc' = "register"
        BY <2>3 DEF Generate, GoTo
      <3>4. ReleaseIsLast' /\ ReleaseCleansServer' /\ Traced' = Traced \cup {generated + 1}
        BY <2>1, <3>1, <3>2, <3>3, SentCall DEF DriverInv
      <3>5. TracesAreNoted'
        BY <2>1, <2>2, <3>3, <3>4 DEF TracesAreNoted, NotedIn
      <3> QED
        BY <3>4, <3>5 DEF CallsInv
    <2>4. CASE ~capture
      <3>1. inbox' = inbox
        BY <2>4 DEF Generate
      <3>2. Traced' = Traced
        BY <2>1, <3>1 DEF Traced, server
      <3>3. TracesAreNoted'
        BY <2>1, <2>2, <3>2 DEF TracesAreNoted, NotedIn
      <3>4. ReleaseIsLast'
        BY <2>1, <3>1 DEF DriverInv, CallsInv, ReleaseIsLast, server
      <3>5. ReleaseCleansServer'
        BY <2>1 DEF DriverInv, CallsInv, ReleaseCleansServer, server
      <3> QED
        BY <3>3, <3>4, <3>5 DEF CallsInv
    <2> QED
      BY <2>3, <2>4
  <1> QED
    BY <1>1, <1>2, <1>3 DEF DriverInv

(* A tool's coroutine sends a call only for a turn, hence not after release. *)
LEMMA StartCoroutineInv ==
    ASSUME DriverInv, StartCoroutine
    PROVE  DriverInv'
  <1>1. TypeOK'
    <2>1. \A op \in Tools : Call(op, turns) \in Calls
      BY CallType DEF DriverInv, TypeOK, Tools
    <2>2. inbox' \in Seq(Calls) /\ routes' \in BOOLEAN /\ slots' \in Nat
      <3>1. CASE turns = 0
        BY <3>1 DEF DriverInv, TypeOK, StartCoroutine
      <3>2. CASE turns # 0
        <4>1. PICK op \in Tools : Send(Call(op, turns))
          BY <3>2 DEF StartCoroutine
        <4>2. inbox' \in Seq(Calls)
          BY <2>1, <4>1 DEF DriverInv, TypeOK, Send
        <4>3. Route
          BY <3>2 DEF StartCoroutine
        <4> QED
          BY <4>2, <4>3 DEF DriverInv, TypeOK, Route
      <3> QED
        BY <3>1, <3>2
    <2>3. reply' \in [{"task", "tool"} -> Replies]
      BY DEF DriverInv, TypeOK, StartCoroutine, Replies
    <2>4. coroutine' \in {"none", "scheduled", "running", "done"}
      BY DEF StartCoroutine
    <2> QED
      BY <2>2, <2>3, <2>4 DEF DriverInv, TypeOK, StartCoroutine, task, counters, server
  <1>2. TaskInv'
    BY DEF DriverInv, StartCoroutine, Route, TaskInv, DrainedIsAwaited, ParkedRuns,
           TurnsLeft, CancellationKept, SlotsMatch, task, counters
  <1>3. CallsInv'
    <2>1. UNCHANGED <<pc, outcome, generated, backend_ids, server>>
      BY DEF StartCoroutine, task, counters
    <2>2. CASE turns = 0
      BY <2>1, <2>2, CallsKept DEF DriverInv, StartCoroutine
    <2>3. CASE turns # 0
      <3>1. pc \notin Given
        BY <2>3 DEF DriverInv, TaskInv, SlotsMatch
      <3>2. PICK op \in Tools : Send(Call(op, turns))
        BY <2>3 DEF StartCoroutine
      <3>3. Call(op, turns) \in Calls /\ Call(op, turns).op \notin {"release", "register"}
        BY CallType DEF DriverInv, TypeOK, Call, Tools
      <3>4. ReleaseIsLast' /\ ReleaseCleansServer' /\ Traced' = Traced
        BY <2>1, <3>1, <3>2, <3>3, SentCall DEF DriverInv
      <3>5. NotedIn(backend_ids)
        BY <3>1 DEF DriverInv, CallsInv, TracesAreNoted
      <3>6. TracesAreNoted'
        BY <2>1, <3>1, <3>4, <3>5 DEF TracesAreNoted, NotedIn
      <3> QED
        BY <3>4, <3>6 DEF CallsInv
    <2> QED
      BY <2>2, <2>3
  <1> QED
    BY <1>1, <1>2, <1>3 DEF DriverInv

(* The release carries all the ids noted, as the last call.                  *)
LEMMA ReleaseInv ==
    ASSUME DriverInv, Release
    PROVE  DriverInv'
  <1>1. TypeOK'
    <2>1. [op |-> "release", id |-> 0, ids |-> backend_ids] \in Calls
      BY DEF DriverInv, TypeOK, Calls
    <2>2. inbox' \in Seq(Calls)
      <3>1. inbox \in Seq(Calls)
        BY DEF DriverInv, TypeOK
      <3>2. \/ inbox' = Append(inbox, [op |-> "release", id |-> 0, ids |-> backend_ids])
            \/ inbox' = inbox
        BY DEF Release, Send
      <3> QED
        BY <2>1, <3>1, <3>2
    <2>3. /\ pc' \in Pcs /\ turns' \in Ids /\ backend_ids' \subseteq Ids
          /\ UNCHANGED <<outcome, pending>>
      BY MaxTurnsAssumption DEF Release, GoTo, Pcs, Ended, Ids
    <2>4. routes' \in BOOLEAN
      BY Zenon DEF Release
    <2> QED
      BY <2>2, <2>3, <2>4 DEF DriverInv, TypeOK, Release, tool, counters, server
  <1>2. TaskInv'
    BY DEF DriverInv, Release, GoTo, TaskInv, DrainedIsAwaited, ParkedRuns, TurnsLeft,
           CancellationKept, SlotsMatch, Finished, Given, Drained, tool, counters
  <1>3. CallsInv'
    <2> DEFINE m == [op |-> "release", id |-> 0, ids |-> backend_ids]
    <2>1. /\ pc = "release" /\ pc \notin Given /\ routes
          /\ pc' = "releasing" /\ outcome' = outcome
      BY DEF DriverInv, TaskInv, SlotsMatch, Given, Release, GoTo
    <2>2. inbox \in Seq(Calls) /\ m \in Calls
      BY DEF DriverInv, TypeOK, Calls
    <2>3. /\ Len(inbox') = Len(inbox) + 1 /\ inbox' # <<>>
          /\ \A i \in 1 .. Len(inbox) : inbox'[i] = inbox[i]
          /\ inbox'[Len(inbox) + 1] = m
      BY <2>1, <2>2 DEF Release, Send
    <2>4. ~released /\ ~released'
      BY <2>1 DEF DriverInv, CallsInv, ReleaseIsLast, Release, server
    <2>5. m.op = "release" /\ m.ids = backend_ids
      OBVIOUS
    <2> HIDE DEF m
    <2>6. ReleaseIsLast'
      <3>1. \A i \in 1 .. Len(inbox) : inbox[i].op # "release"
        BY <2>1 DEF DriverInv, CallsInv, ReleaseIsLast
      <3>2. pc' \in Given
        BY <2>1 DEF Given
      <3> QED
        BY <2>2, <2>3, <2>4, <2>5, <3>1, <3>2 DEF ReleaseIsLast
    <2>7. Traced' = Traced
      BY <2>2, <2>3, <2>5 DEF Traced, Release, server
    <2>8. NotedIn(backend_ids)
      BY <2>1 DEF DriverInv, CallsInv, TracesAreNoted
    <2>9. inbox'[Len(inbox')].ids = backend_ids
      BY <2>2, <2>3, <2>5
    <2>10. TracesAreNoted'
      BY <2>1, <2>7, <2>8, <2>9 DEF TracesAreNoted, NotedIn, Given, Release, counters
    <2>11. ReleaseCleansServer'
      BY <2>4 DEF ReleaseCleansServer
    <2> QED
      BY <2>6, <2>10, <2>11 DEF CallsInv
  <1> QED
    BY <1>1, <1>2, <1>3 DEF DriverInv

(* The vLLM worker executes the first call, or that fails.                   *)
LEMMA ExecuteInv ==
    ASSUME DriverInv, Execute
    PROVE  DriverInv'
  <1>1. TypeOK'
    <2>1. Head(inbox) \in Calls /\ inbox' \in Seq(Calls)
      BY TakenCall DEF DriverInv, Execute
    <2>2. Head(inbox).id \in Ids
      BY <2>1, CallType
    <2>3. reply' \in [{"task", "tool"} -> Replies]
      BY DEF DriverInv, TypeOK, Execute, Answer, Replies
    <2>4. source_cache' \in BOOLEAN /\ released' \in BOOLEAN
      BY DEF DriverInv, TypeOK, Execute, Source, Register, Materialize,
             ReleaseTrajectory, server
    <2>5. behavior_traces' \subseteq Ids
      BY <2>2 DEF DriverInv, TypeOK, Execute, Source, Register, Materialize,
             ReleaseTrajectory, server
    <2> QED
      BY <2>1, <2>3, <2>4, <2>5
      DEF DriverInv, TypeOK, Execute, task, tool, client, counters
  <1>2. TaskInv'
    BY DEF DriverInv, Execute, TaskInv, DrainedIsAwaited, ParkedRuns, TurnsLeft,
           CancellationKept, SlotsMatch, task, tool, client, counters
  <1>3. CallsInv'
    <2> DEFINE m == Head(inbox)
    <2>1. /\ m = inbox[1] /\ inbox \in Seq(Calls) /\ inbox' \in Seq(Calls)
          /\ Len(inbox) \in Nat \ {0} /\ Len(inbox') = Len(inbox) - 1
          /\ \A i \in 1 .. Len(inbox') : inbox'[i] = inbox[i + 1]
          /\ Len(inbox) = 1 => inbox' = <<>>
      BY TakenCall DEF DriverInv, Execute
    <2>2. UNCHANGED <<pc, outcome, generated, backend_ids>> /\ ~released
      BY DEF DriverInv, CallsInv, ReleaseIsLast, Execute, task, client, counters
    <2> HIDE DEF m
    <2>3. m.op = "release" => pc \in Given /\ Len(inbox) = 1
      BY <2>1 DEF DriverInv, CallsInv, ReleaseIsLast
    <2>4. released' => m.op = "release"
      BY <2>2 DEF Execute, Source, Register, Materialize, ReleaseTrajectory, server, m
    <2>5. ReleaseIsLast'
      <3>1. \A i \in 1 .. Len(inbox) :
               inbox[i].op = "release" <=> pc \in Given /\ i = Len(inbox)
        BY DEF DriverInv, CallsInv, ReleaseIsLast
      <3>2. \A i \in 1 .. Len(inbox') :
               inbox'[i].op = "release" <=> pc \in Given /\ i = Len(inbox')
        BY <2>1, <3>1
      <3>3. released' => pc \in Given /\ inbox' = <<>>
        BY <2>1, <2>3, <2>4
      <3> QED
        BY <2>2, <3>2, <3>3 DEF ReleaseIsLast
    <2>6. behavior_traces' \subseteq
              behavior_traces \cup (IF m.op = "register" THEN {m.id} ELSE {})
      BY DEF Execute, Source, Register, Materialize, ReleaseTrajectory, server, m
    <2>7. Traced' \subseteq Traced
      <3>1. SUFFICES ASSUME NEW id \in Traced' PROVE id \in Traced
        OBVIOUS
      <3>2. CASE id \in behavior_traces'
        BY <2>1, <2>6, <3>2 DEF Traced
      <3>3. CASE \E i \in 1 .. Len(inbox') : inbox'[i].op = "register" /\ inbox'[i].id = id
        <4>1. PICK i \in 1 .. Len(inbox') : inbox'[i].op = "register" /\ inbox'[i].id = id
          BY <3>3
        <4>2. i + 1 \in 1 .. Len(inbox) /\ inbox'[i] = inbox[i + 1]
          BY <2>1, <4>1
        <4> QED
          BY <4>1, <4>2 DEF Traced
      <3> QED
        BY <3>1, <3>2, <3>3 DEF Traced
    <2>8. TracesAreNoted'
      <3>1. ASSUME NEW ids, NotedIn(ids) PROVE Traced' \subseteq ids \cup {generated}
            /\ (Traced' \subseteq ids \/ pc = "register" \/ outcome \in {"failed", "cancelled"})
        BY <2>7, <3>1 DEF NotedIn
      <3>2. CASE pc \notin Given
        <4>1. NotedIn(backend_ids)
          BY <3>2 DEF DriverInv, CallsInv, TracesAreNoted
        <4> QED
          BY <2>2, <3>1, <3>2, <4>1 DEF TracesAreNoted, NotedIn
      <3>3. CASE pc \in Given /\ inbox' # <<>>
        <4>1. inbox'[Len(inbox')] = inbox[Len(inbox)]
          BY <2>1, <3>3
        <4>2. NotedIn(inbox[Len(inbox)].ids)
          BY <2>1, <3>3 DEF DriverInv, CallsInv, TracesAreNoted
        <4> QED
          BY <2>2, <3>1, <3>3, <4>1, <4>2 DEF TracesAreNoted, NotedIn
      <3> QED
        BY <2>2, <3>2, <3>3 DEF TracesAreNoted
    <2>9. ReleaseCleansServer'
      <3> SUFFICES ASSUME released' PROVE ReleaseCleansServer'
        BY DEF ReleaseCleansServer
      <3>1. m.op = "release" /\ ReleaseTrajectory(m)
        BY <2>2, <2>4 DEF Execute, Source, Register, Materialize, server, m
      <3>2. pc \in Given /\ m = inbox[Len(inbox)]
        BY <2>1, <2>3, <3>1
      <3>3. NotedIn(m.ids)
        BY <3>2 DEF DriverInv, CallsInv, TracesAreNoted, Execute
      <3>4. behavior_traces \subseteq Traced
        BY DEF Traced
      <3>5. pc # "register"
        BY <3>2 DEF Given
      <3> QED
        BY <2>2, <3>1, <3>3, <3>4, <3>5
        DEF ReleaseTrajectory, ReleaseCleansServer, NotedIn
    <2> QED
      BY <2>5, <2>8, <2>9 DEF CallsInv
  <1> QED
    BY <1>1, <1>2, <1>3 DEF DriverInv

(* A stuttering step keeps the invariant.                                    *)
LEMMA StutterInv == DriverInv /\ UNCHANGED vars => DriverInv'
  <1> SUFFICES ASSUME DriverInv, UNCHANGED vars PROVE DriverInv'
    OBVIOUS
  <1>1. TypeOK'
    BY DEF DriverInv, TypeOK, vars, task, tool, client, counters, remote, server
  <1>2. TaskInv'
    BY DEF DriverInv, TaskInv, DrainedIsAwaited, ParkedRuns, TurnsLeft,
           CancellationKept, SlotsMatch, vars, task, tool, client, counters
  <1>3. CallsInv'
    BY CallsKept DEF DriverInv, vars, task, client, counters, remote
  <1> QED
    BY <1>1, <1>2, <1>3 DEF DriverInv

-----------------------------------------------------------------------------
(* No await is left alone                                                    *)

(* What is on its way after a call was sent, taken, or neither.              *)
LEMMA InFlightSent ==
    ASSUME TypeOK, CallsAreSingle, NEW m \in Calls, Send(m), KindOf(m.op) \notin InFlight
    PROVE  InFlight' = InFlight \cup {KindOf(m.op)} /\ CallsAreSingle'
  <1>1. inbox \in Seq(Calls)
    BY DEF TypeOK
  <1>2. /\ Len(inbox') = Len(inbox) + 1 /\ Len(inbox) \in Nat
        /\ \A i \in 1 .. Len(inbox) : inbox'[i] = inbox[i]
        /\ inbox'[Len(inbox) + 1] = m
    BY <1>1 DEF Send
  <1>3. \A i \in 1 .. Len(inbox) : KindOf(inbox[i].op) # KindOf(m.op)
    BY DEF InFlight
  <1>4. InFlight' = InFlight \cup {KindOf(m.op)}
    <2>1. ASSUME NEW k \in InFlight' PROVE k \in InFlight \cup {KindOf(m.op)}
      BY <1>2, <2>1 DEF InFlight
    <2>2. ASSUME NEW k \in InFlight PROVE k \in InFlight'
      BY <1>2, <2>2 DEF InFlight
    <2>3. KindOf(m.op) \in InFlight'
      BY <1>2 DEF InFlight
    <2> QED
      BY <2>1, <2>2, <2>3
  <1>5. CallsAreSingle'
    BY <1>2, <1>3 DEF CallsAreSingle
  <1> QED
    BY <1>4, <1>5

LEMMA InFlightTaken ==
    ASSUME TypeOK, CallsAreSingle, inbox # <<>>, inbox' = Tail(inbox)
    PROVE  /\ KindOf(Head(inbox).op) \in InFlight
           /\ InFlight' = InFlight \ {KindOf(Head(inbox).op)} /\ CallsAreSingle'
  <1> DEFINE m == Head(inbox)
  <1>1. /\ m = inbox[1] /\ Len(inbox) \in Nat \ {0} /\ Len(inbox') = Len(inbox) - 1
        /\ \A i \in 1 .. Len(inbox') : inbox'[i] = inbox[i + 1]
    BY TakenCall
  <1> HIDE DEF m
  <1>2. \A i \in 1 .. Len(inbox) : KindOf(inbox[i].op) = KindOf(m.op) <=> i = 1
    BY <1>1 DEF CallsAreSingle
  <1>3. KindOf(m.op) \in InFlight
    BY <1>1 DEF InFlight
  <1>4. InFlight' = InFlight \ {KindOf(m.op)}
    <2>1. ASSUME NEW k \in InFlight' PROVE k \in InFlight /\ k # KindOf(m.op)
      <3>1. PICK i \in 1 .. Len(inbox') : k = KindOf(inbox'[i].op)
        BY <2>1 DEF InFlight
      <3>2. i + 1 \in 1 .. Len(inbox) /\ i + 1 # 1 /\ inbox'[i] = inbox[i + 1]
        BY <1>1, <3>1
      <3> QED
        BY <1>2, <3>1, <3>2 DEF InFlight
    <2>2. ASSUME NEW k \in InFlight, k # KindOf(m.op) PROVE k \in InFlight'
      <3>1. PICK i \in 1 .. Len(inbox) : k = KindOf(inbox[i].op)
        BY <2>2 DEF InFlight
      <3>2. i - 1 \in 1 .. Len(inbox') /\ inbox'[i - 1] = inbox[i]
        BY <1>1, <2>2, <3>1
      <3> QED
        BY <3>1, <3>2 DEF InFlight
    <2> QED
      BY <2>1, <2>2
  <1>5. CallsAreSingle'
    BY <1>1 DEF CallsAreSingle
  <1> QED
    BY <1>3, <1>4, <1>5 DEF m

LEMMA InFlightKept ==
    ASSUME CallsAreSingle, inbox' = inbox
    PROVE  InFlight' = InFlight /\ CallsAreSingle'
  BY DEF CallsAreSingle, InFlight

(* The kinds of the calls.                                                   *)
LEMMA CallKinds ==
    /\ \A op \in {"source", "register", "focus", "crop"}, id \in Ids :
          KindOf(Call(op, id).op) = IF op \in {"focus", "crop"} THEN "tool" ELSE op
    /\ \A m \in Calls : KindOf(m.op) \in {"source", "register", "release", "tool"}
  <1>1. ASSUME NEW m \in Calls PROVE m.op \in {"source", "register", "focus", "crop", "release"}
    BY DEF Calls
  <1> QED
    BY <1>1 DEF KindOf, Call

LEMMA InitAwaitInv == Init => AwaitInv
  BY DEF Init, AwaitInv, CallsAreSingle, CallsBelong, ToolBelongs, EveryAwaitIsServed,
         InFlight, Awaits, Kinds, Drained, Plain

(* What the awaits say, call by call.                                        *)
Waits ==
    /\ pc \in Kinds => worker[pc] # "idle"
    /\ pc = "build" => (reply["task"] = "none" <=> "source" \in InFlight)
    /\ pc = "register" => (reply["task"] = "none" <=> "register" \in InFlight)
    /\ pc = "releasing" => (reply["task"] = "none" <=> "release" \in InFlight)
    /\ pc \notin {"build", "register", "releasing"} => reply["task"] = "none"
    /\ coroutine = "running" => (reply["tool"] = "none" <=> "tool" \in InFlight)
    /\ coroutine # "running" => reply["tool"] = "none"
    /\ parked => coroutine \in {"scheduled", "running"}

LEMMA AwaitedOrWaits == EveryAwaitIsServed <=> Waits
  <1>1. /\ DOMAIN Awaits = {"build", "register", "releasing"}
        /\ Awaits["build"] = "source" /\ Awaits["register"] = "register"
        /\ Awaits["releasing"] = "release"
    BY DEF Awaits
  <1> QED
    BY <1>1 DEF EveryAwaitIsServed, Waits

ServedInv == CallsAreSingle /\ CallsBelong /\ ToolBelongs /\ Waits

LEMMA AwaitIsServed == AwaitInv <=> ServedInv
  BY AwaitedOrWaits DEF AwaitInv, ServedInv

(* Every action keeps it: those that send and take no call first.            *)
(* A refused sample waits for nothing.                                       *)
LEMMA BuildRefusedServed ==
    ASSUME DriverInv, ServedInv, BuildRefused
    PROVE  ServedInv'
  <1>1. InFlight' = InFlight /\ CallsAreSingle'
    BY InFlightKept DEF ServedInv, BuildRefused, remote
  <1>2. (CallsBelong /\ ToolBelongs /\ Waits)'
    BY <1>1
       DEF BuildRefused, End, DriverInv, TypeOK, TaskInv, DrainedIsAwaited,
           ParkedRuns, ServedInv, CallsBelong, ToolBelongs, Waits, Finished, Given,
           Kinds, Drained, Plain, tool, client, counters, remote
  <1> QED
    BY <1>1, <1>2 DEF ServedInv

(* The factory's thread starts, or the run is over.                          *)
LEMMA BuildEndsServed ==
    ASSUME DriverInv, ServedInv, BuildEnds
    PROVE  ServedInv'
  <1>1. InFlight' = InFlight /\ CallsAreSingle'
    BY InFlightKept DEF ServedInv, BuildEnds, remote
  <1>2. (CallsBelong /\ ToolBelongs /\ Waits)'
    BY <1>1
       DEF BuildEnds, GoTo, End, Forget, DriverInv, TypeOK, TaskInv,
           DrainedIsAwaited, ParkedRuns, ServedInv, CallsBelong, ToolBelongs,
           Waits, Finished, Given, Kinds, Drained, Plain, tool, client, counters,
           remote
  <1> QED
    BY <1>1, <1>2 DEF ServedInv

(* The next thread starts where the last one returned.                       *)
LEMMA NextThreadServed ==
    ASSUME NEW k \in Kinds, DriverInv, ServedInv, NextThread(k)
    PROVE  ServedInv'
  <1>1. InFlight' = InFlight /\ CallsAreSingle'
    BY InFlightKept DEF ServedInv, NextThread, remote
  <1>2. (CallsBelong /\ ToolBelongs /\ Waits)'
    BY <1>1
       DEF NextThread, Continues, GoTo, Follows, DriverInv, TypeOK, TaskInv,
           DrainedIsAwaited, ParkedRuns, ServedInv, CallsBelong, ToolBelongs,
           Waits, Finished, Given, Kinds, Drained, Plain, tool, client, counters,
           remote
  <1> QED
    BY <1>1, <1>2 DEF ServedInv

(* The registration's answer is taken.                                       *)
LEMMA RegisteredServed ==
    ASSUME DriverInv, ServedInv, Registered
    PROVE  ServedInv'
  <1>1. InFlight' = InFlight /\ CallsAreSingle'
    BY InFlightKept DEF ServedInv, Registered, remote
  <1>2. (CallsBelong /\ ToolBelongs /\ Waits)'
    BY <1>1
       DEF Registered, GoTo, Forget, DriverInv, TypeOK, TaskInv,
           DrainedIsAwaited, ParkedRuns, ServedInv, CallsBelong, ToolBelongs,
           Waits, Finished, Given, Kinds, Drained, Plain, tool, client, counters,
           remote
  <1> QED
    BY <1>1, <1>2 DEF ServedInv

(* The generation is done before it is taken.                                *)
LEMMA SampledServed ==
    ASSUME DriverInv, ServedInv, Sampled
    PROVE  ServedInv'
  <1>1. InFlight' = InFlight /\ CallsAreSingle'
    BY InFlightKept DEF ServedInv, Sampled, remote
  <1>2. (CallsBelong /\ ToolBelongs /\ Waits)'
    BY <1>1
       DEF Sampled, GoTo, DriverInv, TypeOK, TaskInv, DrainedIsAwaited,
           ParkedRuns, ServedInv, CallsBelong, ToolBelongs, Waits, Finished, Given,
           Kinds, Drained, Plain, tool, client, counters, remote
  <1> QED
    BY <1>1, <1>2 DEF ServedInv

(* The thread that reads the generation starts.                              *)
LEMMA TakeSampledServed ==
    ASSUME DriverInv, ServedInv, TakeSampled
    PROVE  ServedInv'
  <1>1. InFlight' = InFlight /\ CallsAreSingle'
    BY InFlightKept DEF ServedInv, TakeSampled, remote
  <1>2. (CallsBelong /\ ToolBelongs /\ Waits)'
    BY <1>1
       DEF TakeSampled, GoTo, DriverInv, TypeOK, TaskInv, DrainedIsAwaited,
           ParkedRuns, ServedInv, CallsBelong, ToolBelongs, Waits, Finished, Given,
           Kinds, Drained, Plain, tool, client, counters, remote
  <1> QED
    BY <1>1, <1>2 DEF ServedInv

(* A registration cut off is not waited for.                                 *)
LEMMA GenerationFailsServed ==
    ASSUME DriverInv, ServedInv, GenerationFails
    PROVE  ServedInv'
  <1>1. InFlight' = InFlight /\ CallsAreSingle'
    BY InFlightKept DEF ServedInv, GenerationFails, remote
  <1>2. (CallsBelong /\ ToolBelongs /\ Waits)'
    BY <1>1
       DEF GenerationFails, Leave, Forget, DriverInv, TypeOK, TaskInv,
           DrainedIsAwaited, ParkedRuns, ServedInv, CallsBelong, ToolBelongs,
           Waits, Finished, Given, Kinds, Drained, Plain, tool, client, counters,
           remote
  <1> QED
    BY <1>1, <1>2 DEF ServedInv

(* The output's thread has ended.                                            *)
LEMMA OutputReadyServed ==
    ASSUME DriverInv, ServedInv, OutputReady
    PROVE  ServedInv'
  <1>1. InFlight' = InFlight /\ CallsAreSingle'
    BY InFlightKept DEF ServedInv, OutputReady, remote
  <1>2. (CallsBelong /\ ToolBelongs /\ Waits)'
    BY <1>1
       DEF OutputReady, Continues, Leave, DriverInv, TypeOK, TaskInv,
           DrainedIsAwaited, ParkedRuns, ServedInv, CallsBelong, ToolBelongs,
           Waits, Finished, Given, Kinds, Drained, Plain, tool, client, counters,
           remote
  <1> QED
    BY <1>1, <1>2 DEF ServedInv

(* A thread that raised, or was drained, has ended.                          *)
LEMMA ThreadFailsServed ==
    ASSUME NEW k \in Kinds, DriverInv, ServedInv, ThreadFails(k)
    PROVE  ServedInv'
  <1>1. InFlight' = InFlight /\ CallsAreSingle'
    BY InFlightKept DEF ServedInv, ThreadFails, remote
  <1>2. (CallsBelong /\ ToolBelongs /\ Waits)'
    BY <1>1
       DEF ThreadFails, Leave, DriverInv, TypeOK, TaskInv, DrainedIsAwaited,
           ParkedRuns, ServedInv, CallsBelong, ToolBelongs, Waits, Finished, Given,
           Kinds, Drained, Plain, tool, client, counters, remote
  <1> QED
    BY <1>1, <1>2 DEF ServedInv

(* The release's answer is taken.                                            *)
LEMMA ReleaseEndsServed ==
    ASSUME DriverInv, ServedInv, ReleaseEnds
    PROVE  ServedInv'
  <1>1. InFlight' = InFlight /\ CallsAreSingle'
    BY InFlightKept DEF ServedInv, ReleaseEnds, remote
  <1>2. (CallsBelong /\ ToolBelongs /\ Waits)'
    BY <1>1
       DEF ReleaseEnds, End, Forget, DriverInv, TypeOK, TaskInv,
           DrainedIsAwaited, ParkedRuns, ServedInv, CallsBelong, ToolBelongs,
           Waits, Finished, Given, Kinds, Drained, Plain, tool, client, counters,
           remote
  <1> QED
    BY <1>1, <1>2 DEF ServedInv

(* Nothing is waited for any more.                                           *)
LEMMA CancelOutsideServed ==
    ASSUME DriverInv, ServedInv, CancelOutside
    PROVE  ServedInv'
  <1>1. InFlight' = InFlight /\ CallsAreSingle'
    BY InFlightKept DEF ServedInv, CancelOutside, remote
  <1>2. (CallsBelong /\ ToolBelongs /\ Waits)'
    BY <1>1
       DEF CancelOutside, End, Forget, DriverInv, TypeOK, TaskInv,
           DrainedIsAwaited, ParkedRuns, ServedInv, CallsBelong, ToolBelongs,
           Waits, Finished, Given, Kinds, Drained, Plain, tool, client, counters,
           remote
  <1> QED
    BY <1>1, <1>2 DEF ServedInv

(* The thread that is drained is still waited for.                           *)
LEMMA CancelDrainingServed ==
    ASSUME DriverInv, ServedInv, CancelDraining
    PROVE  ServedInv'
  <1>1. InFlight' = InFlight /\ CallsAreSingle'
    BY InFlightKept DEF ServedInv, CancelDraining, remote
  <1>2. (CallsBelong /\ ToolBelongs /\ Waits)'
    BY <1>1
       DEF CancelDraining, DriverInv, TypeOK, TaskInv, DrainedIsAwaited,
           ParkedRuns, ServedInv, CallsBelong, ToolBelongs, Waits, Finished, Given,
           Kinds, Drained, Plain, tool, client, counters, remote
  <1> QED
    BY <1>1, <1>2 DEF ServedInv

(* A cancelled await leaves its thread or its call to itself.                *)
LEMMA CancelAwaitServed ==
    ASSUME DriverInv, ServedInv, CancelAwait
    PROVE  ServedInv'
  <1>1. InFlight' = InFlight /\ CallsAreSingle'
    BY InFlightKept DEF ServedInv, CancelAwait, remote
  <1>2. (CallsBelong /\ ToolBelongs /\ Waits)'
    BY <1>1
       DEF CancelAwait, Leave, Forget, DriverInv, TypeOK, TaskInv,
           DrainedIsAwaited, ParkedRuns, ServedInv, CallsBelong, ToolBelongs,
           Waits, Finished, Given, Kinds, Drained, Plain, tool, client, counters,
           remote
  <1> QED
    BY <1>1, <1>2 DEF ServedInv

(* The result is taken next.                                                 *)
LEMMA CancelSwallowedServed ==
    ASSUME DriverInv, ServedInv, CancelSwallowed
    PROVE  ServedInv'
  <1>1. InFlight' = InFlight /\ CallsAreSingle'
    BY InFlightKept DEF ServedInv, CancelSwallowed, remote
  <1>2. (CallsBelong /\ ToolBelongs /\ Waits)'
    BY <1>1
       DEF CancelSwallowed, task, DriverInv, TypeOK, TaskInv, DrainedIsAwaited,
           ParkedRuns, ServedInv, CallsBelong, ToolBelongs, Waits, Finished, Given,
           Kinds, Drained, Plain, tool, client, counters, remote
  <1> QED
    BY <1>1, <1>2 DEF ServedInv

(* The release goes on alone.                                                *)
LEMMA CancelReleaseServed ==
    ASSUME DriverInv, ServedInv, CancelRelease
    PROVE  ServedInv'
  <1>1. InFlight' = InFlight /\ CallsAreSingle'
    BY InFlightKept DEF ServedInv, CancelRelease, remote
  <1>2. (CallsBelong /\ ToolBelongs /\ Waits)'
    BY <1>1
       DEF CancelRelease, End, Forget, DriverInv, TypeOK, TaskInv,
           DrainedIsAwaited, ParkedRuns, ServedInv, CallsBelong, ToolBelongs,
           Waits, Finished, Given, Kinds, Drained, Plain, tool, client, counters,
           remote
  <1> QED
    BY <1>1, <1>2 DEF ServedInv

(* A thread that ended is no longer idle.                                    *)
LEMMA WorkerEndsServed ==
    ASSUME NEW k \in Kinds, DriverInv, ServedInv, WorkerEnds(k)
    PROVE  ServedInv'
  <1>1. InFlight' = InFlight /\ CallsAreSingle'
    BY InFlightKept DEF ServedInv, WorkerEnds, remote
  <1>2. (CallsBelong /\ ToolBelongs /\ Waits)'
    BY <1>1
       DEF WorkerEnds, task, DriverInv, TypeOK, TaskInv, DrainedIsAwaited,
           ParkedRuns, ServedInv, CallsBelong, ToolBelongs, Waits, Finished, Given,
           Kinds, Drained, Plain, tool, client, counters, remote
  <1> QED
    BY <1>1, <1>2 DEF ServedInv

(* A thread parks with the coroutine that will wake it.                      *)
LEMMA CallToolServed ==
    ASSUME DriverInv, ServedInv, CallTool
    PROVE  ServedInv'
  <1>1. InFlight' = InFlight /\ CallsAreSingle'
    BY InFlightKept DEF ServedInv, CallTool, remote
  <1>2. (CallsBelong /\ ToolBelongs /\ Waits)'
    BY <1>1
       DEF CallTool, task, DriverInv, TypeOK, TaskInv, DrainedIsAwaited,
           ParkedRuns, ServedInv, CallsBelong, ToolBelongs, Waits, Finished, Given,
           Kinds, Drained, Plain, tool, client, counters, remote
  <1> QED
    BY <1>1, <1>2 DEF ServedInv

(* The coroutine ends when it was answered, and wakes its thread.            *)
LEMMA ToolAnsweredServed ==
    ASSUME DriverInv, ServedInv, ToolAnswered
    PROVE  ServedInv'
  <1>1. InFlight' = InFlight /\ CallsAreSingle'
    BY InFlightKept DEF ServedInv, ToolAnswered, remote
  <1>2. (CallsBelong /\ ToolBelongs /\ Waits)'
    BY <1>1
       DEF ToolAnswered, Forget, task, DriverInv, TypeOK, TaskInv,
           DrainedIsAwaited, ParkedRuns, ServedInv, CallsBelong, ToolBelongs,
           Waits, Finished, Given, Kinds, Drained, Plain, tool, client, counters,
           remote
  <1> QED
    BY <1>1, <1>2 DEF ServedInv

(* The thread gives up, its coroutine goes on.                               *)
LEMMA ToolTimesOutServed ==
    ASSUME DriverInv, ServedInv, ToolTimesOut
    PROVE  ServedInv'
  <1>1. InFlight' = InFlight /\ CallsAreSingle'
    BY InFlightKept DEF ServedInv, ToolTimesOut, remote
  <1>2. (CallsBelong /\ ToolBelongs /\ Waits)'
    BY <1>1
       DEF ToolTimesOut, task, DriverInv, TypeOK, TaskInv, DrainedIsAwaited,
           ParkedRuns, ServedInv, CallsBelong, ToolBelongs, Waits, Finished, Given,
           Kinds, Drained, Plain, tool, client, counters, remote
  <1> QED
    BY <1>1, <1>2 DEF ServedInv

(* The source is asked for, by the first call.                               *)
LEMMA BuildServed ==
    ASSUME DriverInv, ServedInv, Build
    PROVE  ServedInv'
  <1> DEFINE m == Call("source", 0)
  <1>1. m \in Calls /\ KindOf(m.op) = "source"
    BY CallType, CallKinds, MaxTurnsAssumption DEF Ids
  <1>2. pc = "start" /\ Send(m) /\ pc' = "build" /\ UNCHANGED <<worker, reply, coroutine, parked>>
    BY DEF Build, GoTo, tool
  <1>3. KindOf(m.op) \notin InFlight
    BY <1>1, <1>2 DEF ServedInv, CallsBelong
  <1>4. InFlight' = InFlight \cup {"source"} /\ CallsAreSingle'
    BY <1>1, <1>2, <1>3, InFlightSent DEF DriverInv, ServedInv
  <1>5. (CallsBelong /\ ToolBelongs /\ Waits)'
    BY <1>2, <1>4
    DEF ServedInv, CallsBelong, ToolBelongs, Waits, Finished, Given, Kinds, Drained, Plain
  <1> QED
    BY <1>4, <1>5 DEF ServedInv

(* A registration is asked for, or the generation needs none.                *)
LEMMA GenerateServed ==
    ASSUME DriverInv, ServedInv, Generate
    PROVE  ServedInv'
  <1> DEFINE m == Call("register", generated + 1)
  <1>1. /\ pc = "prepare" /\ UNCHANGED <<reply, coroutine, parked>>
        /\ pc' \in {"register", "sampling"}
        /\ worker' = [worker EXCEPT !["prepare"] = "idle"]
    BY DEF Generate, Continues, GoTo, tool
  <1>2. CASE capture
    <2>1. m \in Calls /\ KindOf(m.op) = "register"
      BY CallType, CallKinds, MaxTurnsAssumption
      DEF DriverInv, TypeOK, TaskInv, TurnsLeft, Generate, Continues, Ids
    <2>2. Send(m) /\ pc' = "register"
      BY <1>2 DEF Generate, GoTo
    <2>3. KindOf(m.op) \notin InFlight
      BY <1>1, <2>1 DEF ServedInv, CallsBelong, Finished
    <2>4. InFlight' = InFlight \cup {"register"} /\ CallsAreSingle'
      BY <2>1, <2>2, <2>3, InFlightSent DEF DriverInv, ServedInv
    <2>5. (CallsBelong /\ ToolBelongs /\ Waits)'
      BY <1>1, <2>2, <2>4
      DEF ServedInv, CallsBelong, ToolBelongs, Waits, Finished, Given, Kinds, Drained,
          Plain
    <2> QED
      BY <2>4, <2>5 DEF ServedInv
  <1>3. CASE ~capture
    <2>1. inbox' = inbox /\ pc' = "sampling"
      BY <1>3 DEF Generate, GoTo
    <2>2. InFlight' = InFlight /\ CallsAreSingle'
      BY <2>1, InFlightKept DEF ServedInv
    <2>3. (CallsBelong /\ ToolBelongs /\ Waits)'
      BY <1>1, <2>1, <2>2
      DEF ServedInv, CallsBelong, ToolBelongs, Waits, Finished, Given, Kinds, Drained,
          Plain
    <2> QED
      BY <2>2, <2>3 DEF ServedInv
  <1> QED
    BY <1>2, <1>3

(* The release is asked for, beside what was cut off.                        *)
LEMMA ReleaseServed ==
    ASSUME DriverInv, ServedInv, Release
    PROVE  ServedInv'
  <1> DEFINE m == [op |-> "release", id |-> 0, ids |-> backend_ids]
  <1>1. m \in Calls /\ KindOf(m.op) = "release"
    BY DEF DriverInv, TypeOK, Calls, KindOf
  <1>2. /\ pc = "release" /\ Send(m) /\ pc' = "releasing"
        /\ UNCHANGED <<worker, reply, coroutine, parked>>
    BY DEF DriverInv, TaskInv, SlotsMatch, Given, Release, GoTo, tool
  <1>3. KindOf(m.op) \notin InFlight
    BY <1>1, <1>2 DEF ServedInv, CallsBelong, Given
  <1>4. InFlight' = InFlight \cup {"release"} /\ CallsAreSingle'
    <2> HIDE DEF m
    <2> QED
      BY <1>1, <1>2, <1>3, InFlightSent DEF DriverInv, ServedInv
  <1>5. (CallsBelong /\ ToolBelongs /\ Waits)'
    BY <1>2, <1>4
    DEF ServedInv, CallsBelong, ToolBelongs, Waits, Finished, Given, Kinds, Drained, Plain
  <1> QED
    BY <1>4, <1>5 DEF ServedInv

(* The coroutine asks for its materialization, or learns that its turn has   *)
(* gone.                                                                     *)
LEMMA StartCoroutineServed ==
    ASSUME DriverInv, ServedInv, StartCoroutine
    PROVE  ServedInv'
  <1>1. /\ coroutine = "scheduled" /\ coroutine' = "running"
        /\ UNCHANGED <<pc, worker, parked>>
    BY DEF StartCoroutine, task
  <1>2. CASE turns = 0
    <2>1. /\ inbox' = inbox /\ reply' = [reply EXCEPT !["tool"] = "error"]
      BY <1>2 DEF StartCoroutine
    <2>2. InFlight' = InFlight /\ CallsAreSingle'
      BY <2>1, InFlightKept DEF ServedInv
    <2>3. (CallsBelong /\ ToolBelongs /\ Waits)'
      BY <1>1, <2>1, <2>2
      DEF DriverInv, TypeOK, ServedInv, CallsBelong, ToolBelongs, Waits
    <2> QED
      BY <2>2, <2>3 DEF ServedInv
  <1>3. CASE turns # 0
    <2>1. PICK op \in Tools : Send(Call(op, turns))
      BY <1>3 DEF StartCoroutine
    <2>2. Call(op, turns) \in Calls /\ KindOf(Call(op, turns).op) = "tool"
      BY CallType, CallKinds DEF DriverInv, TypeOK, Tools
    <2>3. "tool" \notin InFlight /\ reply' = reply
      BY <1>1, <1>3 DEF ServedInv, CallsBelong, StartCoroutine
    <2>4. InFlight' = InFlight \cup {"tool"} /\ CallsAreSingle'
      BY <2>1, <2>2, <2>3, InFlightSent DEF DriverInv, ServedInv
    <2>5. (CallsBelong /\ ToolBelongs /\ Waits)'
      BY <1>1, <2>3, <2>4
      DEF DriverInv, TypeOK, ServedInv, CallsBelong, ToolBelongs, Waits
    <2> QED
      BY <2>4, <2>5 DEF ServedInv
  <1> QED
    BY <1>2, <1>3

(* The call that is executed is answered to its caller, if that still waits. *)
LEMMA ExecuteServed ==
    ASSUME DriverInv, ServedInv, Execute
    PROVE  ServedInv'
  <1> DEFINE m == Head(inbox)
  <1>1. /\ KindOf(m.op) \in InFlight
        /\ InFlight' = InFlight \ {KindOf(m.op)} /\ CallsAreSingle'
    BY InFlightTaken DEF DriverInv, ServedInv, Execute
  <1>2. UNCHANGED <<pc, worker, parked, coroutine>> /\ \E r \in {"ok", "error"} : Answer(m.op, r)
    BY DEF Execute, task, tool
  <1>3. m \in Calls
    BY TakenCall DEF DriverInv, Execute
  <1> HIDE DEF m
  <1>4. m.op \in {"source", "register", "focus", "crop", "release"}
    BY <1>3 DEF Calls
  <1>5. reply \in [{"task", "tool"} -> Replies]
    BY DEF DriverInv, TypeOK
  <1>6. /\ (Awaited(m.op) /\ KindOf(m.op) = "tool")
              => reply'["tool"] # "none" /\ reply'["task"] = reply["task"]
        /\ (Awaited(m.op) /\ KindOf(m.op) # "tool")
              => reply'["task"] # "none" /\ reply'["tool"] = reply["tool"]
        /\ ~Awaited(m.op) => reply' = reply
    BY <1>2, <1>4, <1>5 DEF Answer, Caller, KindOf
  <1>7. /\ KindOf(m.op) = "tool" => (Awaited(m.op) <=> coroutine = "running")
        /\ KindOf(m.op) = "source" => (Awaited(m.op) <=> pc = "build")
        /\ KindOf(m.op) = "register" => (Awaited(m.op) <=> pc = "register")
        /\ KindOf(m.op) = "release" => (Awaited(m.op) <=> pc = "releasing")
        /\ KindOf(m.op) \in {"tool", "source", "register", "release"}
    BY <1>4 DEF Awaited, KindOf
  <1>8. (CallsBelong /\ ToolBelongs /\ Waits)'
    BY <1>1, <1>2, <1>6, <1>7 DEF ServedInv, CallsBelong, ToolBelongs, Waits, Finished, Given
  <1> QED
    BY <1>1, <1>8 DEF ServedInv

LEMMA StutterServed ==
    ASSUME ServedInv, UNCHANGED vars
    PROVE  ServedInv'
  <1>1. InFlight' = InFlight /\ CallsAreSingle'
    BY InFlightKept DEF ServedInv, vars, remote
  <1> QED
    BY <1>1 DEF ServedInv, CallsBelong, ToolBelongs, Waits, vars, task, tool, remote

-----------------------------------------------------------------------------
(* The invariant and the properties                                          *)

(* Every reachable state of the driver satisfies the inductive invariant:    *)
(* run() of native_agent_loop.py, its helper and the servers' client.        *)
THEOREM DriverInvariant == Spec => []DriverInv
  <1>1. DriverInv /\ [Next]_vars => DriverInv'
    <2> SUFFICES ASSUME DriverInv, Next PROVE DriverInv'
      BY StutterInv
    <2>1. CASE TaskStep
      BY <2>1, BuildRefusedInv, BuildInv, BuildEndsInv, NextThreadInv, ThreadFailsInv,
             GenerateInv, RegisteredInv, SampledInv, TakeSampledInv,
             GenerationFailsInv, OutputReadyInv, ReleaseInv, ReleaseEndsInv
      DEF TaskStep
    <2>2. CASE Cancel
      BY <2>2, CancelOutsideInv, CancelDrainingInv, CancelAwaitInv,
             CancelSwallowedInv, CancelReleaseInv
      DEF Cancel
    <2>3. CASE Execute
      BY <2>3, ExecuteInv
    <2>4. CASE \E k \in Kinds : WorkerEnds(k)
      BY <2>4, WorkerEndsInv
    <2>5. CASE CallTool \/ StartCoroutine \/ ToolAnswered \/ ToolTimesOut
      BY <2>5, CallToolInv, StartCoroutineInv, ToolAnsweredInv, ToolTimesOutInv
    <2> QED
      BY <2>1, <2>2, <2>3, <2>4, <2>5 DEF Next
  <1> QED
    BY <1>1, InitDriverInv, PTL DEF Spec

(* Every variable of the driver keeps its type; slots never go below zero:   *)
(* no server is given back twice (vllm_tool_runtime.py:1812-1825).           *)
THEOREM DriverTypeCorrect == Spec => []TypeOK
  <1>1. DriverInv => TypeOK
    BY DEF DriverInv
  <1> QED
    BY <1>1, DriverInvariant, PTL

(* The finally block never runs beside a thread that must be drained         *)
(* (async_worker.py:20-26, native_agent_loop.py:634-637).                    *)
THEOREM DrainComesFirst == Spec => []DrainedBeforeRelease
  <1>1. DriverInv => DrainedBeforeRelease
    BY DEF DriverInv, TaskInv, DrainedIsAwaited, DrainedBeforeRelease, Drained
  <1> QED
    BY <1>1, DriverInvariant, PTL

(* A run that ended through its finally block holds nothing at the client,   *)
(* then or later (vllm_tool_runtime.py:1812-1825).                           *)
THEOREM EndedRunsHoldNothing == Spec => []NothingHeld
  <1>1. DriverInv => NothingHeld
    BY DEF DriverInv, TaskInv, SlotsMatch, Given, NothingHeld
  <1> QED
    BY <1>1, DriverInvariant, PTL

(* A cancelled run returns no output, unless wait_for lost the cancellation  *)
(* (async_worker.py:28-49).                                                  *)
THEOREM CancellationIsKept == Spec => []CancellationWins
  <1>1. DriverInv => CancellationWins
    BY DEF DriverInv, TypeOK, TaskInv, CancellationKept, CancellationWins, Drained,
           Ended
  <1> QED
    BY <1>1, DriverInvariant, PTL

(* The released trajectory has no source and no noted trace at the vLLM      *)
(* worker (vllm_tool_runtime.py:991-1001).                                   *)
THEOREM ReleaseIsComplete == Spec => []ReleaseCleansServer
  <1>1. DriverInv => ReleaseCleansServer
    BY DEF DriverInv, CallsInv
  <1> QED
    BY <1>1, DriverInvariant, PTL

(* What is waited for is on its way: every reachable state satisfies the     *)
(* awaits' invariant, beside the driver's.                                   *)
THEOREM AwaitInvariant == Spec => []AwaitInv
  <1>1. DriverInv /\ ServedInv /\ [Next]_vars => ServedInv'
    <2> SUFFICES ASSUME DriverInv, ServedInv, Next PROVE ServedInv'
      BY StutterServed
    <2>1. CASE TaskStep
      BY <2>1, BuildRefusedServed, BuildServed, BuildEndsServed, NextThreadServed,
             ThreadFailsServed, GenerateServed, RegisteredServed, SampledServed,
             TakeSampledServed, GenerationFailsServed, OutputReadyServed, ReleaseServed,
             ReleaseEndsServed
      DEF TaskStep
    <2>2. CASE Cancel
      BY <2>2, CancelOutsideServed, CancelDrainingServed, CancelAwaitServed,
             CancelSwallowedServed, CancelReleaseServed
      DEF Cancel
    <2>3. CASE Execute
      BY <2>3, ExecuteServed
    <2>4. CASE \E k \in Kinds : WorkerEnds(k)
      BY <2>4, WorkerEndsServed
    <2>5. CASE CallTool \/ StartCoroutine \/ ToolAnswered \/ ToolTimesOut
      BY <2>5, CallToolServed, StartCoroutineServed, ToolAnsweredServed,
             ToolTimesOutServed
    <2> QED
      BY <2>1, <2>2, <2>3, <2>4, <2>5 DEF Next
  <1>2. Init => ServedInv
    BY InitAwaitInv, AwaitIsServed
  <1> QED
    BY <1>1, <1>2, AwaitIsServed, DriverInvariant, PTL DEF Spec

(* No task, thread or coroutine waits for an answer that will not come, and  *)
(* none takes an answer to somebody else, for any number of turns and        *)
(* cancellations (native_agent_loop.py:565-637, policy_live_runtime.py:1000).*)
THEOREM AwaitsAreServed == Spec => []EveryAwaitIsServed
  <1>1. AwaitInv => EveryAwaitIsServed
    BY DEF AwaitInv
  <1> QED
    BY <1>1, AwaitInvariant, PTL
=============================================================================
