-------------------------- MODULE NativeAgentDriver --------------------------
(***************************************************************************)
(* One trajectory as an asyncio task: VerlFrameworkNeutralAgentLoop.run of  *)
(* framework/verl/native_agent_loop.py, with the client of the rollout      *)
(* servers it shares with its worker threads, and the vLLM worker that      *)
(* keeps visual sources and behavior traces for it.                         *)
(*                                                                          *)
(* The task gives up control only at an await, so what it does from one     *)
(* await to the next is one action, and pc names the await.  Synchronous    *)
(* work goes to threads that cannot be stopped: a cancelled await leaves    *)
(* its thread running, unless run_side_effecting_in_thread drains it.       *)
(* Remote calls of one client reach the vLLM worker in the order they were  *)
(* made (external: Ray's and the engine's queues).                          *)
(***************************************************************************)
EXTENDS Naturals, Sequences, FiniteSets

CONSTANTS
    MaxTurns,    \* bound on the sampled turns of the trajectory
    MaxCancels   \* bound on the calls of task.cancel()

ASSUME MaxTurnsAssumption == MaxTurns \in Nat
ASSUME MaxCancelsAssumption == MaxCancels \in Nat

(* What runs in threads.  Drained: _advance_native_loop_driver, the         *)
(* sampler's _build_request and the client's _prepare_generation.  Plain:   *)
(* native_loop_factory, _response_from_output, _sampled_turn and the        *)
(* output builder.                                                          *)
Drained == {"segment", "request", "prepare"}
Plain == {"factory", "respond", "turn", "output"}
Kinds == Drained \cup Plain

(* A backend request id is uuid4: the number of the generation stands for   *)
(* it, and 0 for none.                                                      *)
Ids == 0 .. MaxTurns

VARIABLES
    pc,               \* the await the task is at, or how far its end is
    outcome,          \* what run() is about to return or raise
    pending,          \* the helper holds a CancelledError while it drains
    cancels,          \* calls of task.cancel() so far
    swallowed,        \* those that wait_for answered with the result
    worker,           \* the thread of each kind
    parked,           \* the segment's thread is in future.result of a tool
    coroutine,        \* that tool's coroutine on the event loop
    routes,           \* _tgvf_routes has the trajectory
    slots,            \* servers acquired and not given back
    turns,            \* _tgvf_turns: the id of the last turn
    backend_ids,      \* _tgvf_backend_ids of the trajectory
    generated,        \* ids given out
    capture,          \* _tgvf_capture_behavior_hidden
    inbox,            \* remote calls the vLLM worker has not executed
    reply,            \* the answer to the task's and to the tool's call
    source_cache,     \* the vLLM worker: the trajectory's source is cached
    behavior_traces,  \* the vLLM worker: ids with a trace buffer
    released          \* the vLLM worker executed tgvf_release_trajectory

task == <<pc, outcome, pending>>
client == <<routes, slots, turns, backend_ids>>
tool == <<parked, coroutine>>
server == <<source_cache, behavior_traces, released>>
remote == <<inbox, reply>>
counters == <<cancels, swallowed, generated, capture>>
vars == <<task, worker, tool, client, counters, remote, server>>

Replies == {"none", "ok", "error"}
Ended == {"over", "abandoned"}
Pcs == Kinds \cup Ended
    \cup {"start", "build", "register", "sampling", "sampled", "release", "releasing"}

Calls ==
    [op : {"source", "register", "focus", "crop"}, id : Ids, ids : {{}}]
        \cup [op : {"release"}, id : {0}, ids : SUBSET Ids]

TypeOK ==
    /\ pc \in Pcs
    /\ outcome \in {"running", "returned", "failed", "cancelled"}
    /\ pending \in BOOLEAN
    /\ cancels \in 0 .. MaxCancels /\ swallowed \in 0 .. MaxCancels
    /\ worker \in [Kinds -> {"idle", "running", "returned", "raised"}]
    /\ parked \in BOOLEAN
    /\ coroutine \in {"none", "scheduled", "running", "done"}
    /\ routes \in BOOLEAN /\ slots \in Nat
    /\ turns \in Ids /\ generated \in Ids
    /\ backend_ids \subseteq Ids
    /\ capture \in BOOLEAN
    /\ inbox \in Seq(Calls)
    /\ reply \in [{"task", "tool"} -> Replies]
    /\ source_cache \in BOOLEAN /\ released \in BOOLEAN
    /\ behavior_traces \subseteq Ids

Init ==
    /\ pc = "start" /\ outcome = "running" /\ pending = FALSE
    /\ cancels = 0 /\ swallowed = 0
    /\ worker = [k \in Kinds |-> "idle"]
    /\ parked = FALSE /\ coroutine = "none"
    /\ routes = FALSE /\ slots = 0 /\ turns = 0 /\ generated = 0
    /\ backend_ids = {}
    /\ capture \in BOOLEAN
    /\ inbox = <<>> /\ reply = [c \in {"task", "tool"} |-> "none"]
    /\ source_cache = FALSE /\ behavior_traces = {} /\ released = FALSE

-----------------------------------------------------------------------------
(* Helpers                                                                   *)

(* _route: the server acquired for the trajectory, acquired once.           *)
Route ==
    /\ routes' = TRUE
    /\ slots' = IF routes THEN slots ELSE slots + 1

Call(op, id) == [op |-> op, id |-> id, ids |-> {}]
Send(m) == inbox' = Append(inbox, m)
Forget(caller) == reply' = [reply EXCEPT ![caller] = "none"]

(* The task goes on to an await, leaves its try statement, or ends.          *)
GoTo(next) == pc' = next /\ UNCHANGED <<outcome, pending>>
Leave(how) == pc' = "release" /\ outcome' = how /\ pending' = FALSE
End(where, how) == pc' = where /\ outcome' = how /\ UNCHANGED pending

-----------------------------------------------------------------------------
(* The task, until its try statement                                         *)

(* build_async refuses the sample, or asks a server for the source.          *)
BuildRefused ==
    /\ pc = "start"
    /\ End("abandoned", "failed")
    /\ UNCHANGED <<worker, tool, client, counters, remote, server>>

Build ==
    /\ pc = "start"
    /\ Route /\ Send(Call("source", 0))
    /\ GoTo("build")
    /\ UNCHANGED <<worker, tool, turns, backend_ids, counters, reply, server>>

(* The source arrives; what is built from it may still be refused.           *)
BuildEnds ==
    /\ pc = "build" /\ reply["task"] # "none"
    /\ Forget("task")
    /\ \/ /\ reply["task"] = "ok"
          /\ GoTo("factory")
          /\ worker' = [worker EXCEPT !["factory"] = "running"]
       \/ End("abandoned", "failed") /\ UNCHANGED worker
    /\ UNCHANGED <<tool, client, counters, inbox, server>>

-----------------------------------------------------------------------------
(* The task, in its try statement                                            *)

(* The threads that follow one another without an await between them.  After *)
(* a segment the loop has asked for another turn, or ended with its record.  *)
Follows ==
    {<<"factory", "segment">>, <<"segment", "request">>, <<"request", "prepare">>,
     <<"respond", "turn">>, <<"turn", "segment">>, <<"segment", "output">>}

(* Mutant: the helper returns the result although it holds a cancellation.   *)
ContinuesUncancelled(k) == pc = k /\ worker[k] = "returned"

(* An await of a thread that returned, without a cancellation held.          *)
Continues(k) == pc = k /\ worker[k] = "returned" /\ ~pending

NextThread(k) ==
    /\ Continues(k)
    /\ \E next \in Kinds :
        /\ <<k, next>> \in Follows /\ (next = "request" => generated < MaxTurns)
        /\ GoTo(next)
        /\ worker' = [worker EXCEPT ![k] = "idle", ![next] = "running"]
        /\ coroutine' = IF next = "segment" THEN "none" ELSE coroutine
    /\ UNCHANGED <<parked, client, counters, remote, server>>

(* generate_async after its preparation: _generate_prepared under wait_for.  *)
Generate ==
    /\ Continues("prepare")
    /\ worker' = [worker EXCEPT !["prepare"] = "idle"]
    /\ generated' = generated + 1
    /\ Route
    /\ IF capture THEN Send(Call("register", generated + 1)) /\ GoTo("register")
                  ELSE UNCHANGED inbox /\ GoTo("sampling")
    /\ UNCHANGED <<tool, turns, backend_ids, cancels, swallowed, capture, reply, server>>

(* Mutant: the id of a registered trace is not noted.                        *)
RegisteredUnnoted ==
    /\ pc = "register" /\ reply["task"] = "ok"
    /\ Forget("task")
    /\ GoTo("sampling")
    /\ UNCHANGED <<worker, tool, client, counters, inbox, server>>

Registered ==
    /\ pc = "register" /\ reply["task"] = "ok"
    /\ Forget("task")
    /\ backend_ids' = backend_ids \cup {generated}
    /\ GoTo("sampling")
    /\ UNCHANGED <<worker, tool, routes, slots, turns, counters, inbox, server>>

(* The coroutine under wait_for is done; the task has not been resumed.      *)
Sampled ==
    /\ pc = "sampling"
    /\ turns' = generated
    /\ GoTo("sampled")
    /\ UNCHANGED <<worker, tool, routes, slots, backend_ids, counters, remote, server>>

TakeSampled ==
    /\ pc = "sampled"
    /\ GoTo("respond")
    /\ worker' = [worker EXCEPT !["respond"] = "running"]
    /\ UNCHANGED <<tool, client, counters, remote, server>>

(* A refused registration, a failed generation, a wrong policy step, or the  *)
(* timeout of wait_for.                                                      *)
GenerationFails ==
    /\ pc \in {"register", "sampling"}
    /\ Leave("failed")
    /\ Forget("task")
    /\ UNCHANGED <<worker, tool, client, counters, inbox, server>>

(* The output is built.                                                      *)
OutputReady ==
    /\ Continues("output")
    /\ Leave("returned")
    /\ worker' = [worker EXCEPT !["output"] = "idle"]
    /\ UNCHANGED <<tool, client, counters, remote, server>>

(* A thread raised, or the helper held a cancellation while it drained it.   *)
ThreadFails(k) ==
    /\ pc = k /\ worker[k] \in {"returned", "raised"}
    /\ \/ pending /\ Leave("cancelled")
       \/ ~pending /\ worker[k] = "raised" /\ Leave("failed")
    /\ worker' = [worker EXCEPT ![k] = "idle"]
    /\ UNCHANGED <<tool, client, counters, remote, server>>

-----------------------------------------------------------------------------
(* The finally block                                                         *)

(* release_trajectory until its await.                                       *)
Release ==
    /\ pc = "release"
    /\ routes' = FALSE /\ turns' = 0 /\ backend_ids' = {}
    /\ IF routes
         THEN GoTo("releasing") /\ Send([op |-> "release", id |-> 0, ids |-> backend_ids])
         ELSE GoTo("over") /\ UNCHANGED inbox
    /\ UNCHANGED <<worker, tool, slots, counters, reply, server>>

(* Mutant: the task goes on only when the release was acknowledged.          *)
ReleaseEndsAcknowledged ==
    /\ pc = "releasing" /\ reply["task"] = "ok"
    /\ Forget("task")
    /\ slots' = slots - 1
    /\ End("over", outcome)
    /\ UNCHANGED <<worker, tool, routes, turns, backend_ids, counters, inbox, server>>

(* Its own finally gives the server back, whatever the call answered; then   *)
(* run() validates the output it returns.                                    *)
ReleaseEnds ==
    /\ pc = "releasing" /\ reply["task"] # "none"
    /\ Forget("task")
    /\ slots' = slots - 1
    /\ \/ reply["task"] = "ok" /\ End("over", outcome)
       \/ (reply["task"] = "error" \/ outcome = "returned") /\ End("over", "failed")
    /\ UNCHANGED <<worker, tool, routes, turns, backend_ids, counters, inbox, server>>

-----------------------------------------------------------------------------
(* task.cancel(), by where the task is                                       *)

Cancelling == cancels < MaxCancels /\ cancels' = cancels + 1

CancelOutside ==
    /\ Cancelling /\ pc \in {"start", "build"}
    /\ End("abandoned", "cancelled")
    /\ Forget("task")
    /\ UNCHANGED <<worker, tool, client, swallowed, generated, capture, inbox, server>>

(* Mutant: asyncio.to_thread in the place of the draining helper.            *)
CancelUndrained ==
    /\ Cancelling /\ pc \in Drained
    /\ Leave("cancelled")
    /\ UNCHANGED <<worker, tool, client, swallowed, generated, capture, remote, server>>

(* run_side_effecting_in_thread: the first CancelledError is kept.           *)
CancelDraining ==
    /\ Cancelling /\ pc \in Drained
    /\ pending' = TRUE
    /\ UNCHANGED <<pc, outcome, worker, tool, client, swallowed, generated, capture,
                   remote, server>>

(* asyncio.to_thread leaves its thread behind; wait_for cancels generation.  *)
CancelAwait ==
    /\ Cancelling /\ pc \in Plain \cup {"register", "sampling"}
    /\ Leave("cancelled")
    /\ Forget("task")
    /\ UNCHANGED <<worker, tool, client, swallowed, generated, capture, inbox, server>>

(* wait_for of Python 3.11 answers a cancellation that meets a finished      *)
(* generation with the result.                                               *)
CancelSwallowed ==
    /\ Cancelling /\ pc = "sampled"
    /\ swallowed' = swallowed + 1
    /\ UNCHANGED <<task, worker, tool, client, generated, capture, remote, server>>

CancelRelease ==
    /\ Cancelling /\ pc = "releasing"
    /\ slots' = slots - 1
    /\ End("over", "cancelled")
    /\ Forget("task")
    /\ UNCHANGED <<worker, tool, routes, turns, backend_ids, swallowed, generated, capture,
                   inbox, server>>

Cancel ==
    \/ CancelOutside \/ CancelDraining \/ CancelAwait \/ CancelSwallowed \/ CancelRelease

-----------------------------------------------------------------------------
(* The threads, and the coroutine of a tool call                             *)

WorkerEnds(k) ==
    /\ worker[k] = "running" /\ (k = "segment" => ~parked)
    /\ \E how \in {"returned", "raised"} : worker' = [worker EXCEPT ![k] = how]
    /\ UNCHANGED <<task, tool, client, counters, remote, server>>

(* The segment after a turn executes its tool: run_coroutine_threadsafe, of  *)
(* a crop without hidden states as of a focus with them.                     *)
CallTool ==
    /\ worker["segment"] = "running" /\ ~parked
    /\ generated > 0 /\ coroutine = "none"
    /\ parked' = TRUE /\ coroutine' = "scheduled"
    /\ UNCHANGED <<task, worker, client, counters, remote, server>>

(* The tools that need the turn's hidden states are called "focus", with or  *)
(* without a crop; a run that does not capture them has the plain crop only. *)
Tools == IF capture THEN {"focus", "crop"} ELSE {"crop"}

(* Mutant: the route is looked up before the turn is.                        *)
StartCoroutineUnchecked ==
    /\ coroutine = "scheduled"
    /\ coroutine' = "running"
    /\ Route
    /\ \E op \in Tools : Send(Call(op, turns))
    /\ UNCHANGED <<task, worker, parked, turns, backend_ids, counters, reply, server>>

(* Mutant: a coroutine that finds no turn ends without telling its caller.   *)
StartCoroutineSilent ==
    /\ coroutine = "scheduled"
    /\ coroutine' = "running"
    /\ IF turns = 0
         THEN UNCHANGED <<routes, slots, inbox>>
         ELSE /\ Route
              /\ \E op \in Tools : Send(Call(op, turns))
    /\ UNCHANGED <<task, worker, parked, turns, backend_ids, counters, reply, server>>

(* materialize_focus and materialize_crop: the turn first, then the route.   *)
(* The turn's tokens are those the call was parsed from, while it is there.  *)
StartCoroutine ==
    /\ coroutine = "scheduled"
    /\ coroutine' = "running"
    /\ IF turns = 0
         THEN reply' = [reply EXCEPT !["tool"] = "error"] /\ UNCHANGED <<routes, slots, inbox>>
         ELSE /\ Route
              /\ \E op \in Tools : Send(Call(op, turns))
              /\ UNCHANGED reply
    /\ UNCHANGED <<task, worker, parked, turns, backend_ids, counters, server>>

ToolAnswered ==
    /\ coroutine = "running" /\ reply["tool"] # "none"
    /\ coroutine' = "done" /\ parked' = FALSE
    /\ Forget("tool")
    /\ worker' = IF parked /\ reply["tool"] = "error"
                   THEN [worker EXCEPT !["segment"] = "raised"] ELSE worker
    /\ UNCHANGED <<task, client, counters, inbox, server>>

(* future.result(timeout=300.0): the coroutine is not cancelled.             *)
ToolTimesOut ==
    /\ parked /\ reply["tool"] = "none"
    /\ parked' = FALSE
    /\ worker' = [worker EXCEPT !["segment"] = "raised"]
    /\ UNCHANGED <<task, coroutine, client, counters, remote, server>>

-----------------------------------------------------------------------------
(* The vLLM worker executes a call, or it fails before it changes anything.  *)

(* Who waits for the answer, if anybody still does.                          *)
Awaited(op) ==
    \/ op = "source" /\ pc = "build"
    \/ op = "register" /\ pc = "register"
    \/ op = "release" /\ pc = "releasing"
    \/ op \in {"focus", "crop"} /\ coroutine = "running"

Caller(op) == IF op \in {"focus", "crop"} THEN "tool" ELSE "task"

Answer(op, r) ==
    reply' = IF Awaited(op) THEN [reply EXCEPT ![Caller(op)] = r] ELSE reply

Source(m) ==
    /\ m.op = "source"
    /\ source_cache' = TRUE
    /\ UNCHANGED <<behavior_traces, released>>

Register(m) ==
    /\ m.op = "register" /\ m.id \notin behavior_traces
    /\ behavior_traces' = behavior_traces \cup {m.id}
    /\ UNCHANGED <<source_cache, released>>

(* Crops need the source; a focus uses up its turn's trace as well.          *)
Materialize(m) ==
    /\ source_cache
    /\ \/ m.op = "crop" /\ UNCHANGED behavior_traces
       \/ /\ m.op = "focus" /\ m.id \in behavior_traces
          /\ behavior_traces' = behavior_traces \ {m.id}
    /\ UNCHANGED <<source_cache, released>>

ReleaseTrajectory(m) ==
    /\ m.op = "release"
    /\ source_cache' = FALSE /\ released' = TRUE
    /\ behavior_traces' = behavior_traces \ m.ids

Execute ==
    /\ inbox # <<>>
    /\ inbox' = Tail(inbox)
    /\ LET m == Head(inbox) IN
        \/ /\ Source(m) \/ Register(m) \/ Materialize(m) \/ ReleaseTrajectory(m)
           /\ Answer(m.op, "ok")
        \/ UNCHANGED server /\ Answer(m.op, "error")
    /\ UNCHANGED <<task, worker, tool, client, counters>>

-----------------------------------------------------------------------------
TaskStep ==
    \/ BuildRefused \/ Build \/ BuildEnds
    \/ \E k \in Kinds : NextThread(k) \/ ThreadFails(k)
    \/ Generate \/ Registered \/ Sampled \/ TakeSampled \/ GenerationFails
    \/ OutputReady \/ Release \/ ReleaseEnds

Next ==
    \/ TaskStep \/ Cancel \/ Execute
    \/ \E k \in Kinds : WorkerEnds(k)
    \/ CallTool \/ StartCoroutine \/ ToolAnswered \/ ToolTimesOut

Spec == Init /\ [][Next]_vars

(* The event loop runs what is ready, threads return or raise, and the vLLM  *)
(* worker gets to every call.                                                *)
Fairness ==
    /\ WF_vars(TaskStep) /\ WF_vars(Execute)
    /\ WF_vars(StartCoroutine) /\ WF_vars(ToolAnswered)
    /\ \A k \in Kinds : WF_vars(WorkerEnds(k))

FairSpec == Spec /\ Fairness

-----------------------------------------------------------------------------
(* The finally block never runs beside a thread that uses the trajectory's   *)
(* state at the server or in the turn registry: a cancelled segment or       *)
(* request is drained before release_trajectory (async_worker.py:20-26).     *)
DrainedBeforeRelease ==
    pc \in {"release", "releasing", "over"} => \A k \in Drained : worker[k] # "running"

(* When run() ends through its finally block, the client holds no server,    *)
(* route, turn or backend id of the trajectory, and does not take them up    *)
(* again: a tool's coroutine abandoned by its timeout may start or end only  *)
(* then, and must not acquire a server nobody gives back.                    *)
NothingHeld ==
    pc = "over" => slots = 0 /\ ~routes /\ turns = 0 /\ backend_ids = {}

(* A run that was cancelled does not return an output: whatever the thread   *)
(* that was drained returned, and wherever the cancellation came.  Only the  *)
(* wait_for of the generation can have lost it.                              *)
CancellationWins ==
    pc \in Ended /\ cancels > swallowed => outcome # "returned"

(* Once the vLLM worker executed the release, it keeps no source of the      *)
(* trajectory; and no trace buffer but, when the run was cut off while its   *)
(* last registration was on its way, the one that the client never noted.    *)
ReleaseCleansServer ==
    released =>
        /\ ~source_cache
        /\ behavior_traces \subseteq {generated}
        /\ behavior_traces # {} => outcome \in {"failed", "cancelled"}

(* The calls on their way; a focus and a crop are both a tool's.             *)
KindOf(op) == IF op \in {"focus", "crop"} THEN "tool" ELSE op
InFlight == {KindOf(inbox[i].op) : i \in 1 .. Len(inbox)}

(* The call the task waits for, by the await it is at.                       *)
Awaits == [build |-> "source", register |-> "register", releasing |-> "release"]

(* Nobody waits for what will not come, and nobody is answered twice or with *)
(* an answer to somebody else: an awaited thread is running or has ended; an *)
(* awaited call is on its way or answered, never both and never neither,     *)
(* whatever earlier calls were cut off; and a thread parked in a tool has a  *)
(* coroutine that wakes it (policy_live_runtime.py:1000, async_worker.py:33).*)
EveryAwaitIsServed ==
    /\ pc \in Kinds => worker[pc] # "idle"
    /\ IF pc \in DOMAIN Awaits
         THEN reply["task"] = "none" <=> Awaits[pc] \in InFlight
         ELSE reply["task"] = "none"
    /\ IF coroutine = "running"
         THEN reply["tool"] = "none" <=> "tool" \in InFlight
         ELSE reply["tool"] = "none"
    /\ parked => coroutine \in {"scheduled", "running"}

(* Every run ends, cancelled or not, with the thread it drains, the calls it *)
(* waits for, and its timeouts.                                              *)
EveryRunEnds == <>(pc \in Ended)

(* "Cancellation first drains the side effecting segment that has begun, and *)
(* then releases the sticky trajectory"                                      *)
(* (docs/VTOOL_R1_THROUGHPUT_ALIGNMENT_20260901.md:15).                      *)
CancelledIsReleased ==
    pc \in Ended /\ outcome = "cancelled" => ~routes /\ slots = 0
-----------------------------------------------------------------------------
(* The inductive invariant, in parts                                         *)

Finished == {"release", "releasing", "over", "abandoned"}
Given == {"releasing", "over"}

(* A thread that must be drained exists only while the task awaits it.       *)
DrainedIsAwaited == \A k \in Drained : worker[k] # "idle" => pc = k

(* The thread that waits for a tool is a segment's.                          *)
ParkedRuns == parked => worker["segment"] = "running"

(* A turn is asked for only while the bound leaves one.                      *)
TurnsLeft == pc \in {"request", "prepare"} => generated < MaxTurns

(* A cancellation is held by the helper, was swallowed, or is the outcome    *)
(* unless a failure replaced it.                                             *)
CancellationKept ==
    /\ pending => pc \in Drained
    /\ swallowed <= cancels
    /\ cancels # swallowed /\ ~pending => outcome \in {"failed", "cancelled"}
    /\ outcome = "running" <=> pc \notin Finished

(* One server is held, by the route or by the release that pops it.          *)
SlotsMatch ==
    /\ slots = IF routes \/ pc = "releasing" THEN 1 ELSE 0
    /\ pc \in {"start"} \cup Given => ~routes
    /\ pc \notin {"start", "abandoned"} \cup Given => routes
    /\ ~routes => turns = 0 /\ backend_ids = {}

(* The release is the last call of the client, and nothing follows it.       *)
ReleaseIsLast ==
    /\ \A i \in 1 .. Len(inbox) :
          inbox[i].op = "release" <=> pc \in Given /\ i = Len(inbox)
    /\ released => pc \in Given /\ inbox = <<>>

(* The ids that have a trace, or will get one from a call on its way.        *)
Traced ==
    behavior_traces
        \cup {inbox[i].id : i \in {j \in 1 .. Len(inbox) : inbox[j].op = "register"}}

(* All of them are noted by the client, or in its release, but for the last  *)
(* while it is being registered, and if it was cut off there.                *)
NotedIn(ids) ==
    /\ Traced \subseteq ids \cup {generated}
    /\ Traced \subseteq ids \/ pc = "register" \/ outcome \in {"failed", "cancelled"}

TracesAreNoted ==
    /\ pc \notin Given => NotedIn(backend_ids)
    /\ pc \in Given /\ inbox # <<>> => NotedIn(inbox[Len(inbox)].ids)

TaskInv ==
    /\ DrainedIsAwaited
    /\ ParkedRuns
    /\ TurnsLeft
    /\ CancellationKept
    /\ SlotsMatch

CallsInv ==
    /\ ReleaseIsLast
    /\ TracesAreNoted
    /\ ReleaseCleansServer

DriverInv == TypeOK /\ TaskInv /\ CallsInv

(* No two calls of a kind are on their way.                                  *)
CallsAreSingle ==
    \A i, j \in 1 .. Len(inbox) : KindOf(inbox[i].op) = KindOf(inbox[j].op) => i = j

(* A call that nobody waits for was cut off, and the run is ending.          *)
CallsBelong ==
    /\ "source" \in InFlight => pc \in {"build", "abandoned"}
    /\ "register" \in InFlight => pc \in {"register"} \cup Finished
    /\ "tool" \in InFlight => coroutine = "running"
    /\ "release" \in InFlight => pc \in Given

(* So is the run whose tool timed out.                                       *)
ToolBelongs ==
    coroutine \in {"scheduled", "running"} =>
        \/ parked
        \/ pc = "segment" /\ worker["segment"] = "raised"
        \/ pc \in Finished

AwaitInv == CallsAreSingle /\ CallsBelong /\ ToolBelongs /\ EveryAwaitIsServed
=============================================================================
