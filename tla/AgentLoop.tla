------------------------------ MODULE AgentLoop ------------------------------
(***************************************************************************)
(* One native multi-call trajectory: the generator of                       *)
(* environment/agent_loop.py that asks the policy for a turn, lets the      *)
(* state machine of protocol/state_machine.py decide what the turn may do,  *)
(* executes the tool or answers with an error, and ends with a record.      *)
(* The record is what trajectories/validation.py later accepts or rejects.  *)
(*                                                                          *)
(* What runs between two requests for a turn is one action, split where the *)
(* tool is executed.  A sampled turn is modelled by how it is classified:   *)
(* by the boundary classifier and the parser (kind), by the sampler (tokens *)
(* and whether it was cut by length), and by its text (think span, answer). *)
(***************************************************************************)
EXTENDS Naturals, Sequences, FiniteSets

CONSTANTS
    Configs,    \* how the loop may be built and what it is asked for
    MaxTokens,  \* bound on the tokens of one turn
    None        \* no index, no reason, no stop

(* max_response_length 0 stands for a request without a sampling contract.  *)
Config ==
    [max_tool_calls : Nat \ {0},
     cap_error_behavior : {"terminate_after_error", "one_final_answer_turn"},
     direct_only : BOOLEAN,
     max_response_length : Nat]

ASSUME ConfigsAssumption == Configs \subseteq Config
ASSUME MaxTokensAssumption == MaxTokens \in Nat

(* The stops the loop records, and the terminal reasons of the machine.      *)
Stops == {"final_answer", "direct_answer", "call_cap", "max_tokens", "invalid_format"}
Reasons == {"final_answer", "timeout", "tool_call_cap"}

ASSUME NoneAssumption == None \notin Nat \cup Stops \cup Reasons

(* The trajectory validator asks for a think span and an answer of a        *)
(* well-formed final turn, the loop for what the dialect asks: the thinking *)
(* dialect for both, the instruct dialect and a legacy answer after an      *)
(* action for an answer.                                                    *)
Sampled ==
    {t \in [kind : {"final", "tool", "disabled_tool", "malformed"},
            tokens : 1 .. MaxTokens, length : BOOLEAN,
            think : BOOLEAN, answer : BOOLEAN, well_formed : BOOLEAN] :
        (t.think /\ t.answer => t.well_formed) /\ (t.well_formed => t.answer)}

VARIABLES
    config,     \* the loop's configuration and the request's
    machine,    \* AgentState
    pc,         \* sampling, executing, done, or crashed by an exception
    generated,  \* generated_policy_tokens
    turns,      \* the assistant turns
    calls,      \* the executed calls, each with its observation
    errors,     \* the error responses
    answered,   \* final_answer is not None
    stop        \* TrajectoryStop

vars == <<config, machine, pc, generated, turns, calls, errors, answered, stop>>
record == <<turns, calls, errors, answered, stop>>

-----------------------------------------------------------------------------
(* AgentState                                                                *)
Index == Nat \cup {None}

AgentState ==
    [phase : {"awaiting_assistant", "awaiting_tool_response",
              "awaiting_final_answer", "terminated"},
     attempts : Nat, successes : Nat,
     attempt : Index, call : Index, cap_error : BOOLEAN,
     reason : Reasons \cup {None}]

InitialState ==
    [phase |-> "awaiting_assistant", attempts |-> 0, successes |-> 0,
     attempt |-> None, call |-> None, cap_error |-> FALSE, reason |-> None]

(* The state with nothing pending.                                           *)
Settled(s, phase) ==
    [s EXCEPT !.phase = phase, !.attempt = None, !.call = None, !.cap_error = FALSE]

(* _terminate                                                                *)
Terminated(s, reason) == [Settled(s, "terminated") EXCEPT !.reason = reason]

(* Mutants: a malformed action does not use up the cap; one attempt too many *)
(* is admitted; a call takes the index of its attempt.                       *)
BegunUncounted(s, parsed) ==
    LET over == s.attempts >= config.max_tool_calls
    IN  [s EXCEPT !.phase = "awaiting_tool_response",
                  !.attempts = IF parsed THEN @ + 1 ELSE @,
                  !.attempt = s.attempts,
                  !.call = IF parsed /\ ~over THEN s.successes ELSE None,
                  !.cap_error = over]

BegunOneMore(s, parsed) ==
    LET over == s.attempts > config.max_tool_calls
    IN  [s EXCEPT !.phase = "awaiting_tool_response",
                  !.attempts = @ + 1,
                  !.attempt = s.attempts,
                  !.call = IF parsed /\ ~over THEN s.successes ELSE None,
                  !.cap_error = over]

BegunByAttempt(s, parsed) ==
    LET over == s.attempts >= config.max_tool_calls
    IN  [s EXCEPT !.phase = "awaiting_tool_response",
                  !.attempts = @ + 1,
                  !.attempt = s.attempts,
                  !.call = IF parsed /\ ~over THEN s.attempts ELSE None,
                  !.cap_error = over]

(* _begin_attempt: every attempt counts, and one beyond the cap is begun     *)
(* only to be answered with an error.                                        *)
Begun(s, parsed) ==
    LET over == s.attempts >= config.max_tool_calls
    IN  [s EXCEPT !.phase = "awaiting_tool_response",
                  !.attempts = @ + 1,
                  !.attempt = s.attempts,
                  !.call = IF parsed /\ ~over THEN s.successes ELSE None,
                  !.cap_error = over]

Actions == {"valid_tool_call", "malformed_action"}

When(guard, next) == IF guard THEN {next} ELSE {}

(* apply: the next state, or none when it raises InvalidTransitionError.     *)
Apply(s, event) ==
    LET awaits(phase) == s.phase = phase /\ s.attempts <= config.max_tool_calls + 1
        turn == awaits("awaiting_assistant") \/ awaits("awaiting_final_answer")
        response == awaits("awaiting_tool_response")
    IN  UNION
          {When(awaits("awaiting_assistant") /\ event \in Actions,
              Begun(s, event = "valid_tool_call")),
           When(awaits("awaiting_final_answer") /\ event \in Actions,
              Terminated(s, "tool_call_cap")),
           When(turn /\ event = "final_answer",
              Terminated(s, "final_answer")),
           When(response /\ event = "tool_response" /\ s.call # None /\ ~s.cap_error,
              [Settled(s, "awaiting_assistant") EXCEPT !.successes = @ + 1]),
           When(response /\ event = "tool_error" /\ ~s.cap_error,
              Settled(s, "awaiting_assistant")),
           When(response /\ event = "tool_error" /\ s.cap_error,
              IF config.cap_error_behavior = "one_final_answer_turn"
              THEN Settled(s, "awaiting_final_answer")
              ELSE Terminated(s, "tool_call_cap")),
           When((turn \/ response) /\ event = "timeout",
              Terminated(s, "timeout"))}

-----------------------------------------------------------------------------
Turn == [tool : BOOLEAN, think : BOOLEAN]
CallRecord == [call : Nat, attempt : Nat, turn : Nat]
ErrorRecord ==
    [attempt : Nat, turn : Nat, recoverable : BOOLEAN,
     code : {"limit_exceeded", "parse", "not_enabled", "execution_failed"}]

TypeOK ==
    /\ config \in Configs
    /\ machine \in AgentState
    /\ pc \in {"sampling", "executing", "done", "crashed"}
    /\ generated \in Nat
    /\ turns \in Seq(Turn)
    /\ calls \in Seq(CallRecord)
    /\ errors \in Seq(ErrorRecord)
    /\ answered \in BOOLEAN
    /\ stop \in Stops \cup {None}

Init ==
    /\ config \in Configs
    /\ machine = InitialState
    /\ pc = "sampling"
    /\ generated = 0
    /\ turns = <<>>
    /\ calls = <<>>
    /\ errors = <<>>
    /\ answered = FALSE
    /\ stop = None

HasBudget == config.max_response_length > 0

Finish(reason) ==
    /\ pc' = "done"
    /\ stop' = reason

(* Mutant: the loop asks for a turn whatever is left of the budget.          *)
ContinueUnbudgeted(used) ==
    /\ pc' = "sampling"
    /\ UNCHANGED stop

(* The head of the loop: a spent token budget ends the trajectory.           *)
Continue(used) ==
    IF HasBudget /\ used = config.max_response_length
    THEN Finish("max_tokens")
    ELSE pc' = "sampling" /\ UNCHANGED stop

(* Mutant: a malformed action is recorded as plain text.                     *)
ReceiveParsed(t) ==
    /\ pc = "sampling"
    /\ HasBudget => generated + t.tokens <= config.max_response_length
    /\ generated' = IF HasBudget THEN generated + t.tokens ELSE generated
    /\ turns' = Append(turns, [tool |-> t.kind \notin {"final", "malformed"}, think |-> t.think])
    /\ UNCHANGED config

(* A turn arrives: its tokens are counted and it is recorded.                *)
Receive(t) ==
    /\ pc = "sampling"
    /\ HasBudget => generated + t.tokens <= config.max_response_length
    /\ generated' = IF HasBudget THEN generated + t.tokens ELSE generated
    /\ turns' = Append(turns, [tool |-> t.kind # "final", think |-> t.think])
    /\ UNCHANGED config

(* What the loop tells the machine about a turn with an action.              *)
EventOf(t) == IF t.kind = "malformed" THEN "malformed_action" ELSE "valid_tool_call"

(* The code of the error that answers turn t in machine state s.             *)
CodeOf(s, t) ==
    IF s.cap_error THEN "limit_exceeded"
    ELSE IF t.kind = "malformed" THEN "parse" ELSE "not_enabled"

(* Mutant: an error at the cap is never called recoverable.                  *)
RespondStrictly(s, code, turn, used) ==
    /\ errors' = Append(errors,
          [attempt |-> s.attempt, turn |-> turn, code |-> code, recoverable |-> ~s.cap_error])
    /\ \E next \in Apply(s, "tool_error") :
          /\ machine' = next
          /\ IF next.phase = "terminated" THEN Finish("call_cap") ELSE Continue(used)

(* The environment answers the pending attempt of s with an error.           *)
Respond(s, code, turn, used) ==
    /\ errors' = Append(errors,
          [attempt |-> s.attempt, turn |-> turn, code |-> code,
           recoverable |-> ~s.cap_error \/ config.cap_error_behavior = "one_final_answer_turn"])
    /\ \E next \in Apply(s, "tool_error") :
          /\ machine' = next
          /\ IF next.phase = "terminated" THEN Finish("call_cap") ELSE Continue(used)

LastTurn == Len(turns') - 1

(* A direct-only arm never parses or executes an action.                     *)
SampleForbiddenTool(t) ==
    /\ Receive(t)
    /\ t.kind # "final"
    /\ config.direct_only
    /\ Finish("invalid_format")
    /\ UNCHANGED <<machine, calls, errors, answered>>

(* Mutant: a final response ends the machine before its form is looked at.   *)
SampleFinalUnchecked(t) ==
    /\ Receive(t)
    /\ t.kind = "final"
    /\ answered' = t.answer
    /\ machine' \in Apply(machine, "final_answer")
    /\ Finish(IF t.length THEN "max_tokens"
              ELSE IF ~t.well_formed THEN "invalid_format"
              ELSE IF machine.attempts = 0 THEN "direct_answer" ELSE "final_answer")
    /\ UNCHANGED <<calls, errors>>

(* A final response: cut by length, malformed, or an answer.                 *)
SampleFinal(t) ==
    /\ Receive(t)
    /\ t.kind = "final"
    /\ answered' = t.answer
    /\ \/ t.length /\ Finish("max_tokens") /\ UNCHANGED machine
       \/ ~t.length /\ ~t.well_formed /\ Finish("invalid_format") /\ UNCHANGED machine
       \/ /\ ~t.length
          /\ t.well_formed
          /\ machine' \in Apply(machine, "final_answer")
          /\ Finish(IF machine.attempts = 0 THEN "direct_answer" ELSE "final_answer")
    /\ UNCHANGED <<calls, errors>>

(* An action that cannot run: the parser rejected it, the attempts are used  *)
(* up, or its tool is not enabled.                                           *)
SampleRefused(t) ==
    /\ Receive(t)
    /\ t.kind # "final"
    /\ ~config.direct_only
    /\ \E begun \in Apply(machine, EventOf(t)) :
          /\ begun.phase = "awaiting_tool_response"
          /\ begun.call = None \/ t.kind = "disabled_tool"
          /\ Respond(begun, CodeOf(begun, t), LastTurn, generated')
    /\ UNCHANGED <<calls, answered>>

(* An action in the one turn that was left for the final answer.             *)
SampleAfterCap(t) ==
    /\ Receive(t)
    /\ t.kind # "final"
    /\ ~config.direct_only
    /\ machine' \in Apply(machine, EventOf(t))
    /\ machine'.phase = "terminated"
    /\ Finish("call_cap")
    /\ UNCHANGED <<calls, errors, answered>>

(* An action that may run: the tool runtime is called.                       *)
SampleCall(t) ==
    /\ Receive(t)
    /\ t.kind = "tool"
    /\ ~config.direct_only
    /\ machine' \in Apply(machine, EventOf(t))
    /\ machine'.call # None
    /\ pc' = "executing"
    /\ UNCHANGED <<calls, errors, answered, stop>>

(* The tool runtime returned an observation.                                 *)
ToolResponds ==
    /\ pc = "executing"
    /\ calls' = Append(calls,
          [call |-> machine.call, attempt |-> machine.attempt, turn |-> Len(turns) - 1])
    /\ machine' \in Apply(machine, "tool_response")
    /\ Continue(generated)
    /\ UNCHANGED <<config, generated, turns, errors, answered>>

(* The tool runtime raised RecoverableToolExecutionError.                    *)
ToolFails ==
    /\ pc = "executing"
    /\ Respond(machine, "execution_failed", Len(turns) - 1, generated)
    /\ UNCHANGED <<config, generated, turns, calls, answered>>

(* The sampler broke its contract or was cancelled, a store rejected a late  *)
(* trace, or the tool raised anything else: there is no record.              *)
Crash ==
    /\ pc \in {"sampling", "executing"}
    /\ pc' = "crashed"
    /\ UNCHANGED <<config, machine, generated, record>>

Step ==
    \/ \E t \in Sampled : SampleForbiddenTool(t)
    \/ \E t \in Sampled : SampleFinal(t)
    \/ \E t \in Sampled : SampleRefused(t)
    \/ \E t \in Sampled : SampleAfterCap(t)
    \/ \E t \in Sampled : SampleCall(t)
    \/ ToolResponds
    \/ ToolFails

Next == Step \/ Crash

(* The sampler and the tool return or raise: both have time-outs.            *)
Spec == Init /\ [][Next]_vars /\ WF_vars(Step)

-----------------------------------------------------------------------------
(* TrajectoryValidator.validate, of the record's shape.                      *)
Elements(s) == {s[i] : i \in DOMAIN s}

(* The calls and the errors, in one order of attempts.                       *)
Attempts ==
    {[attempt |-> c.attempt, turn |-> c.turn] : c \in Elements(calls)}
       \cup {[attempt |-> e.attempt, turn |-> e.turn] : e \in Elements(errors)}

EventsInOrder ==
    /\ \A i \in DOMAIN calls : calls[i].call = i - 1
    /\ {a.attempt : a \in Attempts} = 0 .. Len(calls) + Len(errors) - 1
    /\ \A a, b \in Attempts : a.attempt < b.attempt => a.turn < b.turn
    /\ \A a \in Attempts : a.turn < Len(turns) /\ turns[a.turn + 1].tool

(* The one action after the cap error, which is no attempt any more.         *)
CapRecoveryRetry ==
    LET caps == {i \in DOMAIN errors : errors[i].code = "limit_exceeded"}
    IN  /\ Cardinality(caps) = 1
        /\ \A i \in caps :
              /\ errors[i].turn = Len(turns) - 2
              /\ errors[i].attempt = Len(calls) + Len(errors) - 1

RecordValid ==
    /\ EventsInOrder
    /\ stop = "call_cap" =>
          /\ turns # <<>>
          /\ turns[Len(turns)].tool
          /\ (\E a \in Attempts : a.turn = Len(turns) - 1) \/ CapRecoveryRetry
    /\ stop = "invalid_format" =>
          /\ turns # <<>>
          /\ LET last == turns[Len(turns)]
             IN  \/ /\ last.tool
                    /\ ~answered
                    /\ \A a \in Attempts : a.turn # Len(turns) - 1
                 \/ ~last.tool /\ ~(last.think /\ answered)

(* Every record the loop completes is accepted by the validator, which was   *)
(* written apart from it: a rollout that ends is never thrown away after its *)
(* tools ran (agent_loop.py:672, validation.py:44).                          *)
RecordAccepted == pc = "done" => RecordValid

(* The context of an execution can be built: the handles before a call are   *)
(* exactly as many as its index, after whatever was refused and retried      *)
(* before (agent_loop.py:186).                                               *)
ContextIsValid ==
    pc = "executing" => machine.call = Len(calls) /\ machine.attempt = Len(calls) + Len(errors)

(* The cap bounds attempts: failed and malformed ones use it up, one turn    *)
(* may go over it and one more may follow (state_machine.py:127).            *)
CapHolds ==
    /\ Len(calls) <= config.max_tool_calls
    /\ Len(calls) + Len(errors) <= config.max_tool_calls + 1
    /\ Len(turns) <= config.max_tool_calls + 2

(* What an error told the policy is what happens.  One that is not           *)
(* recoverable was the last word: its turn is the last of the trajectory,    *)
(* which is over, so that nothing is sampled after it.  One that is          *)
(* recoverable is followed by another turn: a trajectory that ends with it   *)
(* has spent its token budget, or crashed (agent_loop.py:472-494).           *)
ErrorsAreHonest ==
    \A i \in DOMAIN errors :
       LET last == errors[i].turn = Len(turns) - 1
       IN  /\ ~errors[i].recoverable => last /\ pc = "done" /\ stop = "call_cap"
           /\ errors[i].recoverable /\ last /\ pc = "done" => stop = "max_tokens"

(* The recorded stop and the machine's reason tell the same end, for every   *)
(* place of the loop that leaves it; and a machine that has terminated has   *)
(* ended the loop with a stop: the loop never goes round only to find its    *)
(* machine terminated and nothing to record (agent_loop.py:670).             *)
StopTellsTheEnd ==
    /\ machine.phase = "terminated" => pc = "done"
    /\ pc = "done" =>
          /\ stop = "call_cap" <=> machine.reason = "tool_call_cap"
          /\ stop \in {"final_answer", "direct_answer"} <=> machine.reason = "final_answer"
          /\ stop = "direct_answer" => calls = <<>> /\ errors = <<>>

(* What AgentState.__post_init__ accepts.                                     *)
StateIsValid(s) ==
    /\ s.successes <= s.attempts
    /\ IF s.phase = "awaiting_tool_response"
       THEN s.attempt # None /\ (s.cap_error => s.call = None)
       ELSE s.attempt = None /\ s.call = None /\ ~s.cap_error
    /\ s.phase = "terminated" <=> s.reason # None

(* The loop and the machine agree on what comes next: whatever is sampled,   *)
(* and however the tool ends, the transition the loop asks for exists, also  *)
(* the answer to an attempt it has just begun, and no state of the machine   *)
(* fails its own checks (state_machine.py:143, 168, 238).                    *)
MachineNeverRaises ==
    /\ StateIsValid(machine)
    /\ pc = "sampling" =>
          /\ Apply(machine, "final_answer") # {}
          /\ \A event \in Actions : \E next \in Apply(machine, event) :
                /\ StateIsValid(next)
                /\ next.phase = "awaiting_tool_response" => Apply(next, "tool_error") # {}
    /\ pc = "executing" =>
          Apply(machine, "tool_response") # {} /\ Apply(machine, "tool_error") # {}

(* A turn is only asked for with tokens left, or the sampling contract would *)
(* raise: the budget that ends at the last token of a refused action is      *)
(* noticed before the next request (agent_loop.py:334, config.py:250).       *)
BudgetRemains ==
    pc = "sampling" /\ HasBudget => generated < config.max_response_length

(* The steps a trajectory may still take: two for each turn, one at the end. *)
StepsLeft ==
    2 * (config.max_tool_calls + 2 - Len(turns))
       + CASE pc = "sampling" -> 1
           [] pc = "executing" -> 2
           [] OTHER -> 0

(* Every step uses one of them up, whatever the policy samples and however   *)
(* often it is refused: at most 2 * max_tool_calls + 5 steps in all, with a  *)
(* sampler and tools that answer (agent_loop.py:333, state_machine.py:173).  *)
StepsAreBounded == [][StepsLeft' \in 0 .. StepsLeft - 1]_vars

(* Every trajectory ends, with a record or an exception, although the policy *)
(* may go on forever with malformed actions (agent_loop.py:333).             *)
EveryTrajectoryEnds == <>(pc \in {"done", "crashed"})

(* What holds at every point of a trajectory, and makes the properties above *)
(* inductive: attempt k is the action of turn k, the machine's counters are  *)
(* those of the events recorded, and a cap error is the last event.          *)
EventCount == Len(calls) + Len(errors)

CapErrors == {i \in DOMAIN errors : errors[i].code = "limit_exceeded"}

AttemptsAreTurns ==
    /\ \A i \in DOMAIN calls : calls[i].call = i - 1
    /\ {a.attempt : a \in Attempts} = 0 .. EventCount - 1
    /\ \A a \in Attempts : a.turn = a.attempt /\ a.turn < Len(turns) /\ turns[a.turn + 1].tool

TurnsAreCounted ==
    /\ EventCount <= Len(turns) /\ Len(turns) <= EventCount + 1
    /\ pc = "sampling" => Len(turns) = EventCount
    /\ pc = "executing" => Len(turns) = EventCount + 1 /\ turns[Len(turns)].tool

MachineCounts ==
    /\ machine.successes = Len(calls)
    /\ Len(calls) <= config.max_tool_calls
    /\ EventCount <= config.max_tool_calls + 1
    /\ machine.phase = "awaiting_assistant" =>
          /\ machine.attempts = EventCount
          /\ EventCount <= config.max_tool_calls
          /\ CapErrors = {}
    /\ machine.phase = "awaiting_tool_response" =>
          /\ machine.attempts = EventCount + 1
          /\ EventCount < config.max_tool_calls
          /\ machine.attempt = EventCount
          /\ machine.call = Len(calls)
          /\ ~machine.cap_error
          /\ CapErrors = {}
    /\ machine.phase = "awaiting_final_answer" =>
          /\ machine.attempts = EventCount
          /\ EventCount = config.max_tool_calls + 1
          /\ CapErrors = {Len(errors)}
          /\ errors # <<>>
          /\ errors[Len(errors)].attempt = EventCount - 1
    /\ machine.phase # "terminated" => machine.reason = None

PhaseAgrees ==
    /\ pc = "sampling" => machine.phase \in {"awaiting_assistant", "awaiting_final_answer"}
    /\ pc = "executing" => machine.phase = "awaiting_tool_response"
    /\ pc \in {"sampling", "executing"} => stop = None /\ ~answered

(* The budget is not overdrawn, and not spent when a turn is asked for.      *)
Budgeted ==
    HasBudget =>
       /\ generated <= config.max_response_length
       /\ pc = "sampling" => generated < config.max_response_length

LoopInv ==
    /\ TypeOK
    /\ AttemptsAreTurns
    /\ TurnsAreCounted
    /\ MachineCounts
    /\ PhaseAgrees
    /\ RecordAccepted
    /\ ErrorsAreHonest
    /\ StopTellsTheEnd
=============================================================================
