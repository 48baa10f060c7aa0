--------------------------- MODULE AgentLoopProofs ---------------------------
(***************************************************************************)
(* Proofs about the agent loop: whatever turns are sampled and whatever the *)
(* tools do, for any caps and budgets, the record is the one the validator  *)
(* accepts, the cap holds and the loop's stop is the machine's.             *)
(***************************************************************************)
EXTENDS AgentLoop, TLAPS, FiniteSetTheorems

(* No stop is the absence of one.                                           *)
LEMMA NoneIsNoStop ==
    /\ \A reason \in Stops \cup Reasons : reason # None
    /\ Stops = {"final_answer", "direct_answer", "call_cap", "max_tokens", "invalid_format"}
    /\ Reasons = {"final_answer", "timeout", "tool_call_cap"}
    /\ "call_cap" # None /\ "max_tokens" # None /\ "invalid_format" # None
    /\ "final_answer" # None /\ "direct_answer" # None /\ "tool_call_cap" # None
  BY NoneAssumption DEF Stops, Reasons

-----------------------------------------------------------------------------
(* The transition function, one lemma for each kind of event.               *)

(* A begun attempt is a state.                                              *)
LEMMA BegunType ==
    ASSUME TypeOK, NEW parsed \in BOOLEAN
    PROVE  Begun(machine, parsed) \in AgentState
<1>1. machine \in AgentState /\ config \in Config
  BY ConfigsAssumption DEF TypeOK
<1>. DEFINE over == machine.attempts >= config.max_tool_calls
<1>2. over \in BOOLEAN
  BY <1>1 DEF AgentState, Config
<1>3. (IF parsed /\ ~over THEN machine.successes ELSE None) \in Index
  BY <1>1 DEF AgentState, Index
<1>4. machine.attempts + 1 \in Nat /\ machine.attempts \in Index
  BY <1>1 DEF AgentState, Index
<1>. HIDE DEF over
<1>5. [machine EXCEPT !.phase = "awaiting_tool_response",
                  !.attempts = @ + 1,
                  !.attempt = machine.attempts,
                  !.call = IF parsed /\ ~over THEN machine.successes ELSE None,
                  !.cap_error = over] \in AgentState
  BY <1>1, <1>2, <1>3, <1>4 DEF AgentState
<1>. QED
  BY <1>5 DEF Begun, over

(* A settled and a terminated state are states, and keep the counters.      *)
LEMMA SettledType ==
    ASSUME NEW s \in AgentState,
           NEW phase \in {"awaiting_assistant", "awaiting_final_answer", "terminated"}
    PROVE  /\ Settled(s, phase) \in AgentState
           /\ Settled(s, phase).phase = phase
           /\ Settled(s, phase).attempts = s.attempts
           /\ Settled(s, phase).successes = s.successes
           /\ Settled(s, phase).reason = s.reason
           /\ Settled(s, phase).call = None
  BY DEF Settled, AgentState, Index, Reasons

LEMMA TerminatedType ==
    ASSUME NEW s \in AgentState, NEW reason \in {"final_answer", "timeout", "tool_call_cap"}
    PROVE  /\ Terminated(s, reason) \in AgentState
           /\ Terminated(s, reason).phase = "terminated"
           /\ Terminated(s, reason).successes = s.successes
           /\ Terminated(s, reason).reason = reason
           /\ Terminated(s, reason).call = None
  BY SettledType DEF Terminated, AgentState, Reasons

(* An action begins an attempt, or ends the recovery turn.                  *)
LEMMA ApplyAction ==
    ASSUME TypeOK, NEW event \in Actions, NEW next \in Apply(machine, event)
    PROVE  \/ /\ machine.phase = "awaiting_assistant"
              /\ next = Begun(machine, event = "valid_tool_call")
           \/ /\ machine.phase = "awaiting_final_answer"
              /\ next = Terminated(machine, "tool_call_cap")
  BY DEF TypeOK, Apply, When, Actions, AgentState

LEMMA ApplyFinal ==
    ASSUME TypeOK, NEW next \in Apply(machine, "final_answer")
    PROVE  next = Terminated(machine, "final_answer")
  BY DEF TypeOK, Apply, When, Actions, AgentState

LEMMA ApplyResponse ==
    ASSUME NEW s \in AgentState, NEW next \in Apply(s, "tool_response")
    PROVE  /\ s.phase = "awaiting_tool_response"
           /\ s.call # None
           /\ ~s.cap_error
           /\ next = [Settled(s, "awaiting_assistant") EXCEPT !.successes = @ + 1]
  BY DEF Apply, When, Actions, AgentState

LEMMA ApplyError ==
    ASSUME NEW s \in AgentState, NEW next \in Apply(s, "tool_error")
    PROVE  /\ s.phase = "awaiting_tool_response"
           /\ next = IF ~s.cap_error THEN Settled(s, "awaiting_assistant")
                     ELSE IF config.cap_error_behavior = "one_final_answer_turn"
                     THEN Settled(s, "awaiting_final_answer")
                     ELSE Terminated(s, "tool_call_cap")
  BY DEF Apply, When, Actions, AgentState

-----------------------------------------------------------------------------
(* The events of a trajectory.                                              *)
LEMMA ElementsAppend ==
    ASSUME NEW S, NEW s \in Seq(S), NEW e \in S
    PROVE  Elements(Append(s, e)) = Elements(s) \cup {e}
<1>1. /\ Len(s) \in Nat
      /\ DOMAIN s = 1 .. Len(s)
      /\ DOMAIN Append(s, e) = 1 .. Len(s) + 1
      /\ \A i \in 1 .. Len(s) : Append(s, e)[i] = s[i]
      /\ Append(s, e)[Len(s) + 1] = e
  OBVIOUS
<1>. DEFINE longer == Append(s, e)
<1>2. /\ DOMAIN longer = (DOMAIN s) \cup {Len(s) + 1}
      /\ \A i \in DOMAIN s : longer[i] = s[i]
      /\ longer[Len(s) + 1] = e
  BY <1>1
<1>. HIDE DEF longer
<1>3. {longer[i] : i \in DOMAIN longer} = {s[i] : i \in DOMAIN s} \cup {e}
  BY <1>2
<1>. QED
  BY <1>3 DEF Elements, longer

(* Events are typed.                                                        *)
LEMMA AttemptsType ==
    ASSUME TypeOK
    PROVE  \A a \in Attempts : a.attempt \in Nat /\ a.turn \in Nat
<1>1. \A c \in Elements(calls) : c.attempt \in Nat /\ c.turn \in Nat
  <2>1. \A i \in DOMAIN calls : calls[i] \in CallRecord
    BY DEF TypeOK
  <2>. QED
    BY <2>1 DEF Elements, CallRecord
<1>2. \A e \in Elements(errors) : e.attempt \in Nat /\ e.turn \in Nat
  <2>1. \A i \in DOMAIN errors : errors[i] \in ErrorRecord
    BY DEF TypeOK
  <2>. QED
    BY <2>1 DEF Elements, ErrorRecord
<1>. QED
  BY <1>1, <1>2 DEF Attempts

LEMMA ErrorsAppend ==
    ASSUME TypeOK, NEW e \in ErrorRecord, errors' = Append(errors, e)
    PROVE  /\ errors' \in Seq(ErrorRecord)
           /\ Len(errors') = Len(errors) + 1
           /\ Len(errors) \in Nat
           /\ DOMAIN errors = 1 .. Len(errors)
           /\ DOMAIN errors' = 1 .. Len(errors) + 1
           /\ \A i \in DOMAIN errors : errors'[i] = errors[i] /\ errors[i] \in ErrorRecord
           /\ errors'[Len(errors) + 1] = e
  BY DEF TypeOK

(* The turns so far stay when a turn is received, and when none is.         *)
TurnsKept ==
    /\ turns' \in Seq(Turn)
    /\ Len(turns) <= Len(turns')
    /\ \A i \in 1 .. Len(turns) : turns'[i] = turns[i]

LEMMA ReceiveTurn ==
    ASSUME TypeOK, NEW t \in Sampled, Receive(t)
    PROVE  /\ TurnsKept
           /\ pc = "sampling"
           /\ config' = config
           /\ generated' \in Nat
           /\ Len(turns') = Len(turns) + 1
           /\ Len(turns) \in Nat
           /\ turns'[Len(turns')].tool <=> t.kind # "final"
           /\ turns'[Len(turns')].think <=> t.think
<1>. DEFINE new == [tool |-> t.kind # "final", think |-> t.think]
<1>1. /\ new \in Turn
      /\ new.tool <=> t.kind # "final"
      /\ new.think <=> t.think
  BY DEF Sampled, Turn
<1>2. turns \in Seq(Turn) /\ turns' = Append(turns, new)
  BY DEF TypeOK, Receive
<1>. HIDE DEF new
<1>3. t.tokens \in Nat /\ generated \in Nat
  BY MaxTokensAssumption DEF Sampled, TypeOK
<1>4. generated' \in Nat
  BY <1>3 DEF Receive
<1>5. pc = "sampling" /\ config' = config
  BY DEF Receive
<1>. QED
  BY <1>1, <1>2, <1>4, <1>5 DEF TurnsKept

LEMMA KeepEvents ==
    ASSUME TypeOK, AttemptsAreTurns, TurnsKept, calls' = calls, errors' = errors
    PROVE  AttemptsAreTurns' /\ EventCount' = EventCount
<1>1. Attempts' = Attempts /\ EventCount' = EventCount
  BY DEF Attempts, EventCount, Elements
<1>2. \A a \in Attempts : a.attempt \in Nat /\ a.turn \in Nat
  BY AttemptsType
<1>3. Len(turns) \in Nat /\ Len(turns') \in Nat
  BY DEF TypeOK, TurnsKept
<1>4. \A a \in Attempts : /\ a.turn = a.attempt
                          /\ a.turn < Len(turns')
                          /\ turns'[a.turn + 1].tool
  BY <1>2, <1>3 DEF AttemptsAreTurns, TurnsKept
<1>. QED
  BY <1>1, <1>4 DEF AttemptsAreTurns

(* The next attempt is the action of the next turn.                         *)
LEMMA NextAttempt ==
    ASSUME TypeOK, AttemptsAreTurns, TurnsKept,
           Attempts' = Attempts \cup {[attempt |-> EventCount, turn |-> EventCount]},
           EventCount' = EventCount + 1,
           EventCount < Len(turns'),
           turns'[EventCount + 1].tool
    PROVE  /\ {a.attempt : a \in Attempts'} = 0 .. EventCount' - 1
           /\ \A a \in Attempts' : /\ a.turn = a.attempt
                                   /\ a.turn < Len(turns')
                                   /\ turns'[a.turn + 1].tool
<1>1. EventCount \in Nat
  BY DEF EventCount, TypeOK
<1>2. \A a \in Attempts : a.attempt \in Nat /\ a.turn \in Nat
  BY AttemptsType
<1>3. Len(turns) \in Nat /\ Len(turns') \in Nat
  BY DEF TypeOK, TurnsKept
<1>4. \A a \in Attempts : /\ a.turn = a.attempt
                          /\ a.turn < Len(turns')
                          /\ turns'[a.turn + 1].tool
  BY <1>2, <1>3 DEF AttemptsAreTurns, TurnsKept
<1>. DEFINE n == EventCount
            new == [attempt |-> n, turn |-> n]
<1>5. new.attempt = n /\ new.turn = n
  OBVIOUS
<1>6. Attempts' = Attempts \cup {new} /\ EventCount' = n + 1
  OBVIOUS
<1>7. {a.attempt : a \in Attempts} = 0 .. n - 1
  BY DEF AttemptsAreTurns
<1>. HIDE DEF new
<1>8. {a.attempt : a \in Attempts'} = {a.attempt : a \in Attempts} \cup {n}
  BY <1>5, <1>6
<1>9. {a.attempt : a \in Attempts'} = 0 .. EventCount' - 1
  BY <1>1, <1>6, <1>7, <1>8
<1>10. /\ new.turn = new.attempt
       /\ new.turn < Len(turns')
       /\ turns'[new.turn + 1].tool
  BY <1>5
<1>. QED
  BY <1>4, <1>6, <1>9, <1>10

LEMMA AddError ==
    ASSUME TypeOK, AttemptsAreTurns, TurnsKept,
           NEW e \in ErrorRecord, e.attempt = EventCount, e.turn = EventCount,
           errors' = Append(errors, e), calls' = calls,
           EventCount < Len(turns'), turns'[EventCount + 1].tool
    PROVE  AttemptsAreTurns' /\ EventCount' = EventCount + 1
<1>1. Elements(errors') = Elements(errors) \cup {e}
  BY ElementsAppend DEF TypeOK
<1>2. Attempts' = Attempts \cup {[attempt |-> EventCount, turn |-> EventCount]}
  BY <1>1 DEF Attempts
<1>3. EventCount' = EventCount + 1
  BY DEF EventCount, TypeOK
<1>. QED
  BY <1>2, <1>3, NextAttempt DEF AttemptsAreTurns

LEMMA AddCall ==
    ASSUME TypeOK, AttemptsAreTurns, TurnsKept,
           NEW c \in CallRecord, c.call = Len(calls),
           c.attempt = EventCount, c.turn = EventCount,
           calls' = Append(calls, c), errors' = errors,
           EventCount < Len(turns'), turns'[EventCount + 1].tool
    PROVE  AttemptsAreTurns' /\ EventCount' = EventCount + 1
<1>1. Elements(calls') = Elements(calls) \cup {c}
  BY ElementsAppend DEF TypeOK
<1>2. Attempts' = Attempts \cup {[attempt |-> EventCount, turn |-> EventCount]}
  BY <1>1 DEF Attempts
<1>3. EventCount' = EventCount + 1
  BY DEF EventCount, TypeOK
<1>4. \A i \in DOMAIN calls' : calls'[i].call = i - 1
  BY DEF AttemptsAreTurns, TypeOK
<1>. QED
  BY <1>2, <1>3, <1>4, NextAttempt DEF AttemptsAreTurns

(* What was recorded before is older than the turn that is answered now.    *)
LEMMA EventsAreOld ==
    ASSUME TypeOK, AttemptsAreTurns
    PROVE  /\ \A a \in Attempts : a.attempt < EventCount /\ a.turn < EventCount
           /\ \A i \in DOMAIN errors : errors[i].turn < EventCount /\ errors[i].turn \in Nat
           /\ EventCount \in Nat
<1>1. EventCount \in Nat
  BY DEF EventCount, TypeOK
<1>2. \A a \in Attempts : a.attempt \in 0 .. EventCount - 1 /\ a.turn = a.attempt
  BY DEF AttemptsAreTurns
<1>3. \A a \in Attempts : a.attempt < EventCount /\ a.turn < EventCount
  BY <1>1, <1>2
<1>4. \A i \in DOMAIN errors :
         /\ [attempt |-> errors[i].attempt, turn |-> errors[i].turn] \in Attempts
         /\ errors[i].turn \in Nat
  <2>. SUFFICES ASSUME NEW i \in DOMAIN errors
               PROVE  /\ [attempt |-> errors[i].attempt, turn |-> errors[i].turn] \in Attempts
                      /\ errors[i].turn \in Nat
    OBVIOUS
  <2>1. errors[i] \in Elements(errors) /\ errors[i] \in ErrorRecord
    BY DEF Elements, TypeOK
  <2>. QED
    BY <2>1 DEF Attempts, ErrorRecord
<1>. QED
  BY <1>1, <1>3, <1>4

(* While a trajectory runs, every error so far left it running.             *)
LEMMA ErrorsAreRecoverable ==
    ASSUME LoopInv, pc # "done"
    PROVE  \A i \in DOMAIN errors : errors[i].recoverable
  BY DEF LoopInv, ErrorsAreHonest

(* From the shape of the invariant to the validator's.                      *)
LEMMA EventsAreInOrder ==
    ASSUME TypeOK', AttemptsAreTurns'
    PROVE  EventsInOrder'
  BY DEF TypeOK, AttemptsAreTurns, EventsInOrder, EventCount

-----------------------------------------------------------------------------
(* The head of the loop: another turn, or the end of the token budget.      *)
LEMMA ContinueOutcomes ==
    ASSUME NEW used \in Nat, Continue(used), stop = None
    PROVE  \/ pc' = "sampling" /\ stop' = None
           \/ pc' = "done" /\ stop' = "max_tokens"
  BY DEF Continue, Finish

(* A pending attempt of state s is answered with an error: the step shared  *)
(* by a refused action and a failed execution.                              *)
Pending(s) ==
    /\ s \in AgentState
    /\ s.phase = "awaiting_tool_response"
    /\ s.attempts = EventCount + 1
    /\ s.attempt = EventCount
    /\ s.successes = Len(calls)
    /\ s.reason = None
    /\ EventCount <= config.max_tool_calls
    /\ s.cap_error <=> EventCount >= config.max_tool_calls

LEMMA RespondInv ==
    ASSUME LoopInv, TurnsKept, CapErrors = {}, pc # "done", stop = None, ~answered,
           NEW s, Pending(s),
           NEW code \in {"limit_exceeded", "parse", "not_enabled", "execution_failed"},
           code = "limit_exceeded" <=> s.cap_error,
           NEW used \in Nat,
           Respond(s, code, EventCount, used),
           Len(turns') = EventCount + 1, turns'[EventCount + 1].tool,
           config' = config, calls' = calls, answered' = answered, generated' \in Nat
    PROVE  LoopInv'
<1>. DEFINE max == config.max_tool_calls
            e == [attempt |-> s.attempt, turn |-> EventCount, code |-> code,
                  recoverable |-> ~s.cap_error \/ config.cap_error_behavior = "one_final_answer_turn"]
<1>1. /\ TypeOK
      /\ AttemptsAreTurns
      /\ MachineCounts
      /\ EventCount \in Nat
      /\ Len(calls) \in Nat
      /\ max \in Nat
      /\ Len(calls) <= max
      /\ s \in AgentState
  BY ConfigsAssumption DEF LoopInv, TypeOK, EventCount, Config, MachineCounts, Pending
<1>2. e \in ErrorRecord
  BY <1>1 DEF Pending, ErrorRecord
<1>3. errors' = Append(errors, e) /\ e.attempt = EventCount /\ e.turn = EventCount
  BY DEF Respond, Pending
<1>4. AttemptsAreTurns' /\ EventCount' = EventCount + 1
  <2>. HIDE DEF e
  <2>. QED
    BY <1>1, <1>2, <1>3, AddError
<1>5. /\ errors' \in Seq(ErrorRecord)
      /\ Len(errors') = Len(errors) + 1
      /\ Len(errors) \in Nat
      /\ DOMAIN errors = 1 .. Len(errors)
      /\ DOMAIN errors' = 1 .. Len(errors) + 1
      /\ \A i \in DOMAIN errors : errors'[i] = errors[i] /\ errors[i] \in ErrorRecord
      /\ errors'[Len(errors) + 1] = e
  <2>. HIDE DEF e
  <2>. QED
    BY <1>1, <1>2, <1>3, ErrorsAppend
<1>6. CapErrors' = IF s.cap_error THEN {Len(errors')} ELSE {}
  BY <1>5 DEF CapErrors
<1>7. \A i \in DOMAIN errors : errors'[i].turn < EventCount /\ errors'[i].turn \in Nat
  BY <1>1, <1>5, EventsAreOld
<1>8. /\ errors'[Len(errors')].attempt = EventCount
      /\ errors'[Len(errors')].recoverable <=>
            ~s.cap_error \/ config.cap_error_behavior = "one_final_answer_turn"
      /\ errors' # <<>>
  <2>1. Len(errors') = Len(errors) + 1 /\ errors'[Len(errors')] = e
    BY <1>5
  <2>2. Len(errors') # 0 /\ Len(<<>>) = 0
    BY <1>5
  <2>3. errors' # <<>>
    BY <2>2
  <2>4. e.recoverable <=> ~s.cap_error \/ config.cap_error_behavior = "one_final_answer_turn"
    OBVIOUS
  <2>5. e.attempt = EventCount
    BY <1>3
  <2>. HIDE DEF e
  <2>. QED
    BY <2>1, <2>3, <2>4, <2>5
<1>. HIDE DEF e
<1>9. PICK next \in Apply(s, "tool_error") :
         /\ machine' = next
         /\ IF next.phase = "terminated" THEN Finish("call_cap") ELSE Continue(used)
  BY DEF Respond
<1>10. next = IF ~s.cap_error THEN Settled(s, "awaiting_assistant")
              ELSE IF config.cap_error_behavior = "one_final_answer_turn"
              THEN Settled(s, "awaiting_final_answer")
              ELSE Terminated(s, "tool_call_cap")
  BY <1>1, ApplyError
<1>11. /\ machine' \in AgentState
       /\ machine'.successes = Len(calls')
       /\ \/ /\ ~s.cap_error
             /\ machine'.phase = "awaiting_assistant"
             /\ machine'.attempts = EventCount'
             /\ machine'.reason = None
             /\ Continue(used)
          \/ /\ s.cap_error
             /\ config.cap_error_behavior = "one_final_answer_turn"
             /\ machine'.phase = "awaiting_final_answer"
             /\ machine'.attempts = EventCount'
             /\ machine'.reason = None
             /\ Continue(used)
          \/ /\ s.cap_error
             /\ config.cap_error_behavior # "one_final_answer_turn"
             /\ machine'.phase = "terminated"
             /\ machine'.reason = "tool_call_cap"
             /\ Finish("call_cap")
  BY <1>1, <1>4, <1>9, <1>10, SettledType, TerminatedType DEF Pending
<1>12. /\ \/ pc' = "sampling" /\ stop' = None
          \/ pc' = "done" /\ stop' = "max_tokens"
          \/ pc' = "done" /\ stop' = "call_cap"
       /\ stop' = "call_cap" <=> machine'.phase = "terminated"
  BY <1>11, ContinueOutcomes, NoneIsNoStop DEF Finish
<1>13. TypeOK'
  <2>1. pc' \in {"sampling", "done"} /\ stop' \in Stops \cup {None}
    BY <1>12, NoneIsNoStop
  <2>. QED
    BY <1>1, <1>5, <1>11, <2>1 DEF TypeOK, TurnsKept
<1>14. TurnsAreCounted'
  BY <1>1, <1>4, <1>12 DEF TurnsAreCounted
<1>15. MachineCounts'
  <2>1. config'.max_tool_calls = max /\ Len(calls') <= max /\ EventCount' <= max + 1
    BY <1>1, <1>4 DEF Pending
  <2>2. CASE ~s.cap_error
    <3>1. EventCount < max /\ CapErrors' = {} /\ machine'.phase = "awaiting_assistant"
      BY <1>1, <1>6, <1>11, <2>2 DEF Pending
    <3>. QED
      BY <1>1, <1>4, <1>11, <2>1, <3>1 DEF MachineCounts
  <2>3. CASE s.cap_error
    <3>1. /\ EventCount = max
          /\ CapErrors' = {Len(errors')}
          /\ machine'.phase \in {"awaiting_final_answer", "terminated"}
      BY <1>1, <1>6, <1>11, <2>3 DEF Pending
    <3>2. EventCount' - 1 = EventCount /\ errors'[Len(errors')].attempt = EventCount
      BY <1>1, <1>4, <1>8
    <3>. QED
      BY <1>1, <1>4, <1>8, <1>11, <2>1, <2>3, <3>1, <3>2 DEF MachineCounts
  <2>. QED
    BY <2>2, <2>3
<1>16. PhaseAgrees'
  BY <1>11, <1>12, NoneIsNoStop DEF PhaseAgrees
<1>17. RecordAccepted'
  <2>1. EventsInOrder'
    BY <1>4, <1>13, EventsAreInOrder
  <2>2. turns' # <<>> /\ turns'[Len(turns')].tool
    <3>1. Len(turns') # 0 /\ Len(<<>>) = 0
      BY <1>1
    <3>. QED
      BY <3>1
  <2>3. \E a \in Attempts' : a.turn = Len(turns') - 1
    <3>0. {a.attempt : a \in Attempts'} = 0 .. EventCount' - 1
      BY <1>4 DEF AttemptsAreTurns
    <3>1. EventCount \in {a.attempt : a \in Attempts'}
      <4>1. EventCount \in 0 .. EventCount' - 1
        BY <1>1, <1>4
      <4>. QED
        BY <3>0, <4>1, Zenon
    <3>2. PICK a \in Attempts' : a.attempt = EventCount
      BY <3>1
    <3>. QED
      BY <1>1, <1>4, <3>2 DEF AttemptsAreTurns
  <2>. QED
    BY <1>12, <2>1, <2>2, <2>3, NoneIsNoStop DEF RecordAccepted, RecordValid
<1>18. ErrorsAreHonest'
  <2>. SUFFICES ASSUME NEW i \in DOMAIN errors'
                PROVE  LET last == errors'[i].turn = Len(turns') - 1
                       IN  /\ ~errors'[i].recoverable =>
                                 last /\ pc' = "done" /\ stop' = "call_cap"
                           /\ errors'[i].recoverable /\ last /\ pc' = "done" =>
                                 stop' = "max_tokens"
    BY DEF ErrorsAreHonest
  <2>1. CASE i \in DOMAIN errors
    <3>1. errors'[i].recoverable
      BY <1>5, <2>1, ErrorsAreRecoverable
    <3>2. errors'[i].turn # Len(turns') - 1
      BY <1>1, <1>7, <2>1
    <3>. QED
      BY <3>1, <3>2
  <2>2. CASE i = Len(errors')
    <3>1. errors'[i].turn = Len(turns') - 1
      BY <1>1, <1>3, <1>5, <2>2
    <3>2. CASE errors'[i].recoverable
      <4>1. stop' # "call_cap"
        BY <1>8, <1>11, <1>12, <2>2, <3>2
      <4>. QED
        BY <1>12, <3>2, <4>1
    <3>3. CASE ~errors'[i].recoverable
      <4>1. pc' = "done" /\ stop' = "call_cap"
        BY <1>8, <1>11, <2>2, <3>3 DEF Finish
      <4>. QED
        BY <3>1, <3>3, <4>1
    <3>. QED
      BY <3>2, <3>3
  <2>. QED
    BY <1>5, <2>1, <2>2
<1>19. StopTellsTheEnd'
  BY <1>11, <1>12, NoneIsNoStop DEF StopTellsTheEnd
<1>. QED
  BY <1>4, <1>13, <1>14, <1>15, <1>16, <1>17, <1>18, <1>19 DEF LoopInv

-----------------------------------------------------------------------------
(* What holds when a turn is asked for.                                     *)
LEMMA SamplingFacts ==
    ASSUME LoopInv, pc = "sampling"
    PROVE  /\ TypeOK /\ AttemptsAreTurns /\ TurnsAreCounted /\ MachineCounts
           /\ machine \in AgentState
           /\ machine.phase \in {"awaiting_assistant", "awaiting_final_answer"}
           /\ machine.reason = None
           /\ machine.attempts = EventCount
           /\ Len(turns) = EventCount
           /\ EventCount \in Nat
           /\ Len(calls) \in Nat /\ Len(errors) \in Nat
           /\ config.max_tool_calls \in Nat
           /\ stop = None /\ ~answered
<1>1. EventCount \in Nat /\ Len(calls) \in Nat /\ Len(errors) \in Nat
  BY DEF LoopInv, TypeOK, EventCount
<1>2. config.max_tool_calls \in Nat
  BY ConfigsAssumption DEF LoopInv, TypeOK, Config
<1>3. machine.phase \in {"awaiting_assistant", "awaiting_final_answer"}
  BY DEF LoopInv, PhaseAgrees
<1>. QED
  BY <1>1, <1>2, <1>3 DEF LoopInv, TypeOK, MachineCounts, PhaseAgrees, TurnsAreCounted

(* The attempt an action begins.                                            *)
LEMMA BegunPending ==
    ASSUME LoopInv, pc = "sampling", machine.phase = "awaiting_assistant",
           NEW parsed \in BOOLEAN
    PROVE  /\ Pending(Begun(machine, parsed))
           /\ CapErrors = {}
           /\ Begun(machine, parsed).call # None =>
                 /\ parsed
                 /\ ~Begun(machine, parsed).cap_error
                 /\ Begun(machine, parsed).call = Len(calls)
<1>. DEFINE next == Begun(machine, parsed)
<1>1. next \in AgentState
  BY BegunType, SamplingFacts
<1>2. /\ next.phase = "awaiting_tool_response"
      /\ next.attempts = machine.attempts + 1
      /\ next.attempt = machine.attempts
      /\ next.successes = machine.successes
      /\ next.reason = machine.reason
      /\ next.cap_error <=> machine.attempts >= config.max_tool_calls
      /\ next.call # None =>
            /\ parsed
            /\ ~ (machine.attempts >= config.max_tool_calls)
            /\ next.call = machine.successes
  BY SamplingFacts DEF Begun, AgentState
<1>3. /\ machine.successes = Len(calls)
      /\ EventCount <= config.max_tool_calls
      /\ CapErrors = {}
  BY SamplingFacts DEF MachineCounts
<1>. QED
  BY <1>1, <1>2, <1>3, SamplingFacts DEF Pending

(* A turn that ends the trajectory without an event of its own.             *)
LEMMA LastTurnInv ==
    ASSUME LoopInv, NEW t \in Sampled, Receive(t), pc' = "done",
           calls' = calls, errors' = errors
    PROVE  /\ AttemptsAreTurns' /\ TurnsAreCounted' /\ PhaseAgrees' /\ ErrorsAreHonest'
           /\ EventCount' = EventCount /\ CapErrors' = CapErrors
           /\ pc = "sampling" /\ config' = config /\ generated' \in Nat
           /\ turns' \in Seq(Turn) /\ turns' # <<>>
           /\ Len(turns') = EventCount + 1
           /\ turns'[Len(turns')].tool <=> t.kind # "final"
           /\ turns'[Len(turns')].think <=> t.think
           /\ \A a \in Attempts' : a.turn # Len(turns') - 1
<1>0. TypeOK
  BY DEF LoopInv
<1>1. /\ TurnsKept
      /\ pc = "sampling"
      /\ config' = config
      /\ generated' \in Nat
      /\ Len(turns') = Len(turns) + 1
      /\ turns'[Len(turns')].tool <=> t.kind # "final"
      /\ turns'[Len(turns')].think <=> t.think
  BY <1>0, ReceiveTurn
<1>2. /\ AttemptsAreTurns
      /\ EventCount \in Nat
      /\ Len(turns) = EventCount
  BY <1>1, SamplingFacts
<1>3. AttemptsAreTurns' /\ EventCount' = EventCount
  BY <1>0, <1>1, <1>2, KeepEvents
<1>4. CapErrors' = CapErrors /\ Attempts' = Attempts
  BY DEF CapErrors, Attempts, Elements
<1>5. /\ \A a \in Attempts : a.turn < EventCount /\ a.turn \in Nat
      /\ \A i \in DOMAIN errors : errors[i].turn < EventCount /\ errors[i].turn \in Nat
  BY <1>0, <1>2, EventsAreOld, AttemptsType
<1>6. Len(turns') = EventCount + 1 /\ turns' # <<>>
  <2>1. Len(turns') = EventCount + 1 /\ Len(<<>>) = 0
    BY <1>1, <1>2
  <2>. QED
    BY <1>2, <2>1
<1>7. TurnsAreCounted'
  BY <1>2, <1>3, <1>6 DEF TurnsAreCounted
<1>8. PhaseAgrees'
  BY DEF PhaseAgrees
<1>9. \A a \in Attempts' : a.turn # Len(turns') - 1
  BY <1>2, <1>4, <1>5, <1>6
<1>10. ErrorsAreHonest'
  <2>1. \A i \in DOMAIN errors' :
           errors'[i].recoverable /\ errors'[i].turn # Len(turns') - 1
    BY <1>1, <1>2, <1>5, <1>6, ErrorsAreRecoverable
  <2>. QED
    BY <2>1 DEF ErrorsAreHonest
<1>. QED
  BY <1>1, <1>3, <1>4, <1>6, <1>7, <1>8, <1>9, <1>10 DEF TurnsKept

(* The counters of a machine that is left alone, or terminated.             *)
LEMMA CountsKept ==
    ASSUME LoopInv, pc = "sampling", config' = config, calls' = calls, errors' = errors,
           EventCount' = EventCount, CapErrors' = CapErrors,
           machine' = machine \/ (/\ machine'.phase = "terminated"
                                  /\ machine'.successes = machine.successes)
    PROVE  MachineCounts'
  BY SamplingFacts DEF MachineCounts

LEMMA ForbiddenToolInv ==
    ASSUME LoopInv, NEW t \in Sampled, SampleForbiddenTool(t)
    PROVE  LoopInv'
<1>1. /\ Receive(t) /\ t.kind # "final"
      /\ pc' = "done" /\ stop' = "invalid_format"
      /\ machine' = machine /\ calls' = calls /\ errors' = errors /\ answered' = answered
  BY DEF SampleForbiddenTool, Finish
<1>2. pc = "sampling"
  BY <1>1, LastTurnInv
<1>3. TypeOK'
  BY <1>1, <1>2, LastTurnInv, SamplingFacts, NoneIsNoStop DEF TypeOK
<1>4. MachineCounts'
  BY <1>1, <1>2, LastTurnInv, CountsKept
<1>5. RecordAccepted'
  <2>1. EventsInOrder'
    BY <1>1, <1>3, LastTurnInv, EventsAreInOrder
  <2>2. turns' # <<>> /\ turns'[Len(turns')].tool /\ ~answered'
    <3>1. turns' # <<>> /\ (turns'[Len(turns')].tool <=> t.kind # "final")
      BY <1>1, LastTurnInv
    <3>2. ~answered'
      BY <1>1, <1>2, SamplingFacts
    <3>. QED
      BY <1>1, <3>1, <3>2
  <2>3. \A a \in Attempts' : a.turn # Len(turns') - 1
    BY <1>1, LastTurnInv
  <2>. QED
    BY <1>1, <2>1, <2>2, <2>3 DEF RecordAccepted, RecordValid
<1>6. StopTellsTheEnd'
  BY <1>1, <1>2, SamplingFacts, NoneIsNoStop DEF StopTellsTheEnd
<1>. QED
  BY <1>1, <1>3, <1>4, <1>5, <1>6, LastTurnInv DEF LoopInv

(* A final response: cut, malformed, or accepted by the machine.            *)
LEMMA FinalInv ==
    ASSUME LoopInv, NEW t \in Sampled, SampleFinal(t)
    PROVE  LoopInv'
<1>1. /\ Receive(t) /\ t.kind = "final"
      /\ pc' = "done" /\ answered' = t.answer
      /\ calls' = calls /\ errors' = errors
      /\ \/ stop' = "max_tokens" /\ machine' = machine
         \/ stop' = "invalid_format" /\ ~t.well_formed /\ machine' = machine
         \/ /\ machine' \in Apply(machine, "final_answer")
            /\ stop' = IF machine.attempts = 0 THEN "direct_answer" ELSE "final_answer"
  BY DEF SampleFinal, Finish
<1>2. pc = "sampling"
  BY <1>1, LastTurnInv
<1>3. /\ machine \in AgentState /\ machine.reason = None
      /\ EventCount \in Nat /\ machine.attempts = EventCount
      /\ TypeOK
  BY <1>2, SamplingFacts
<1>4. \/ /\ stop' \in {"max_tokens", "invalid_format"}
         /\ machine' = machine
      \/ /\ stop' = IF machine.attempts = 0 THEN "direct_answer" ELSE "final_answer"
         /\ machine' \in AgentState
         /\ machine'.phase = "terminated"
         /\ machine'.successes = machine.successes
         /\ machine'.reason = "final_answer"
  BY <1>1, <1>3, ApplyFinal, TerminatedType
<1>5. answered' \in BOOLEAN /\ (t.think /\ t.answer => t.well_formed)
  BY <1>1 DEF Sampled
<1>6. TypeOK'
  BY <1>1, <1>3, <1>4, <1>5, LastTurnInv, NoneIsNoStop DEF TypeOK
<1>7. MachineCounts'
  BY <1>1, <1>2, <1>4, LastTurnInv, CountsKept
<1>8. RecordAccepted'
  <2>1. EventsInOrder'
    BY <1>1, <1>6, LastTurnInv, EventsAreInOrder
  <2>2. /\ turns' # <<>>
        /\ turns'[Len(turns')].tool <=> t.kind # "final"
        /\ turns'[Len(turns')].think <=> t.think
    BY <1>1, LastTurnInv
  <2>3. turns' # <<>> /\ ~turns'[Len(turns')].tool /\ (turns'[Len(turns')].think <=> t.think)
    BY <1>1, <2>2
  <2>4. stop' # "call_cap"
    BY <1>4
  <2>5. stop' = "invalid_format" => ~(turns'[Len(turns')].think /\ answered')
    BY <1>1, <1>5, <2>3
  <2>. QED
    BY <2>1, <2>3, <2>4, <2>5 DEF RecordAccepted, RecordValid
<1>9. StopTellsTheEnd'
  <2>1. machine.attempts = 0 => Len(calls') = 0 /\ Len(errors') = 0
    BY <1>1, <1>2, <1>3, SamplingFacts DEF EventCount
  <2>2. calls' \in Seq(CallRecord) /\ errors' \in Seq(ErrorRecord)
    BY <1>6 DEF TypeOK
  <2>3. machine.attempts = 0 => calls' = <<>> /\ errors' = <<>>
    BY <2>1, <2>2
  <2>4. machine.phase # "terminated"
    BY <1>2, SamplingFacts
  <2>. QED
    BY <1>1, <1>3, <1>4, <2>3, <2>4, NoneIsNoStop DEF StopTellsTheEnd
<1>. QED
  BY <1>1, <1>6, <1>7, <1>8, <1>9, LastTurnInv DEF LoopInv

(* A refused action is answered at once.                                    *)
LEMMA RefusedInv ==
    ASSUME LoopInv, NEW t \in Sampled, SampleRefused(t)
    PROVE  LoopInv'
<1>1. /\ Receive(t) /\ t.kind # "final"
      /\ calls' = calls /\ answered' = answered
  BY DEF SampleRefused
<1>2. PICK begun \in Apply(machine, EventOf(t)) :
         /\ begun.phase = "awaiting_tool_response"
         /\ Respond(begun, CodeOf(begun, t), LastTurn, generated')
  BY DEF SampleRefused
<1>3. TypeOK
  BY DEF LoopInv
<1>4. /\ TurnsKept
      /\ pc = "sampling"
      /\ config' = config
      /\ generated' \in Nat
      /\ Len(turns') = Len(turns) + 1
      /\ turns'[Len(turns')].tool <=> t.kind # "final"
      /\ turns'[Len(turns')].think <=> t.think
  BY <1>1, <1>3, ReceiveTurn
<1>5. /\ machine \in AgentState
      /\ EventCount \in Nat
      /\ Len(turns) = EventCount
      /\ stop = None /\ ~answered
  BY <1>4, SamplingFacts
<1>6. EventOf(t) \in Actions
  BY DEF EventOf, Actions
<1>7. /\ machine.phase = "awaiting_assistant"
      /\ begun = Begun(machine, EventOf(t) = "valid_tool_call")
  BY <1>2, <1>3, <1>5, <1>6, ApplyAction, TerminatedType
<1>8. Pending(begun) /\ CapErrors = {}
  BY <1>4, <1>7, BegunPending
<1>9. /\ CodeOf(begun, t) \in {"limit_exceeded", "parse", "not_enabled", "execution_failed"}
      /\ CodeOf(begun, t) = "limit_exceeded" <=> begun.cap_error
  BY DEF CodeOf
<1>10. LastTurn = EventCount /\ Len(turns') = EventCount + 1
  BY <1>4, <1>5 DEF LastTurn
<1>11. turns'[EventCount + 1].tool
  BY <1>1, <1>4, <1>5
<1>12. Respond(begun, CodeOf(begun, t), EventCount, generated')
  BY <1>2, <1>10
<1>. DEFINE code == CodeOf(begun, t)
            used == generated'
<1>13. /\ code \in {"limit_exceeded", "parse", "not_enabled", "execution_failed"}
       /\ code = "limit_exceeded" <=> begun.cap_error
       /\ used \in Nat
       /\ Respond(begun, code, EventCount, used)
  BY <1>4, <1>9, <1>12
<1>. HIDE DEF code, used
<1>. QED
  BY <1>1, <1>4, <1>5, <1>8, <1>10, <1>11, <1>13, RespondInv

(* An action in the recovery turn.                                          *)
LEMMA AfterCapInv ==
    ASSUME LoopInv, NEW t \in Sampled, SampleAfterCap(t)
    PROVE  LoopInv'
<1>1. /\ Receive(t) /\ t.kind # "final"
      /\ machine' \in Apply(machine, EventOf(t))
      /\ machine'.phase = "terminated"
      /\ pc' = "done" /\ stop' = "call_cap"
      /\ calls' = calls /\ errors' = errors /\ answered' = answered
  BY DEF SampleAfterCap, Finish
<1>2. pc = "sampling"
  BY <1>1, LastTurnInv
<1>3. /\ TypeOK /\ MachineCounts
      /\ machine \in AgentState
      /\ EventCount \in Nat
      /\ Len(errors) \in Nat
  BY <1>2, SamplingFacts
<1>4. EventOf(t) \in Actions
  BY DEF EventOf, Actions
<1>5. /\ machine.phase = "awaiting_final_answer"
      /\ machine' = Terminated(machine, "tool_call_cap")
  <2>1. CASE machine.phase = "awaiting_assistant"
    <3>1. machine' = Begun(machine, EventOf(t) = "valid_tool_call")
      BY <1>1, <1>3, <1>4, <2>1, ApplyAction
    <3>2. Pending(machine')
      BY <1>2, <2>1, <3>1, BegunPending
    <3>. QED
      BY <1>1, <3>2 DEF Pending
  <2>. QED
    BY <1>1, <1>3, <1>4, <2>1, ApplyAction
<1>6. /\ machine' \in AgentState
      /\ machine'.successes = machine.successes
      /\ machine'.reason = "tool_call_cap"
  BY <1>3, <1>5, TerminatedType
<1>7. TypeOK'
  BY <1>1, <1>3, <1>6, LastTurnInv, NoneIsNoStop DEF TypeOK
<1>8. MachineCounts'
  BY <1>1, <1>2, <1>6, LastTurnInv, CountsKept
<1>9. RecordAccepted'
  <2>1. EventsInOrder'
    BY <1>1, <1>7, LastTurnInv, EventsAreInOrder
  <2>2. turns' # <<>> /\ turns'[Len(turns')].tool /\ Len(turns') = EventCount + 1
    <3>1. /\ turns' # <<>>
          /\ turns'[Len(turns')].tool <=> t.kind # "final"
          /\ Len(turns') = EventCount + 1
      BY <1>1, LastTurnInv
    <3>. QED
      BY <1>1, <3>1
  <2>3. /\ CapErrors = {Len(errors)}
        /\ errors # <<>>
        /\ errors[Len(errors)].attempt = EventCount - 1
    BY <1>3, <1>5 DEF MachineCounts
  <2>4. errors[Len(errors)].turn = EventCount - 1
    <3>1. Len(errors) \in DOMAIN errors
      BY <1>3, <2>3 DEF TypeOK
    <3>2. [attempt |-> errors[Len(errors)].attempt, turn |-> errors[Len(errors)].turn] \in Attempts
      BY <3>1 DEF Attempts, Elements
    <3>. QED
      BY <2>3, <3>2 DEF LoopInv, AttemptsAreTurns
  <2>5. Cardinality({Len(errors)}) = 1
    BY FS_Singleton
  <2>6. CapRecoveryRetry'
    <3>1. {i \in DOMAIN errors' : errors'[i].code = "limit_exceeded"} = {Len(errors)}
      BY <1>1, <2>3 DEF CapErrors
    <3>2. errors'[Len(errors)].turn = Len(turns') - 2
      BY <1>1, <1>3, <2>2, <2>4
    <3>3. errors'[Len(errors)].attempt = Len(calls') + Len(errors') - 1
      BY <1>1, <2>3 DEF EventCount
    <3>. QED
      BY <2>5, <3>1, <3>2, <3>3 DEF CapRecoveryRetry
  <2>. QED
    BY <1>1, <2>1, <2>2, <2>6 DEF RecordAccepted, RecordValid
<1>10. StopTellsTheEnd'
  BY <1>1, <1>6 DEF StopTellsTheEnd
<1>. QED
  BY <1>1, <1>7, <1>8, <1>9, <1>10, LastTurnInv DEF LoopInv

(* A call that may run waits for its tool.                                  *)
LEMMA CallInv ==
    ASSUME LoopInv, NEW t \in Sampled, SampleCall(t)
    PROVE  LoopInv'
<1>1. /\ Receive(t) /\ t.kind # "final"
      /\ machine' \in Apply(machine, EventOf(t))
      /\ machine'.call # None
      /\ pc' = "executing"
      /\ calls' = calls /\ errors' = errors /\ answered' = answered /\ stop' = stop
  BY DEF SampleCall
<1>2. TypeOK
  BY DEF LoopInv
<1>3. /\ TurnsKept
      /\ pc = "sampling"
      /\ config' = config
      /\ generated' \in Nat
      /\ Len(turns') = Len(turns) + 1
      /\ turns'[Len(turns')].tool <=> t.kind # "final"
  BY <1>1, <1>2, ReceiveTurn
<1>4. /\ machine \in AgentState
      /\ EventCount \in Nat /\ Len(calls) \in Nat
      /\ Len(turns) = EventCount
      /\ AttemptsAreTurns
      /\ stop = None /\ ~answered
      /\ config.max_tool_calls \in Nat
  BY <1>3, SamplingFacts
<1>5. EventOf(t) \in Actions
  BY DEF EventOf, Actions
<1>6. /\ machine.phase = "awaiting_assistant"
      /\ machine' = Begun(machine, EventOf(t) = "valid_tool_call")
  BY <1>1, <1>2, <1>4, <1>5, ApplyAction, TerminatedType
<1>7. /\ Pending(machine')
      /\ CapErrors = {}
      /\ ~machine'.cap_error
      /\ machine'.call = Len(calls)
  BY <1>1, <1>3, <1>6, BegunPending
<1>8. AttemptsAreTurns' /\ EventCount' = EventCount
  BY <1>1, <1>2, <1>3, <1>4, KeepEvents
<1>9. CapErrors' = {}
  BY <1>1, <1>7 DEF CapErrors
<1>10. TypeOK'
  BY <1>1, <1>2, <1>3, <1>7 DEF TypeOK, Pending, TurnsKept
<1>11. TurnsAreCounted'
  BY <1>1, <1>3, <1>4, <1>8 DEF TurnsAreCounted
<1>12. EventCount < config.max_tool_calls /\ Len(calls) <= EventCount
  BY <1>4, <1>7 DEF Pending, EventCount, TypeOK
<1>13. MachineCounts'
  BY <1>1, <1>3, <1>4, <1>7, <1>8, <1>9, <1>12 DEF MachineCounts, Pending
<1>14. PhaseAgrees' /\ RecordAccepted' /\ ErrorsAreHonest' /\ StopTellsTheEnd'
  <2>1. \A i \in DOMAIN errors' : errors'[i].recoverable
    BY <1>1, <1>3, ErrorsAreRecoverable
  <2>2. ErrorsAreHonest'
    BY <1>1, <2>1 DEF ErrorsAreHonest
  <2>. QED
    BY <1>1, <1>4, <1>7, <2>2 DEF PhaseAgrees, RecordAccepted, StopTellsTheEnd, Pending
<1>. QED
  BY <1>8, <1>10, <1>11, <1>13, <1>14 DEF LoopInv

(* What holds while a tool runs.                                            *)
LEMMA ExecutingFacts ==
    ASSUME LoopInv, pc = "executing"
    PROVE  /\ TypeOK /\ AttemptsAreTurns
           /\ Pending(machine)
           /\ CapErrors = {}
           /\ ~machine.cap_error
           /\ machine.call = Len(calls)
           /\ EventCount < config.max_tool_calls
           /\ Len(turns) = EventCount + 1 /\ turns[EventCount + 1].tool
           /\ EventCount \in Nat /\ Len(calls) \in Nat /\ Len(errors) \in Nat
           /\ generated \in Nat /\ config.max_tool_calls \in Nat
           /\ stop = None /\ ~answered
<1>1. /\ EventCount \in Nat /\ Len(calls) \in Nat /\ Len(errors) \in Nat
      /\ config.max_tool_calls \in Nat
      /\ TypeOK /\ AttemptsAreTurns /\ MachineCounts /\ TurnsAreCounted
      /\ machine \in AgentState
  BY ConfigsAssumption DEF LoopInv, TypeOK, EventCount, Config
<1>2. machine.phase = "awaiting_tool_response" /\ stop = None /\ ~answered
  BY DEF LoopInv, PhaseAgrees
<1>3. /\ machine.attempts = EventCount + 1
      /\ EventCount < config.max_tool_calls
      /\ machine.attempt = EventCount
      /\ machine.call = Len(calls)
      /\ ~machine.cap_error
      /\ CapErrors = {}
      /\ machine.successes = Len(calls)
      /\ machine.reason = None
  BY <1>1, <1>2 DEF MachineCounts
<1>4. ~ (EventCount >= config.max_tool_calls) /\ EventCount <= config.max_tool_calls
  BY <1>1, <1>3
<1>5. Len(turns) = EventCount + 1 /\ turns[EventCount + 1].tool
  BY <1>1 DEF TurnsAreCounted
<1>6. generated \in Nat
  BY <1>1 DEF TypeOK
<1>. QED
  BY <1>1, <1>2, <1>3, <1>4, <1>5, <1>6 DEF Pending

LEMMA ToolFailsInv ==
    ASSUME LoopInv, ToolFails
    PROVE  LoopInv'
<1>1. /\ pc = "executing"
      /\ config' = config /\ generated' = generated /\ turns' = turns
      /\ calls' = calls /\ answered' = answered
      /\ Respond(machine, "execution_failed", Len(turns) - 1, generated)
  BY DEF ToolFails
<1>2. TurnsKept
  BY <1>1, ExecutingFacts DEF TurnsKept, TypeOK
<1>3. Respond(machine, "execution_failed", EventCount, generated)
  <2>1. Len(turns) - 1 = EventCount
    BY <1>1, ExecutingFacts
  <2>. QED
    BY <1>1, <2>1
<1>4. Len(turns') = EventCount + 1 /\ turns'[EventCount + 1].tool
  BY <1>1, ExecutingFacts
<1>5. "execution_failed" = "limit_exceeded" <=> machine.cap_error
  BY <1>1, ExecutingFacts
<1>. DEFINE code == "execution_failed"
<1>6. /\ code \in {"limit_exceeded", "parse", "not_enabled", "execution_failed"}
      /\ code = "limit_exceeded" <=> machine.cap_error
      /\ Respond(machine, code, EventCount, generated)
  BY <1>3, <1>5
<1>. HIDE DEF code
<1>7. /\ CapErrors = {} /\ stop = None /\ ~answered
      /\ Pending(machine)
      /\ generated \in Nat /\ generated' \in Nat
  BY <1>1, ExecutingFacts
<1>. QED
  BY <1>1, <1>2, <1>4, <1>6, <1>7, RespondInv

LEMMA ToolRespondsInv ==
    ASSUME LoopInv, ToolResponds
    PROVE  LoopInv'
<1>. DEFINE c == [call |-> machine.call, attempt |-> machine.attempt, turn |-> Len(turns) - 1]
            max == config.max_tool_calls
<1>1. /\ pc = "executing"
      /\ calls' = Append(calls, c)
      /\ machine' \in Apply(machine, "tool_response")
      /\ Continue(generated)
      /\ config' = config /\ generated' = generated /\ turns' = turns
      /\ errors' = errors /\ answered' = answered
  BY DEF ToolResponds
<1>2. /\ TypeOK /\ AttemptsAreTurns /\ CapErrors = {}
      /\ machine \in AgentState
      /\ machine.attempts = EventCount + 1
      /\ machine.attempt = EventCount
      /\ machine.successes = Len(calls)
      /\ machine.reason = None
      /\ machine.call = Len(calls)
      /\ EventCount < max
      /\ Len(turns) = EventCount + 1 /\ turns[EventCount + 1].tool
      /\ EventCount \in Nat /\ Len(calls) \in Nat /\ Len(errors) \in Nat
      /\ generated \in Nat /\ max \in Nat
      /\ stop = None /\ ~answered
  BY <1>1, ExecutingFacts DEF Pending
<1>3. /\ c \in CallRecord
      /\ c.call = Len(calls) /\ c.attempt = EventCount /\ c.turn = EventCount
  BY <1>2 DEF CallRecord
<1>4. TurnsKept
  BY <1>1, <1>2 DEF TurnsKept, TypeOK
<1>. HIDE DEF c
<1>5. AttemptsAreTurns' /\ EventCount' = EventCount + 1
  BY <1>1, <1>2, <1>3, <1>4, AddCall
<1>6. calls' \in Seq(CallRecord) /\ Len(calls') = Len(calls) + 1
  BY <1>1, <1>2, <1>3 DEF TypeOK
<1>7. machine' = [Settled(machine, "awaiting_assistant") EXCEPT !.successes = @ + 1]
  BY <1>1, <1>2, ApplyResponse
<1>8. /\ machine' \in AgentState
      /\ machine'.phase = "awaiting_assistant"
      /\ machine'.attempts = machine.attempts
      /\ machine'.successes = machine.successes + 1
      /\ machine'.reason = machine.reason
  BY <1>2, <1>7, SettledType DEF AgentState
<1>9. \/ pc' = "sampling" /\ stop' = None
      \/ pc' = "done" /\ stop' = "max_tokens"
  BY <1>1, <1>2, ContinueOutcomes
<1>10. TypeOK'
  <2>1. pc' \in {"sampling", "done"} /\ stop' \in Stops \cup {None}
    BY <1>9, NoneIsNoStop
  <2>. QED
    BY <1>1, <1>2, <1>6, <1>8, <2>1 DEF TypeOK
<1>11. TurnsAreCounted'
  BY <1>1, <1>2, <1>5, <1>9 DEF TurnsAreCounted
<1>12. MachineCounts'
  <2>1. CapErrors' = {}
    BY <1>1, <1>2 DEF CapErrors
  <2>2. Len(calls) <= EventCount
    BY <1>2 DEF EventCount
  <2>. QED
    BY <1>1, <1>2, <1>5, <1>6, <1>8, <2>1, <2>2 DEF MachineCounts
<1>13. PhaseAgrees'
  BY <1>1, <1>2, <1>8, <1>9 DEF PhaseAgrees
<1>14. RecordAccepted'
  <2>1. EventsInOrder'
    BY <1>5, <1>10, EventsAreInOrder
  <2>. QED
    BY <1>9, <2>1, NoneIsNoStop DEF RecordAccepted, RecordValid
<1>15. ErrorsAreHonest'
  <2>1. \A i \in DOMAIN errors' : errors'[i].turn # Len(turns') - 1
    <3>1. \A i \in DOMAIN errors : errors[i].turn < EventCount /\ errors[i].turn \in Nat
      BY <1>2, EventsAreOld
    <3>. QED
      BY <1>1, <1>2, <3>1
  <2>2. \A i \in DOMAIN errors' : errors'[i].recoverable
    BY <1>1, ErrorsAreRecoverable
  <2>. QED
    BY <2>1, <2>2 DEF ErrorsAreHonest
<1>16. StopTellsTheEnd'
  BY <1>2, <1>8, <1>9, NoneIsNoStop DEF StopTellsTheEnd
<1>. QED
  BY <1>5, <1>10, <1>11, <1>12, <1>13, <1>14, <1>15, <1>16 DEF LoopInv

(* An exception leaves everything as it was.                                *)
LEMMA CrashInv ==
    ASSUME LoopInv, Crash
    PROVE  LoopInv'
<1>1. /\ pc' = "crashed" /\ machine' = machine /\ generated' = generated /\ config' = config
      /\ turns' = turns /\ calls' = calls /\ errors' = errors
      /\ answered' = answered /\ stop' = stop
  BY DEF Crash, record
<1>2. TypeOK'
  BY <1>1 DEF LoopInv, TypeOK
<1>3. Attempts' = Attempts /\ EventCount' = EventCount /\ CapErrors' = CapErrors
  BY <1>1 DEF Attempts, Elements, EventCount, CapErrors
<1>4. AttemptsAreTurns' /\ TurnsAreCounted' /\ MachineCounts'
  BY <1>1, <1>3 DEF LoopInv, AttemptsAreTurns, TurnsAreCounted, MachineCounts
<1>5. pc # "done" /\ machine.phase # "terminated" /\ stop = None
  BY DEF Crash, LoopInv, PhaseAgrees
<1>6. \A i \in DOMAIN errors' : errors'[i].recoverable
  BY <1>1, <1>5, ErrorsAreRecoverable
<1>7. ErrorsAreHonest'
  BY <1>1, <1>6 DEF ErrorsAreHonest
<1>8. PhaseAgrees' /\ RecordAccepted' /\ StopTellsTheEnd'
  BY <1>1, <1>5, NoneIsNoStop DEF LoopInv, PhaseAgrees, RecordAccepted, StopTellsTheEnd
<1>. QED
  BY <1>2, <1>4, <1>7, <1>8 DEF LoopInv

LEMMA StutterInv ==
    ASSUME LoopInv, UNCHANGED vars
    PROVE  LoopInv'
<1>1. /\ pc' = pc /\ machine' = machine /\ generated' = generated /\ config' = config
      /\ turns' = turns /\ calls' = calls /\ errors' = errors
      /\ answered' = answered /\ stop' = stop
  BY DEF vars
<1>2. Attempts' = Attempts /\ EventCount' = EventCount /\ CapErrors' = CapErrors
  BY <1>1 DEF Attempts, Elements, EventCount, CapErrors
<1>3. AttemptsAreTurns' /\ TurnsAreCounted' /\ MachineCounts' /\ PhaseAgrees' /\ TypeOK'
  BY <1>1, <1>2 DEF LoopInv, TypeOK, AttemptsAreTurns, TurnsAreCounted, MachineCounts, PhaseAgrees
<1>4. RecordValid' <=> RecordValid
  BY <1>1, <1>2 DEF RecordValid, EventsInOrder, CapRecoveryRetry
<1>5. RecordAccepted' /\ ErrorsAreHonest' /\ StopTellsTheEnd'
  BY <1>1, <1>4 DEF LoopInv, RecordAccepted, ErrorsAreHonest, StopTellsTheEnd
<1>. QED
  BY <1>3, <1>5 DEF LoopInv

LEMMA InitLoopInv == Init => LoopInv
<1>. SUFFICES ASSUME Init PROVE LoopInv
  OBVIOUS
<1>1. /\ config \in Configs /\ config.max_tool_calls \in Nat
      /\ machine = InitialState /\ pc = "sampling" /\ generated = 0
      /\ turns = <<>> /\ calls = <<>> /\ errors = <<>>
      /\ answered = FALSE /\ stop = None
  BY ConfigsAssumption DEF Init, Config
<1>2. TypeOK
  <2>1. machine \in AgentState
    BY <1>1 DEF InitialState, AgentState, Index
  <2>2. turns \in Seq(Turn) /\ calls \in Seq(CallRecord) /\ errors \in Seq(ErrorRecord)
    BY <1>1
  <2>3. answered \in BOOLEAN /\ stop \in Stops \cup {None}
    BY <1>1
  <2>. QED
    BY <1>1, <2>1, <2>2, <2>3 DEF TypeOK
<1>3. /\ Attempts = {} /\ EventCount = 0 /\ CapErrors = {}
      /\ Len(turns) = 0 /\ Len(calls) = 0 /\ Len(errors) = 0
  BY <1>1 DEF Attempts, Elements, EventCount, CapErrors
<1>4. AttemptsAreTurns /\ TurnsAreCounted
  BY <1>1, <1>3 DEF AttemptsAreTurns, TurnsAreCounted
<1>5. MachineCounts
  BY <1>1, <1>3 DEF MachineCounts, InitialState
<1>6. PhaseAgrees /\ RecordAccepted /\ ErrorsAreHonest /\ StopTellsTheEnd
  BY <1>1 DEF PhaseAgrees, RecordAccepted, ErrorsAreHonest, StopTellsTheEnd, InitialState
<1>. QED
  BY <1>2, <1>4, <1>5, <1>6 DEF LoopInv

-----------------------------------------------------------------------------
(* The invariant of the loop, for any caps, budgets, turns and tools.       *)
THEOREM LoopInvariant == Spec => []LoopInv
<1>1. LoopInv /\ [Next]_vars => LoopInv'
  <2>. SUFFICES ASSUME LoopInv, [Next]_vars
                PROVE  LoopInv'
    OBVIOUS
  <2>1. ASSUME NEW t \in Sampled, SampleForbiddenTool(t) PROVE LoopInv'
    BY <2>1, ForbiddenToolInv
  <2>2. ASSUME NEW t \in Sampled, SampleFinal(t) PROVE LoopInv'
    BY <2>2, FinalInv
  <2>3. ASSUME NEW t \in Sampled, SampleRefused(t) PROVE LoopInv'
    BY <2>3, RefusedInv
  <2>4. ASSUME NEW t \in Sampled, SampleAfterCap(t) PROVE LoopInv'
    BY <2>4, AfterCapInv
  <2>5. ASSUME NEW t \in Sampled, SampleCall(t) PROVE LoopInv'
    BY <2>5, CallInv
  <2>6. CASE ToolResponds
    BY <2>6, ToolRespondsInv
  <2>7. CASE ToolFails
    BY <2>7, ToolFailsInv
  <2>8. CASE Crash
    BY <2>8, CrashInv
  <2>9. CASE UNCHANGED vars
    BY <2>9, StutterInv
  <2>. QED
    BY <2>1, <2>2, <2>3, <2>4, <2>5, <2>6, <2>7, <2>8, <2>9 DEF Next, Step
<1>. QED
  BY <1>1, InitLoopInv, PTL DEF Spec

(* The loop's variables stay well-typed.                                    *)
THEOREM LoopTypeCorrect == Spec => []TypeOK
<1>1. LoopInv => TypeOK
  BY DEF LoopInv
<1>. QED
  BY <1>1, LoopInvariant, PTL

(* Whatever is sampled and whatever fails, a completed record passes the    *)
(* validator's conditions on its shape.                                     *)
THEOREM RecordsAreAccepted == Spec => []RecordAccepted
<1>1. LoopInv => RecordAccepted
  BY DEF LoopInv
<1>. QED
  BY <1>1, LoopInvariant, PTL

(* A tool is called with as many handles as its call index says.            *)
THEOREM ContextsAreValid == Spec => []ContextIsValid
<1>1. LoopInv => ContextIsValid
  <2>. SUFFICES ASSUME LoopInv, pc = "executing"
                PROVE  machine.call = Len(calls) /\ machine.attempt = Len(calls) + Len(errors)
    BY DEF ContextIsValid
  <2>. QED
    BY ExecutingFacts DEF Pending, EventCount
<1>. QED
  BY <1>1, LoopInvariant, PTL

(* The cap bounds calls, attempts and turns.                                *)
THEOREM CapIsHeld == Spec => []CapHolds
<1>1. LoopInv => CapHolds
  <2>. SUFFICES ASSUME LoopInv PROVE CapHolds
    OBVIOUS
  <2>1. /\ config.max_tool_calls \in Nat
        /\ EventCount \in Nat /\ Len(turns) \in Nat /\ Len(calls) \in Nat
    BY ConfigsAssumption DEF LoopInv, TypeOK, Config, EventCount
  <2>2. /\ Len(calls) <= config.max_tool_calls
        /\ EventCount <= config.max_tool_calls + 1
        /\ Len(turns) <= EventCount + 1
    BY DEF LoopInv, MachineCounts, TurnsAreCounted
  <2>. QED
    BY <2>1, <2>2 DEF CapHolds, EventCount
<1>. QED
  BY <1>1, LoopInvariant, PTL

(* After an error that is not recoverable nothing is sampled: it is of the  *)
(* last turn, and the trajectory has stopped at its cap.  One that is       *)
(* recoverable ends a trajectory only when the token budget is spent.       *)
THEOREM ErrorsTellTheTruth == Spec => []ErrorsAreHonest
<1>1. LoopInv => ErrorsAreHonest
  BY DEF LoopInv
<1>. QED
  BY <1>1, LoopInvariant, PTL

(* The recorded stop and the machine's terminal reason agree, and a machine *)
(* that has terminated has left a stop behind.                              *)
THEOREM StopsAgree == Spec => []StopTellsTheEnd
<1>1. LoopInv => StopTellsTheEnd
  BY DEF LoopInv
<1>. QED
  BY <1>1, LoopInvariant, PTL

-----------------------------------------------------------------------------
(* The machine's states satisfy their own checks.                           *)
LEMMA BegunValid ==
    ASSUME TypeOK, StateIsValid(machine), machine.phase # "terminated", NEW parsed \in BOOLEAN
    PROVE  StateIsValid(Begun(machine, parsed)) /\ Begun(machine, parsed) \in AgentState
<1>1. machine \in AgentState /\ config.max_tool_calls \in Nat
  BY ConfigsAssumption DEF TypeOK, Config
<1>. DEFINE over == machine.attempts >= config.max_tool_calls
            call == IF parsed /\ ~over THEN machine.successes ELSE None
            s == Begun(machine, parsed)
<1>2. /\ s.phase = "awaiting_tool_response"
      /\ s.attempts = machine.attempts + 1
      /\ s.successes = machine.successes
      /\ s.attempt = machine.attempts
      /\ s.call = call
      /\ s.cap_error <=> over
      /\ s.reason = machine.reason
  BY <1>1 DEF Begun, AgentState
<1>3. machine.attempts # None /\ machine.attempts \in Nat /\ machine.successes \in Nat
  BY <1>1, NoneAssumption DEF AgentState
<1>4. machine.reason = None /\ machine.successes <= machine.attempts
  BY DEF StateIsValid
<1>5. over => call = None
  OBVIOUS
<1>. HIDE DEF over, call, s
<1>6. StateIsValid(s)
  BY <1>2, <1>3, <1>4, <1>5 DEF StateIsValid
<1>. QED
  BY <1>6, BegunType DEF s

LEMMA SettledValid ==
    ASSUME NEW s \in AgentState, StateIsValid(s), s.phase # "terminated",
           NEW phase \in {"awaiting_assistant", "awaiting_final_answer"}
    PROVE  StateIsValid(Settled(s, phase))
  BY DEF Settled, AgentState, StateIsValid

LEMMA TerminatedValid ==
    ASSUME NEW s \in AgentState, StateIsValid(s),
           NEW reason \in {"final_answer", "timeout", "tool_call_cap"}
    PROVE  StateIsValid(Terminated(s, reason))
<1>1. reason # None
  BY NoneIsNoStop
<1>. QED
  BY <1>1 DEF Terminated, Settled, AgentState, StateIsValid

LEMMA ErrorValid ==
    ASSUME NEW s \in AgentState, StateIsValid(s), NEW next \in Apply(s, "tool_error")
    PROVE  StateIsValid(next)
  BY ApplyError, SettledValid, TerminatedValid

LEMMA ActionValid ==
    ASSUME TypeOK, StateIsValid(machine), NEW event \in Actions, NEW next \in Apply(machine, event)
    PROVE  StateIsValid(next) /\ next \in AgentState
<1>1. machine \in AgentState
  BY DEF TypeOK
<1>. QED
  BY <1>1, ApplyAction, BegunValid, TerminatedValid, TerminatedType

(* A successful response needs an attempt that was counted before.          *)
LEMMA ResponseValid ==
    ASSUME LoopInv, pc = "executing", StateIsValid(machine),
           NEW next \in Apply(machine, "tool_response")
    PROVE  StateIsValid(next)
<1>1. /\ machine \in AgentState
      /\ machine.successes + 1 <= machine.attempts
      /\ machine.phase = "awaiting_tool_response"
  BY ExecutingFacts DEF Pending, EventCount, TypeOK
<1>2. next = [Settled(machine, "awaiting_assistant") EXCEPT !.successes = @ + 1]
  BY <1>1, ApplyResponse
<1>3. /\ Settled(machine, "awaiting_assistant") \in AgentState
      /\ StateIsValid(Settled(machine, "awaiting_assistant"))
      /\ Settled(machine, "awaiting_assistant").attempts = machine.attempts
      /\ Settled(machine, "awaiting_assistant").successes = machine.successes
  BY <1>1, SettledValid, SettledType
<1>. DEFINE s == Settled(machine, "awaiting_assistant")
<1>4. next = [s EXCEPT !.successes = s.successes + 1]
  BY <1>2
<1>. HIDE DEF s
<1>5. s \in AgentState /\ StateIsValid(s) /\ s.successes + 1 <= s.attempts
  BY <1>1, <1>3 DEF s
<1>. QED
  BY <1>4, <1>5 DEF AgentState, StateIsValid

(* The strengthening of the loop's invariant: budget and well-formed states. *)
ProgressInv ==
    /\ LoopInv
    /\ StateIsValid(machine)
    /\ Budgeted

LEMMA InitProgressInv == Init => ProgressInv
<1>. SUFFICES ASSUME Init PROVE ProgressInv
  OBVIOUS
<1>1. config.max_response_length \in Nat
  BY ConfigsAssumption DEF Init, Config
<1>2. StateIsValid(machine)
  BY DEF Init, InitialState, StateIsValid
<1>3. Budgeted
  BY <1>1 DEF Init, Budgeted, HasBudget
<1>. QED
  BY <1>2, <1>3, InitLoopInv DEF ProgressInv

(* What a turn adds stays within the budget, and the head of the loop        *)
(* notices when it is spent.                                                 *)
LEMMA ContinueBudgeted ==
    ASSUME config' = config, config \in Config, NEW used \in Nat, Continue(used),
           generated' = used, HasBudget => used <= config.max_response_length
    PROVE  Budgeted'
<1>1. HasBudget' <=> HasBudget
  BY DEF HasBudget
<1>2. config.max_response_length \in Nat
  BY DEF Config
<1>. QED
  BY <1>1, <1>2 DEF Continue, Finish, Budgeted

LEMMA StoppedBudgeted ==
    ASSUME config' = config, pc' # "sampling", HasBudget => generated' <= config.max_response_length
    PROVE  Budgeted'
<1>1. HasBudget' <=> HasBudget
  BY DEF HasBudget
<1>. QED
  BY <1>1 DEF Budgeted

LEMMA ReceiveBudgeted ==
    ASSUME TypeOK, NEW t \in Sampled, Receive(t)
    PROVE  /\ HasBudget => generated' <= config.max_response_length
           /\ generated' \in Nat /\ config' = config /\ config \in Config
<1>1. generated' \in Nat /\ config' = config
  BY ReceiveTurn
<1>2. config \in Config
  BY ConfigsAssumption DEF TypeOK
<1>3. HasBudget => generated' = generated + t.tokens
  BY DEF Receive
<1>. QED
  BY <1>1, <1>2, <1>3 DEF Receive

LEMMA RespondBudgeted ==
    ASSUME NEW s, NEW code, NEW turn, NEW used \in Nat, Respond(s, code, turn, used),
           config' = config, config \in Config, generated' = used,
           HasBudget => used <= config.max_response_length
    PROVE  Budgeted'
<1>1. PICK next \in Apply(s, "tool_error") :
         IF next.phase = "terminated" THEN Finish("call_cap") ELSE Continue(used)
  BY DEF Respond
<1>2. CASE Finish("call_cap")
  BY <1>2, StoppedBudgeted DEF Finish
<1>3. CASE Continue(used)
  BY <1>3, ContinueBudgeted
<1>. QED
  BY <1>1, <1>2, <1>3

LEMMA StepProgressInv ==
    ASSUME ProgressInv, [Next]_vars
    PROVE  StateIsValid(machine)' /\ Budgeted'
<1>1. /\ LoopInv /\ TypeOK /\ Budgeted /\ StateIsValid(machine)
      /\ config \in Config /\ machine \in AgentState /\ generated \in Nat
  BY ConfigsAssumption DEF ProgressInv, LoopInv, TypeOK
<1>k. ASSUME machine' = machine PROVE StateIsValid(machine)'
  BY <1>1, <1>k
<1>2. ASSUME NEW t \in Sampled, SampleForbiddenTool(t) \/ SampleFinal(t)
      PROVE  StateIsValid(machine)' /\ Budgeted'
  <2>1. Receive(t) /\ pc' = "done"
    BY <1>2 DEF SampleForbiddenTool, SampleFinal, Finish
  <2>2. Budgeted'
    BY <1>1, <2>1, ReceiveBudgeted, StoppedBudgeted
  <2>3. machine' = machine \/ machine' \in Apply(machine, "final_answer")
    BY <1>2 DEF SampleForbiddenTool, SampleFinal
  <2>4. StateIsValid(machine')
    BY <1>1, <2>3, ApplyFinal, TerminatedValid
  <2>. QED
    BY <2>2, <2>4
<1>3. ASSUME NEW t \in Sampled, SampleRefused(t)
      PROVE  StateIsValid(machine)' /\ Budgeted'
  <2>1. Receive(t) /\ EventOf(t) \in Actions
    BY <1>3 DEF SampleRefused, EventOf, Actions
  <2>2. PICK begun \in Apply(machine, EventOf(t)) :
           Respond(begun, CodeOf(begun, t), LastTurn, generated')
    BY <1>3 DEF SampleRefused
  <2>3. begun \in AgentState /\ StateIsValid(begun)
    BY <1>1, <2>1, ActionValid
  <2>4. machine' \in Apply(begun, "tool_error")
    BY <2>2 DEF Respond
  <2>5. StateIsValid(machine')
    BY <2>3, <2>4, ErrorValid
  <2>6. Budgeted'
    BY <1>1, <2>1, <2>2, ReceiveBudgeted, RespondBudgeted
  <2>. QED
    BY <2>5, <2>6
<1>4. ASSUME NEW t \in Sampled, SampleAfterCap(t) \/ SampleCall(t)
      PROVE  StateIsValid(machine)' /\ Budgeted'
  <2>1. Receive(t) /\ EventOf(t) \in Actions /\ pc' # "sampling"
    BY <1>4 DEF SampleAfterCap, SampleCall, Finish, EventOf, Actions
  <2>2. machine' \in Apply(machine, EventOf(t))
    BY <1>4 DEF SampleAfterCap, SampleCall
  <2>3. StateIsValid(machine')
    BY <1>1, <2>1, <2>2, ActionValid
  <2>4. Budgeted'
    BY <1>1, <2>1, ReceiveBudgeted, StoppedBudgeted
  <2>. QED
    BY <2>3, <2>4
<1>5. ASSUME ToolResponds
      PROVE  StateIsValid(machine)' /\ Budgeted'
  <2>1. /\ pc = "executing" /\ machine' \in Apply(machine, "tool_response")
        /\ Continue(generated) /\ config' = config /\ generated' = generated
    BY <1>5 DEF ToolResponds
  <2>2. StateIsValid(machine')
    BY <1>1, <2>1, ResponseValid
  <2>3. Budgeted'
    BY <1>1, <2>1, ContinueBudgeted DEF Budgeted
  <2>. QED
    BY <2>2, <2>3
<1>6. ASSUME ToolFails
      PROVE  StateIsValid(machine)' /\ Budgeted'
  <2>1. /\ Respond(machine, "execution_failed", Len(turns) - 1, generated)
        /\ config' = config /\ generated' = generated
    BY <1>6 DEF ToolFails
  <2>2. machine' \in Apply(machine, "tool_error")
    BY <2>1 DEF Respond
  <2>3. StateIsValid(machine')
    BY <1>1, <2>2, ErrorValid
  <2>4. Budgeted'
    BY <1>1, <2>1, RespondBudgeted DEF Budgeted
  <2>. QED
    BY <2>3, <2>4
<1>7. ASSUME Crash
      PROVE  StateIsValid(machine)' /\ Budgeted'
  BY <1>1, <1>7, <1>k, StoppedBudgeted DEF Crash, Budgeted
<1>8. ASSUME UNCHANGED vars
      PROVE  StateIsValid(machine)' /\ Budgeted'
  BY <1>1, <1>8, <1>k DEF vars, Budgeted, HasBudget
<1>. QED
  BY <1>2, <1>3, <1>4, <1>5, <1>6, <1>7, <1>8 DEF Next, Step

THEOREM ProgressInvariant == Spec => []ProgressInv
<1>1. ProgressInv /\ LoopInv' /\ [Next]_vars => ProgressInv'
  BY StepProgressInv DEF ProgressInv
<1>. QED
  BY <1>1, InitProgressInv, LoopInvariant, PTL DEF Spec

-----------------------------------------------------------------------------
(* The transitions the loop may ask for exist.                              *)
LEMMA ActionsApply ==
    ASSUME TypeOK, StateIsValid(machine), machine.attempts <= config.max_tool_calls + 1,
           NEW event \in Actions
    PROVE  /\ machine.phase = "awaiting_assistant"
                => Begun(machine, event = "valid_tool_call") \in Apply(machine, event)
           /\ machine.phase = "awaiting_final_answer"
                => Terminated(machine, "tool_call_cap") \in Apply(machine, event)
           /\ machine.phase \in {"awaiting_assistant", "awaiting_final_answer"}
                => Terminated(machine, "final_answer") \in Apply(machine, "final_answer")
  BY DEF Apply, When, Actions

LEMMA ErrorsApply ==
    ASSUME NEW s, s.phase = "awaiting_tool_response", s.attempts <= config.max_tool_calls + 1,
           s.cap_error \in BOOLEAN
    PROVE  Apply(s, "tool_error") # {}
<1>1. CASE s.cap_error
  <2>1. (IF config.cap_error_behavior = "one_final_answer_turn"
         THEN Settled(s, "awaiting_final_answer")
         ELSE Terminated(s, "tool_call_cap")) \in Apply(s, "tool_error")
    BY <1>1 DEF Apply, When
  <2>. QED
    BY <2>1
<1>2. CASE ~s.cap_error
  <2>1. Settled(s, "awaiting_assistant") \in Apply(s, "tool_error")
    BY <1>2 DEF Apply, When
  <2>. QED
    BY <2>1
<1>. QED
  BY <1>1, <1>2

(* No transition the loop asks for raises, whatever the policy samples and   *)
(* however its tools end.                                                    *)
THEOREM TransitionsExist == Spec => []MachineNeverRaises
<1>1. ProgressInv => MachineNeverRaises
  <2>. SUFFICES ASSUME ProgressInv
                PROVE  MachineNeverRaises
    OBVIOUS
  <2>0. /\ LoopInv /\ TypeOK /\ StateIsValid(machine)
        /\ config.max_tool_calls \in Nat
    BY ConfigsAssumption DEF ProgressInv, LoopInv, TypeOK, Config
  <2>1. ASSUME pc = "sampling"
        PROVE  /\ Apply(machine, "final_answer") # {}
               /\ \A event \in Actions : \E next \in Apply(machine, event) :
                     /\ StateIsValid(next)
                     /\ next.phase = "awaiting_tool_response" => Apply(next, "tool_error") # {}
    <3>1. /\ machine \in AgentState
          /\ machine.phase \in {"awaiting_assistant", "awaiting_final_answer"}
          /\ machine.attempts = EventCount
          /\ EventCount \in Nat
          /\ EventCount <= config.max_tool_calls + 1
          /\ machine.phase = "awaiting_assistant" => EventCount <= config.max_tool_calls
      BY <2>0, <2>1, SamplingFacts DEF MachineCounts
    <3>2. "malformed_action" \in Actions
      BY DEF Actions
    <3>3. Apply(machine, "final_answer") # {}
      BY <2>0, <3>1, <3>2, ActionsApply
    <3>4. ASSUME NEW event \in Actions, machine.phase = "awaiting_assistant"
          PROVE  \E next \in Apply(machine, event) :
                    /\ StateIsValid(next)
                    /\ next.phase = "awaiting_tool_response" => Apply(next, "tool_error") # {}
      <4>. DEFINE next == Begun(machine, event = "valid_tool_call")
      <4>1. next \in Apply(machine, event)
        BY <2>0, <3>1, <3>4, ActionsApply
      <4>2. StateIsValid(next) /\ next \in AgentState
        BY <2>0, <3>1, BegunValid
      <4>3. next.attempts = EventCount + 1
        BY <3>1 DEF Begun, AgentState
      <4>4. next.cap_error \in BOOLEAN
        BY <4>2 DEF AgentState
      <4>5. next.phase = "awaiting_tool_response" => Apply(next, "tool_error") # {}
        <5>. HIDE DEF next
        <5>. QED
          BY <2>0, <3>1, <3>4, <4>3, <4>4, ErrorsApply
      <4>. QED
        BY <4>1, <4>2, <4>5
    <3>5. ASSUME NEW event \in Actions, machine.phase = "awaiting_final_answer"
          PROVE  \E next \in Apply(machine, event) :
                    /\ StateIsValid(next)
                    /\ next.phase = "awaiting_tool_response" => Apply(next, "tool_error") # {}
      <4>1. Terminated(machine, "tool_call_cap") \in Apply(machine, event)
        BY <2>0, <3>1, <3>5, ActionsApply
      <4>2. StateIsValid(Terminated(machine, "tool_call_cap"))
        BY <2>0, <3>1, TerminatedValid
      <4>3. Terminated(machine, "tool_call_cap").phase = "terminated"
        BY <3>1, TerminatedType
      <4>. QED
        BY <4>1, <4>2, <4>3
    <3>. QED
      BY <3>1, <3>3, <3>4, <3>5
  <2>2. ASSUME pc = "executing"
        PROVE  Apply(machine, "tool_response") # {} /\ Apply(machine, "tool_error") # {}
    <3>1. /\ machine \in AgentState
          /\ machine.phase = "awaiting_tool_response"
          /\ machine.attempts <= config.max_tool_calls + 1
          /\ machine.call # None /\ ~machine.cap_error
      BY <2>0, <2>2, ExecutingFacts, NoneAssumption DEF Pending, EventCount, TypeOK
    <3>2. [Settled(machine, "awaiting_assistant") EXCEPT !.successes = @ + 1]
             \in Apply(machine, "tool_response")
      BY <3>1 DEF Apply, When
    <3>3. Apply(machine, "tool_error") # {}
      BY <3>1, ErrorsApply DEF AgentState
    <3>. QED
      BY <3>2, <3>3
  <2>. QED
    BY <2>0, <2>1, <2>2 DEF MachineNeverRaises
<1>. QED
  BY <1>1, ProgressInvariant, PTL

(* The sampling contract never finds its budget exhausted.                   *)
THEOREM BudgetsRemain == Spec => []BudgetRemains
<1>1. ProgressInv => BudgetRemains
  BY DEF ProgressInv, Budgeted, BudgetRemains
<1>. QED
  BY <1>1, ProgressInvariant, PTL

-----------------------------------------------------------------------------
(* Where a step goes and whether it adds a turn.                             *)
LEMMA RespondGoes ==
    ASSUME NEW s, NEW code, NEW turn, NEW used, Respond(s, code, turn, used)
    PROVE  pc' \in {"sampling", "done"}
  BY DEF Respond, Finish, Continue

LEMMA StepShape ==
    ASSUME TypeOK, Next
    PROVE  /\ config' = config
           /\ \/ /\ pc = "sampling"
                 /\ pc' \in {"sampling", "executing", "done"}
                 /\ Len(turns') = Len(turns) + 1
              \/ pc = "executing" /\ pc' \in {"sampling", "done"} /\ turns' = turns
              \/ pc \in {"sampling", "executing"} /\ pc' = "crashed" /\ turns' = turns
<1>1. ASSUME NEW t \in Sampled,
             \/ SampleForbiddenTool(t)
             \/ SampleFinal(t)
             \/ SampleRefused(t)
             \/ SampleAfterCap(t)
             \/ SampleCall(t)
      PROVE  /\ config' = config /\ pc = "sampling"
             /\ pc' \in {"sampling", "executing", "done"}
             /\ Len(turns') = Len(turns) + 1
  <2>1. Receive(t)
    BY <1>1 DEF SampleForbiddenTool, SampleFinal, SampleRefused, SampleAfterCap, SampleCall
  <2>2. pc' \in {"sampling", "executing", "done"}
    <3>1. ASSUME SampleRefused(t) PROVE pc' \in {"sampling", "done"}
      BY <3>1, RespondGoes DEF SampleRefused
    <3>. QED
      BY <1>1, <3>1 DEF SampleForbiddenTool, SampleFinal, SampleAfterCap, SampleCall, Finish
  <2>. QED
    BY <2>1, <2>2, ReceiveTurn
<1>2. ASSUME ToolResponds \/ ToolFails
      PROVE  /\ config' = config /\ pc = "executing"
             /\ pc' \in {"sampling", "done"} /\ turns' = turns
  <2>1. ASSUME ToolFails PROVE pc' \in {"sampling", "done"}
    BY <2>1, RespondGoes DEF ToolFails
  <2>. QED
    BY <1>2, <2>1 DEF ToolResponds, ToolFails, Continue, Finish
<1>3. ASSUME Crash
      PROVE  /\ config' = config /\ pc \in {"sampling", "executing"}
             /\ pc' = "crashed" /\ turns' = turns
  BY <1>3 DEF Crash, record
<1>. QED
  BY <1>1, <1>2, <1>3 DEF Next, Step

(* A trajectory takes a bounded number of steps, for every cap and budget:   *)
(* it can only stay unfinished by waiting for a sampler or a tool.           *)
THEOREM TrajectoriesAreBounded == Spec => StepsAreBounded
<1>1. LoopInv /\ CapHolds' /\ TypeOK' /\ [Next]_vars => [StepsLeft' \in 0 .. StepsLeft - 1]_vars
  <2>. SUFFICES ASSUME LoopInv, CapHolds', TypeOK', Next
                PROVE  StepsLeft' \in 0 .. StepsLeft - 1
    OBVIOUS
  <2>1. /\ config.max_tool_calls \in Nat /\ config' = config
        /\ Len(turns) \in Nat /\ Len(turns') \in Nat
    BY StepShape, ConfigsAssumption DEF LoopInv, TypeOK, Config
  <2>2. Len(turns') <= config.max_tool_calls + 2
    BY <2>1 DEF CapHolds
  <2>3. \/ pc = "sampling" /\ pc' \in {"sampling", "executing", "done"} /\ Len(turns') = Len(turns) + 1
        \/ pc = "executing" /\ pc' \in {"sampling", "done"} /\ Len(turns') = Len(turns)
        \/ pc \in {"sampling", "executing"} /\ pc' = "crashed" /\ Len(turns') = Len(turns)
    BY StepShape DEF LoopInv
  <2>. DEFINE left == 2 * (config.max_tool_calls + 2 - Len(turns))
              left2 == 2 * (config.max_tool_calls + 2 - Len(turns'))
  <2>4. /\ StepsLeft = left + (CASE pc = "sampling" -> 1 [] pc = "executing" -> 2 [] OTHER -> 0)
        /\ StepsLeft' = left2 + (CASE pc' = "sampling" -> 1 [] pc' = "executing" -> 2 [] OTHER -> 0)
    BY <2>1 DEF StepsLeft
  <2>5. /\ left2 >= 0 /\ left2 \in Nat
        /\ Len(turns') = Len(turns) => left = left2
        /\ Len(turns') = Len(turns) + 1 => left = left2 + 2
    BY <2>1, <2>2
  <2>. HIDE DEF left, left2
  <2>6. CASE pc = "sampling" /\ pc' \in {"sampling", "executing", "done"} /\ Len(turns') = Len(turns) + 1
    BY <2>4, <2>5, <2>6
  <2>7. CASE pc = "executing" /\ pc' \in {"sampling", "done"} /\ Len(turns') = Len(turns)
    BY <2>4, <2>5, <2>7
  <2>8. CASE pc \in {"sampling", "executing"} /\ pc' = "crashed" /\ Len(turns') = Len(turns)
    BY <2>4, <2>5, <2>8
  <2>. QED
    BY <2>3, <2>6, <2>7, <2>8
<1>. QED
  BY <1>1, CapIsHeld, LoopInvariant, LoopTypeCorrect, PTL DEF Spec, StepsAreBounded

=============================================================================
