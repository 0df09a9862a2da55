---------------------------- MODULE ProviderCircuits ----------------------------
(***************************************************************************)
(* Two circuit breakers: LLMCircuitBreaker, here for one provider (each    *)
(* has a circuit of its own), and the CircuitBreaker around calls of cloud *)
(* services.  Both are shared by all callers of a process, and a call that *)
(* was admitted returns in whatever state the circuit is by then.  Counts  *)
(* saturate at their thresholds, ages at the recovery time.                *)
(***************************************************************************)
EXTENDS Integers

CONSTANTS
  CircuitCallers,    \* concurrent callers
  FailureThreshold,  \* failure_threshold
  SuccessThreshold,  \* success_threshold
  RecoveryTime       \* recovery_timeout

ASSUME CircuitAssumption ==
  FailureThreshold \in Nat \ {0} /\ SuccessThreshold \in Nat \ {0} /\ RecoveryTime \in Nat

VARIABLES
  circuit,   \* LLM: [state, failures, successes, age]; age: time since last_failure_time
  asking,    \* LLM: the callers whose call is admitted
  streak,    \* history: successes since the last failure or reset
  breaker,   \* cloud: [state, failures, age]
  calling    \* cloud: the callers whose call is admitted

circuitVars == <<circuit, asking, streak, breaker, calling>>

States == {"closed", "open", "half_open"}
Least(a, b) == IF a < b THEN a ELSE b
NewCircuit == [state |-> "closed", failures |-> 0, successes |-> 0, age |-> 0]

CircuitTypeOK ==
  /\ circuit \in [state : States, failures : 0..FailureThreshold,
                  successes : 0..SuccessThreshold, age : 0..RecoveryTime]
  /\ breaker \in [state : States, failures : 0..FailureThreshold, age : 0..RecoveryTime]
  /\ asking \subseteq CircuitCallers /\ calling \subseteq CircuitCallers
  /\ streak \in 0..SuccessThreshold

CircuitInit ==
  /\ circuit = NewCircuit
  /\ breaker = [state |-> "closed", failures |-> 0, age |-> 0]
  /\ asking = {} /\ calling = {} /\ streak = 0

cloudVars == <<breaker, calling>>
llmCircuitVars == <<circuit, asking, streak>>

-----------------------------------------------------------------------------
Rested(c) == c.age = RecoveryTime

\* protect, is_available: HALF_OPEN admits everyone, not the one request of its comment.
\* A caller that is refused goes elsewhere.
Ask(c) ==
  /\ c \notin asking
  /\ circuit.state = "open" => Rested(circuit)
  /\ circuit' = [circuit EXCEPT !.state = IF @ = "open" THEN "half_open" ELSE @]
  /\ asking' = asking \cup {c}
  /\ UNCHANGED <<streak, cloudVars>>

\* record_success: successes are counted in every state.
Succeed(c) ==
  /\ c \in asking
  /\ LET n == Least(circuit.successes + 1, SuccessThreshold) IN
     circuit' = CASE circuit.state = "half_open" /\ n = SuccessThreshold
                       -> [circuit EXCEPT !.state = "closed", !.failures = 0, !.successes = 0]
                  [] circuit.state = "closed" -> [circuit EXCEPT !.failures = 0, !.successes = n]
                  [] OTHER                    -> [circuit EXCEPT !.successes = n]
  /\ streak' = Least(streak + 1, SuccessThreshold)
  /\ asking' = asking \ {c}
  /\ UNCHANGED cloudVars

\* Mutant of RecordFailure: successes from before the failure still count.
RecordFailureOnly(n) ==
  [circuit EXCEPT !.failures = n, !.age = 0,
                  !.state = IF @ = "closed" /\ n < FailureThreshold THEN @ ELSE "open"]

\* record_failure: reopens in HALF_OPEN, opens at the threshold, restarts the wait.
RecordFailure(n) ==
  [circuit EXCEPT !.failures = n, !.successes = 0, !.age = 0,
                  !.state = IF @ = "closed" /\ n < FailureThreshold THEN @ ELSE "open"]

Fail(c) ==
  /\ c \in asking
  /\ circuit' = RecordFailure(Least(circuit.failures + 1, FailureThreshold))
  /\ streak' = 0
  /\ asking' = asking \ {c}
  /\ UNCHANGED cloudVars

\* reset, by an administrator.
ResetCircuit == circuit' = NewCircuit /\ streak' = 0 /\ UNCHANGED <<asking, cloudVars>>

-----------------------------------------------------------------------------
\* CircuitBreaker.call, up to the call of func: strictly later than the recovery time.
Call(c) ==
  /\ c \notin calling
  /\ breaker.state = "open" => Rested(breaker)
  /\ breaker' = [breaker EXCEPT !.state = IF @ = "open" THEN "half_open" ELSE @]
  /\ calling' = calling \cup {c}
  /\ UNCHANGED llmCircuitVars

\* CircuitBreaker.call, when func returns: failures while closed are never forgotten.
AnswerCall(c) ==
  /\ c \in calling
  /\ breaker' = IF breaker.state = "half_open" THEN [breaker EXCEPT !.state = "closed", !.failures = 0]
                ELSE breaker
  /\ calling' = calling \ {c}
  /\ UNCHANGED llmCircuitVars

\* CircuitBreaker.call, when func raises.
Raise(c) ==
  /\ c \in calling
  /\ LET n == Least(breaker.failures + 1, FailureThreshold) IN
     breaker' = [state |-> IF n = FailureThreshold THEN "open" ELSE breaker.state,
                 failures |-> n, age |-> 0]
  /\ calling' = calling \ {c}
  /\ UNCHANGED llmCircuitVars

\* The clock.
Rest ==
  /\ \/ ~Rested(circuit) \/ ~Rested(breaker)
  /\ circuit' = [circuit EXCEPT !.age = Least(@ + 1, RecoveryTime)]
  /\ breaker' = [breaker EXCEPT !.age = Least(@ + 1, RecoveryTime)]
  /\ UNCHANGED <<asking, calling, streak>>

CircuitNext ==
  \/ \E c \in CircuitCallers :
       \/ Ask(c) \/ Succeed(c) \/ Fail(c)
       \/ Call(c) \/ AnswerCall(c) \/ Raise(c)
  \/ ResetCircuit
  \/ Rest

CircuitSpec == CircuitInit /\ [][CircuitNext]_circuitVars

-----------------------------------------------------------------------------
\* "Recovery confirmed": an open circuit closes only after the successes it asks for
\* with no failure among them, whichever calls return late.
ClosingIsConfirmed ==
  [][circuit.state # "closed" /\ circuit'.state = "closed"
       => ResetCircuit \/ streak' = SuccessThreshold]_circuitVars

\* No circuit stays open for ever while it is asked, though calls that were admitted
\* before it opened still fail.
OpenEnds == []<>(circuit.state # "open") /\ []<>(breaker.state # "open")

\* A closed breaker has room for a failure: it is never left one call from opening by
\* the outage that it recovered from.
ClosedHasRoom == breaker.state = "closed" => breaker.failures < FailureThreshold

\* Circuits recover: none stays open for ever, none closes unconfirmed, none closes
\* about to open.
CircuitsRecover == OpenEnds /\ ClosingIsConfirmed /\ []ClosedHasRoom
=============================================================================
