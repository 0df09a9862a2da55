----------------------------- MODULE WorkersProofs -----------------------------
(***************************************************************************)
(* What works in the background: the circuit breakers, the sweeps, the     *)
(* budget of the LLM, and all parts of the workers together.               *)
(***************************************************************************)
EXTENDS MCWorkers, MoneyProofs, CostProofs

-----------------------------------------------------------------------------
(***************************************************************************)
(* Circuit breakers, for any callers, thresholds and recovery time.        *)
(***************************************************************************)

Failures == 0..FailureThreshold
Successes == 0..SuccessThreshold
Ages == 0..RecoveryTime
Circuit == [state : States, failures : Failures, successes : Successes, age : Ages]
Breaker == [state : States, failures : Failures, age : Ages]

\* The successes that the LLM circuit counts are of its present streak, since a failure
\* clears both.
CircuitInd ==
  /\ circuit \in Circuit /\ breaker \in Breaker /\ streak \in Successes
  /\ asking \subseteq CircuitCallers /\ calling \subseteq CircuitCallers
  /\ circuit.successes <= streak
  /\ ClosedHasRoom

\* Zero is a count and below the threshold.
LEMMA ZeroCounts ==
  /\ 0 \in Failures /\ 0 \in Successes /\ 0 \in Ages
  /\ 0 < FailureThreshold /\ 0 <= 0
  BY CircuitAssumption DEF Failures, Successes, Ages

\* At first both are closed and have counted nothing.
LEMMA CircuitStart == CircuitInit => CircuitInd
  BY ZeroCounts DEF CircuitInit, CircuitInd, ClosedHasRoom, NewCircuit, States, Circuit, Breaker

\* A call of the LLM succeeds.
LEMMA SuccessIsCounted ==
  ASSUME CircuitInd, NEW c \in CircuitCallers, Succeed(c)
  PROVE  /\ CircuitInd'
         /\ circuit.state # "closed" /\ circuit'.state = "closed" => streak' = SuccessThreshold
<1> DEFINE n == Least(circuit.successes + 1, SuccessThreshold)
           m == Least(streak + 1, SuccessThreshold)
<1>1. circuit \in Circuit /\ breaker \in Breaker /\ streak \in Successes /\ circuit.successes <= streak
  BY DEF CircuitInd
<1>2. PICK i \in Successes, j \in Successes : i = circuit.successes /\ j = streak
  BY <1>1 DEF Circuit
<1>3. n \in Successes /\ m \in Successes /\ 0 <= m /\ n <= m /\ (n = SuccessThreshold => m = n)
  <2>1. i \in Nat /\ j \in Nat /\ i <= j /\ j <= SuccessThreshold /\ SuccessThreshold \in Nat \ {0}
    BY <1>1, <1>2, CircuitAssumption DEF Successes
  <2> QED
    BY <1>2, <2>1 DEF Least, Successes
<1>4. streak' = m /\ UNCHANGED <<breaker, calling>> /\ asking' \subseteq CircuitCallers
  BY DEF Succeed, cloudVars, CircuitInd
<1>5. \/ circuit' = [circuit EXCEPT !.state = "closed", !.failures = 0, !.successes = 0] /\ n = SuccessThreshold
      \/ circuit' = [circuit EXCEPT !.failures = 0, !.successes = n] /\ circuit.state = "closed"
      \/ circuit' = [circuit EXCEPT !.successes = n]
  BY DEF Succeed
<1> HIDE DEF n, m
<1>6. circuit' \in Circuit /\ circuit'.successes \in {0, n}
  BY <1>1, <1>3, <1>5, ZeroCounts DEF Circuit, States
<1>7. circuit.state # "closed" /\ circuit'.state = "closed" => n = SuccessThreshold
  BY <1>1, <1>5 DEF Circuit
<1>8. circuit'.successes <= streak'
  BY <1>3, <1>4, <1>6
<1> QED
  BY <1>3, <1>4, <1>6, <1>7, <1>8 DEF CircuitInd, ClosedHasRoom

\* A call of the LLM fails.
LEMMA FailureIsCounted ==
  ASSUME CircuitInd, NEW c \in CircuitCallers, Fail(c)
  PROVE  CircuitInd' /\ (circuit'.state = "closed" => circuit.state = "closed")
<1> DEFINE n == Least(circuit.failures + 1, FailureThreshold)
<1>1. circuit \in Circuit
  BY DEF CircuitInd
<1>2. n \in Failures
  <2>1. PICK i \in Failures : i = circuit.failures
    BY <1>1 DEF Circuit
  <2> QED
    BY <2>1, CircuitAssumption DEF Failures, Least
<1>3. circuit' = RecordFailure(n)
  BY DEF Fail
<1>4. streak' = 0 /\ UNCHANGED <<breaker, calling>> /\ asking' \subseteq CircuitCallers
  BY DEF Fail, cloudVars, CircuitInd
<1> HIDE DEF n
<1>5. PICK s \in {circuit.state, "open"} : /\ s = "closed" => circuit.state = "closed"
        /\ circuit' = [circuit EXCEPT !.failures = n, !.successes = 0, !.age = 0, !.state = s]
  BY <1>1, <1>3 DEF RecordFailure, Circuit
<1>6. circuit' \in Circuit /\ circuit'.successes = 0 /\ circuit'.state = s
  BY <1>1, <1>2, <1>5, ZeroCounts DEF Circuit, States
<1> QED
  BY <1>4, <1>5, <1>6, ZeroCounts DEF CircuitInd, ClosedHasRoom

\* A call is admitted, or an administrator resets the circuit.
LEMMA CircuitAdmits ==
  ASSUME CircuitInd, ResetCircuit \/ \E c \in CircuitCallers : Ask(c)
  PROVE  CircuitInd' /\ (circuit.state # "closed" /\ circuit'.state = "closed" => ResetCircuit)
<1>1. CASE ResetCircuit
  BY <1>1, ZeroCounts DEF ResetCircuit, NewCircuit, cloudVars, CircuitInd, ClosedHasRoom, States, Circuit
<1>2. ASSUME NEW c \in CircuitCallers, Ask(c)
      PROVE  CircuitInd' /\ (circuit'.state = "closed" => circuit.state = "closed")
  <2>1. circuit \in Circuit
    BY DEF CircuitInd
  <2>2. circuit' = [circuit EXCEPT !.state = IF @ = "open" THEN "half_open" ELSE @]
    BY <1>2 DEF Ask
  <2>3. circuit' \in Circuit /\ circuit'.successes = circuit.successes
        /\ (circuit'.state = "closed" => circuit.state = "closed")
    BY <2>1, <2>2 DEF Circuit, States
  <2> QED
    BY <1>2, <2>3 DEF Ask, cloudVars, CircuitInd, ClosedHasRoom
<1> QED
  BY <1>1, <1>2

\* The breaker of cloud calls: a failure that does not open it leaves room for another.
LEMMA BreakerMoves ==
  ASSUME CircuitInd, NEW c \in CircuitCallers, Call(c) \/ AnswerCall(c) \/ Raise(c)
  PROVE  CircuitInd' /\ circuit' = circuit
<1>1. breaker \in Breaker /\ (breaker.state = "closed" => breaker.failures < FailureThreshold)
  BY DEF CircuitInd, ClosedHasRoom
<1>2. UNCHANGED <<circuit, asking, streak>> /\ calling' \subseteq CircuitCallers
  BY DEF Call, AnswerCall, Raise, llmCircuitVars, CircuitInd
<1>3. breaker' \in Breaker /\ (breaker'.state = "closed" => breaker'.failures < FailureThreshold)
  <2>1. CASE Call(c)
    <3>1. breaker' = [breaker EXCEPT !.state = IF @ = "open" THEN "half_open" ELSE @]
      BY <2>1 DEF Call
    <3> QED
      BY <1>1, <3>1 DEF Breaker, States
  <2>2. CASE AnswerCall(c)
    <3>1. breaker' = breaker \/ breaker' = [breaker EXCEPT !.state = "closed", !.failures = 0]
      BY <2>2 DEF AnswerCall
    <3>2. 0 < FailureThreshold
      BY CircuitAssumption
    <3> QED
      BY <1>1, <3>1, <3>2, ZeroCounts DEF Breaker, States
  <2>3. CASE Raise(c)
    <3> DEFINE n == Least(breaker.failures + 1, FailureThreshold)
    <3>1. n \in Failures /\ (n # FailureThreshold => n < FailureThreshold)
      <4>1. PICK i \in Failures : i = breaker.failures
        BY <1>1 DEF Breaker
      <4> QED
        BY <4>1, CircuitAssumption DEF Failures, Least
    <3>2. breaker' = [state |-> IF n = FailureThreshold THEN "open" ELSE breaker.state, failures |-> n, age |-> 0]
      BY <2>3 DEF Raise
    <3> HIDE DEF n
    <3>3. breaker' \in Breaker
      BY <1>1, <3>1, <3>2, ZeroCounts DEF Breaker, States
    <3>4. breaker'.state = "closed" => n # FailureThreshold /\ breaker'.failures = n
      BY <3>2
    <3> QED
      BY <3>1, <3>3, <3>4
  <2> QED
    BY <2>1, <2>2, <2>3
<1> QED
  BY <1>2, <1>3 DEF CircuitInd, ClosedHasRoom

\* Time passes.
LEMMA CircuitRests ==
  ASSUME CircuitInd, Rest
  PROVE  CircuitInd' /\ circuit'.state = circuit.state
<1>1. circuit \in Circuit /\ breaker \in Breaker
  BY DEF CircuitInd
<1>2. ASSUME NEW i \in Ages PROVE Least(i + 1, RecoveryTime) \in Ages
  BY <1>2, CircuitAssumption DEF Ages, Least
<1>3. circuit' = [circuit EXCEPT !.age = Least(@ + 1, RecoveryTime)]
      /\ breaker' = [breaker EXCEPT !.age = Least(@ + 1, RecoveryTime)] /\ UNCHANGED <<asking, calling, streak>>
  BY DEF Rest
<1>4. Least(circuit.age + 1, RecoveryTime) \in Ages /\ Least(breaker.age + 1, RecoveryTime) \in Ages
  BY <1>1, <1>2 DEF Circuit, Breaker
<1>5. /\ circuit' \in Circuit /\ circuit'.state = circuit.state /\ circuit'.successes = circuit.successes
      /\ breaker' \in Breaker /\ breaker'.state = breaker.state /\ breaker'.failures = breaker.failures
  BY <1>1, <1>3, <1>4 DEF Circuit, Breaker
<1> QED
  BY <1>3, <1>5 DEF CircuitInd, ClosedHasRoom

\* Each step keeps the circuits, and closes one only after its successes.
LEMMA CircuitStep ==
  ASSUME CircuitInd, [CircuitNext]_circuitVars
  PROVE  /\ CircuitInd'
         /\ circuit.state # "closed" /\ circuit'.state = "closed" => ResetCircuit \/ streak' = SuccessThreshold
<1>1. CASE UNCHANGED circuitVars
  BY <1>1 DEF circuitVars, CircuitInd, ClosedHasRoom
<1> QED
  BY <1>1, SuccessIsCounted, FailureIsCounted, CircuitAdmits, BreakerMoves, CircuitRests DEF CircuitNext

\* Whichever calls return late: an open circuit closes only after the successes it asks for in
\* a row, or by a reset, and a closed breaker never has the failures that open it
\* (shared/llm/circuit_breaker.py, shared/remediation/circuit_breaker.py).
THEOREM CircuitsCloseConfirmed == CircuitSpec => [](CircuitTypeOK /\ ClosedHasRoom) /\ ClosingIsConfirmed
<1>1. CircuitInd /\ [CircuitNext]_circuitVars => CircuitInd'
  BY CircuitStep
<1>2. CircuitInd /\ [CircuitNext]_circuitVars =>
        [circuit.state # "closed" /\ circuit'.state = "closed" => ResetCircuit \/ streak' = SuccessThreshold]_circuitVars
  BY CircuitStep
<1>3. CircuitInd => CircuitTypeOK /\ ClosedHasRoom
  BY DEF CircuitInd, CircuitTypeOK, Circuit, Breaker, Failures, Successes, Ages
<1> QED
  BY <1>1, <1>2, <1>3, CircuitStart, PTL DEF CircuitSpec, ClosingIsConfirmed

-----------------------------------------------------------------------------
(***************************************************************************)
(* Which jobs the sweeps leave in the queue, for any tenants, connections, *)
(* tasks, workers and faults.                                              *)
(***************************************************************************)

\* A task keeps its name once it was sent, so a worker runs one task to its end; a
\* remediation sweep is never sent before its first cron time.
Tasks ==
  /\ sweepHour \in SweepHours
  /\ message \in [SweepMessages -> [task : SweepTasks \cup {"none"}, at : SweepHours \cup {0},
                                    state : {"unsent", "queued", "taken", "acked"}]]
  /\ \A m \in SweepMessages :
       message[m].state # "unsent" =>
         message[m].task \in SweepTasks /\ (message[m].task = "remediation" => sweepHour >= 20)

Tries == 0..MaxSweepTries - 1
Sweeper == [pc : {"idle", "started", "locked", "committed"}, msg : SweepMessages \cup {0}, tries : Tries,
            at : SweepHours \cup {0}, rows : SUBSET (Tenants \cup Connections)]

\* A worker that holds locks has read the clock when it took them.
Workers ==
  /\ sweeper \in [SweepWorkers -> Sweeper]
  /\ \A w \in SweepWorkers :
       /\ sweeper[w].pc # "idle" =>
            sweeper[w].msg \in SweepMessages /\ message[sweeper[w].msg].state # "unsent"
       /\ sweeper[w].pc = "locked" =>
            /\ sweeper[w].at \in SweepHours
            /\ TaskOf(w) = "remediation" => sweeper[w].at >= 20

SweepsSafe == Tasks /\ Workers /\ SweepInv

-----------------------------------------------------------------------------
\* A set of jobs that a transaction adds has one job for each key, because one row of
\* each tenant comes first.
LEMMA InsertedOnce ==
  ASSUME NEW task, NEW rows, NEW h, NEW S \in Firsts(rows),
         NEW j \in UNION {JobsFor(task, r, h) : r \in S}, NEW k \in UNION {JobsFor(task, r, h) : r \in S},
         SameKey(j, k)
  PROVE  j = k
<1>1. PICK r \in S : j \in JobsFor(task, r, h)
  OBVIOUS
<1>2. PICK q \in S : k \in JobsFor(task, q, h)
  OBVIOUS
<1>3. PICK a \in JobTypes(task) :
        j = [type |-> a, tenant |-> TenantOf(r), bucket |-> Bucket(task, h),
             row |-> r, at |-> h, start |-> StartHour(task, h)]
  BY <1>1 DEF JobsFor
<1>4. PICK b \in JobTypes(task) :
        k = [type |-> b, tenant |-> TenantOf(q), bucket |-> Bucket(task, h),
             row |-> q, at |-> h, start |-> StartHour(task, h)]
  BY <1>2 DEF JobsFor
<1>5. a = b /\ TenantOf(r) = TenantOf(q)
  BY <1>3, <1>4 DEF SameKey
<1>6. r = q
  BY <1>5 DEF Firsts
<1>7. QED
  BY <1>3, <1>4, <1>5, <1>6

\* In the window from the cron time to the end of the next day four hours are enough to
\* come from any hour outside the green window into it.
LEMMA DelayIsGreen ==
  ASSUME NEW h \in Nat, h >= 20, h - 20 < 20
  PROVE  IsGreen(StartHour("remediation", h))
<1>1. h \in 20..39
  OBVIOUS
<1>2. CASE h \in 20..23
  <2>1. h % 24 = h /\ (h + 4) % 24 = h - 20
    BY <1>2
  <2>2. QED
    BY <1>2, <2>1 DEF StartHour, IsGreen
<1>3. CASE h \in 24..29
  <2>1. h % 24 = h - 24
    BY <1>3
  <2>2. QED
    BY <1>3, <2>1 DEF StartHour, IsGreen
<1>4. CASE h \in 30..33
  <2>1. h % 24 = h - 24 /\ (h + 4) % 24 = h - 20
    BY <1>4
  <2>2. QED
    BY <1>4, <2>1 DEF StartHour, IsGreen
<1>5. CASE h \in 34..39
  <2>1. h % 24 = h - 24
    BY <1>5
  <2>2. QED
    BY <1>5, <2>1 DEF StartHour, IsGreen
<1>6. QED
  BY <1>1, <1>2, <1>3, <1>4, <1>5

\* None is a number of tries.
LEMMA NoTries == 0 \in Tries
  BY SweepsAssumption DEF Tries

\* At first nothing is sent and nobody works.
LEMMA SweepsStart == SweepInit => SweepsSafe
<1> SUFFICES ASSUME SweepInit PROVE SweepsSafe
  OBVIOUS
<1>1. sweepHour \in SweepHours
  BY SweepHoursHaveAFirst DEF SweepInit
<1>2. Tasks
  BY <1>1 DEF SweepInit, Tasks, NoMessage
<1>3. Workers
  BY NoTries DEF SweepInit, Workers, Sweeper, Asleep
<1>4. SweepInv
  BY DEF SweepInit, SweepInv, OneJobPerBucket, RemediationStartsGreen
<1>5. QED
  BY <1>2, <1>3, <1>4 DEF SweepsSafe

\* The commit of a sweep adds no second job for a key, and remediations in green hours only.
LEMMA CommitAddsOnce ==
  ASSUME SweepsSafe, NEW w \in SweepWorkers, CommitSweep(w)
  PROVE  SweepInv'
<1> DEFINE task == TaskOf(w)
           h == sweeper[w].at
<1>1. PICK T \in Inserted(task, sweeper[w].rows, h) : sweepJobs' = sweepJobs \cup T
  BY DEF CommitSweep
<1>2. PICK S \in Firsts(sweeper[w].rows) :
        T = {j \in UNION {JobsFor(task, r, h) : r \in S} : \A k \in sweepJobs : ~SameKey(j, k)}
  BY <1>1 DEF Inserted
<1>3. h \in Nat /\ task \in SweepTasks /\ (task = "remediation" => h >= 20)
  BY SweepHoursHaveAFirst DEF CommitSweep, SweepsSafe, Workers, Tasks, TaskOf
<1>4. OneJobPerBucket /\ RemediationStartsGreen
  BY DEF SweepsSafe, SweepInv
<1> HIDE DEF task, h
<1>5. ASSUME NEW j \in sweepJobs', NEW k \in sweepJobs', SameKey(j, k) PROVE j = k
  <2>1. CASE j \in sweepJobs /\ k \in sweepJobs
    BY <1>4, <1>5, <2>1 DEF OneJobPerBucket
  <2>2. CASE j \in T /\ k \in T
    BY <1>2, <1>5, <2>2, InsertedOnce
  <2>3. SameKey(k, j)
    BY <1>5 DEF SameKey
  <2>4. ~(j \in T /\ k \in sweepJobs) /\ ~(k \in T /\ j \in sweepJobs)
    BY <1>2, <1>5, <2>3
  <2>5. QED
    BY <1>1, <2>1, <2>2, <2>4
<1>6. ASSUME NEW j \in sweepJobs', j.type = "remediation", j.at - 20 < 20 PROVE IsGreen(j.start)
  <2>1. CASE j \in sweepJobs
    BY <1>4, <1>6, <2>1 DEF RemediationStartsGreen
  <2>2. CASE j \in T
    <3>1. PICK r \in S : j \in JobsFor(task, r, h)
      BY <1>2, <2>2
    <3>2. j.type \in JobTypes(task) /\ j.at = h /\ j.start = StartHour(task, h)
      BY <3>1 DEF JobsFor
    <3>3. task = "remediation"
      BY <1>3, <1>6, <3>2 DEF JobTypes, Cohorts, SweepTasks
    <3>4. QED
      BY <1>3, <1>6, <3>2, <3>3, DelayIsGreen
  <2>3. QED
    BY <1>1, <2>1, <2>2
<1>7. QED
  BY <1>5, <1>6 DEF SweepInv, OneJobPerBucket, RemediationStartsGreen

\* A step of one worker that changes no task but in its state keeps what is known of
\* tasks and workers.
LEMMA WorkerMoves ==
  ASSUME Tasks, Workers, NEW w \in SweepWorkers, NEW d \in Sweeper, NEW n \in SweepMessages,
         NEW e \in {"queued", "taken", "acked"},
         sweeper' = [sweeper EXCEPT ![w] = d], UNCHANGED sweepHour,
         UNCHANGED message \/ message' = [message EXCEPT ![n].state = e],
         message[n].state # "unsent",
         d.pc # "idle" => d.msg \in SweepMessages /\ message[d.msg].state # "unsent",
         d.pc = "locked" => d.at \in SweepHours /\ (message[d.msg].task = "remediation" => d.at >= 20)
  PROVE  Tasks' /\ Workers'
<1>1. \A m \in SweepMessages : /\ message'[m].task = message[m].task /\ message'[m].at = message[m].at
                               /\ message'[m].state # "unsent" <=> message[m].state # "unsent"
  BY DEF Tasks
<1>2. \A v \in SweepWorkers : sweeper'[v] = IF v = w THEN d ELSE sweeper[v]
  BY DEF Workers
<1>3. message' \in [SweepMessages -> [task : SweepTasks \cup {"none"}, at : SweepHours \cup {0},
                                      state : {"unsent", "queued", "taken", "acked"}]]
  BY DEF Tasks
<1>4. Tasks'
  BY <1>1, <1>3 DEF Tasks
<1>5. ASSUME NEW v \in SweepWorkers
      PROVE  /\ sweeper'[v].pc # "idle" =>
                  sweeper'[v].msg \in SweepMessages /\ message'[sweeper'[v].msg].state # "unsent"
             /\ sweeper'[v].pc = "locked" =>
                  /\ sweeper'[v].at \in SweepHours
                  /\ message'[sweeper'[v].msg].task = "remediation" => sweeper'[v].at >= 20
  <2>1. CASE v = w
    <3>1. sweeper'[v] = d
      BY <1>2, <2>1
    <3>2. QED
      BY <1>1, <3>1
  <2>2. CASE v # w
    <3>1. sweeper'[v] = sweeper[v]
      BY <1>2, <2>2
    <3>2. QED
      BY <1>1, <3>1 DEF Workers, TaskOf
  <2>3. QED
    BY <2>1, <2>2
<1>6. sweeper' \in [SweepWorkers -> Sweeper]
  BY DEF Workers
<1>7. Workers'
  BY <1>5, <1>6 DEF Workers, TaskOf
<1>8. QED
  BY <1>4, <1>7

\* The steps of workers keep what is known of tasks and workers.
LEMMA WorkersStep ==
  ASSUME Tasks, Workers, NEW w \in SweepWorkers,
         SweepStep(w) \/ FailSweep(w) \/ LoseWorker(w) \/ \E m \in SweepMessages : TakeTask(w, m)
  PROVE  Tasks' /\ Workers'
<1> DEFINE n == sweeper[w].msg
<1>a. sweeper[w].pc # "idle" => n \in SweepMessages /\ message[n].state # "unsent"
  BY DEF Workers
<1>b. sweeper[w] \in Sweeper /\ sweepHour \in SweepHours /\ SweepHours \subseteq Nat
  BY SweepHoursHaveAFirst DEF Workers, Tasks
<1>c. Asleep \in Sweeper /\ Asleep.pc = "idle"
  BY NoTries DEF Asleep, Sweeper
<1>1. ASSUME NEW m \in SweepMessages, TakeTask(w, m) PROVE Tasks' /\ Workers'
  <2> DEFINE d == [Asleep EXCEPT !.pc = "started", !.msg = m]
  <2>1. d \in Sweeper /\ d.pc = "started" /\ d.msg = m
    BY NoTries DEF Asleep, Sweeper
  <2>2. /\ sweeper' = [sweeper EXCEPT ![w] = d] /\ message' = [message EXCEPT ![m].state = "taken"]
        /\ UNCHANGED sweepHour /\ message[m].state # "unsent"
    BY <1>1 DEF TakeTask
  <2> HIDE DEF d
  <2>3. QED
    BY <2>1, <2>2, WorkerMoves
<1>2. ASSUME sweeper[w].pc # "idle", UNCHANGED sweepHour, NEW e \in {"queued", "acked"},
             message' = [message EXCEPT ![n].state = e], sweeper' = [sweeper EXCEPT ![w] = Asleep]
      PROVE  Tasks' /\ Workers'
  <2> HIDE DEF n
  <2>1. QED
    BY <1>2, <1>a, <1>c, WorkerMoves
<1>3. ASSUME NEW d \in Sweeper, sweeper[w].pc # "idle", UNCHANGED <<sweepHour, message>>,
             sweeper' = [sweeper EXCEPT ![w] = d], d.msg = n,
             d.pc = "locked" => d.at \in SweepHours /\ (message[n].task = "remediation" => d.at >= 20)
      PROVE  Tasks' /\ Workers'
  <2> HIDE DEF n
  <2>1. QED
    BY <1>3, <1>a, WorkerMoves
<1>4. ASSUME NEW rows \in SUBSET (Tenants \cup Connections),
             sweeper[w].pc = "started", UNCHANGED <<sweepHour, message>>,
             sweeper' = [sweeper EXCEPT ![w].pc = "locked", ![w].rows = rows, ![w].at = sweepHour]
      PROVE  Tasks' /\ Workers'
  <2> DEFINE d == [sweeper[w] EXCEPT !.pc = "locked", !.rows = rows, !.at = sweepHour]
  <2>1. d \in Sweeper /\ d.msg = n /\ d.at = sweepHour
    BY <1>b DEF Sweeper
  <2>2. sweeper' = [sweeper EXCEPT ![w] = d]
    BY <1>4 DEF Workers
  <2>3. message[n].task = "remediation" => sweepHour >= 20
    BY <1>4, <1>a DEF Tasks
  <2> HIDE DEF d, n
  <2>4. QED
    BY <1>3, <1>4, <1>b, <2>1, <2>2, <2>3
<1>5. CASE LockRows(w)
  <2>1. SweptRows(TaskOf(w)) \subseteq Tenants \cup Connections
    BY DEF SweptRows, Members
  <2>2. PICK rows \in SUBSET (Tenants \cup Connections) :
          \/ rows = {} /\ Ack(w)
          \/ /\ sweeper' = [sweeper EXCEPT ![w].pc = "locked", ![w].rows = rows, ![w].at = sweepHour]
             /\ UNCHANGED message
    BY <1>5, <2>1 DEF LockRows
  <2>3. sweeper[w].pc = "started" /\ UNCHANGED sweepHour
    BY <1>5 DEF LockRows
  <2>4. CASE Ack(w)
    BY <1>2, <2>3, <2>4 DEF Ack
  <2>5. QED
    BY <1>4, <2>2, <2>3, <2>4
<1>6. CASE CommitSweep(w)
  <2> DEFINE d == [sweeper[w] EXCEPT !.pc = "committed", !.rows = {}]
  <2>1. d \in Sweeper /\ d.msg = n /\ d.pc = "committed"
    BY <1>b DEF Sweeper
  <2>2. sweeper' = [sweeper EXCEPT ![w] = d] /\ UNCHANGED <<sweepHour, message>> /\ sweeper[w].pc # "idle"
    BY <1>6 DEF CommitSweep, Workers
  <2> HIDE DEF d, n
  <2>3. QED
    BY <1>3, <2>1, <2>2
<1>7. CASE FinishSweep(w)
  BY <1>2, <1>7 DEF FinishSweep, Ack
<1>8. CASE FailSweep(w)
  <2> DEFINE k == sweeper[w].tries + 1
             d == [sweeper[w] EXCEPT !.pc = "started", !.rows = {}, !.tries = k]
  <2>0. CASE Ack(w)
    BY <1>2, <1>8, <2>0 DEF FailSweep, Ack
  <2>1. CASE k < MaxSweepTries /\ sweeper' = [sweeper EXCEPT ![w] = d] /\ UNCHANGED message
    <3>1. k \in Tries
      <4>1. PICK i \in Tries : i = sweeper[w].tries
        BY <1>b DEF Sweeper
      <4> QED
        BY <2>1, <4>1, SweepsAssumption DEF Tries
    <3>2. d \in Sweeper /\ d.msg = n /\ d.pc = "started"
      <4> HIDE DEF k
      <4> QED
        BY <1>b, <3>1 DEF Sweeper
    <3> HIDE DEF d, n
    <3> QED
      BY <1>3, <1>8, <2>1, <3>2 DEF FailSweep
  <2> QED
    BY <1>8, <2>0, <2>1 DEF FailSweep, Workers
<1>9. CASE LoseWorker(w)
  BY <1>2, <1>9 DEF LoseWorker
<1>10. QED
  BY <1>1, <1>5, <1>6, <1>7, <1>8, <1>9 DEF SweepStep

\* No step leaves two jobs for one key, or a remediation outside the green hours.
LEMMA SweepsStep == SweepsSafe /\ [SweepNext]_sweepVars => SweepsSafe'
<1> SUFFICES ASSUME SweepsSafe, [SweepNext]_sweepVars PROVE SweepsSafe'
  OBVIOUS
<1> USE DEF SweepsSafe
<1>2. CASE SweepTick
  <2>1. /\ sweepHour' \in SweepHours /\ sweepHour' >= sweepHour /\ {sweepHour, sweepHour'} \subseteq Nat
        /\ UNCHANGED <<message, sweeper, sweepJobs>>
    BY <1>2, SweepHoursHaveAFirst DEF SweepTick, Tasks
  <2>2. Tasks'
    BY <2>1 DEF Tasks
  <2>3. Workers'
    BY <2>1 DEF Workers, TaskOf
  <2>4. SweepInv'
    BY <2>1 DEF SweepInv, OneJobPerBucket, RemediationStartsGreen
  <2>5. QED
    BY <2>2, <2>3, <2>4
<1>3. ASSUME NEW m \in SweepMessages, NEW task \in SweepTasks, Dispatch(m, task) PROVE SweepsSafe'
  <2>1. /\ message' = [message EXCEPT ![m] = [task |-> task, at |-> sweepHour, state |-> "queued"]]
        /\ message[m].state = "unsent" /\ UNCHANGED <<sweepHour, sweeper, sweepJobs>>
    BY <1>3 DEF Dispatch
  <2>2. sweepHour \in Nat /\ (task = "remediation" => sweepHour >= 20)
    <3>1. sweepHour \in Nat
      BY SweepHoursHaveAFirst DEF Tasks
    <3>2. ASSUME task = "remediation" PROVE sweepHour >= 20
      <4>1. sweepHour % 168 = 20
        BY <1>3, <3>2 DEF Dispatch, FiresAt
      <4>2. QED
        BY <3>1, <4>1
    <3>3. QED
      BY <3>1, <3>2
  <2>3. \A k \in SweepMessages : k # m => message'[k] = message[k]
    BY <2>1 DEF Tasks
  <2>4. message'[m] = [task |-> task, at |-> sweepHour, state |-> "queued"]
    BY <2>1 DEF Tasks
  <2>5. Tasks'
    BY <2>1, <2>2, <2>3, <2>4 DEF Tasks
  <2>6. Workers'
    BY <2>1, <2>3, <2>4 DEF Workers, TaskOf
  <2>7. SweepInv'
    BY <2>1 DEF SweepInv, OneJobPerBucket, RemediationStartsGreen
  <2>8. QED
    BY <2>5, <2>6, <2>7
<1>4. ASSUME NEW w \in SweepWorkers,
             SweepStep(w) \/ FailSweep(w) \/ LoseWorker(w) \/ \E m \in SweepMessages : TakeTask(w, m)
      PROVE  SweepsSafe'
  <2>1. Tasks' /\ Workers'
    BY <1>4, WorkersStep
  <2>2. CASE CommitSweep(w)
    BY <2>1, <2>2, CommitAddsOnce
  <2>3. CASE UNCHANGED sweepJobs
    BY <2>1, <2>3 DEF SweepInv, OneJobPerBucket, RemediationStartsGreen
  <2>4. QED
    BY <1>4, <2>2, <2>3 DEF SweepStep, LockRows, FinishSweep, FailSweep, LoseWorker, TakeTask
<1>5. CASE UNCHANGED sweepVars
  BY <1>5 DEF sweepVars, Tasks, Workers, TaskOf, SweepInv, OneJobPerBucket, RemediationStartsGreen
<1>6. QED
  BY <1>2, <1>3, <1>4, <1>5 DEF SweepNext

\* What a sweep writes belongs to tenants, and starts no earlier than its hour.
LEMMA RowsOfTenants ==
  ASSUME Tasks, Workers, NEW task \in SweepTasks
  PROVE  /\ SweptRows(task) \subseteq Tenants \cup Connections
         /\ \A r \in Tenants \cup Connections : TenantOf(r) \in Tenants
         /\ \A h \in Nat : Bucket(task, h) <= h /\ h <= StartHour(task, h)
<1>1. \A h \in Nat : Bucket(task, h) <= h /\ h <= StartHour(task, h)
  BY DEF Bucket, StartHour, SweepTasks, Cohorts
<1>2. \A r \in Tenants \cup Connections : TenantOf(r) \in Tenants
  BY SweepsAssumption DEF TenantOf
<1> QED
  BY <1>1, <1>2 DEF SweptRows, Members

\* The rows of the queue and what is remembered of failures keep their types.
LEMMA SweepTypesStep == SweepsSafe /\ SweepTypeOK /\ [SweepNext]_sweepVars => SweepTypeOK'
<1> SUFFICES ASSUME SweepsSafe, SweepTypeOK, [SweepNext]_sweepVars PROVE SweepTypeOK'
  OBVIOUS
<1> DEFINE JobOK(j) == j.tenant \in Tenants /\ j.at \in SweepHours /\ j.bucket <= j.at /\ j.at <= j.start
<1>1. Tasks' /\ Workers'
  BY SweepsStep DEF SweepsSafe
<1>2. ASSUME NEW w \in SweepWorkers, sweeper[w].pc # "idle" PROVE TaskOf(w) \in SweepTasks
  BY <1>2 DEF SweepsSafe, Tasks, Workers, TaskOf
<1>3. ASSUME NEW w \in SweepWorkers PROVE sweeper[w].rows \subseteq Tenants \cup Connections
  BY DEF SweepsSafe, Workers, Sweeper
<1>4. \A j \in sweepJobs' : JobOK(j)
  <2>1. CASE sweepJobs' = sweepJobs
    BY <2>1 DEF SweepTypeOK
  <2>2. ASSUME NEW w \in SweepWorkers, CommitSweep(w) PROVE \A j \in sweepJobs' : JobOK(j)
    <3> DEFINE task == TaskOf(w)
               h == sweeper[w].at
    <3>1. sweeper[w].pc = "locked" /\ task \in SweepTasks /\ h \in SweepHours /\ h \in Nat
      BY <1>2, <2>2, SweepHoursHaveAFirst DEF CommitSweep, SweepsSafe, Workers
    <3>2. PICK S \in Firsts(sweeper[w].rows) :
            sweepJobs' \subseteq sweepJobs \cup UNION {JobsFor(task, r, h) : r \in S}
      BY <2>2 DEF CommitSweep, Inserted
    <3>3. S \subseteq Tenants \cup Connections
      BY <1>3 DEF Firsts
    <3> HIDE DEF task, h
    <3>4. ASSUME NEW r \in S, NEW j \in JobsFor(task, r, h) PROVE JobOK(j)
      <4>1. j.tenant = TenantOf(r) /\ j.at = h /\ j.bucket = Bucket(task, h) /\ j.start = StartHour(task, h)
        BY <3>4 DEF JobsFor
      <4> QED
        BY <3>1, <3>3, <4>1, RowsOfTenants DEF SweepsSafe
    <3> QED
      BY <3>2, <3>4 DEF SweepTypeOK
  <2> QED
    BY <2>1, <2>2 DEF SweepNext, SweepStep, SweepTick, Dispatch, TakeTask, LockRows, FinishSweep, FailSweep,
       LoseWorker, sweepVars
<1>5. unswept' \subseteq SweepTasks \X Tenants
  <2>1. CASE unswept' = unswept
    BY <2>1 DEF SweepTypeOK
  <2>2. ASSUME NEW w \in SweepWorkers, LockRows(w) \/ FailSweep(w), ~(unswept' = unswept)
        PROVE  unswept' \subseteq SweepTasks \X Tenants
    <3>1. TaskOf(w) \in SweepTasks
      BY <1>2, <2>2 DEF LockRows, FailSweep
    <3>2. PICK rows \in SUBSET SweptRows(TaskOf(w)) : GiveUpOn(TaskOf(w), rows)
      BY <2>2 DEF LockRows, FailSweep
    <3>3. \A r \in rows : TenantOf(r) \in Tenants
      BY <3>1, RowsOfTenants DEF SweepsSafe
    <3> QED
      BY <3>1, <3>2, <3>3 DEF GiveUpOn, SweepTypeOK
  <2> QED
    BY <2>1, <2>2 DEF SweepNext, SweepStep, SweepTick, Dispatch, TakeTask, CommitSweep, FinishSweep,
       LoseWorker, sweepVars
<1>6. sweepFaults' \in 0..MaxSweepFaults
  <2>1. sweepFaults' = sweepFaults \/ (sweepFaults < MaxSweepFaults /\ sweepFaults' = sweepFaults + 1)
    BY DEF SweepNext, SweepStep, SweepTick, Dispatch, TakeTask, LockRows, CommitSweep, FinishSweep, FailSweep,
       LoseWorker, sweepVars
  <2> QED
    BY <2>1, SweepsAssumption DEF SweepTypeOK
<1> QED
  BY <1>1, <1>4, <1>5, <1>6 DEF SweepTypeOK, Tasks, Workers, Sweeper, Tries

\* Whatever is dispatched twice, delivered again after a worker died, or run by two
\* workers at once, a tenant has one job of a type per bucket, and a remediation that is swept
\* within 20 hours of its cron time starts in a green window (scheduler_tasks.py:73-100, 145-180).
THEOREM SweepsInsertOnce == SweepSpec => [](SweepTypeOK /\ SweepInv)
<1>1. SweepsSafe => SweepInv
  BY DEF SweepsSafe
<1>2. SweepInit => SweepTypeOK
  <2> SUFFICES ASSUME SweepInit PROVE SweepTypeOK
    OBVIOUS
  <2>1. Tasks /\ Workers
    BY SweepsStart DEF SweepsSafe
  <2> QED
    BY <2>1, SweepsAssumption DEF SweepInit, SweepTypeOK, Tasks, Workers, Sweeper, Tries
<1> QED
  BY <1>1, <1>2, SweepsStart, SweepsStep, SweepTypesStep, PTL DEF SweepSpec

-----------------------------------------------------------------------------
(***************************************************************************)
(* The LLM budget, for any number of calls, settings and costs.            *)
(***************************************************************************)

\* A call with a reservation.
Reserving == {"authorized", "ready", "answered", "recorded", "saved"}
LlmCall ==
  [pc : {"idle", "started"} \cup Reserving, by : {"api", "job"}, estimate : 0..MaxLlmCost, cost : 0..MaxLlmCost,
   cheap : BOOLEAN, format : Formats, alert : BOOLEAN]
BudgetRow == [limit : Nat, soft : Nat, hard : BOOLEAN, alerted : BOOLEAN, exists : BOOLEAN]

\* A call that has been authorised has the row to itself, so the room for its estimate, the
\* judgement on the threshold and the alert it owes stay what they were.
Reserved(s, c) ==
  /\ c.pc \in Reserving => /\ llmLock = s /\ llmBudget.exists
                           /\ llmUsage + c.estimate <= llmBudget.limit
  /\ c.pc = "ready" /\ llmUsage >= llmBudget.soft => c.cheap
  /\ c.pc \in {"recorded", "saved"} =>
       c.alert = (llmUsage + c.cost >= llmBudget.soft /\ ~llmBudget.alerted)

\* The inductive invariant of the budget.
BudgetInd ==
  /\ llmBudget \in BudgetRow /\ llmUsage \in Nat /\ softFlag \in BOOLEAN
  /\ llmCall \in [LlmCalls -> LlmCall]
  /\ \A s \in LlmCalls : Reserved(s, llmCall[s])

-----------------------------------------------------------------------------
\* A call that has not begun.
LEMMA NoCallYet == NoCall \in LlmCall /\ NoCall.pc = "idle"
  BY LlmAssumption DEF NoCall, LlmCall, Formats

\* At first nothing is reserved.
LEMMA BudgetStart == LlmInit => BudgetInd
<1> SUFFICES ASSUME LlmInit PROVE BudgetInd
  OBVIOUS
<1>1. NoCall \in LlmCall /\ NoCall.pc = "idle"
  BY NoCallYet
<1>2. NoBudget \in BudgetRow
  BY DEF NoBudget, BudgetRow
<1>3. \A s \in LlmCalls : llmCall[s] = NoCall
  BY DEF LlmInit
<1>4. \A s \in LlmCalls : Reserved(s, NoCall)
  BY <1>1 DEF Reserved, Reserving
<1> QED
  BY <1>1, <1>2, <1>3, <1>4 DEF BudgetInd, LlmInit

\* A step of one call that leaves the row and the usage: the others have no reservation
\* when it has one, and need not look at what it does when they have.
LEMMA CallMoves ==
  ASSUME BudgetInd, NEW s \in LlmCalls, NEW c \in LlmCall, llmCall' = [llmCall EXCEPT ![s] = c],
         UNCHANGED <<llmBudget, llmUsage>>, softFlag' \in BOOLEAN, Reserved(s, c)',
         llmLock' = llmLock \/ llmLock \notin LlmCalls \ {s}
  PROVE  BudgetInd'
<1>1. ASSUME NEW t \in LlmCalls PROVE Reserved(t, llmCall[t])'
  <2>1. CASE t = s
    <3>1. llmCall'[t] = c
      BY <2>1 DEF BudgetInd
    <3> QED
      BY <2>1, <3>1 DEF Reserved
  <2>2. CASE t # s
    <3>1. llmCall'[t] = llmCall[t] /\ Reserved(t, llmCall[t])
      BY <2>2 DEF BudgetInd
    <3>2. llmCall[t].pc \in Reserving => llmLock' = t
      BY <2>2, <3>1 DEF Reserved
    <3> QED
      BY <3>1, <3>2 DEF Reserved
  <2> QED
    BY <2>1, <2>2
<1> QED
  BY <1>1 DEF BudgetInd

\* A call that ends gives the row back if it holds it.
LEMMA CallEnds ==
  ASSUME BudgetInd, NEW s \in LlmCalls, Release(s), UNCHANGED <<llmBudget, llmUsage, softFlag>>
  PROVE  BudgetInd'
<1>1. NoCall \in LlmCall /\ NoCall.pc = "idle"
  BY NoCallYet
<1>2. Reserved(s, NoCall)'
  BY <1>1 DEF Reserved, Reserving
<1> QED
  BY <1>1, <1>2, CallMoves DEF Release, BudgetInd

\* What the invariant says of one call.
LEMMA CallFacts ==
  ASSUME BudgetInd, NEW s \in LlmCalls
  PROVE  llmCall[s] \in LlmCall /\ Reserved(s, llmCall[s]) /\ llmBudget \in BudgetRow /\ llmUsage \in Nat
  BY DEF BudgetInd

\* An authorisation takes the row and the room for the estimate.
LEMMA Authorizing ==
  ASSUME BudgetInd, NEW s \in LlmCalls, NEW cost \in 1..MaxLlmCost, Authorize(s, cost)
  PROVE  BudgetInd'
<1>1. PICK d \in LlmCall : d = llmCall[s]
  BY CallFacts
<1>2. PICK c : c = [d EXCEPT !.pc = "authorized", !.estimate = cost]
  OBVIOUS
<1>3. cost \in 0..MaxLlmCost
  BY LlmAssumption
<1>4. c \in LlmCall /\ c.pc = "authorized" /\ c.estimate = cost
  BY <1>2, <1>3 DEF LlmCall, Reserving
<1>5. llmCall' = [llmCall EXCEPT ![s] = c]
  BY <1>1, <1>2 DEF Authorize, BudgetInd
<1>6. Reserved(s, c)'
  BY <1>4 DEF Reserved, Authorize
<1>7. llmLock \notin LlmCalls
  BY LlmAssumption DEF Authorize
<1> QED
  BY <1>4, <1>5, <1>6, <1>7, CallMoves DEF Authorize, BudgetInd

\* A step of a call that goes on with its reservation.
LEMMA CallGoesOn ==
  ASSUME BudgetInd, NEW s \in LlmCalls, NEW c \in LlmCall, llmCall' = [llmCall EXCEPT ![s] = c],
         UNCHANGED <<llmBudget, llmLock, llmUsage>>, softFlag' \in BOOLEAN,
         c.pc \in Reserving => llmCall[s].pc \in Reserving /\ c.estimate = llmCall[s].estimate,
         c.pc = "ready" /\ llmUsage >= llmBudget.soft => c.cheap,
         c.pc \in {"recorded", "saved"} =>
           c.alert = (llmUsage + c.cost >= llmBudget.soft /\ ~llmBudget.alerted)
  PROVE  BudgetInd'
<1>1. Reserved(s, llmCall[s])
  BY CallFacts
<1>2. Reserved(s, c)'
  BY <1>1 DEF Reserved
<1> QED
  BY <1>2, CallMoves

\* The model is chosen cheap at or over the threshold.
LEMMA Choosing ==
  ASSUME BudgetInd, NEW s \in LlmCalls, SetupClient(s)
  PROVE  BudgetInd'
<1>1. PICK d \in LlmCall : d = llmCall[s] /\ d.pc = "authorized"
  BY CallFacts DEF SetupClient, At
<1>2. PICK b \in BOOLEAN : b = (BudgetStatus = "soft_limit")
  OBVIOUS
<1>3. PICK c : c = [d EXCEPT !.pc = "ready", !.cheap = b]
  OBVIOUS
<1>4. c \in LlmCall /\ c.pc = "ready" /\ c.cheap = b /\ c.estimate = d.estimate
  BY <1>2, <1>3 DEF LlmCall, Reserving
<1>5. llmCall' = [llmCall EXCEPT ![s] = c]
  BY <1>1, <1>2, <1>3 DEF SetupClient, BudgetInd
<1>6. llmUsage >= llmBudget.soft => c.cheap
  <2>1. llmBudget \in BudgetRow /\ llmUsage \in Nat /\ BudgetStatus # "hard_limit" /\ softFlag \in BOOLEAN
    BY CallFacts DEF SetupClient, BudgetInd
  <2>2. llmBudget.limit \in Nat /\ llmBudget.soft \in Nat
    BY <2>1 DEF BudgetRow
  <2>3. llmUsage >= llmBudget.soft => BudgetStatus = "soft_limit"
    BY <2>1, <2>2 DEF BudgetStatus
  <2> QED
    BY <1>2, <1>4, <2>3
<1>7. softFlag' \in BOOLEAN /\ UNCHANGED <<llmBudget, llmLock, llmUsage>>
  BY DEF SetupClient, BudgetInd
<1> QED
  BY <1>1, <1>4, <1>5, <1>6, <1>7, CallGoesOn DEF Reserving

\* The steps of a call that are about itself only.
LEMMA Proceeding ==
  ASSUME BudgetInd, NEW s \in LlmCalls,
         \/ \E by \in {"api", "job"} : StartAnalysis(s, by)
         \/ \E cost \in 1..MaxLlmCost, format \in Formats : Answer(s, cost, format)
         \/ RecordUsage(s) \/ SaveResult(s)
  PROVE  BudgetInd'
<1>1. PICK d \in LlmCall : d = llmCall[s]
  BY CallFacts
<1>0. Reserved(s, d) /\ softFlag \in BOOLEAN /\ llmCall \in [LlmCalls -> LlmCall]
  BY <1>1 DEF BudgetInd
<1>2. ASSUME NEW by \in {"api", "job"}, StartAnalysis(s, by) PROVE BudgetInd'
  <2>1. PICK c : c = [NoCall EXCEPT !.pc = "started", !.by = by]
    OBVIOUS
  <2>2. c \in LlmCall /\ c.pc = "started"
    BY <2>1, NoCallYet DEF LlmCall
  <2>3. llmCall' = [llmCall EXCEPT ![s] = c] /\ softFlag' \in BOOLEAN /\ UNCHANGED <<llmBudget, llmLock, llmUsage>>
    BY <1>0, <1>2, <2>1 DEF StartAnalysis
  <2> QED
    BY <2>2, <2>3, CallGoesOn DEF Reserving
<1>3. ASSUME NEW cost \in 1..MaxLlmCost, NEW format \in Formats, Answer(s, cost, format) PROVE BudgetInd'
  <2>1. PICK c : c = [d EXCEPT !.pc = "answered", !.cost = cost, !.format = format]
    OBVIOUS
  <2>2. cost \in 0..MaxLlmCost
    BY LlmAssumption
  <2>3. c \in LlmCall /\ c.pc = "answered" /\ c.estimate = d.estimate
    BY <2>1, <2>2 DEF LlmCall, Reserving
  <2>4. llmCall' = [llmCall EXCEPT ![s] = c] /\ softFlag' \in BOOLEAN /\ UNCHANGED <<llmBudget, llmLock, llmUsage>>
    BY <1>0, <1>1, <1>3, <2>1 DEF Answer
  <2>5. d.pc = "ready"
    BY <1>1, <1>3 DEF Answer, At
  <2> QED
    BY <1>1, <2>3, <2>4, <2>5, CallGoesOn DEF Reserving
<1>4. CASE RecordUsage(s)
  <2>1. PICK b \in BOOLEAN : b = DueAlert(s)
    BY DEF DueAlert
  <2>2. PICK c : c = [d EXCEPT !.pc = "recorded", !.alert = b]
    OBVIOUS
  <2>3. c \in LlmCall /\ c.pc = "recorded" /\ c.estimate = d.estimate /\ c.cost = d.cost /\ c.alert = b
    BY <2>1, <2>2 DEF LlmCall, Reserving
  <2>4. llmCall' = [llmCall EXCEPT ![s] = c] /\ softFlag' \in BOOLEAN /\ UNCHANGED <<llmBudget, llmLock, llmUsage>>
    BY <1>0, <1>1, <1>4, <2>1, <2>2 DEF RecordUsage
  <2>5. d.pc = "answered"
    BY <1>1, <1>4 DEF RecordUsage, At
  <2>6. c.alert = (llmUsage + c.cost >= llmBudget.soft /\ ~llmBudget.alerted)
    BY <1>1, <2>1, <2>3 DEF DueAlert
  <2> QED
    BY <1>1, <2>3, <2>4, <2>5, <2>6, CallGoesOn DEF Reserving
<1>5. CASE SaveResult(s)
  <2>1. PICK c : c = [d EXCEPT !.pc = "saved"]
    OBVIOUS
  <2>2. c \in LlmCall /\ c.pc = "saved" /\ c.estimate = d.estimate /\ c.cost = d.cost /\ c.alert = d.alert
    BY <2>1 DEF LlmCall, Reserving
  <2>3. llmCall' = [llmCall EXCEPT ![s] = c] /\ softFlag' \in BOOLEAN /\ UNCHANGED <<llmBudget, llmLock, llmUsage>>
    BY <1>0, <1>1, <1>5, <2>1 DEF SaveResult
  <2>4. d.pc = "recorded"
    BY <1>1, <1>5 DEF SaveResult, At
  <2>5. c.alert = (llmUsage + c.cost >= llmBudget.soft /\ ~llmBudget.alerted)
    BY <1>0, <2>2, <2>4 DEF Reserved
  <2> QED
    BY <1>1, <2>2, <2>3, <2>4, <2>5, CallGoesOn DEF Reserving
<1> QED
  BY <1>2, <1>3, <1>4, <1>5

\* The row changes while nobody has it.
LEMMA RowChanges ==
  ASSUME BudgetInd, llmBudget' \in BudgetRow, llmUsage' \in Nat, UNCHANGED <<llmCall, softFlag>>,
         \A s \in LlmCalls : llmCall[s].pc \notin Reserving
  PROVE  BudgetInd'
<1>1. ASSUME NEW s \in LlmCalls PROVE Reserved(s, llmCall[s])'
  BY DEF Reserved, Reserving
<1> QED
  BY <1>1 DEF BudgetInd

\* A job commits its usage while it has the row.
LEMMA JobCommits ==
  ASSUME BudgetInd, NEW s \in LlmCalls, EndJob(s)
  PROVE  BudgetInd' /\ llmUsage' = llmUsage + llmCall[s].cost
         /\ (llmUsage' >= llmBudget.soft => llmBudget'.alerted)
<1>1. PICK d \in LlmCall : d = llmCall[s] /\ d.pc = "saved" /\ Reserved(s, d)
  BY CallFacts DEF EndJob, At
<1>2. llmLock = s /\ llmBudget \in BudgetRow /\ llmUsage \in Nat /\ d.cost \in Nat /\ d.alert \in BOOLEAN
  BY <1>1, CallFacts DEF Reserved, Reserving, LlmCall
<1>3. llmBudget' \in BudgetRow /\ llmBudget'.alerted = (llmBudget.alerted \/ d.alert)
  BY <1>1, <1>2 DEF EndJob, BudgetRow
<1>4. llmUsage' = llmUsage + d.cost /\ llmUsage' \in Nat
  BY <1>1, <1>2 DEF EndJob
<1>5. llmUsage' >= llmBudget.soft => llmBudget'.alerted
  BY <1>1, <1>3, <1>4 DEF Reserved
<1>6. NoCall \in LlmCall /\ NoCall.pc = "idle"
  BY NoCallYet
<1>7. ASSUME NEW t \in LlmCalls PROVE llmCall'[t].pc \notin Reserving /\ llmCall'[t] \in LlmCall
  <2>1. CASE t = s
    BY <1>6, <2>1 DEF EndJob, Release, BudgetInd, Reserving
  <2>2. CASE t # s
    <3>1. llmCall'[t] = llmCall[t] /\ Reserved(t, llmCall[t]) /\ llmCall[t] \in LlmCall
      BY <2>2 DEF EndJob, Release, BudgetInd
    <3> QED
      BY <1>2, <2>2, <3>1 DEF Reserved
  <2> QED
    BY <2>1, <2>2
<1>8. \A t \in LlmCalls : Reserved(t, llmCall[t])'
  BY <1>7 DEF Reserved, Reserving
<1>9. llmCall' \in [LlmCalls -> LlmCall]
  BY <1>6 DEF EndJob, Release, BudgetInd
<1> QED
  BY <1>1, <1>3, <1>4, <1>5, <1>8, <1>9 DEF BudgetInd, EndJob

\* Settings, flags, expiry and the month.
LEMMA BudgetElsewhere ==
  ASSUME BudgetInd,
         \/ UNCHANGED llmVars \/ CreateBudget \/ FlagExpires \/ AnalysisExpires \/ NewMonth
         \/ \E new \in LlmSettings : UpdateBudget(new)
  PROVE  BudgetInd'
<1>1. CASE UNCHANGED llmVars \/ FlagExpires \/ AnalysisExpires
  <2>1. UNCHANGED <<llmBudget, llmLock, llmUsage, llmCall>> /\ softFlag' \in BOOLEAN
    BY <1>1 DEF llmVars, FlagExpires, AnalysisExpires, BudgetInd
  <2>2. \A s \in LlmCalls : Reserved(s, llmCall[s])'
    BY <2>1 DEF BudgetInd, Reserved
  <2> QED
    BY <2>1, <2>2 DEF BudgetInd
<1>2. \A new \in [limit : Nat, soft : Nat, hard : BOOLEAN] : Configured(new) \in BudgetRow
  BY DEF Configured, BudgetInd, BudgetRow
<1>3. CASE CreateBudget
  <2>1. DefaultSettings \in [limit : Nat, soft : Nat, hard : BOOLEAN]
    BY DEF DefaultSettings
  <2>2. PICK r \in BudgetRow : r = Configured(DefaultSettings)
    BY <1>2, <2>1
  <2>3. llmBudget' \in BudgetRow
    BY <1>3, <2>2 DEF CreateBudget, BudgetRow
  <2>4. \A s \in LlmCalls : llmCall[s].pc \notin Reserving
    BY <1>3 DEF CreateBudget, BudgetInd, Reserved
  <2> QED
    BY <1>3, <2>3, <2>4, RowChanges DEF CreateBudget, BudgetInd
<1>4. ASSUME NEW new \in LlmSettings, UpdateBudget(new) PROVE BudgetInd'
  <2>1. llmBudget' \in BudgetRow
    BY <1>2, <1>4, LlmAssumption DEF UpdateBudget
  <2>2. \A s \in LlmCalls : llmCall[s].pc \notin Reserving
    BY <1>4, LlmAssumption DEF UpdateBudget, BudgetInd, Reserved
  <2> QED
    BY <1>4, <2>1, <2>2, RowChanges DEF UpdateBudget, BudgetInd
<1>5. CASE NewMonth
  <2>1. llmBudget' \in BudgetRow /\ llmUsage' \in Nat
    BY <1>5 DEF NewMonth, BudgetInd, BudgetRow
  <2>2. \A s \in LlmCalls : llmCall[s].pc \notin Reserving
    BY <1>5 DEF NewMonth, At, Reserving
  <2> QED
    BY <1>5, <2>1, <2>2, RowChanges DEF NewMonth
<1> QED
  BY <1>1, <1>3, <1>4, <1>5

\* No step breaks the invariant.
LEMMA BudgetStep == ASSUME BudgetInd, [LlmNext]_llmVars PROVE BudgetInd'
<1>1. ASSUME NEW s \in LlmCalls, CallStep(s) \/ LoseCall(s) PROVE BudgetInd'
  <2>1. ASSUME NEW cost \in 1..MaxLlmCost, Authorize(s, cost) PROVE BudgetInd'
    BY <2>1, Authorizing
  <2>2. CASE \/ \E cost \in 1..MaxLlmCost : RefuseAnalysis(s, cost)
             \/ SetupRaises(s) \/ AllProvidersFail(s) \/ ResultRaises(s) \/ EndApi(s) \/ LoseCall(s)
    BY <2>2, CallEnds DEF RefuseAnalysis, SetupRaises, AllProvidersFail, ResultRaises, EndApi, LoseCall
  <2>3. CASE \/ \E cost \in 1..MaxLlmCost, format \in Formats : Answer(s, cost, format)
             \/ RecordUsage(s) \/ SaveResult(s)
    BY <2>3, Proceeding
  <2> QED
    BY <1>1, <2>1, <2>2, <2>3, Choosing, JobCommits DEF CallStep
<1>2. ASSUME NEW s \in LlmCalls, NEW by \in {"api", "job"}, StartAnalysis(s, by) PROVE BudgetInd'
  BY <1>2, Proceeding
<1> QED
  BY <1>1, <1>2, BudgetElsewhere DEF LlmNext

\* Only a job that commits adds to the usage.
LEMMA UsageGrows ==
  ASSUME BudgetInd, [LlmNext]_llmVars
  PROVE  \/ \E s \in LlmCalls : EndJob(s)
         \/ llmUsage' = llmUsage \/ llmUsage' = 0
  BY DEF LlmNext, llmVars, CallStep, StartAnalysis, Authorize, RefuseAnalysis, SetupClient, SetupRaises, Answer,
         AllProvidersFail, RecordUsage, SaveResult, ResultRaises, EndApi, LoseCall, CreateBudget, UpdateBudget,
         FlagExpires, AnalysisExpires, NewMonth

\* The lock, the cache and the count of faults keep their types.
LEMMA LlmTypesStep == BudgetInd /\ LlmTypeOK /\ [LlmNext]_llmVars => LlmTypeOK'
<1> SUFFICES ASSUME BudgetInd, LlmTypeOK, [LlmNext]_llmVars PROVE LlmTypeOK'
  OBVIOUS
<1>1. BudgetInd'
  BY BudgetStep
<1>2. llmLock' \in LlmCalls \cup {"none"}
  <2>1. llmLock' \in LlmCalls \cup {llmLock, "none"}
    BY DEF LlmNext, llmVars, CallStep, StartAnalysis, Authorize, RefuseAnalysis, SetupClient, SetupRaises, Answer,
           AllProvidersFail, RecordUsage, SaveResult, ResultRaises, EndApi, EndJob, LoseCall, CreateBudget,
           UpdateBudget, FlagExpires, AnalysisExpires, NewMonth, Release
  <2> QED
    BY <2>1 DEF LlmTypeOK
<1>3. analysisCache' \in {"none", "result", "error"}
  <2>1. analysisCache' = analysisCache \/ analysisCache' \in {"none", "result", "error"}
    BY DEF LlmNext, llmVars, CallStep, StartAnalysis, Authorize, RefuseAnalysis, SetupClient, SetupRaises, Answer,
           AllProvidersFail, RecordUsage, SaveResult, ResultRaises, EndApi, EndJob, LoseCall, CreateBudget,
           UpdateBudget, FlagExpires, AnalysisExpires, NewMonth
  <2> QED
    BY <2>1 DEF LlmTypeOK
<1>4. llmFaults' \in 0..MaxLlmFaults
  <2>1. llmFaults' = llmFaults \/ (llmFaults < MaxLlmFaults /\ llmFaults' = llmFaults + 1)
    BY DEF LlmNext, llmVars, CallStep, StartAnalysis, Authorize, RefuseAnalysis, SetupClient, SetupRaises, Answer,
           AllProvidersFail, RecordUsage, SaveResult, ResultRaises, EndApi, EndJob, LoseCall, CreateBudget,
           UpdateBudget, FlagExpires, AnalysisExpires, NewMonth
  <2> QED
    BY <2>1, LlmAssumption DEF LlmTypeOK
<1> QED
  BY <1>1, <1>2, <1>3, <1>4 DEF LlmTypeOK, BudgetInd, BudgetRow, LlmCall, Reserving

\* Whatever calls and settings race: what a job adds to the month's usage fitted the limit as
\* it was estimated, the commit that reaches the threshold leaves the alert sent, and over
\* the threshold only cheap models are asked (budget_manager.py).
THEOREM BudgetIsRespected ==
  LlmSpec => CommittedSpendFits /\ ThresholdIsAlerted /\ [](LlmTypeOK /\ OverThresholdIsCheap)
<1>1. BudgetInd => OverThresholdIsCheap
  BY DEF BudgetInd, Reserved, OverThresholdIsCheap, At
<1>2. ASSUME BudgetInd
      PROVE  \A s \in LlmCalls :
               llmUsage' > llmUsage /\ At(s, "saved") /\ llmCall'[s].pc = "idle"
                 => llmUsage + llmCall[s].estimate <= llmBudget.limit
  BY <1>2 DEF BudgetInd, Reserved, Reserving, At
<1>3. ASSUME BudgetInd, [LlmNext]_llmVars
      PROVE  llmUsage' > llmUsage /\ llmUsage' >= llmBudget.soft => llmBudget'.alerted
  <2>1. CASE llmUsage' = llmUsage \/ llmUsage' = 0
    BY <1>3, <2>1 DEF BudgetInd
  <2> QED
    BY <1>3, <2>1, UsageGrows, JobCommits
<1>4. LlmInit => LlmTypeOK
  <2> SUFFICES ASSUME LlmInit PROVE LlmTypeOK
    OBVIOUS
  <2>1. BudgetInd
    BY BudgetStart
  <2> QED
    BY <2>1, LlmAssumption DEF LlmInit, LlmTypeOK, BudgetInd, BudgetRow, LlmCall, Reserving
<1> QED
  BY <1>1, <1>2, <1>3, <1>4, BudgetStart, BudgetStep, LlmTypesStep, PTL DEF LlmSpec, CommittedSpendFits, ThresholdIsAlerted
-----------------------------------------------------------------------------
(***************************************************************************)
(* The parts of the workers together: none of them moves another.          *)
(***************************************************************************)

\* A behaviour of the workers is a behaviour of each part, in which the part may rest.
LEMMA WorkersAreParts == WorkersSpec => Spec /\ SweepSpec /\ LlmSpec /\ CostSpec /\ CircuitSpec
<1>1. WorkersInit => Init /\ SweepInit /\ LlmInit /\ CostInit /\ CircuitInit
  BY DEF WorkersInit
<1>2. [WorkersNext]_WorkersVars => [Next]_vars
  BY DEF WorkersNext, WorkNext, WorkersVars, workVars
<1>3. [WorkersNext]_WorkersVars => [SweepNext]_sweepVars
  BY DEF WorkersNext, WorkNext, WorkersVars, workVars
<1>4. [WorkersNext]_WorkersVars => [LlmNext]_llmVars
  BY DEF WorkersNext, WorkNext, WorkersVars, workVars
<1>5. [WorkersNext]_WorkersVars => [CostNext]_costVars
  BY DEF WorkersNext, WorkNext, WorkersVars, workVars
<1>6. [WorkersNext]_WorkersVars => [CircuitNext]_circuitVars
  BY DEF WorkersNext, WorkNext, WorkersVars, workVars
<1> QED
  BY <1>1, <1>2, <1>3, <1>4, <1>5, <1>6, PTL DEF WorkersSpec, Spec, SweepSpec, LlmSpec, CostSpec, CircuitSpec

\* Every part of the workers keeps its types, and what the run of the workers checks of the
\* sweeps holds beside the other parts.
THEOREM WorkersKeepTheirTypes == WorkersSpec => [](WorkersTypeOK /\ SweepInv)
<1>1. (TypeOK /\ BillingInv) /\ (SweepTypeOK /\ SweepInv) /\ (LlmTypeOK /\ OverThresholdIsCheap)
        /\ (CostTypeOK /\ CostInv) /\ (CircuitTypeOK /\ ClosedHasRoom)
        => WorkersTypeOK /\ SweepInv
  BY DEF WorkersTypeOK
<1> QED
  BY <1>1, WorkersAreParts, BillingIsSettled, SweepsInsertOnce, BudgetIsRespected, RecordsAreTrue,
     CircuitsCloseConfirmed, PTL
=============================================================================
