--------------------------- MODULE RemediationProofs ---------------------------
(***************************************************************************)
(* Machine-checked proofs about Remediation, for any number of requests,   *)
(* executors and crashes, any savings and limits, and any reviewers until  *)
(* the last section, which assumes that approvals do not overlap.          *)
(***************************************************************************)
EXTENDS Remediation, TLAPS

-----------------------------------------------------------------------------
(* Type correctness.                                                       *)

\* Every step leaves the table and the calls well typed.
LEMMA TypeStep == TypeOK /\ [Next]_vars => TypeOK'
<1> USE RequestsAssumption, LimitsAssumption DEF rowVars, execVars, historyVars
<1> SUFFICES ASSUME TypeOK, [Next]_vars PROVE TypeOK'
  OBVIOUS
<1>1. ASSUME NEW r \in Requests, CreateRequest(r) \/ GracePasses(r) \/ JobLost(r)
      PROVE  TypeOK'
  BY <1>1 DEF CreateRequest, GracePasses, JobLost, TypeOK, RemediationStatus
<1>2. ASSUME NEW a \in Reviewers, NEW r \in Requests, ApproveRead(a, r) \/ ApproveWrite(a, r)
      PROVE  TypeOK'
  BY <1>2 DEF ApproveRead, ApproveWrite, TypeOK, RemediationStatus
<1>3. ASSUME NEW w \in Executors, Crash(w) PROVE TypeOK'
  BY <1>3 DEF Crash, TypeOK
<1>4. ASSUME NEW w \in Executors, NEW r \in Requests, Schedule(w, r) \/ EnqueueRun(w, r)
      PROVE  TypeOK'
  BY <1>4 DEF Schedule, EnqueueRun, TypeOK, RemediationStatus
<1>5. ASSUME NEW w \in Executors, NEW r \in Requests, NEW b \in BOOLEAN, Begin(w, r, b),
             job' \in [Requests -> {"none", "queued", "gone"}]
      PROVE  TypeOK'
  BY <1>5 DEF Begin, TypeOK, RemediationStatus
<1>6. ASSUME NEW w \in Executors, NEW r \in Requests, NEW b \in BOOLEAN, ApiBegin(w, r, b)
      PROVE  TypeOK'
  BY <1>5, <1>6 DEF ApiBegin, TypeOK
<1>7. ASSUME NEW w \in Executors, NEW r \in Requests, JobBegin(w, r) PROVE TypeOK'
  BY <1>5, <1>7 DEF JobBegin, TypeOK
<1>8. ASSUME NEW w \in Executors, NEW r \in Requests, Backup(w, r) \/ Act(w, r)
      PROVE  TypeOK'
  BY <1>8 DEF Backup, Act, TypeOK
<1>9. ASSUME NEW w \in Executors, NEW r \in Requests,
             BackupFails(w, r) \/ Succeed(w, r) \/ Fail(w, r)
      PROVE  TypeOK'
  BY <1>9 DEF BackupFails, Succeed, Fail, Settle, TypeOK, RemediationStatus
<1>10. CASE UNCHANGED vars
  BY <1>10 DEF vars, TypeOK
<1>11. QED
  BY <1>1, <1>2, <1>3, <1>4, <1>6, <1>7, <1>8, <1>9, <1>10 DEF Next

\* The state of remediation always has its type.
THEOREM TypeCorrect == Spec => []TypeOK
<1>1. Init => TypeOK
  BY LimitsAssumption DEF Init, TypeOK
<1>2. QED
  BY <1>1, TypeStep, PTL DEF Spec

-----------------------------------------------------------------------------
(* What holds for any number of reviewers.                                 *)

\* The call of w has committed EXECUTING for r and not ended.
Working(w, r) == pc[w] \in {"backup", "acting", "acted"} /\ r \in target[w]

\* A call works on one request, an idle executor on none.
Calls ==
  \A w \in Executors :
    /\ pc[w] = "idle" => target[w] = {}
    /\ \A q, r \in target[w] : q = r

\* A call that got past its backup block has made the backup it owed.
BackupDone ==
  \A w \in Executors, r \in WantsBackup \cap Snapshottable :
    pc[w] \in {"acting", "acted"} /\ r \in target[w] => r \in backedUp

RemediationInv == TypeOK /\ Calls /\ BackupDone /\ ExecutingIsOwned /\ BackupBeforeAct

\* The inductive step of RemediationInv.
LEMMA RemediationStep == RemediationInv /\ [Next]_vars => RemediationInv'
<1> USE RequestsAssumption, LimitsAssumption DEF rowVars, execVars, historyVars
<1> SUFFICES ASSUME RemediationInv, [Next]_vars PROVE RemediationInv'
  OBVIOUS
<1>t. TypeOK /\ TypeOK'
  BY TypeStep DEF RemediationInv
<1> DEFINE Rest == Calls /\ BackupDone /\ ExecutingIsOwned /\ BackupBeforeAct
<1>r. Rest
  BY DEF RemediationInv
<1> SUFFICES Rest'
  BY <1>t DEF RemediationInv
<1> HIDE DEF Rest
<1>1. ASSUME NEW r \in Requests, CreateRequest(r) \/ GracePasses(r) \/ JobLost(r)
      PROVE  Rest'
  BY <1>1, <1>t, <1>r
  DEF CreateRequest, GracePasses, JobLost, Rest, TypeOK, Calls, BackupDone,
      ExecutingIsOwned, BackupBeforeAct
<1>2. ASSUME NEW a \in Reviewers, NEW r \in Requests, ApproveRead(a, r) \/ ApproveWrite(a, r)
      PROVE  Rest'
  BY <1>2, <1>t, <1>r
  DEF ApproveRead, ApproveWrite, Rest, TypeOK, Calls, BackupDone,
      ExecutingIsOwned, BackupBeforeAct
<1>3. ASSUME NEW w \in Executors, Crash(w) PROVE Rest'
  <2>1. Calls' /\ BackupDone' /\ BackupBeforeAct'
    BY <1>3, <1>t, <1>r DEF Crash, Rest, TypeOK, Calls, BackupDone, BackupBeforeAct
  <2>2. ExecutingIsOwned'
    BY <1>3, <1>t, <1>r DEF Crash, Rest, TypeOK, ExecutingIsOwned
  <2>3. QED
    BY <2>1, <2>2 DEF Rest
<1>4. ASSUME NEW w \in Executors, NEW r \in Requests, Schedule(w, r) \/ EnqueueRun(w, r)
      PROVE  Rest'
  <2>1. Calls' /\ BackupDone' /\ BackupBeforeAct'
    BY <1>4, <1>t, <1>r
    DEF Schedule, EnqueueRun, Rest, TypeOK, Calls, BackupDone, BackupBeforeAct
  <2>2. ExecutingIsOwned'
    BY <1>4, <1>t, <1>r
    DEF Schedule, EnqueueRun, Rest, TypeOK, ExecutingIsOwned
  <2>3. QED
    BY <2>1, <2>2 DEF Rest
<1>5. ASSUME NEW w \in Executors, NEW r \in Requests, NEW b \in BOOLEAN, Begin(w, r, b)
      PROVE  Rest'
  <2>1. Calls' /\ BackupDone' /\ BackupBeforeAct'
    BY <1>5, <1>t, <1>r DEF Begin, Rest, TypeOK, Calls, BackupDone, BackupBeforeAct
  <2>2. ExecutingIsOwned'
    BY <1>5, <1>t, <1>r DEF Begin, Rest, TypeOK, ExecutingIsOwned
  <2>3. QED
    BY <2>1, <2>2 DEF Rest
<1>6. ASSUME NEW w \in Executors, NEW r \in Requests, Backup(w, r) PROVE Rest'
  <2>1. Calls' /\ BackupDone' /\ BackupBeforeAct'
    BY <1>6, <1>t, <1>r DEF Backup, Rest, TypeOK, Calls, BackupDone, BackupBeforeAct
  <2>2. ExecutingIsOwned'
    BY <1>6, <1>t, <1>r DEF Backup, Rest, TypeOK, ExecutingIsOwned
  <2>3. QED
    BY <2>1, <2>2 DEF Rest
<1>7. ASSUME NEW w \in Executors, NEW r \in Requests, Act(w, r) PROVE Rest'
  <2>1. Calls' /\ BackupDone' /\ BackupBeforeAct'
    BY <1>7, <1>t, <1>r DEF Act, Rest, TypeOK, Calls, BackupDone, BackupBeforeAct
  <2>2. ExecutingIsOwned'
    BY <1>7, <1>t, <1>r DEF Act, Rest, TypeOK, ExecutingIsOwned
  <2>3. QED
    BY <2>1, <2>2 DEF Rest
<1>8. ASSUME NEW w \in Executors, NEW r \in Requests, NEW o \in {"completed", "failed"},
             Settle(w, r, o), UNCHANGED <<orphans, acts>>
      PROVE  Rest'
  <2>1. Calls' /\ BackupDone' /\ BackupBeforeAct'
    BY <1>8, <1>t, <1>r DEF Settle, Rest, TypeOK, Calls, BackupDone, BackupBeforeAct
  <2>2. ExecutingIsOwned'
    BY <1>8, <1>t, <1>r DEF Settle, Rest, TypeOK, Calls, ExecutingIsOwned
  <2>3. QED
    BY <2>1, <2>2 DEF Rest
<1>9. ASSUME NEW w \in Executors, NEW r \in Requests,
             BackupFails(w, r) \/ Succeed(w, r) \/ Fail(w, r)
      PROVE  Rest'
  BY <1>8, <1>9 DEF BackupFails, Succeed, Fail, Settle
<1>10. CASE UNCHANGED vars
  BY <1>10, <1>r DEF vars, Rest, Calls, BackupDone, ExecutingIsOwned, BackupBeforeAct
<1>11. QED
  BY <1>1, <1>2, <1>3, <1>4, <1>5, <1>6, <1>7, <1>9, <1>10 DEF Next, ApiBegin, JobBegin

\* The invariant holds in every reachable state.
LEMMA RemediationInvariant == Spec => []RemediationInv
<1>1. Init => RemediationInv
  <2>1. Init => TypeOK
    BY LimitsAssumption DEF Init, TypeOK
  <2>2. Init => Calls /\ BackupDone /\ ExecutingIsOwned /\ BackupBeforeAct
    BY RequestsAssumption DEF Init, Calls, BackupDone, ExecutingIsOwned, BackupBeforeAct
  <2>3. QED
    BY <2>1, <2>2 DEF RemediationInv
<1>2. QED
  BY <1>1, RemediationStep, PTL DEF Spec

\* An EXECUTING request is being worked on, or the process that worked on it
\* died: execute has no path that forgets the outcome.
THEOREM ExecutingRequestsAreOwned == Spec => []ExecutingIsOwned
<1>1. RemediationInv => ExecutingIsOwned
  BY DEF RemediationInv
<1>2. QED
  BY <1>1, RemediationInvariant, PTL

\* No action on a resource comes before the backup that was asked for, where
\* execute has a backup routine.
THEOREM BackupsComeFirst == Spec => []BackupBeforeAct
<1>1. RemediationInv => BackupBeforeAct
  BY DEF RemediationInv
<1>2. QED
  BY <1>1, RemediationInvariant, PTL
-----------------------------------------------------------------------------
(* What holds when approvals do not overlap.                               *)

\* A request that is being approved is still PENDING; the request a call works
\* on is EXECUTING, its grace period is over or bypassed, no other call works on
\* it, and the cloud has been asked for nothing before the call acts.
Reviews == \A a \in Reviewers : \A r \in reviewing[a] : status[r] = "pending"

Work ==
  \A w \in Executors, r \in Requests : Working(w, r) =>
    /\ status[r] = "executing"
    /\ w \in bypass \/ r \in ripe
    /\ acts[r] = IF pc[w] = "acted" THEN 1 ELSE 0

Alone ==
  \A v, w \in Executors, r \in Requests : Working(v, r) /\ Working(w, r) => v = w

Untouched ==
  \A r \in Requests :
    status[r] \in {"absent", "pending", "approved", "scheduled"} => acts[r] = 0

ReviewedInv ==
  /\ TypeOK
  /\ Calls
  /\ Reviews
  /\ Work
  /\ Alone
  /\ Untouched
  /\ OneActPerRequest

\* The inductive step of ReviewedInv, for one reviewer.
LEMMA ReviewedStep ==
  ASSUME \A a, b \in Reviewers : a = b
  PROVE  ReviewedInv /\ [Next]_vars => ReviewedInv'
<1> USE RequestsAssumption, LimitsAssumption DEF rowVars, execVars, historyVars
<1> SUFFICES ASSUME ReviewedInv, [Next]_vars PROVE ReviewedInv'
  OBVIOUS
<1>t. TypeOK /\ TypeOK'
  BY TypeStep DEF ReviewedInv
<1> DEFINE Rest == Calls /\ Reviews /\ Work /\ Alone /\ Untouched /\ OneActPerRequest
<1>r. Rest
  BY DEF ReviewedInv
<1> SUFFICES Rest'
  BY <1>t DEF ReviewedInv
<1> HIDE DEF Rest
<1>1. ASSUME NEW r \in Requests, CreateRequest(r) \/ GracePasses(r) \/ JobLost(r)
      PROVE  Rest'
  <2>1. Calls' /\ Reviews' /\ Alone' /\ Untouched' /\ OneActPerRequest'
    BY <1>1, <1>t, <1>r
    DEF CreateRequest, GracePasses, JobLost, Rest, TypeOK, Calls, Reviews, Working, Alone,
        Untouched, OneActPerRequest
  <2>2. Work'
    BY <1>1, <1>t, <1>r
    DEF CreateRequest, GracePasses, JobLost, Rest, TypeOK, Working, Work
  <2>3. QED
    BY <2>1, <2>2 DEF Rest
<1>2. ASSUME NEW a \in Reviewers, NEW r \in Requests, ApproveRead(a, r) \/ ApproveWrite(a, r)
      PROVE  Rest'
  <2>1. Calls' /\ Reviews' /\ Alone' /\ Untouched' /\ OneActPerRequest'
    BY <1>2, <1>t, <1>r
    DEF ApproveRead, ApproveWrite, Rest, TypeOK, Calls, Reviews, Working, Alone,
        Untouched, OneActPerRequest
  <2>2. Work'
    BY <1>2, <1>t, <1>r
    DEF ApproveRead, ApproveWrite, Rest, TypeOK, Reviews, Working, Work
  <2>3. QED
    BY <2>1, <2>2 DEF Rest
<1>3. ASSUME NEW w \in Executors, Crash(w) PROVE Rest'
  <2>1. \A v \in Executors, r \in Requests : Working(v, r)' => Working(v, r) /\ v # w
    BY <1>3, <1>t DEF Crash, TypeOK, Working
  <2>2. Calls' /\ Reviews' /\ Untouched' /\ OneActPerRequest'
    BY <1>3, <1>t, <1>r
    DEF Crash, Rest, TypeOK, Calls, Reviews, Untouched, OneActPerRequest
  <2>3. Work' /\ Alone'
    BY <1>3, <2>1, <1>t, <1>r DEF Crash, Rest, TypeOK, Work, Alone
  <2>4. QED
    BY <2>2, <2>3 DEF Rest
<1>4. ASSUME NEW w \in Executors, NEW r \in Requests, Schedule(w, r) \/ EnqueueRun(w, r)
      PROVE  Rest'
  <2>1. \A v \in Executors, q \in Requests : Working(v, q)' => Working(v, q) /\ v # w
    BY <1>4, <1>t DEF Schedule, EnqueueRun, TypeOK, Working
  <2>2. Calls' /\ Reviews' /\ Untouched' /\ OneActPerRequest'
    BY <1>4, <1>t, <1>r
    DEF Schedule, EnqueueRun, Rest, TypeOK, Calls, Reviews, Untouched, OneActPerRequest
  <2>3. Work' /\ Alone'
    BY <1>4, <2>1, <1>t, <1>r DEF Schedule, EnqueueRun, Rest, TypeOK, Work, Alone
  <2>4. QED
    BY <2>2, <2>3 DEF Rest
<1>5. ASSUME NEW w \in Executors, NEW r \in Requests, NEW b \in BOOLEAN, Begin(w, r, b)
      PROVE  Rest'
  <2>1. \A v \in Executors, q \in Requests :
          Working(v, q)' => (Working(v, q) /\ v # w /\ q # r) \/ (v = w /\ q = r)
    BY <1>5, <1>t, <1>r DEF Begin, MayBegin, TypeOK, Working, Rest, Work
  <2>2. Calls' /\ Reviews' /\ Untouched' /\ OneActPerRequest'
    BY <1>5, <1>t, <1>r
    DEF Begin, MayBegin, Rest, TypeOK, Calls, Reviews, Untouched, OneActPerRequest
  <2>3. acts[r] = 0 /\ pc'[w] = "backup" /\ status'[r] = "executing" /\ (b \/ r \in ripe)
    BY <1>5, <1>t, <1>r DEF Begin, MayBegin, Rest, TypeOK, Untouched
  <2>4. Work'
    BY <1>5, <2>1, <2>3, <1>t, <1>r DEF Begin, Rest, TypeOK, Work
  <2>5. Alone'
    BY <2>1, <1>r DEF Rest, Alone
  <2>6. QED
    BY <2>2, <2>4, <2>5 DEF Rest
<1>6. ASSUME NEW w \in Executors, NEW r \in Requests, Backup(w, r) PROVE Rest'
  <2>1. \A v \in Executors, q \in Requests : Working(v, q)' => Working(v, q)
    BY <1>6, <1>t DEF Backup, TypeOK, Working
  <2>2. Calls' /\ Reviews' /\ Untouched' /\ OneActPerRequest'
    BY <1>6, <1>t, <1>r
    DEF Backup, Rest, TypeOK, Calls, Reviews, Untouched, OneActPerRequest
  <2>3. Work' /\ Alone'
    BY <1>6, <2>1, <1>t, <1>r DEF Backup, Rest, TypeOK, Work, Alone
  <2>4. QED
    BY <2>2, <2>3 DEF Rest
<1>7. ASSUME NEW w \in Executors, NEW r \in Requests, Act(w, r) PROVE Rest'
  <2>1. \A v \in Executors, q \in Requests : Working(v, q)' => Working(v, q)
    BY <1>7, <1>t DEF Act, TypeOK, Working
  <2>2. Working(w, r) /\ status[r] = "executing" /\ acts[r] = 0 /\ acts'[r] = 1 /\ pc'[w] = "acted"
    BY <1>7, <1>t, <1>r DEF Act, TypeOK, Working, Rest, Work
  <2>3. Calls' /\ Reviews' /\ Untouched' /\ OneActPerRequest'
    BY <1>7, <2>2, <1>t, <1>r
    DEF Act, Rest, TypeOK, Calls, Reviews, Untouched, OneActPerRequest
  <2>4. \A q \in target[w] : q = r
    BY <1>7, <1>r DEF Act, Rest, Calls
  <2>5. Work'
    <3> SUFFICES ASSUME NEW v \in Executors, NEW q \in Requests, Working(v, q)'
                 PROVE  /\ status'[q] = "executing"
                        /\ v \in bypass' \/ q \in ripe'
                        /\ acts'[q] = IF pc'[v] = "acted" THEN 1 ELSE 0
      BY DEF Work
    <3>1. Working(v, q)
      BY <2>1
    <3>2. CASE v = w
      BY <3>1, <3>2, <2>2, <2>4, <1>7, <1>r DEF Act, Rest, Work, Working
    <3>3. CASE v # w
      <4>1. q # r
        BY <3>1, <3>3, <2>2, <1>r DEF Rest, Alone
      <4>2. QED
        BY <3>1, <3>3, <4>1, <1>7, <1>t, <1>r DEF Act, Rest, TypeOK, Work
    <3>4. QED
      BY <3>2, <3>3
  <2>6. Alone'
    BY <2>1, <1>r DEF Rest, Alone
  <2>7. QED
    BY <2>3, <2>5, <2>6 DEF Rest
<1>8. ASSUME NEW w \in Executors, NEW r \in Requests, NEW o \in {"completed", "failed"},
             Settle(w, r, o), pc[w] \in {"backup", "acting", "acted"}, UNCHANGED acts
      PROVE  Rest'
  <2>1. Working(w, r) /\ status[r] = "executing"
    BY <1>8, <1>r DEF Settle, Rest, Work, Working
  <2>2. \A v \in Executors, q \in Requests :
          Working(v, q)' => Working(v, q) /\ v # w /\ q # r
    BY <1>8, <2>1, <1>t, <1>r DEF Settle, TypeOK, Working, Rest, Alone
  <2>3. Calls' /\ Reviews' /\ Untouched' /\ OneActPerRequest'
    BY <1>8, <2>1, <1>t, <1>r
    DEF Settle, Rest, TypeOK, Calls, Reviews, Untouched, OneActPerRequest
  <2>4. Work' /\ Alone'
    BY <1>8, <2>2, <1>t, <1>r DEF Settle, Rest, TypeOK, Work, Alone
  <2>5. QED
    BY <2>3, <2>4 DEF Rest
<1>9. ASSUME NEW w \in Executors, NEW r \in Requests,
             BackupFails(w, r) \/ Succeed(w, r) \/ Fail(w, r)
      PROVE  Rest'
  BY <1>8, <1>9 DEF BackupFails, Succeed, Fail, Settle
<1>10. CASE UNCHANGED vars
  BY <1>10, <1>r
  DEF vars, Rest, Calls, Reviews, Work, Working, Alone, Untouched, OneActPerRequest
<1>11. QED
  BY <1>1, <1>2, <1>3, <1>4, <1>5, <1>6, <1>7, <1>9, <1>10 DEF Next, ApiBegin, JobBegin

\* ReviewedInv holds in every reachable state, for one reviewer.
LEMMA ReviewedInvariant ==
  ASSUME \A a, b \in Reviewers : a = b
  PROVE  Spec => []ReviewedInv
<1>1. Init => ReviewedInv
  <2>1. Init => TypeOK
    BY LimitsAssumption DEF Init, TypeOK
  <2>2. Init => Calls /\ Reviews /\ Work /\ Alone /\ Untouched /\ OneActPerRequest
    BY DEF Init, Calls, Reviews, Work, Working, Alone, Untouched, OneActPerRequest
  <2>3. QED
    BY <2>1, <2>2 DEF ReviewedInv
<1>2. ReviewedInv /\ [Next]_vars => ReviewedInv'
  BY ReviewedStep
<1>3. QED
  BY <1>1, <1>2, PTL DEF Spec

\* Whatever calls of execute race, retry or crash, the cloud action of a
\* request is carried out at most once.
THEOREM OneReviewerActsOnce ==
  ASSUME \A a, b \in Reviewers : a = b
  PROVE  Spec => []OneActPerRequest
<1>1. ReviewedInv => OneActPerRequest
  BY DEF ReviewedInv
<1>2. Spec => []ReviewedInv
  BY ReviewedInvariant
<1>3. QED
  BY <1>1, <1>2, PTL

\* A resource is only touched when the grace period of its request is over, or
\* by a call that was told to bypass it.
THEOREM OneReviewerWaitsGrace ==
  ASSUME \A a, b \in Reviewers : a = b
  PROVE  Spec => GraceBeforeAct
<1> DEFINE Waited == \A r \in Requests : acts'[r] > acts[r] =>
                       \E w \in Executors : r \in target[w] /\ (w \in bypass \/ r \in ripe)
<1>1. ReviewedInv /\ [Next]_vars => [Waited]_vars
  <2> SUFFICES ASSUME ReviewedInv, Next, NEW r \in Requests, acts'[r] > acts[r]
               PROVE  \E w \in Executors : r \in target[w] /\ (w \in bypass \/ r \in ripe)
    BY DEF vars
  <2>t. TypeOK
    BY DEF ReviewedInv
  <2>1. acts' # acts
    BY <2>t DEF TypeOK
  <2>2. PICK w \in Executors, q \in Requests : Act(w, q)
    <3>1. ASSUME NEW q \in Requests PROVE ~CreateRequest(q) /\ ~GracePasses(q) /\ ~JobLost(q)
      BY <2>1 DEF CreateRequest, GracePasses, JobLost, historyVars
    <3>2. ASSUME NEW a \in Reviewers, NEW q \in Requests
          PROVE  ~ApproveRead(a, q) /\ ~ApproveWrite(a, q)
      BY <2>1 DEF ApproveRead, ApproveWrite, historyVars
    <3>3. ASSUME NEW w \in Executors PROVE ~Crash(w)
      BY <2>1 DEF Crash
    <3>4. ASSUME NEW w \in Executors, NEW q \in Requests
          PROVE  /\ ~Schedule(w, q) /\ ~EnqueueRun(w, q)
                 /\ \A b \in BOOLEAN : ~ApiBegin(w, q, b)
                 /\ ~JobBegin(w, q)
      BY <2>1 DEF Schedule, EnqueueRun, Begin, ApiBegin, JobBegin, historyVars
    <3>5. ASSUME NEW w \in Executors, NEW q \in Requests
          PROVE  ~Backup(w, q) /\ ~BackupFails(w, q) /\ ~Succeed(w, q) /\ ~Fail(w, q)
      BY <2>1 DEF Backup, BackupFails, Succeed, Fail, Settle, historyVars
    <3>6. QED
      BY <3>1, <3>2, <3>3, <3>4, <3>5 DEF Next
  <2>3. q = r
    BY <2>2, <2>t DEF Act, TypeOK
  <2>4. Working(w, r)
    BY <2>2, <2>3 DEF Act, Working
  <2>5. QED
    BY <2>4 DEF Working, ReviewedInv, Work
<1>2. Spec => []ReviewedInv
  BY ReviewedInvariant
<1>3. QED
  BY <1>1, <1>2, PTL DEF Spec, GraceBeforeAct

\* A step of remediation from a ReviewedInv state refines a step of the lifecycle.
LEMMA RequestStep ==
  ASSUME \A a, b \in Reviewers : a = b
  PROVE  ReviewedInv /\ [Next]_vars => [Lifecycle!Next]_(Lifecycle!vars)
<1> USE DEF rowVars, execVars, historyVars
<1> SUFFICES ASSUME ReviewedInv, [Next]_vars PROVE [Lifecycle!Next]_(Lifecycle!vars)
  OBVIOUS
<1>t. TypeOK
  BY DEF ReviewedInv
<1>1. ASSUME NEW r \in Requests, CreateRequest(r) PROVE Lifecycle!Create(r)
  BY <1>1 DEF CreateRequest, Lifecycle!Create, Lifecycle!Move
<1>2. ASSUME NEW a \in Reviewers, NEW r \in Requests, ApproveWrite(a, r)
      PROVE  Lifecycle!Approve(r)
  <2>1. status[r] = "pending"
    BY <1>2 DEF ApproveWrite, ReviewedInv, Reviews
  <2>2. QED
    BY <1>2, <2>1 DEF ApproveWrite, Lifecycle!Approve, Lifecycle!Move
<1>3. ASSUME NEW w \in Executors, NEW r \in Requests, Schedule(w, r)
      PROVE  Lifecycle!Schedule(r)
  BY <1>3 DEF Schedule, Lifecycle!Schedule, Lifecycle!Move
<1>4. ASSUME NEW w \in Executors, NEW r \in Requests, NEW b \in BOOLEAN, Begin(w, r, b)
      PROVE  Lifecycle!Begin(r)
  BY <1>4 DEF Begin, MayBegin, Lifecycle!Begin, Lifecycle!Move
<1>5. ASSUME NEW w \in Executors, NEW r \in Requests, Act(w, r)
      PROVE  Lifecycle!Act(r)
  <2>1. Working(w, r) /\ pc[w] = "acting"
    BY <1>5 DEF Act, Working
  <2>2. status[r] = "executing" /\ acts[r] = 0
    BY <2>1 DEF ReviewedInv, Work
  <2>3. acts' = [acts EXCEPT ![r] = 1]
    BY <1>5, <2>2, <1>t DEF Act, TypeOK
  <2>4. QED
    BY <1>5, <2>2, <2>3 DEF Act, Lifecycle!Act
<1>6. ASSUME NEW w \in Executors, NEW r \in Requests, Succeed(w, r)
      PROVE  Lifecycle!Complete(r)
  <2>1. Working(w, r) /\ pc[w] = "acted"
    BY <1>6 DEF Succeed, Settle, Working
  <2>2. status[r] = "executing" /\ acts[r] = 1
    BY <2>1 DEF ReviewedInv, Work
  <2>3. QED
    BY <1>6, <2>2 DEF Succeed, Settle, Lifecycle!Complete, Lifecycle!Move
<1>7. ASSUME NEW w \in Executors, NEW r \in Requests, BackupFails(w, r) \/ Fail(w, r)
      PROVE  Lifecycle!Fail(r)
  <2>1. Working(w, r) /\ Settle(w, r, "failed")
    BY <1>7 DEF BackupFails, Fail, Settle, Working
  <2>2. status[r] = "executing"
    BY <2>1 DEF ReviewedInv, Work
  <2>3. QED
    BY <2>1, <2>2 DEF Settle, Lifecycle!Fail, Lifecycle!Move
<1>8. ASSUME UNCHANGED <<status, acts>> PROVE UNCHANGED Lifecycle!vars
  BY <1>8 DEF Lifecycle!vars
<1>9. CASE UNCHANGED vars
  BY <1>8, <1>9 DEF vars
<1>10. ASSUME NEW r \in Requests, GracePasses(r) \/ JobLost(r) PROVE UNCHANGED Lifecycle!vars
  BY <1>8, <1>10 DEF GracePasses, JobLost
<1>11. ASSUME NEW a \in Reviewers, NEW r \in Requests, ApproveRead(a, r)
       PROVE  UNCHANGED Lifecycle!vars
  BY <1>8, <1>11 DEF ApproveRead
<1>12. ASSUME NEW w \in Executors, Crash(w) PROVE UNCHANGED Lifecycle!vars
  BY <1>8, <1>12 DEF Crash
<1>13. ASSUME NEW w \in Executors, NEW r \in Requests, EnqueueRun(w, r) \/ Backup(w, r)
       PROVE  UNCHANGED Lifecycle!vars
  BY <1>8, <1>13 DEF EnqueueRun, Backup
<1>14. QED
  BY <1>1, <1>2, <1>3, <1>4, <1>5, <1>6, <1>7, <1>9, <1>10, <1>11, <1>12, <1>13
  DEF Next, ApiBegin, JobBegin, Lifecycle!Next

\* Remediation implements the lifecycle of its requests when approvals do not
\* overlap.
THEOREM RemediationRefinesLifecycle ==
  ASSUME \A a, b \in Reviewers : a = b
  PROVE  Spec => LifecycleSpec
<1>1. Init => Lifecycle!Init
  BY DEF Init, Lifecycle!Init
<1>2. ReviewedInv /\ [Next]_vars => [Lifecycle!Next]_(Lifecycle!vars)
  BY RequestStep
<1>3. Spec => []ReviewedInv
  BY ReviewedInvariant
<1>4. QED
  BY <1>1, <1>2, <1>3, PTL DEF Spec, LifecycleSpec, Lifecycle!Spec
=============================================================================
