----------------------------- MODULE Remediation -----------------------------
(***************************************************************************)
(* Remediation requests: RemediationService.create_request, approve and    *)
(* execute, with the safety guards of SafetyGuardrailService, called       *)
(* concurrently by the API, the savings autopilot and the job handler.     *)
(*                                                                         *)
(* approve reads the request without a lock and writes APPROVED later, so  *)
(* its two halves are two actions.  execute holds the row lock (SELECT ... *)
(* FOR UPDATE) from its read to its first commit, so that part is one      *)
(* action; the rest of it (backup, cloud action, outcome) runs after the   *)
(* commit, without the lock, each commit or cloud call an action of its    *)
(* own.  An execute that raises or is deferred before the first commit     *)
(* changes nothing, so it is the step not taken: this covers a tripped     *)
(* guard, a wrong status and the monthly hard cap.                         *)
(*                                                                         *)
(* One day is modelled, so "executed today" is "executed_at is set".       *)
(* reject and enforce_hard_limit are left out: nothing in src/app calls    *)
(* them.                                                                   *)
(***************************************************************************)
EXTENDS Naturals, FiniteSets, FiniteSetsExt

CONSTANTS
  Requests,       \* rows of remediation_requests
  Executors,      \* concurrent callers of execute
  Reviewers,      \* concurrent callers of approve
  Savings,        \* estimated_monthly_savings of each request
  WantsBackup,    \* requests with create_backup set
  Snapshottable,  \* requests whose action has a backup routine
  Threshold,      \* REMEDIATION_KILL_SWITCH_THRESHOLD
  BreakerLimit,   \* failures per day that open the circuit breaker (5)
  JobsAreLost,    \* whether a queued job may disappear (see JobQueue)
  MaxCrashes      \* bound: executors that may die while working

ASSUME RequestsAssumption ==
  /\ IsFiniteSet(Requests)
  /\ Savings \in [Requests -> Nat]
  /\ WantsBackup \subseteq Requests
  /\ Snapshottable \subseteq Requests

ASSUME LimitsAssumption ==
  /\ Threshold \in Nat
  /\ BreakerLimit \in Nat
  /\ JobsAreLost \in BOOLEAN
  /\ MaxCrashes \in Nat

VARIABLES
  status,     \* status of every request
  dated,      \* requests whose executed_at is set
  backedUp,   \* requests whose backup_resource_id is set
  ripe,       \* requests whose scheduled_execution_at has passed
  job,        \* the REMEDIATION job execute enqueues for the request
  pc,         \* where each executor is
  target,     \* the request it works on
  bypass,     \* executors that were called with bypass_grace_period
  reviewing,  \* requests each reviewer has read as PENDING
  orphans,    \* history: requests whose executor died after EXECUTING
  acts,       \* history: cloud actions carried out for each request
  crashes     \* how many executors have died

rowVars == <<status, dated, backedUp, ripe>>
execVars == <<pc, target, bypass>>
historyVars == <<orphans, acts, crashes>>
vars == <<rowVars, job, execVars, reviewing, historyVars>>

RemediationStatus == {"pending", "approved", "scheduled", "executing", "completed", "failed"}

TypeOK ==
  /\ status \in [Requests -> RemediationStatus \cup {"absent"}]
  /\ dated \in SUBSET Requests
  /\ backedUp \in SUBSET Requests
  /\ ripe \in SUBSET Requests
  /\ job \in [Requests -> {"none", "queued", "gone"}]
  /\ pc \in [Executors -> {"idle", "scheduling", "backup", "acting", "acted"}]
  /\ target \in [Executors -> SUBSET Requests]
  /\ bypass \in SUBSET Executors
  /\ reviewing \in [Reviewers -> SUBSET Requests]
  /\ orphans \in SUBSET Requests
  /\ acts \in [Requests -> Nat]
  /\ crashes \in 0..MaxCrashes

Init ==
  /\ status = [r \in Requests |-> "absent"]
  /\ dated = {}
  /\ backedUp = {}
  /\ ripe = {}
  /\ job = [r \in Requests |-> "none"]
  /\ pc = [w \in Executors |-> "idle"]
  /\ target = [w \in Executors |-> {}]
  /\ bypass = {}
  /\ reviewing = [a \in Reviewers |-> {}]
  /\ orphans = {}
  /\ acts = [r \in Requests |-> 0]
  /\ crashes = 0

-----------------------------------------------------------------------------
(* Requests and reviews.                                                   *)

CreateRequest(r) ==
  /\ status[r] = "absent"
  /\ status' = [status EXCEPT ![r] = "pending"]
  /\ UNCHANGED <<dated, backedUp, ripe, job, execVars, reviewing, historyVars>>

\* approve: an unlocked read that must find PENDING ...
ApproveRead(a, r) ==
  /\ reviewing[a] = {}
  /\ status[r] = "pending"
  /\ reviewing' = [reviewing EXCEPT ![a] = {r}]
  /\ UNCHANGED <<rowVars, job, execVars, historyVars>>

\* ... and a commit of APPROVED, whatever the row has become.
ApproveWrite(a, r) ==
  /\ r \in reviewing[a]
  /\ status' = [status EXCEPT ![r] = "approved"]
  /\ reviewing' = [reviewing EXCEPT ![a] = {}]
  /\ UNCHANGED <<dated, backedUp, ripe, job, execVars, historyVars>>

\* now reaches scheduled_execution_at, which is also the job's scheduled_for.
GracePasses(r) ==
  /\ status[r] = "scheduled"
  /\ r \notin ripe
  /\ ripe' = ripe \cup {r}
  /\ UNCHANGED <<status, dated, backedUp, job, execVars, reviewing, historyVars>>

-----------------------------------------------------------------------------
(* Safety guards: kill switch on the savings of the day, failure breaker.  *)

Completed == {r \in Requests : status[r] = "completed" /\ r \in dated}
TotalImpact == MapThenSumSet(LAMBDA r : Savings[r], Completed)
FailuresToday == {r \in Requests : status[r] = "failed" /\ r \in dated}

KillSwitchAllows(r) == TotalImpact + Savings[r] < Threshold
BreakerAllows == Cardinality(FailuresToday) < BreakerLimit
GuardsPass(r) == KillSwitchAllows(r) /\ BreakerAllows

-----------------------------------------------------------------------------
(* execute.                                                                *)

\* First call on an approved request without bypass: commit SCHEDULED.
Schedule(w, r) ==
  /\ pc[w] = "idle"
  /\ GuardsPass(r)
  /\ status[r] = "approved"
  /\ status' = [status EXCEPT ![r] = "scheduled"]
  /\ ripe' = ripe \ {r}
  /\ pc' = [pc EXCEPT ![w] = "scheduling"]
  /\ target' = [target EXCEPT ![w] = {r}]
  /\ UNCHANGED <<dated, backedUp, job, bypass, reviewing, historyVars>>

\* enqueue_job, with a commit of its own.
EnqueueRun(w, r) ==
  /\ pc[w] = "scheduling"
  /\ r \in target[w]
  /\ job' = [job EXCEPT ![r] = "queued"]
  /\ pc' = [pc EXCEPT ![w] = "idle"]
  /\ target' = [target EXCEPT ![w] = {}]
  /\ UNCHANGED <<rowVars, bypass, reviewing, historyVars>>

\* Mutants of MayBegin: the grace period is not waited for; an approval is not
\* asked for; a failed request may be tried again.
MayBeginUnripe(r, b) == status[r] = "scheduled" \/ (status[r] = "approved" /\ b)
MayBeginUnapproved(r, b) ==
  \/ status[r] = "scheduled" /\ r \in ripe
  \/ status[r] \in {"pending", "approved"} /\ b
MayBeginAgain(r, b) ==
  \/ status[r] = "scheduled" /\ r \in ripe
  \/ status[r] \in {"approved", "failed"} /\ b

\* The call that commits EXECUTING: the grace period of a scheduled request is
\* over, or an approved one is executed with bypass_grace_period (b).
MayBegin(r, b) ==
  \/ status[r] = "scheduled" /\ r \in ripe
  \/ status[r] = "approved" /\ b

Begin(w, r, b) ==
  /\ pc[w] = "idle"
  /\ GuardsPass(r)
  /\ MayBegin(r, b)
  /\ status' = [status EXCEPT ![r] = "executing"]
  /\ pc' = [pc EXCEPT ![w] = "backup"]
  /\ target' = [target EXCEPT ![w] = {r}]
  /\ bypass' = IF b THEN bypass \cup {w} ELSE bypass \ {w}
  /\ UNCHANGED <<dated, backedUp, ripe, reviewing, historyVars>>

\* POST /execute/{request_id}, or the savings autopilot (bypass always set).
ApiBegin(w, r, b) == Begin(w, r, b) /\ UNCHANGED job

\* The handler of the job execute enqueued, once the job is due.
JobBegin(w, r) ==
  /\ job[r] = "queued"
  /\ r \in ripe
  /\ Begin(w, r, FALSE)
  /\ job' = [job EXCEPT ![r] = "gone"]

\* The job is used up without executing: the handler raised until the job was
\* dead lettered, or the stuck-job detector failed it.
JobLost(r) ==
  /\ JobsAreLost
  /\ job[r] = "queued"
  /\ job' = [job EXCEPT ![r] = "gone"]
  /\ UNCHANGED <<rowVars, execVars, reviewing, historyVars>>

\* The backup block: a snapshot when one was asked for and the action has a
\* routine for it, nothing otherwise.
Backup(w, r) ==
  /\ pc[w] = "backup"
  /\ r \in target[w]
  /\ backedUp' = IF r \in WantsBackup \cap Snapshottable THEN backedUp \cup {r} ELSE backedUp
  /\ pc' = [pc EXCEPT ![w] = "acting"]
  /\ UNCHANGED <<status, dated, ripe, job, target, bypass, reviewing, historyVars>>

\* The last write of an execution and the end of the call.
Settle(w, r, outcome) ==
  /\ r \in target[w]
  /\ status' = [status EXCEPT ![r] = outcome]
  /\ pc' = [pc EXCEPT ![w] = "idle"]
  /\ target' = [target EXCEPT ![w] = {}]
  /\ UNCHANGED <<backedUp, ripe, job, bypass, reviewing, historyVars>>

\* Mutants of BackupFails: the failure is ignored; it is not recorded; it is
\* recorded under a status the enumeration does not have.
BackupFailureIgnored(w, r) ==
  /\ pc[w] = "backup"
  /\ r \in target[w]
  /\ pc' = [pc EXCEPT ![w] = "acting"]
  /\ UNCHANGED <<rowVars, job, target, bypass, reviewing, historyVars>>
BackupFailureUnrecorded(w, r) ==
  /\ pc[w] = "backup"
  /\ r \in WantsBackup \cap Snapshottable
  /\ Settle(w, r, status[r])
  /\ UNCHANGED dated
BackupFailureUnknown(w, r) ==
  /\ pc[w] = "backup"
  /\ r \in WantsBackup \cap Snapshottable
  /\ Settle(w, r, "backup_failed")
  /\ UNCHANGED dated

\* A backup that fails fails the request; nothing is deleted.
BackupFails(w, r) ==
  /\ pc[w] = "backup"
  /\ r \in WantsBackup \cap Snapshottable
  /\ Settle(w, r, "failed")
  /\ UNCHANGED dated

\* _execute_action: the cloud call takes effect.
Act(w, r) ==
  /\ pc[w] = "acting"
  /\ r \in target[w]
  /\ acts' = [acts EXCEPT ![r] = @ + 1]
  /\ pc' = [pc EXCEPT ![w] = "acted"]
  /\ UNCHANGED <<rowVars, job, target, bypass, reviewing, orphans, crashes>>

\* The call returned: COMPLETED and executed_at.
Succeed(w, r) ==
  /\ pc[w] = "acted"
  /\ Settle(w, r, "completed")
  /\ dated' = dated \cup {r}

\* Mutant of Fail: the exception leaves execute without a last write.
FailUnrecorded(w, r) ==
  /\ pc[w] \in {"acting", "acted"}
  /\ Settle(w, r, status[r])
  /\ UNCHANGED dated

\* The call raised, before or after it took effect, or it returned and its audit
\* record raised, when executed_at is already set: FAILED.
Fail(w, r) ==
  /\ pc[w] \in {"acting", "acted"}
  /\ Settle(w, r, "failed")
  /\ \/ UNCHANGED dated
     \/ pc[w] = "acted" /\ dated' = dated \cup {r}

\* The executor dies between two commits: its process does, or the call raises
\* outside the try (enqueue_job, or the audit record of the start).
Crash(w) ==
  /\ crashes < MaxCrashes
  /\ pc[w] # "idle"
  /\ crashes' = crashes + 1
  /\ orphans' = IF pc[w] = "scheduling" THEN orphans ELSE orphans \cup target[w]
  /\ pc' = [pc EXCEPT ![w] = "idle"]
  /\ target' = [target EXCEPT ![w] = {}]
  /\ UNCHANGED <<rowVars, job, bypass, reviewing, acts>>

-----------------------------------------------------------------------------
Next ==
  \/ \E r \in Requests : CreateRequest(r) \/ GracePasses(r) \/ JobLost(r)
  \/ \E a \in Reviewers, r \in Requests : ApproveRead(a, r) \/ ApproveWrite(a, r)
  \/ \E w \in Executors : Crash(w)
  \/ \E w \in Executors, r \in Requests :
       \/ Schedule(w, r) \/ EnqueueRun(w, r)
       \/ \E b \in BOOLEAN : ApiBegin(w, r, b)
       \/ JobBegin(w, r)
       \/ Backup(w, r) \/ BackupFails(w, r)
       \/ Act(w, r) \/ Succeed(w, r) \/ Fail(w, r)

Spec == Init /\ [][Next]_vars

\* The steps of a call that has begun, up to its end.
Proceed(w) ==
  \E r \in Requests :
    \/ EnqueueRun(w, r) \/ Backup(w, r) \/ BackupFails(w, r)
    \/ Act(w, r) \/ Succeed(w, r) \/ Fail(w, r)

(***************************************************************************)
(* Fairness: a call that has begun goes on (cloud calls return or time     *)
(* out).  Nobody has to approve or to execute anything.                    *)
(***************************************************************************)
Fairness == \A w \in Executors : WF_vars(Proceed(w))

FairSpec == Spec /\ Fairness

-----------------------------------------------------------------------------
(* Properties that hold for any number of reviewers and executors.         *)

\* A request that says EXECUTING is being executed, or its executor died: no
\* path of execute returns without an outcome.
ExecutingIsOwned ==
  \A r \in Requests : status[r] = "executing" =>
    r \in orphans \/ \E w \in Executors : pc[w] \in {"backup", "acting", "acted"} /\ r \in target[w]

\* "Create backup BEFORE any deletion": where a backup can be made and was asked
\* for, nothing is deleted without it, whatever failed, crashed or was repeated.
BackupBeforeAct ==
  \A r \in WantsBackup \cap Snapshottable : acts[r] > 0 => r \in backedUp

-----------------------------------------------------------------------------
(* Properties that hold when approvals do not overlap.                     *)

\* The row lock of execute makes the cloud action happen at most once.
OneActPerRequest == \A r \in Requests : acts[r] <= 1

\* Nothing is touched before its grace period is over, unless the very call
\* that touches it was told to bypass it.
GraceBeforeAct ==
  [][\A r \in Requests : acts'[r] > acts[r] =>
       \E w \in Executors : r \in target[w] /\ (w \in bypass \/ r \in ripe)]_vars

\* A request that is EXECUTING gets its outcome unless its executor dies: backup
\* failures, cloud failures and rival calls leave no request half executed.
ExecutionEnds ==
  \A r \in Requests :
    status[r] = "executing" ~> status[r] \in {"completed", "failed"} \/ r \in orphans

\* The refinement mapping is the identity on status and acts.
Lifecycle == INSTANCE RequestLifecycle

\* Every request goes through the lifecycle RequestLifecycle promises: nothing
\* is executed that was not approved, and nothing is COMPLETED that was not
\* carried out.
LifecycleSpec == Lifecycle!Spec

-----------------------------------------------------------------------------
(* Claims of the repository that the code does not keep.                   *)

\* "Checks if the daily global savings limit has been reached": what is
\* completed in a day stays below the limit.
KillSwitchLimitsTheDay == Completed # {} => TotalImpact < Threshold

\* approve raises "Request is ..., not pending" on any other status: only a
\* PENDING request becomes APPROVED.
OnlyPendingIsApproved ==
  [][\A r \in Requests :
       status'[r] = "approved" /\ status[r] # "approved" => status[r] = "pending"]_vars
=============================================================================
