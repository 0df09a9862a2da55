-------------------------------- MODULE Sweeps --------------------------------
(***************************************************************************)
(* The periodic sweeps that fill the job queue: APScheduler, in every      *)
(* process of the API, sends a Celery task when its cron expression fires; *)
(* a worker runs the task in one transaction that locks the rows it sweeps *)
(* (FOR UPDATE SKIP LOCKED) and inserts one job per key, doing nothing     *)
(* when the key exists.  Tasks are acknowledged late: a worker that dies   *)
(* gives its task back, before or after its transaction committed.         *)
(*                                                                         *)
(* Time is the hour, counted from a Friday 00:00 UTC; the clock jumps      *)
(* between the hours of a small set.  An insert that meets the key of an   *)
(* open transaction waits for it, so the inserts of a transaction are one  *)
(* step with its commit.                                                   *)
(***************************************************************************)
EXTENDS Integers

CONSTANTS
  Tenants,          \* tenants
  Plan,             \* plan of each tenant
  Connections,      \* AWS connections
  Owner,            \* tenant of each connection
  SweepHours,       \* the hours the clock shows
  SweepWorkers,     \* Celery workers
  SweepMessages,    \* bound: 1..n, tasks that are sent
  MaxSweepTries,    \* max_retries
  MaxSweepFaults    \* bound: workers lost, errors, rows locked by others

ASSUME SweepHoursHaveAFirst ==
  SweepHours \subseteq Nat /\ \E h \in SweepHours : \A g \in SweepHours : h <= g
ASSUME SweepsAssumption ==
  Owner \in [Connections -> Tenants] /\ MaxSweepTries \in Nat \ {0} /\ MaxSweepFaults \in Nat

VARIABLES
  sweepHour,     \* the hour of the clock
  message,       \* Celery tasks: what was sent, and whether it was acknowledged
  sweeper,       \* what each worker is doing
  sweepJobs,     \* rows the sweeps have inserted into background_jobs
  unswept,       \* history: tenants a sweep failed on or found locked, by task
  sweepFaults    \* faults so far

sweepVars == <<sweepHour, message, sweeper, sweepJobs, unswept, sweepFaults>>

Cohorts == {"high_value", "active", "dormant"}
SweepTasks == Cohorts \cup {"remediation"}

\* The cron expressions of SchedulerOrchestrator.start.
FiresAt(task, h) ==
  CASE task = "high_value"  -> h % 6 = 0
    [] task = "active"      -> h % 24 = 2
    [] task = "dormant"     -> h % 168 = 51
    [] task = "remediation" -> h % 168 = 20

Members(cohort) ==
  {t \in Tenants : Plan[t] \in CASE cohort = "high_value" -> {"enterprise", "pro"}
                                 [] cohort = "active"     -> {"growth"}
                                 [] cohort = "dormant"    -> {"starter", "trial"}}

\* The rows a task sweeps: tenants or connections.
SweptRows(task) == IF task \in Cohorts THEN Members(task) ELSE Connections

JobTypes(task) ==
  IF task \in Cohorts THEN {"finops_analysis", "zombie_scan", "cost_ingestion"} ELSE {"remediation"}

\* The time bucket of the deduplication key: six hours, three hours, an hour, or
\* the week (%U, which begins on Sunday).
Bucket(task, h) ==
  CASE task = "high_value"  -> h - (h % 6)
    [] task = "active"      -> h - (h % 3)
    [] task = "dormant"     -> h
    [] task = "remediation" -> h - ((h + 120) % 168)

IsGreen(h) == h % 24 \in 10..16 \cup 0..5

\* scheduled_for: the remediation sweep waits four hours outside the green window.
StartHour(task, h) == IF task = "remediation" /\ ~IsGreen(h) THEN h + 4 ELSE h

TenantOf(row) == IF row \in Connections THEN Owner[row] ELSE row

JobsFor(task, row, h) ==
  {[type |-> type, tenant |-> TenantOf(row), bucket |-> Bucket(task, h),
    row |-> row, at |-> h, start |-> StartHour(task, h)] : type \in JobTypes(task)}

SameKey(a, b) == a.type = b.type /\ a.tenant = b.tenant /\ a.bucket = b.bucket

NoMessage == [task |-> "none", at |-> 0, state |-> "unsent"]
Asleep == [pc |-> "idle", msg |-> 0, tries |-> 0, at |-> 0, rows |-> {}]

SweepTypeOK ==
  /\ sweepHour \in SweepHours
  /\ message \in [SweepMessages -> [task : SweepTasks \cup {"none"}, at : SweepHours \cup {0},
                                    state : {"unsent", "queued", "taken", "acked"}]]
  /\ sweeper \in [SweepWorkers ->
       [pc : {"idle", "started", "locked", "committed"}, msg : SweepMessages \cup {0},
        tries : 0..MaxSweepTries - 1, at : SweepHours \cup {0},
        rows : SUBSET (Tenants \cup Connections)]]
  /\ \A j \in sweepJobs :
       /\ j.tenant \in Tenants
       /\ j.at \in SweepHours /\ j.bucket <= j.at /\ j.at <= j.start
  /\ unswept \subseteq SweepTasks \X Tenants
  /\ sweepFaults \in 0..MaxSweepFaults

SweepInit ==
  /\ sweepHour = CHOOSE h \in SweepHours : \A g \in SweepHours : h <= g
  /\ message = [m \in SweepMessages |-> NoMessage]
  /\ sweeper = [w \in SweepWorkers |-> Asleep]
  /\ sweepJobs = {} /\ unswept = {} /\ sweepFaults = 0

-----------------------------------------------------------------------------
\* The clock moves on to the next hour of the set.
SweepTick ==
  /\ \E h \in SweepHours :
       /\ h > sweepHour /\ \A g \in SweepHours : g > sweepHour => h <= g
       /\ sweepHour' = h
  /\ UNCHANGED <<message, sweeper, sweepJobs, unswept, sweepFaults>>

\* cohort_analysis_job, auto_remediation_job: send_task when the cron fires, in
\* every process that runs a scheduler.
Dispatch(m, task) ==
  /\ message[m].state = "unsent"
  /\ \A n \in SweepMessages : n < m => message[n].state # "unsent"
  /\ FiresAt(task, sweepHour)
  /\ message' = [message EXCEPT ![m] = [task |-> task, at |-> sweepHour, state |-> "queued"]]
  /\ UNCHANGED <<sweepHour, sweeper, sweepJobs, unswept, sweepFaults>>

\* A worker takes a task; late acknowledgement keeps it with the broker.
TakeTask(w, m) ==
  /\ sweeper[w].pc = "idle"
  /\ message[m].state = "queued"
  /\ message' = [message EXCEPT ![m].state = "taken"]
  /\ sweeper' = [sweeper EXCEPT ![w] = [Asleep EXCEPT !.pc = "started", !.msg = m]]
  /\ UNCHANGED <<sweepHour, sweepJobs, unswept, sweepFaults>>

TaskOf(w) == message[sweeper[w].msg].task
LockedByOthers(w) == UNION {sweeper[v].rows : v \in SweepWorkers \ {w}}

Ack(w) ==
  /\ message' = [message EXCEPT ![sweeper[w].msg].state = "acked"]
  /\ sweeper' = [sweeper EXCEPT ![w] = Asleep]

GiveUpOn(task, rows) == unswept' = unswept \cup ({task} \X {TenantOf(r) : r \in rows})

\* Rows a sweep of an earlier bucket still holds when this one runs.
HeldLonger(w) ==
  UNION {sweeper[v].rows : v \in {u \in SweepWorkers \ {w} :
           Bucket(TaskOf(w), sweeper[u].at) # Bucket(TaskOf(w), sweepHour)}}

\* The transaction locks the rows no other transaction holds, those of the API
\* included, and reads the clock; with no row there is nothing to insert.
LockRows(w) ==
  LET all == SweptRows(TaskOf(w))
      free == all \ LockedByOthers(w)
      Lock(rows) ==
        IF rows = {} THEN Ack(w)
        ELSE /\ sweeper' = [sweeper EXCEPT ![w].pc = "locked", ![w].rows = rows, ![w].at = sweepHour]
             /\ UNCHANGED message
  IN /\ sweeper[w].pc = "started"
     /\ \/ /\ Lock(free)
           /\ GiveUpOn(TaskOf(w), all \cap HeldLonger(w))
           /\ UNCHANGED sweepFaults
        \/ \E r \in free :
             /\ sweepFaults < MaxSweepFaults /\ sweepFaults' = sweepFaults + 1
             /\ Lock(free \ {r})
             /\ GiveUpOn(TaskOf(w), {r} \cup (all \cap HeldLonger(w)))
     /\ UNCHANGED <<sweepHour, sweepJobs>>

\* The rows of which the insert comes first: one of each tenant.
Firsts(rows) ==
  {S \in SUBSET rows : \A r \in rows : \E q \in S : \A x \in S : TenantOf(x) = TenantOf(r) <=> x = q}

\* What the transaction adds: nothing for a key that is in the table.
Inserted(task, rows, h) ==
  {{j \in UNION {JobsFor(task, r, h) : r \in S} : \A k \in sweepJobs : ~SameKey(j, k)} :
     S \in Firsts(rows)}

\* Mutant of CommitSweep: no on_conflict_do_nothing.
CommitSweepRepeats(w) ==
  /\ sweeper[w].pc = "locked"
  /\ sweepJobs' = sweepJobs \cup UNION {JobsFor(TaskOf(w), r, sweeper[w].at) : r \in sweeper[w].rows}
  /\ sweeper' = [sweeper EXCEPT ![w].pc = "committed", ![w].rows = {}]
  /\ UNCHANGED <<sweepHour, message, unswept, sweepFaults>>

CommitSweep(w) ==
  /\ sweeper[w].pc = "locked"
  /\ \E S \in Inserted(TaskOf(w), sweeper[w].rows, sweeper[w].at) : sweepJobs' = sweepJobs \cup S
  /\ sweeper' = [sweeper EXCEPT ![w].pc = "committed", ![w].rows = {}]
  /\ UNCHANGED <<sweepHour, message, unswept, sweepFaults>>

\* The task returns and is acknowledged.
FinishSweep(w) ==
  /\ sweeper[w].pc = "committed"
  /\ Ack(w)
  /\ UNCHANGED <<sweepHour, sweepJobs, unswept, sweepFaults>>

\* The transaction fails and rolls back.  A cohort sweep tries again after a
\* deadlock only, a remediation sweep after any error; the last error is logged,
\* and the task is acknowledged all the same.
FailSweep(w) ==
  LET again == sweeper[w].tries + 1 < MaxSweepTries
  IN /\ sweeper[w].pc = "locked"
     /\ sweepFaults < MaxSweepFaults /\ sweepFaults' = sweepFaults + 1
     /\ \/ /\ again
           /\ sweeper' = [sweeper EXCEPT ![w].pc = "started", ![w].rows = {}, ![w].tries = @ + 1]
           /\ UNCHANGED <<message, unswept>>
        \/ /\ TaskOf(w) \in Cohorts \/ ~again
           /\ GiveUpOn(TaskOf(w), SweptRows(TaskOf(w)))
           /\ Ack(w)
     /\ UNCHANGED <<sweepHour, sweepJobs>>

\* Mutant of LoseWorker: the task was acknowledged when it was taken.
LoseWorkerAckedEarly(w) ==
  /\ sweeper[w].pc # "idle"
  /\ sweepFaults < MaxSweepFaults /\ sweepFaults' = sweepFaults + 1
  /\ Ack(w)
  /\ UNCHANGED <<sweepHour, sweepJobs, unswept>>

\* task_acks_late, task_reject_on_worker_lost: the task is queued again.
LoseWorker(w) ==
  /\ sweeper[w].pc # "idle"
  /\ sweepFaults < MaxSweepFaults /\ sweepFaults' = sweepFaults + 1
  /\ message' = [message EXCEPT ![sweeper[w].msg].state = "queued"]
  /\ sweeper' = [sweeper EXCEPT ![w] = Asleep]
  /\ UNCHANGED <<sweepHour, sweepJobs, unswept>>

SweepStep(w) == LockRows(w) \/ CommitSweep(w) \/ FinishSweep(w)

SweepNext ==
  \/ SweepTick
  \/ \E m \in SweepMessages, task \in SweepTasks : Dispatch(m, task)
  \/ \E w \in SweepWorkers :
       SweepStep(w) \/ FailSweep(w) \/ LoseWorker(w) \/ \E m \in SweepMessages : TakeTask(w, m)

SweepSpec == SweepInit /\ [][SweepNext]_sweepVars

-----------------------------------------------------------------------------
(* Properties.                                                             *)

\* "Generate deterministic dedup keys": whatever is dispatched twice, delivered
\* again or run by two workers, a tenant has one job of a type per bucket.
OneJobPerBucket == \A j, k \in sweepJobs : SameKey(j, k) => j = k

\* A sweep that was dispatched reaches its tenants, though workers die and rows are
\* skipped because a twin has locked them, unless a sweep failed on the tenant or
\* found it locked by someone else, or by a sweep of an earlier bucket.
SweepReachesTenants ==
  \A m \in SweepMessages, task \in SweepTasks, t \in Tenants :
    message[m].task = task /\ (\E r \in SweptRows(task) : TenantOf(r) = t)
      ~> \/ <<task, t>> \in unswept
         \/ \E j \in sweepJobs : j.tenant = t /\ j.type \in JobTypes(task)
                                  /\ j.bucket >= Bucket(task, message[m].at)

\* Carbon-aware scheduling: a remediation job of a sweep that runs within 20 hours
\* of its cron time starts in a green window.
RemediationStartsGreen ==
  \A j \in sweepJobs : j.type = "remediation" /\ j.at - 20 < 20 => IsGreen(j.start)

\* The jobs that sweeps leave: one for each key, and remediations in a green window.
SweepInv == OneJobPerBucket /\ RemediationStartsGreen
=============================================================================
