------------------------------- MODULE JobQueue -------------------------------
(***************************************************************************)
(* The durable background job queue: the table background_jobs, the        *)
(* processor runs that drain it (JobProcessor.process_pending_jobs, one    *)
(* per call of /process or /internal/process, each with a session of its   *)
(* own) and the hourly stuck-job detector of the scheduler.                *)
(*                                                                         *)
(* What a session has loaded is kept apart from what the table holds: the  *)
(* sessions are made with expire_on_commit=False, so a processor goes on   *)
(* using the attempts it read when it fetched its batch, and every UPDATE  *)
(* writes the columns it changed as absolute values.  Row locks taken by   *)
(* SELECT ... FOR UPDATE SKIP LOCKED live until the transaction commits,   *)
(* and the first job of a batch commits.                                   *)
(*                                                                         *)
(* Time is abstracted to two facts per row, "due" (scheduled_for <= now)   *)
(* and "old" (created_at < now - 1 hour), that become true by themselves.  *)
(* priority and is_deleted are left out: no code ever sets them, so the    *)
(* order of a batch is that of scheduled_for, which "due" does not tell    *)
(* apart.                                                                  *)
(***************************************************************************)
EXTENDS Naturals, FiniteSets

CONSTANTS
  Jobs,          \* the rows that may be inserted into background_jobs
  Processors,    \* concurrent runs of process_pending_jobs
  NoOne,         \* lock holder of an unlocked row
  MaxAttempts,   \* max_attempts of each job (default 3, webhooks 5)
  BatchLimit,    \* MAX_JOBS_PER_BATCH, or the limit of /process
  DetectorOn,    \* whether the scheduler runs detect_stuck_jobs
  Cancellable,   \* whether a handler's task may be cancelled
  MaxCrashes     \* bound: processes that may die while working

ASSUME JobsAssumption ==
  /\ IsFiniteSet(Jobs)
  /\ MaxAttempts \in [Jobs -> Nat \ {0}]

ASSUME ProcessorsAssumption ==
  /\ NoOne \notin Processors
  /\ BatchLimit \in Nat \ {0}
  /\ DetectorOn \in BOOLEAN
  /\ Cancellable \in BOOLEAN
  /\ MaxCrashes \in Nat

VARIABLES
  row,        \* the table: status, attempts, due and old of every job
  lockedBy,   \* row locks of open transactions
  pc,         \* where each processor run is
  batch,      \* jobs it has fetched and not yet started
  seen,       \* attempts of the jobs of its batch, as its session loaded them
  current,    \* the job whose handler it is running
  doomed,     \* what the detector has read and not yet written
  orphans,    \* history: jobs whose processor died while running them
  runs,       \* history: how many times each job's handler was started
  crashes     \* how many processors have died

vars == <<row, lockedBy, pc, batch, seen, current, doomed, orphans, runs, crashes>>
workerVars == <<lockedBy, pc, batch, seen, current, orphans, runs, crashes>>

JobStatus == {"pending", "running", "completed", "failed", "dead_letter"}
Settled == {"completed", "failed", "dead_letter"}
Row == [status : JobStatus \cup {"absent"}, attempts : Nat, due : BOOLEAN, old : BOOLEAN]

TypeOK ==
  /\ row \in [Jobs -> Row]
  /\ lockedBy \in [Jobs -> Processors \cup {NoOne}]
  /\ pc \in [Processors -> {"idle", "batch", "handling"}]
  /\ batch \in [Processors -> SUBSET Jobs]
  /\ seen \in [Processors -> [Jobs -> Nat]]
  /\ current \in [Processors -> SUBSET Jobs]
  /\ doomed \in SUBSET Jobs
  /\ orphans \in SUBSET Jobs
  /\ runs \in [Jobs -> Nat]
  /\ crashes \in 0..MaxCrashes

Init ==
  /\ row = [j \in Jobs |-> [status |-> "absent", attempts |-> 0, due |-> FALSE, old |-> FALSE]]
  /\ lockedBy = [j \in Jobs |-> NoOne]
  /\ pc = [p \in Processors |-> "idle"]
  /\ batch = [p \in Processors |-> {}]
  /\ seen = [p \in Processors |-> [j \in Jobs |-> 0]]
  /\ current = [p \in Processors |-> {}]
  /\ doomed = {}
  /\ orphans = {}
  /\ runs = [j \in Jobs |-> 0]
  /\ crashes = 0

-----------------------------------------------------------------------------
(* Producers and time.                                                     *)

\* enqueue_job: insert the row and commit; scheduled_for is now or later.
Enqueue(j) ==
  /\ row[j].status = "absent"
  /\ \E due \in BOOLEAN :
       row' = [row EXCEPT ![j] =
                 [status |-> "pending", attempts |-> 0, due |-> due, old |-> FALSE]]
  /\ UNCHANGED <<workerVars, doomed>>

\* now reaches scheduled_for.
BecomeDue(j) ==
  /\ row[j].status = "pending"
  /\ ~row[j].due
  /\ row' = [row EXCEPT ![j].due = TRUE]
  /\ UNCHANGED <<workerVars, doomed>>

\* created_at falls behind the detector's cutoff.
BecomeOld(j) ==
  /\ row[j].status = "pending"
  /\ ~row[j].old
  /\ row' = [row EXCEPT ![j].old = TRUE]
  /\ UNCHANGED <<workerVars, doomed>>

-----------------------------------------------------------------------------
(* A processor run.                                                        *)

Unlocked(j) == lockedBy[j] = NoOne

\* Mutants of Fetchable: one of the filters of the query is forgotten.
FetchableWhenLocked ==
  {j \in Jobs : row[j].status = "pending" /\ row[j].due /\ row[j].attempts < MaxAttempts[j]}
FetchableWhenExhausted ==
  {j \in Jobs : row[j].status = "pending" /\ row[j].due /\ Unlocked(j)}
FetchableBeforeDue ==
  {j \in Jobs : row[j].status = "pending" /\ row[j].attempts < MaxAttempts[j] /\ Unlocked(j)}

\* The rows the query of _fetch_pending_jobs can see.
Fetchable ==
  {j \in Jobs : /\ row[j].status = "pending"
                /\ row[j].due
                /\ row[j].attempts < MaxAttempts[j]
                /\ Unlocked(j)}

\* A batch is full, or it takes every row the query of _fetch_pending_jobs can see.
IsBatch(S) ==
  /\ Cardinality(S) <= BatchLimit
  /\ Cardinality(S) < BatchLimit => S = Fetchable

Release(p) == [j \in Jobs |-> IF lockedBy[j] = p THEN NoOne ELSE lockedBy[j]]

\* _fetch_pending_jobs: SELECT ... FOR UPDATE SKIP LOCKED.
Fetch(p) ==
  /\ pc[p] = "idle"
  /\ \E S \in SUBSET Fetchable :
       /\ S # {}
       /\ IsBatch(S)
       /\ batch' = [batch EXCEPT ![p] = S]
       /\ lockedBy' = [j \in Jobs |-> IF j \in S THEN p ELSE lockedBy[j]]
  /\ seen' = [seen EXCEPT ![p] = [j \in Jobs |-> row[j].attempts]]
  /\ pc' = [pc EXCEPT ![p] = "batch"]
  /\ UNCHANGED <<row, current, doomed, orphans, runs, crashes>>

\* _process_single_job up to its first commit: RUNNING and attempts + 1 from
\* the loaded copy.  The UPDATE waits for a row another session has locked;
\* the commit releases the locks of the whole batch.
Start(p, j) ==
  /\ pc[p] = "batch"
  /\ j \in batch[p]
  /\ lockedBy[j] \in {NoOne, p}
  /\ row' = [row EXCEPT ![j].status = "running", ![j].attempts = seen[p][j] + 1]
  /\ seen' = [seen EXCEPT ![p][j] = @ + 1]
  /\ lockedBy' = Release(p)
  /\ batch' = [batch EXCEPT ![p] = @ \ {j}]
  /\ current' = [current EXCEPT ![p] = {j}]
  /\ pc' = [pc EXCEPT ![p] = "handling"]
  /\ runs' = [runs EXCEPT ![j] = @ + 1]
  /\ UNCHANGED <<doomed, orphans, crashes>>

\* The last commit of _process_single_job writes the outcome over the row and
\* the loop of process_pending_jobs goes on.
Finish(p, j, status, due) ==
  /\ pc[p] = "handling"
  /\ j \in current[p]
  /\ Unlocked(j)
  /\ row' = [row EXCEPT ![j].status = status, ![j].due = due]
  /\ current' = [current EXCEPT ![p] = {}]
  /\ pc' = [pc EXCEPT ![p] = IF batch[p] = {} THEN "idle" ELSE "batch"]
  /\ UNCHANGED <<lockedBy, batch, seen, doomed, orphans, runs, crashes>>

\* The handler returned.
Succeed(p, j) == Finish(p, j, "completed", row[j].due)

\* Mutant of Fail: the last attempt is not made.
FailOneEarly(p, j) ==
  IF seen[p][j] + 1 >= MaxAttempts[j]
  THEN Finish(p, j, "dead_letter", row[j].due)
  ELSE Finish(p, j, "pending", FALSE)

\* The handler raised, or wait_for timed out: the two branches do the same.
Fail(p, j) ==
  IF seen[p][j] >= MaxAttempts[j]
  THEN Finish(p, j, "dead_letter", row[j].due)
  ELSE Finish(p, j, "pending", FALSE)

\* Mutant of Cancel: the cancellation is not caught, nothing is written.
CancelUncaught(p, j) ==
  /\ Cancellable
  /\ Finish(p, j, "running", row[j].due)

\* The handler's task was cancelled: back to PENDING whatever its attempts.
Cancel(p, j) ==
  /\ Cancellable
  /\ Finish(p, j, "pending", FALSE)

\* The process dies (or its connection does): the open transaction is rolled
\* back, what was committed stays.
Crash(p) ==
  /\ crashes < MaxCrashes
  /\ pc[p] # "idle"
  /\ crashes' = crashes + 1
  /\ orphans' = orphans \cup current[p]
  /\ lockedBy' = Release(p)
  /\ pc' = [pc EXCEPT ![p] = "idle"]
  /\ batch' = [batch EXCEPT ![p] = {}]
  /\ current' = [current EXCEPT ![p] = {}]
  /\ UNCHANGED <<row, seen, doomed, runs>>

-----------------------------------------------------------------------------
(* The stuck-job detector.                                                 *)

\* Mutant of Stuck: the detector only looks at jobs a fetch could still see.
StuckAndRetryable(j) ==
  row[j].status = "pending" /\ row[j].old /\ row[j].attempts < MaxAttempts[j]

\* What the detector looks for: PENDING for more than an hour since creation.
Stuck(j) == row[j].status = "pending" /\ row[j].old

\* detect_stuck_jobs reads without locks ...
DetectorRead ==
  /\ DetectorOn
  /\ doomed = {}
  /\ doomed' = {j \in Jobs : Stuck(j)}
  /\ doomed' # {}
  /\ UNCHANGED <<row, workerVars>>

\* Mutant of DetectorWrite: a status the enumeration does not have.
DetectorWriteUnknown ==
  /\ doomed # {}
  /\ row' = [j \in Jobs |-> IF j \in doomed THEN [row[j] EXCEPT !.status = "stuck"] ELSE row[j]]
  /\ doomed' = {}
  /\ UNCHANGED workerVars

\* ... and writes FAILED over every row it read, in one transaction that
\* waits for their locks.
DetectorWrite ==
  /\ doomed # {}
  /\ \A j \in doomed : Unlocked(j)
  /\ row' = [j \in Jobs |-> IF j \in doomed THEN [row[j] EXCEPT !.status = "failed"] ELSE row[j]]
  /\ doomed' = {}
  /\ UNCHANGED workerVars

-----------------------------------------------------------------------------
Next ==
  \/ \E j \in Jobs : Enqueue(j) \/ BecomeDue(j) \/ BecomeOld(j)
  \/ \E p \in Processors : Fetch(p) \/ Crash(p)
  \/ \E p \in Processors, j \in Jobs :
       Start(p, j) \/ Succeed(p, j) \/ Fail(p, j) \/ Cancel(p, j)
  \/ DetectorRead
  \/ DetectorWrite

Spec == Init /\ [][Next]_vars

(***************************************************************************)
(* Fairness: pg_cron calls /internal/process every minute, a handler is    *)
(* stopped after JOB_TIMEOUT_SECONDS, the detector is an hourly interval   *)
(* job, time passes and the database grants locks that become free.        *)
(***************************************************************************)
Fairness ==
  /\ \A j \in Jobs : WF_vars(BecomeDue(j)) /\ WF_vars(BecomeOld(j))
  /\ \A p \in Processors :
       /\ WF_vars(Fetch(p))
       /\ WF_vars(\E j \in Jobs : Start(p, j))
       /\ WF_vars(\E j \in Jobs : Succeed(p, j) \/ Fail(p, j))
  /\ WF_vars(DetectorRead)
  /\ WF_vars(DetectorWrite)

FairSpec == Spec /\ Fairness

-----------------------------------------------------------------------------
(* Properties that hold for every batch limit.                             *)

\* No interleaving of stale copies, cancellations and retries pushes attempts
\* past max_attempts: the bound the fetch query and the retry branch rely on.
AttemptsBounded == \A j \in Jobs : row[j].attempts <= MaxAttempts[j]

\* A row that says RUNNING is being run by a live processor, or its processor
\* died: no path through _process_single_job forgets to write an outcome.
RunningIsOwned ==
  \A j \in Jobs : row[j].status = "running" =>
    j \in orphans \/ \E p \in Processors : j \in current[p]

\* Every job comes to rest for good: completed, dead lettered, or failed by the
\* detector; all but a job whose processor died, which stays RUNNING.
EventuallySettled ==
  \A j \in Jobs : row[j].status # "absent" ~> [](row[j].status \in Settled) \/ j \in orphans

-----------------------------------------------------------------------------
(* Properties that hold when a batch is one job, so that the first commit  *)
(* releases no lock that is still needed.                                  *)

\* "Uses SELECT FOR UPDATE SKIP LOCKED for high-concurrency safety": two
\* processors never run the handler of the same job at the same time.
OneRunner ==
  \A p, q \in Processors : p # q => current[p] \cap current[q] = {}

\* The attempts column counts every start of the handler, none is lost.
EveryRunCounted == \A j \in Jobs : runs[j] = row[j].attempts

\* A dead letter has used all its attempts, and each of them was really made.
DeadLetterExhausted ==
  \A j \in Jobs : row[j].status = "dead_letter" => runs[j] = MaxAttempts[j]

\* A handler is only started for a row that is, at that moment, PENDING and
\* due: backoff and scheduled_for are respected.
StartsOnlyDueJobs ==
  [][\A p \in Processors, j \in Jobs :
       j \in current'[p] \ current[p] => row[j].status = "pending" /\ row[j].due]_vars

\* The refinement mapping: what JobLifecycle sees of the table.
Lifecycle ==
  INSTANCE JobLifecycle WITH
    status <- [j \in Jobs |-> row[j].status],
    attempts <- [j \in Jobs |-> row[j].attempts]

\* Every job goes through the lifecycle JobLifecycle promises, when the
\* detector is off too: attempts are only made while some are left, and a job
\* is only buried when they are all used.
LifecycleSpec == Lifecycle!Spec

-----------------------------------------------------------------------------
(* Claims of the repository that the code does not keep.                   *)

\* A job scheduled for later waits for its time: it is not failed before it
\* is due.
ScheduledJobsAreSpared ==
  [][\A j \in Jobs :
       row'[j].status = "failed" /\ row[j].status # "failed" => row[j].due]_vars
=============================================================================
