----------------------------- MODULE Subscriptions -----------------------------
(***************************************************************************)
(* The subscription of one tenant (tenants share nothing): the Paystack    *)
(* webhooks that change it, the background jobs that charge it             *)
(* (RECURRING_BILLING, DUNNING) or handle a webhook again (WEBHOOK_RETRY), *)
(* the daily billing sweep, checkout and cancellation.                     *)
(*                                                                         *)
(* No code but the sweep locks the row, so each call of the API and each   *)
(* run of a job is a session of its own that loads the row in one step and *)
(* commits in another.  An UPDATE writes the columns that differ from what *)
(* the session loaded (Flush), and nothing else.                           *)
(*                                                                         *)
(* The job queue itself is JobQueue; here a job is pending, running,       *)
(* completed or dead, it is run by one session at a time, and a dunning    *)
(* job, which is scheduled days ahead, may be failed by the stuck-job      *)
(* detector.  The processor runs a handler inside a savepoint block        *)
(* (processor.py:164) that a commit of the handler closes: whatever the    *)
(* handler asks of its session after that may be refused.                  *)
(***************************************************************************)
EXTENDS Integers, FiniteSets

CONSTANTS
  Sessions,      \* concurrent API calls and job runs
  Events,        \* webhooks Paystack sends, each possibly several times
  Kind,          \* event type of each webhook
  MaxCalls,      \* bound: webhooks, checkouts and cancellations
  JobSlots,      \* bound: rows of background_jobs about this tenant
  JobAttempts,   \* max_attempts of a job
  MaxDunning,    \* DUNNING_MAX_ATTEMPTS
  JobsAreLost,   \* whether the detector fails dunning jobs (see JobQueue)
  MaxDays,       \* bound: days of billing sweeps
  MaxFaults      \* bound: sessions that die, statements refused in a job

EventKinds == {"create", "charge", "disable", "invoice"}

ASSUME SubscriptionsAssumption ==
  /\ Kind \in [Events -> EventKinds]
  /\ JobAttempts \in Nat \ {0}
  /\ MaxDunning \in Nat \ {0}
  /\ JobsAreLost \in BOOLEAN
  /\ {MaxCalls, MaxDays, MaxFaults} \subseteq Nat
  /\ Events \cap {"none", "renewal", "dunning", "checkout", "cancel"} = {}
  /\ 0 \notin JobSlots

VARIABLES
  sub,        \* the row of tenant_subscriptions
  jobs,       \* the rows of background_jobs
  session,    \* what each session is doing and what it has loaded
  swept,      \* whether the day's deduplication key is taken
  day,        \* days gone by
  stored,     \* history: events whose webhook was accepted and stored
  calls,      \* calls of the API so far
  handled,    \* history: whether each event took effect once, or again (2)
  lost,       \* history: jobs that died, by kind or by event
  faults      \* sessions that died and statements that were refused

bounds == <<calls, faults>>
vars == <<sub, jobs, session, swept, day, stored, handled, lost, bounds>>

Status == {"none", "active", "attention", "cancelled"}
Subscription ==
  [status : Status, tier : {"trial", "paid"}, customer : BOOLEAN, code : BOOLEAN,
   auth : BOOLEAN, next : {"none", "later", "due"}, attempts : Nat]
NoSub == [status |-> "none", tier |-> "trial", customer |-> FALSE, code |-> FALSE,
          auth |-> FALSE, next |-> "none", attempts |-> 0]

Kinds == {"renewal", "dunning"} \cup Events
NoJob == 0
FreeSlot == [kind |-> "renewal", status |-> "absent", attempts |-> 0]
Idle == [pc |-> "idle", task |-> "none", job |-> NoJob, old |-> NoSub]

TypeOK ==
  /\ sub \in Subscription
  /\ jobs \in [JobSlots -> [kind : Kinds, attempts : 0..JobAttempts,
                            status : {"absent", "pending", "running", "completed", "dead"}]]
  /\ session \in [Sessions ->
       [pc : {"idle", "dedup", "storing", "loaded", "charged", "renewed", "noted", "done"},
        task : Kinds \cup {"none", "checkout", "cancel"}, job : JobSlots \cup {NoJob},
        old : Subscription]]
  /\ swept \in BOOLEAN /\ day \in 0..MaxDays
  /\ stored \subseteq Events /\ handled \in [Events -> 0..2] /\ lost \subseteq Kinds
  /\ calls \in 0..MaxCalls /\ faults \in 0..MaxFaults

\* A subscription that went through checkout, charge.success and subscription.create.
Subscribed == [status |-> "active", tier |-> "paid", customer |-> TRUE, code |-> TRUE,
               auth |-> TRUE, next |-> "later", attempts |-> 0]

Init ==
  /\ sub \in {NoSub, Subscribed}
  /\ jobs = [j \in JobSlots |-> FreeSlot]
  /\ session = [s \in Sessions |-> Idle]
  /\ swept = FALSE /\ day = 0
  /\ stored = {} /\ handled = [e \in Events |-> 0] /\ lost = {}
  /\ faults = 0 /\ calls = 0

-----------------------------------------------------------------------------
(* Sessions and jobs.                                                      *)

\* The session reads the row, the first thing every handler does.
Load(s, task, job) ==
  session' = [session EXCEPT ![s] = [pc |-> "loaded", task |-> task, job |-> job, old |-> sub]]

Goto(s, pc) == session' = [session EXCEPT ![s].pc = pc]

\* A call of the API ends here; a job's outcome is one more commit (JobDone).
Finish(s) == session' = [session EXCEPT ![s] = IF @.job = NoJob THEN Idle ELSE [@ EXCEPT !.pc = "done"]]

\* Commit: the columns the session changed since it loaded the row.
Flush(old, new) == [f \in DOMAIN sub |-> IF new[f] # old[f] THEN new[f] ELSE sub[f]]

\* enqueue_job, as a change of the table.
Slot == CHOOSE j \in JobSlots : jobs[j].status = "absent"
HasSlot == \E j \in JobSlots : jobs[j].status = "absent"
WithJob(table, kind) ==
  [table EXCEPT ![Slot] = [kind |-> kind, status |-> "pending", attempts |-> 0]]

Waiting(kind) == {j \in JobSlots : jobs[j].kind = kind /\ jobs[j].status \in {"pending", "running"}}
Completed(kind) == {j \in JobSlots : jobs[j].kind = kind /\ jobs[j].status = "completed"}

\* A renewal or a retry that will never run again leaves its slot.
Settled(j, status) ==
  [jobs EXCEPT ![j] = IF @.kind \in Events THEN [@ EXCEPT !.status = status] ELSE FreeSlot]

\* The processor starts a job.
RunJob(s, j) ==
  /\ session[s].pc = "idle"
  /\ jobs[j].status = "pending"
  /\ jobs' = [jobs EXCEPT ![j].status = "running", ![j].attempts = @ + 1]
  /\ Load(s, jobs[j].kind, j)
  /\ UNCHANGED <<sub, swept, day, stored, handled, lost, bounds>>

\* A job's handler returned.
JobDone(s) ==
  LET j == session[s].job
  IN /\ session[s].pc = "done"
     /\ session' = [session EXCEPT ![s] = Idle]
     /\ jobs' = Settled(j, "completed")
     /\ UNCHANGED <<sub, swept, day, stored, handled, lost, bounds>>

\* Mutant of JobFails: one attempt too many.
JobFailsOnceMore(s) ==
  LET j == session[s].job
      dies == jobs[j].attempts > JobAttempts
  IN /\ j # NoJob
     /\ jobs' = IF dies THEN Settled(j, "dead") ELSE [jobs EXCEPT ![j].status = "pending"]
     /\ lost' = IF dies THEN lost \cup {jobs[j].kind} ELSE lost
     /\ session' = [session EXCEPT ![s] = Idle]
\* A handler raises: the job is pending again, or dead after its last attempt.
JobFails(s) ==
  LET j == session[s].job
      dies == jobs[j].attempts >= JobAttempts
  IN /\ j # NoJob
     /\ jobs' = IF dies THEN Settled(j, "dead") ELSE [jobs EXCEPT ![j].status = "pending"]
     /\ lost' = IF dies THEN lost \cup {jobs[j].kind} ELSE lost
     /\ session' = [session EXCEPT ![s] = Idle]

\* The detector fails a dunning job before it is due.
LoseJob(j) ==
  /\ JobsAreLost
  /\ jobs[j].kind = "dunning" /\ jobs[j].status = "pending"
  /\ jobs' = Settled(j, "dead")
  /\ lost' = lost \cup {"dunning"}
  /\ UNCHANGED <<sub, session, swept, day, stored, handled, bounds>>

\* The process dies: what it had not committed is gone, its job stays RUNNING.
Crash(s) ==
  /\ faults < MaxFaults
  /\ session[s].pc # "idle"
  /\ faults' = faults + 1
  /\ IF session[s].job = NoJob
     THEN UNCHANGED <<lost, jobs>>
     ELSE lost' = lost \cup {session[s].task} /\ jobs' = Settled(session[s].job, "running")
  /\ session' = [session EXCEPT ![s] = Idle]
  /\ UNCHANGED <<sub, swept, day, stored, handled, calls>>

-----------------------------------------------------------------------------
(* Webhook calls: is_duplicate, the search for a queued job, the      *)
(* insert and the immediate processing are separate steps.                 *)

\* A completed job with this key: "duplicate", and nothing changes.
Deliver(s, e) ==
  /\ session[s].pc = "idle"
  /\ Completed(e) = {}
  /\ session' = [session EXCEPT ![s] = [Idle EXCEPT !.pc = "dedup", !.task = e]]
  /\ calls < MaxCalls /\ calls' = calls + 1
  /\ UNCHANGED <<sub, jobs, swept, day, stored, handled, lost, faults>>

\* A pending or running job is returned and its event is processed all the
\* same; two of them make scalar_one_or_none raise.
FindQueued(s) ==
  LET n == Cardinality(Waiting(session[s].task))
  IN /\ session[s].pc = "dedup"
     /\ IF n = 1 THEN Load(s, session[s].task, NoJob)
        ELSE session' = [session EXCEPT ![s] = IF n > 1 THEN Idle ELSE [@ EXCEPT !.pc = "storing"]]
     /\ UNCHANGED <<sub, jobs, swept, day, stored, handled, lost, bounds>>

\* Mutant of StoreWebhook: the event is only processed, not stored.
DontStoreWebhook(s) ==
  /\ session[s].pc = "storing"
  /\ stored' = stored \cup {session[s].task}
  /\ Load(s, session[s].task, NoJob)
  /\ UNCHANGED <<sub, jobs, swept, day, handled, lost, bounds>>

StoreWebhook(s) ==
  /\ session[s].pc = "storing"
  /\ HasSlot
  /\ jobs' = WithJob(jobs, session[s].task)
  /\ stored' = stored \cup {session[s].task}
  /\ Load(s, session[s].task, NoJob)
  /\ UNCHANGED <<sub, swept, day, handled, lost, bounds>>

-----------------------------------------------------------------------------
(* What the handlers make of the row they loaded.                          *)

\* _handle_final_failure.
Downgraded(old) == [old EXCEPT !.status = "cancelled", !.tier = "trial"]

\* process_failed_payment: one more attempt, and the last one ends it.
Failed(old) ==
  IF old.attempts + 1 >= MaxDunning
  THEN Downgraded([old EXCEPT !.attempts = @ + 1])
  ELSE [old EXCEPT !.attempts = @ + 1, !.status = "attention"]

\* _handle_subscription_create: codes, sometimes a date, ACTIVE.
Created(old) == {[old EXCEPT !.code = TRUE, !.status = "active", !.next = n] : n \in {old.next, "later"}}

\* _handle_charge_success of a charge with a plan; any other leaves the row alone.
Activated(old) ==
  {[old EXCEPT !.customer = TRUE, !.auth = a, !.tier = t, !.status = "active"] :
     a \in {old.auth, TRUE}, t \in {old.tier, "paid"}} \cup {old}

Disabled(old) == [old EXCEPT !.status = "cancelled"]
Renewed(old) == [old EXCEPT !.next = "later"]
Recovered(old) == [old EXCEPT !.status = "active", !.attempts = 0]

-----------------------------------------------------------------------------
(* Handlers: what they commit.                                             *)

\* create looks for the customer code, disable and invoice for the subscription
\* code; without a row there is nothing to do.
FindsRow(kind, old) ==
  CASE kind = "create" -> old.customer
    [] kind = "charge" -> TRUE
    [] OTHER -> old.code

Handled(kind, old) ==
  IF ~FindsRow(kind, old) THEN {old}
  ELSE CASE kind = "create" -> Created(old)
         [] kind = "charge" -> Activated(old)
         [] kind = "disable" -> {Disabled(old)}

TakesEffect(e) == handled' = [handled EXCEPT ![e] = IF @ = 0 THEN 1 ELSE 2]

\* The commit of the handler of an event.  charge.success inserts a row when it
\* found none, which fails if there is one by now (tenant_id is unique): the call
\* of the API answers "queued", the job fails.
CommitEvent(s) ==
  LET e == session[s].task
      old == session[s].old
      clash == Kind[e] = "charge" /\ old.status = "none" /\ sub.status # "none"
  IN /\ session[s].pc = "loaded"
     /\ e \in Events /\ Kind[e] # "invoice"
     /\ \/ clash /\ session[s].job = NoJob /\ Finish(s) /\ UNCHANGED <<sub, handled, jobs, lost>>
        \/ clash /\ JobFails(s) /\ UNCHANGED <<sub, handled>>
        \/ /\ ~clash
           /\ \E new \in Handled(Kind[e], old) : sub' = Flush(old, new)
           /\ TakesEffect(e)
           /\ Finish(s)
           /\ UNCHANGED <<jobs, lost>>
     /\ UNCHANGED <<swept, day, stored, bounds>>

\* process_failed_payment: an attempt that is not the last commits the row and
\* the retry together, in enqueue_job; then come e-mails.
FailPayment(s) ==
  LET new == Failed(session[s].old)
  IN /\ sub' = Flush(session[s].old, new)
     /\ IF new.status = "attention"
        THEN HasSlot /\ jobs' = WithJob(jobs, "dunning")
        ELSE UNCHANGED jobs
     /\ IF new.status = "attention" /\ session[s].job # NoJob THEN Goto(s, "noted") ELSE Finish(s)

CommitInvoiceFailed(s) ==
  /\ session[s].pc = "loaded"
  /\ session[s].task \in Events /\ Kind[session[s].task] = "invoice"
  /\ IF session[s].old.code THEN FailPayment(s) ELSE Finish(s) /\ UNCHANGED <<sub, jobs>>
  /\ TakesEffect(session[s].task)
  /\ UNCHANGED <<swept, day, stored, lost, bounds>>

\* RecurringBillingHandler skips a row that is not active; retry_payment does not
\* look at the status.
Chargeable(s) ==
  /\ session[s].pc = "loaded"
  /\ \/ session[s].task = "renewal" /\ session[s].old.status = "active"
     \/ session[s].task = "dunning"

SkipRenewal(s) ==
  /\ session[s].pc = "loaded"
  /\ session[s].task = "renewal" /\ session[s].old.status # "active"
  /\ Finish(s)
  /\ UNCHANGED <<sub, jobs, swept, day, stored, handled, lost, bounds>>

\* charge_renewal: Paystack takes the money ...
Charge(s) ==
  /\ Chargeable(s)
  /\ session[s].old.auth
  /\ Goto(s, "charged")
  /\ UNCHANGED <<sub, jobs, swept, day, stored, handled, lost, bounds>>

\* ... and the next payment date is committed.
CommitCharge(s) ==
  /\ session[s].pc = "charged"
  /\ sub' = Flush(session[s].old, Renewed(session[s].old))
  /\ session' = [session EXCEPT ![s].old = Renewed(@), ![s].pc = "renewed"]
  /\ UNCHANGED <<jobs, swept, day, stored, handled, lost, bounds>>

\* Mutant of Recover: the retry succeeds and the status stays.
RecoverUnmarked(s) ==
  /\ session[s].pc = "renewed"
  /\ Finish(s)
  /\ UNCHANGED <<sub, jobs, swept, day, stored, handled, lost, bounds>>

\* _handle_retry_success; a renewal has nothing more to write.
Recover(s) ==
  /\ session[s].pc = "renewed"
  /\ sub' = IF session[s].task = "dunning"
            THEN Flush(session[s].old, Recovered(session[s].old)) ELSE sub
  /\ Finish(s)
  /\ UNCHANGED <<jobs, swept, day, stored, handled, lost, bounds>>

\* No authorisation code, no user, or the charge is declined or raises: a renewal
\* raises, a retry counts as a failed payment.
Decline(s) ==
  /\ Chargeable(s)
  /\ \/ session[s].task = "renewal" /\ JobFails(s) /\ UNCHANGED sub
     \/ session[s].task = "dunning" /\ FailPayment(s) /\ UNCHANGED lost
  /\ UNCHANGED <<swept, day, stored, handled, bounds>>

\* In a job, after a commit (get_ngn_rate may commit too) a statement is refused,
\* or the commit after the charge fails: the handler raises.
Refuse(s) ==
  /\ faults < MaxFaults
  /\ \/ session[s].pc \in {"charged", "renewed", "noted"}
     \/ Chargeable(s)
  /\ JobFails(s)
  /\ faults' = faults + 1
  /\ UNCHANGED <<sub, swept, day, stored, handled, calls>>

\* After the commit of a failed attempt the e-mail is sent; its errors are caught.
Noted(s) ==
  /\ session[s].pc = "noted"
  /\ Finish(s)
  /\ UNCHANGED <<sub, jobs, swept, day, stored, handled, lost, bounds>>

-----------------------------------------------------------------------------
(* Checkout, cancellation, sweep and time.                                 *)

CallApi(s, task) ==
  /\ calls < MaxCalls /\ calls' = calls + 1
  /\ session[s].pc = "idle"
  /\ Load(s, task, NoJob)
  /\ UNCHANGED <<sub, jobs, swept, day, stored, handled, lost, faults>>

Committing(s, task) ==
  /\ session[s].pc = "loaded" /\ session[s].task = task
  /\ Finish(s)
  /\ UNCHANGED <<jobs, swept, day, stored, handled, lost, bounds>>

\* POST /checkout: create_checkout_session reads the row, calls Paystack ...
Checkout(s) == CallApi(s, "checkout")

\* ... and commits a placeholder of the paid tier, ACTIVE by default, if there was
\* no row, and still is none.
CommitCheckout(s) ==
  /\ Committing(s, "checkout")
  /\ sub' = IF session[s].old.status = "none" /\ sub.status = "none"
            THEN [NoSub EXCEPT !.status = "active", !.tier = "paid"] ELSE sub

\* POST /cancel: refused without the codes of a subscription.
Cancel(s) == sub.code /\ CallApi(s, "cancel")

\* cancel_subscription, once Paystack has disabled it.
CommitCancel(s) ==
  /\ Committing(s, "cancel")
  /\ sub' = Flush(session[s].old, Disabled(session[s].old))

\* _billing_sweep_logic: one transaction under the row lock; the key of the day
\* makes a redelivered sweep insert nothing.
BillingSweep ==
  /\ sub.status = "active" /\ sub.next = "due" /\ sub.auth
  /\ ~swept /\ HasSlot
  /\ swept' = TRUE
  /\ jobs' = WithJob(jobs, "renewal")
  /\ UNCHANGED <<sub, session, day, stored, handled, lost, bounds>>

\* A day passes; a payment date may pass with it.
NewDay ==
  /\ day < MaxDays
  /\ day' = day + 1
  /\ swept' = FALSE
  /\ \/ UNCHANGED sub
     \/ sub.next = "later" /\ sub' = [sub EXCEPT !.next = "due"]
  /\ UNCHANGED <<jobs, session, stored, handled, lost, bounds>>

-----------------------------------------------------------------------------
Step(s) ==
  \/ FindQueued(s) \/ StoreWebhook(s)
  \/ CommitEvent(s) \/ CommitInvoiceFailed(s)
  \/ SkipRenewal(s) \/ Charge(s) \/ CommitCharge(s) \/ Recover(s) \/ Decline(s) \/ Noted(s)
  \/ CommitCheckout(s) \/ CommitCancel(s)
  \/ JobDone(s)

Next ==
  \/ \E s \in Sessions :
       \/ Step(s) \/ Crash(s) \/ Refuse(s)
       \/ \E e \in Events : Deliver(s, e)
       \/ \E j \in JobSlots : RunJob(s, j)
       \/ Checkout(s) \/ Cancel(s)
  \/ \E j \in JobSlots : LoseJob(j)
  \/ BillingSweep \/ NewDay

Spec == Init /\ [][Next]_vars

(***************************************************************************)
(* Fairness: a session that has begun goes on (HTTP calls time out after   *)
(* 30 seconds), and the processor, called every minute, runs pending jobs. *)
(* Nobody has to deliver, buy or cancel anything.                          *)
(***************************************************************************)
Fairness ==
  /\ \A s \in Sessions : WF_vars(Step(s))
  /\ WF_vars(\E s \in Sessions, j \in JobSlots : RunJob(s, j))

FairSpec == Spec /\ Fairness

-----------------------------------------------------------------------------
(* Properties.                                                             *)

\* "Subscription status -> ATTENTION, schedule retry": whatever rival sessions
\* write from stale copies, a subscription in ATTENTION has a dunning job that is
\* still to run or running, unless a dunning job was lost.
AttentionIsRetried ==
  sub.status = "attention" => Waiting("dunning") # {} \/ "dunning" \in lost

\* ATTENTION is not for ever: retries end in ACTIVE or in the downgrade, unless a
\* dunning job is lost.
AttentionEnds == sub.status = "attention" ~> sub.status # "attention" \/ "dunning" \in lost

\* "Webhooks are stored before processing (survives crashes)": an event that was
\* stored takes effect, though the call that stored it dies, unless the job stored
\* for it dies too.
StoredWebhookIsHandled ==
  \A e \in Events : e \in stored ~> handled[e] > 0 \/ e \in lost

\* A webhook answered "Already processed" has been: the job its key was found on
\* is COMPLETED only after the event took effect.
DuplicateWasHandled == \A e \in Events : Completed(e) # {} => handled[e] > 0

\* What the jobs of a subscription and its webhooks leave: no payment problem without a
\* retry to come, no webhook taken for a duplicate that never took effect.
BillingInv == AttentionIsRetried /\ DuplicateWasHandled

-----------------------------------------------------------------------------
(* Claims of the repository that the code does not keep.                   *)

\* "Idempotency keys to prevent duplicate processing": no event takes effect twice.
HandledOnce == \A e \in Events : handled[e] <= 1
=============================================================================
