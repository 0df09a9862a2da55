------------------------------ MODULE MoneyProofs ------------------------------
(***************************************************************************)
(* Money: the attention a subscription gets that needs it, and the rate at *)
(* which it is charged.                                                    *)
(***************************************************************************)
EXTENDS Subscriptions, ExchangeRates, FiniteSetTheorems, TLAPS

-----------------------------------------------------------------------------
(***************************************************************************)
(* Subscriptions, for any number of sessions, jobs, events and attempts.   *)
(***************************************************************************)

\* A row of the table of jobs, and a session of the code.
Job == [kind : Kinds, attempts : 0..JobAttempts, status : {"absent", "pending", "running", "completed", "dead"}]
Session ==
  [pc : {"idle", "dedup", "storing", "loaded", "charged", "renewed", "noted", "done"},
   task : Kinds \cup {"none", "checkout", "cancel"}, job : JobSlots \cup {NoJob}, old : Subscription]

\* A session has its job to itself: the row is RUNNING and of the kind the session runs;
\* once the handler of an event is through, the event has taken effect.
Works(x) ==
  /\ x.job # NoJob => /\ jobs[x.job].status = "running" /\ jobs[x.job].kind = x.task
                      /\ x.pc \in {"loaded", "charged", "renewed", "noted", "done"}
  /\ x.task \in {"renewal", "dunning"} \/ x.pc = "done" => x.job # NoJob
  /\ x.pc = "idle" => x.job = NoJob
  /\ x.pc \in {"dedup", "storing"} => x.task \in Events
  /\ x.pc \in {"charged", "renewed"} => x.task \in {"renewal", "dunning"}
  /\ x.pc \in {"noted", "done"} /\ x.task \in Events => handled[x.task] > 0

\* A job that waits has attempts left; one of an event that completed has taken effect.
JobHolds(j) ==
  /\ j.status = "pending" => j.attempts < JobAttempts
  /\ j.kind \in Events /\ j.status = "completed" => handled[j.kind] > 0

\* A retry that will end the trouble or be followed by another: still to run, or running
\* from a copy of the row that says ATTENTION, so that what it writes is written.
Holds(x, j) == x.job = j /\ x.pc \in {"loaded", "charged", "renewed"} /\ x.old.status = "attention"
Promised(j) ==
  /\ j \in JobSlots /\ jobs[j].kind = "dunning"
  /\ \/ jobs[j].status = "pending"
     \/ jobs[j].status = "running" /\ \E s \in Sessions : Holds(session[s], j)

\* No two sessions run one job; trouble comes with a retry to come, or a lost one.
Alone == \A s, t \in Sessions : s # t /\ session[s].job # NoJob => session[s].job # session[t].job
Retried == sub.status = "attention" => (\E j \in JobSlots : Promised(j)) \/ "dunning" \in lost

\* The inductive invariant of billing.
BillingInd ==
  /\ TypeOK
  /\ \A s \in Sessions : Works(session[s])
  /\ \A j \in JobSlots : JobHolds(jobs[j])
  /\ Alone /\ Retried

-----------------------------------------------------------------------------
\* What the types say of the state, field by field.
LEMMA BillingTypes ==
  ASSUME BillingInd
  PROVE  /\ sub \in Subscription /\ jobs \in [JobSlots -> Job] /\ session \in [Sessions -> Session]
         /\ handled \in [Events -> 0..2] /\ lost \subseteq Kinds /\ stored \subseteq Events
  BY DEF BillingInd, TypeOK, Job, Session

\* Events are no names of tasks, and 0 is no row.
LEMMA NoNames ==
  /\ Events \cap {"none", "renewal", "dunning", "checkout", "cancel"} = {} /\ NoJob \notin JobSlots
  /\ JobAttempts \in Nat /\ JobAttempts > 0 /\ Kind \in [Events -> EventKinds]
  BY SubscriptionsAssumption DEF NoJob

\* The commit of a session's changes is a row, and its status is the session's where the
\* session has changed it.
LEMMA FlushedRow ==
  ASSUME sub \in Subscription, NEW old \in Subscription, NEW new \in Subscription
  PROVE  /\ Flush(old, new) \in Subscription
         /\ Flush(old, new).status = IF new.status # old.status THEN new.status ELSE sub.status
  BY DEF Flush, Subscription

\* At first there is a row, no job and no session.
LEMMA BillingStart == Init => BillingInd
<1> SUFFICES ASSUME Init PROVE BillingInd
  OBVIOUS
<1>1. NoSub \in Subscription /\ Subscribed \in Subscription /\ NoSub.status = "none" /\ Subscribed.status = "active"
  BY DEF NoSub, Subscribed, Subscription, Status
<1>2. sub \in Subscription /\ sub.status # "attention"
  BY <1>1 DEF Init
<1>3. FreeSlot \in Job /\ FreeSlot.status = "absent"
  <2>1. 0 \in 0..JobAttempts
    BY NoNames
  <2> QED
    BY <2>1 DEF FreeSlot, Job, Kinds
<1>4. jobs \in [JobSlots -> Job] /\ \A j \in JobSlots : jobs[j].status = "absent"
  BY <1>3 DEF Init
<1>5. Idle \in Session
  BY <1>1 DEF Idle, Session
<1>6. session \in [Sessions -> Session] /\ \A s \in Sessions : session[s] = Idle
  BY <1>5 DEF Init
<1>7. handled \in [Events -> 0..2] /\ stored \subseteq Events /\ lost \subseteq Kinds /\ swept \in BOOLEAN
  <2>1. 0 \in 0..2
    OBVIOUS
  <2>2. stored = {} /\ lost = {} /\ swept = FALSE /\ handled = [e \in Events |-> 0]
    BY DEF Init
  <2> QED
    BY <2>1, <2>2
<1>8. day \in 0..MaxDays /\ calls \in 0..MaxCalls /\ faults \in 0..MaxFaults
  BY SubscriptionsAssumption DEF Init
<1>9. TypeOK
  BY <1>2, <1>4, <1>6, <1>7, <1>8 DEF TypeOK, Job, Session
<1>10. Works(Idle) /\ Idle.job = NoJob
  BY DEF Works, Idle
<1> QED
  BY <1>2, <1>4, <1>6, <1>9, <1>10 DEF BillingInd, Alone, Retried, JobHolds

-----------------------------------------------------------------------------
\* What no step but its own session's takes from a session: rows of jobs that are in
\* hand stay, effects are not undone, rows appear only in free slots.
Untouched(k) ==
  /\ \A j \in JobSlots : j # k =>
       \/ jobs'[j] = jobs[j]
       \/ jobs[j].status = "absent" /\ jobs'[j].status = "pending" /\ jobs'[j].attempts = 0
  /\ \A e \in Events : handled[e] > 0 => handled'[e] > 0
  /\ lost \subseteq lost'

\* A step leaves true what a session relies on, unless it is about its job.
LEMMA OthersWork ==
  ASSUME NEW x \in Session, Works(x), NEW k, x.job = NoJob \/ x.job # k, Untouched(k)
  PROVE  Works(x)'
<1>1. x.job # NoJob => x.job \in JobSlots
  BY DEF Session
<1>2. x.job # NoJob => jobs'[x.job] = jobs[x.job]
  BY <1>1 DEF Untouched, Works
<1>3. x.pc \in {"noted", "done"} /\ x.task \in Events => handled'[x.task] > 0
  BY DEF Works, Untouched
<1> QED
  BY <1>2, <1>3 DEF Works

\* A step leaves true what is known of jobs other than its own.
LEMMA OtherJobsHold ==
  ASSUME BillingInd, NEW k, NEW j \in JobSlots, j # k, Untouched(k)
  PROVE  JobHolds(jobs[j])'
<1>1. JobHolds(jobs[j])
  BY DEF BillingInd
<1>2. CASE jobs'[j] = jobs[j]
  <2>1. jobs[j].kind \in Events /\ jobs[j].status = "completed" => handled'[jobs[j].kind] > 0
    BY <1>1 DEF JobHolds, Untouched
  <2> QED
    BY <1>1, <1>2, <2>1 DEF JobHolds
<1>3. CASE jobs'[j].status = "pending" /\ jobs'[j].attempts = 0
  <2>1. 0 < JobAttempts
    BY NoNames
  <2> QED
    BY <1>3, <2>1 DEF JobHolds
<1> QED
  BY <1>2, <1>3 DEF Untouched

\* A retry that is promised stays so unless it is the one in hand.
LEMMA PromiseStands ==
  ASSUME BillingInd, NEW k \in JobSlots \cup {NoJob}, Untouched(k),
         \A r \in Sessions : session[r].job # NoJob /\ session[r].job # k => session'[r] = session[r],
         NEW j \in JobSlots, j # k, Promised(j)
  PROVE  Promised(j)'
<1>1. session \in [Sessions -> Session] /\ j \in JobSlots
  BY BillingTypes DEF Promised
<1>2. jobs'[j] = jobs[j]
  BY <1>1 DEF Untouched, Promised
<1>3. CASE jobs[j].status = "pending"
  BY <1>2, <1>3 DEF Promised
<1>4. CASE jobs[j].status = "running" /\ \E r \in Sessions : Holds(session[r], j)
  <2>1. PICK r \in Sessions : Holds(session[r], j)
    BY <1>4
  <2>2. session[r].job # NoJob /\ session[r].job # k
    BY <2>1, <1>1, NoNames DEF Holds
  <2>3. session'[r] = session[r]
    BY <2>2
  <2>4. Holds(session[r], j)'
    BY <2>1, <2>3 DEF Holds
  <2> QED
    BY <1>2, <1>4, <2>4 DEF Promised
<1> QED
  BY <1>3, <1>4 DEF Promised

\* The variables that have a range and nothing more.
Counters ==
  /\ swept \in BOOLEAN /\ day \in 0..MaxDays /\ stored \subseteq Events
  /\ calls \in 0..MaxCalls /\ faults \in 0..MaxFaults

\* A step of session s, which becomes x and has k in hand before or afterwards.
LEMMA SessionMoves ==
  ASSUME BillingInd, NEW s \in Sessions, NEW x \in Session, session' = [session EXCEPT ![s] = x],
         NEW k \in JobSlots \cup {NoJob}, {session[s].job, x.job} \subseteq {NoJob, k},
         k # NoJob => \A t \in Sessions : t # s => session[t].job # k,
         sub' \in Subscription, jobs' \in [JobSlots -> Job], handled' \in [Events -> 0..2], lost' \subseteq Kinds,
         Counters', Untouched(k), Works(x)', k # NoJob => JobHolds(jobs[k])',
         sub'.status = "attention" =>
           \/ \E j \in JobSlots : Promised(j)'
           \/ "dunning" \in lost'
           \/ sub.status = "attention" /\ ~(k # NoJob /\ Promised(k))
  PROVE  BillingInd'
<1>1. session \in [Sessions -> Session] /\ session' \in [Sessions -> Session]
  BY BillingTypes
<1>2. ASSUME NEW t \in Sessions PROVE session'[t] = IF t = s THEN x ELSE session[t]
  BY <1>1
<1>3. TypeOK'
  BY <1>1 DEF TypeOK, Job, Session, Counters
<1>4. ASSUME NEW t \in Sessions PROVE Works(session[t])'
  <2>1. CASE t = s
    BY <1>2, <2>1 DEF Works
  <2>2. CASE t # s
    <3>1. session'[t] = session[t] /\ session[t] \in Session /\ Works(session[t])
      BY <1>1, <1>2, <2>2 DEF BillingInd
    <3>2. session[t].job = NoJob \/ session[t].job # k
      BY <2>2
    <3>3. \A y \in Session : Works(y) /\ (y.job = NoJob \/ y.job # k) => Works(y)'
      BY OthersWork
    <3> QED
      BY <3>1, <3>2, <3>3 DEF Works
  <2> QED
    BY <2>1, <2>2
<1>5. ASSUME NEW j \in JobSlots PROVE JobHolds(jobs[j])'
  BY OtherJobsHold, NoNames
<1>6. Alone'
  <2> SUFFICES ASSUME NEW t \in Sessions, NEW u \in Sessions, t # u, session'[t].job # NoJob
               PROVE  session'[t].job # session'[u].job
    BY DEF Alone
  <2>1. CASE t # s /\ u # s
    BY <1>2, <2>1 DEF BillingInd, Alone
  <2>2. CASE t = s
    BY <1>2, <2>2
  <2>3. CASE u = s
    BY <1>2, <2>3
  <2> QED
    BY <2>1, <2>2, <2>3
<1>7. ASSUME NEW j \in JobSlots, j # k, Promised(j) PROVE Promised(j)'
  <2>1. \A r \in Sessions : session[r].job # NoJob /\ session[r].job # k => session'[r] = session[r]
    BY <1>2
  <2> HIDE <1>2
  <2> QED
    BY <1>7, <2>1, PromiseStands
<1>8. Retried'
  <2> SUFFICES ASSUME sub'.status = "attention", sub.status = "attention", ~(k # NoJob /\ Promised(k)),
                      "dunning" \notin lost'
               PROVE  \E j \in JobSlots : Promised(j)'
    BY DEF Retried
  <2>1. PICK j \in JobSlots : Promised(j)
    BY DEF BillingInd, Retried, Untouched
  <2>2. j \in JobSlots /\ j # k
    BY <2>1, NoNames DEF Promised
  <2> QED
    BY <2>1, <2>2, <1>7
<1> QED
  BY <1>3, <1>4, <1>5, <1>6, <1>8 DEF BillingInd

\* A step that moves no session: the sweep, the detector, the calendar.
LEMMA RowsMove ==
  ASSUME BillingInd, session' = session, NEW k \in JobSlots \cup {NoJob},
         \A t \in Sessions : session[t].job \in {NoJob} \/ session[t].job # k,
         sub' \in Subscription, jobs' \in [JobSlots -> Job], handled' \in [Events -> 0..2], lost' \subseteq Kinds,
         Counters', Untouched(k), k # NoJob => JobHolds(jobs[k])' /\ (Promised(k) => "dunning" \in lost'),
         sub'.status = "attention" => sub.status = "attention"
  PROVE  BillingInd'
<1>1. session \in [Sessions -> Session]
  BY BillingTypes
<1>2. TypeOK'
  BY <1>1 DEF TypeOK, Job, Session, Counters
<1>3. ASSUME NEW t \in Sessions PROVE Works(session[t])'
  <2>1. session[t] \in Session /\ Works(session[t])
    BY <1>1 DEF BillingInd
  <2>2. \A y \in Session : Works(y) /\ (y.job = NoJob \/ y.job # k) => Works(y)'
    BY OthersWork
  <2> QED
    BY <2>1, <2>2 DEF Works
<1>4. ASSUME NEW j \in JobSlots PROVE JobHolds(jobs[j])'
  BY OtherJobsHold, NoNames
<1>5. Alone'
  BY DEF BillingInd, Alone
<1>6. Retried'
  <2> SUFFICES ASSUME sub'.status = "attention", "dunning" \notin lost' PROVE \E j \in JobSlots : Promised(j)'
    BY DEF Retried
  <2>1. PICK j \in JobSlots : Promised(j)
    BY DEF BillingInd, Retried, Untouched
  <2>2. j # k
    BY <2>1, NoNames
  <2>3. jobs'[j] = jobs[j]
    BY <2>1, <2>2 DEF Untouched, Promised
  <2>4. Promised(j)'
    BY <2>1, <2>3 DEF Promised, Holds
  <2> QED
    BY <2>4
<1> QED
  BY <1>2, <1>3, <1>4, <1>5, <1>6 DEF BillingInd

\* A step of session s that leaves the table of jobs alone.
LEMMA QuietStep ==
  ASSUME BillingInd, NEW s \in Sessions, NEW d \in Session, d = session[s],
         NEW x \in Session, session' = [session EXCEPT ![s] = x], x.job = d.job,
         jobs' = jobs, lost' = lost, sub' \in Subscription, handled' \in [Events -> 0..2],
         \A e \in Events : handled[e] > 0 => handled'[e] > 0, Counters', Works(x)',
         sub'.status = "attention" =>
           sub.status = "attention" /\ (Holds(d, d.job) /\ d.task = "dunning" => Holds(x, d.job))
  PROVE  BillingInd'
<1>1. d.job \in JobSlots \cup {NoJob} /\ {d.job, x.job} \subseteq {NoJob, d.job}
  BY DEF Session
<1>2. jobs' \in [JobSlots -> Job] /\ lost' \subseteq Kinds
  BY BillingTypes
<1>3. Untouched(d.job)
  BY DEF Untouched
<1>4. d.job # NoJob => \A t \in Sessions : t # s => session[t].job # d.job
  BY DEF BillingInd, Alone
<1>5. ASSUME d.job # NoJob PROVE JobHolds(jobs[d.job])'
  <2>1. JobHolds(jobs[d.job])
    BY <1>1, <1>5 DEF BillingInd
  <2> QED
    BY <2>1 DEF JobHolds
<1>6. ASSUME d.job # NoJob, Promised(d.job), sub'.status = "attention" PROVE Promised(d.job)'
  <2>1. jobs[d.job].status = "running" /\ jobs[d.job].kind = d.task
    BY <1>6 DEF BillingInd, Works
  <2>2. PICK t \in Sessions : Holds(session[t], d.job)
    BY <1>6, <2>1 DEF Promised
  <2>3. t = s
    BY <1>4, <1>6, <2>2 DEF Holds
  <2>4. Holds(x, d.job)
    BY <1>6, <2>1, <2>2, <2>3 DEF Promised
  <2>5. session'[s] = x
    BY BillingTypes
  <2>6. Holds(session[s], d.job)'
    BY <2>4, <2>5 DEF Holds
  <2> QED
    BY <1>6, <2>1, <2>6 DEF Promised
<1>7. sub'.status = "attention" =>
        \/ \E j \in JobSlots : Promised(j)'
        \/ "dunning" \in lost'
        \/ sub.status = "attention" /\ ~(d.job # NoJob /\ Promised(d.job))
  BY <1>1, <1>6 DEF Promised
<1> QED
  BY <1>1, <1>2, <1>3, <1>4, <1>5, <1>7, SessionMoves

\* A step that takes the job out of a session's hand.
LEMMA JobEnds ==
  ASSUME BillingInd, NEW s \in Sessions, NEW d \in Session, d = session[s], d.job # NoJob,
         session' = [session EXCEPT ![s] = Idle], UNCHANGED <<sub, handled>>, Counters',
         jobs' \in [JobSlots -> Job], \A j \in JobSlots : j # d.job => jobs'[j] = jobs[j],
         lost \subseteq lost', lost' \subseteq Kinds, JobHolds(jobs[d.job])',
         \/ ~Holds(d, d.job) \/ d.task # "dunning" \/ "dunning" \in lost'
         \/ jobs'[d.job].kind = "dunning" /\ jobs'[d.job].status = "pending"
  PROVE  BillingInd'
<1>1. d.job \in JobSlots /\ Idle \in Session /\ Idle.job = NoJob /\ Idle.pc = "idle"
  BY DEF Session, Idle, NoSub, Subscription, Status
<1>2. {d.job, Idle.job} \subseteq {NoJob, d.job} /\ d.job \in JobSlots \cup {NoJob}
  BY <1>1
<1>3. Works(Idle)'
  BY <1>1 DEF Works, Idle
<1>4. Untouched(d.job)
  BY DEF Untouched
<1>5. sub' \in Subscription /\ handled' \in [Events -> 0..2]
  BY BillingTypes
<1>6. \A t \in Sessions : t # s => session[t].job # d.job
  BY DEF BillingInd, Alone
<1>7. CASE jobs'[d.job].kind = "dunning" /\ jobs'[d.job].status = "pending"
  <2>1. Promised(d.job)'
    BY <1>1, <1>7 DEF Promised
  <2> QED
    BY <1>1, <1>2, <1>3, <1>4, <1>5, <1>6, <2>1, SessionMoves
<1>8. CASE "dunning" \in lost'
  BY <1>1, <1>2, <1>3, <1>4, <1>5, <1>6, <1>8, SessionMoves
<1>9. CASE ~Holds(d, d.job) \/ d.task # "dunning"
  <2>1. ASSUME Promised(d.job) PROVE FALSE
    <3>1. jobs[d.job].status = "running" /\ jobs[d.job].kind = d.task
      BY DEF BillingInd, Works
    <3>2. PICK t \in Sessions : Holds(session[t], d.job)
      BY <2>1, <3>1 DEF Promised
    <3>3. t = s
      BY <1>6, <3>2 DEF Holds
    <3> QED
      BY <1>9, <2>1, <3>1, <3>2, <3>3 DEF Promised
  <2> QED
    BY <1>1, <1>2, <1>3, <1>4, <1>5, <1>6, <2>1, SessionMoves
<1> QED
  BY <1>7, <1>8, <1>9

-----------------------------------------------------------------------------
\* A session that is through: it ends, or goes on to settle its job.
Over(d) == IF d.job = NoJob THEN Idle ELSE [d EXCEPT !.pc = "done"]

\* The counters are in their ranges.
LEMMA Ranges == BillingInd => Counters
  BY DEF BillingInd, TypeOK, Counters

\* A session that has ended is a session, and a free row is a row.
LEMMA IdleRow == Idle \in Session /\ Idle.job = NoJob /\ Idle.pc = "idle" /\ Idle.task = "none" /\ FreeSlot \in Job
<1>1. 0 \in 0..JobAttempts
  BY NoNames
<1> QED
  BY <1>1 DEF Session, Idle, NoSub, Subscription, Status, FreeSlot, Job, Kinds

\* A session that is through keeps its job until the job is settled.
LEMMA Finishing ==
  ASSUME NEW d \in Session, Works(d), d.job # NoJob => jobs'[d.job] = jobs[d.job],
         d.job # NoJob /\ d.task \in Events => handled'[d.task] > 0
  PROVE  Over(d) \in Session /\ Over(d).job = d.job /\ Works(Over(d))'
<1>1. CASE d.job = NoJob
  BY <1>1, IdleRow DEF Over, Works
<1>2. CASE d.job # NoJob
  <2>1. Over(d) \in Session /\ Over(d) = [d EXCEPT !.pc = "done"]
    BY <1>2 DEF Over, Session
  <2>2. Over(d).job = d.job /\ Over(d).task = d.task /\ Over(d).pc = "done"
    BY <2>1 DEF Session
  <2> HIDE DEF Over
  <2> QED
    BY <1>2, <2>1, <2>2 DEF Works
<1> QED
  BY <1>1, <1>2

\* A settled job frees its row or stays as the record of its event.
LEMMA SlotSettled ==
  ASSUME BillingInd, NEW j \in JobSlots, NEW status \in {"completed", "dead", "running"},
         jobs' = Settled(j, status)
  PROVE  /\ jobs' \in [JobSlots -> Job] /\ \A i \in JobSlots : i # j => jobs'[i] = jobs[i]
         /\ jobs'[j] = FreeSlot \/ (jobs[j].kind \in Events /\ jobs'[j] = [jobs[j] EXCEPT !.status = status])
<1>1. jobs \in [JobSlots -> Job]
  BY BillingTypes
<1>2. jobs' = [jobs EXCEPT ![j] = IF jobs[j].kind \in Events THEN [jobs[j] EXCEPT !.status = status] ELSE FreeSlot]
  BY <1>1 DEF Settled
<1>3. jobs[j] \in Job
  BY <1>1
<1>4. [jobs[j] EXCEPT !.status = status] \in Job
  BY <1>3 DEF Job
<1> HIDE DEF Settled
<1> QED
  BY <1>1, <1>2, <1>4, IdleRow

\* A job that fails is put back, or is lost with its attempts used up.
LEMMA Failing ==
  ASSUME BillingInd, NEW s \in Sessions, JobFails(s), UNCHANGED <<sub, handled>>, Counters'
  PROVE  BillingInd'
<1>1. PICK d \in Session : d = session[s] /\ Works(d)
  BY BillingTypes DEF BillingInd
<1>2. d.job \in JobSlots /\ d.job # NoJob /\ session' = [session EXCEPT ![s] = Idle]
  BY <1>1 DEF JobFails, Session
<1>3. jobs[d.job] \in Job /\ jobs[d.job].status = "running" /\ jobs[d.job].kind = d.task
  BY <1>1, <1>2, BillingTypes DEF Works
<1>4. JobAttempts \in Nat /\ jobs[d.job].attempts \in Nat
  BY <1>3, NoNames DEF Job
<1>5. CASE jobs[d.job].attempts >= JobAttempts
  <2>1. jobs' = Settled(d.job, "dead") /\ lost' = lost \cup {d.task}
    BY <1>1, <1>3, <1>5 DEF JobFails
  <2>2. JobHolds(jobs[d.job])'
    <3>1. jobs'[d.job] = FreeSlot \/ jobs'[d.job] = [jobs[d.job] EXCEPT !.status = "dead"]
      BY <1>2, <2>1, SlotSettled
    <3>2. [jobs[d.job] EXCEPT !.status = "dead"].status = "dead" /\ FreeSlot.status = "absent"
      BY <1>3 DEF Job, FreeSlot
    <3>3. jobs'[d.job].status \in {"absent", "dead"}
      BY <3>1, <3>2
    <3> QED
      BY <3>3 DEF JobHolds
  <2>3. jobs' \in [JobSlots -> Job] /\ \A j \in JobSlots : j # d.job => jobs'[j] = jobs[j]
    BY <1>2, <2>1, SlotSettled
  <2>4. d.task \in Kinds
    BY <1>3 DEF Job
  <2>5. lost \subseteq lost' /\ lost' \subseteq Kinds
    BY <2>1, <2>4, BillingTypes
  <2>6. d.task # "dunning" \/ "dunning" \in lost'
    BY <2>1
  <2> QED
    BY <1>1, <1>2, <2>2, <2>3, <2>5, <2>6, JobEnds
<1>6. CASE ~(jobs[d.job].attempts >= JobAttempts)
  <2>1. jobs' = [jobs EXCEPT ![d.job] = [jobs[d.job] EXCEPT !.status = "pending"]] /\ lost' = lost
    BY <1>1, <1>2, <1>6, BillingTypes DEF JobFails
  <2>2. [jobs[d.job] EXCEPT !.status = "pending"] \in Job
    BY <1>3 DEF Job
  <2>3. jobs' \in [JobSlots -> Job] /\ \A j \in JobSlots : j # d.job => jobs'[j] = jobs[j]
    BY <2>1, <2>2, BillingTypes
  <2>4. jobs'[d.job] = [jobs[d.job] EXCEPT !.status = "pending"]
    BY <1>2, <2>1, BillingTypes
  <2>5. jobs'[d.job].status = "pending" /\ jobs'[d.job].kind = d.task /\ jobs'[d.job].attempts = jobs[d.job].attempts
    BY <1>3, <2>4 DEF Job
  <2>6. JobHolds(jobs[d.job])'
    BY <1>4, <1>6, <2>5 DEF JobHolds
  <2>7. lost \subseteq lost' /\ lost' \subseteq Kinds
    BY <2>1, BillingTypes
  <2> QED
    BY <1>1, <1>2, <2>3, <2>5, <2>6, <2>7, JobEnds
<1> QED
  BY <1>5, <1>6

\* A job that completes has had its effect.
LEMMA Completing == ASSUME BillingInd, NEW s \in Sessions, JobDone(s) PROVE BillingInd'
<1>1. PICK d \in Session : d = session[s] /\ Works(d)
  BY BillingTypes DEF BillingInd
<1>2. d.pc = "done" /\ session' = [session EXCEPT ![s] = Idle] /\ jobs' = Settled(d.job, "completed")
  BY <1>1 DEF JobDone
<1>3. d.job \in JobSlots /\ d.job # NoJob /\ jobs[d.job].kind = d.task
  BY <1>1, <1>2 DEF Works, Session
<1>4. UNCHANGED <<sub, handled, lost>> /\ Counters'
  BY Ranges DEF JobDone, bounds, Counters
<1>5. jobs' \in [JobSlots -> Job] /\ \A j \in JobSlots : j # d.job => jobs'[j] = jobs[j]
  BY <1>2, <1>3, SlotSettled
<1>6. JobHolds(jobs[d.job])'
  <2>1. CASE jobs'[d.job] = FreeSlot
    BY <2>1 DEF JobHolds, FreeSlot
  <2>2. CASE jobs[d.job].kind \in Events /\ jobs'[d.job] = [jobs[d.job] EXCEPT !.status = "completed"]
    <3>1. jobs[d.job] \in Job
      BY <1>3, BillingTypes
    <3>2. jobs'[d.job].kind = d.task /\ jobs'[d.job].status = "completed"
      BY <1>3, <2>2, <3>1 DEF Job
    <3>3. handled'[d.task] > 0
      BY <1>1, <1>2, <1>3, <1>4, <2>2 DEF Works
    <3> QED
      BY <3>2, <3>3 DEF JobHolds
  <2> QED
    BY <1>2, <1>3, <2>1, <2>2, SlotSettled
<1>7. lost \subseteq lost' /\ lost' \subseteq Kinds
  BY <1>4, BillingTypes
<1>8. ~Holds(d, d.job)
  BY <1>2 DEF Holds
<1> QED
  BY <1>1, <1>2, <1>3, <1>4, <1>5, <1>6, <1>7, <1>8, JobEnds

-----------------------------------------------------------------------------
\* A queued job takes a free row and no other.
LEMMA Queueing ==
  ASSUME BillingInd, HasSlot, NEW kind \in Kinds, jobs' = WithJob(jobs, kind)
  PROVE  /\ jobs' \in [JobSlots -> Job]
         /\ \E n \in JobSlots :
              /\ jobs[n].status = "absent"
              /\ jobs'[n].kind = kind /\ jobs'[n].status = "pending" /\ jobs'[n].attempts = 0
              /\ \A j \in JobSlots : j # n => jobs'[j] = jobs[j]
<1>1. PICK n \in JobSlots : n = Slot /\ jobs[n].status = "absent"
  BY DEF HasSlot, Slot
<1>2. jobs' = [jobs EXCEPT ![n] = [kind |-> kind, status |-> "pending", attempts |-> 0]]
  BY <1>1 DEF WithJob
<1>3. 0 \in 0..JobAttempts
  BY NoNames
<1>4. [kind |-> kind, status |-> "pending", attempts |-> 0] \in Job
  BY <1>3 DEF Job
<1> QED
  BY <1>1, <1>2, <1>4, BillingTypes

\* A crash of a session leaves its job running, for nobody: it may be lost.
LEMMA Crashing == ASSUME BillingInd, NEW s \in Sessions, Crash(s) PROVE BillingInd'
<1>1. PICK d \in Session : d = session[s] /\ Works(d)
  BY BillingTypes DEF BillingInd
<1>2. UNCHANGED <<sub, handled>> /\ session' = [session EXCEPT ![s] = Idle]
  BY DEF Crash
<1>3. Counters'
  <2>1. MaxFaults \in Nat
    BY SubscriptionsAssumption
  <2>2. faults' \in 0..MaxFaults
    BY <2>1, Ranges DEF Crash, Counters
  <2> QED
    BY <2>2, Ranges DEF Crash, Counters
<1>4. CASE d.job = NoJob
  <2>1. jobs' = jobs /\ lost' = lost
    BY <1>1, <1>4 DEF Crash
  <2>2. Works(Idle)'
    BY IdleRow DEF Works
  <2>4. sub' \in Subscription /\ handled' \in [Events -> 0..2] /\ \A e \in Events : handled[e] > 0 => handled'[e] > 0
    BY <1>2, BillingTypes
  <2>5. ~(d.task = "dunning")
    BY <1>1, <1>4 DEF Works
  <2> QED
    BY <1>1, <1>2, <1>3, <1>4, <2>1, <2>2, <2>4, <2>5, IdleRow, QuietStep
<1>5. CASE d.job # NoJob
  <2>1. jobs' = Settled(d.job, "running") /\ lost' = lost \cup {d.task}
    BY <1>1, <1>5 DEF Crash
  <2>2. d.job \in JobSlots /\ jobs[d.job].kind = d.task
    BY <1>1, <1>5 DEF Works, Session
  <2>3. jobs' \in [JobSlots -> Job] /\ \A j \in JobSlots : j # d.job => jobs'[j] = jobs[j]
    BY <2>1, <2>2, SlotSettled
  <2>4. JobHolds(jobs[d.job])'
    <3>1. jobs'[d.job] = FreeSlot \/ jobs'[d.job] = [jobs[d.job] EXCEPT !.status = "running"]
      BY <2>1, <2>2, SlotSettled
    <3>2. [jobs[d.job] EXCEPT !.status = "running"].status = "running" /\ FreeSlot.status = "absent"
      BY <2>2, BillingTypes DEF Job, FreeSlot
    <3>3. jobs'[d.job].status \in {"absent", "running"}
      BY <3>1, <3>2
    <3> QED
      BY <3>3 DEF JobHolds
  <2>5. d.task \in Kinds
    BY <2>2, BillingTypes DEF Job
  <2>6. lost \subseteq lost' /\ lost' \subseteq Kinds
    BY <2>1, <2>5, BillingTypes
  <2>7. d.task # "dunning" \/ "dunning" \in lost'
    BY <2>1
  <2> QED
    BY <1>1, <1>2, <1>3, <1>5, <2>3, <2>4, <2>6, <2>7, JobEnds
<1> QED
  BY <1>4, <1>5

\* A job that a processor takes up finds a session that is free.
LEMMA Running == ASSUME BillingInd, NEW s \in Sessions, NEW j \in JobSlots, RunJob(s, j) PROVE BillingInd'
<1>1. PICK d \in Session : d = session[s] /\ Works(d)
  BY BillingTypes DEF BillingInd
<1>2. PICK c \in Subscription : c = sub
  BY BillingTypes
<1>3. PICK r \in Job : r = jobs[j]
  BY BillingTypes
<1>4. UNCHANGED <<sub, handled, lost>> /\ Counters'
  BY Ranges DEF RunJob, bounds, Counters
<1>5. d.job = NoJob /\ r.status = "pending" /\ r.kind \in Kinds
  BY <1>1, <1>3 DEF RunJob, Works, Job
<1>6. DEFINE x == [pc |-> "loaded", task |-> r.kind, job |-> j, old |-> c]
<1>7. x \in Session /\ session' = [session EXCEPT ![s] = x]
  BY <1>2, <1>3, <1>5 DEF RunJob, Load, Session
<1>8. x.job = j /\ x.pc = "loaded" /\ x.task = r.kind /\ x.old = c
  OBVIOUS
<1>9. r.attempts + 1 \in 0..JobAttempts
  <2>1. JobHolds(r)
    BY <1>3 DEF BillingInd
  <2>2. r.attempts \in Nat /\ JobAttempts \in Nat /\ r.attempts < JobAttempts
    BY <1>5, <2>1, NoNames DEF JobHolds, Job
  <2> QED
    BY <2>2
<1>10. jobs' = [jobs EXCEPT ![j] = [r EXCEPT !.status = "running", !.attempts = @ + 1]]
  BY <1>3, BillingTypes DEF RunJob, Job
<1>11. [r EXCEPT !.status = "running", !.attempts = @ + 1] \in Job
  BY <1>9 DEF Job
<1>12. /\ jobs' \in [JobSlots -> Job] /\ \A i \in JobSlots : i # j => jobs'[i] = jobs[i]
       /\ jobs'[j] = [r EXCEPT !.status = "running", !.attempts = @ + 1]
  BY <1>10, <1>11, BillingTypes
<1>13. jobs'[j].status = "running" /\ jobs'[j].kind = r.kind
  BY <1>12 DEF Job
<1>14. Untouched(j)
  BY <1>4, <1>12 DEF Untouched
<1>15. JobHolds(jobs[j])'
  BY <1>13 DEF JobHolds
<1> HIDE DEF x
<1>16. r.kind \notin {"none", "checkout", "cancel"}
  BY <1>5, NoNames DEF Kinds
<1>17. Works(x)'
  BY <1>7, <1>8, <1>13, <1>16, NoNames DEF Works
<1>18. \A t \in Sessions : t # s => session[t].job # j
  <2> SUFFICES ASSUME NEW t \in Sessions, session[t].job = j PROVE FALSE
    OBVIOUS
  <2>1. Works(session[t])
    BY DEF BillingInd
  <2> QED
    BY <1>3, <1>5, <2>1, NoNames DEF Works
<1>19. sub'.status = "attention" =>
         \/ \E i \in JobSlots : Promised(i)'
         \/ sub.status = "attention" /\ ~(j # NoJob /\ Promised(j))
  <2> SUFFICES ASSUME sub'.status = "attention", r.kind = "dunning" PROVE Promised(j)'
    BY <1>3, <1>4 DEF Promised
  <2>1. session'[s] = x
    BY <1>7, BillingTypes
  <2>2. Holds(session[s], j)'
    BY <1>2, <1>4, <1>8, <2>1 DEF Holds
  <2> QED
    BY <1>13, <2>2 DEF Promised
<1>20. sub' \in Subscription /\ handled' \in [Events -> 0..2] /\ lost' \subseteq Kinds
  BY <1>4, BillingTypes
<1>21. {session[s].job, x.job} \subseteq {NoJob, j} /\ j \in JobSlots \cup {NoJob}
  BY <1>1, <1>5, <1>8
<1> QED
  BY <1>4, <1>7, <1>12, <1>14, <1>15, <1>17, <1>18, <1>19, <1>20, <1>21, SessionMoves

\* The sweep over stuck jobs ends those that no session has in hand.
LEMMA Losing == ASSUME BillingInd, NEW j \in JobSlots, LoseJob(j) PROVE BillingInd'
<1>1. jobs' = Settled(j, "dead") /\ lost' = lost \cup {"dunning"} /\ session' = session /\ UNCHANGED <<sub, handled>>
  BY DEF LoseJob
<1>2. Counters'
  BY Ranges DEF LoseJob, bounds, Counters
<1>3. /\ jobs' \in [JobSlots -> Job] /\ \A i \in JobSlots : i # j => jobs'[i] = jobs[i]
  BY <1>1, SlotSettled
<1>4. jobs'[j] = FreeSlot
  <2>1. "dunning" \notin Events
    BY NoNames
  <2> QED
    BY <1>1, <2>1, SlotSettled DEF LoseJob
<1>5. JobHolds(jobs[j])'
  BY <1>4 DEF JobHolds, FreeSlot
<1>6. Untouched(j)
  BY <1>1, <1>3 DEF Untouched
<1>7. \A t \in Sessions : session[t].job \in {NoJob} \/ session[t].job # j
  <2> SUFFICES ASSUME NEW t \in Sessions, session[t].job = j, j # NoJob PROVE FALSE
    OBVIOUS
  <2>1. Works(session[t])
    BY DEF BillingInd
  <2> QED
    BY <2>1 DEF Works, LoseJob
<1>8. sub' \in Subscription /\ handled' \in [Events -> 0..2] /\ lost' \subseteq Kinds
  BY <1>1, BillingTypes DEF Kinds
<1> QED
  BY <1>1, <1>2, <1>3, <1>5, <1>6, <1>7, <1>8, RowsMove

\* The sweep queues renewals; it changes no subscription.
LEMMA Sweeping == ASSUME BillingInd, BillingSweep PROVE BillingInd'
<1>1. HasSlot /\ jobs' = WithJob(jobs, "renewal") /\ session' = session /\ UNCHANGED <<sub, handled, lost>>
  BY DEF BillingSweep
<1>2. Counters'
  BY Ranges DEF BillingSweep, bounds, Counters
<1>3. "renewal" \in Kinds
  BY DEF Kinds
<1>4. jobs' \in [JobSlots -> Job]
  BY <1>1, <1>3, Queueing
<1>5. PICK n \in JobSlots :
        /\ jobs[n].status = "absent" /\ jobs'[n].status = "pending" /\ jobs'[n].attempts = 0
        /\ \A j \in JobSlots : j # n => jobs'[j] = jobs[j]
  BY <1>1, <1>3, Queueing
<1>6. Untouched(NoJob)
  BY <1>1, <1>5 DEF Untouched
<1>7. sub' \in Subscription /\ handled' \in [Events -> 0..2] /\ lost' \subseteq Kinds
  BY <1>1, BillingTypes
<1>8. \A t \in Sessions : session[t].job \in {NoJob} \/ session[t].job # NoJob
  OBVIOUS
<1> QED
  BY <1>1, <1>2, <1>4, <1>6, <1>7, <1>8, RowsMove

\* A day that passes changes no subscription and no job.
LEMMA DayPasses == ASSUME BillingInd, NewDay PROVE BillingInd'
<1>1. session' = session /\ UNCHANGED <<jobs, handled, lost>>
  BY DEF NewDay
<1>2. Counters'
  <2>1. MaxDays \in Nat
    BY SubscriptionsAssumption
  <2>2. day' \in 0..MaxDays
    BY <2>1, Ranges DEF NewDay, Counters
  <2> QED
    BY <2>2, Ranges DEF NewDay, bounds, Counters
<1>3. sub' \in Subscription /\ sub'.status = sub.status
  BY BillingTypes DEF NewDay, Subscription
<1>4. Untouched(NoJob)
  BY <1>1 DEF Untouched
<1>5. jobs' \in [JobSlots -> Job] /\ handled' \in [Events -> 0..2] /\ lost' \subseteq Kinds
  BY <1>1, BillingTypes
<1>6. \A t \in Sessions : session[t].job \in {NoJob} \/ session[t].job # NoJob
  OBVIOUS
<1> QED
  BY <1>1, <1>2, <1>3, <1>4, <1>5, <1>6, RowsMove

-----------------------------------------------------------------------------
\* A session without a job goes on, and changes nothing but itself.
LEMMA FreeHanded ==
  ASSUME BillingInd, NEW s \in Sessions, NEW d \in Session, d = session[s], d.job = NoJob, Works(d),
         NEW x \in Session, session' = [session EXCEPT ![s] = x], x.job = NoJob, Works(x)',
         UNCHANGED <<sub, jobs, handled, lost>>, Counters'
  PROVE  BillingInd'
<1>1. /\ sub' \in Subscription /\ handled' \in [Events -> 0..2] /\ jobs' = jobs /\ lost' = lost
      /\ \A e \in Events : handled[e] > 0 => handled'[e] > 0
  BY BillingTypes
<1>2. d.task # "dunning"
  BY DEF Works
<1>3. sub'.status = "attention" => sub.status = "attention" /\ (Holds(d, d.job) /\ d.task = "dunning" => Holds(x, d.job))
  BY <1>2
<1> QED
  BY <1>1, <1>3, QuietStep

\* A delivery of a webhook, the first or a repeated one.
LEMMA Delivering == ASSUME BillingInd, NEW s \in Sessions, NEW e \in Events, Deliver(s, e) PROVE BillingInd'
<1>1. PICK d \in Session : d = session[s] /\ Works(d)
  BY BillingTypes DEF BillingInd
<1>2. d.job = NoJob /\ UNCHANGED <<sub, jobs, handled, lost>>
  BY <1>1 DEF Deliver, Works
<1>3. Counters'
  <2>1. MaxCalls \in Nat
    BY SubscriptionsAssumption
  <2>2. calls' \in 0..MaxCalls
    BY <2>1, Ranges DEF Deliver, Counters
  <2> QED
    BY <2>2, Ranges DEF Deliver, Counters
<1>4. PICK x : x = [Idle EXCEPT !.pc = "dedup", !.task = e]
  OBVIOUS
<1>5. x \in Session /\ x.pc = "dedup" /\ x.task = e /\ x.job = NoJob
  BY <1>4 DEF Idle, Session, Kinds, NoSub, Subscription, Status
<1>6. session' = [session EXCEPT ![s] = x]
  BY <1>4 DEF Deliver
<1>7. Works(x)'
  BY <1>5, NoNames DEF Works
<1> QED
  BY <1>1, <1>2, <1>3, <1>5, <1>6, <1>7, FreeHanded

\* The row a session loads, in a session of its own.
LEMMA LoadedRow ==
  ASSUME NEW c \in Subscription, NEW task \in Kinds \cup {"checkout", "cancel"}, task \notin {"renewal", "dunning"}
  PROVE  \E x \in Session : /\ x = [pc |-> "loaded", task |-> task, job |-> NoJob, old |-> c]
                            /\ x.pc = "loaded" /\ x.task = task /\ x.job = NoJob /\ x.old = c
                            /\ Works(x)'
<1>1. PICK x \in Session : x = [pc |-> "loaded", task |-> task, job |-> NoJob, old |-> c]
  BY DEF Session
<1>2. x.pc = "loaded" /\ x.task = task /\ x.job = NoJob /\ x.old = c
  BY <1>1
<1>3. Works(x)'
  BY <1>2 DEF Works
<1> QED
  BY <1>1, <1>2, <1>3

\* A webhook whose job is queued or has run already is answered as a duplicate.
LEMMA Finding == ASSUME BillingInd, NEW s \in Sessions, FindQueued(s) PROVE BillingInd'
<1>1. PICK d \in Session : d = session[s] /\ Works(d)
  BY BillingTypes DEF BillingInd
<1>2. /\ d.pc = "dedup" /\ d.job = NoJob /\ d.task \in Events /\ UNCHANGED <<sub, jobs, handled, lost>>
  BY <1>1 DEF FindQueued, Works
<1>3. Counters'
  BY Ranges DEF FindQueued, bounds, Counters
<1>4. \/ Load(s, d.task, NoJob)
      \/ session' = [session EXCEPT ![s] = Idle]
      \/ session' = [session EXCEPT ![s] = [d EXCEPT !.pc = "storing"]]
  BY <1>1, BillingTypes DEF FindQueued
<1>5. CASE Load(s, d.task, NoJob)
  <2>1. PICK c \in Subscription : c = sub
    BY BillingTypes
  <2>2. d.task \in Kinds /\ d.task \notin {"renewal", "dunning"}
    BY <1>2, NoNames DEF Kinds
  <2>3. PICK x \in Session : /\ x = [pc |-> "loaded", task |-> d.task, job |-> NoJob, old |-> c]
                             /\ x.job = NoJob /\ Works(x)'
    BY <2>2, LoadedRow
  <2>4. session' = [session EXCEPT ![s] = x]
    BY <1>5, <2>1, <2>3 DEF Load
  <2> QED
    BY <1>1, <1>2, <1>3, <2>3, <2>4, FreeHanded
<1>6. CASE session' = [session EXCEPT ![s] = Idle]
  <2>1. Works(Idle)'
    BY IdleRow DEF Works
  <2> QED
    BY <1>1, <1>2, <1>3, <1>6, <2>1, IdleRow, FreeHanded
<1>7. CASE session' = [session EXCEPT ![s] = [d EXCEPT !.pc = "storing"]]
  <2>1. PICK x : x = [d EXCEPT !.pc = "storing"]
    OBVIOUS
  <2>2. x \in Session /\ x.pc = "storing" /\ x.task = d.task /\ x.job = NoJob
    BY <1>2, <2>1 DEF Session
  <2>3. Works(x)'
    BY <1>2, <2>2, NoNames DEF Works
  <2>4. session' = [session EXCEPT ![s] = x]
    BY <1>7, <2>1
  <2> QED
    BY <1>1, <1>2, <1>3, <2>2, <2>3, <2>4, FreeHanded
<1> QED
  BY <1>4, <1>5, <1>6, <1>7

\* A call of the API reads the row and has no job.
LEMMA Calling ==
  ASSUME BillingInd, NEW s \in Sessions, NEW task \in {"checkout", "cancel"}, CallApi(s, task)
  PROVE  BillingInd'
<1>1. PICK d \in Session : d = session[s] /\ Works(d)
  BY BillingTypes DEF BillingInd
<1>2. d.job = NoJob /\ UNCHANGED <<sub, jobs, handled, lost>>
  BY <1>1 DEF CallApi, Works
<1>3. Counters'
  <2>1. MaxCalls \in Nat
    BY SubscriptionsAssumption
  <2>2. calls' \in 0..MaxCalls
    BY <2>1, Ranges DEF CallApi, Counters
  <2> QED
    BY <2>2, Ranges DEF CallApi, Counters
<1>4. PICK c \in Subscription : c = sub
  BY BillingTypes
<1>5. PICK x \in Session : x = [pc |-> "loaded", task |-> task, job |-> NoJob, old |-> c] /\ x.job = NoJob /\ Works(x)'
  BY LoadedRow
<1>6. session' = [session EXCEPT ![s] = x]
  BY <1>4, <1>5 DEF CallApi, Load
<1> QED
  BY <1>1, <1>2, <1>3, <1>5, <1>6, FreeHanded

\* A webhook is stored as a job of its event and is handled at once or by that job.
LEMMA Storing == ASSUME BillingInd, NEW s \in Sessions, StoreWebhook(s) PROVE BillingInd'
<1>1. PICK d \in Session : d = session[s] /\ Works(d)
  BY BillingTypes DEF BillingInd
<1>2. /\ d.job = NoJob /\ d.task \in Events /\ UNCHANGED <<sub, handled, lost>>
      /\ HasSlot /\ jobs' = WithJob(jobs, d.task) /\ Load(s, d.task, NoJob)
  BY <1>1 DEF StoreWebhook, Works
<1>3. Counters'
  BY <1>1, <1>2, Ranges DEF StoreWebhook, bounds, Counters
<1>4. d.task \in Kinds /\ d.task \notin {"renewal", "dunning"}
  BY <1>2, NoNames DEF Kinds
<1>5. jobs' \in [JobSlots -> Job]
  BY <1>2, <1>4, Queueing
<1>6. PICK n \in JobSlots :
        /\ jobs[n].status = "absent" /\ jobs'[n].status = "pending" /\ jobs'[n].attempts = 0
        /\ \A j \in JobSlots : j # n => jobs'[j] = jobs[j]
  BY <1>2, <1>4, Queueing
<1>7. Untouched(NoJob)
  BY <1>2, <1>6 DEF Untouched
<1>8. PICK c \in Subscription : c = sub
  BY BillingTypes
<1>9. PICK x \in Session : x = [pc |-> "loaded", task |-> d.task, job |-> NoJob, old |-> c] /\ x.job = NoJob /\ Works(x)'
  BY <1>4, LoadedRow
<1>10. session' = [session EXCEPT ![s] = x]
  BY <1>2, <1>8, <1>9 DEF Load
<1>11. sub' \in Subscription /\ handled' \in [Events -> 0..2] /\ lost' \subseteq Kinds
  BY <1>2, BillingTypes
<1>12. {session[s].job, x.job} \subseteq {NoJob} /\ (sub'.status = "attention" => sub.status = "attention")
  BY <1>1, <1>2, <1>9
<1> QED
  BY <1>3, <1>5, <1>7, <1>9, <1>10, <1>11, <1>12, SessionMoves

\* A handler ends without touching the table of jobs.
LEMMA Ending ==
  ASSUME BillingInd, NEW s \in Sessions, NEW d \in Session, d = session[s], Works(d), Finish(s),
         jobs' = jobs, lost' = lost, sub' \in Subscription, handled' \in [Events -> 0..2],
         \A e \in Events : handled[e] > 0 => handled'[e] > 0, Counters',
         d.job # NoJob /\ d.task \in Events => handled'[d.task] > 0,
         sub'.status = "attention" => sub.status = "attention" /\ ~(Holds(d, d.job) /\ d.task = "dunning")
  PROVE  BillingInd'
<1>1. session' = [session EXCEPT ![s] = Over(d)]
  BY BillingTypes DEF Finish, Over
<1>2. Over(d) \in Session /\ Over(d).job = d.job /\ Works(Over(d))'
  BY Finishing
<1>3. sub'.status = "attention" =>
        sub.status = "attention" /\ (Holds(d, d.job) /\ d.task = "dunning" => Holds(Over(d), d.job))
  OBVIOUS
<1> HIDE DEF Over
<1> QED
  BY <1>1, <1>2, <1>3, QuietStep

\* What the handlers make of a row is a row.
LEMMA RowsMade ==
  ASSUME NEW old \in Subscription
  PROVE  /\ Renewed(old) \in Subscription /\ Renewed(old).status = old.status
         /\ Recovered(old) \in Subscription /\ Recovered(old).status = "active"
         /\ Disabled(old) \in Subscription /\ Disabled(old).status = "cancelled"
         /\ Failed(old) \in Subscription /\ Failed(old).status \in {"cancelled", "attention"}
<1>1. /\ Renewed(old) \in Subscription /\ Renewed(old).status = old.status
      /\ Recovered(old) \in Subscription /\ Recovered(old).status = "active"
      /\ Disabled(old) \in Subscription /\ Disabled(old).status = "cancelled"
  BY DEF Renewed, Recovered, Disabled, Subscription, Status
<1>2. old.attempts \in Nat /\ old.attempts + 1 \in Nat
  BY DEF Subscription
<1>3. [old EXCEPT !.attempts = @ + 1] \in Subscription
  BY <1>2 DEF Subscription
<1>4. PICK n \in Subscription : n = [old EXCEPT !.attempts = @ + 1]
  BY <1>3
<1>5. Downgraded(n) \in Subscription /\ Downgraded(n).status = "cancelled"
  BY DEF Downgraded, Subscription, Status
<1>6. /\ [old EXCEPT !.attempts = @ + 1, !.status = "attention"] \in Subscription
      /\ [old EXCEPT !.attempts = @ + 1, !.status = "attention"].status = "attention"
  <2>1. PICK a \in Nat : a = old.attempts + 1
    BY <1>2
  <2>2. [old EXCEPT !.attempts = a, !.status = "attention"] \in Subscription
    BY DEF Subscription, Status
  <2>3. [old EXCEPT !.attempts = a, !.status = "attention"].status = "attention"
    BY DEF Subscription
  <2> QED
    BY <2>1, <2>2, <2>3
<1>7. Failed(old) = Downgraded(n) \/ Failed(old) = [old EXCEPT !.attempts = @ + 1, !.status = "attention"]
  BY <1>4 DEF Failed
<1> QED
  BY <1>1, <1>5, <1>6, <1>7

\* The handlers of events other than failed invoices do not ask for attention.
LEMMA EventRows ==
  ASSUME NEW old \in Subscription, NEW kind \in {"create", "charge", "disable"}, NEW new \in Handled(kind, old)
  PROVE  new \in Subscription /\ (new.status = old.status \/ new.status # "attention")
<1>1. CASE new = old
  BY <1>1
<1>2. CASE new \in Created(old)
  <2>1. PICK n \in {"none", "later", "due"} : new = [old EXCEPT !.code = TRUE, !.status = "active", !.next = n]
    BY <1>2 DEF Created, Subscription
  <2>2. new \in Subscription
    BY <2>1 DEF Subscription, Status
  <2>3. new.status = "active"
    BY <2>1 DEF Subscription
  <2> QED
    BY <2>2, <2>3
<1>3. CASE new \in Activated(old)
  <2>1. CASE new = old
    BY <2>1
  <2>2. ASSUME NEW a \in {old.auth, TRUE}, NEW t \in {old.tier, "paid"},
               new = [old EXCEPT !.customer = TRUE, !.auth = a, !.tier = t, !.status = "active"]
        PROVE  new \in Subscription /\ new.status = "active"
    <3>1. a \in BOOLEAN /\ t \in {"trial", "paid"}
      BY DEF Subscription
    <3> QED
      BY <2>2, <3>1 DEF Subscription, Status
  <2> QED
    BY <1>3, <2>1, <2>2 DEF Activated
<1>4. CASE new = Disabled(old)
  BY <1>4, RowsMade
<1> QED
  BY <1>1, <1>2, <1>3, <1>4 DEF Handled

\* The steps of a charge: it is made, committed, and its job told.
LEMMA Charging ==
  ASSUME BillingInd, NEW s \in Sessions, SkipRenewal(s) \/ Charge(s) \/ CommitCharge(s) \/ Recover(s) \/ Noted(s)
  PROVE  BillingInd'
<1>1. PICK d \in Session : d = session[s] /\ Works(d)
  BY BillingTypes DEF BillingInd
<1>2. jobs' = jobs /\ lost' = lost /\ handled' = handled
  BY DEF SkipRenewal, Charge, CommitCharge, Recover, Noted
<1>3. handled' \in [Events -> 0..2] /\ \A e \in Events : handled[e] > 0 => handled'[e] > 0
  BY <1>2, BillingTypes
<1>4. Counters'
  BY Ranges DEF SkipRenewal, Charge, CommitCharge, Recover, Noted, bounds, Counters
<1>5. d.old \in Subscription
  BY DEF Session
<1>6. CASE SkipRenewal(s)
  <2>1. d.task = "renewal" /\ "renewal" \notin Events /\ Finish(s) /\ sub' = sub
    BY <1>1, <1>6, NoNames DEF SkipRenewal
  <2>2. sub' \in Subscription
    BY <2>1, BillingTypes
  <2> QED
    BY <1>1, <1>2, <1>3, <1>4, <2>1, <2>2, Ending
<1>7. CASE Noted(s)
  <2>1. d.pc = "noted" /\ Finish(s) /\ sub' = sub
    BY <1>1, <1>7 DEF Noted
  <2>2. d.task \in Events => handled'[d.task] > 0
    BY <1>1, <1>2, <2>1 DEF Works
  <2>3. ~Holds(d, d.job) /\ sub' \in Subscription
    BY <2>1, BillingTypes DEF Holds
  <2> QED
    BY <1>1, <1>2, <1>3, <1>4, <2>1, <2>2, <2>3, Ending
<1>8. CASE Recover(s)
  <2>1. d.pc = "renewed" /\ d.task \in {"renewal", "dunning"} /\ d.task \notin Events /\ Finish(s)
    BY <1>1, <1>8, NoNames DEF Recover, Works
  <2>2. sub \in Subscription /\ Recovered(d.old) \in Subscription /\ Recovered(d.old).status = "active"
    BY <1>5, RowsMade, BillingTypes
  <2>3. CASE d.task = "dunning"
    <3>1. sub' = Flush(d.old, Recovered(d.old))
      BY <1>1, <1>8, <2>3 DEF Recover
    <3>2. sub' \in Subscription /\ sub'.status = IF "active" # d.old.status THEN "active" ELSE sub.status
      BY <1>5, <2>2, <3>1, FlushedRow
    <3>3. sub'.status = "attention" => sub.status = "attention" /\ ~Holds(d, d.job)
      BY <3>2 DEF Holds
    <3> QED
      BY <1>1, <1>2, <1>3, <1>4, <2>1, <3>2, <3>3, Ending
  <2>4. CASE d.task # "dunning"
    <3>1. sub' = sub
      BY <1>1, <1>8, <2>4 DEF Recover
    <3> QED
      BY <1>1, <1>2, <1>3, <1>4, <2>1, <2>2, <2>4, <3>1, Ending
  <2> QED
    BY <2>3, <2>4
<1>9. CASE Charge(s)
  <2>1. d.pc = "loaded" /\ d.task \in {"renewal", "dunning"} /\ sub' = sub /\ Goto(s, "charged")
    BY <1>1, <1>9 DEF Charge, Chargeable
  <2>2. PICK x : x = [d EXCEPT !.pc = "charged"]
    OBVIOUS
  <2>3. x \in Session /\ x.pc = "charged" /\ x.task = d.task /\ x.job = d.job /\ x.old = d.old
    BY <2>2 DEF Session
  <2>4. session' = [session EXCEPT ![s] = x]
    BY <1>1, <2>1, <2>2, BillingTypes DEF Goto
  <2>5. Works(x)'
    BY <1>1, <1>2, <2>1, <2>3, NoNames DEF Works
  <2>6. sub' \in Subscription
    BY <2>1, BillingTypes
  <2>7. Holds(d, d.job) => Holds(x, d.job)
    BY <2>3 DEF Holds
  <2> QED
    BY <1>1, <1>2, <1>3, <1>4, <2>1, <2>3, <2>4, <2>5, <2>6, <2>7, QuietStep
<1>10. CASE CommitCharge(s)
  <2>1. d.pc = "charged" /\ d.task \in {"renewal", "dunning"} /\ sub' = Flush(d.old, Renewed(d.old))
    BY <1>1, <1>10 DEF CommitCharge, Works
  <2>2. PICK n \in Subscription : n = Renewed(d.old) /\ n.status = d.old.status
    BY <1>5, RowsMade
  <2>3. sub' \in Subscription /\ sub'.status = sub.status
    BY <1>5, <2>1, <2>2, FlushedRow, BillingTypes
  <2>4. PICK x : x = [d EXCEPT !.old = n, !.pc = "renewed"]
    OBVIOUS
  <2>5. x \in Session /\ x.pc = "renewed" /\ x.task = d.task /\ x.job = d.job /\ x.old = n
    BY <2>4 DEF Session
  <2>6. session' = [session EXCEPT ![s] = x]
    BY <1>1, <1>10, <2>2, <2>4, BillingTypes DEF CommitCharge, Session
  <2>7. Works(x)'
    BY <1>1, <1>2, <2>1, <2>5, NoNames DEF Works
  <2>8. Holds(d, d.job) => Holds(x, d.job)
    BY <2>2, <2>5 DEF Holds
  <2> QED
    BY <1>1, <1>2, <1>3, <1>4, <2>3, <2>5, <2>6, <2>7, <2>8, QuietStep
<1> QED
  BY <1>6, <1>7, <1>8, <1>9, <1>10

\* The commits of a checkout and of a cancellation.
LEMMA Serving ==
  ASSUME BillingInd, NEW s \in Sessions, CommitCheckout(s) \/ CommitCancel(s)
  PROVE  BillingInd'
<1>1. PICK d \in Session : d = session[s] /\ Works(d)
  BY BillingTypes DEF BillingInd
<1>2. /\ jobs' = jobs /\ lost' = lost /\ handled' = handled /\ Finish(s)
      /\ d.task \in {"checkout", "cancel"} /\ d.task \notin Events
  BY <1>1, NoNames DEF CommitCheckout, CommitCancel, Committing
<1>3. handled' \in [Events -> 0..2] /\ \A e \in Events : handled[e] > 0 => handled'[e] > 0
  BY <1>2, BillingTypes
<1>4. Counters'
  BY Ranges DEF CommitCheckout, CommitCancel, Committing, bounds, Counters
<1>5. d.old \in Subscription /\ sub \in Subscription
  BY BillingTypes DEF Session
<1>6. sub' \in Subscription /\ (sub'.status = "attention" => sub.status = "attention")
  <2>1. CASE CommitCheckout(s)
    <3>1. [NoSub EXCEPT !.status = "active", !.tier = "paid"] \in Subscription
      BY DEF NoSub, Subscription, Status
    <3>2. [NoSub EXCEPT !.status = "active", !.tier = "paid"].status = "active"
      BY DEF NoSub
    <3> QED
      BY <1>5, <2>1, <3>1, <3>2 DEF CommitCheckout
  <2>2. CASE CommitCancel(s)
    <3>1. Disabled(d.old) \in Subscription /\ Disabled(d.old).status = "cancelled"
      BY <1>5, RowsMade
    <3>2. sub' = Flush(d.old, Disabled(d.old))
      BY <1>1, <2>2 DEF CommitCancel
    <3>3. sub' \in Subscription /\ sub'.status = IF "cancelled" # d.old.status THEN "cancelled" ELSE sub.status
      BY <1>5, <3>1, <3>2, FlushedRow
    <3> QED
      BY <3>3
  <2> QED
    BY <2>1, <2>2
<1> QED
  BY <1>1, <1>2, <1>3, <1>4, <1>6, Ending

\* The commit of an event counts it as handled, whatever it wrote.
LEMMA Applying == ASSUME BillingInd, NEW s \in Sessions, CommitEvent(s) PROVE BillingInd'
<1>1. PICK d \in Session : d = session[s] /\ Works(d)
  BY BillingTypes DEF BillingInd
<1>2. d.task \in Events /\ d.old \in Subscription /\ sub \in Subscription /\ d.task # "dunning"
  BY <1>1, BillingTypes, NoNames DEF CommitEvent, Session
<1>3. Counters'
  BY Ranges DEF CommitEvent, bounds, Counters
<1>4. \/ /\ d.job = NoJob /\ Finish(s) /\ UNCHANGED <<sub, handled, jobs, lost>>
      \/ JobFails(s) /\ UNCHANGED <<sub, handled>>
      \/ /\ \E new \in Handled(Kind[d.task], d.old) : sub' = Flush(d.old, new)
         /\ TakesEffect(d.task) /\ Finish(s) /\ UNCHANGED <<jobs, lost>>
  BY <1>1 DEF CommitEvent
<1>5. CASE d.job = NoJob /\ Finish(s) /\ UNCHANGED <<sub, handled, jobs, lost>>
  <2>1. /\ sub' \in Subscription /\ handled' \in [Events -> 0..2]
        /\ \A e \in Events : handled[e] > 0 => handled'[e] > 0
    BY <1>5, BillingTypes
  <2> QED
    BY <1>1, <1>2, <1>3, <1>5, <2>1, Ending
<1>6. CASE JobFails(s) /\ UNCHANGED <<sub, handled>>
  BY <1>3, <1>6, Failing
<1>7. CASE /\ \E new \in Handled(Kind[d.task], d.old) : sub' = Flush(d.old, new)
           /\ TakesEffect(d.task) /\ Finish(s) /\ UNCHANGED <<jobs, lost>>
  <2>1. PICK new \in Handled(Kind[d.task], d.old) : sub' = Flush(d.old, new)
    BY <1>7
  <2>2. Kind[d.task] \in {"create", "charge", "disable"}
    BY <1>1, <1>2, NoNames DEF CommitEvent, EventKinds
  <2>3. new \in Subscription /\ (new.status = d.old.status \/ new.status # "attention")
    BY <1>2, <2>2, EventRows
  <2>4. sub' \in Subscription /\ sub'.status = IF new.status # d.old.status THEN new.status ELSE sub.status
    BY <1>2, <2>1, <2>3, FlushedRow
  <2>5. sub'.status = "attention" => sub.status = "attention"
    BY <2>3, <2>4
  <2>6. /\ handled' \in [Events -> 0..2] /\ handled'[d.task] > 0
        /\ \A e \in Events : handled[e] > 0 => handled'[e] > 0
    BY <1>2, <1>7, BillingTypes DEF TakesEffect
  <2> QED
    BY <1>1, <1>2, <1>3, <1>7, <2>4, <2>5, <2>6, Ending
<1> QED
  BY <1>4, <1>5, <1>6, <1>7

\* A payment has failed: another retry, or the end of the subscription.
LEMMA PaymentFails ==
  ASSUME BillingInd, NEW s \in Sessions, NEW d \in Session, d = session[s], Works(d), FailPayment(s), d.pc = "loaded",
         lost' = lost, handled' \in [Events -> 0..2], \A e \in Events : handled[e] > 0 => handled'[e] > 0,
         Counters', d.task \in Events => handled'[d.task] > 0
  PROVE  BillingInd'
<1>1. PICK new \in Subscription : new = Failed(d.old) /\ new.status \in {"cancelled", "attention"}
  BY RowsMade DEF Session
<1>2. d.old \in Subscription /\ sub \in Subscription
  BY BillingTypes DEF Session
<1>3. sub' = Flush(d.old, new)
  BY <1>1 DEF FailPayment
<1>4. sub' \in Subscription /\ sub'.status = IF new.status # d.old.status THEN new.status ELSE sub.status
  BY <1>2, <1>3, FlushedRow
<1>5. CASE new.status = "cancelled"
  <2>1. jobs' = jobs /\ Finish(s)
    BY <1>1, <1>5 DEF FailPayment
  <2>2. sub'.status = "attention" => sub.status = "attention" /\ ~Holds(d, d.job)
    BY <1>4, <1>5 DEF Holds
  <2> QED
    BY <1>4, <2>1, <2>2, Ending
<1>6. CASE new.status = "attention"
  <2>1. HasSlot /\ jobs' = WithJob(jobs, "dunning")
    BY <1>1, <1>6 DEF FailPayment
  <2>2. "dunning" \in Kinds
    BY DEF Kinds
  <2>3. jobs' \in [JobSlots -> Job]
    BY <2>1, <2>2, Queueing
  <2>4. PICK n \in JobSlots :
          /\ jobs[n].status = "absent" /\ jobs'[n].kind = "dunning"
          /\ jobs'[n].status = "pending" /\ jobs'[n].attempts = 0
          /\ \A j \in JobSlots : j # n => jobs'[j] = jobs[j]
    BY <2>1, <2>2, Queueing
  <2>5. Promised(n)'
    BY <2>4 DEF Promised
  <2>6. Untouched(d.job)
    BY <2>4 DEF Untouched
  <2>7. d.job \in JobSlots \cup {NoJob} /\ lost' \subseteq Kinds
    BY BillingTypes DEF Session
  <2>8. d.job # NoJob => jobs'[d.job] = jobs[d.job] /\ jobs[d.job].status = "running"
    BY <2>4, <2>7 DEF Works
  <2>9. d.job # NoJob => JobHolds(jobs[d.job])'
    BY <2>8 DEF JobHolds
  <2>10. d.job # NoJob => \A t \in Sessions : t # s => session[t].job # d.job
    BY DEF BillingInd, Alone
  <2>11. PICK x \in Session : x.job = d.job /\ Works(x)' /\ session' = [session EXCEPT ![s] = x]
    <3>1. CASE d.job = NoJob
      <4>1. session' = [session EXCEPT ![s] = Over(d)]
        BY <1>1, <3>1, BillingTypes DEF FailPayment, Finish, Over
      <4>2. Over(d) \in Session /\ Over(d).job = d.job /\ Works(Over(d))'
        BY <2>8, Finishing
      <4> QED
        BY <4>1, <4>2
    <3>2. CASE d.job # NoJob
      <4>1. PICK x : x = [d EXCEPT !.pc = "noted"]
        OBVIOUS
      <4>2. x \in Session /\ x.pc = "noted" /\ x.task = d.task /\ x.job = d.job
        BY <4>1 DEF Session
      <4>3. session' = [session EXCEPT ![s] = x]
        BY <1>1, <1>6, <3>2, <4>1, BillingTypes DEF FailPayment, Goto
      <4>4. Works(x)'
        BY <2>8, <3>2, <4>2 DEF Works
      <4> QED
        BY <4>2, <4>3, <4>4
    <3> QED
      BY <3>1, <3>2
  <2>12. {session[s].job, x.job} \subseteq {NoJob, d.job}
    BY <2>11
  <2> QED
    BY <1>4, <2>3, <2>5, <2>6, <2>7, <2>9, <2>10, <2>11, <2>12, SessionMoves
<1> QED
  BY <1>1, <1>5, <1>6

\* A failed invoice asks for attention and queues the retry in the same commit.
LEMMA Invoicing == ASSUME BillingInd, NEW s \in Sessions, CommitInvoiceFailed(s) PROVE BillingInd'
<1>1. PICK d \in Session : d = session[s] /\ Works(d)
  BY BillingTypes DEF BillingInd
<1>2. d.pc = "loaded" /\ d.task \in Events /\ d.task # "dunning" /\ lost' = lost
  BY <1>1, NoNames DEF CommitInvoiceFailed
<1>3. /\ handled' \in [Events -> 0..2] /\ handled'[d.task] > 0
      /\ \A e \in Events : handled[e] > 0 => handled'[e] > 0
  BY <1>1, <1>2, BillingTypes DEF CommitInvoiceFailed, TakesEffect
<1>4. Counters'
  BY Ranges DEF CommitInvoiceFailed, bounds, Counters
<1>5. CASE d.old.code
  <2>1. FailPayment(s)
    BY <1>1, <1>5 DEF CommitInvoiceFailed
  <2> QED
    BY <1>1, <1>2, <1>3, <1>4, <2>1, PaymentFails
<1>6. CASE ~d.old.code
  <2>1. Finish(s) /\ sub' = sub /\ jobs' = jobs
    BY <1>1, <1>6 DEF CommitInvoiceFailed
  <2>2. sub' \in Subscription
    BY <2>1, BillingTypes
  <2> QED
    BY <1>1, <1>2, <1>3, <1>4, <2>1, <2>2, Ending
<1> QED
  BY <1>5, <1>6

\* A declined charge asks for attention in the same way.
LEMMA Declining == ASSUME BillingInd, NEW s \in Sessions, Decline(s) PROVE BillingInd'
<1>1. PICK d \in Session : d = session[s] /\ Works(d)
  BY BillingTypes DEF BillingInd
<1>2. handled' = handled /\ Counters'
  BY Ranges DEF Decline, bounds, Counters
<1>3. CASE JobFails(s) /\ UNCHANGED sub
  BY <1>2, <1>3, Failing
<1>4. CASE d.task = "dunning" /\ FailPayment(s) /\ UNCHANGED lost
  <2>1. d.task \notin Events /\ d.pc = "loaded"
    BY <1>1, <1>4, NoNames DEF Decline, Chargeable
  <2>2. handled' \in [Events -> 0..2] /\ \A e \in Events : handled[e] > 0 => handled'[e] > 0
    BY <1>2, BillingTypes
  <2> QED
    BY <1>1, <1>2, <1>4, <2>1, <2>2, PaymentFails
<1> QED
  BY <1>1, <1>3, <1>4 DEF Decline

\* A refused or unanswered call ends its session without a change.
LEMMA Refusing == ASSUME BillingInd, NEW s \in Sessions, Refuse(s) PROVE BillingInd'
<1>1. MaxFaults \in Nat
  BY SubscriptionsAssumption
<1>2. faults' \in 0..MaxFaults
  BY <1>1, Ranges DEF Refuse, Counters
<1>3. Counters' /\ UNCHANGED <<sub, handled>> /\ JobFails(s)
  BY <1>2, Ranges DEF Refuse, Counters
<1> QED
  BY <1>3, Failing

-----------------------------------------------------------------------------
\* No step of billing breaks the invariant.
LEMMA BillingStep == ASSUME BillingInd, [Next]_vars PROVE BillingInd'
<1>1. CASE Next
  <2>1. CASE \E s \in Sessions : Step(s)
    BY <2>1, Finding, Storing, Applying, Invoicing, Charging, Declining, Serving, Completing DEF Step
  <2>2. CASE \E s \in Sessions : Crash(s) \/ Refuse(s) \/ \E e \in Events : Deliver(s, e)
    BY <2>2, Crashing, Refusing, Delivering
  <2>3. CASE \E s \in Sessions : (\E j \in JobSlots : RunJob(s, j)) \/ Checkout(s) \/ Cancel(s)
    BY <2>3, Running, Calling DEF Checkout, Cancel
  <2>4. CASE \E j \in JobSlots : LoseJob(j)
    BY <2>4, Losing
  <2>5. CASE BillingSweep \/ NewDay
    BY <2>5, Sweeping, DayPasses
  <2> QED
    BY <1>1, <2>1, <2>2, <2>3, <2>4, <2>5 DEF Next
<1>2. CASE UNCHANGED vars
  <2>1. Counters' /\ session' = session /\ UNCHANGED <<sub, jobs, handled, lost>>
    BY <1>2, Ranges DEF vars, bounds, Counters
  <2>2. Untouched(NoJob)
    BY <2>1 DEF Untouched
  <2>3. /\ sub' \in Subscription /\ jobs' \in [JobSlots -> Job] /\ handled' \in [Events -> 0..2]
        /\ lost' \subseteq Kinds /\ (sub'.status = "attention" => sub.status = "attention")
    BY <2>1, BillingTypes
  <2>4. \A t \in Sessions : session[t].job \in {NoJob} \/ session[t].job # NoJob
    OBVIOUS
  <2> QED
    BY <2>1, <2>2, <2>3, <2>4, RowsMove
<1> QED
  BY <1>1, <1>2

\* What the invariant says of a subscription that needs attention.
LEMMA BillingSettled == BillingInd => BillingInv
<1> SUFFICES ASSUME BillingInd PROVE BillingInv
  OBVIOUS
<1>1. AttentionIsRetried
  BY DEF BillingInd, Retried, AttentionIsRetried, Waiting, Promised
<1>2. DuplicateWasHandled
  BY DEF BillingInd, JobHolds, DuplicateWasHandled, Completed
<1> QED
  BY <1>1, <1>2 DEF BillingInv

\* Whatever rival sessions write from stale copies, and whichever of them die: a
\* subscription in ATTENTION has a retry to come unless one was lost, and a webhook is
\* taken for a duplicate only after it took effect.
THEOREM BillingIsSettled == Spec => [](TypeOK /\ BillingInv)
<1>1. Init => BillingInd
  BY BillingStart
<1>2. BillingInd /\ [Next]_vars => BillingInd'
  BY BillingStep
<1>3. BillingInd => BillingInv
  BY BillingSettled
<1>4. BillingInd => TypeOK
  BY DEF BillingInd
<1> QED
  BY <1>1, <1>2, <1>3, <1>4, PTL DEF Spec

-----------------------------------------------------------------------------
(***************************************************************************)
(* Exchange rates, for any number of charges and any limit of the age of a *)
(* rate.                                                                   *)
(***************************************************************************)

\* The row is written at most an hour after its rate was quoted, because a fetched rate
\* is stored within the hour; so a row that is fresh holds a rate within the limit.
RowIsDated == rateRow.quoted >= rateRow.updated - 1

\* A rate that waits to be stored was quoted in this hour or the one before.
FetchedIsNew ==
  \A c \in RateCharges :
    rateCharge[c].pc = "store" => rateCharge[c].quoted >= hour - 1

\* The inductive invariant of the rates.
RatesInv == RatesTypeOK /\ RowIsDated /\ FetchedIsNew /\ ChargedAtRecentRate

-----------------------------------------------------------------------------
\* A row of the table of rates, and a charge.
RateRows == [quoted : Fallback..MaxHour, updated : Fallback..MaxHour, provider : {"fallback", "api", "manual"}]
Charges == [pc : {"idle", "fetch", "store", "done"}, loaded : RateRows,
            quoted : Fallback..MaxHour, at : 0..MaxHour, failed : BOOLEAN]

\* At first there is no rate and no charge.
LEMMA RatesStart == RatesInit => RatesInv
<1> SUFFICES ASSUME RatesInit PROVE RatesInv
  OBVIOUS
<1> USE RateTtlIsPositive
<1>1. NoRate \in RateRows /\ NoRate.quoted = -1 /\ NoRate.updated = -1
  BY DEF NoRate, RateRows, Fallback
<1>2. IdleCharge \in Charges /\ IdleCharge.pc = "idle"
  BY <1>1 DEF IdleCharge, Charges, Fallback
<1>3. RatesTypeOK
  BY <1>1, <1>2 DEF RatesInit, RatesTypeOK, RateRows, Charges, Fallback
<1>4. QED
  BY <1>1, <1>2, <1>3 DEF RatesInit, RatesInv, RowIsDated, FetchedIsNew, ChargedAtRecentRate

\* One step of one charge leaves the others as they are: what it becomes decides.
LEMMA ChargeMoves ==
  ASSUME RatesInv, NEW c \in RateCharges, NEW d \in Charges,
         rateCharge' = [rateCharge EXCEPT ![c] = d], UNCHANGED hour,
         d.pc = "store" => d.quoted >= hour - 1,
         d.pc = "done" /\ ~d.failed => d.quoted >= d.at - RateTtl
  PROVE  /\ rateCharge' \in [RateCharges -> Charges]
         /\ FetchedIsNew' /\ ChargedAtRecentRate'
<1>1. rateCharge \in [RateCharges -> Charges]
  BY DEF RatesInv, RatesTypeOK, Charges, RateRows
<1>2. rateCharge' \in [RateCharges -> Charges]
  BY <1>1
<1>3. \A e \in RateCharges : rateCharge'[e] = IF e = c THEN d ELSE rateCharge[e]
  BY <1>1
<1>4. QED
  BY <1>2, <1>3 DEF RatesInv, FetchedIsNew, ChargedAtRecentRate

\* A charge at the present hour.
LEMMA ChargeNow ==
  ASSUME RatesInv, NEW c \in RateCharges, NEW q \in Fallback..MaxHour, NEW f \in BOOLEAN,
         rateCharge' = ChargeAt(c, q, f), UNCHANGED hour, f \/ q >= hour - RateTtl
  PROVE  /\ rateCharge' \in [RateCharges -> Charges]
         /\ FetchedIsNew' /\ ChargedAtRecentRate'
<1> DEFINE d == [rateCharge[c] EXCEPT !.pc = "done", !.quoted = q, !.at = hour, !.failed = f]
<1>1. rateCharge \in [RateCharges -> Charges] /\ hour \in 0..MaxHour
  BY DEF RatesInv, RatesTypeOK, Charges, RateRows
<1>2. rateCharge' = [rateCharge EXCEPT ![c] = d]
  BY <1>1 DEF ChargeAt
<1>3. d \in Charges /\ d.pc = "done" /\ d.quoted = q /\ d.at = hour /\ d.failed = f
  BY <1>1 DEF Charges
<1> HIDE DEF d
<1>4. QED
  BY <1>2, <1>3, ChargeMoves

\* No step charges at a rate quoted longer ago than the limit.
LEMMA RatesStep == RatesInv /\ [RatesNext]_ratesVars => RatesInv'
<1> SUFFICES ASSUME RatesInv, [RatesNext]_ratesVars PROVE RatesInv'
  OBVIOUS
<1> USE RateTtlIsPositive
<1>a. /\ rateCharge \in [RateCharges -> Charges] /\ hour \in 0..MaxHour /\ rateRow \in RateRows
      /\ RowIsDated /\ FetchedIsNew /\ ChargedAtRecentRate
  BY DEF RatesInv, RatesTypeOK, Charges, RateRows
<1>b. ASSUME rateCharge' \in [RateCharges -> Charges], rateRow' \in RateRows, UNCHANGED <<hour, shownRate>>,
             RowIsDated', FetchedIsNew', ChargedAtRecentRate'
      PROVE  RatesInv'
  BY <1>b DEF RatesInv, RatesTypeOK, Charges, RateRows
<1>1. ASSUME NEW c \in RateCharges, LoadRate(c) PROVE RatesInv'
  <2>1. CASE FreshRate(rateRow)
    <3>1. rateCharge' = ChargeAt(c, rateRow.quoted, FALSE)
      BY <1>1, <2>1 DEF LoadRate
    <3>2. rateRow.quoted \in Fallback..MaxHour /\ rateRow.quoted >= hour - RateTtl
      BY <1>a, <2>1 DEF FreshRate, RowIsDated, RateRows, Fallback
    <3>3. /\ rateCharge' \in [RateCharges -> Charges] /\ FetchedIsNew' /\ ChargedAtRecentRate'
      BY <1>1, <3>1, <3>2, ChargeNow DEF LoadRate
    <3>4. QED
      BY <1>1, <1>a, <1>b, <3>3 DEF LoadRate, RowIsDated
  <2>2. CASE ~FreshRate(rateRow)
    <3> DEFINE d == [rateCharge[c] EXCEPT !.pc = "fetch", !.loaded = rateRow]
    <3>1. rateCharge' = [rateCharge EXCEPT ![c] = d]
      BY <1>1, <1>a, <2>2 DEF LoadRate
    <3>2. d \in Charges /\ d.pc = "fetch"
      BY <1>a DEF Charges
    <3> HIDE DEF d
    <3>3. /\ rateCharge' \in [RateCharges -> Charges] /\ FetchedIsNew' /\ ChargedAtRecentRate'
      BY <1>1, <3>1, <3>2, ChargeMoves DEF LoadRate
    <3>4. QED
      BY <1>1, <1>a, <1>b, <3>3 DEF LoadRate, RowIsDated
  <2>3. QED
    BY <2>1, <2>2
<1>2. ASSUME NEW c \in RateCharges, FetchRate(c) PROVE RatesInv'
  <2>1. CASE rateCharge' = [rateCharge EXCEPT ![c].pc = "store", ![c].quoted = hour]
    <3> DEFINE d == [rateCharge[c] EXCEPT !.pc = "store", !.quoted = hour]
    <3>1. rateCharge' = [rateCharge EXCEPT ![c] = d]
      BY <1>a, <2>1
    <3>a. hour \in Fallback..MaxHour /\ hour >= hour - 1
      BY <1>a DEF Fallback
    <3>2. d \in Charges /\ d.pc = "store" /\ d.quoted >= hour - 1
      BY <1>a, <3>a DEF Charges
    <3> HIDE DEF d
    <3>3. /\ rateCharge' \in [RateCharges -> Charges] /\ FetchedIsNew' /\ ChargedAtRecentRate'
      BY <1>2, <1>a, <3>1, <3>2, ChargeMoves DEF FetchRate
    <3>4. QED
      BY <1>2, <1>a, <1>b, <3>3 DEF FetchRate, RowIsDated
  <2>2. CASE rateCharge' = ChargeAt(c, rateCharge[c].loaded.quoted, TRUE)
    <3>1. rateCharge[c].loaded.quoted \in Fallback..MaxHour
      BY <1>a DEF Charges, RateRows
    <3>2. /\ rateCharge' \in [RateCharges -> Charges] /\ FetchedIsNew' /\ ChargedAtRecentRate'
      BY <1>2, <2>2, <3>1, ChargeNow DEF FetchRate
    <3>3. QED
      BY <1>2, <1>a, <1>b, <3>2 DEF FetchRate, RowIsDated
  <2>3. QED
    BY <1>2, <2>1, <2>2 DEF FetchRate
<1>3. ASSUME NEW c \in RateCharges, StoreRate(c) PROVE RatesInv'
  <2>1. rateCharge[c].quoted \in Fallback..MaxHour /\ rateCharge[c].quoted >= hour - 1
    BY <1>3, <1>a DEF StoreRate, Charges, FetchedIsNew
  <2>2. rateCharge' = ChargeAt(c, rateCharge[c].quoted, FALSE) /\ UNCHANGED <<hour, shownRate>>
    BY <1>3 DEF StoreRate
  <2>a. rateCharge[c].quoted >= hour - RateTtl
    BY <1>a, <2>1 DEF Fallback
  <2>3. /\ rateCharge' \in [RateCharges -> Charges] /\ FetchedIsNew' /\ ChargedAtRecentRate'
    BY <2>1, <2>2, <2>a, ChargeNow
  <2>4. rateRow' \in RateRows /\ RowIsDated'
    BY <1>3, <1>a, <2>1 DEF StoreRate, RateRows, RowIsDated, Fallback
  <2>5. QED
    BY <1>b, <2>2, <2>3, <2>4
<1>4. ASSUME NEW c \in RateCharges, NextCharge(c) PROVE RatesInv'
  <2>1. IdleCharge \in Charges /\ IdleCharge.pc = "idle"
    BY DEF IdleCharge, Charges, RateRows, NoRate, Fallback
  <2>2. /\ rateCharge' \in [RateCharges -> Charges] /\ FetchedIsNew' /\ ChargedAtRecentRate'
    BY <1>4, <2>1, ChargeMoves DEF NextCharge
  <2>3. QED
    BY <1>4, <1>a, <1>b, <2>2 DEF NextCharge, RowIsDated
<1>5. CASE SetRate
  <2>1. rateRow' \in RateRows /\ RowIsDated'
    BY <1>5, <1>a DEF SetRate, RateRows, RowIsDated, Fallback
  <2>2. QED
    BY <1>5, <1>a, <1>b, <2>1 DEF SetRate, FetchedIsNew, ChargedAtRecentRate
<1>6. CASE ShowRate
  <2>1. shownRate' \in [quoted : Fallback..MaxHour, synced : Fallback..MaxHour]
    BY <1>6, <1>a DEF ShowRate, Fallback
  <2>2. QED
    BY <1>6, <2>1 DEF ShowRate, RatesInv, RatesTypeOK, RowIsDated, FetchedIsNew, ChargedAtRecentRate
<1>7. CASE NextHour
  <2>1. FetchedIsNew'
    BY <1>7, <1>a DEF NextHour, FetchedIsNew, Charges
  <2>2. RatesTypeOK'
    BY <1>7, <1>a DEF NextHour, RatesInv, RatesTypeOK
  <2>3. QED
    BY <1>7, <2>1, <2>2 DEF NextHour, RatesInv, RowIsDated, ChargedAtRecentRate
<1>8. CASE UNCHANGED ratesVars
  BY <1>8 DEF ratesVars, RatesInv, RatesTypeOK, RowIsDated, FetchedIsNew, ChargedAtRecentRate
<1>9. QED
  BY <1>1, <1>2, <1>3, <1>4, <1>5, <1>6, <1>7, <1>8 DEF RatesNext

\* Unless its own fetch failed, no charge is made at a rate quoted longer ago than
\* CACHE_TTL_HOURS, whatever charges and administrators write over the row meanwhile
\* (currency.py:45-55, 91-104).
THEOREM ChargesAreAtRecentRates == RatesSpec => [](RatesTypeOK /\ ChargedAtRecentRate)
<1>1. RatesInv => RatesTypeOK /\ ChargedAtRecentRate
  BY DEF RatesInv
<1>2. QED
  BY <1>1, RatesStart, RatesStep, PTL DEF RatesSpec
=============================================================================
