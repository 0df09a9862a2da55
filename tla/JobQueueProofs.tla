---------------------------- MODULE JobQueueProofs ----------------------------
(***************************************************************************)
(* Machine-checked proofs about JobQueue, for any number of jobs and       *)
(* processors, any max_attempts and any number of crashes.                 *)
(***************************************************************************)
EXTENDS JobQueue, FiniteSetTheorems, TLAPS

-----------------------------------------------------------------------------
(* Type correctness.                                                       *)

\* Every step leaves the table, the locks and the sessions well typed.
LEMMA TypeStep == TypeOK /\ [Next]_vars => TypeOK'
<1> USE JobsAssumption, ProcessorsAssumption DEF workerVars
<1> SUFFICES ASSUME TypeOK, [Next]_vars PROVE TypeOK'
  OBVIOUS
<1>a. ASSUME NEW j \in Jobs PROVE row[j] \in Row
  BY DEF TypeOK
<1>b. ASSUME NEW r \in Row, NEW s \in JobStatus, NEW a \in Nat, NEW d \in BOOLEAN
      PROVE  /\ [r EXCEPT !.due = d] \in Row
             /\ [r EXCEPT !.old = d] \in Row
             /\ [r EXCEPT !.status = s] \in Row
             /\ [r EXCEPT !.status = s, !.attempts = a] \in Row
             /\ [r EXCEPT !.status = s, !.due = d] \in Row
  BY DEF Row
<1>1. ASSUME NEW j \in Jobs, Enqueue(j) PROVE TypeOK'
  <2>1. PICK due \in BOOLEAN :
          row' = [row EXCEPT ![j] =
                    [status |-> "pending", attempts |-> 0, due |-> due, old |-> FALSE]]
    BY <1>1 DEF Enqueue
  <2>2. row' \in [Jobs -> Row]
    BY <2>1 DEF TypeOK, Row, JobStatus
  <2>3. QED
    BY <1>1, <2>2 DEF Enqueue, TypeOK
<1>2. ASSUME NEW j \in Jobs, BecomeDue(j) PROVE TypeOK'
  <2>1. row' = [row EXCEPT ![j] = [row[j] EXCEPT !.due = TRUE]]
    BY <1>2 DEF BecomeDue
  <2>2. row' \in [Jobs -> Row]
    BY <1>a, <1>b, <2>1 DEF TypeOK, JobStatus
  <2>3. QED
    BY <1>2, <2>2 DEF BecomeDue, TypeOK
<1>3. ASSUME NEW j \in Jobs, BecomeOld(j) PROVE TypeOK'
  <2>1. row' = [row EXCEPT ![j] = [row[j] EXCEPT !.old = TRUE]]
    BY <1>3 DEF BecomeOld
  <2>2. row' \in [Jobs -> Row]
    BY <1>a, <1>b, <2>1 DEF TypeOK, JobStatus
  <2>3. QED
    BY <1>3, <2>2 DEF BecomeOld, TypeOK
<1>4. ASSUME NEW p \in Processors, Fetch(p) PROVE TypeOK'
  <2>1. PICK S \in SUBSET Jobs :
          /\ batch' = [batch EXCEPT ![p] = S]
          /\ lockedBy' = [j \in Jobs |-> IF j \in S THEN p ELSE lockedBy[j]]
    BY <1>4 DEF Fetch, Fetchable
  <2>2. [j \in Jobs |-> row[j].attempts] \in [Jobs -> Nat]
    BY <1>a DEF Row
  <2>3. seen' \in [Processors -> [Jobs -> Nat]]
    BY <1>4, <2>2 DEF Fetch, TypeOK
  <2>4. QED
    BY <1>4, <2>1, <2>3 DEF Fetch, TypeOK
<1>5. ASSUME NEW p \in Processors, Crash(p) PROVE TypeOK'
  BY <1>5 DEF Crash, Release, TypeOK
<1>6. ASSUME NEW p \in Processors, NEW j \in Jobs, Start(p, j) PROVE TypeOK'
  <2>1. seen[p] \in [Jobs -> Nat] /\ seen[p][j] + 1 \in Nat
    BY DEF TypeOK
  <2>2. row' = [row EXCEPT ![j] =
                  [row[j] EXCEPT !.status = "running", !.attempts = seen[p][j] + 1]]
    BY <1>6 DEF Start, TypeOK
  <2>3. row' \in [Jobs -> Row]
    BY <1>a, <1>b, <2>1, <2>2 DEF TypeOK, JobStatus
  <2>4. seen' = [seen EXCEPT ![p] = [seen[p] EXCEPT ![j] = seen[p][j] + 1]]
    BY <1>6, <2>1 DEF Start, TypeOK
  <2>5. seen' \in [Processors -> [Jobs -> Nat]]
    BY <2>1, <2>4 DEF TypeOK
  <2>6. QED
    BY <1>6, <2>3, <2>5 DEF Start, Release, TypeOK
<1>7. ASSUME NEW p \in Processors, NEW j \in Jobs, NEW s \in JobStatus, NEW d \in BOOLEAN,
             Finish(p, j, s, d)
      PROVE  TypeOK'
  <2>1. row' = [row EXCEPT ![j] = [row[j] EXCEPT !.status = s, !.due = d]]
    BY <1>7 DEF Finish, TypeOK
  <2>2. row' \in [Jobs -> Row]
    BY <1>a, <1>b, <2>1 DEF TypeOK
  <2>3. QED
    BY <1>7, <2>2 DEF Finish, TypeOK
<1>8. ASSUME NEW p \in Processors, NEW j \in Jobs, Succeed(p, j) \/ Fail(p, j) \/ Cancel(p, j)
      PROVE  TypeOK'
  <2>1. row[j].due \in BOOLEAN
    BY <1>a DEF Row
  <2>2. QED
    BY <1>7, <1>8, <2>1 DEF Succeed, Fail, Cancel, JobStatus
<1>9. CASE DetectorRead
  BY <1>9 DEF DetectorRead, TypeOK
<1>10. CASE DetectorWrite
  <2>1. row' \in [Jobs -> Row]
    BY <1>10, <1>a, <1>b DEF DetectorWrite, JobStatus
  <2>2. QED
    BY <1>10, <2>1 DEF DetectorWrite, TypeOK
<1>11. CASE UNCHANGED vars
  BY <1>11 DEF vars, TypeOK
<1>12. QED
  BY <1>1, <1>2, <1>3, <1>4, <1>5, <1>6, <1>8, <1>9, <1>10, <1>11 DEF Next

\* The queue's state always has its type.
THEOREM TypeCorrect == Spec => []TypeOK
<1>1. Init => TypeOK
  BY ProcessorsAssumption DEF Init, TypeOK, Row
<1>2. QED
  BY <1>1, TypeStep, PTL DEF Spec

-----------------------------------------------------------------------------
(* What holds for every batch limit.                                       *)

\* A session runs at most the one job of its current handler.
Sessions ==
  \A p \in Processors :
    /\ pc[p] # "handling" => current[p] = {}
    /\ \A j, k \in current[p] : j = k

\* Whatever other sessions do to the row, the copy in a batch has attempts left.
AttemptsLeft ==
  \A p \in Processors : \A j \in batch[p] : seen[p][j] < MaxAttempts[j]

QueueInv == TypeOK /\ Sessions /\ AttemptsLeft /\ AttemptsBounded /\ RunningIsOwned

\* The inductive step of QueueInv.
LEMMA QueueStep == QueueInv /\ [Next]_vars => QueueInv'
<1> USE JobsAssumption, ProcessorsAssumption DEF workerVars
<1> SUFFICES ASSUME QueueInv, [Next]_vars PROVE QueueInv'
  OBVIOUS
<1>t. TypeOK /\ TypeOK'
  BY TypeStep DEF QueueInv
<1>a. \A j \in Jobs : row[j] \in Row /\ row'[j] \in Row
  BY <1>t DEF TypeOK
<1> SUFFICES Sessions' /\ AttemptsLeft' /\ AttemptsBounded' /\ RunningIsOwned'
  BY <1>t DEF QueueInv
<1> USE DEF Sessions, AttemptsLeft, AttemptsBounded, RunningIsOwned
<1>1. ASSUME NEW j \in Jobs, Enqueue(j)
      PROVE  Sessions' /\ AttemptsLeft' /\ AttemptsBounded' /\ RunningIsOwned'
  <2>1. \A k \in Jobs : \/ row'[k] = row[k]
                        \/ row'[k].status = "pending" /\ row'[k].attempts = 0
    BY <1>1, <1>t DEF Enqueue, TypeOK
  <2>2. QED
    BY <1>1, <2>1, <1>a DEF Enqueue, QueueInv, Row
<1>2. ASSUME NEW j \in Jobs, BecomeDue(j) \/ BecomeOld(j)
      PROVE  Sessions' /\ AttemptsLeft' /\ AttemptsBounded' /\ RunningIsOwned'
  <2>1. \A k \in Jobs : /\ row'[k].status = row[k].status
                        /\ row'[k].attempts = row[k].attempts
    BY <1>2, <1>t, <1>a DEF BecomeDue, BecomeOld, TypeOK, Row
  <2>2. QED
    BY <1>2, <2>1 DEF BecomeDue, BecomeOld, QueueInv
<1>3. ASSUME NEW p \in Processors, Fetch(p)
      PROVE  Sessions' /\ AttemptsLeft' /\ AttemptsBounded' /\ RunningIsOwned'
  <2>1. PICK S \in SUBSET Fetchable : batch' = [batch EXCEPT ![p] = S]
    BY <1>3 DEF Fetch
  <2>2. \A j \in S : j \in Jobs /\ row[j].attempts < MaxAttempts[j]
    BY DEF Fetchable
  <2>3. \A j \in Jobs : seen'[p][j] = row[j].attempts
    BY <1>3, <1>t DEF Fetch, TypeOK
  <2>4. AttemptsLeft'
    BY <1>3, <1>t, <2>1, <2>2, <2>3 DEF Fetch, TypeOK, QueueInv
  <2>5. UNCHANGED <<row, current, orphans>> /\ pc[p] = "idle"
    BY <1>3 DEF Fetch
  <2>6. \A q \in Processors : pc'[q] = IF q = p THEN "batch" ELSE pc[q]
    BY <1>3, <1>t DEF Fetch, TypeOK
  <2>7. Sessions'
    BY <2>5, <2>6 DEF QueueInv
  <2>8. AttemptsBounded' /\ RunningIsOwned'
    BY <2>5 DEF QueueInv
  <2>9. QED
    BY <2>4, <2>7, <2>8
<1>4. ASSUME NEW p \in Processors, Crash(p)
      PROVE  Sessions' /\ AttemptsLeft' /\ AttemptsBounded' /\ RunningIsOwned'
  BY <1>4, <1>t DEF Crash, TypeOK, QueueInv
<1>5. ASSUME NEW p \in Processors, NEW j \in Jobs, Start(p, j)
      PROVE  Sessions' /\ AttemptsLeft' /\ AttemptsBounded' /\ RunningIsOwned'
  <2>1. /\ row'[j].attempts = seen[p][j] + 1
        /\ \A k \in Jobs : k # j => row'[k] = row[k]
    BY <1>5, <1>t, <1>a DEF Start, TypeOK, Row
  <2>2. seen[p][j] \in Nat /\ MaxAttempts[j] \in Nat /\ seen[p][j] < MaxAttempts[j]
    BY <1>5, <1>t DEF Start, TypeOK, QueueInv
  <2>3. AttemptsBounded'
    BY <2>1, <2>2 DEF QueueInv
  <2>4. Sessions'
    BY <1>5, <1>t DEF Start, TypeOK, QueueInv
  <2>5. AttemptsLeft'
    BY <1>5, <1>t DEF Start, TypeOK, QueueInv
  <2>6. current[p] = {}
    BY <1>5 DEF Start, QueueInv
  <2>7. \A q \in Processors : current'[q] = IF q = p THEN {j} ELSE current[q]
    BY <1>5, <1>t DEF Start, TypeOK
  <2>8. RunningIsOwned'
    BY <1>5, <2>1, <2>6, <2>7 DEF Start, QueueInv
  <2>9. QED
    BY <2>3, <2>4, <2>5, <2>8
<1>6. ASSUME NEW p \in Processors, NEW j \in Jobs, NEW s \in JobStatus \ {"running"},
             NEW d \in BOOLEAN, Finish(p, j, s, d)
      PROVE  Sessions' /\ AttemptsLeft' /\ AttemptsBounded' /\ RunningIsOwned'
  <2>1. /\ row'[j].status = s
        /\ row'[j].attempts = row[j].attempts
        /\ \A k \in Jobs : k # j => row'[k] = row[k]
    BY <1>6, <1>t, <1>a DEF Finish, TypeOK, Row
  <2>2. \A k \in current[p] : k = j
    BY <1>6 DEF Finish, QueueInv
  <2>3. \A q \in Processors : current'[q] = IF q = p THEN {} ELSE current[q]
    BY <1>6, <1>t DEF Finish, TypeOK
  <2>4. RunningIsOwned'
    <3>1. orphans' = orphans
      BY <1>6 DEF Finish
    <3>2. ASSUME NEW k \in Jobs, row'[k].status = "running"
          PROVE  k \in orphans' \/ \E q \in Processors : k \in current'[q]
      <4>1. k # j /\ row[k].status = "running"
        BY <2>1, <3>2
      <4>2. k \in orphans \/ \E q \in Processors : k \in current[q]
        BY <4>1 DEF QueueInv, RunningIsOwned
      <4>3. \A q \in Processors : k \in current[q] => k \in current'[q]
        BY <2>2, <2>3, <4>1
      <4> QED
        BY <3>1, <4>2, <4>3
    <3> QED
      BY <3>2 DEF RunningIsOwned
  <2>5. AttemptsBounded'
    BY <2>1 DEF QueueInv
  <2>6. Sessions'
    BY <1>6, <1>t, <2>3 DEF Finish, TypeOK, QueueInv
  <2>7. AttemptsLeft'
    BY <1>6, <1>t DEF Finish, TypeOK, QueueInv
  <2>8. QED
    BY <2>4, <2>5, <2>6, <2>7
<1>7. ASSUME NEW p \in Processors, NEW j \in Jobs, Succeed(p, j) \/ Fail(p, j) \/ Cancel(p, j)
      PROVE  Sessions' /\ AttemptsLeft' /\ AttemptsBounded' /\ RunningIsOwned'
  <2>1. row[j].due \in BOOLEAN
    BY <1>a DEF Row
  <2>2. {"completed", "dead_letter", "pending"} \subseteq JobStatus \ {"running"}
    BY DEF JobStatus
  <2>3. \E s \in JobStatus \ {"running"}, d \in BOOLEAN : Finish(p, j, s, d)
    BY <1>7, <2>1, <2>2 DEF Succeed, Fail, Cancel
  <2>4. QED
    BY <1>6, <2>3
<1>8. CASE DetectorRead
  BY <1>8 DEF DetectorRead, QueueInv
<1>9. CASE DetectorWrite
  <2>1. \A k \in Jobs : /\ row'[k].status \in {row[k].status, "failed"}
                        /\ row'[k].attempts = row[k].attempts
    BY <1>9, <1>a DEF DetectorWrite, Row
  <2>2. QED
    BY <1>9, <2>1 DEF DetectorWrite, QueueInv
<1>10. CASE UNCHANGED vars
  BY <1>10 DEF vars, QueueInv
<1>11. QED
  BY <1>1, <1>2, <1>3, <1>4, <1>5, <1>7, <1>8, <1>9, <1>10 DEF Next

\* QueueInv holds throughout.
LEMMA QueueInvariant == Spec => []QueueInv
<1>1. Init => QueueInv
  <2>1. Init => TypeOK
    BY ProcessorsAssumption DEF Init, TypeOK, Row
  <2>2. QED
    BY <2>1, JobsAssumption
    DEF Init, QueueInv, Sessions, AttemptsLeft, AttemptsBounded, RunningIsOwned
<1>2. QED
  BY <1>1, QueueStep, PTL DEF Spec

\* Stale copies, cancellations and overwritten rows notwithstanding, a row never
\* counts more attempts than max_attempts.
THEOREM AttemptsAreBounded == Spec => []AttemptsBounded
BY QueueInvariant, PTL DEF QueueInv

\* No row is left RUNNING by a processor that goes on living.
THEOREM RunningJobsAreOwned == Spec => []RunningIsOwned
BY QueueInvariant, PTL DEF QueueInv

-----------------------------------------------------------------------------
(* What holds when a batch is a single job: the row lock covers all of it   *)
(* until the commit that makes the row RUNNING.                             *)

\* A processor never has a job waiting in its batch while it runs another.
BatchIsOneJob ==
  \A p \in Processors :
    /\ pc[p] # "batch" => batch[p] = {}
    /\ \A j, k \in batch[p] : j = k

\* The rows of a batch are exactly the rows its session has locked.
BatchIsLocked ==
  \A p \in Processors, j \in Jobs : j \in batch[p] <=> lockedBy[j] = p

\* Under the lock, the loaded copy is the row.
BatchIsFresh ==
  \A p \in Processors : \A j \in batch[p] :
    /\ row[j].status = "pending"
    /\ row[j].due
    /\ seen[p][j] = row[j].attempts

\* While a handler runs nobody else moves its row, the detector excepted.
RunIsExclusive ==
  \A p \in Processors : \A j \in current[p] :
    /\ row[j].status \in {"running", "failed"}
    /\ seen[p][j] = row[j].attempts

NewJobsAreFresh == \A j \in Jobs : row[j].status = "absent" => row[j].attempts = 0

SingleInv ==
  /\ QueueInv
  /\ BatchIsOneJob
  /\ BatchIsLocked
  /\ BatchIsFresh
  /\ RunIsExclusive
  /\ NewJobsAreFresh
  /\ OneRunner
  /\ EveryRunCounted
  /\ DeadLetterExhausted

\* What SingleInv adds to QueueInv.
SingleParts ==
  /\ BatchIsOneJob
  /\ BatchIsLocked
  /\ BatchIsFresh
  /\ RunIsExclusive
  /\ NewJobsAreFresh
  /\ OneRunner
  /\ EveryRunCounted
  /\ DeadLetterExhausted

\* A set of at most one element has no two elements.
LEMMA AtMostOne ==
  ASSUME NEW S, IsFiniteSet(S), Cardinality(S) <= 1, NEW x \in S, NEW y \in S
  PROVE  x = y
<1>1. Cardinality(S) \in Nat
  BY FS_CardinalityType
<1>2. Cardinality(S) # 0
  BY FS_EmptySet
<1>3. PICK z : S = {z}
  BY <1>1, <1>2, FS_Singleton
<1>4. QED
  BY <1>3

\* The inductive step of SingleInv.
LEMMA SingleStep ==
  ASSUME BatchLimit = 1
  PROVE  SingleInv /\ [Next]_vars => SingleInv'
<1> USE JobsAssumption, ProcessorsAssumption DEF workerVars
<1> SUFFICES ASSUME SingleInv, [Next]_vars PROVE SingleInv'
  OBVIOUS
<1>q. QueueInv /\ QueueInv'
  BY QueueStep DEF SingleInv
<1>t. TypeOK /\ TypeOK'
  BY <1>q DEF QueueInv
<1>a. \A j \in Jobs : row[j] \in Row /\ row'[j] \in Row
  BY <1>t DEF TypeOK
<1>s. SingleParts
  BY DEF SingleInv, SingleParts
<1> SUFFICES SingleParts'
  BY <1>q DEF SingleInv, SingleParts
<1> HIDE DEF SingleInv
<1> USE DEF BatchIsOneJob, BatchIsLocked, BatchIsFresh, RunIsExclusive, NewJobsAreFresh,
            OneRunner, EveryRunCounted, DeadLetterExhausted
<1>1. ASSUME NEW j \in Jobs, Enqueue(j) PROVE SingleParts'
  <2>1. /\ row'[j].status = "pending" /\ row'[j].attempts = 0
        /\ \A k \in Jobs : k # j => row'[k] = row[k]
    BY <1>1, <1>t DEF Enqueue, TypeOK
  <2>2. row[j].status = "absent" /\ row[j].attempts = 0
    BY <1>1, <1>s DEF Enqueue, SingleParts
  <2>3. \A p \in Processors : j \notin batch[p] /\ j \notin current[p]
    BY <2>2, <1>s DEF SingleParts
  <2>4. UNCHANGED workerVars
    BY <1>1 DEF Enqueue
  <2>5. BatchIsOneJob' /\ BatchIsLocked' /\ OneRunner'
    BY <2>4, <1>s DEF SingleParts
  <2>6. BatchIsFresh'
    <3> SUFFICES ASSUME NEW q \in Processors, NEW k \in batch[q]
                 PROVE  /\ row'[k].status = "pending"
                        /\ row'[k].due
                        /\ seen[q][k] = row'[k].attempts
      BY <2>4 DEF workerVars
    <3>1. k \in Jobs
      BY <1>t DEF TypeOK
    <3>2. row'[k] = row[k]
      BY <3>1, <2>1, <2>3
    <3>3. QED
      BY <3>2, <1>s DEF SingleParts
  <2>7. RunIsExclusive'
    <3> SUFFICES ASSUME NEW q \in Processors, NEW k \in current[q]
                 PROVE  /\ row'[k].status \in {"running", "failed"}
                        /\ seen[q][k] = row'[k].attempts
      BY <2>4 DEF workerVars
    <3>1. k \in Jobs
      BY <1>t DEF TypeOK
    <3>2. row'[k] = row[k]
      BY <3>1, <2>1, <2>3
    <3>3. QED
      BY <3>2, <1>s DEF SingleParts
  <2>8. NewJobsAreFresh' /\ EveryRunCounted' /\ DeadLetterExhausted'
    BY <2>1, <2>2, <2>4, <1>s DEF SingleParts
  <2>9. QED
    BY <2>5, <2>6, <2>7, <2>8 DEF SingleParts
<1>2. ASSUME NEW j \in Jobs, BecomeDue(j) \/ BecomeOld(j) PROVE SingleParts'
  <2>1. \A k \in Jobs : /\ row'[k].status = row[k].status
                        /\ row'[k].attempts = row[k].attempts
                        /\ row[k].due => row'[k].due
    BY <1>2, <1>t, <1>a DEF BecomeDue, BecomeOld, TypeOK, Row
  <2>2. UNCHANGED workerVars
    BY <1>2 DEF BecomeDue, BecomeOld
  <2>3. BatchIsOneJob' /\ BatchIsLocked' /\ OneRunner'
    BY <2>2, <1>s DEF SingleParts
  <2>4. BatchIsFresh'
    BY <2>1, <2>2, <1>s, <1>t DEF SingleParts, TypeOK
  <2>5. RunIsExclusive'
    BY <2>1, <2>2, <1>s, <1>t DEF SingleParts, TypeOK
  <2>6. NewJobsAreFresh' /\ EveryRunCounted' /\ DeadLetterExhausted'
    BY <2>1, <2>2, <1>s DEF SingleParts
  <2>7. QED
    BY <2>3, <2>4, <2>5, <2>6 DEF SingleParts
<1>3. ASSUME NEW p \in Processors, Fetch(p) PROVE SingleParts'
  <2>1. PICK S \in SUBSET Fetchable :
          /\ S # {}
          /\ Cardinality(S) <= 1
          /\ batch' = [batch EXCEPT ![p] = S]
          /\ lockedBy' = [j \in Jobs |-> IF j \in S THEN p ELSE lockedBy[j]]
    BY <1>3 DEF Fetch, IsBatch
  <2>2. S \in SUBSET Jobs
    BY DEF Fetchable
  <2>3. IsFiniteSet(S)
    BY <2>2, FS_Subset
  <2>4. \A j, k \in S : j = k
    BY <2>1, <2>3, AtMostOne
  <2>5. \A j \in S : row[j].status = "pending" /\ row[j].due /\ lockedBy[j] = NoOne
    BY DEF Fetchable, Unlocked
  <2>6. batch[p] = {}
    BY <1>3, <1>s DEF Fetch, SingleParts
  <2>7. \A q \in Processors : batch'[q] = IF q = p THEN S ELSE batch[q]
    BY <2>1, <1>t DEF TypeOK
  <2>8. BatchIsOneJob'
    BY <1>3, <2>4, <2>7, <1>s, <1>t DEF Fetch, TypeOK, SingleParts
  <2>9. BatchIsLocked'
    BY <2>1, <2>5, <2>6, <2>7, <1>s DEF SingleParts
  <2>10. /\ \A q \in Processors : q # p => seen'[q] = seen[q]
         /\ \A j \in Jobs : seen'[p][j] = row[j].attempts
    BY <1>3, <1>t DEF Fetch, TypeOK
  <2>11. BatchIsFresh'
    BY <1>3, <2>2, <2>5, <2>7, <2>10, <1>s, <1>t DEF Fetch, TypeOK, SingleParts
  <2>12. current[p] = {}
    BY <1>3, <1>q DEF Fetch, QueueInv, Sessions
  <2>13. RunIsExclusive'
    BY <1>3, <2>10, <2>12, <1>s, <1>t DEF Fetch, TypeOK, SingleParts
  <2>14. NewJobsAreFresh' /\ EveryRunCounted' /\ DeadLetterExhausted' /\ OneRunner'
    BY <1>3, <1>s DEF Fetch, SingleParts
  <2>15. QED
    BY <2>8, <2>9, <2>11, <2>13, <2>14 DEF SingleParts
<1>4. ASSUME NEW p \in Processors, Crash(p) PROVE SingleParts'
  <2>1. \A q \in Processors : /\ batch'[q] = IF q = p THEN {} ELSE batch[q]
                              /\ current'[q] = IF q = p THEN {} ELSE current[q]
                              /\ pc'[q] = IF q = p THEN "idle" ELSE pc[q]
    BY <1>4, <1>t DEF Crash, TypeOK
  <2>2. \A j \in Jobs : lockedBy'[j] = IF lockedBy[j] = p THEN NoOne ELSE lockedBy[j]
    BY <1>4 DEF Crash, Release
  <2>3. UNCHANGED <<row, seen, runs>>
    BY <1>4 DEF Crash
  <2>4. BatchIsOneJob' /\ BatchIsLocked' /\ OneRunner'
    BY <2>1, <2>2, <1>s DEF SingleParts
  <2>5. BatchIsFresh' /\ RunIsExclusive'
    BY <2>1, <2>3, <1>s DEF SingleParts
  <2>6. NewJobsAreFresh' /\ EveryRunCounted' /\ DeadLetterExhausted'
    BY <2>3, <1>s DEF SingleParts
  <2>7. QED
    BY <2>4, <2>5, <2>6 DEF SingleParts
<1>5. ASSUME NEW p \in Processors, NEW j \in Jobs, Start(p, j) PROVE SingleParts'
  <2>1. pc[p] = "batch" /\ batch[p] = {j} /\ current[p] = {} /\ lockedBy[j] = p
    BY <1>5, <1>s, <1>q DEF Start, SingleParts, QueueInv, Sessions
  <2>2. row[j].status = "pending" /\ seen[p][j] = row[j].attempts
    BY <2>1, <1>s DEF SingleParts
  <2>3. /\ row'[j].status = "running"
        /\ row'[j].attempts = row[j].attempts + 1
        /\ \A k \in Jobs : k # j => row'[k] = row[k]
    BY <1>5, <2>2, <1>t, <1>a DEF Start, TypeOK, Row
  <2>4. \A q \in Processors : /\ batch'[q] = IF q = p THEN {} ELSE batch[q]
                              /\ current'[q] = IF q = p THEN {j} ELSE current[q]
                              /\ pc'[q] = IF q = p THEN "handling" ELSE pc[q]
    <3>1. {j} \ {j} = {}
      OBVIOUS
    <3>2. batch' = [batch EXCEPT ![p] = {}]
      BY <1>5, <2>1, <3>1, <1>t DEF Start, TypeOK
    <3>3. QED
      BY <1>5, <3>2, <1>t DEF Start, TypeOK
  <2>5. \A k \in Jobs : lockedBy'[k] = IF lockedBy[k] = p THEN NoOne ELSE lockedBy[k]
    BY <1>5 DEF Start, Release
  <2>6. /\ seen'[p][j] = row[j].attempts + 1
        /\ \A q \in Processors : q # p => seen'[q] = seen[q]
    BY <1>5, <2>2, <1>t DEF Start, TypeOK
  <2>7. \A q \in Processors : j \notin current[q]
    BY <2>2, <1>s DEF SingleParts
  <2>8. BatchIsOneJob'
    BY <2>4, <1>s DEF SingleParts
  <2>9. BatchIsLocked'
    BY <2>4, <2>5, <1>s DEF SingleParts
  <2>10. BatchIsFresh'
    <3> SUFFICES ASSUME NEW q \in Processors, NEW k \in batch'[q]
                 PROVE  /\ row'[k].status = "pending"
                        /\ row'[k].due
                        /\ seen'[q][k] = row'[k].attempts
      OBVIOUS
    <3>1. q # p /\ k \in batch[q] /\ k \in Jobs
      BY <2>4, <1>t DEF TypeOK
    <3>2. k # j
      BY <3>1, <2>1, <1>s DEF SingleParts
    <3>3. QED
      BY <3>1, <3>2, <2>3, <2>6, <1>s DEF SingleParts
  <2>11. RunIsExclusive'
    <3> SUFFICES ASSUME NEW q \in Processors, NEW k \in current'[q]
                 PROVE  /\ row'[k].status \in {"running", "failed"}
                        /\ seen'[q][k] = row'[k].attempts
      OBVIOUS
    <3>1. CASE q = p
      BY <3>1, <2>3, <2>4, <2>6
    <3>2. CASE q # p
      <4>1. k \in current[q] /\ k # j /\ k \in Jobs
        BY <3>2, <2>4, <2>7, <1>t DEF TypeOK
      <4>2. QED
        BY <3>2, <4>1, <2>3, <2>6, <1>s DEF SingleParts
    <3>3. QED
      BY <3>1, <3>2
  <2>12. OneRunner'
    <3> SUFFICES ASSUME NEW q \in Processors, NEW v \in Processors, q # v
                 PROVE  current'[q] \cap current'[v] = {}
      OBVIOUS
    <3>1. current[q] \cap current[v] = {}
      BY <1>s DEF SingleParts
    <3>2. j \notin current[q] /\ j \notin current[v]
      BY <2>7
    <3>3. QED
      BY <3>1, <3>2, <2>4
  <2>13. runs'[j] = runs[j] + 1 /\ \A k \in Jobs : k # j => runs'[k] = runs[k]
    BY <1>5, <1>t DEF Start, TypeOK
  <2>14. NewJobsAreFresh' /\ EveryRunCounted' /\ DeadLetterExhausted'
    BY <2>2, <2>3, <2>13, <1>s DEF SingleParts
  <2>15. QED
    BY <2>8, <2>9, <2>10, <2>11, <2>12, <2>14 DEF SingleParts
<1>6. ASSUME NEW p \in Processors, NEW j \in Jobs, NEW s \in JobStatus, NEW d \in BOOLEAN,
             s = "dead_letter" => seen[p][j] >= MaxAttempts[j],
             Finish(p, j, s, d)
      PROVE  SingleParts'
  <2>1. /\ row'[j].status = s
        /\ row'[j].attempts = row[j].attempts
        /\ \A k \in Jobs : k # j => row'[k] = row[k]
    BY <1>6, <1>t, <1>a DEF Finish, TypeOK, Row
  <2>2. \A q \in Processors : current'[q] = IF q = p THEN {} ELSE current[q]
    BY <1>6, <1>t DEF Finish, TypeOK
  <2>3. batch[p] = {} /\ j \in current[p]
    BY <1>6, <1>s DEF Finish, SingleParts
  <2>4. UNCHANGED <<lockedBy, batch, seen, runs>>
    BY <1>6 DEF Finish
  <2>5. \A q \in Processors : j \notin batch[q]
    BY <1>6, <1>s DEF Finish, Unlocked, SingleParts
  <2>6. \A q \in Processors : q # p => j \notin current[q]
    BY <2>3, <1>s DEF SingleParts
  <2>7. BatchIsOneJob'
    <3>1. \A q \in Processors : pc'[q] # "batch" => batch[q] = {}
      BY <1>6, <2>3, <1>s, <1>t DEF Finish, TypeOK, SingleParts
    <3>2. QED
      BY <3>1, <2>4, <1>s DEF SingleParts
  <2>8. BatchIsLocked' /\ OneRunner'
    BY <2>2, <2>4, <1>s DEF SingleParts
  <2>9. BatchIsFresh'
    <3> SUFFICES ASSUME NEW q \in Processors, NEW k \in batch'[q]
                 PROVE  /\ row'[k].status = "pending"
                        /\ row'[k].due
                        /\ seen'[q][k] = row'[k].attempts
      OBVIOUS
    <3>1. k \in batch[q] /\ k # j /\ k \in Jobs
      BY <2>4, <2>5, <1>t DEF TypeOK
    <3>2. QED
      BY <3>1, <2>1, <2>4, <1>s DEF SingleParts
  <2>10. RunIsExclusive'
    <3> SUFFICES ASSUME NEW q \in Processors, NEW k \in current'[q]
                 PROVE  /\ row'[k].status \in {"running", "failed"}
                        /\ seen'[q][k] = row'[k].attempts
      OBVIOUS
    <3>1. q # p /\ k \in current[q] /\ k \in Jobs
      BY <2>2, <1>t DEF TypeOK
    <3>2. k # j
      BY <3>1, <2>6
    <3>3. QED
      BY <3>1, <3>2, <2>1, <2>4, <1>s DEF SingleParts
  <2>11. seen[p][j] = row[j].attempts /\ row[j].attempts <= MaxAttempts[j] /\ row[j].attempts \in Nat
         /\ MaxAttempts[j] \in Nat /\ runs[j] = row[j].attempts
    BY <2>3, <1>s, <1>q, <1>a DEF SingleParts, QueueInv, AttemptsBounded, Row
  <2>12. EveryRunCounted' /\ DeadLetterExhausted'
    BY <1>6, <2>1, <2>4, <2>11, <1>s DEF SingleParts
  <2>13. NewJobsAreFresh'
    BY <1>6, <2>1, <1>s DEF SingleParts, JobStatus
  <2>14. QED
    BY <2>7, <2>8, <2>9, <2>10, <2>12, <2>13 DEF SingleParts
<1>7. ASSUME NEW p \in Processors, NEW j \in Jobs, Succeed(p, j) \/ Fail(p, j) \/ Cancel(p, j)
      PROVE  SingleParts'
  <2>1. row[j].due \in BOOLEAN
    BY <1>a DEF Row
  <2>2. \E s \in JobStatus, d \in BOOLEAN :
          /\ s = "dead_letter" => seen[p][j] >= MaxAttempts[j]
          /\ Finish(p, j, s, d)
    BY <1>7, <2>1 DEF Succeed, Fail, Cancel, JobStatus
  <2>3. QED
    BY <1>6, <2>2
<1>8. CASE DetectorRead
  BY <1>8, <1>s DEF DetectorRead, SingleParts
<1>9. CASE DetectorWrite
  <2>1. \A k \in Jobs : /\ row'[k].status \in {row[k].status, "failed"}
                        /\ row'[k].attempts = row[k].attempts
                        /\ lockedBy[k] # NoOne => row'[k] = row[k]
    BY <1>9, <1>a DEF DetectorWrite, Unlocked, Row
  <2>2. UNCHANGED workerVars
    BY <1>9 DEF DetectorWrite
  <2>3. BatchIsOneJob' /\ BatchIsLocked' /\ OneRunner'
    BY <2>2, <1>s DEF SingleParts
  <2>4. BatchIsFresh'
    <3> SUFFICES ASSUME NEW q \in Processors, NEW k \in batch[q]
                 PROVE  /\ row'[k].status = "pending"
                        /\ row'[k].due
                        /\ seen[q][k] = row'[k].attempts
      BY <2>2 DEF workerVars
    <3>1. k \in Jobs
      BY <1>t DEF TypeOK
    <3>2. lockedBy[k] # NoOne
      BY <3>1, <1>s DEF SingleParts
    <3>3. row'[k] = row[k]
      BY <3>1, <3>2, <2>1
    <3>4. QED
      BY <3>3, <1>s DEF SingleParts
  <2>5. RunIsExclusive'
    BY <2>1, <2>2, <1>s, <1>t DEF SingleParts, TypeOK
  <2>6. NewJobsAreFresh' /\ EveryRunCounted' /\ DeadLetterExhausted'
    BY <2>1, <2>2, <1>s DEF SingleParts
  <2>7. QED
    BY <2>3, <2>4, <2>5, <2>6 DEF SingleParts
<1>10. CASE UNCHANGED vars
  BY <1>10, <1>s DEF vars, SingleParts
<1>11. QED
  BY <1>1, <1>2, <1>3, <1>4, <1>5, <1>7, <1>8, <1>9, <1>10 DEF Next

\* SingleInv holds throughout when a batch is one job.
LEMMA SingleInvariant == ASSUME BatchLimit = 1 PROVE Spec => []SingleInv
<1>1. Init => SingleInv
  <2>1. Init => QueueInv
    <3>1. Init => TypeOK
      BY ProcessorsAssumption DEF Init, TypeOK, Row
    <3>2. QED
      BY <3>1, JobsAssumption
      DEF Init, QueueInv, Sessions, AttemptsLeft, AttemptsBounded, RunningIsOwned
  <2>2. QED
    BY <2>1, ProcessorsAssumption
    DEF Init, SingleInv, BatchIsOneJob, BatchIsLocked, BatchIsFresh, RunIsExclusive,
        NewJobsAreFresh, OneRunner, EveryRunCounted, DeadLetterExhausted
<1>2. SingleInv /\ [Next]_vars => SingleInv'
  BY SingleStep
<1>3. QED
  BY <1>1, <1>2, PTL DEF Spec

\* With batches of one job SKIP LOCKED does what the comment in
\* _fetch_pending_jobs says: no handler runs twice at the same time, however
\* many processors, crashes and detector sweeps there are.
THEOREM SingleJobBatchesAreExclusive == ASSUME BatchLimit = 1 PROVE Spec => []OneRunner
BY SingleInvariant, PTL DEF SingleInv

\* With batches of one job the attempts column counts the runs of the handler.
THEOREM SingleJobBatchesCountRuns == ASSUME BatchLimit = 1 PROVE Spec => []EveryRunCounted
BY SingleInvariant, PTL DEF SingleInv

\* With batches of one job a dead letter has really had all its attempts.
THEOREM SingleJobDeadLetters == ASSUME BatchLimit = 1 PROVE Spec => []DeadLetterExhausted
BY SingleInvariant, PTL DEF SingleInv

\* With batches of one job a handler starts only on a row that is PENDING and due.
THEOREM SingleJobStarts == ASSUME BatchLimit = 1 PROVE Spec => StartsOnlyDueJobs
<1> DEFINE Due == \A p \in Processors, j \in Jobs :
                    j \in current'[p] \ current[p] => row[j].status = "pending" /\ row[j].due
<1>1. SingleInv /\ [Next]_vars => [Due]_vars
  <2> SUFFICES ASSUME SingleInv, Next, NEW p \in Processors, NEW j \in Jobs,
                      j \in current'[p], j \notin current[p]
               PROVE  row[j].status = "pending" /\ row[j].due
    BY DEF vars
  <2>t. TypeOK
    BY DEF SingleInv, QueueInv
  <2>1. PICK q \in Processors, k \in Jobs : Start(q, k)
    <3>1. ASSUME NEW q \in Processors, Crash(q) PROVE FALSE
      BY <3>1, <2>t DEF Crash, TypeOK
    <3>2. ASSUME NEW q \in Processors, NEW k \in Jobs, Succeed(q, k) \/ Fail(q, k) \/ Cancel(q, k)
          PROVE  FALSE
      <4>1. current' = [current EXCEPT ![q] = {}]
        BY <3>2 DEF Succeed, Fail, Cancel, Finish
      <4>2. QED
        BY <4>1, <2>t DEF TypeOK
    <3>3. current' # current
      OBVIOUS
    <3>4. ASSUME NEW q \in Processors PROVE ~Fetch(q)
      BY <3>3 DEF Fetch
    <3>5. ASSUME NEW k \in Jobs PROVE ~Enqueue(k) /\ ~BecomeDue(k) /\ ~BecomeOld(k)
      BY <3>3 DEF Enqueue, BecomeDue, BecomeOld, workerVars
    <3>6. ~DetectorRead /\ ~DetectorWrite
      BY <3>3 DEF DetectorRead, DetectorWrite, workerVars
    <3>7. QED
      BY <3>1, <3>2, <3>4, <3>5, <3>6 DEF Next
  <2>2. q = p /\ k = j
    BY <2>1, <2>t DEF Start, TypeOK
  <2>3. j \in batch[p]
    BY <2>1, <2>2 DEF Start
  <2>4. QED
    BY <2>3 DEF SingleInv, BatchIsFresh
<1>2. QED
  BY <1>1, SingleInvariant, PTL DEF Spec, StartsOnlyDueJobs

-----------------------------------------------------------------------------
(* Refinement: with batches of one job, and without the detector, every     *)
(* step of the queue is a step of JobLifecycle or a stutter.                *)

\* Without the detector no row is FAILED, so a job being run is RUNNING.
QuietInv ==
  /\ SingleInv
  /\ doomed = {}
  /\ \A j \in Jobs : row[j].status # "failed"

\* The inductive step of QuietInv, from that of SingleInv.
LEMMA QuietStep ==
  ASSUME BatchLimit = 1, DetectorOn = FALSE
  PROVE  QuietInv /\ [Next]_vars => QuietInv'
<1> SUFFICES ASSUME QuietInv, [Next]_vars PROVE QuietInv'
  OBVIOUS
<1>1. SingleInv /\ SingleInv'
  BY SingleStep DEF QuietInv
<1>2. TypeOK /\ TypeOK'
  BY <1>1 DEF SingleInv, QueueInv
<1>a. \A j \in Jobs : row[j] \in Row /\ row'[j] \in Row
  BY <1>2 DEF TypeOK
<1>3. ~DetectorRead /\ ~DetectorWrite
  BY DEF DetectorRead, DetectorWrite, QuietInv
<1>4. doomed' = {}
  <2>1. ASSUME NEW j \in Jobs, Enqueue(j) \/ BecomeDue(j) \/ BecomeOld(j) PROVE doomed' = doomed
    BY <2>1 DEF Enqueue, BecomeDue, BecomeOld
  <2>2. ASSUME NEW p \in Processors, Fetch(p) \/ Crash(p) PROVE doomed' = doomed
    BY <2>2 DEF Fetch, Crash
  <2>3. ASSUME NEW p \in Processors, NEW j \in Jobs,
               Start(p, j) \/ Succeed(p, j) \/ Fail(p, j) \/ Cancel(p, j)
        PROVE  doomed' = doomed
    BY <2>3 DEF Start, Succeed, Fail, Cancel, Finish
  <2>4. doomed = {}
    BY DEF QuietInv
  <2>5. CASE UNCHANGED vars
    BY <2>4, <2>5 DEF vars
  <2>6. QED
    BY <1>3, <2>1, <2>2, <2>3, <2>4, <2>5 DEF Next
<1>5. ASSUME NEW k \in Jobs PROVE row'[k].status # "failed"
  <2>1. row[k].status # "failed"
    BY DEF QuietInv
  <2>2. ASSUME NEW j \in Jobs, Enqueue(j) \/ BecomeDue(j) \/ BecomeOld(j)
        PROVE  row'[k].status # "failed"
    BY <2>1, <2>2, <1>2, <1>a DEF Enqueue, BecomeDue, BecomeOld, TypeOK, Row
  <2>3. ASSUME NEW p \in Processors, NEW j \in Jobs, Start(p, j) PROVE row'[k].status # "failed"
    BY <2>1, <2>3, <1>2, <1>a DEF Start, TypeOK, Row
  <2>4. ASSUME NEW p \in Processors, NEW j \in Jobs, Succeed(p, j) \/ Fail(p, j) \/ Cancel(p, j)
        PROVE  row'[k].status # "failed"
    <3>1. ASSUME NEW s \in JobStatus, NEW d \in BOOLEAN, s # "failed", Finish(p, j, s, d)
          PROVE  row'[k].status # "failed"
      BY <2>1, <3>1, <1>2, <1>a DEF Finish, TypeOK, Row
    <3>2. row[j].due \in BOOLEAN
      BY <1>a DEF Row
    <3>3. \E s \in JobStatus, d \in BOOLEAN : s # "failed" /\ Finish(p, j, s, d)
      BY <2>4, <3>2 DEF Succeed, Fail, Cancel, JobStatus
    <3>4. QED
      BY <3>1, <3>3
  <2>5. QED
    BY <2>1, <2>2, <2>3, <2>4, <1>3 DEF Next, Fetch, Crash, vars
<1>6. QED
  BY <1>1, <1>4, <1>5 DEF QuietInv

\* A step of the queue from a QuietInv state refines a step of the lifecycle.
LEMMA LifecycleStep ==
  ASSUME BatchLimit = 1, DetectorOn = FALSE
  PROVE  QuietInv /\ [Next]_vars => [Lifecycle!Next]_(Lifecycle!vars)
<1> SUFFICES ASSUME QuietInv, [Next]_vars PROVE [Lifecycle!Next]_(Lifecycle!vars)
  OBVIOUS
<1> DEFINE st == [j \in Jobs |-> row[j].status]
           at == [j \in Jobs |-> row[j].attempts]
<1>1. SingleInv /\ QueueInv /\ TypeOK
  BY DEF QuietInv, SingleInv, QueueInv
<1>a. \A j \in Jobs : row[j] \in Row
  BY <1>1 DEF TypeOK
<1>2. ~DetectorRead /\ ~DetectorWrite
  BY DEF DetectorRead, DetectorWrite, QuietInv
<1>3. ASSUME \A j \in Jobs : row'[j].status = row[j].status /\ row'[j].attempts = row[j].attempts
      PROVE  UNCHANGED Lifecycle!vars
  BY <1>3 DEF Lifecycle!vars
<1>4. ASSUME NEW j \in Jobs, Enqueue(j) PROVE Lifecycle!Insert(j)
  <2>1. row[j].status = "absent" /\ row[j].attempts = 0
    BY <1>4, <1>1 DEF Enqueue, SingleInv, NewJobsAreFresh
  <2>2. /\ row'[j].status = "pending" /\ row'[j].attempts = 0
        /\ \A k \in Jobs : k # j => row'[k] = row[k]
    BY <1>4, <1>1 DEF Enqueue, TypeOK
  <2>3. st' = [st EXCEPT ![j] = "pending"] /\ at' = at
    BY <2>1, <2>2
  <2>4. QED
    BY <2>1, <2>3 DEF Lifecycle!Insert, Lifecycle!Move
<1>5. ASSUME NEW j \in Jobs, BecomeDue(j) \/ BecomeOld(j) PROVE UNCHANGED Lifecycle!vars
  <2>1. \A k \in Jobs : row'[k].status = row[k].status /\ row'[k].attempts = row[k].attempts
    <3>1. CASE BecomeDue(j)
      BY <3>1, <1>1, <1>a DEF BecomeDue, TypeOK, Row
    <3>2. CASE BecomeOld(j)
      BY <3>2, <1>1, <1>a DEF BecomeOld, TypeOK, Row
    <3>3. QED
      BY <1>5, <3>1, <3>2
  <2>2. QED
    BY <2>1, <1>3
<1>6. ASSUME NEW p \in Processors, Fetch(p) \/ Crash(p) PROVE UNCHANGED Lifecycle!vars
  BY <1>6, <1>3 DEF Fetch, Crash
<1>7. ASSUME NEW p \in Processors, NEW j \in Jobs, Start(p, j) PROVE Lifecycle!Attempt(j)
  <2>1. j \in batch[p] /\ row[j].status = "pending" /\ seen[p][j] = row[j].attempts
        /\ seen[p][j] < MaxAttempts[j]
    BY <1>7, <1>1 DEF Start, SingleInv, BatchIsFresh, QueueInv, AttemptsLeft
  <2>2. /\ row'[j].status = "running" /\ row'[j].attempts = row[j].attempts + 1
        /\ \A k \in Jobs : k # j => row'[k] = row[k]
    BY <1>7, <2>1, <1>1, <1>a DEF Start, TypeOK, Row
  <2>3. st' = [st EXCEPT ![j] = "running"] /\ at' = [at EXCEPT ![j] = at[j] + 1]
    BY <2>2
  <2>4. QED
    BY <2>1, <2>3 DEF Lifecycle!Attempt, Lifecycle!Move
<1>8. ASSUME NEW p \in Processors, NEW j \in Jobs, NEW s \in JobStatus, NEW d \in BOOLEAN,
             Finish(p, j, s, d)
      PROVE  /\ row[j].status = "running" /\ seen[p][j] = row[j].attempts
             /\ st' = [st EXCEPT ![j] = s] /\ at' = at
  <2>1. row[j].status = "running" /\ seen[p][j] = row[j].attempts
    BY <1>8, <1>1 DEF Finish, QuietInv, SingleInv, RunIsExclusive
  <2>2. /\ row'[j].status = s /\ row'[j].attempts = row[j].attempts
        /\ \A k \in Jobs : k # j => row'[k] = row[k]
    BY <1>8, <1>1, <1>a DEF Finish, TypeOK, Row
  <2>3. QED
    BY <2>1, <2>2
<1>9. ASSUME NEW p \in Processors, NEW j \in Jobs, Succeed(p, j) \/ Fail(p, j) \/ Cancel(p, j)
      PROVE  Lifecycle!Complete(j) \/ Lifecycle!HandBack(j) \/ Lifecycle!Bury(j)
  <2>1. row[j].due \in BOOLEAN
    BY <1>a DEF Row
  <2>2. CASE Finish(p, j, "completed", row[j].due)
    BY <2>1, <2>2, <1>8 DEF JobStatus, Lifecycle!Complete, Lifecycle!Move
  <2>3. CASE Finish(p, j, "pending", FALSE)
    BY <2>3, <1>8 DEF JobStatus, Lifecycle!HandBack, Lifecycle!Move
  <2>4. CASE Finish(p, j, "dead_letter", row[j].due) /\ seen[p][j] >= MaxAttempts[j]
    <3>1. row[j].attempts <= MaxAttempts[j] /\ row[j].attempts \in Nat /\ MaxAttempts[j] \in Nat
      BY <1>1, <1>a, JobsAssumption DEF QueueInv, AttemptsBounded, Row
    <3>2. /\ row[j].status = "running" /\ seen[p][j] = row[j].attempts
          /\ st' = [st EXCEPT ![j] = "dead_letter"] /\ at' = at
      BY <2>1, <2>4, <1>8 DEF JobStatus
    <3>3. row[j].attempts = MaxAttempts[j]
      BY <2>4, <3>1, <3>2
    <3>4. QED
      BY <3>2, <3>3 DEF Lifecycle!Bury, Lifecycle!Move
  <2>5. QED
    BY <1>9, <2>2, <2>3, <2>4 DEF Succeed, Fail, Cancel
<1>10. CASE UNCHANGED vars
  BY <1>10, <1>3 DEF vars
<1>11. QED
  BY <1>2, <1>4, <1>5, <1>6, <1>7, <1>9, <1>10 DEF Next, Lifecycle!Next

\* The queue implements the lifecycle of its jobs when a batch is one job and
\* the detector is off: neither condition can be dropped (see the README).
THEOREM QueueRefinesLifecycle ==
  ASSUME BatchLimit = 1, DetectorOn = FALSE
  PROVE  Spec => LifecycleSpec
<1>1. Init => Lifecycle!Init
  BY DEF Init, Lifecycle!Init
<1>2. Init => doomed = {} /\ \A j \in Jobs : row[j].status # "failed"
  BY DEF Init
<1>3. QuietInv /\ [Next]_vars => QuietInv'
  BY QuietStep
<1>4. QuietInv /\ [Next]_vars => [Lifecycle!Next]_(Lifecycle!vars)
  BY LifecycleStep
<1>5. Spec => []SingleInv
  BY SingleInvariant
<1>6. Init /\ SingleInv => QuietInv
  BY <1>2 DEF QuietInv
<1>7. QED
  BY <1>1, <1>3, <1>4, <1>5, <1>6, PTL DEF Spec, LifecycleSpec, Lifecycle!Spec
=============================================================================
