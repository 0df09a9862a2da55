----------------------------- MODULE JobLifecycle -----------------------------
(***************************************************************************)
(* What the queue promises of one background job, whoever runs it: it is   *)
(* inserted PENDING; each attempt takes it to RUNNING and counts; an       *)
(* attempt ends COMPLETED, or back in PENDING while attempts are left, or  *)
(* in DEAD_LETTER when they are used up; nothing leaves COMPLETED or       *)
(* DEAD_LETTER.  A cancelled attempt is handed back to PENDING too.        *)
(***************************************************************************)
EXTENDS Naturals

CONSTANTS Jobs, MaxAttempts

VARIABLES status, attempts

vars == <<status, attempts>>

Init ==
  /\ status = [j \in Jobs |-> "absent"]
  /\ attempts = [j \in Jobs |-> 0]

Move(j, from, to) ==
  /\ status[j] = from
  /\ status' = [status EXCEPT ![j] = to]

Insert(j) == Move(j, "absent", "pending") /\ UNCHANGED attempts

Attempt(j) ==
  /\ Move(j, "pending", "running")
  /\ attempts[j] < MaxAttempts[j]
  /\ attempts' = [attempts EXCEPT ![j] = @ + 1]

Complete(j) == Move(j, "running", "completed") /\ UNCHANGED attempts

HandBack(j) == Move(j, "running", "pending") /\ UNCHANGED attempts

Bury(j) ==
  /\ Move(j, "running", "dead_letter")
  /\ attempts[j] = MaxAttempts[j]
  /\ UNCHANGED attempts

Next == \E j \in Jobs : Insert(j) \/ Attempt(j) \/ Complete(j) \/ HandBack(j) \/ Bury(j)

Spec == Init /\ [][Next]_vars
=============================================================================
