--------------------------- MODULE RequestLifecycle ---------------------------
(***************************************************************************)
(* What remediation promises of a request: it is approved before anything  *)
(* else, waits out its grace period or is executed at once, is executed at *)
(* most once, and ends COMPLETED, only after the cloud action was carried  *)
(* out, or FAILED.                                                         *)
(***************************************************************************)
EXTENDS Naturals

CONSTANTS Requests

VARIABLES status, acts

vars == <<status, acts>>

Init ==
  /\ status = [r \in Requests |-> "absent"]
  /\ acts = [r \in Requests |-> 0]

Move(r, from, to) ==
  /\ status[r] \in from
  /\ status' = [status EXCEPT ![r] = to]
  /\ UNCHANGED acts

Create(r) == Move(r, {"absent"}, "pending")
Approve(r) == Move(r, {"pending"}, "approved")
Schedule(r) == Move(r, {"approved"}, "scheduled")
Begin(r) == Move(r, {"approved", "scheduled"}, "executing")
Fail(r) == Move(r, {"executing"}, "failed")

Act(r) ==
  /\ status[r] = "executing"
  /\ acts[r] = 0
  /\ acts' = [acts EXCEPT ![r] = 1]
  /\ UNCHANGED status

Complete(r) == acts[r] = 1 /\ Move(r, {"executing"}, "completed")

Next ==
  \E r \in Requests :
    Create(r) \/ Approve(r) \/ Schedule(r) \/ Begin(r) \/ Act(r) \/ Complete(r) \/ Fail(r)

Spec == Init /\ [][Next]_vars
=============================================================================
