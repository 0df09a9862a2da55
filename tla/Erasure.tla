-------------------------------- MODULE Erasure --------------------------------
(***************************************************************************)
(* The erasure of a tenant's data: one transaction deletes one table after *)
(* the other, under the foreign keys, while jobs of the tenant go on       *)
(* inserting.  A table is modelled by whether it holds rows of the tenant. *)
(***************************************************************************)
EXTENDS Integers, Sequences

CONSTANTS
  JobTables,     \* tables that jobs and requests insert into
  MaxInserts     \* bound: insertions during an erasure

VARIABLES
  present,   \* tables with committed rows of the tenant
  erasure,   \* the erasure: its step, and what its transaction has deleted
  inserts

erasureVars == <<present, erasure, inserts>>

\* Mutant of ErasureOrder: the accounts are deleted before the costs that name them.
ErasureOrderAccountsFirst ==
  <<"cost_audit_logs", "cloud_accounts", "cost_records", "remediation_requests", "discovered_accounts",
    "connections", "cost_allocations", "attribution_rules", "llm_usage", "background_jobs", "users">>

\* "Delete in order of dependencies".
ErasureOrder ==
  <<"cost_audit_logs", "cost_records", "remediation_requests", "discovered_accounts", "connections",
    "cost_allocations", "attribution_rules", "llm_usage", "background_jobs", "cloud_accounts", "users">>
Tables == {ErasureOrder[i] : i \in DOMAIN ErasureOrder} \cup {"audit_logs"}

ASSUME ErasureAssumption == JobTables \subseteq Tables /\ MaxInserts \in Nat

\* Foreign keys that do not cascade: <<child, parent>>.
References ==
  {<<"cost_audit_logs", "cost_records">>, <<"cost_allocations", "cost_records">>,
   <<"cost_allocations", "attribution_rules">>, <<"cost_records", "cloud_accounts">>,
   <<"remediation_requests", "users">>, <<"audit_logs", "users">>}
Parents(t) == {r[2] : r \in {q \in References : q[1] = t}}

NoErasure == [step |-> 0, deleted |-> {}, found |-> {}, quiet |-> TRUE, result |-> "none"]

ErasureTypeOK ==
  /\ present \subseteq Tables /\ erasure.deleted \subseteq Tables /\ erasure.step \in 0..Len(ErasureOrder) + 1
  /\ erasure.result \in {"none", "complete", "failed"} /\ inserts \in 0..MaxInserts

\* Rows only where the rows they refer to are.
Sound(rows) == \A t \in rows : Parents(t) \subseteq rows

ErasureInit ==
  /\ present \in {rows \in SUBSET Tables : Sound(rows) /\ "users" \in rows}
  /\ erasure = NoErasure /\ inserts = 0

View == present \ erasure.deleted

\* A job inserts and commits.  A row whose parent the erasure has deleted waits for
\* the erasure's end; a table that was emptied has rows again.
InsertRow(t) ==
  /\ erasure.result = "none" /\ inserts < MaxInserts /\ Parents(t) \subseteq View
  /\ present' = present \cup {t} /\ inserts' = inserts + 1
  /\ erasure' = [erasure EXCEPT !.deleted = @ \ {t}, !.quiet = erasure.step = 0]

\* DELETE /audit/data-erasure-request, confirmed by the owner.
StartErasure ==
  /\ erasure.step = 0
  /\ erasure' = [NoErasure EXCEPT !.step = 1, !.found = present]
  /\ UNCHANGED <<present, inserts>>

\* The foreign keys that deleting t would violate.
Blocking(t) == {c \in View : <<c, t>> \in References}

\* Rows of a child are found through their cost records.
Reached(t) == IF t \in {"cost_audit_logs", "cost_allocations"} /\ "cost_records" \notin View THEN {} ELSE {t} \cap present

\* One DELETE; a violated foreign key ends the request with a rollback.
EraseTable ==
  LET t == ErasureOrder[erasure.step]
  IN /\ erasure.step \in DOMAIN ErasureOrder /\ erasure.result = "none"
     /\ erasure' = IF Blocking(t) # {} THEN [erasure EXCEPT !.result = "failed", !.deleted = {}]
                   ELSE [erasure EXCEPT !.step = @ + 1, !.deleted = @ \cup Reached(t)]
     /\ UNCHANGED <<present, inserts>>

CommitErasure ==
  /\ erasure.step > Len(ErasureOrder) /\ erasure.result = "none"
  /\ present' = View
  /\ erasure' = [erasure EXCEPT !.result = "complete", !.deleted = {}]
  /\ UNCHANGED <<inserts>>

ErasureNext ==
  \/ \E t \in JobTables : InsertRow(t)
  \/ StartErasure \/ EraseTable \/ CommitErasure

ErasureSpec == ErasureInit /\ [][ErasureNext]_erasureVars

-----------------------------------------------------------------------------
\* "All tenant data has been deleted": an erasure that completes while nothing is
\* inserted leaves the audit log and nothing else (audit.py:262-381).
CompleteIsEmpty == erasure.result = "complete" /\ erasure.quiet => present \subseteq {"audit_logs"}

\* Without allocations, without entries of other users in the audit log and
\* without insertions, the order of the deletions satisfies the foreign keys
\* (audit.py:262-364).
OrderSuffices ==
  erasure.result = "failed" =>
    \/ ~erasure.quiet
    \/ erasure.found \cap {"cost_allocations", "audit_logs"} # {}

\* An erasure that nothing disturbs is possible and complete.
ErasureInv == CompleteIsEmpty /\ OrderSuffices
=============================================================================
