------------------------------ MODULE AuditTrail ------------------------------
(***************************************************************************)
(* The audit log of a tenant.  An entry is flushed in the transaction of   *)
(* the operation it records: it carries the time of the flush and is there *)
(* for others at the commit.  An administrator pages through the log       *)
(* meanwhile, or exports it.                                               *)
(***************************************************************************)
EXTENDS Integers, FiniteSets

CONSTANTS
  Operations,    \* operations that log an entry
  PageSize,      \* limit of GET /audit/logs
  Ascending,     \* order=asc
  ExportLimit    \* entries of an export

ASSUME AuditAssumption ==
  IsFiniteSet(Operations) /\ PageSize \in Nat \ {0} /\ Ascending \in BOOLEAN /\ ExportLimit \in Nat

VARIABLES
  op,        \* each operation: its state and the time of its entry
  clock,     \* times given to entries
  paging,    \* the reader: pages read, entries shown, entries there when it began
  exported   \* the last export, with the log it was made from

auditVars == <<op, clock, paging, exported>>

NoPaging == [pc |-> "idle", page |-> 0, shown |-> {}, before |-> {}]

AuditTypeOK ==
  /\ op \in [Operations -> [pc : {"idle", "flushed", "committed", "lost"}, time : 0..Cardinality(Operations)]]
  /\ clock \in 0..Cardinality(Operations)
  /\ paging.pc \in {"idle", "reading", "read"} /\ {paging.shown, paging.before} \subseteq SUBSET Operations
  /\ {exported.rows, exported.log} \subseteq SUBSET Operations

AuditInit ==
  /\ op = [o \in Operations |-> [pc |-> "idle", time |-> 0]] /\ clock = 0
  /\ paging = NoPaging /\ exported = [rows |-> {}, log |-> {}]

\* What a query sees.
Log == {o \in Operations : op[o].pc = "committed"}

-----------------------------------------------------------------------------
\* AuditLogger.log: add and flush, with the time of the flush.
FlushEntry(o) ==
  /\ op[o].pc = "idle" /\ clock' = clock + 1
  /\ op' = [op EXCEPT ![o] = [pc |-> "flushed", time |-> clock + 1]]
  /\ UNCHANGED <<paging, exported>>

\* The operation commits, and its entry with it, or it rolls back.
EndOperation(o) ==
  /\ op[o].pc = "flushed"
  /\ \E end \in {"committed", "lost"} : op' = [op EXCEPT ![o].pc = end]
  /\ UNCHANGED <<clock, paging, exported>>

\* Entries that come before one in the order of a query.
Before(o, up) == {p \in Log : IF up THEN op[p].time < op[o].time ELSE op[p].time > op[o].time}

\* Mutant of Page: the offset counts from one.
PageFromOne(n) ==
  {o \in Log : Cardinality(Before(o, Ascending)) \in n * PageSize + 1 .. (n + 1) * PageSize}

\* offset(n * limit).limit(limit)
Page(n) ==
  {o \in Log : Cardinality(Before(o, Ascending)) \in n * PageSize .. (n + 1) * PageSize - 1}

StartPaging ==
  /\ paging.pc # "reading"
  /\ paging' = [NoPaging EXCEPT !.pc = "reading", !.before = Log]
  /\ UNCHANGED <<op, clock, exported>>

\* GET /audit/logs: the reader goes on until a page is not full.
ReadPage ==
  LET page == Page(paging.page)
  IN /\ paging.pc = "reading"
     /\ paging' = [paging EXCEPT !.shown = @ \cup page, !.page = @ + 1,
                                 !.pc = IF Cardinality(page) < PageSize THEN "read" ELSE @]
     /\ UNCHANGED <<op, clock, exported>>

\* ORDER BY event_timestamp DESC LIMIT 10000
Exported == {o \in Log : Cardinality(Before(o, FALSE)) < ExportLimit}

\* GET /audit/export
Export ==
  /\ exported' = [rows |-> Exported, log |-> Log]
  /\ UNCHANGED <<op, clock, paging>>

AuditNext ==
  \/ \E o \in Operations : FlushEntry(o) \/ EndOperation(o)
  \/ StartPaging \/ ReadPage \/ Export

AuditSpec == AuditInit /\ [][AuditNext]_auditVars

-----------------------------------------------------------------------------
\* Whoever pages to the end has seen every entry that was there at the start,
\* although entries with older times may be committed in between (audit.py:54-67).
PagingShowsAll == paging.pc = "read" => paging.before \subseteq paging.shown

\* An export that had to leave entries out has left out none that is newer than
\* one it holds (audit.py:160-175).
ExportIsNewest ==
  \A o \in exported.log \ exported.rows, p \in exported.rows : op[o].time < op[p].time

\* What an administrator is shown leaves out nothing that was there.
AuditInv == PagingShowsAll /\ ExportIsNewest
=============================================================================
