------------------------------ MODULE CostRecords ------------------------------
(***************************************************************************)
(* The cost records of one tenant: ingestion jobs that stream each         *)
(* connection's bill into cost_records and keep a checkpoint in their      *)
(* payload, the finalisation of old rows, the materialised view, and the   *)
(* queries of the dashboard.  The provider restates the bill meanwhile.    *)
(*                                                                         *)
(* A row is identified by its connection and its day; each connection      *)
(* bills one service.  Two jobs may run at once, for POST /costs/ingest    *)
(* queues without a deduplication key.  Rows that an open transaction has  *)
(* written are locked, so an upsert is one step with its commit.           *)
(***************************************************************************)
EXTENDS Integers, FiniteSets, FiniteSetsExt, Functions

CONSTANTS
  Bills,            \* 1..n, connections in the order the handler visits them
  BillDays,         \* 1..n, days of the bill
  FirstDay,         \* the day on which the tenant connects
  ServiceOf,        \* what each connection bills, "unknown" when it does not say
  Ingestions,       \* jobs that run at once
  IngestAttempts,   \* max_attempts of a job
  MaxRestated,      \* bound: restatements of the bill
  MaxIngestFaults   \* bound: adapters that fail, sessions that are lost or refused

ASSUME CostAssumption ==
  /\ Bills \subseteq Nat \ {0} /\ BillDays \subseteq Nat /\ FirstDay \in BillDays
  /\ IsFiniteSet(Bills) /\ IsFiniteSet(BillDays)
  /\ IngestAttempts \in Nat \ {0} /\ MaxRestated \in Nat /\ MaxIngestFaults \in Nat

VARIABLES
  bill,         \* what the provider would answer
  costRow,      \* cost_records: amount (0: no row) and whether it is FINAL
  ingest,       \* the jobs
  costView,     \* mv_daily_cost_aggregates
  today,
  restated,
  ingestFaults

costVars == <<bill, costRow, ingest, costView, today, restated, ingestFaults>>

Keys == Bills \X BillDays
Amounts == 0..2
NoRow == [amount |-> 0, final |-> FALSE]
NoIngestion == [pc |-> "none", tries |-> 0, conn |-> 0, done |-> {}, read |-> [d \in BillDays |-> 0],
                saved |-> {}, failed |-> {}]

CostTypeOK ==
  /\ bill \in [Keys -> Amounts] /\ costView \in [Keys -> Amounts]
  /\ costRow \in [Keys -> [amount : Amounts, final : BOOLEAN]]
  /\ \A j \in Ingestions :
       /\ ingest[j].pc \in {"none", "queued", "running", "read", "completed", "dead"}
       /\ ingest[j].tries \in 0..IngestAttempts
       /\ ingest[j].conn \in Bills \cup {0}
       /\ {ingest[j].done, ingest[j].saved, ingest[j].failed} \subseteq SUBSET Bills
  /\ today \in BillDays /\ restated \in 0..MaxRestated /\ ingestFaults \in 0..MaxIngestFaults

CostInit ==
  /\ bill = [k \in Keys |-> IF k[2] <= FirstDay THEN 1 ELSE 0]
  /\ costRow = [k \in Keys |-> NoRow]
  /\ costView = [k \in Keys |-> 0]
  /\ ingest = [j \in Ingestions |-> NoIngestion]
  /\ today = FirstDay /\ restated = 0 /\ ingestFaults = 0

-----------------------------------------------------------------------------
\* A new day is billed.
NextDay ==
  /\ today + 1 \in BillDays /\ today' = today + 1
  /\ bill' = [k \in Keys |-> IF k[2] = today + 1 THEN 1 ELSE bill[k]]
  /\ UNCHANGED <<costRow, ingest, costView, restated, ingestFaults>>

\* The provider restates a day, old ones too.
Restate(k) ==
  /\ bill[k] = 1 /\ restated < MaxRestated
  /\ bill' = [bill EXCEPT ![k] = 2] /\ restated' = restated + 1
  /\ UNCHANGED <<costRow, ingest, costView, today, ingestFaults>>

\* POST /costs/ingest, or a sweep.
QueueIngestion(j) ==
  /\ ingest[j].pc \in {"none", "completed", "dead"}
  /\ ingest' = [ingest EXCEPT ![j] = [NoIngestion EXCEPT !.pc = "queued"]]
  /\ UNCHANGED <<bill, costRow, costView, today, restated, ingestFaults>>

\* The processor starts the job; the handler registers the accounts and commits.
RunIngestion(j) ==
  /\ ingest[j].pc = "queued"
  /\ ingest' = [ingest EXCEPT ![j].pc = "running", ![j].tries = @ + 1]
  /\ UNCHANGED <<bill, costRow, costView, today, restated, ingestFaults>>

\* The next connection that the checkpoint does not name; the adapter reads.
ReadBill(j) ==
  LET todo == Bills \ ingest[j].done
      conn == Min(todo)
  IN /\ ingest[j].pc = "running" /\ todo # {}
     /\ ingest' = [ingest EXCEPT ![j].pc = "read", ![j].conn = conn,
                                 ![j].read = [d \in BillDays |-> bill[<<conn, d>>]]]
     /\ UNCHANGED <<bill, costRow, costView, today, restated, ingestFaults>>

\* Mutant of Upsert: a row that exists is left as it is.
UpsertNothing(rows, c, read, days) ==
  [k \in Keys |-> IF k[1] = c /\ k[2] \in days /\ read[k[2]] > 0 /\ rows[k].amount = 0
                    THEN [rows[k] EXCEPT !.amount = read[k[2]]] ELSE rows[k]]

\* _bulk_upsert: the cost is overwritten, whatever the status; a new row is PRELIMINARY.
Upsert(rows, c, read, days) ==
  [k \in Keys |-> IF k[1] = c /\ k[2] \in days /\ read[k[2]] > 0
                    THEN [rows[k] EXCEPT !.amount = read[k[2]]] ELSE rows[k]]

\* Mutant of SaveBill: the checkpoint is committed before the rows.
SaveBillAfterwards(j) ==
  LET c == ingest[j].conn
  IN /\ ingest[j].pc = "read"
     /\ IF c \notin ingest[j].done
        THEN ingest' = [ingest EXCEPT ![j].done = @ \cup {c}] /\ UNCHANGED costRow
        ELSE /\ costRow' = Upsert(costRow, c, ingest[j].read, BillDays)
             /\ ingest' = [ingest EXCEPT ![j].pc = "running", ![j].saved = @ \cup {c}]
     /\ UNCHANGED <<bill, costView, today, restated, ingestFaults>>

\* save_records_stream in batches, last_ingested_at, and the checkpoint in the
\* payload: one transaction.
SaveBill(j) ==
  LET c == ingest[j].conn
  IN /\ ingest[j].pc = "read"
     /\ costRow' = Upsert(costRow, c, ingest[j].read, BillDays)
     /\ ingest' = [ingest EXCEPT ![j].pc = "running", ![j].done = @ \cup {c}, ![j].saved = @ \cup {c},
                                 ![j].conn = 0, ![j].read = NoIngestion.read]
     /\ UNCHANGED <<bill, costView, today, restated, ingestFaults>>

\* The adapter fails after some batches: those are kept, the error is written to
\* the connection, and the checkpoint counts the connection as completed.
StreamFails(j, days) ==
  LET c == ingest[j].conn
  IN /\ ingest[j].pc = "read"
     /\ ingestFaults < MaxIngestFaults /\ ingestFaults' = ingestFaults + 1
     /\ costRow' = Upsert(costRow, c, ingest[j].read, days)
     /\ ingest' = [ingest EXCEPT ![j].pc = "running", ![j].done = @ \cup {c}, ![j].failed = @ \cup {c},
                                 ![j].conn = 0, ![j].read = NoIngestion.read]
     /\ UNCHANGED <<bill, costView, today, restated>>

\* All connections are visited.  The attribution engine is called without its
\* dates: a TypeError, which is logged, and the job completes.
FinishIngestion(j) ==
  /\ ingest[j].pc = "running" /\ ingest[j].done = Bills
  /\ ingest' = [ingest EXCEPT ![j] = [NoIngestion EXCEPT !.pc = "completed"]]
  /\ UNCHANGED <<bill, costRow, costView, today, restated, ingestFaults>>

\* The session is lost, or refuses a statement after the handler's commit: what is
\* committed stays, and the job is run again or dead.
LoseIngestion(j) ==
  /\ ingest[j].pc \in {"running", "read"}
  /\ ingestFaults < MaxIngestFaults /\ ingestFaults' = ingestFaults + 1
  /\ ingest' = [ingest EXCEPT ![j].pc = IF ingest[j].tries < IngestAttempts THEN "queued" ELSE "dead",
                              ![j].conn = 0, ![j].read = NoIngestion.read]
  /\ UNCHANGED <<bill, costRow, costView, today, restated>>

Finalized(rows) ==
  [k \in Keys |-> [rows[k] EXCEPT !.final = @ \/ (k[2] <= today - 2 /\ rows[k].amount > 0)]]

\* The maintenance sweep: finalize_batch, two days later, and then the view, whose
\* failure is logged.
Maintenance ==
  /\ costRow' = Finalized(costRow)
  /\ costView' = [k \in Keys |-> costRow[k].amount]
  /\ UNCHANGED <<bill, ingest, today, restated, ingestFaults>>

MaintenanceWithoutRefresh ==
  /\ ingestFaults < MaxIngestFaults /\ ingestFaults' = ingestFaults + 1
  /\ costRow' = Finalized(costRow)
  /\ UNCHANGED <<bill, costView, ingest, today, restated>>

IngestionStep(j) ==
  RunIngestion(j) \/ ReadBill(j) \/ SaveBill(j) \/ FinishIngestion(j)

CostNext ==
  \/ NextDay \/ Maintenance \/ MaintenanceWithoutRefresh \/ \E k \in Keys : Restate(k)
  \/ \E j \in Ingestions :
       \/ QueueIngestion(j) \/ IngestionStep(j) \/ LoseIngestion(j)
       \/ \E n \in BillDays : StreamFails(j, 1..(n - 1))

CostSpec == CostInit /\ [][CostNext]_costVars

-----------------------------------------------------------------------------
(* The queries.                                                            *)

Present == {k \in Keys : costRow[k].amount > 0}

\* get_summary: the sum over the rows asked for.
Summary(rows) == SumFunctionOnSet([k \in rows |-> costRow[k].amount], rows)

\* get_dashboard_summary
DashboardTotal == Summary(Present)

\* get_basic_breakdown: unknown services are Uncategorized.
Breakdown ==
  LET name == [k \in Present |-> IF ServiceOf[k[1]] = "unknown" THEN "Uncategorized" ELSE ServiceOf[k[1]]]
  IN [s \in {name[k] : k \in Present} |-> Summary({k \in Present : name[k] = s})]

\* get_cached_breakdown: the view, or the rows when the view has nothing.
CachedTotal ==
  LET rows == {k \in Keys : costView[k] > 0}
  IN IF rows # {} THEN SumFunctionOnSet(costView, rows) ELSE DashboardTotal

\* get_data_freshness
Freshness ==
  LET preliminary == Cardinality({k \in Present : ~costRow[k].final})
  IN CASE Present = {} -> "no_data"
       [] Present # {} /\ preliminary = 0 -> "final"
       [] preliminary * 2 > Cardinality(Present) -> "preliminary"
       [] OTHER -> "mixed"

-----------------------------------------------------------------------------
(* Properties.                                                             *)

\* "checkpoint": a retry skips only connections whose rows this job has committed,
\* or whose error it has written to the connection.
CheckpointIsCommitted ==
  \A j \in Ingestions : ingest[j].done \subseteq ingest[j].saved \cup ingest[j].failed

\* Once ingestion has begun and restatements are at an end, daily ingestion brings every
\* row to the bill, and the sweep the view, though jobs were lost and wrote old answers
\* over new ones.
RowsCatchUp ==
  (\E j \in Ingestions : ingest[j].pc # "none")
    ~> [](\A k \in Keys : costRow[k].amount = bill[k] /\ costView[k] = bill[k])

\* Two widgets, one sum: the breakdown adds up to the dashboard's total.
BreakdownAddsUp == SumFunctionOnSet(Breakdown, DOMAIN Breakdown) = DashboardTotal

\* Data called final is older than the restatement window: a day that is today's or
\* yesterday's never shows as final, whichever job writes it again.
FinalIsSettled == Freshness = "final" => \A k \in Present : k[2] <= today - 2

\* The records of a tenant: no retry skips what is not committed, and the dashboard's
\* widgets agree with the rows and with the date.
CostInv == CheckpointIsCommitted /\ BreakdownAddsUp /\ FinalIsSettled
=============================================================================
