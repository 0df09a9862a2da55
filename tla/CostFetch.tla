------------------------------ MODULE CostFetch ------------------------------
(***************************************************************************)
(* How a connection's costs are read: the Cost Explorer stream of the AWS  *)
(* adapter, page by page, under a decorator that starts the generator      *)
(* again after a transient error; Azure's query and GCP's billing export,  *)
(* each one answer without a retry; and the Cost and Usage Report of an    *)
(* AWS account that has one, with the setup that creates it.               *)
(*                                                                         *)
(* Each page holds one record, named by the page.  The consumer is the     *)
(* ingestion: it writes batches, and PostgreSQL refuses an upsert that     *)
(* names one row twice.                                                    *)
(***************************************************************************)
EXTENDS Integers, FiniteSets, FiniteSetsExt, Functions, Sequences, SequencesExt

CONSTANTS
  Pages,          \* 1..n, pages of the answer
  MaxPages,       \* MAX_COST_EXPLORER_PAGES
  FetchAttempts,  \* stop_after_attempt
  BatchSize,      \* records of one upsert
  TokenLife,      \* fetches for which assumed credentials are good
  ReportRows,     \* rows of a report file: sequences of [service, cost]
  RecordLimit,    \* records a summary keeps
  MaxSetups,      \* bound: calls of setup_cur_automation
  MaxFetchFaults  \* bound: provider errors

ASSUME FetchAssumption ==
  /\ IsFiniteSet(Pages) /\ Pages = 1..Cardinality(Pages) /\ Pages # {}
  /\ MaxPages \in Nat \ {0} /\ FetchAttempts \in Nat \ {0} /\ TokenLife \in Nat
  /\ BatchSize \in Nat \ {0} /\ MaxSetups \in Nat /\ MaxFetchFaults \in Nat
  /\ \A rows \in ReportRows : rows \in Seq([service : STRING, cost : Int])

VARIABLES
  fetch,    \* the stream: its cloud, where it is, its attempt, its credentials
  batch,    \* records received and not written
  saved,    \* records written, in the order of the upserts
  report,   \* the bucket, its policy and the report definition at AWS
  setup,    \* the call of setup_cur_automation in progress
  summary,  \* of the report file read last
  fetchFaults

fetchVars == <<fetch, batch, saved, report, setup, summary, fetchFaults>>

NoFetch == [pc |-> "idle", cloud |-> "aws", page |-> 1, attempt |-> 1, token |-> 0, calls |-> 0]
NoReport == [bucket |-> FALSE, policy |-> FALSE, defined |-> FALSE]
NoSetup == [pc |-> "idle", result |-> "none", calls |-> 0]

FetchTypeOK ==
  /\ fetch.cloud \in {"aws", "azure", "gcp"}
  /\ fetch.pc \in {"idle", "credentials", "page", "query", "exhausted", "saved", "failed"}
  /\ fetch.page \in 1..MaxPages + 1 /\ fetch.attempt \in 1..FetchAttempts /\ fetch.token \in 0..TokenLife
  /\ batch \in Seq(Pages) /\ Len(batch) <= BatchSize /\ saved \in Seq(Pages)
  /\ setup.pc \in {"idle", "bucket", "policy", "define"} /\ setup.result \in {"none", "success", "error"}
  /\ fetchFaults \in 0..MaxFetchFaults

FetchInit ==
  /\ fetch = NoFetch /\ batch = <<>> /\ saved = <<>>
  /\ report = NoReport /\ setup = NoSetup /\ summary = [rows |-> <<>>, records |-> <<>>] /\ fetchFaults = 0

-----------------------------------------------------------------------------
ReportIs == UNCHANGED <<report, setup, summary>>

\* AdapterFactory.get_adapter: without an active report the stream is Cost Explorer's.
StartFetch(cloud) ==
  /\ fetch.pc = "idle"
  /\ fetch' = [fetch EXCEPT !.cloud = cloud, !.pc = IF cloud = "aws" THEN "credentials" ELSE "query"]
  /\ UNCHANGED <<batch, saved, fetchFaults>> /\ ReportIs

\* get_credentials: those of an earlier attempt while they last, else assume_role.
GetCredentials ==
  /\ fetch.pc = "credentials"
  /\ fetch' = [fetch EXCEPT !.pc = "page", !.token = IF @ > 0 THEN @ ELSE TokenLife]
  /\ UNCHANGED <<batch, saved, fetchFaults>> /\ ReportIs

\* Batches are written as they fill; one that names a record twice is refused.
Written(b) == IF Len(b) = BatchSize THEN saved \o b ELSE saved
Refused(b) == Len(b) = BatchSize /\ ~IsInjective(b)

\* The next page token, until there is none or MAX_COST_EXPLORER_PAGES are read.
AfterPage(p) ==
  IF p + 1 \in Pages /\ p < MaxPages THEN [fetch EXCEPT !.page = p + 1]
  ELSE [fetch EXCEPT !.pc = "exhausted"]

\* A page is yielded to the consumer, which may have a batch to write.
FetchPage ==
  LET b == Append(batch, fetch.page)
  IN /\ fetch.pc = "page" /\ fetch.token > 0
     /\ IF Refused(b)
        THEN fetch' = [fetch EXCEPT !.pc = "failed"] /\ UNCHANGED <<batch, saved>>
        ELSE /\ saved' = Written(b) /\ batch' = IF Len(b) = BatchSize THEN <<>> ELSE b
             /\ fetch' = [AfterPage(fetch.page) EXCEPT !.token = fetch.token - 1]
     /\ UNCHANGED fetchFaults /\ ReportIs

\* Mutant of Restarted: the next attempt asks for the page after the one that failed.
RestartedAfter(f) == [f EXCEPT !.pc = "credentials", !.attempt = @ + 1, !.page = @ + 1]

\* with_aws_retry: the generator is called again, from its first page.
Restarted(f) == [f EXCEPT !.pc = "credentials", !.attempt = @ + 1, !.page = 1]

\* A timeout or an unreachable endpoint; what was yielded stays with the consumer.
PageTimesOut ==
  /\ fetch.pc = "page" /\ fetchFaults < MaxFetchFaults /\ fetchFaults' = fetchFaults + 1
  /\ fetch' = IF fetch.attempt < FetchAttempts THEN Restarted(fetch) ELSE [fetch EXCEPT !.pc = "failed"]
  /\ UNCHANGED <<batch, saved>> /\ ReportIs

\* Any other refusal, expired credentials among them, is an AdapterError at once.
PageRefused ==
  /\ fetch.pc = "page"
  /\ \/ fetch.token = 0 /\ UNCHANGED fetchFaults
     \/ fetchFaults < MaxFetchFaults /\ fetchFaults' = fetchFaults + 1
  /\ fetch' = [fetch EXCEPT !.pc = "failed"]
  /\ UNCHANGED <<batch, saved>> /\ ReportIs

\* Rows of a list are yielded one by one: full batches are written on the way.
Yielded(rows) ==
  LET full == (Len(rows) \div BatchSize) * BatchSize
  IN /\ saved' = SubSeq(rows, 1, full) /\ batch' = SubSeq(rows, full + 1, Len(rows))
     /\ fetch' = [fetch EXCEPT !.pc = "exhausted"]
     /\ UNCHANGED fetchFaults /\ ReportIs

\* Azure's query.usage: the rows of its first answer; the link to the next is not followed.
QueryAzure == fetch.pc = "query" /\ fetch.cloud = "azure" /\ Yielded(<<1>>)

\* The BigQuery export, read to its end; nothing when none is configured.
QueryBillingExport ==
  /\ fetch.pc = "query" /\ fetch.cloud = "gcp"
  /\ \E rows \in {<<>>, [p \in Pages |-> p]} : Yielded(rows)

\* Either raises AdapterError: the retry decorators of the two modules are applied nowhere.
QueryFails ==
  /\ fetch.pc = "query" /\ fetchFaults < MaxFetchFaults /\ fetchFaults' = fetchFaults + 1
  /\ fetch' = [fetch EXCEPT !.pc = "failed"]
  /\ UNCHANGED <<batch, saved>> /\ ReportIs

\* The last batch, and the commit.
SaveRest ==
  /\ fetch.pc = "exhausted"
  /\ IF IsInjective(batch)
     THEN fetch' = [fetch EXCEPT !.pc = "saved"] /\ saved' = saved \o batch
     ELSE fetch' = [fetch EXCEPT !.pc = "failed"] /\ UNCHANGED saved
  /\ batch' = <<>> /\ UNCHANGED fetchFaults /\ ReportIs

-----------------------------------------------------------------------------
StreamIs == UNCHANGED <<fetch, batch, saved, summary>>

\* setup_cur_automation.
StartSetup ==
  /\ setup.pc = "idle" /\ setup.calls < MaxSetups
  /\ setup' = [pc |-> "bucket", result |-> "none", calls |-> setup.calls + 1]
  /\ UNCHANGED <<report, fetchFaults>> /\ StreamIs

\* head_bucket, and create_bucket when it is not there.
EnsureBucket ==
  /\ setup.pc = "bucket"
  /\ report' = [report EXCEPT !.bucket = TRUE] /\ setup' = [setup EXCEPT !.pc = "policy"]
  /\ UNCHANGED fetchFaults /\ StreamIs

PutBucketPolicy ==
  /\ setup.pc = "policy"
  /\ report' = [report EXCEPT !.policy = TRUE] /\ setup' = [setup EXCEPT !.pc = "define"]
  /\ UNCHANGED fetchFaults /\ StreamIs

\* put_report_definition refuses a name that exists.
PutReportDefinition ==
  /\ setup.pc = "define"
  /\ setup' = [setup EXCEPT !.pc = "idle", !.result = IF report.defined THEN "error" ELSE "success"]
  /\ report' = [report EXCEPT !.defined = TRUE]
  /\ UNCHANGED fetchFaults /\ StreamIs

\* A step raises: what the earlier ones created stays, and the setup ends.
SetupFails ==
  /\ setup.pc # "idle" /\ fetchFaults < MaxFetchFaults /\ fetchFaults' = fetchFaults + 1
  /\ setup' = [setup EXCEPT !.pc = "idle", !.result = "error"]
  /\ UNCHANGED report /\ StreamIs

\* What the rows at some places cost.
Cost(rows, places) == SumFunctionOnSet([i \in places |-> rows[i].cost], places)

\* ingest_latest_parquet: only the newest file, whole; a summary keeps RecordLimit records.
IngestLatest(rows) ==
  /\ report.defined /\ summary.rows = <<>>
  /\ summary' = [rows |-> rows, records |-> SubSeq(rows, 1, Min({Len(rows), RecordLimit}))]
  /\ UNCHANGED <<fetch, batch, saved, report, setup, fetchFaults>>

FetchNext ==
  \/ \E cloud \in {"aws", "azure", "gcp"} : StartFetch(cloud)
  \/ QueryAzure \/ QueryBillingExport \/ QueryFails
  \/ GetCredentials \/ FetchPage \/ PageTimesOut \/ PageRefused \/ SaveRest
  \/ StartSetup \/ EnsureBucket \/ PutBucketPolicy \/ PutReportDefinition \/ SetupFails
  \/ \E rows \in ReportRows : IngestLatest(rows)

FetchSpec == FetchInit /\ [][FetchNext]_fetchVars

-----------------------------------------------------------------------------
\* total_cost and by_service run over every row, kept or not.
TotalCost(s) == Cost(s.rows, DOMAIN s.rows)

Services(s) == {s.rows[i].service : i \in DOMAIN s.rows}
ByService(s) == [x \in Services(s) |-> Cost(s.rows, {i \in DOMAIN s.rows : s.rows[i].service = x})]

\* A report's total is the sum of its services, however many records are dropped
\* (aws_cur.py:284-313).
ReportAddsUp == TotalCost(summary) = SumFunctionOnSet(ByService(summary), Services(summary))

\* An ingestion from Cost Explorer that ends well has stored every page up to the
\* limit: a retry in the middle of the stream loses nothing
\* (aws_multitenant.py:63-68, 259-288).
SavedIsWhole ==
  fetch.pc = "saved" /\ fetch.cloud = "aws" => {p \in Pages : p <= MaxPages} \subseteq ToSet(saved)

\* No report is delivered to a bucket that cannot take it: its policy is set
\* before the report is defined, also when an earlier setup failed (aws_cur.py:52-138).
DefinedCanDeliver == report.defined => report.bucket /\ report.policy

\* What the adapters hand on: a stream that ends well is whole, a report can be
\* delivered, and its summary adds up.
FetchInv == SavedIsWhole /\ DefinedCanDeliver /\ ReportAddsUp
=============================================================================
