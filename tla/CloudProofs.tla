------------------------------ MODULE CloudProofs ------------------------------
(***************************************************************************)
(* What is asked of the clouds and said about them: the rate of the calls, *)
(* the report of a scan, the alerts of a carbon budget, and the            *)
(* connections of the tenants.                                             *)
(***************************************************************************)
EXTENDS Connections, CarbonAlerts, ZombieScan, TokenBucket, FiniteSetTheorems, TLAPS

-----------------------------------------------------------------------------
(***************************************************************************)
(* How much the token bucket lets through, for any rate and any tasks.     *)
(***************************************************************************)

\* What has been granted and what the bucket holds is paid for by its first content, by
\* the time that has passed, and by the time up to the last refill, which a sleep refills
\* again.  A task that sleeps gave up the lock of a bucket that was just refilled, and
\* sleeps until its token is paid for.
Paid ==
  /\ 2 * granted + tokens <= 2 * BucketRate + ticks + lastUpdate
  /\ sleeping # {} => /\ 2 * granted + tokens <= 2 * BucketRate + 2 * lastUpdate
                      /\ wakes = lastUpdate + 2 - tokens

\* The inductive invariant of the bucket.
BucketInv == BucketTypeOK /\ Paid

-----------------------------------------------------------------------------
\* A refill adds the time since the last one, up to the size of the bucket.
LEMMA RefillBounds ==
  ASSUME BucketTypeOK
  PROVE  /\ Refilled \in 0..2 * BucketRate
         /\ Refilled <= tokens + ticks - lastUpdate
  BY BucketRateIsPositive DEF BucketTypeOK, Refilled

\* The bucket starts full, with nothing granted.
LEMMA BucketStarts == BucketInit => BucketInv
  BY BucketRateIsPositive DEF BucketInit, BucketInv, BucketTypeOK, Paid

\* No step grants what is not paid for.
LEMMA BucketStep == BucketInv /\ [BucketNext]_bucketVars => BucketInv'
<1> SUFFICES ASSUME BucketInv, [BucketNext]_bucketVars PROVE BucketInv'
  OBVIOUS
<1> USE BucketRateIsPositive
<1>1. ASSUME NEW a \in Acquirers, Acquire(a) PROVE BucketInv'
  BY <1>1 DEF Acquire, BucketInv, BucketTypeOK, Paid
<1>2. ASSUME NEW a \in Acquirers, Take(a) PROVE BucketInv'
  <2>1. /\ Refilled \in 0..2 * BucketRate
        /\ Refilled <= tokens + ticks - lastUpdate
    BY RefillBounds DEF BucketInv
  <2>2. CASE Refilled >= 2 /\ tokens' = Refilled - 2
    <3>1. /\ granted' = granted + 1 /\ UNCHANGED <<sleeping, wakes, ticks>>
          /\ sleeping = {} /\ lastUpdate' = ticks /\ waiting' = waiting \ {a}
      BY <1>2, <2>1, <2>2 DEF Take
    <3>2. BucketTypeOK'
      BY <2>1, <2>2, <3>1 DEF BucketInv, BucketTypeOK
    <3>3. Paid'
      BY <2>1, <2>2, <3>1 DEF BucketInv, BucketTypeOK, Paid
    <3>4. QED
      BY <3>2, <3>3 DEF BucketInv
  <2>3. CASE Refilled < 2 /\ tokens' = Refilled
    <3>1. /\ sleeping' = {a} /\ wakes' = ticks + 2 - Refilled /\ UNCHANGED <<granted, ticks>>
          /\ lastUpdate' = ticks /\ waiting' = waiting \ {a} /\ sleeping = {}
      BY <1>2, <2>1, <2>3 DEF Take
    <3>2. BucketTypeOK'
      BY <2>1, <2>3, <3>1 DEF BucketInv, BucketTypeOK
    <3>3. Paid'
      BY <2>1, <2>3, <3>1 DEF BucketInv, BucketTypeOK, Paid
    <3>4. QED
      BY <3>2, <3>3 DEF BucketInv
  <2>4. QED
    BY <1>2, <2>2, <2>3 DEF Take
<1>3. CASE WakeUp
  <2>1. BucketTypeOK'
    BY <1>3 DEF WakeUp, BucketInv, BucketTypeOK
  <2>2. Paid'
    BY <1>3 DEF WakeUp, BucketInv, BucketTypeOK, Paid
  <2>3. QED
    BY <2>1, <2>2 DEF BucketInv
<1>4. CASE TickBucket
  BY <1>4 DEF TickBucket, BucketInv, BucketTypeOK, Paid
<1>5. CASE UNCHANGED bucketVars
  BY <1>5 DEF bucketVars, BucketInv, BucketTypeOK, Paid, Refilled
<1>6. QED
  BY <1>1, <1>2, <1>3, <1>4, <1>5 DEF BucketNext

\* The tasks of one bucket never have more tokens than its first content and two in the
\* time of one: the lock that acquire holds while it sleeps does not make it worse, and the
\* time slept is refilled once too often but not twice (rate_limiter.py:44-75).
THEOREM BucketKeepsTwiceTheRate == BucketSpec => [](BucketTypeOK /\ TwiceTheRateIsKept)
<1>1. BucketInv => BucketTypeOK /\ TwiceTheRateIsKept
  BY BucketRateIsPositive DEF BucketInv, BucketTypeOK, Paid, TwiceTheRateIsKept
<1>2. QED
  BY <1>1, BucketStarts, BucketStep, PTL DEF BucketSpec

-----------------------------------------------------------------------------
(***************************************************************************)
(* Scans, for any inventory of resources of the kinds that the plugins     *)
(* know.                                                                   *)
(***************************************************************************)

\* A scan.
ScanRow ==
  [state : {"none", "scanning", "scanned", "done"}, region : ScanRegions \cup {"none", "us-east-1"},
   analyze : BOOLEAN, left : SUBSET ScanConnections, report : SUBSET Inventory, partial : BOOLEAN,
   analysis : {"none", "pending", "already_queued", "error"}]

\* What a scan of a region has to report.
Due(r, region) ==
  /\ r.region = region /\ r.kind \in Reported
  /\ Provider[r.conn] = "aws" /\ AwsFinds(r, r.region, TRUE)

\* A whole scan that nothing went wrong in has what is due of the connections it is
\* through with, and it ends when it is through with all.
Reporting(s) ==
  /\ s \in quiet /\ scans[s].state # "none" /\ ~scans[s].partial =>
       \A r \in Inventory : Due(r, scans[s].region) /\ r.conn \notin scans[s].left => r \in scans[s].report
  /\ scans[s].state \in {"scanned", "done"} => scans[s].left = {}

\* Nothing in use is reported but a volume whose check failed.
Unlisted(s) ==
  \A r \in scans[s].report : Has(r, "busy") => r.kind = "unattached_volumes" /\ r \in unread[s]

\* An analysis that is queued is one that its scan has told of.
Coming(j) ==
  j.by \in Scans /\ scans[j.by].state = "done" /\ ~scans[j.by].partial /\ scans[j.by].analysis = "pending"

ScanShape == scans \in [Scans -> ScanRow] /\ unread \in [Scans -> SUBSET Inventory]

\* The inductive invariant of scans.
ScanInd ==
  /\ ScanShape
  /\ \A s \in Scans : Reporting(s) /\ Unlisted(s)
  /\ \A j \in analysisJobs : Coming(j)
  /\ quiet \subseteq Scans

-----------------------------------------------------------------------------
\* Of what is in use a plugin finds only a volume, and only if it could not read the
\* metrics of it.
LEMMA BusyFound ==
  ASSUME NEW r \in Inventory, Has(r, "busy"), r.kind \in Reported,
         NEW c, NEW region, NEW missed, NEW failed, r \in ScanAll(c, region, missed, failed)
  PROVE  r.kind = "unattached_volumes" /\ r \in failed
<1>1. r.conn \in ScanConnections /\ r.kind \in Metered /\ r.kind \in PluginKinds(Provider[r.conn])
  BY ScanAssumption
<1>2. r.conn = c /\ Provider[c] \in {"aws", "azure", "gcp"}
  BY <1>1, ScanAssumption DEF ScanAll
<1>3. CASE Provider[c] = "aws"
  <2>1. AwsFinds(r, region, r \notin failed)
    BY <1>3 DEF ScanAll
  <2>2. CASE r.kind = "idle_instances"
    BY <2>1, <2>2 DEF AwsFinds, IdleInstance
  <2>3. CASE r.kind = "idle_rds_databases"
    BY <2>1, <2>3 DEF AwsFinds, IdleRds
  <2>4. CASE r.kind = "unattached_volumes"
    BY <2>1, <2>4 DEF AwsFinds, UnattachedVolume
  <2>5. CASE r.kind = "idle_s3_buckets"
    BY <2>1, <2>5 DEF AwsFinds, EmptyBucket
  <2>6. CASE r.kind = "orphan_load_balancers"
    BY <2>6 DEF Reported
  <2>7. CASE r.kind = "underused_nat_gateways"
    BY <2>7 DEF Reported
  <2>8. CASE r.kind = "cold_redshift_clusters"
    BY <2>1, <2>8 DEF AwsFinds, ColdRedshift
  <2>9. CASE r.kind = "idle_sagemaker_endpoints"
    BY <2>1, <2>9 DEF AwsFinds, IdleSageMaker
  <2> QED
    BY <1>1, <2>2, <2>3, <2>4, <2>5, <2>6, <2>7, <2>8, <2>9 DEF Metered
<1>4. CASE Provider[c] = "azure"
  BY <1>1, <1>2, <1>4 DEF PluginKinds, Metered
<1>5. CASE Provider[c] = "gcp"
  <2>1. r.kind = "idle_instances"
    BY <1>1, <1>2, <1>5 DEF PluginKinds, Metered
  <2>2. GcpFinds(r, "global")
    BY <1>5 DEF ScanAll
  <2> QED
    BY <2>1, <2>2 DEF GcpFinds
<1> QED
  BY <1>2, <1>3, <1>4, <1>5

\* What is due is found by a scan in which nothing fails.
LEMMA DueFound ==
  ASSUME NEW r \in Inventory, NEW region, Due(r, region)
  PROVE  r \in ScanAll(r.conn, region, {}, {})
  BY DEF Due, ScanAll

\* At first there are no scans and no analyses.
LEMMA ScanStart == ScanInit => ScanInd
<1> SUFFICES ASSUME ScanInit PROVE ScanInd
  OBVIOUS
<1>1. NewScan \in ScanRow /\ NewScan.state = "none" /\ NewScan.report = {}
  BY DEF NewScan, ScanRow
<1>2. ScanShape /\ \A s \in Scans : scans[s] = NewScan
  BY <1>1 DEF ScanInit, ScanShape
<1> QED
  BY <1>1, <1>2 DEF ScanInit, ScanInd, Reporting, Unlisted

\* A step of scan s, which becomes x.
LEMMA ScanMoves ==
  ASSUME ScanInd, NEW s \in Scans, NEW x \in ScanRow, scans' = [scans EXCEPT ![s] = x], scans[s].state # "done",
         unread' \in [Scans -> SUBSET Inventory], \A t \in Scans : t # s => unread'[t] = unread[t],
         quiet' \subseteq quiet, Reporting(s)', Unlisted(s)',
         \A j \in analysisJobs' : j \in analysisJobs \/ Coming(j)'
  PROVE  ScanInd'
<1>1. scans \in [Scans -> ScanRow] /\ scans' \in [Scans -> ScanRow]
  BY DEF ScanInd, ScanShape
<1>2. \A t \in Scans : t # s => scans'[t] = scans[t]
  BY <1>1
<1>3. ASSUME NEW t \in Scans PROVE Reporting(t)' /\ Unlisted(t)'
  <2>1. CASE t # s
    BY <1>2, <2>1 DEF ScanInd, Reporting, Unlisted
  <2> QED
    BY <2>1
<1>4. ASSUME NEW j \in analysisJobs' PROVE Coming(j)'
  <2>1. CASE j \in analysisJobs
    <3>1. Coming(j) /\ j.by # s
      BY <2>1 DEF ScanInd, Coming
    <3> QED
      BY <1>2, <3>1 DEF Coming
  <2> QED
    BY <1>4, <2>1
<1>5. quiet' \subseteq Scans
  BY DEF ScanInd
<1> QED
  BY <1>1, <1>3, <1>4, <1>5 DEF ScanInd, ScanShape

\* A new scan has reported nothing and is through with no connection.
LEMMA Requesting ==
  ASSUME ScanInd, NEW s \in Scans, NEW region \in ScanRegions, NEW via \in {"api", "job"}, NEW analyze \in BOOLEAN,
         RequestScan(s, region, via, analyze)
  PROVE  ScanInd'
<1>1. PICK x : x = [NewScan EXCEPT !.state = "scanning", !.analyze = analyze,
                                   !.region = ScannedRegion(region, via), !.left = ScanConnections]
  OBVIOUS
<1>2. scans' = [scans EXCEPT ![s] = x] /\ scans[s].state = "none" /\ UNCHANGED <<analysisJobs, unread, quiet>>
  BY <1>1 DEF RequestScan
<1>3. x \in ScanRow /\ x.left = ScanConnections /\ x.report = {} /\ x.state = "scanning"
  BY <1>1 DEF NewScan, ScanRow, ScannedRegion
<1>4. scans'[s] = x
  BY <1>2 DEF ScanInd, ScanShape
<1>5. Reporting(s)'
  BY <1>3, <1>4, ScanAssumption DEF Reporting
<1>6. Unlisted(s)'
  BY <1>3, <1>4 DEF Unlisted
<1>7. unread' \in [Scans -> SUBSET Inventory]
  BY <1>2 DEF ScanInd, ScanShape
<1> QED
  BY <1>2, <1>3, <1>5, <1>6, <1>7, ScanMoves

\* A detector that ends adds what it listed to the report.
LEMMA DetectorEnds == ASSUME ScanInd, NEW s \in Scans, NEW c \in ScanConnections, FinishConnection(s, c) PROVE ScanInd'
<1>1. PICK d \in ScanRow : d = scans[s]
  BY DEF ScanInd, ScanShape
<1>2. PICK missed \in Few(ResourceKinds(c)) \cup {ResourceKinds(c)}, failed \in Few({r \in Inventory : r.conn = c}) :
        /\ s \in quiet \/ (missed = {} /\ failed = {})
        /\ scans' = [scans EXCEPT ![s] = Merged(@, c, {r \in ScanAll(c, scans[s].region, missed, failed) : r.kind \in Reported})]
        /\ unread' = [unread EXCEPT ![s] = @ \cup failed]
        /\ quiet' = IF missed = {} /\ failed = {} THEN quiet ELSE quiet \ {s}
  BY DEF FinishConnection
<1>3. failed \subseteq Inventory
  BY DEF Few
<1>4. PICK listed : listed = {r \in ScanAll(c, d.region, missed, failed) : r.kind \in Reported}
  OBVIOUS
<1>5. PICK x : x = Merged(d, c, listed)
  OBVIOUS
<1>6. scans' = [scans EXCEPT ![s] = x]
  BY <1>1, <1>2, <1>4, <1>5 DEF ScanInd, ScanShape
<1>7. d.state = "scanning" /\ c \in d.left /\ analysisJobs' = analysisJobs
  BY <1>1 DEF FinishConnection
<1>8. listed \subseteq Inventory
  BY <1>4 DEF ScanAll
<1>9. /\ x \in ScanRow /\ x.left = d.left \ {c} /\ x.report = d.report \cup listed
      /\ x.state = (IF d.left = {c} THEN "scanned" ELSE "scanning") /\ x.partial = d.partial /\ x.region = d.region
  BY <1>5, <1>7, <1>8 DEF Merged, ScanRow
<1>10. scans'[s] = x
  BY <1>6 DEF ScanInd, ScanShape
<1>11. unread' \in [Scans -> SUBSET Inventory] /\ unread'[s] = unread[s] \cup failed
  BY <1>2, <1>3 DEF ScanInd, ScanShape
<1>12. quiet' \subseteq quiet
  BY <1>2
<1>13. Unlisted(s)'
  <2> SUFFICES ASSUME NEW r \in x.report, Has(r, "busy") PROVE r.kind = "unattached_volumes" /\ r \in unread'[s]
    BY <1>10 DEF Unlisted, Has
  <2>1. CASE r \in d.report
    BY <1>1, <1>11, <2>1 DEF ScanInd, Unlisted
  <2>2. CASE r \in listed
    <3>1. r \in Inventory /\ r.kind \in Reported /\ r \in ScanAll(c, d.region, missed, failed)
      BY <1>4, <1>8, <2>2
    <3>2. r.kind = "unattached_volumes" /\ r \in failed
      BY <3>1, BusyFound
    <3> QED
      BY <1>11, <3>2
  <2> QED
    BY <1>9, <2>1, <2>2
<1>14. Reporting(s)'
  <2>1. x.state \in {"scanned", "done"} => x.left = {}
    BY <1>9
  <2> SUFFICES ASSUME s \in quiet', ~x.partial, NEW r \in Inventory, Due(r, x.region), r.conn \notin x.left
               PROVE  r \in x.report
    BY <1>10, <2>1 DEF Reporting, Due
  <2>2. missed = {} /\ failed = {} /\ s \in quiet
    BY <1>2
  <2>3. CASE r.conn = c
    <3>1. r \in ScanAll(c, d.region, {}, {})
      BY <1>9, <2>3, DueFound
    <3> QED
      BY <1>4, <1>9, <2>2, <3>1 DEF Due
  <2>4. CASE r.conn # c
    <3>1. Reporting(s)
      BY DEF ScanInd
    <3> QED
      BY <1>1, <1>7, <1>9, <2>2, <2>4, <3>1 DEF Reporting
  <2> QED
    BY <2>3, <2>4
<1>15. scans[s].state # "done" /\ \A t \in Scans : t # s => unread'[t] = unread[t]
  BY <1>1, <1>2, <1>7 DEF ScanInd, ScanShape
<1> QED
  BY <1>6, <1>7, <1>9, <1>11, <1>12, <1>13, <1>14, <1>15, ScanMoves

\* A scan that runs out of time is marked partial.
LEMMA Cutting == ASSUME ScanInd, NEW s \in Scans, ScanTimesOut(s) PROVE ScanInd'
<1>1. PICK d \in ScanRow : d = scans[s]
  BY DEF ScanInd, ScanShape
<1>2. PICK x : x = [d EXCEPT !.state = "scanned", !.partial = TRUE, !.left = {}]
  OBVIOUS
<1>3. scans' = [scans EXCEPT ![s] = x] /\ scans[s].state = "scanning" /\ UNCHANGED <<analysisJobs, unread, quiet>>
  BY <1>1, <1>2 DEF ScanTimesOut, ScanInd, ScanShape, ScanRow
<1>4. x \in ScanRow /\ x.left = {} /\ x.report = d.report /\ x.partial
  BY <1>2 DEF ScanRow
<1>5. scans'[s] = x
  BY <1>3 DEF ScanInd, ScanShape
<1>6. Reporting(s)'
  BY <1>4, <1>5 DEF Reporting
<1>7. Unlisted(s)'
  BY <1>1, <1>3, <1>4, <1>5 DEF ScanInd, Unlisted
<1>8. unread' \in [Scans -> SUBSET Inventory]
  BY <1>3 DEF ScanInd, ScanShape
<1> QED
  BY <1>3, <1>4, <1>6, <1>7, <1>8, ScanMoves

\* An analysis is queued for a scan that is whole.
LEMMA Analysing == ASSUME ScanInd, NEW s \in Scans, QueueAnalysis(s) PROVE ScanInd'
<1>1. PICK d \in ScanRow : d = scans[s]
  BY DEF ScanInd, ScanShape
<1>2. PICK answer \in {"none", "pending", "already_queued", "error"} :
        /\ scans' = [scans EXCEPT ![s].state = "done", ![s].analysis = answer]
        /\ analysisJobs' = IF answer # "pending" THEN analysisJobs
                           ELSE analysisJobs \cup {[hour |-> scanHour, by |-> s]}
        /\ answer = "pending" => Analyzable(scans[s])
  BY DEF QueueAnalysis
<1>3. PICK x : x = [d EXCEPT !.state = "done", !.analysis = answer]
  OBVIOUS
<1>4. scans' = [scans EXCEPT ![s] = x] /\ scans[s].state = "scanned" /\ UNCHANGED <<unread, quiet>>
  BY <1>1, <1>2, <1>3 DEF QueueAnalysis, ScanInd, ScanShape, ScanRow
<1>5. /\ x \in ScanRow /\ x.left = d.left /\ x.report = d.report /\ x.partial = d.partial /\ x.region = d.region
      /\ x.state = "done" /\ x.analysis = answer
  BY <1>3 DEF ScanRow
<1>6. scans'[s] = x
  BY <1>4 DEF ScanInd, ScanShape
<1>7. Reporting(s)'
  BY <1>1, <1>4, <1>5, <1>6 DEF ScanInd, Reporting
<1>8. Unlisted(s)'
  BY <1>1, <1>4, <1>5, <1>6 DEF ScanInd, Unlisted
<1>9. \A j \in analysisJobs' : j \in analysisJobs \/ Coming(j)'
  <2> SUFFICES ASSUME answer = "pending", NEW j, j = [hour |-> scanHour, by |-> s] PROVE Coming(j)'
    BY <1>2
  <2>1. j.by = s /\ ~x.partial
    BY <1>1, <1>2, <1>5 DEF Analyzable
  <2> QED
    BY <1>5, <1>6, <2>1 DEF Coming
<1>10. unread' \in [Scans -> SUBSET Inventory]
  BY <1>4 DEF ScanInd, ScanShape
<1> QED
  BY <1>4, <1>5, <1>7, <1>8, <1>9, <1>10, ScanMoves

\* Whatever fails in whichever detector: a scan tells all that is idle unless something
\* went wrong, nothing that is in use, and of an analysis only where there is one to come.
THEOREM ScansAreTrue == ScanSpec => [](ScanTypeOK /\ ScanInv)
<1>1. ScanInd /\ [ScanNext]_scanVars => ScanInd'
  <2> SUFFICES ASSUME ScanInd, [ScanNext]_scanVars PROVE ScanInd'
    OBVIOUS
  <2>1. CASE \E s \in Scans :
               \/ \E region \in ScanRegions, via \in {"api", "job"}, analyze \in BOOLEAN :
                    RequestScan(s, region, via, analyze)
               \/ \E c \in ScanConnections : FinishConnection(s, c)
               \/ ScanTimesOut(s) \/ QueueAnalysis(s)
    BY <2>1, Requesting, DetectorEnds, Cutting, Analysing
  <2>2. CASE HourPasses \/ UNCHANGED scanVars
    BY <2>2 DEF HourPasses, scanVars, ScanInd, ScanShape, Reporting, Unlisted, Coming
  <2> QED
    BY <2>1, <2>2 DEF ScanNext
<1>2. ScanInd => ScanInv
  <2> SUFFICES ASSUME ScanInd PROVE ScanInv
    OBVIOUS
  <2>1. QuietScanIsComplete
    BY DEF ScanInd, Reporting, Due, QuietScanIsComplete
  <2>2. BusyIsNotListed
    BY DEF ScanInd, Unlisted, BusyIsNotListed
  <2>3. AnalysisIsOfWholeScan
    BY DEF ScanInd, Coming, AnalysisIsOfWholeScan
  <2> QED
    BY <2>1, <2>2, <2>3 DEF ScanInv
<1> DEFINE HourOK == scanHour \in 0..MaxScanHours
<1>3. ScanInit => HourOK
  BY ScanAssumption DEF ScanInit
<1>4. HourOK /\ [ScanNext]_scanVars => HourOK'
  <2> SUFFICES ASSUME HourOK, [ScanNext]_scanVars PROVE HourOK'
    OBVIOUS
  <2>1. scanHour' = scanHour \/ (scanHour < MaxScanHours /\ scanHour' = scanHour + 1)
    BY DEF ScanNext, RequestScan, FinishConnection, ScanTimesOut, QueueAnalysis, HourPasses, scanVars
  <2> QED
    BY <2>1, ScanAssumption
<1>5. ScanInd /\ HourOK => ScanTypeOK
  BY DEF ScanInd, ScanShape, ScanRow, ScanTypeOK
<1> HIDE DEF HourOK
<1> QED
  BY ScanStart, <1>1, <1>2, <1>3, <1>4, <1>5, PTL DEF ScanSpec

-----------------------------------------------------------------------------
(***************************************************************************)
(* Alerts, for any number of requests and of days.                         *)
(***************************************************************************)

\* The row of the settings, and a request that reads the budget.
CarbonRow == [exists : BOOLEAN, budget : Budgets \cup {2}, mail : BOOLEAN, last : Nat]
Reader ==
  [pc : {"idle", "fetching", "slack", "mail", "mark", "done", "error"}, row : CarbonRow,
   status : {"ok", "warning", "exceeded"}, sent : BOOLEAN, day : Nat, marked : BOOLEAN, after : SUBSET Readers]

AlertsShape ==
  /\ alertDay \in Nat /\ carbonRow \in CarbonRow /\ carbonRow.last <= alertDay
  /\ reader \in [Readers -> Reader]

\* Who has marked an alert is done, and the row is dated no earlier.
MarkIsKept(m) == m.marked => m.pc = "done" /\ carbonRow.exists /\ m.day <= carbonRow.last

\* No session holds a row dated in the future; one that began after a mark holds a row
\* that is dated no earlier, and one that alerts has another day.
LaterThan(m, s) ==
  /\ m.row.last <= alertDay
  /\ m.pc = "idle" => m.after = {}
  /\ s \in m.after =>
       /\ reader[s].marked
       /\ m.pc = "fetching" => m.row.exists /\ reader[s].day <= m.row.last
       /\ m.pc \in {"slack", "mail", "mark"} => reader[s].day < m.day

\* The inductive invariant of alerts.
AlertsInd ==
  /\ AlertsShape
  /\ \A s \in Readers : MarkIsKept(reader[s])
  /\ \A r, s \in Readers : LaterThan(reader[r], s)

-----------------------------------------------------------------------------
\* At first no alert has been sent and no request runs.
LEMMA AlertsStart == AlertsInit => AlertsInd
<1> SUFFICES ASSUME AlertsInit PROVE AlertsInd
  OBVIOUS
<1>1. NoCarbonRow \in CarbonRow /\ NoCarbonRow.last = 0
  BY DEF NoCarbonRow, CarbonRow, Never
<1>2. carbonRow \in CarbonRow /\ carbonRow.last = 0
  BY <1>1 DEF AlertsInit, NoCarbonRow, CarbonRow, Never
<1>3. IdleReader \in Reader
  BY <1>1 DEF IdleReader, Reader, Never
<1>4. AlertsShape
  <2>0. alertDay = 1
    BY DEF AlertsInit
  <2>1. alertDay = 1 /\ carbonRow.last <= alertDay
    BY <1>2, <2>0
  <2>2. reader \in [Readers -> Reader]
    BY <1>3 DEF AlertsInit
  <2> QED
    BY <1>2, <2>1, <2>2 DEF AlertsShape
<1>5. \A r \in Readers : reader[r] = IdleReader
  BY DEF AlertsInit
<1>6. MarkIsKept(IdleReader) /\ \A s \in Readers : LaterThan(IdleReader, s)
  BY <1>1, <1>4 DEF MarkIsKept, LaterThan, IdleReader, AlertsShape
<1> QED
  BY <1>4, <1>5, <1>6 DEF AlertsInd

\* A step of one request that sends nothing off: its mark and the row stay.
LEMMA ReaderMoves ==
  ASSUME AlertsInd, NEW r \in Readers, NEW m \in Reader,
         reader' = [reader EXCEPT ![r] = m], ~reader[r].marked, ~m.marked,
         \A s \in Readers : LaterThan(m, s),
         UNCHANGED <<alertDay, carbonRow>>
  PROVE  AlertsInd'
<1>1. AlertsShape'
  BY DEF AlertsInd, AlertsShape
<1>2. ASSUME NEW s \in Readers PROVE reader'[s] = IF s = r THEN m ELSE reader[s]
  BY DEF AlertsInd, AlertsShape
<1>3. ASSUME NEW s \in Readers PROVE MarkIsKept(reader[s])'
  BY <1>2 DEF AlertsInd, MarkIsKept
<1>4. ASSUME NEW q \in Readers, NEW s \in Readers PROVE LaterThan(reader[q], s)'
  <2>1. LaterThan(reader'[q], s)
    BY <1>2 DEF AlertsInd
  <2>2. s \in reader'[q].after => s # r /\ reader'[s] = reader[s]
    BY <2>1, <1>2 DEF LaterThan
  <2> QED
    BY <2>1, <2>2 DEF LaterThan
<1> QED
  BY <1>1, <1>3, <1>4 DEF AlertsInd

\* What holds of a request that has not been marked, and its session's row.
LEMMA ReaderFacts ==
  ASSUME AlertsInd, NEW r \in Readers
  PROVE  /\ reader[r] \in Reader /\ Loaded(r) \in CarbonRow /\ Loaded(r).last <= alertDay
         /\ carbonRow \in CarbonRow /\ alertDay \in Nat
         /\ reader[r].pc # "done" => ~reader[r].marked
         /\ \A s \in Readers : LaterThan(reader[r], s) /\ reader[s].day \in Nat
<1>1. reader[r] \in Reader /\ carbonRow \in CarbonRow /\ carbonRow.last <= alertDay /\ alertDay \in Nat
      /\ MarkIsKept(reader[r])
  BY DEF AlertsInd, AlertsShape
<1>2. reader[r].row.last <= alertDay
  BY DEF AlertsInd, LaterThan
<1>3. Loaded(r) \in CarbonRow
  BY <1>1 DEF Loaded, Reader
<1>4. Loaded(r).last <= alertDay
  BY <1>1, <1>2 DEF Loaded
<1>5. \A s \in Readers : LaterThan(reader[r], s) /\ reader[s].day \in Nat
  BY DEF AlertsInd, AlertsShape, Reader
<1> QED
  BY <1>1, <1>3, <1>4, <1>5 DEF MarkIsKept

\* A request that reads the row holds it as it is, with every mark made so far.
LEMMA Reading ==
  ASSUME AlertsInd, NEW r \in Readers, ReadBudget(r)
  PROVE  AlertsInd'
<1> DEFINE after == {s \in Readers : reader[s].marked}
           m == [reader[r] EXCEPT !.pc = "fetching", !.row = carbonRow, !.after = after]
<1>1. reader[r] \in Reader /\ carbonRow \in CarbonRow /\ carbonRow.last <= alertDay /\ reader[r].pc = "idle"
      /\ ~reader[r].marked
  BY ReaderFacts DEF ReadBudget, AlertsInd, AlertsShape
<1>2. reader' = [reader EXCEPT ![r] = m] /\ UNCHANGED <<alertDay, carbonRow>>
  BY DEF ReadBudget
<1>3. m \in Reader /\ m.pc = "fetching" /\ m.row = carbonRow /\ m.after = after /\ ~m.marked
  BY <1>1 DEF Reader
<1>4. ASSUME NEW s \in Readers PROVE LaterThan(m, s)
  <2>1. MarkIsKept(reader[s])
    BY DEF AlertsInd
  <2> QED
    BY <1>1, <1>3, <2>1 DEF LaterThan, MarkIsKept
<1> HIDE DEF m
<1> QED
  BY <1>1, <1>2, <1>3, <1>4, ReaderMoves

\* The decision: a row that was dated after a mark and is not dated today has a mark of
\* an earlier day.
LEMMA Judging ==
  ASSUME AlertsInd, NEW r \in Readers, JudgeBudget(r)
  PROVE  AlertsInd'
<1> DEFINE row == Loaded(r)
           status == BudgetStatus(row, carbon)
           m == [reader[r] EXCEPT !.row = row, !.status = status, !.day = alertDay,
                   !.pc = IF status = "ok" \/ ~MayAlert(row) THEN "done" ELSE "slack"]
<1>1. reader[r] \in Reader /\ row \in CarbonRow /\ row.last <= alertDay /\ reader[r].pc = "fetching"
      /\ ~reader[r].marked /\ alertDay \in Nat /\ row.last \in Nat
  BY ReaderFacts DEF JudgeBudget, CarbonRow
<1>2. reader' = [reader EXCEPT ![r] = m] /\ UNCHANGED <<alertDay, carbonRow>>
  BY DEF JudgeBudget
<1>3. status \in {"ok", "warning", "exceeded"}
  BY DEF BudgetStatus
<1>4. m \in Reader /\ m.row = row /\ m.day = alertDay /\ m.after = reader[r].after /\ ~m.marked
      /\ m.pc \in {"done", "slack"} /\ (m.pc = "slack" => MayAlert(row))
  <2> HIDE DEF status, row
  <2> QED
    BY <1>1, <1>3 DEF Reader
<1>5. ASSUME NEW s \in Readers PROVE LaterThan(m, s)
  <2>1. LaterThan(reader[r], s) /\ reader[s].day \in Nat
    BY ReaderFacts
  <2>2. s \in m.after => reader[s].marked /\ row.exists /\ reader[s].day <= row.last
    BY <1>1, <1>4, <2>1 DEF LaterThan, Loaded
  <2>3. s \in m.after /\ m.pc = "slack" => row.last # alertDay
    BY <2>2, <1>4 DEF MayAlert
  <2>4. s \in m.after /\ m.pc = "slack" => reader[s].day < alertDay
    <3> HIDE DEF row, m
    <3> QED BY <2>1, <2>2, <2>3, <1>1
  <2> HIDE DEF row, m
  <2> QED
    BY <1>1, <1>4, <2>2, <2>4 DEF LaterThan
<1> HIDE DEF m
<1> QED
  BY <1>1, <1>2, <1>4, <1>5, ReaderMoves

\* An alert that goes out, or fails to, changes what its request knows and no row.
LEMMA Sending ==
  ASSUME AlertsInd, NEW r \in Readers, SendSlack(r) \/ SendMail(r)
  PROVE  AlertsInd'
<1> DEFINE keeps(m) == m \in Reader /\ m.row = reader[r].row /\ m.day = reader[r].day /\ m.after = reader[r].after
                       /\ ~m.marked /\ m.pc \in {"mail", "mark", "done", "error"}
<1>1. reader[r] \in Reader /\ reader[r].pc \in {"slack", "mail"} /\ ~reader[r].marked
  BY ReaderFacts DEF SendSlack, SendMail
<1>2. \E m : reader' = [reader EXCEPT ![r] = m] /\ keeps(m)
  <2>1. CASE SendSlack(r)
    <3> DEFINE sent == HasSlack /\ {reader[r].status, "slack"} \cap muted = {}
               m == [reader[r] EXCEPT !.pc = "mail", !.sent = sent]
    <3>1. reader' = [reader EXCEPT ![r] = m]
      BY <2>1 DEF SendSlack
    <3>2. sent \in BOOLEAN
      OBVIOUS
    <3> HIDE DEF sent
    <3>3. keeps(m)
      BY <1>1, <3>2 DEF Reader
    <3> QED
      BY <3>1, <3>3
  <2>2. CASE SendMail(r)
    <3> DEFINE row == Loaded(r)
               mails == row.exists /\ row.mail
               sent == reader[r].sent \/ (mails /\ HasSmtp /\ reader[r].status \notin muted)
               m == [reader[r] EXCEPT !.sent = sent,
                       !.pc = IF mails /\ ~HasSlack THEN "error" ELSE IF sent THEN "mark" ELSE "done"]
    <3>1. reader' = [reader EXCEPT ![r] = m]
      BY <2>2 DEF SendMail
    <3>2. sent \in BOOLEAN
      OBVIOUS
    <3> HIDE DEF sent, mails
    <3>3. keeps(m)
      BY <1>1, <3>2 DEF Reader
    <3> QED
      BY <3>1, <3>3
  <2> QED
    BY <2>1, <2>2
<1>3. PICK m : reader' = [reader EXCEPT ![r] = m] /\ keeps(m)
  BY <1>2
<1>4. ASSUME NEW s \in Readers PROVE LaterThan(m, s)
  <2>1. LaterThan(reader[r], s)
    BY ReaderFacts
  <2> QED
    BY <1>1, <1>3, <2>1 DEF LaterThan
<1>5. UNCHANGED <<alertDay, carbonRow>>
  BY DEF SendSlack, SendMail
<1> QED
  BY <1>1, <1>3, <1>4, <1>5, ReaderMoves

\* The mark dates the row, where there is one, and the request, which is done.
LEMMA Marking ==
  ASSUME AlertsInd, NEW r \in Readers, MarkSent(r)
  PROVE  AlertsInd'
<1> DEFINE m == [reader[r] EXCEPT !.pc = "done", !.marked = carbonRow.exists, !.day = alertDay]
<1>1. /\ reader[r] \in Reader /\ reader[r].pc = "mark" /\ ~reader[r].marked
      /\ carbonRow \in CarbonRow /\ alertDay \in Nat /\ reader \in [Readers -> Reader]
      /\ carbonRow.last <= alertDay
  BY ReaderFacts DEF MarkSent, AlertsInd, AlertsShape
<1>2. /\ reader' = [reader EXCEPT ![r] = m] /\ alertDay' = alertDay
      /\ carbonRow' = IF carbonRow.exists THEN [carbonRow EXCEPT !.last = alertDay] ELSE carbonRow
  BY DEF MarkSent
<1>3. m \in Reader /\ m.pc = "done" /\ m.day = alertDay /\ m.marked = carbonRow.exists
      /\ m.row = reader[r].row /\ m.after = reader[r].after
  BY <1>1 DEF Reader, CarbonRow
<1>4. /\ carbonRow' \in CarbonRow /\ carbonRow'.exists = carbonRow.exists
      /\ carbonRow.exists => carbonRow'.last = alertDay
      /\ ~carbonRow.exists => carbonRow'.last = carbonRow.last
  BY <1>1, <1>2 DEF CarbonRow
<1> HIDE DEF m
<1>5. ASSUME NEW s \in Readers PROVE reader'[s] = IF s = r THEN m ELSE reader[s]
  BY <1>1, <1>2
<1>6. AlertsShape'
  <2>1. carbonRow'.last <= alertDay'
    BY <1>1, <1>2, <1>4
  <2>2. reader' \in [Readers -> Reader]
    BY <1>1, <1>2, <1>3
  <2> QED
    BY <1>1, <1>2, <1>4, <2>1, <2>2 DEF AlertsShape
<1>7. ASSUME NEW s \in Readers PROVE MarkIsKept(reader[s])'
  <2>1. CASE s = r
    <3>1. reader'[s] = m
      BY <1>5, <2>1
    <3>2. m.marked => m.day <= carbonRow'.last
      BY <1>1, <1>3, <1>4
    <3> QED
      BY <3>1, <3>2, <1>3, <1>4 DEF MarkIsKept
  <2>2. CASE s # r
    <3>1. reader'[s] = reader[s] /\ MarkIsKept(reader[s]) /\ reader[s].day \in Nat
      BY <1>5, <2>2, ReaderFacts DEF AlertsInd
    <3>2. reader[s].marked => reader[s].day <= carbonRow'.last
      BY <3>1, <1>1, <1>4 DEF MarkIsKept, CarbonRow
    <3> QED
      BY <3>1, <3>2, <1>4 DEF MarkIsKept
  <2> QED
    BY <2>1, <2>2
<1>8. ASSUME NEW q \in Readers, NEW s \in Readers PROVE LaterThan(reader[q], s)'
  <2>1. LaterThan(reader[q], s) /\ LaterThan(reader[r], s)
    BY ReaderFacts
  <2>2. LaterThan(m, s)
    BY <2>1, <1>1, <1>3 DEF LaterThan
  <2>3. LaterThan(reader'[q], s)
    BY <2>1, <2>2, <1>5
  <2>4. s \in reader'[q].after => s # r /\ reader'[s] = reader[s]
    BY <2>3, <1>1, <1>5 DEF LaterThan
  <2> QED
    BY <2>3, <2>4, <1>2 DEF LaterThan
<1> QED
  BY <1>6, <1>7, <1>8 DEF AlertsInd

\* What others do meanwhile: days pass, and a saved row keeps its date.
LEMMA AlertsElsewhere ==
  ASSUME AlertsInd, UNCHANGED carbonVars \/ SaveCarbon \/ SavePreferences \/ UseCarbon \/ NextAlertDay
  PROVE  AlertsInd'
<1>0. alertDay \in Nat /\ carbonRow \in CarbonRow /\ carbonRow.last <= alertDay /\ carbonRow.last \in Nat
      /\ reader \in [Readers -> Reader]
  BY DEF AlertsInd, AlertsShape, CarbonRow
<1>1. reader' = reader
  BY DEF carbonVars, SaveCarbon, SavePreferences, UseCarbon, NextAlertDay
<1>2. alertDay' \in Nat /\ alertDay <= alertDay'
  <2>1. alertDay' = alertDay \/ alertDay' = alertDay + 1
    BY DEF carbonVars, SaveCarbon, SavePreferences, UseCarbon, NextAlertDay
  <2> QED
    BY <2>1, <1>0
<1>3. carbonRow' \in CarbonRow /\ carbonRow'.last = carbonRow.last /\ (carbonRow.exists => carbonRow'.exists)
  BY <1>0 DEF carbonVars, SaveCarbon, SavePreferences, UseCarbon, NextAlertDay, CarbonRow
<1>4. AlertsShape'
  <2>1. carbonRow'.last <= alertDay'
    BY <1>0, <1>2, <1>3
  <2> QED
    BY <1>0, <1>1, <1>2, <1>3, <2>1 DEF AlertsShape
<1>5. ASSUME NEW s \in Readers PROVE MarkIsKept(reader[s])'
  BY <1>1, <1>3 DEF AlertsInd, MarkIsKept
<1>6. ASSUME NEW q \in Readers, NEW s \in Readers PROVE LaterThan(reader[q], s)'
  <2>1. LaterThan(reader[q], s) /\ reader[q].row.last \in Nat
    BY <1>0 DEF AlertsInd, Reader, CarbonRow
  <2>2. reader[q].row.last <= alertDay'
    <3>1. reader[q].row.last <= alertDay
      BY <2>1 DEF LaterThan
    <3> QED BY <3>1, <2>1, <1>0, <1>2
  <2> QED
    BY <2>1, <2>2, <1>1 DEF LaterThan
<1> QED
  BY <1>4, <1>5, <1>6 DEF AlertsInd

\* A request that began after another had marked its alert does not alert on that day,
\* whoever saves settings or reads the budget meanwhile.
THEOREM AlertsAreOneADay == AlertsSpec => [](AlertsTypeOK /\ OneAlertADay)
<1>1. AlertsInd /\ [AlertsNext]_carbonVars => AlertsInd'
  <2> SUFFICES ASSUME AlertsInd, [AlertsNext]_carbonVars PROVE AlertsInd'
    OBVIOUS
  <2>1. ASSUME NEW r \in Readers,
               ReadBudget(r) \/ JudgeBudget(r) \/ SendSlack(r) \/ SendMail(r) \/ MarkSent(r)
        PROVE  AlertsInd'
    BY <2>1, Reading, Judging, Sending, Marking
  <2> QED
    BY <2>1, AlertsElsewhere DEF AlertsNext
<1>2. AlertsInd => OneAlertADay
  <2> SUFFICES ASSUME AlertsInd, NEW r \in Readers, NEW s \in Readers, s \in reader[r].after,
                      reader[r].pc \in {"slack", "mail", "mark"}
               PROVE  reader[r].day # reader[s].day
    BY DEF OneAlertADay
  <2>1. reader[s].day < reader[r].day /\ reader[s].day \in Nat /\ reader[r].day \in Nat
    BY ReaderFacts DEF LaterThan
  <2> QED
    BY <2>1
<1> DEFINE Outside == alertDay \in 1..MaxAlertDays /\ carbon \in 0..MaxCarbon /\ muted \subseteq Switches
<1>3. AlertsInit => Outside
  <2> SUFFICES ASSUME AlertsInit PROVE Outside
    OBVIOUS
  <2>1. alertDay = 1 /\ carbon = 0 /\ muted = {}
    BY DEF AlertsInit
  <2> QED
    BY <2>1, AlertsAssumption
<1>4. Outside /\ [AlertsNext]_carbonVars => Outside'
  <2> SUFFICES ASSUME Outside, [AlertsNext]_carbonVars PROVE Outside'
    OBVIOUS
  <2>1. /\ alertDay' = alertDay \/ (alertDay < MaxAlertDays /\ alertDay' = alertDay + 1)
        /\ carbon' = carbon \/ (carbon < MaxCarbon /\ carbon' = carbon + 1)
        /\ muted' = muted \/ muted' \subseteq Switches
    BY DEF AlertsNext, ReadBudget, JudgeBudget, SendSlack, SendMail, MarkSent, SaveCarbon, SavePreferences, UseCarbon,
       NextAlertDay, carbonVars
  <2> QED
    BY <2>1, AlertsAssumption
<1>5. AlertsInd /\ Outside => AlertsTypeOK
  <2> SUFFICES ASSUME AlertsInd, Outside PROVE AlertsTypeOK
    OBVIOUS
  <2>1. PICK d \in Nat : d = carbonRow.last
    BY DEF AlertsInd, AlertsShape, CarbonRow
  <2>2. d \in 0..MaxAlertDays
    BY <2>1, AlertsAssumption DEF AlertsInd, AlertsShape
  <2>3. carbonRow \in [exists : BOOLEAN, budget : Budgets \cup {2}, mail : BOOLEAN, last : 0..MaxAlertDays]
    BY <2>1, <2>2 DEF AlertsInd, AlertsShape, CarbonRow
  <2>4. \A r \in Readers : reader[r].pc \in {"idle", "fetching", "slack", "mail", "mark", "done", "error"}
    BY DEF AlertsInd, AlertsShape, Reader
  <2> QED
    BY <2>3, <2>4 DEF AlertsTypeOK
<1> HIDE DEF Outside
<1> QED
  BY <1>1, <1>2, <1>3, <1>4, <1>5, AlertsStart, PTL DEF AlertsSpec

-----------------------------------------------------------------------------
(***************************************************************************)
(* What the tables of tenants and connections can be relied on for, for    *)
(* any number of users, accounts and concurrent requests.                  *)
(***************************************************************************)

\* A connection, a discovered account, and a request with what it has read.
Statuses == {"none", "pending", "active", "error", "deleted"}
Connection == [status : Statuses, owner : Users \cup {""}, account : CloudAccounts \cup {""}, mgmt : BOOLEAN]
Discovered == [by : ConnIds, account : CloudAccounts, visit : Visits, linked : BOOLEAN]
Visit ==
  [pc : {"waiting", "onboard", "connect", "verify", "verified", "delete", "sync", "listed", "link"},
   owner : Users \cup {""}, account : CloudAccounts \cup {""}, mgmt : BOOLEAN, conn : ConnIds \cup {0},
   seen : Statuses \cup {""}, news : SUBSET CloudAccounts, row : SUBSET Discovered]

ConnShape ==
  /\ tenants \in [Users -> {0, 1}] /\ growth \in [Users -> BOOLEAN]
  /\ conn \in [ConnIds -> Connection]
  /\ found \subseteq Discovered
  /\ visit \in [Visits -> Visit]

\* The connection exists, or has existed.
Was(i) == i \in ConnIds /\ conn[i].status # "none"
WasConnected(u, a) == \E i \in ConnIds : Was(i) /\ conn[i].owner = u /\ conn[i].account = a

\* What a request has read and still relies on when it writes.
StillHolds(d) ==
  /\ d.pc = "onboard" => d.owner \in Users
  /\ d.pc = "connect" => d.owner \in Users /\ d.account \in CloudAccounts
  /\ d.pc \in {"verify", "verified"} => Was(d.conn) /\ conn[d.conn].account = d.account
  /\ d.pc = "verified" /\ d.account \notin wavered => d.mgmt = (d.account \in trust)
  /\ d.pc \in {"delete", "sync", "listed"} => Was(d.conn)
  /\ d.pc = "sync" => d.account \in CloudAccounts
  /\ d.pc = "link" =>
       /\ d.owner \in Users /\ d.account \in CloudAccounts
       /\ \E q \in Discovered : d.row = {q}
       /\ \A q \in d.row : Was(q.by) /\ conn[q.by].owner = d.owner /\ q.account = d.account
       /\ d.mgmt => WasConnected(d.owner, d.account)

\* A connection belongs to a user and to an account.
Owned == \A i \in ConnIds : Was(i) => conn[i].owner \in Users /\ conn[i].account \in CloudAccounts

\* The inductive invariant of the registry.
ConnInd ==
  /\ ConnShape /\ Owned
  /\ \A v \in Visits : StillHolds(visit[v])
  /\ OneConnectionPerAccount /\ LinkedWasConnected /\ GoneIsGone /\ StatusIsTrue

-----------------------------------------------------------------------------
\* No step takes a connection's owner or account away, and what has not wavered is
\* trusted or not as before.
Kept ==
  \A i \in ConnIds : Was(i) =>
    /\ conn'[i].status # "none"
    /\ conn'[i].owner = conn[i].owner /\ conn'[i].account = conn[i].account
TrustKept == wavered \subseteq wavered' /\ \A a : a \notin wavered' => ((a \in trust) = (a \in trust'))

\* What a request relies on survives every step of the others.
LEMMA HoldsOn ==
  ASSUME NEW d \in Visit, StillHolds(d), Kept, TrustKept
  PROVE  StillHolds(d)'
<1>1. ASSUME NEW i, Was(i) PROVE Was(i)' /\ conn'[i].owner = conn[i].owner /\ conn'[i].account = conn[i].account
  BY <1>1 DEF Kept, Was
<1>2. ASSUME NEW u, NEW a, WasConnected(u, a) PROVE WasConnected(u, a)'
  BY <1>1, <1>2 DEF WasConnected, Was
<1>3. d.pc = "verified" /\ d.account \notin wavered' => d.mgmt = (d.account \in trust')
  BY DEF StillHolds, TrustKept
<1>4. (d.pc \in {"verify", "verified"} => Was(d.conn) /\ conn[d.conn].account = d.account)'
  BY <1>1 DEF StillHolds
<1>5. (d.pc \in {"delete", "sync", "listed"} => Was(d.conn))'
  BY <1>1 DEF StillHolds
<1>6. d.pc = "link" =>
        /\ d.owner \in Users /\ d.account \in CloudAccounts
        /\ \E q \in Discovered : d.row = {q}
        /\ \A q \in d.row : Was(q.by)' /\ conn'[q.by].owner = d.owner /\ q.account = d.account
        /\ d.mgmt => WasConnected(d.owner, d.account)'
  BY <1>1, <1>2 DEF StillHolds
<1> QED
  BY <1>3, <1>4, <1>5, <1>6 DEF StillHolds

\* When what the others rely on stays, a request may go on to a state that holds.
LEMMA RequestsHold ==
  ASSUME ConnInd, NEW v \in Visits, NEW d \in Visit, visit' = [visit EXCEPT ![v] = d],
         StillHolds(d)', Kept, TrustKept
  PROVE  visit' \in [Visits -> Visit] /\ \A w \in Visits : StillHolds(visit[w])'
<1>1. visit \in [Visits -> Visit]
  BY DEF ConnInd, ConnShape
<1>2. visit' \in [Visits -> Visit]
  BY <1>1
<1>3. ASSUME NEW w \in Visits PROVE StillHolds(visit[w])'
  <2>1. CASE w = v
    <3>1. visit'[w] = d
      BY <1>1, <2>1
    <3> QED
      BY <3>1 DEF StillHolds
  <2>2. CASE w # v
    <3> DEFINE e == visit[w]
    <3>1. visit'[w] = e /\ e \in Visit /\ StillHolds(e)
      BY <1>1, <2>2 DEF ConnInd
    <3>2. \A x \in Visit : StillHolds(x) => StillHolds(x)'
      BY HoldsOn
    <3> QED
      BY <3>1, <3>2 DEF StillHolds
  <2> QED
    BY <2>1, <2>2
<1> QED
  BY <1>2, <1>3

\* A request that is not under way relies on nothing.
LEMMA NothingHeld == NoVisit \in Visit /\ StillHolds(NoVisit)'
  BY DEF NoVisit, Visit, StillHolds, Statuses

\* At first there are no tenants and no connections.
LEMMA ConnStart == ConnInit => ConnInd
<1> SUFFICES ASSUME ConnInit PROVE ConnInd
  OBVIOUS
<1>1. NoConn \in Connection /\ NoConn.status = "none"
  BY DEF NoConn, Connection, Statuses
<1>2. NoVisit \in Visit /\ StillHolds(NoVisit)
  BY DEF NoVisit, Visit, StillHolds, Statuses
<1>3. ConnShape
  BY <1>1, <1>2 DEF ConnInit, ConnShape
<1>4. \A i \in ConnIds : conn[i].status = "none"
  BY <1>1 DEF ConnInit
<1>5. \A v \in Visits : StillHolds(visit[v])
  BY <1>2 DEF ConnInit
<1>6. found = {}
  BY DEF ConnInit
<1> QED
  BY <1>3, <1>4, <1>5, <1>6 DEF ConnInd, Owned, Was, OneConnectionPerAccount, LinkedWasConnected, GoneIsGone,
    StatusIsTrue, Alive

\* A step that reads, or that asks the provider, leaves the tables as they are.
LEMMA RequestReads ==
  ASSUME ConnInd, NEW v \in Visits, NEW d \in Visit, visit' = [visit EXCEPT ![v] = d], StillHolds(d)',
         UNCHANGED <<tenants, growth, conn, found, trust>>, wavered \subseteq wavered'
  PROVE  ConnInd'
<1>1. Kept /\ TrustKept
  BY DEF Kept, TrustKept, Was
<1>2. visit' \in [Visits -> Visit] /\ \A w \in Visits : StillHolds(visit[w])'
  BY <1>1, RequestsHold
<1>3. ConnShape'
  BY <1>2 DEF ConnInd, ConnShape
<1>4. Owned' /\ OneConnectionPerAccount' /\ LinkedWasConnected' /\ GoneIsGone'
  BY DEF ConnInd, Owned, Was, OneConnectionPerAccount, LinkedWasConnected, GoneIsGone, Alive
<1>5. StatusIsTrue'
  BY DEF ConnInd, StatusIsTrue, Alive
<1> QED
  BY <1>2, <1>3, <1>4, <1>5 DEF ConnInd

\* What the invariant says of one request.
LEMMA VisitFacts ==
  ASSUME ConnInd, NEW v \in Visits
  PROVE  visit[v] \in Visit /\ StillHolds(visit[v]) /\ NoVisit \in Visit /\ conn \in [ConnIds -> Connection]
         /\ found \subseteq Discovered /\ visit \in [Visits -> Visit]
  BY NothingHeld DEF ConnInd, ConnShape

\* The creation of a tenant and of a connection read who and what they are about.
LEMMA OnboardingReads ==
  ASSUME ConnInd, NEW v \in Visits, NEW u \in Users, OnboardRead(v, u)
  PROVE  ConnInd'
<1> DEFINE d == [NoVisit EXCEPT !.pc = "onboard", !.owner = u]
<1>1. d \in Visit /\ StillHolds(d)'
  BY DEF NoVisit, Visit, StillHolds, Statuses
<1>2. visit' = [visit EXCEPT ![v] = d] /\ UNCHANGED <<tenants, growth, conn, found, trust, wavered>>
  BY DEF OnboardRead, Goes
<1> HIDE DEF d
<1> QED
  BY <1>1, <1>2, RequestReads

\* A request to create a connection has checked its tenant and the account.
LEMMA CreationReads ==
  ASSUME ConnInd, NEW v \in Visits, NEW u \in Users, NEW a \in CloudAccounts, NEW m \in BOOLEAN,
         ConnectRead(v, u, a, m)
  PROVE  ConnInd'
<1> DEFINE d == [NoVisit EXCEPT !.pc = "connect", !.owner = u, !.account = a, !.mgmt = m]
<1>1. d \in Visit /\ StillHolds(d)'
  BY DEF NoVisit, Visit, StillHolds, Statuses
<1>2. visit' = [visit EXCEPT ![v] = d] /\ UNCHANGED <<tenants, growth, conn, found, trust, wavered>>
  BY DEF ConnectRead, Goes, Elsewhere
<1> HIDE DEF d
<1> QED
  BY <1>1, <1>2, RequestReads

\* Verification, deletion and sync read a connection that is there.
LEMMA ConnectionsRead ==
  ASSUME ConnInd, NEW v \in Visits, NEW i \in Alive, VerifyRead(v, i) \/ DeleteRead(v, i) \/ SyncRead(v, i)
  PROVE  ConnInd'
<1>1. i \in ConnIds /\ Was(i) /\ conn[i] \in Connection /\ conn[i].account \in CloudAccounts
  BY VisitFacts DEF Alive, Was, ConnInd, Owned
<1>2. UNCHANGED <<tenants, growth, conn, found, trust, wavered>>
  BY DEF VerifyRead, DeleteRead, SyncRead, Elsewhere
<1>3. Was(i)'
  BY <1>1, <1>2 DEF Was
<1>4. PICK a \in CloudAccounts, s \in Statuses : a = conn[i].account /\ s = conn[i].status
  BY <1>1 DEF Connection
<1> DEFINE about == [NoVisit EXCEPT !.conn = i, !.account = a]
           verify == [about EXCEPT !.pc = "verify", !.seen = s]
           delete == [NoVisit EXCEPT !.pc = "delete", !.conn = i]
           sync == [about EXCEPT !.pc = "sync"]
<1>5. verify \in Visit /\ verify.pc = "verify" /\ verify.conn = i /\ verify.account = a
  BY <1>1 DEF NoVisit, Visit
<1>6. delete \in Visit /\ delete.pc = "delete" /\ delete.conn = i
  BY <1>1, VisitFacts DEF NoVisit, Visit
<1>7. sync \in Visit /\ sync.pc = "sync" /\ sync.conn = i /\ sync.account = a
  BY <1>1, VisitFacts DEF NoVisit, Visit
<1>8. \/ visit' = [visit EXCEPT ![v] = verify]
      \/ visit' = [visit EXCEPT ![v] = delete]
      \/ visit' = [visit EXCEPT ![v] = sync]
  <2>1. CASE VerifyRead(v, i)
    BY <1>4, <2>1 DEF VerifyRead, Goes
  <2>2. CASE DeleteRead(v, i)
    BY <1>4, <2>2 DEF DeleteRead, Goes
  <2>3. CASE SyncRead(v, i)
    BY <1>4, <2>3 DEF SyncRead, Goes
  <2> QED
    BY <2>1, <2>2, <2>3
<1> HIDE DEF verify, delete, sync
<1>9. StillHolds(verify)' /\ StillHolds(delete)' /\ StillHolds(sync)'
  <2>1. conn'[i].account = a
    BY <1>2, <1>4
  <2> QED
    BY <1>3, <1>5, <1>6, <1>7, <2>1 DEF StillHolds
<1> QED
  BY <1>2, <1>5, <1>6, <1>7, <1>8, <1>9, RequestReads

\* The provider answers for the account as it is then; that it fails is remembered.
LEMMA ProviderAnswers ==
  ASSUME ConnInd, NEW v \in Visits, VerifyAsk(v)
  PROVE  ConnInd'
<1>1. visit[v] \in Visit /\ StillHolds(visit[v]) /\ visit[v].pc = "verify"
  BY VisitFacts DEF VerifyAsk
<1>a. PICK a : a = visit[v].account
  OBVIOUS
<1>2. PICK d \in Visit, i \in ConnIds \cup {0} : d = visit[v] /\ a = d.account /\ i = d.conn
  BY <1>1, <1>a DEF Visit
<1>3. Was(i) /\ conn[i].account = a /\ d.pc = "verify" /\ UNCHANGED <<tenants, growth, conn, found, trust>>
  BY <1>1, <1>2 DEF StillHolds, VerifyAsk
<1>4. PICK m \in BOOLEAN :
        /\ visit' = [visit EXCEPT ![v] = [d EXCEPT !.pc = "verified", !.mgmt = m]]
        /\ wavered \subseteq wavered' /\ (a \notin wavered' => m = (a \in trust'))
  <2>1. CASE Goes(v, [visit[v] EXCEPT !.pc = "verified", !.mgmt = a \in trust]) /\ UNCHANGED wavered
    <3>1. (a \in trust) \in BOOLEAN
      OBVIOUS
    <3> QED
      BY <1>2, <1>3, <2>1, <3>1 DEF Goes
  <2>2. CASE Goes(v, [visit[v] EXCEPT !.pc = "verified", !.mgmt = FALSE]) /\ wavered' = wavered \cup {a}
    BY <1>2, <2>2 DEF Goes
  <2> QED
    BY <1>2, <2>1, <2>2 DEF VerifyAsk
<1> DEFINE e == [d EXCEPT !.pc = "verified", !.mgmt = m]
<1>5. e \in Visit /\ e.pc = "verified" /\ e.conn = i /\ e.account = a /\ e.mgmt = m
  BY <1>2 DEF Visit
<1> HIDE DEF e
<1>6. StillHolds(e)'
  <2>1. Was(i)' /\ conn'[i].account = a
    BY <1>3 DEF Was
  <2> QED
    BY <1>4, <1>5, <2>1 DEF StillHolds
<1>7. visit' = [visit EXCEPT ![v] = e]
  BY <1>4 DEF e
<1> QED
  BY <1>3, <1>4, <1>5, <1>6, <1>7, RequestReads

\* The list of an organization, and the accounts nobody has discovered.
LEMMA OrganizationAnswers ==
  ASSUME ConnInd, NEW v \in Visits, SyncList(v)
  PROVE  ConnInd'
<1>1. visit[v] \in Visit /\ StillHolds(visit[v]) /\ visit[v].pc = "sync"
  BY VisitFacts DEF SyncList
<1>2. PICK d \in Visit, i \in ConnIds \cup {0} : d = visit[v] /\ i = d.conn
  BY <1>1 DEF Visit
<1>3. Was(i) /\ d.account \in CloudAccounts /\ UNCHANGED <<tenants, growth, conn, found, trust, wavered>>
  BY <1>1, <1>2 DEF StillHolds, SyncList, Elsewhere
<1>4. CASE EndVisit(v)
  BY <1>3, <1>4, NothingHeld, RequestReads DEF EndVisit
<1>5. CASE ~EndVisit(v)
  <2> DEFINE org == OrgMembers[visit[v].account] \ {visit[v].account}
             rows(a) == {r \in found : r.account = a}
             news == {a \in org : rows(a) = {}}
  <2>1. Goes(v, [visit[v] EXCEPT !.pc = "listed", !.news = news])
    BY <1>5 DEF SyncList
  <2>2. PICK n \in SUBSET CloudAccounts : n = news
    BY <1>2, <1>3, ConnAssumption
  <2> DEFINE e == [d EXCEPT !.pc = "listed", !.news = n]
  <2>3. e \in Visit /\ e.pc = "listed" /\ e.conn = i
    BY <1>2, <2>2 DEF Visit
  <2>4. visit' = [visit EXCEPT ![v] = e]
    BY <1>2, <2>1, <2>2 DEF Goes
  <2> HIDE DEF e
  <2>5. StillHolds(e)'
    <3>1. Was(i)'
      BY <1>3 DEF Was
    <3> QED
      BY <2>3, <3>1 DEF StillHolds
  <2> QED
    BY <1>3, <2>3, <2>4, <2>5, RequestReads
<1> QED
  BY <1>4, <1>5

\* A link reads the discovered account, whose connection is there.
LEMMA LinksRead ==
  ASSUME ConnInd, NEW v \in Visits, NEW r \in found, LinkRead(v, r)
  PROVE  ConnInd'
<1>1. r \in Discovered /\ r.by \in Alive /\ Was(r.by) /\ conn[r.by].owner \in Users
  BY VisitFacts DEF ConnInd, GoneIsGone, Alive, Was, Owned
<1>2. UNCHANGED <<tenants, growth, conn, found, trust, wavered>>
  BY DEF LinkRead, Elsewhere
<1>3. PICK q \in Discovered, u \in Users, a \in CloudAccounts, m \in BOOLEAN :
        q = r /\ u = conn[r.by].owner /\ a = r.account /\ m = (Connected(u, a) # {})
  <2>1. (Connected(conn[r.by].owner, r.account) # {}) \in BOOLEAN
    OBVIOUS
  <2> QED
    BY <1>1, <2>1 DEF Discovered
<1> DEFINE d == [NoVisit EXCEPT !.pc = "link", !.owner = u, !.account = a, !.row = {q}, !.mgmt = m]
<1>4. d \in Visit /\ d.pc = "link" /\ d.owner = u /\ d.account = a /\ d.row = {q} /\ d.mgmt = m
  BY VisitFacts DEF NoVisit, Visit
<1>5. visit' = [visit EXCEPT ![v] = d]
  BY <1>3 DEF LinkRead, LinkOf, Goes, NoVisit
<1> HIDE DEF d
<1>6. Was(q.by)' /\ conn'[q.by].owner = u /\ q.account = a
  BY <1>1, <1>2, <1>3 DEF Was
<1>7. m => WasConnected(u, a)'
  <2> SUFFICES ASSUME m PROVE WasConnected(u, a)'
    OBVIOUS
  <2>1. PICK i \in Alive : conn[i].owner = u /\ conn[i].account = a
    BY <1>3 DEF Connected
  <2> QED
    BY <2>1, <1>2 DEF WasConnected, Was, Alive
<1>8. StillHolds(d)'
  BY <1>4, <1>6, <1>7 DEF StillHolds
<1> QED
  BY <1>2, <1>4, <1>5, <1>8, RequestReads

\* The second of two onboardings finds the user and creates no tenant.
LEMMA TenantSaved ==
  ASSUME ConnInd, NEW v \in Visits, OnboardSave(v)
  PROVE  ConnInd'
<1>1. visit[v].owner \in Users
  BY VisitFacts DEF OnboardSave, StillHolds
<1>2. EndVisit(v) /\ UNCHANGED <<conn, found, trust, wavered>>
  BY DEF OnboardSave
<1>3. tenants' \in [Users -> {0, 1}] /\ growth' \in [Users -> BOOLEAN]
  BY <1>1 DEF OnboardSave, ConnInd, ConnShape
<1>4. Kept /\ TrustKept
  BY <1>2 DEF Kept, TrustKept, Was
<1>5. visit' \in [Visits -> Visit] /\ \A w \in Visits : StillHolds(visit[w])'
  BY <1>2, <1>4, NothingHeld, RequestsHold DEF EndVisit
<1>6. ConnShape'
  BY <1>2, <1>3, <1>5 DEF ConnInd, ConnShape
<1> QED
  BY <1>2, <1>5, <1>6 DEF ConnInd, Owned, Was, OneConnectionPerAccount, LinkedWasConnected, GoneIsGone,
    StatusIsTrue, Alive

\* A request that writes ends; it is enough that the tables stay true.
LEMMA RequestWrites ==
  ASSUME ConnInd, NEW v \in Visits, EndVisit(v), UNCHANGED <<tenants, growth, trust, wavered>>,
         conn' \in [ConnIds -> Connection], found' \subseteq Discovered, Kept,
         Owned', OneConnectionPerAccount', LinkedWasConnected', GoneIsGone', StatusIsTrue'
  PROVE  ConnInd'
<1>1. TrustKept
  BY DEF TrustKept
<1>2. visit' \in [Visits -> Visit] /\ \A w \in Visits : StillHolds(visit[w])'
  BY <1>1, NothingHeld, RequestsHold DEF EndVisit
<1>3. ConnShape'
  BY <1>2 DEF ConnInd, ConnShape
<1> QED
  BY <1>2, <1>3 DEF ConnInd

\* An insertion that the unique key lets through takes an id that no connection has had.
LEMMA Insertion ==
  ASSUME ConnInd, NEW u \in Users, NEW a \in CloudAccounts, NEW m \in BOOLEAN, Insertable(u, a),
         conn' = Inserted(u, a, m), UNCHANGED <<trust, wavered>>
  PROVE  /\ conn' \in [ConnIds -> Connection] /\ Kept /\ Alive \subseteq Alive'
         /\ Owned' /\ OneConnectionPerAccount' /\ StatusIsTrue' /\ WasConnected(u, a)'
<1> DEFINE i == CHOOSE k \in Fresh : TRUE
           row == [status |-> "pending", owner |-> u, account |-> a, mgmt |-> m]
<1>1. i \in Fresh
  BY DEF Insertable
<1> HIDE DEF i
<1>2. i \in ConnIds /\ conn[i].status = "none" /\ conn \in [ConnIds -> Connection]
  BY <1>1 DEF Fresh, ConnInd, ConnShape
<1>3. conn' = [conn EXCEPT ![i] = row]
  BY DEF Inserted, i
<1>4. row \in Connection /\ row.status = "pending" /\ row.owner = u /\ row.account = a
  BY DEF Connection, Statuses
<1> HIDE DEF row
<1>5. conn' \in [ConnIds -> Connection] /\ conn'[i] = row /\ \A k \in ConnIds : k # i => conn'[k] = conn[k]
  BY <1>2, <1>3, <1>4
<1>6. Alive' = Alive \cup {i} /\ i \notin Alive
  BY <1>2, <1>4, <1>5 DEF Alive
<1>7. Kept
  BY <1>2, <1>5 DEF Kept, Was
<1>8. Owned'
  BY <1>4, <1>5 DEF ConnInd, Owned, Was
<1>9. OneConnectionPerAccount'
  <2>1. \A k \in Alive : <<conn[k].owner, conn[k].account>> # <<u, a>>
    BY DEF Insertable, Connected
  <2>2. \A k \in Alive : conn'[k] = conn[k]
    BY <1>5, <1>6 DEF Alive
  <2>3. \A k \in Alive : <<conn'[k].owner, conn'[k].account>> # <<conn'[i].owner, conn'[i].account>>
    BY <2>1, <2>2, <1>4, <1>5
  <2> QED
    BY <2>2, <2>3, <1>6 DEF ConnInd, OneConnectionPerAccount
<1>10. StatusIsTrue'
  BY <1>4, <1>5, <1>6 DEF ConnInd, StatusIsTrue, Alive
<1>11. WasConnected(u, a)'
  BY <1>2, <1>4, <1>5 DEF WasConnected, Was
<1> QED
  BY <1>5, <1>6, <1>7, <1>8, <1>9, <1>10, <1>11

\* What was linked stays so while connections are only added or ended.
LEMMA LinksLast ==
  ASSUME ConnInd, Kept, NEW r \in Discovered, Was(r.by),
         WasConnected(conn[r.by].owner, r.account)
  PROVE  \E i \in ConnIds : conn'[i].status # "none" /\ conn'[i].owner = conn'[r.by].owner /\ conn'[i].account = r.account
  BY DEF Kept, WasConnected, Was

\* A new connection: the check for another of its account is repeated by the insert.
LEMMA ConnectionSaved ==
  ASSUME ConnInd, NEW v \in Visits, ConnectSave(v)
  PROVE  ConnInd'
<1>1. visit[v].owner \in Users /\ visit[v].account \in CloudAccounts /\ visit[v].mgmt \in BOOLEAN
  BY VisitFacts DEF ConnectSave, StillHolds, Visit
<1>2. EndVisit(v) /\ UNCHANGED <<tenants, growth, trust, wavered, found>>
  BY DEF ConnectSave, Elsewhere
<1>3. CASE Insertable(visit[v].owner, visit[v].account)
  <2>1. conn' = Inserted(visit[v].owner, visit[v].account, visit[v].mgmt)
    BY <1>3 DEF ConnectSave
  <2>2. PICK u \in Users, a \in CloudAccounts, m \in BOOLEAN :
          u = visit[v].owner /\ a = visit[v].account /\ m = visit[v].mgmt
    BY <1>1
  <2>3. /\ conn' \in [ConnIds -> Connection] /\ Kept /\ Alive \subseteq Alive'
        /\ Owned' /\ OneConnectionPerAccount' /\ StatusIsTrue'
    BY <1>2, <1>3, <2>1, <2>2, Insertion
  <2>4. found \subseteq Discovered /\ \A r \in found : r.by \in Alive
    BY VisitFacts DEF ConnInd, GoneIsGone
  <2>5. GoneIsGone'
    BY <2>3, <2>4, <1>2 DEF GoneIsGone
  <2>6. LinkedWasConnected'
    <3> SUFFICES ASSUME NEW r \in found, r.linked
                 PROVE  \E i \in ConnIds : conn'[i].status # "none" /\ conn'[i].owner = conn'[r.by].owner
                                           /\ conn'[i].account = r.account
      BY <1>2 DEF LinkedWasConnected
    <3>1. r \in Discovered /\ Was(r.by) /\ WasConnected(conn[r.by].owner, r.account)
      BY <2>4 DEF Alive, Was, WasConnected, ConnInd, LinkedWasConnected
    <3> QED
      BY <2>3, <3>1, LinksLast
  <2> QED
    BY <1>2, <2>3, <2>4, <2>5, <2>6, RequestWrites
<1>4. CASE ~Insertable(visit[v].owner, visit[v].account)
  <2>1. conn' = conn
    BY <1>4 DEF ConnectSave
  <2> QED
    BY <1>2, <2>1, NothingHeld, RequestReads DEF EndVisit
<1> QED
  BY <1>3, <1>4

\* A verification writes what the provider said to a connection that is still there.
LEMMA VerdictSaved ==
  ASSUME ConnInd, NEW v \in Visits, VerifySave(v)
  PROVE  ConnInd'
<1> DEFINE i == visit[v].conn
           s == Verdict(CloudOf[visit[v].account], visit[v].mgmt, visit[v].seen)
<1>1. /\ Was(i) /\ conn[i].account = visit[v].account /\ visit[v].mgmt \in BOOLEAN
      /\ visit[v].account \notin wavered => visit[v].mgmt = (visit[v].account \in trust)
      /\ conn \in [ConnIds -> Connection]
  BY VisitFacts DEF VerifySave, StillHolds, Visit
<1>2. EndVisit(v) /\ UNCHANGED <<tenants, growth, trust, wavered, found>>
  BY DEF VerifySave, Elsewhere
<1>3. CASE ~(s # visit[v].seen /\ i \in Alive)
  <2>1. conn' = conn
    BY <1>3 DEF VerifySave
  <2> QED
    BY <1>2, <2>1, NothingHeld, RequestReads DEF EndVisit
<1>4. CASE s # visit[v].seen /\ i \in Alive
  <2>1. conn' = [conn EXCEPT ![i].status = s]
    BY <1>4 DEF VerifySave
  <2>2. (s = "active" /\ visit[v].mgmt) \/ (s = "error" /\ ~visit[v].mgmt)
    BY <1>4 DEF Verdict
  <2> HIDE DEF s, i
  <2>3. /\ conn' \in [ConnIds -> Connection]
        /\ i \in ConnIds /\ conn'[i].status = s /\ conn'[i].owner = conn[i].owner /\ conn'[i].account = conn[i].account
        /\ \A k \in ConnIds : k # i => conn'[k] = conn[k]
    BY <1>1, <2>1, <2>2 DEF Connection, Statuses, Was
  <2>4. Alive' = Alive /\ Kept /\ Owned' /\ \A k \in ConnIds : conn'[k].owner = conn[k].owner
                                                              /\ conn'[k].account = conn[k].account
    BY <1>1, <1>4, <2>2, <2>3 DEF Alive, Kept, Was, ConnInd, Owned
  <2>5. OneConnectionPerAccount' /\ GoneIsGone'
    BY <1>2, <2>4 DEF Alive, ConnInd, OneConnectionPerAccount, GoneIsGone
  <2>6. LinkedWasConnected'
    <3>1. \A r \in found : r.by \in ConnIds
      BY VisitFacts DEF Discovered
    <3> QED
      BY <3>1, <1>2, <2>4 DEF ConnInd, LinkedWasConnected, Kept, Was
  <2>7. StatusIsTrue'
    <3>1. ASSUME NEW k \in Alive, conn[k].account \notin wavered
          PROVE  /\ conn'[k].status = "active" => conn[k].account \in trust
                 /\ conn'[k].status = "error" => conn[k].account \notin trust
      <4>1. CASE k = i
        BY <1>1, <2>2, <2>3, <3>1, <4>1 DEF i
      <4>2. CASE k # i
        BY <2>3, <3>1, <4>2 DEF ConnInd, StatusIsTrue, Alive
      <4> QED
        BY <4>1, <4>2
    <3> QED
      BY <3>1, <1>2, <2>4 DEF StatusIsTrue, Alive
  <2>8. found' \subseteq Discovered
    BY <1>2, VisitFacts
  <2> QED
    BY <1>2, <2>3, <2>4, <2>5, <2>6, <2>7, <2>8, RequestWrites
<1> QED
  BY <1>3, <1>4

\* The rows that a connection had discovered go with it.
LEMMA ConnectionDeleted ==
  ASSUME ConnInd, NEW v \in Visits, DeleteSave(v)
  PROVE  ConnInd'
<1> DEFINE i == visit[v].conn
<1>1. Was(i) /\ conn \in [ConnIds -> Connection] /\ found \subseteq Discovered
  BY VisitFacts DEF DeleteSave, StillHolds
<1>2. EndVisit(v) /\ UNCHANGED <<tenants, growth, trust, wavered>>
      /\ conn' = [conn EXCEPT ![i].status = "deleted"] /\ found' = {r \in found : r.by # i}
  BY DEF DeleteSave, Elsewhere
<1> HIDE DEF i
<1>3. /\ conn' \in [ConnIds -> Connection]
      /\ i \in ConnIds /\ conn'[i].status = "deleted" /\ conn'[i].owner = conn[i].owner /\ conn'[i].account = conn[i].account
      /\ \A k \in ConnIds : k # i => conn'[k] = conn[k]
  BY <1>1, <1>2 DEF Connection, Statuses, Was
<1>4. Alive' = Alive \ {i} /\ Kept /\ Owned'
  BY <1>1, <1>3 DEF Alive, Kept, Was, ConnInd, Owned
<1>5. OneConnectionPerAccount' /\ GoneIsGone' /\ StatusIsTrue'
  BY <1>2, <1>3, <1>4 DEF Alive, ConnInd, OneConnectionPerAccount, GoneIsGone, StatusIsTrue
<1>6. LinkedWasConnected'
  <2> SUFFICES ASSUME NEW r \in found, r.linked
               PROVE  \E k \in ConnIds : conn'[k].status # "none" /\ conn'[k].owner = conn'[r.by].owner
                                         /\ conn'[k].account = r.account
    BY <1>2 DEF LinkedWasConnected
  <2>1. r \in Discovered /\ Was(r.by) /\ WasConnected(conn[r.by].owner, r.account)
    BY <1>1 DEF Alive, Was, WasConnected, ConnInd, LinkedWasConnected, GoneIsGone
  <2> QED
    BY <1>4, <2>1, LinksLast
<1> QED
  BY <1>1, <1>2, <1>3, <1>4, <1>5, <1>6, RequestWrites

\* What a sync has found is stored only while its connection is there, and is not linked.
LEMMA OrganizationSaved ==
  ASSUME ConnInd, NEW v \in Visits, SyncSave(v)
  PROVE  ConnInd'
<1> DEFINE i == visit[v].conn
           rows == {[by |-> i, account |-> a, visit |-> v, linked |-> FALSE] : a \in visit[v].news}
<1>1. visit[v].news \subseteq CloudAccounts /\ found \subseteq Discovered /\ conn \in [ConnIds -> Connection]
  BY VisitFacts DEF Visit
<1>2. EndVisit(v) /\ UNCHANGED <<tenants, growth, trust, wavered, conn>>
      /\ found' = IF i \in Alive THEN found \cup rows ELSE found
  BY DEF SyncSave, Elsewhere
<1>3. i \in Alive => rows \subseteq Discovered
  <2>1. \A a \in visit[v].news : i \in ConnIds => [by |-> i, account |-> a, visit |-> v, linked |-> FALSE] \in Discovered
    BY <1>1 DEF Discovered
  <2> QED
    BY <2>1 DEF Alive
<1>4. \A r \in rows : r.by = i /\ r.linked = FALSE
  OBVIOUS
<1> HIDE DEF rows, i
<1>5. Kept /\ Owned' /\ OneConnectionPerAccount' /\ StatusIsTrue'
  BY <1>2 DEF Kept, Was, ConnInd, Owned, OneConnectionPerAccount, StatusIsTrue, Alive
<1>6. GoneIsGone' /\ LinkedWasConnected' /\ found' \subseteq Discovered
  BY <1>1, <1>2, <1>3, <1>4 DEF ConnInd, GoneIsGone, LinkedWasConnected, Alive
<1> QED
  BY <1>1, <1>2, <1>5, <1>6, RequestWrites

\* A link marks the row it has read, if it is still there, and connects the account
\* unless it was connected already.
LEMMA LinkSaved ==
  ASSUME ConnInd, NEW v \in Visits, LinkSave(v)
  PROVE  ConnInd'
<1> DEFINE there == \E r \in found, q \in visit[v].row : <<r.by, r.visit, r.account>> = <<q.by, q.visit, q.account>>
           goes == there /\ (visit[v].mgmt \/ Insertable(visit[v].owner, visit[v].account))
<1>1. PICK u \in Users, a \in CloudAccounts, m \in BOOLEAN, q \in Discovered :
        u = visit[v].owner /\ a = visit[v].account /\ m = visit[v].mgmt /\ {q} = visit[v].row
  <2>1. visit[v].pc = "link" /\ StillHolds(visit[v])
    BY VisitFacts DEF LinkSave
  <2>2. visit[v].mgmt \in BOOLEAN
    BY VisitFacts DEF Visit
  <2>3. /\ visit[v].owner \in Users /\ visit[v].account \in CloudAccounts
        /\ \E q \in Discovered : visit[v].row = {q}
    BY <2>1 DEF StillHolds
  <2> QED
    BY <2>2, <2>3
<1>2. /\ Was(q.by) /\ conn[q.by].owner = u /\ q.account = a
      /\ m => WasConnected(u, a)
      /\ conn \in [ConnIds -> Connection] /\ found \subseteq Discovered
  BY <1>1, VisitFacts DEF LinkSave, StillHolds
<1>3. /\ EndVisit(v) /\ UNCHANGED <<tenants, growth, trust, wavered>>
      /\ found' = IF goes THEN Linked({q}) ELSE found
      /\ conn' = IF goes /\ ~m THEN Inserted(u, a, FALSE) ELSE conn
  BY <1>1 DEF LinkSave, Elsewhere
<1>4. CASE ~goes
  <2>1. found' = found /\ conn' = conn
    BY <1>3, <1>4
  <2> HIDE DEF goes
  <2> QED
    BY <1>3, <2>1, NothingHeld, RequestReads DEF EndVisit
<1>5. CASE goes
  <2>1. /\ conn' \in [ConnIds -> Connection] /\ Kept /\ Alive \subseteq Alive'
        /\ Owned' /\ OneConnectionPerAccount' /\ StatusIsTrue' /\ WasConnected(u, a)'
    <3>1. CASE m
      <4>1. conn' = conn
        BY <1>3, <3>1
      <4> QED
        BY <1>2, <1>3, <4>1, <3>1 DEF Kept, Was, ConnInd, Owned, OneConnectionPerAccount, StatusIsTrue, Alive, WasConnected
    <3>2. CASE ~m
      <4>1. conn' = Inserted(u, a, FALSE) /\ Insertable(u, a)
        BY <1>1, <1>3, <1>5, <3>2
      <4> QED
        BY <1>3, <4>1, Insertion
    <3> QED
      BY <3>1, <3>2
  <2>2. found' = Linked({q})
    BY <1>3, <1>5
  <2>3. q.by \in Alive
    <3>1. PICK r \in found : r.by = q.by
      BY <1>1, <1>5
    <3> QED
      BY <3>1 DEF ConnInd, GoneIsGone
  <2> DEFINE mark == [q EXCEPT !.linked = TRUE]
  <2>4. mark \in Discovered /\ mark.by = q.by /\ mark.account = a
    BY <1>2 DEF Discovered
  <2>5. \A r \in found' : r \in found \/ r = mark
    BY <2>2 DEF Linked
  <2> HIDE DEF mark, goes
  <2>6. found' \subseteq Discovered /\ GoneIsGone'
    BY <1>2, <2>1, <2>3, <2>4, <2>5 DEF ConnInd, GoneIsGone
  <2>7. LinkedWasConnected'
    <3> SUFFICES ASSUME NEW r \in found', r.linked
                 PROVE  \E i \in ConnIds : conn'[i].status # "none" /\ conn'[i].owner = conn'[r.by].owner
                                           /\ conn'[i].account = r.account
      BY DEF LinkedWasConnected
    <3>1. CASE r \in found
      <4>1. r \in Discovered /\ Was(r.by) /\ WasConnected(conn[r.by].owner, r.account)
        BY <1>2, <3>1 DEF Alive, Was, WasConnected, ConnInd, LinkedWasConnected, GoneIsGone
      <4>2. \E i \in ConnIds : conn'[i].status # "none" /\ conn'[i].owner = conn[r.by].owner
                              /\ conn'[i].account = r.account
        BY <2>1, <4>1 DEF Kept, WasConnected, Was
      <4>3. conn'[r.by].owner = conn[r.by].owner
        BY <2>1, <4>1 DEF Kept, Was
      <4> QED
        BY <4>2, <4>3
    <3>2. CASE r = mark
      <4>1. conn'[q.by].owner = u
        BY <1>2, <2>1 DEF Kept, Was
      <4> QED
        BY <2>1, <2>4, <3>2, <4>1 DEF WasConnected, Was
    <3> QED
      BY <2>5, <3>1, <3>2
  <2> QED
    BY <1>3, <2>1, <2>6, <2>7, RequestWrites
<1> QED
  BY <1>4, <1>5

\* Changes of plan, of trust and the clock of the world take nothing away.
LEMMA WorldChanges ==
  ASSUME ConnInd, UNCHANGED connVars \/ (\E u \in Users : ChangePlan(u)) \/ (\E a \in Wavering : ChangeTrust(a))
  PROVE  ConnInd'
<1>1. UNCHANGED <<tenants, conn, found, visit>>
  BY DEF connVars, ChangePlan, ChangeTrust
<1>2. growth' \in [Users -> BOOLEAN]
  BY DEF connVars, ChangePlan, ChangeTrust, ConnInd, ConnShape
<1>3. TrustKept
  BY DEF TrustKept, connVars, ChangePlan, ChangeTrust
<1>4. Kept
  BY <1>1 DEF Kept, Was
<1>5. ConnShape'
  BY <1>1, <1>2 DEF ConnInd, ConnShape
<1>6. ASSUME NEW w \in Visits PROVE StillHolds(visit[w])'
  <2>1. visit[w] \in Visit /\ StillHolds(visit[w])
    BY VisitFacts
  <2>2. \A x \in Visit : StillHolds(x) => StillHolds(x)'
    BY <1>3, <1>4, HoldsOn
  <2> QED
    BY <1>1, <2>1, <2>2 DEF StillHolds
<1>7. Owned' /\ OneConnectionPerAccount' /\ LinkedWasConnected' /\ GoneIsGone'
  BY <1>1 DEF ConnInd, Owned, Was, OneConnectionPerAccount, LinkedWasConnected, GoneIsGone, Alive
<1>8. StatusIsTrue'
  BY <1>1, <1>3 DEF ConnInd, StatusIsTrue, Alive, TrustKept
<1> QED
  BY <1>5, <1>6, <1>7, <1>8 DEF ConnInd

\* The steps of a request after its first.
LEMMA RequestSteps ==
  ASSUME ConnInd, NEW v \in Visits,
         \/ OnboardSave(v) \/ ConnectSave(v) \/ VerifyAsk(v) \/ VerifySave(v) \/ DeleteSave(v)
         \/ SyncList(v) \/ SyncSave(v) \/ LinkSave(v)
  PROVE  ConnInd'
  BY TenantSaved, ConnectionSaved, ProviderAnswers, VerdictSaved, ConnectionDeleted, OrganizationAnswers,
     OrganizationSaved, LinkSaved

\* What is discovered, or is being discovered, is so through a management account.
Managed ==
  /\ \A v \in Visits : visit[v].pc \in {"sync", "listed"} => conn[visit[v].conn].mgmt
  /\ \A r \in found : conn[r.by].mgmt

\* The steps of the registry, whichever provider they are about.
LEMMA ConnSteps ==
  ASSUME [ConnNext]_connVars
  PROVE  \/ UNCHANGED connVars
         \/ \E v \in Visits :
              \/ \E u \in Users, a \in CloudAccounts, m \in BOOLEAN : ConnectRead(v, u, a, m)
              \/ \E u \in Users : OnboardRead(v, u)
              \/ \E i \in Alive : VerifyRead(v, i) \/ DeleteRead(v, i) \/ SyncRead(v, i)
              \/ \E r \in found : LinkRead(v, r)
              \/ OnboardSave(v) \/ ConnectSave(v) \/ VerifyAsk(v) \/ VerifySave(v) \/ DeleteSave(v)
              \/ SyncList(v) \/ SyncSave(v) \/ LinkSave(v)
         \/ \E u \in Users : ChangePlan(u)
         \/ \E a \in Wavering : ChangeTrust(a)
<1>1. ASSUME NEW v \in Visits, NEW u \in Users, NEW a \in CloudAccounts,
             (\E m \in BOOLEAN : ConnectAws(v, u, a, m)) \/ ConnectAzure(v, u, a) \/ ConnectGcp(v, u, a)
      PROVE  \E m \in BOOLEAN : ConnectRead(v, u, a, m)
  BY <1>1 DEF ConnectAws, ConnectAzure, ConnectGcp
<1>2. ASSUME NEW v \in Visits, NEW i \in Alive,
             \/ VerifyAws(v, i) \/ VerifyAzure(v, i) \/ VerifyGcp(v, i)
             \/ DeleteAws(v, i) \/ DeleteAzure(v, i) \/ DeleteGcp(v, i)
      PROVE  VerifyRead(v, i) \/ DeleteRead(v, i)
  BY <1>2 DEF VerifyAws, VerifyAzure, VerifyGcp, DeleteAws, DeleteAzure, DeleteGcp
<1> QED
  BY <1>1, <1>2 DEF ConnNext

\* No step makes a management account of another connection.
LEMMA ManagementKept ==
  ASSUME ConnInd, [ConnNext]_connVars, NEW i \in ConnIds, Was(i)
  PROVE  conn'[i].mgmt = conn[i].mgmt
<1>1. conn \in [ConnIds -> Connection]
  BY DEF ConnInd, ConnShape
<1>2. ASSUME NEW u, NEW a, NEW m, Insertable(u, a), conn' = Inserted(u, a, m) PROVE conn'[i] = conn[i]
  <2>1. PICK k \in Fresh : conn' = [conn EXCEPT ![k] = [status |-> "pending", owner |-> u, account |-> a, mgmt |-> m]]
    BY <1>2 DEF Insertable, Inserted
  <2>2. k # i
    BY DEF Fresh, Was
  <2> QED
    BY <1>1, <2>1, <2>2
<1>3. ASSUME NEW k, NEW s, conn' = [conn EXCEPT ![k].status = s] PROVE conn'[i].mgmt = conn[i].mgmt
  <2>1. conn[i] \in Connection
    BY <1>1
  <2>2. conn'[i] = conn[i] \/ conn'[i] = [conn[i] EXCEPT !.status = s]
    BY <1>1, <1>3
  <2> QED
    BY <2>1, <2>2 DEF Connection
<1>4. CASE conn' = conn
  BY <1>4
<1>5. ASSUME NEW v \in Visits, ConnectSave(v) \/ VerifySave(v) \/ DeleteSave(v) \/ LinkSave(v)
      PROVE  conn'[i].mgmt = conn[i].mgmt
  BY <1>2, <1>3, <1>4, <1>5 DEF ConnectSave, VerifySave, DeleteSave, LinkSave
<1>6. CASE ~\E v \in Visits : ConnectSave(v) \/ VerifySave(v) \/ DeleteSave(v) \/ LinkSave(v)
  <2>1. conn' = conn
    BY <1>6, ConnSteps DEF connVars, OnboardRead, OnboardSave, ConnectRead, VerifyRead, VerifyAsk, DeleteRead,
       SyncRead, SyncList, SyncSave, LinkRead, ChangePlan, ChangeTrust
  <2> QED
    BY <1>4, <2>1
<1> QED
  BY <1>5, <1>6

\* What a request is about to discover, it asked a management account for.
LEMMA AskedManagement ==
  ASSUME ConnInd, Managed, [ConnNext]_connVars, NEW w \in Visits, visit'[w].pc \in {"sync", "listed"}
  PROVE  visit'[w].conn \in ConnIds /\ Was(visit'[w].conn) /\ conn[visit'[w].conn].mgmt
<1>1. visit \in [Visits -> Visit] /\ visit[w] \in Visit /\ StillHolds(visit[w])
  BY DEF ConnInd, ConnShape
<1>2. CASE visit'[w] = visit[w]
  BY <1>1, <1>2 DEF Managed, StillHolds, Was
<1>3. ASSUME NEW v \in Visits, EndVisit(v) PROVE v = w => visit'[w].pc = "waiting"
  BY <1>1, <1>3 DEF EndVisit, NoVisit
<1>4. ASSUME NEW i \in Alive, SyncRead(w, i) PROVE visit'[w].conn = i /\ Was(i) /\ conn[i].mgmt
  BY <1>1, <1>4 DEF SyncRead, Goes, NoVisit, Was, Alive
<1>5. ASSUME SyncList(w), ~EndVisit(w) PROVE visit'[w].conn = visit[w].conn /\ visit[w].pc = "sync"
  <2>1. PICK d \in Visit : d = visit[w]
    BY <1>1
  <2>2. PICK news : visit' = [visit EXCEPT ![w] = [d EXCEPT !.pc = "listed", !.news = news]]
    BY <1>5, <2>1 DEF SyncList, Goes
  <2> QED
    BY <1>1, <1>5, <2>1, <2>2 DEF SyncList, Visit
<1>6. ASSUME NEW v \in Visits, NEW d, Goes(v, d), d.pc \notin {"sync", "listed"}
      PROVE  visit'[w] = visit[w]
  BY <1>1, <1>6 DEF Goes
<1>7. ASSUME NEW v \in Visits,
             \/ OnboardSave(v) \/ ConnectSave(v) \/ VerifySave(v) \/ DeleteSave(v) \/ SyncSave(v) \/ LinkSave(v)
      PROVE  visit'[w] = visit[w]
  <2>1. EndVisit(v)
    BY <1>7 DEF OnboardSave, ConnectSave, VerifySave, DeleteSave, SyncSave, LinkSave
  <2> QED
    BY <1>1, <1>3, <2>1 DEF EndVisit
<1>8. ASSUME NEW v \in Visits, VerifyAsk(v) PROVE visit'[w] = visit[w]
  <2>1. PICK d \in Visit, m \in BOOLEAN : Goes(v, [d EXCEPT !.pc = "verified", !.mgmt = m])
    <3>1. (visit[v].account \in trust) \in BOOLEAN
      OBVIOUS
    <3> QED
      BY <1>1, <1>8, <3>1 DEF VerifyAsk
  <2>2. [d EXCEPT !.pc = "verified", !.mgmt = m].pc = "verified"
    BY <2>1 DEF Visit
  <2> QED
    BY <1>6, <2>1, <2>2
<1>9. ASSUME NEW v \in Visits, NEW i \in Alive, VerifyRead(v, i) \/ DeleteRead(v, i) PROVE visit'[w] = visit[w]
  <2> DEFINE x == [NoVisit EXCEPT !.pc = "verify", !.conn = i, !.account = conn[i].account, !.seen = conn[i].status]
             y == [NoVisit EXCEPT !.pc = "delete", !.conn = i]
  <2>1. x.pc = "verify" /\ y.pc = "delete"
    BY DEF NoVisit
  <2>2. Goes(v, x) \/ Goes(v, y)
    BY <1>9 DEF VerifyRead, DeleteRead
  <2> QED
    BY <1>6, <2>1, <2>2
<1>10. ASSUME NEW v \in Visits, NEW u \in Users,
             OnboardRead(v, u) \/ \E a \in CloudAccounts, m \in BOOLEAN : ConnectRead(v, u, a, m)
       PROVE  visit'[w] = visit[w]
  <2> DEFINE x == [NoVisit EXCEPT !.pc = "onboard", !.owner = u]
             y(a, m) == [NoVisit EXCEPT !.pc = "connect", !.owner = u, !.account = a, !.mgmt = m]
  <2>1. x.pc = "onboard" /\ \A a, m : y(a, m).pc = "connect"
    BY DEF NoVisit
  <2>2. Goes(v, x) \/ \E a, m : Goes(v, y(a, m))
    BY <1>10 DEF OnboardRead, ConnectRead
  <2> QED
    BY <1>6, <2>1, <2>2
<1>11. ASSUME NEW v \in Visits, NEW r \in found, LinkRead(v, r) PROVE visit'[w] = visit[w]
  <2>1. LinkOf(r).pc = "link" /\ Goes(v, LinkOf(r))
    BY <1>11 DEF LinkRead, LinkOf, NoVisit
  <2> QED
    BY <1>6, <2>1
<1>12. ASSUME NEW v \in Visits, v # w,
             SyncList(v) \/ \E i \in Alive : SyncRead(v, i)
       PROVE  visit'[w] = visit[w]
  BY <1>1, <1>12 DEF SyncList, SyncRead, Goes, EndVisit
<1>13. CASE UNCHANGED visit
  BY <1>2, <1>13
<1>14. CASE SyncList(w)
  BY <1>1, <1>3, <1>5, <1>14 DEF Managed, StillHolds, Was
<1>15. ASSUME NEW i \in Alive, SyncRead(w, i)
       PROVE  visit'[w].conn \in ConnIds /\ Was(visit'[w].conn) /\ conn[visit'[w].conn].mgmt
  BY <1>4, <1>15 DEF Alive
<1> QED
  BY <1>2, <1>7, <1>8, <1>9, <1>10, <1>11, <1>12, <1>13, <1>14, <1>15, ConnSteps DEF connVars, ChangePlan, ChangeTrust

\* A discovered account hangs on the connection it hung on before, or was just listed.
LEMMA FoundThrough ==
  ASSUME ConnInd, Managed, [ConnNext]_connVars, NEW r \in found'
  PROVE  r.by \in ConnIds /\ Was(r.by) /\ conn[r.by].mgmt
<1>1. \A q \in found : q \in Discovered /\ q.by \in ConnIds /\ Was(q.by) /\ conn[q.by].mgmt
  BY DEF ConnInd, ConnShape, Managed, GoneIsGone, Alive, Was
<1>2. CASE r \in found
  BY <1>1, <1>2
<1>3. ASSUME NEW v \in Visits, SyncSave(v), r \notin found
      PROVE  r.by \in ConnIds /\ Was(r.by) /\ conn[r.by].mgmt
  <2>1. r.by = visit[v].conn
    BY <1>3 DEF SyncSave
  <2>2. StillHolds(visit[v]) /\ visit[v].pc = "listed"
    BY <1>3 DEF SyncSave, ConnInd
  <2> QED
    BY <2>1, <2>2 DEF StillHolds, Was, Managed
<1>4. ASSUME NEW v \in Visits, LinkSave(v), r \notin found
      PROVE  r.by \in ConnIds /\ Was(r.by) /\ conn[r.by].mgmt
  <2>1. visit[v] \in Visit /\ StillHolds(visit[v]) /\ visit[v].pc = "link"
    BY <1>4 DEF LinkSave, ConnInd, ConnShape
  <2>2. PICK q \in Discovered : visit[v].row = {q}
    BY <2>1 DEF StillHolds
  <2>3. r = [q EXCEPT !.linked = TRUE] /\ \E p \in found : p.by = q.by
    BY <1>4, <2>2 DEF LinkSave, Linked
  <2>4. r.by = q.by
    BY <2>3 DEF Discovered
  <2> QED
    BY <1>1, <2>3, <2>4
<1>5. CASE ~\E v \in Visits : SyncSave(v) \/ LinkSave(v)
  <2>1. found' \subseteq found
    BY <1>5, ConnSteps DEF connVars, OnboardRead, OnboardSave, ConnectRead, ConnectSave, VerifyRead, VerifyAsk,
       VerifySave, DeleteRead, DeleteSave, SyncRead, SyncList, LinkRead, ChangePlan, ChangeTrust
  <2> QED
    BY <1>2, <2>1
<1> QED
  BY <1>2, <1>3, <1>4, <1>5

\* Trust is in accounts, and changes are counted up to their bound.
Trusting == {trust, wavered} \subseteq SUBSET CloudAccounts /\ changes \in 0..MaxChanges

\* No step makes it otherwise.
LEMMA TrustChanges == ASSUME ConnInd, Trusting, [ConnNext]_connVars PROVE Trusting'
<1> DEFINE Same == UNCHANGED <<trust, wavered, changes>>
<1>1. ASSUME NEW v \in Visits,
             \/ \E u \in Users, a \in CloudAccounts, m \in BOOLEAN : ConnectRead(v, u, a, m)
             \/ \E u \in Users : OnboardRead(v, u)
             \/ \E i \in Alive : VerifyRead(v, i) \/ DeleteRead(v, i) \/ SyncRead(v, i)
             \/ \E r \in found : LinkRead(v, r)
             \/ OnboardSave(v) \/ ConnectSave(v) \/ VerifySave(v) \/ DeleteSave(v)
             \/ SyncList(v) \/ SyncSave(v) \/ LinkSave(v)
      PROVE  Same
  BY <1>1 DEF ConnectRead, OnboardRead, VerifyRead, DeleteRead, SyncRead, LinkRead, OnboardSave, ConnectSave,
     VerifySave, DeleteSave, SyncList, SyncSave, LinkSave, Elsewhere
<1>2. /\ changes' = changes \/ (changes < MaxChanges /\ changes' = changes + 1)
      /\ \/ UNCHANGED <<trust, wavered>>
         \/ \E a \in Wavering : wavered' = wavered \cup {a} /\ trust' \subseteq trust \cup {a}
  <2>1. CASE Same
    BY <2>1
  <2>2. ASSUME NEW v \in Visits, VerifyAsk(v)
        PROVE  \/ UNCHANGED <<trust, wavered, changes>>
               \/ /\ changes < MaxChanges /\ changes' = changes + 1 /\ trust' = trust
                  /\ \E a \in Wavering : wavered' = wavered \cup {a}
    BY <2>2 DEF VerifyAsk
  <2>3. CASE (\E u \in Users : ChangePlan(u)) \/ UNCHANGED connVars
    BY <2>3 DEF ChangePlan, connVars
  <2>4. CASE \E a \in Wavering : ChangeTrust(a)
    BY <2>4 DEF ChangeTrust
  <2> HIDE DEF Same
  <2> QED
    BY <1>1, <2>1, <2>2, <2>3, <2>4, ConnSteps
<1>3. changes' \in 0..MaxChanges
  BY <1>2, ConnAssumption DEF Trusting
<1>4. {trust', wavered'} \subseteq SUBSET CloudAccounts
  BY <1>2, ConnAssumption DEF Trusting
<1> QED
  BY <1>3, <1>4 DEF Trusting

\* Management accounts stay what they are, and are the only ones that discover.
LEMMA ManagedStep == ASSUME ConnInd, Managed, [ConnNext]_connVars PROVE Managed'
<1>1. ASSUME NEW w \in Visits, visit'[w].pc \in {"sync", "listed"} PROVE conn'[visit'[w].conn].mgmt
  BY <1>1, AskedManagement, ManagementKept
<1>2. ASSUME NEW r \in found' PROVE conn'[r.by].mgmt
  BY <1>2, FoundThrough, ManagementKept
<1> QED
  BY <1>1, <1>2 DEF Managed

\* Whatever requests overlap, the registry is consistent and true: one tenant of a user,
\* one connection of an account, links and discoveries only of connections that are or
\* were there, and statuses that tell what the provider said.
THEOREM RegistryIsTrue == ConnSpec => [](ConnTypeOK /\ ConnInv)
<1>1. ConnInd /\ [ConnNext]_connVars => ConnInd'
  <2> SUFFICES ASSUME ConnInd, [ConnNext]_connVars PROVE ConnInd'
    OBVIOUS
  <2>1. ASSUME NEW v \in Visits, NEW u \in Users,
               \/ OnboardRead(v, u)
               \/ \E a \in CloudAccounts :
                    (\E m \in BOOLEAN : ConnectAws(v, u, a, m)) \/ ConnectAzure(v, u, a) \/ ConnectGcp(v, u, a)
        PROVE  ConnInd'
    <3>1. ASSUME NEW a \in CloudAccounts, NEW m \in BOOLEAN, ConnectRead(v, u, a, m) PROVE ConnInd'
      BY <3>1, CreationReads
    <3> QED
      BY <2>1, <3>1, OnboardingReads DEF ConnectAws, ConnectAzure, ConnectGcp
  <2>2. ASSUME NEW v \in Visits, NEW i \in Alive,
               \/ VerifyAws(v, i) \/ VerifyAzure(v, i) \/ VerifyGcp(v, i)
               \/ DeleteAws(v, i) \/ DeleteAzure(v, i) \/ DeleteGcp(v, i) \/ SyncRead(v, i)
        PROVE  ConnInd'
    <3>1. VerifyRead(v, i) \/ DeleteRead(v, i) \/ SyncRead(v, i)
      BY <2>2 DEF VerifyAws, VerifyAzure, VerifyGcp, DeleteAws, DeleteAzure, DeleteGcp
    <3> QED
      BY <3>1, ConnectionsRead
  <2>3. ASSUME NEW v \in Visits, NEW r \in found, LinkRead(v, r) PROVE ConnInd'
    BY <2>3, LinksRead
  <2> QED
    BY <2>1, <2>2, <2>3, RequestSteps, WorldChanges DEF ConnNext
<1>2. ConnInd => ConnInv
  <2>1. ConnInd => OneTenantPerUser
    <3> SUFFICES ASSUME ConnInd, NEW u \in Users PROVE tenants[u] <= 1
      BY DEF OneTenantPerUser
    <3>1. tenants[u] = 0 \/ tenants[u] = 1
      BY DEF ConnInd, ConnShape
    <3> QED
      BY <3>1
  <2> QED
    BY <2>1 DEF ConnInd, ConnInv
<1>3. ConnInit => Managed /\ Trusting
  <2> SUFFICES ASSUME ConnInit PROVE Managed /\ Trusting
    OBVIOUS
  <2>1. \A v \in Visits : visit[v].pc = "waiting"
    BY DEF ConnInit, NoVisit
  <2>2. changes \in 0..MaxChanges
    BY ConnAssumption DEF ConnInit
  <2> QED
    BY <2>1, <2>2, ConnAssumption DEF ConnInit, Managed, Trusting
<1>4. ConnInd /\ Managed /\ Trusting => ConnTypeOK
  <2> SUFFICES ASSUME ConnInd, Managed, Trusting PROVE ConnTypeOK
    OBVIOUS
  <2>1. tenants \in [Users -> Nat] /\ growth \in [Users -> BOOLEAN]
    BY DEF ConnInd, ConnShape
  <2>2. ASSUME NEW i \in ConnIds
        PROVE  /\ conn[i].status \in {"none", "pending", "active", "error", "deleted"}
               /\ conn[i].status # "none" => conn[i].owner \in Users /\ conn[i].account \in CloudAccounts
    BY DEF ConnInd, ConnShape, Connection, Statuses, Owned, Was
  <2>3. \A r \in found : r.by \in Alive /\ conn[r.by].mgmt /\ r.account \in CloudAccounts
    BY DEF ConnInd, ConnShape, Discovered, GoneIsGone, Managed
  <2>4. \A v \in Visits : visit[v].pc \in {"waiting", "onboard", "connect", "verify", "verified",
                                          "delete", "sync", "listed", "link"}
    BY DEF ConnInd, ConnShape, Visit
  <2> QED
    BY <2>1, <2>2, <2>3, <2>4 DEF Trusting, ConnTypeOK
<1>5. ConnInd /\ Managed /\ Trusting /\ [ConnNext]_connVars => Managed' /\ Trusting'
  BY ManagedStep, TrustChanges
<1> QED
  BY <1>1, <1>2, <1>3, <1>4, <1>5, ConnStart, PTL DEF ConnSpec
==============================================================================
