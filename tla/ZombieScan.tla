------------------------------- MODULE ZombieScan -------------------------------
(***************************************************************************)
(* Scans for zombie resources: ZombieService scans a tenant's connections  *)
(* in parallel, each detector runs the plugins of its provider, and the    *)
(* results go into one report, from which an analysis may be queued.       *)
(* A resource is [conn, kind, region, facts]; kind is the category_key of  *)
(* its plugin, facts are what the plugin would read of it: "attached",     *)
(* "busy" (it has traffic, objects or connections), "nodata" (no metrics), *)
(* "batch", "stopped", "old", "tagged", "protected".                       *)
(***************************************************************************)
EXTENDS Integers, FiniteSets

CONSTANTS
  ScanConnections,  \* the tenant's connections
  Provider,         \* Provider[c]: aws, azure, gcp
  Inventory,        \* the resources in the accounts
  ScanRegions,      \* regions that are asked for
  Scans,            \* concurrent scans
  MaxScanHours,     \* bound: hours of the run
  MaxScanFaults     \* bound: plugins and checks that fail in the one detector of a scan
                    \* in which any fail

VARIABLES
  scans,         \* [state, region, analyze, left, report, partial, analysis]
  analysisJobs,  \* background_jobs of type ZOMBIE_ANALYSIS: [hour, by], by: the scan
  scanHour,      \* the clock
  unread,        \* history: resources whose check failed, per scan
  quiet          \* history: scans in which no plugin has failed

scanVars == <<scans, analysisJobs, scanHour, unread, quiet>>

Has(r, fact) == fact \in r.facts

\* The category_key of each provider's plugins, and those that look for traffic, objects
\* or connections.
PluginKinds(provider) ==
  CASE provider = "aws" ->
         {"unused_elastic_ips", "idle_instances", "idle_rds_databases", "unattached_volumes", "old_snapshots",
          "legacy_ecr_images", "idle_s3_buckets", "orphan_load_balancers", "underused_nat_gateways",
          "cold_redshift_clusters", "idle_sagemaker_endpoints"}
    [] provider = "azure" -> {"idle_vms", "unattached_disks", "orphaned_ips", "orphaned_images"}
    [] provider = "gcp"   -> {"unattached_disks", "orphaned_ips", "orphaned_images", "idle_instances"}
Metered ==
  {"idle_instances", "idle_rds_databases", "unattached_volumes", "idle_s3_buckets", "orphan_load_balancers",
   "underused_nat_gateways", "cold_redshift_clusters", "idle_sagemaker_endpoints"}

\* A resource is one of a connection's, of a kind that the connection's provider has a
\* plugin for; it is busy where a plugin would ask.
ASSUME ScanAssumption ==
  /\ Provider \in [ScanConnections -> {"aws", "azure", "gcp"}]
  /\ \A r \in Inventory :
       /\ r.conn \in ScanConnections /\ r.kind \in PluginKinds(Provider[r.conn])
       /\ Has(r, "busy") => r.kind \in Metered
  /\ MaxScanHours \in Nat

NewScan == [state |-> "none", region |-> "none", analyze |-> FALSE,
            left |-> {}, report |-> {}, partial |-> FALSE, analysis |-> "none"]

-----------------------------------------------------------------------------
\* The plugins.  ok: the check of the single resource did not fail.

UnusedElasticIp(r) == ~Has(r, "attached")
IdleInstance(r, ok) ==
  ok /\ \A fact \in {"stopped", "batch", "nodata", "busy"} : ~Has(r, fact)
IdleRds(r, ok) == ok /\ ~Has(r, "nodata") /\ ~Has(r, "busy")

\* A volume whose metrics cannot be read is listed like one without traffic.
UnattachedVolume(r, ok) == ~Has(r, "attached") /\ (ok => ~Has(r, "busy"))
OldSnapshot(r) == Has(r, "old")
LegacyEcrImage(r) == Has(r, "old") /\ ~Has(r, "tagged")

EmptyBucket(r, ok) == ok /\ ~Has(r, "busy")
OrphanLoadBalancer(r, ok) == ok /\ ~Has(r, "busy")

\* No datapoints add up to 0: what has no metrics yet counts as idle.
UnderusedNatGateway(r, ok) == ~Has(r, "stopped") /\ ok /\ ~Has(r, "busy")
ColdRedshift(r, ok) == ok /\ ~Has(r, "busy")
IdleSageMaker(r, ok) == ~Has(r, "stopped") /\ ok /\ ~Has(r, "busy")

\* The Azure plugins keep what is located in the detector's region; a VM is taken for
\* idle whatever it does.
AzureIdleVm(r, region) == r.region = region
AzureUnattachedDisk(r, region) == r.region = region /\ ~Has(r, "attached")
AzureOrphanedIp(r, region) == r.region = region /\ ~Has(r, "attached")
AzureOrphanedImage(r, region) == r.region = region /\ ~Has(r, "protected")

\* The GCP plugins; zone and region are the detector's.
GcpIdleInstance(r, zone) == zone \in {"global", r.region} /\ ~Has(r, "stopped")
GcpUnattachedDisk(r, zone) == r.region = zone /\ ~Has(r, "attached")
GcpUnusedIp(r, region) == r.region = region /\ ~Has(r, "attached")
GcpMachineImage(r) == ~Has(r, "protected")

-----------------------------------------------------------------------------
AwsFinds(r, region, ok) ==
  /\ r.region = region
  /\ CASE r.kind = "unused_elastic_ips"       -> UnusedElasticIp(r)
       [] r.kind = "idle_instances"           -> IdleInstance(r, ok)
       [] r.kind = "idle_rds_databases"       -> IdleRds(r, ok)
       [] r.kind = "unattached_volumes"       -> UnattachedVolume(r, ok)
       [] r.kind = "old_snapshots"            -> OldSnapshot(r)
       [] r.kind = "legacy_ecr_images"        -> LegacyEcrImage(r)
       [] r.kind = "idle_s3_buckets"          -> EmptyBucket(r, ok)
       [] r.kind = "orphan_load_balancers"    -> OrphanLoadBalancer(r, ok)
       [] r.kind = "underused_nat_gateways"   -> UnderusedNatGateway(r, ok)
       [] r.kind = "cold_redshift_clusters"   -> ColdRedshift(r, ok)
       [] r.kind = "idle_sagemaker_endpoints" -> IdleSageMaker(r, ok)

AzurePlugin(r, region) ==
  CASE r.kind = "idle_vms"         -> AzureIdleVm(r, region)
    [] r.kind = "unattached_disks" -> AzureUnattachedDisk(r, region)
    [] r.kind = "orphaned_ips"     -> AzureOrphanedIp(r, region)
    [] r.kind = "orphaned_images"  -> AzureOrphanedImage(r, region)

\* Only idle_vms is ever run: for the others the detector ends in "return []".
AzureFinds(r, region) == r.kind = "idle_vms" /\ AzurePlugin(r, region)

GcpPlugin(r, region) ==
  CASE r.kind = "unattached_disks" -> GcpUnattachedDisk(r, region)
    [] r.kind = "orphaned_ips"     -> GcpUnusedIp(r, region)
    [] r.kind = "orphaned_images"  -> GcpMachineImage(r)
    [] r.kind = "idle_instances"   -> GcpIdleInstance(r, region)

\* idle_instances is handed the DisksClient that unattached_disks has made before it,
\* and fails.
GcpFinds(r, region) == r.kind # "idle_instances" /\ GcpPlugin(r, region)

\* What scan_all returns of a connection: a resource that names another region than the
\* detector's is dropped; AWS resources, disks and machine images of GCP name none.
ScanAll(c, region, missed, unreadable) ==
  {r \in Inventory :
     /\ r.conn = c /\ r.kind \notin missed
     /\ CASE Provider[c] = "aws"   -> AwsFinds(r, region, r \notin unreadable)
          [] Provider[c] = "azure" -> AzureFinds(r, "global")
          [] Provider[c] = "gcp"   -> GcpFinds(r, "global")
     /\ Provider[c] = "aws" \/ r.kind \in {"unattached_disks", "orphaned_images"}
          \/ r.region = "global"}

\* The categories of the report, and those mapped to one of them: a plugin's category
\* that is none of these is dropped.
Reported == {"unattached_volumes", "old_snapshots", "unused_elastic_ips", "idle_instances",
             "idle_s3_buckets", "legacy_ecr_images", "idle_sagemaker_endpoints",
             "cold_redshift_clusters", "unattached_disks", "orphaned_ips"}

-----------------------------------------------------------------------------
ScanTypeOK ==
  /\ \A s \in Scans :
       /\ scans[s].state \in {"none", "scanning", "scanned", "done"}
       /\ scans[s].left \subseteq ScanConnections /\ scans[s].report \subseteq Inventory
       /\ scans[s].analysis \in {"none", "pending", "already_queued", "error"}
  /\ scanHour \in 0..MaxScanHours
  /\ quiet \subseteq Scans

ScanInit ==
  /\ scans = [s \in Scans |-> NewScan]
  /\ analysisJobs = {} /\ scanHour = 0
  /\ unread = [s \in Scans |-> {}] /\ quiet = Scans

\* ZombieScanHandler looks for "regions" where the job says "region".
ScannedRegion(region, via) == IF via = "job" THEN "us-east-1" ELSE region

\* GET /zombies, at once or by the handler of the ZOMBIE_SCAN job that it enqueues.
RequestScan(s, region, via, analyze) ==
  /\ scans[s].state = "none"
  /\ scans' = [scans EXCEPT ![s] =
       [NewScan EXCEPT !.state = "scanning", !.analyze = analyze,
                       !.region = ScannedRegion(region, via),
                       !.left = ScanConnections]]
  /\ UNCHANGED <<analysisJobs, scanHour, unread, quiet>>

\* Mutant of Merged: the last detector's results take the place of the others'.
MergedLast(scan, c, found) ==
  [scan EXCEPT !.left = @ \ {c}, !.report = found,
               !.state = IF scan.left = {c} THEN "scanned" ELSE @]
\* run_scan: one detector's results go into the report.
Merged(scan, c, found) ==
  [scan EXCEPT !.left = @ \ {c}, !.report = @ \cup found,
               !.state = IF scan.left = {c} THEN "scanned" ELSE @]

ResourceKinds(c) == {r.kind : r \in {q \in Inventory : q.conn = c}}
Few(S) == {T \in SUBSET S : Cardinality(T) <= MaxScanFaults}

\* A detector is through: a plugin that raised or timed out has found nothing (missed),
\* and with an error for the whole detector all are missed.
FinishConnection(s, c) ==
  /\ scans[s].state = "scanning" /\ c \in scans[s].left
  /\ \E missed \in Few(ResourceKinds(c)) \cup {ResourceKinds(c)}, failed \in Few({r \in Inventory : r.conn = c}) :
       /\ s \in quiet \/ (missed = {} /\ failed = {})
       /\ scans' = [scans EXCEPT ![s] = Merged(@, c,
            {r \in ScanAll(c, scans[s].region, missed, failed) : r.kind \in Reported})]
       /\ unread' = [unread EXCEPT ![s] = @ \cup failed]
       /\ quiet' = IF missed = {} /\ failed = {} THEN quiet ELSE quiet \ {s}
  /\ UNCHANGED <<analysisJobs, scanHour>>

\* The five minutes are over: detectors still running are cancelled.
ScanTimesOut(s) ==
  /\ scans[s].state = "scanning"
  /\ scans' = [scans EXCEPT ![s].state = "scanned", ![s].partial = TRUE, ![s].left = {}]
  /\ UNCHANGED <<analysisJobs, scanHour, unread, quiet>>

Analyzable(scan) == scan.analyze /\ ~scan.partial

\* scan_for_tenant's end: the analysis is queued once an hour.
QueueAnalysis(s) ==
  /\ scans[s].state = "scanned"
  /\ \E committed \in BOOLEAN :
       LET queued == \E j \in analysisJobs : j.hour = scanHour
           answer == CASE ~Analyzable(scans[s]) -> "none"
                       [] ~committed            -> "error"
                       [] queued                -> "already_queued"
                       [] OTHER                 -> "pending"
       IN /\ scans' = [scans EXCEPT ![s].state = "done", ![s].analysis = answer]
          /\ analysisJobs' = IF answer # "pending" THEN analysisJobs
                             ELSE analysisJobs \cup {[hour |-> scanHour, by |-> s]}
  /\ UNCHANGED <<scanHour, unread, quiet>>

HourPasses ==
  /\ scanHour < MaxScanHours /\ scanHour' = scanHour + 1
  /\ UNCHANGED <<scans, analysisJobs, unread, quiet>>

ScanNext ==
  \/ \E s \in Scans :
       \/ \E region \in ScanRegions, via \in {"api", "job"}, analyze \in BOOLEAN :
            RequestScan(s, region, via, analyze)
       \/ \E c \in ScanConnections : FinishConnection(s, c)
       \/ ScanTimesOut(s)
       \/ QueueAnalysis(s)
  \/ HourPasses

ScanSpec == ScanInit /\ [][ScanNext]_scanVars

-----------------------------------------------------------------------------
\* A report that nothing has gone wrong in misses no idle AWS resource of its region and
\* of the categories it shows, however many accounts the tenant has.
QuietScanIsComplete ==
  \A s \in quiet : scans[s].state = "done" /\ ~scans[s].partial =>
    \A r \in Inventory : r.region = scans[s].region /\ r.kind \in Reported
                         /\ Provider[r.conn] = "aws" /\ AwsFinds(r, r.region, TRUE)
      => r \in scans[s].report

\* What is in use is offered for removal only if it is a volume whose metrics could not
\* be read: for no other resource is a failed check taken for a sign of idleness.
BusyIsNotListed ==
  \A s \in Scans, r \in Inventory : r \in scans[s].report /\ Has(r, "busy")
    => r.kind = "unattached_volumes" /\ r \in unread[s]

\* Each analysis that was queued is of a whole scan, and its scan says that it is coming.
AnalysisIsOfWholeScan ==
  \A j \in analysisJobs : ~scans[j.by].partial /\ scans[j.by].analysis = "pending"

\* What a scan tells: all that is idle unless something went wrong, nothing that is in
\* use, and an analysis only where there is one to come.
ScanInv == QuietScanIsComplete /\ BusyIsNotListed /\ AnalysisIsOfWholeScan
=============================================================================
