------------------------------ MODULE MCServices -------------------------------
(* Small instances of the parts that serve requests, for TLC.  The parts     *)
(* share no state: a behaviour is a behaviour of one of them, while the      *)
(* others rest in their initial states.                                      *)
EXTENDS MCBilling, ExchangeRates, Attribution, CostDelta, Connections, CostFetch,
        CostRecords, ZombieScan, CarbonAlerts, Secrets, TokenBucket, Access, AuditTrail, Erasure, TenantSettings

VARIABLE part

MCCloudOf == [a \in CloudAccounts |-> CASE a = "az" -> "azure" [] a = "gp" -> "gcp" [] OTHER -> "aws"]
MCOrgMembers == [a \in CloudAccounts |-> IF a = "a1" THEN {"a1", "a2"} ELSE {}]
MCTenantOf == [u \in Members |-> IF u = "u3" THEN "t2" ELSE "t1"]
MCTierLimit == [t \in {"t1", "t2"} |-> 1]
MCServiceOf == [b \in Bills |-> IF b = 1 THEN "ec2" ELSE "unknown"]
MCReportRows == UNION {[1..n -> [service : {"s", "t"}, cost : {1, 2}]] : n \in 1..3}
MCDayBills == {NotBilled, 4, 12}

MCProvider == [c \in ScanConnections |-> IF c = "g" THEN "gcp" ELSE "aws"]
Resource(c, kind, region, facts) == [conn |-> c, kind |-> kind, region |-> region, facts |-> facts]
MCInventory ==
  { Resource("a1", "unattached_volumes", "us-east-1", {}),
    Resource("a1", "idle_s3_buckets", "us-east-1", {"busy"}),
    Resource("a1", "unattached_volumes", "eu-west-1", {"busy"}),
    Resource("g", "orphaned_ips", "global", {}) }

Rule(type, service, priority, splits) ==
  [type |-> type, service |-> service, priority |-> priority, splits |-> splits]
To(bucket, share) == [bucket |-> bucket, share |-> share]
MCRules ==
  { Rule("DIRECT", "any", 3, <<To("a", 0)>>),
    Rule("PERCENTAGE", "ec2", 1, <<To("a", 50), To("a", 50)>>),
    Rule("PERCENTAGE", "s3", 2, <<To("a", 30), To("b", 60)>>),
    Rule("FIXED", "any", 2, <<To("Unallocated", 50), To("c", 60)>>),
    Rule("FIXED", "s3", 1, <<>>) }

moneyVars == <<vars, ratesVars, costVars, attributionVars, deltaVars>>
cloudVars == <<connVars, fetchVars, scanVars, carbonVars, bucketVars>>
tenantVars == <<secretsVars, accessVars, auditVars, erasureVars, settingsVars>>

MoneyParts == {"billing", "rates", "costs", "attribution", "delta"}
CloudParts == {"connections", "fetch", "scan", "alerts", "bucket"}
TenantParts == {"secrets", "access", "audit", "erasure", "settings"}

\* Where a part may start in several states, a resting one starts in this one.
Rests(p, pinned) == IF part = p THEN TRUE ELSE pinned
Resting ==
  /\ Rests("billing", sub = NoSub)
  /\ Rests("attribution", costed = [cost |-> 100, service |-> "s3"])
  /\ Rests("alerts", carbonRow = NoCarbonRow)
  /\ Rests("erasure", present = {"users"})
  /\ Rests("settings", table = "llm")

MoneyInit == Init /\ RatesInit /\ CostInit /\ AttributionInit /\ DeltaInit
CloudInit == ConnInit /\ FetchInit /\ ScanInit /\ AlertsInit /\ BucketInit
TenantInit == SecretsInit /\ AccessInit /\ AuditInit /\ ErasureInit /\ SettingsInit

ServicesInit ==
  /\ part \in MoneyParts \cup CloudParts \cup TenantParts
  /\ Resting /\ MoneyInit /\ CloudInit /\ TenantInit

MoneyNext ==
  \/ part = "billing" /\ Next /\ UNCHANGED <<ratesVars, costVars, attributionVars, deltaVars>>
  \/ part = "rates" /\ RatesNext /\ UNCHANGED <<vars, costVars, attributionVars, deltaVars>>
  \/ part = "costs" /\ CostNext /\ UNCHANGED <<vars, ratesVars, attributionVars, deltaVars>>
  \/ part = "attribution" /\ AttributionNext /\ UNCHANGED <<vars, ratesVars, costVars, deltaVars>>
  \/ part = "delta" /\ DeltaNext /\ UNCHANGED <<vars, ratesVars, costVars, attributionVars>>

CloudNext ==
  \/ part = "connections" /\ ConnNext /\ UNCHANGED <<fetchVars, scanVars, carbonVars, bucketVars>>
  \/ part = "fetch" /\ FetchNext /\ UNCHANGED <<connVars, scanVars, carbonVars, bucketVars>>
  \/ part = "scan" /\ ScanNext /\ UNCHANGED <<connVars, fetchVars, carbonVars, bucketVars>>
  \/ part = "alerts" /\ AlertsNext /\ UNCHANGED <<connVars, fetchVars, scanVars, bucketVars>>
  \/ part = "bucket" /\ BucketNext /\ UNCHANGED <<connVars, fetchVars, scanVars, carbonVars>>

TenantNext ==
  \/ part = "secrets" /\ SecretsNext /\ UNCHANGED <<accessVars, auditVars, erasureVars, settingsVars>>
  \/ part = "access" /\ AccessNext /\ UNCHANGED <<secretsVars, auditVars, erasureVars, settingsVars>>
  \/ part = "audit" /\ AuditNext /\ UNCHANGED <<secretsVars, accessVars, erasureVars, settingsVars>>
  \/ part = "erasure" /\ ErasureNext /\ UNCHANGED <<secretsVars, accessVars, auditVars, settingsVars>>
  \/ part = "settings" /\ SettingsNext /\ UNCHANGED <<secretsVars, accessVars, auditVars, erasureVars>>

ServicesNext ==
  \/ MoneyNext /\ UNCHANGED <<part, cloudVars, tenantVars>>
  \/ CloudNext /\ UNCHANGED <<part, moneyVars, tenantVars>>
  \/ TenantNext /\ UNCHANGED <<part, moneyVars, cloudVars>>

ServicesSpec == ServicesInit /\ [][ServicesNext]_<<part, moneyVars, cloudVars, tenantVars>>

\* Every part keeps its variables within their types; those of a resting part are never
\* changed.
ServicesTypeOK ==
  CASE part = "billing" -> TypeOK [] part = "rates" -> RatesTypeOK
    [] part = "costs" -> CostTypeOK [] part = "attribution" -> AttributionTypeOK
    [] part = "delta" -> TRUE
    [] part = "connections" -> ConnTypeOK [] part = "fetch" -> FetchTypeOK
    [] part = "scan" -> ScanTypeOK [] part = "alerts" -> AlertsTypeOK
    [] part = "bucket" -> BucketTypeOK
    [] part = "secrets" -> SecretsTypeOK [] part = "access" -> AccessTypeOK
    [] part = "audit" -> AuditTypeOK [] part = "erasure" -> ErasureTypeOK
    [] part = "settings" -> SettingsTypeOK
=============================================================================
