---------------------------- MODULE ServicesProofs ----------------------------
(***************************************************************************)
(* All parts that serve requests together: each goes on as if the others   *)
(* were not there, so what is proved of it holds of the whole.             *)
(***************************************************************************)
EXTENDS MCServices, MoneyProofs, TenantProofs, CloudProofs, CostProofs

AllVars == <<part, moneyVars, cloudVars, tenantVars>>

\* A behaviour of the services is one of each part that deals with money, in which that part
\* may rest.
LEMMA MoneyMoves == ServicesSpec => Spec /\ RatesSpec /\ CostSpec /\ AttributionSpec /\ DeltaSpec
<1>1. ServicesInit => Init /\ RatesInit /\ CostInit /\ AttributionInit /\ DeltaInit
  BY DEF ServicesInit, MoneyInit
<1>2. [ServicesNext]_AllVars => [Next]_vars
  BY DEF ServicesNext, MoneyNext, AllVars, moneyVars
<1>3. [ServicesNext]_AllVars => [RatesNext]_ratesVars
  BY DEF ServicesNext, MoneyNext, AllVars, moneyVars
<1>4. [ServicesNext]_AllVars => [CostNext]_costVars
  BY DEF ServicesNext, MoneyNext, AllVars, moneyVars
<1>5. [ServicesNext]_AllVars => [AttributionNext]_attributionVars
  BY DEF ServicesNext, MoneyNext, AllVars, moneyVars
<1>6. [ServicesNext]_AllVars => [DeltaNext]_deltaVars
  BY DEF ServicesNext, MoneyNext, AllVars, moneyVars
<1> QED
  BY <1>1, <1>2, <1>3, <1>4, <1>5, <1>6, PTL
  DEF ServicesSpec, AllVars, Spec, RatesSpec, CostSpec, AttributionSpec, DeltaSpec

\* The same of each part that asks the clouds.
LEMMA CloudsMove == ServicesSpec => ConnSpec /\ FetchSpec /\ ScanSpec /\ AlertsSpec /\ BucketSpec
<1>1. ServicesInit => ConnInit /\ FetchInit /\ ScanInit /\ AlertsInit /\ BucketInit
  BY DEF ServicesInit, CloudInit
<1>2. [ServicesNext]_AllVars => [ConnNext]_connVars
  BY DEF ServicesNext, CloudNext, AllVars, cloudVars
<1>3. [ServicesNext]_AllVars => [FetchNext]_fetchVars
  BY DEF ServicesNext, CloudNext, AllVars, cloudVars
<1>4. [ServicesNext]_AllVars => [ScanNext]_scanVars
  BY DEF ServicesNext, CloudNext, AllVars, cloudVars
<1>5. [ServicesNext]_AllVars => [AlertsNext]_carbonVars
  BY DEF ServicesNext, CloudNext, AllVars, cloudVars
<1>6. [ServicesNext]_AllVars => [BucketNext]_bucketVars
  BY DEF ServicesNext, CloudNext, AllVars, cloudVars
<1> QED
  BY <1>1, <1>2, <1>3, <1>4, <1>5, <1>6, PTL
  DEF ServicesSpec, AllVars, ConnSpec, FetchSpec, ScanSpec, AlertsSpec, BucketSpec

\* The same of each part that keeps what belongs to a tenant.
LEMMA TenantMoves == ServicesSpec => SecretsSpec /\ AccessSpec /\ AuditSpec /\ ErasureSpec /\ SettingsSpec
<1>1. ServicesInit => SecretsInit /\ AccessInit /\ AuditInit /\ ErasureInit /\ SettingsInit
  BY DEF ServicesInit, TenantInit
<1>2. [ServicesNext]_AllVars => [SecretsNext]_secretsVars
  BY DEF ServicesNext, TenantNext, AllVars, tenantVars
<1>3. [ServicesNext]_AllVars => [AccessNext]_accessVars
  BY DEF ServicesNext, TenantNext, AllVars, tenantVars
<1>4. [ServicesNext]_AllVars => [AuditNext]_auditVars
  BY DEF ServicesNext, TenantNext, AllVars, tenantVars
<1>5. [ServicesNext]_AllVars => [ErasureNext]_erasureVars
  BY DEF ServicesNext, TenantNext, AllVars, tenantVars
<1>6. [ServicesNext]_AllVars => [SettingsNext]_settingsVars
  BY DEF ServicesNext, TenantNext, AllVars, tenantVars
<1> QED
  BY <1>1, <1>2, <1>3, <1>4, <1>5, <1>6, PTL
  DEF ServicesSpec, AllVars, SecretsSpec, AccessSpec, AuditSpec, ErasureSpec, SettingsSpec

-----------------------------------------------------------------------------
\* Which part moves is settled at the start.
Placed == part \in MoneyParts \cup CloudParts \cup TenantParts

\* What is proved of the parts one by one.
ServicesInv ==
  /\ BillingInv /\ ChargedAtRecentRate /\ CostInv /\ AttributionInv /\ DeltaInv
  /\ ConnInv /\ FetchInv /\ ScanInv /\ OneAlertADay /\ TwiceTheRateIsKept
  /\ SecretsInv /\ AccessInv /\ AuditInv /\ ErasureInv /\ SettingsInv

PartTypes ==
  /\ TypeOK /\ RatesTypeOK /\ CostTypeOK /\ AttributionTypeOK /\ ConnTypeOK
  /\ FetchTypeOK /\ ScanTypeOK /\ AlertsTypeOK /\ BucketTypeOK /\ SecretsTypeOK
  /\ AccessTypeOK /\ AuditTypeOK /\ ErasureTypeOK /\ SettingsTypeOK

\* Every part that serves requests keeps its types, and everything that the run of the
\* services checks of their states holds, whichever part moves and however large each is.
THEOREM ServicesAreTrue == ServicesSpec => [](ServicesTypeOK /\ ServicesInv)
<1>1. ServicesInit => Placed
  BY DEF ServicesInit, Placed
<1>2. Placed /\ [ServicesNext]_AllVars => Placed'
  BY DEF Placed, ServicesNext, MoneyNext, CloudNext, TenantNext, AllVars, MoneyParts, CloudParts, TenantParts
<1>3. Placed /\ PartTypes => ServicesTypeOK
  BY DEF Placed, PartTypes, ServicesTypeOK, MoneyParts, CloudParts, TenantParts
<1>4. ServicesSpec => [](PartTypes /\ ServicesInv)
  <2>1. (TypeOK /\ BillingInv) /\ (RatesTypeOK /\ ChargedAtRecentRate) /\ (CostTypeOK /\ CostInv)
        /\ (AttributionTypeOK /\ AttributionInv) /\ DeltaInv
        /\ (ConnTypeOK /\ ConnInv) /\ (FetchTypeOK /\ FetchInv) /\ (ScanTypeOK /\ ScanInv)
        /\ (AlertsTypeOK /\ OneAlertADay) /\ (BucketTypeOK /\ TwiceTheRateIsKept)
        /\ (SecretsTypeOK /\ SecretsInv) /\ (AccessTypeOK /\ AccessInv) /\ (AuditTypeOK /\ AuditInv)
        /\ (ErasureTypeOK /\ ErasureInv) /\ (SettingsTypeOK /\ SettingsInv)
        => PartTypes /\ ServicesInv
    BY DEF PartTypes, ServicesInv
  <2> QED
    BY <2>1, MoneyMoves, CloudsMove, TenantMoves, BillingIsSettled, ChargesAreAtRecentRates, RecordsAreTrue,
       AllocationsAreTrue, LargeChangesAreSent, RegistryIsTrue, StreamIsWhole, ScansAreTrue,
       AlertsAreOneADay, BucketKeepsTwiceTheRate, RotationLosesNothing, SessionsRunAsTheirTenant,
       AuditLeavesNothingOut, ErasureIsWhole, SettingsAreKept, PTL
<1> QED
  BY <1>1, <1>2, <1>3, <1>4, PTL DEF ServicesSpec, AllVars
=============================================================================
