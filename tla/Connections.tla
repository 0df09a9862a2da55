------------------------------ MODULE Connections ------------------------------
(***************************************************************************)
(* Onboarding and cloud connections: the requests of the settings API that *)
(* create a tenant, connect an account, verify or delete a connection,     *)
(* discover the accounts of an AWS organization and link one of them.      *)
(*                                                                         *)
(* Every request reads, awaits (the database or the provider) and then     *)
(* writes and commits; requests interleave at those awaits, and the unique *)
(* and foreign keys of the tables are all that a commit checks again.      *)
(***************************************************************************)
EXTENDS Integers, FiniteSets

CONSTANTS
  Users,          \* each user owns the tenant that onboarding creates
  CloudAccounts,  \* AWS accounts, Azure subscriptions, GCP projects
  CloudOf,        \* the provider of each account
  TrustedAtFirst, \* accounts whose role may be assumed from the start
  OrgMembers,     \* the accounts list_accounts returns to each management account
  ConnIds,        \* ids that connections may get
  Visits,         \* requests handled at once
  Wavering,       \* bound: accounts whose role or whose provider changes meanwhile
  MaxChanges      \* bound: changes of plan, roles granted or revoked, and outages

ASSUME ConnAssumption ==
  /\ OrgMembers \in [CloudAccounts -> SUBSET CloudAccounts]
  /\ CloudOf \in [CloudAccounts -> {"aws", "azure", "gcp"}]
  /\ TrustedAtFirst \subseteq CloudAccounts /\ Wavering \subseteq CloudAccounts
  /\ MaxChanges \in Nat

VARIABLES
  tenants,    \* tenants created for each user
  growth,     \* whether the plan of a tenant includes Azure and GCP
  conn,       \* connections; a deleted one keeps its owner and account
  found,      \* discovered_accounts
  visit,      \* requests in flight, with what they have read
  trust,      \* accounts whose role Valdrix may assume
  wavered,    \* accounts whose trust has changed, or whose provider failed
  changes

connVars == <<tenants, growth, conn, found, visit, trust, wavered, changes>>

NoConn == [status |-> "none", owner |-> "", account |-> "", mgmt |-> FALSE]
NoVisit == [pc |-> "waiting", owner |-> "", account |-> "", mgmt |-> FALSE, conn |-> 0,
            seen |-> "", news |-> {}, row |-> {}]
Alive == {i \in ConnIds : conn[i].status \notin {"none", "deleted"}}
Fresh == {i \in ConnIds : conn[i].status = "none"}
Connected(u, a) == {i \in Alive : conn[i].owner = u /\ conn[i].account = a}
\* check_growth_tier, which Azure and GCP ask for.
CheckGrowthTier(u) == growth[u]

ConnTypeOK ==
  /\ tenants \in [Users -> Nat] /\ growth \in [Users -> BOOLEAN]
  /\ \A i \in ConnIds :
       /\ conn[i].status \in {"none", "pending", "active", "error", "deleted"}
       /\ conn[i].status # "none" => conn[i].owner \in Users /\ conn[i].account \in CloudAccounts
  /\ \A r \in found : r.by \in Alive /\ conn[r.by].mgmt /\ r.account \in CloudAccounts
  /\ \A v \in Visits : visit[v].pc \in {"waiting", "onboard", "connect", "verify", "verified",
                                        "delete", "sync", "listed", "link"}
  /\ {trust, wavered} \subseteq SUBSET CloudAccounts /\ changes \in 0..MaxChanges

ConnInit ==
  /\ tenants = [u \in Users |-> 0] /\ growth = [u \in Users |-> FALSE]
  /\ conn = [i \in ConnIds |-> NoConn] /\ found = {}
  /\ visit = [v \in Visits |-> NoVisit]
  /\ trust = TrustedAtFirst /\ wavered = {} /\ changes = 0

Goes(v, r) == visit' = [visit EXCEPT ![v] = r]
EndVisit(v) == visit' = [visit EXCEPT ![v] = NoVisit]
Elsewhere == UNCHANGED <<growth, trust, wavered, changes>>

-----------------------------------------------------------------------------
\* POST /onboard: the user must not exist yet.
OnboardRead(v, u) ==
  /\ visit[v].pc = "waiting" /\ tenants[u] = 0
  /\ Goes(v, [NoVisit EXCEPT !.pc = "onboard", !.owner = u])
  /\ UNCHANGED <<tenants, growth, conn, found, trust, wavered, changes>>

\* Tenant and user are one transaction: the primary key of users refuses the second.
OnboardSave(v) ==
  LET u == visit[v].owner
      new == tenants[u] = 0
  IN /\ visit[v].pc = "onboard"
     /\ tenants' = IF new THEN [tenants EXCEPT ![u] = 1] ELSE tenants
     /\ growth' = IF new THEN [growth EXCEPT ![u] = TRUE] ELSE growth
     /\ EndVisit(v) /\ UNCHANGED <<conn, found, trust, wavered, changes>>

\* The search for a duplicate.
ConnectRead(v, u, a, m) ==
  /\ visit[v].pc = "waiting" /\ tenants[u] > 0 /\ Connected(u, a) = {}
  /\ Goes(v, [NoVisit EXCEPT !.pc = "connect", !.owner = u, !.account = a, !.mgmt = m])
  /\ Elsewhere /\ UNCHANGED <<tenants, conn, found>>

\* POST /aws: the caller says whether it is a management account.
ConnectAws(v, u, a, m) == CloudOf[a] = "aws" /\ (m => OrgMembers[a] # {}) /\ ConnectRead(v, u, a, m)
\* POST /azure.
ConnectAzure(v, u, a) == CloudOf[a] = "azure" /\ CheckGrowthTier(u) /\ ConnectRead(v, u, a, FALSE)
\* POST /gcp.
ConnectGcp(v, u, a) == CloudOf[a] = "gcp" /\ CheckGrowthTier(u) /\ ConnectRead(v, u, a, FALSE)

\* Mutant of Insertable: the table has no unique key.
InsertableAlways(u, a) == Fresh # {}

\* uq_tenant_aws_account, uq_tenant_azure_subscription, uq_tenant_gcp_project.
Insertable(u, a) == Fresh # {} /\ Connected(u, a) = {}

Inserted(u, a, m) ==
  [conn EXCEPT ![CHOOSE i \in Fresh : TRUE] = [status |-> "pending", owner |-> u, account |-> a, mgmt |-> m]]

ConnectSave(v) ==
  /\ visit[v].pc = "connect"
  /\ conn' = IF Insertable(visit[v].owner, visit[v].account)
             THEN Inserted(visit[v].owner, visit[v].account, visit[v].mgmt) ELSE conn
  /\ EndVisit(v) /\ Elsewhere /\ UNCHANGED <<tenants, found>>

-----------------------------------------------------------------------------
\* The row, read before the provider is asked.
VerifyRead(v, i) ==
  /\ visit[v].pc = "waiting" /\ i \in Alive
  /\ Goes(v, [NoVisit EXCEPT !.pc = "verify", !.conn = i, !.account = conn[i].account,
                             !.seen = conn[i].status])
  /\ Elsewhere /\ UNCHANGED <<tenants, conn, found>>

\* POST /{provider}/{id}/verify.
VerifyAws(v, i) == CloudOf[conn[i].account] = "aws" /\ VerifyRead(v, i)
VerifyAzure(v, i) ==
  CloudOf[conn[i].account] = "azure" /\ CheckGrowthTier(conn[i].owner) /\ VerifyRead(v, i)
VerifyGcp(v, i) ==
  CloudOf[conn[i].account] = "gcp" /\ CheckGrowthTier(conn[i].owner) /\ VerifyRead(v, i)

\* The adapter asks the provider; whatever it raises means FALSE.
VerifyAsk(v) ==
  LET a == visit[v].account
  IN /\ visit[v].pc = "verify"
     /\ \/ /\ Goes(v, [visit[v] EXCEPT !.pc = "verified", !.mgmt = a \in trust])
           /\ UNCHANGED <<wavered, changes>>
        \/ /\ a \in trust \cap Wavering /\ changes < MaxChanges /\ changes' = changes + 1
           /\ Goes(v, [visit[v] EXCEPT !.pc = "verified", !.mgmt = FALSE])
           /\ wavered' = wavered \cup {a}
     /\ UNCHANGED <<tenants, growth, conn, found, trust>>

\* What a verification writes: only AWS records a failure.
Verdict(cloud, granted, seen) ==
  CASE granted -> "active" [] ~granted /\ cloud = "aws" -> "error" [] OTHER -> seen

\* An unchanged attribute is not written; a row that is gone is not written either.
VerifySave(v) ==
  LET i == visit[v].conn
      s == Verdict(CloudOf[visit[v].account], visit[v].mgmt, visit[v].seen)
  IN /\ visit[v].pc = "verified"
     /\ conn' = IF s # visit[v].seen /\ i \in Alive THEN [conn EXCEPT ![i].status = s] ELSE conn
     /\ EndVisit(v) /\ Elsewhere /\ UNCHANGED <<tenants, found>>

\* The row to delete.
DeleteRead(v, i) ==
  /\ visit[v].pc = "waiting" /\ i \in Alive
  /\ Goes(v, [NoVisit EXCEPT !.pc = "delete", !.conn = i])
  /\ Elsewhere /\ UNCHANGED <<tenants, conn, found>>

\* DELETE /{provider}/{id}.
DeleteAws(v, i) == CloudOf[conn[i].account] = "aws" /\ DeleteRead(v, i)
DeleteAzure(v, i) == CloudOf[conn[i].account] = "azure" /\ DeleteRead(v, i)
DeleteGcp(v, i) == CloudOf[conn[i].account] = "gcp" /\ DeleteRead(v, i)

\* The foreign key of discovered_accounts cascades.
DeleteSave(v) ==
  /\ visit[v].pc = "delete"
  /\ conn' = [conn EXCEPT ![visit[v].conn].status = "deleted"]
  /\ found' = {r \in found : r.by # visit[v].conn}
  /\ EndVisit(v) /\ Elsewhere /\ UNCHANGED tenants

-----------------------------------------------------------------------------
\* POST /aws/{id}/sync-org on a management account.
SyncRead(v, i) ==
  /\ visit[v].pc = "waiting" /\ i \in Alive /\ conn[i].mgmt
  /\ Goes(v, [NoVisit EXCEPT !.pc = "sync", !.conn = i, !.account = conn[i].account])
  /\ Elsewhere /\ UNCHANGED <<tenants, conn, found>>

\* The accounts that nobody, of any tenant, has discovered yet; one discovered
\* twice, or a role that cannot be assumed, ends the sync.
SyncList(v) ==
  LET org == OrgMembers[visit[v].account] \ {visit[v].account}
      rows(a) == {r \in found : r.account = a}
  IN /\ visit[v].pc = "sync"
     /\ IF visit[v].account \in trust /\ \A a \in org : Cardinality(rows(a)) <= 1
        THEN Goes(v, [visit[v] EXCEPT !.pc = "listed", !.news = {a \in org : rows(a) = {}}])
        ELSE EndVisit(v)
     /\ Elsewhere /\ UNCHANGED <<tenants, conn, found>>

\* account_id has no unique key: two syncs may store one account twice.
SyncSave(v) ==
  /\ visit[v].pc = "listed"
  /\ found' = IF visit[v].conn \in Alive
              THEN found \cup {[by |-> visit[v].conn, account |-> a, visit |-> v, linked |-> FALSE]
                                : a \in visit[v].news}
              ELSE found
  /\ EndVisit(v) /\ Elsewhere /\ UNCHANGED <<tenants, conn>>

\* The rows after those given are marked.
Linked(rows) == {r \in found : \A q \in rows : <<q.by, q.account, q.visit>> # <<r.by, r.account, r.visit>>}
                  \cup {[r EXCEPT !.linked = TRUE] : r \in rows}

LinkOf(r) == [NoVisit EXCEPT !.pc = "link", !.owner = conn[r.by].owner, !.account = r.account,
                             !.row = {r}, !.mgmt = Connected(conn[r.by].owner, r.account) # {}]

\* POST /aws/discovered/{id}/link: the row, its tenant, and whether it is connected.
LinkRead(v, r) ==
  /\ visit[v].pc = "waiting" /\ r \in found
  /\ Goes(v, LinkOf(r))
  /\ Elsewhere /\ UNCHANGED <<tenants, conn, found>>

\* The connection and the mark are one commit.
LinkSave(v) ==
  LET u == visit[v].owner  a == visit[v].account
      there == \E r \in found, q \in visit[v].row : <<r.by, r.visit, r.account>> = <<q.by, q.visit, q.account>>
      goes == there /\ (visit[v].mgmt \/ Insertable(u, a))
  IN /\ visit[v].pc = "link"
     /\ found' = IF goes THEN Linked(visit[v].row) ELSE found
     /\ conn' = IF goes /\ ~visit[v].mgmt THEN Inserted(u, a, FALSE) ELSE conn
     /\ EndVisit(v) /\ Elsewhere /\ UNCHANGED tenants

-----------------------------------------------------------------------------
\* Subscriptions change the plan of a tenant.
ChangePlan(u) ==
  /\ tenants[u] > 0 /\ changes < MaxChanges
  /\ growth' = [growth EXCEPT ![u] = ~@] /\ changes' = changes + 1
  /\ UNCHANGED <<tenants, conn, found, visit, trust, wavered>>

\* The customer grants or revokes the role of a connected account; before it is
\* connected, nobody asks.
ChangeTrust(a) ==
  /\ \E i \in Alive : conn[i].account = a
  /\ changes < MaxChanges /\ changes' = changes + 1
  /\ trust' = (trust \ {a}) \cup ({a} \ trust) /\ wavered' = wavered \cup {a}
  /\ UNCHANGED <<tenants, growth, conn, found, visit>>

ConnNext ==
  \/ \E v \in Visits :
       \/ \E u \in Users : OnboardRead(v, u)
       \/ \E u \in Users, a \in CloudAccounts :
            (\E m \in BOOLEAN : ConnectAws(v, u, a, m)) \/ ConnectAzure(v, u, a) \/ ConnectGcp(v, u, a)
       \/ \E i \in Alive : \/ VerifyAws(v, i) \/ VerifyAzure(v, i) \/ VerifyGcp(v, i)
                            \/ DeleteAws(v, i) \/ DeleteAzure(v, i) \/ DeleteGcp(v, i) \/ SyncRead(v, i)
       \/ \E r \in found : LinkRead(v, r)
       \/ OnboardSave(v) \/ ConnectSave(v) \/ VerifyAsk(v) \/ VerifySave(v) \/ DeleteSave(v)
       \/ SyncList(v) \/ SyncSave(v) \/ LinkSave(v)
  \/ \E u \in Users : ChangePlan(u)
  \/ \E a \in Wavering : ChangeTrust(a)

ConnSpec == ConnInit /\ [][ConnNext]_connVars

-----------------------------------------------------------------------------
\* A user who sends onboarding twice gets one tenant (onboard.py:36-56).
OneTenantPerUser == \A u \in Users : tenants[u] <= 1

\* A tenant never has two connections of one account, whatever creations and
\* links run at once: costs would be ingested twice (connections.py:117-138, 256-281).
OneConnectionPerAccount ==
  \A i, j \in Alive : i # j => <<conn[i].owner, conn[i].account>> # <<conn[j].owner, conn[j].account>>

\* An account marked linked is, or was, connected by the tenant that discovered
\* it (connections.py:261-281).
LinkedWasConnected ==
  \A r \in found : r.linked =>
    \E i \in ConnIds : conn[i].status # "none" /\ conn[i].owner = conn[r.by].owner /\ conn[i].account = r.account

\* Nothing stays discovered through a connection that is gone, although a sync asks
\* the cloud for minutes between reading the connection and saving what it found
\* (organizations.py:30-75, connections.py:202-221).
GoneIsGone == \A r \in found : r.by \in Alive

\* While the provider is steady, a status tells the truth: active only where the
\* role can be assumed, error only where it cannot (aws.py:44-55, azure.py:29-35).
StatusIsTrue ==
  \A i \in Alive : conn[i].account \notin wavered =>
    /\ conn[i].status = "active" => conn[i].account \in trust
    /\ conn[i].status = "error" => conn[i].account \notin trust

\* The registry of tenants, connections and discovered accounts is consistent and true,
\* whatever requests overlap.
ConnInv ==
  OneTenantPerUser /\ OneConnectionPerAccount /\ LinkedWasConnected /\ GoneIsGone /\ StatusIsTrue
=============================================================================
