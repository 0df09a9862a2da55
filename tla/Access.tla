-------------------------------- MODULE Access --------------------------------
(***************************************************************************)
(* What a request passes through before its handler: a pooled database     *)
(* connection (get_db), the token and the user's row (get_current_user),   *)
(* the tenant's row-level-security setting, the role check, the rate       *)
(* limit; and the listener that refuses a statement without that setting.  *)
(*                                                                         *)
(* The setting is local to a transaction, while the mark the listener      *)
(* reads is kept in conn.info, for as long as the pooled connection lives: *)
(* after a commit a session goes on with whatever connection is free.      *)
(***************************************************************************)
EXTENDS Integers, FiniteSets

CONSTANTS
  Members,       \* users
  TenantOf,      \* the tenant of each
  DbSessions,    \* database sessions alive at once
  Pool,          \* connections of the engine's pool
  TierLimit,     \* analyses per window, for each tenant's plan
  TokenHours,    \* windows for which a token is valid
  MaxWindows     \* bound: windows that pass

ASSUME NobodyIsNone ==
  0 \notin DbSessions /\ 0 \notin Pool /\ "" \notin Members /\ \A u \in Members : TenantOf[u] # ""
ASSUME LimitsAreNat ==
  TokenHours \in Nat /\ MaxWindows \in Nat /\ \A u \in Members : TierLimit[TenantOf[u]] \in Nat

VARIABLES
  pooled,     \* each connection: its mark, its setting, the session that holds it
  dbSession,
  token,      \* windows left of each user's token, and the role at its issue
  role,       \* users.role
  hits,       \* analyses admitted in this window, for each key of the limiter
  admitted,   \* analyses admitted in this window, for each tenant
  windows

accessVars == <<pooled, dbSession, token, role, hits, admitted, windows>>

Tenancies == {TenantOf[u] : u \in Members}
NoSession == [pc |-> "idle", conn |-> 0, user |-> "", role |-> "none"]
FreeConns == {c \in Pool : pooled[c].held = 0}
Level == [none |-> 0, member |-> 10, admin |-> 50, owner |-> 100]

AccessTypeOK ==
  /\ \A c \in Pool : /\ pooled[c].mark \in {"none", "true", "false"} /\ pooled[c].held \in DbSessions \cup {0}
                     /\ pooled[c].setting \in Tenancies \cup {""}
  /\ \A s \in DbSessions : /\ dbSession[s].pc \in {"idle", "open", "known", "system", "detached", "refused"}
                         /\ dbSession[s].conn # 0 => pooled[dbSession[s].conn].held = s
                         /\ dbSession[s].role \in DOMAIN Level
  /\ \A u \in Members : role[u] \in DOMAIN Level /\ token[u].left \in 0..TokenHours
  /\ windows \in 0..MaxWindows

AccessInit ==
  /\ pooled = [c \in Pool |-> [mark |-> "none", setting |-> "", held |-> 0]]
  /\ dbSession = [s \in DbSessions |-> NoSession]
  /\ role = [u \in Members |-> "admin"]
  /\ token = [u \in Members |-> [left |-> TokenHours, role |-> role[u]]]
  /\ hits = [u \in Members |-> 0] /\ admitted = [t \in Tenancies |-> 0] /\ windows = 0

Outside == UNCHANGED <<token, role, hits, admitted, windows>>
TenantOfSession(s) == TenantOf[dbSession[s].user]

-----------------------------------------------------------------------------
\* get_db: the state of the request has no tenant yet, so the connection is marked false.
OpenRequest(s, u, c) ==
  /\ dbSession[s].pc = "idle" /\ c \in FreeConns
  /\ dbSession' = [dbSession EXCEPT ![s] = [NoSession EXCEPT !.pc = "open", !.conn = c, !.user = u]]
  /\ pooled' = [pooled EXCEPT ![c] = [mark |-> "false", setting |-> "", held |-> s]]
  /\ Outside

\* async_session_maker() in a job or a sweep: nobody touches the mark.
OpenSystem(s, c) ==
  /\ dbSession[s].pc = "idle" /\ c \in FreeConns
  /\ dbSession' = [dbSession EXCEPT ![s] = [NoSession EXCEPT !.pc = "system", !.conn = c]]
  /\ pooled' = [pooled EXCEPT ![c].held = s]
  /\ Outside

\* The role is read with the user's row, at every request.
RoleOf(u) == role[u]

\* decode_jwt, the user's row, set_session_tenant_id.
Authenticate(s) ==
  LET u == dbSession[s].user  c == dbSession[s].conn
  IN /\ dbSession[s].pc = "open" /\ token[u].left > 0
     /\ dbSession' = [dbSession EXCEPT ![s].pc = "known", ![s].role = RoleOf(u)]
     /\ pooled' = [pooled EXCEPT ![c].mark = "true", ![c].setting = TenantOf[u]]
     /\ Outside

\* Mutant of Released: the setting is not local to the transaction.
ReleasedWithSetting(c) == [pooled EXCEPT ![c].held = 0]

\* A connection goes back to the pool: its transaction is over, its mark stays.
Released(c) == [pooled EXCEPT ![c].held = 0, ![c].setting = ""]

\* The token has expired: 401, and the session is closed.
Deny(s) ==
  /\ dbSession[s].pc = "open"
  /\ token[dbSession[s].user].left = 0
  /\ dbSession' = [dbSession EXCEPT ![s] = NoSession] /\ pooled' = Released(dbSession[s].conn)
  /\ Outside

\* db.commit(): the session lets its connection go.
CommitSession(s) ==
  /\ dbSession[s].pc \in {"known", "system"} /\ dbSession[s].conn # 0
  /\ dbSession' = [dbSession EXCEPT ![s].conn = 0, ![s].pc = IF @ = "known" THEN "detached" ELSE @]
  /\ pooled' = Released(dbSession[s].conn)
  /\ Outside

\* The next statement takes any free connection, as the pool left it.
Reconnect(s, c) ==
  /\ dbSession[s].pc \in {"detached", "system"} /\ dbSession[s].conn = 0 /\ c \in FreeConns
  /\ dbSession' = [dbSession EXCEPT ![s].conn = c]
  /\ pooled' = [pooled EXCEPT ![c].held = s]
  /\ Outside

\* check_rls_policy: a statement on a connection marked false raises.
RefuseSession(s) ==
  /\ dbSession[s].pc \in {"known", "detached", "system"} /\ dbSession[s].conn # 0
  /\ pooled[dbSession[s].conn].mark = "false"
  /\ dbSession' = [dbSession EXCEPT ![s].pc = "refused", ![s].conn = 0]
  /\ pooled' = Released(dbSession[s].conn)
  /\ Outside

\* pool_recycle: an old connection is replaced by a new one.
Recycle(c) ==
  /\ c \in FreeConns /\ pooled[c].mark # "none"
  /\ pooled' = [pooled EXCEPT ![c].mark = "none"]
  /\ UNCHANGED dbSession /\ Outside

\* get_db's finally.
CloseSession(s) ==
  /\ dbSession[s].pc \notin {"idle", "open"}
  /\ dbSession' = [dbSession EXCEPT ![s] = NoSession]
  /\ pooled' = IF dbSession[s].conn = 0 THEN pooled ELSE Released(dbSession[s].conn)
  /\ Outside

\* context_aware_key: one counter for the tenant of an authenticated request.
LimitKey(u) == CHOOSE v \in Members : TenantOf[v] = TenantOf[u]

\* requires_role("admin") and @analysis_limit on an analysis.
Analyze(s) ==
  LET u == dbSession[s].user
  IN /\ dbSession[s].pc = "known" /\ Level[dbSession[s].role] >= Level["admin"]
     /\ hits[LimitKey(u)] < TierLimit[TenantOf[u]]
     /\ hits' = [hits EXCEPT ![LimitKey(u)] = @ + 1]
     /\ admitted' = [admitted EXCEPT ![TenantOf[u]] = @ + 1]
     /\ UNCHANGED <<pooled, dbSession, token, role, windows>>

-----------------------------------------------------------------------------
\* An hour passes: the fixed window is over, and tokens age.
NextWindow ==
  /\ windows < MaxWindows /\ windows' = windows + 1
  /\ hits' = [u \in Members |-> 0] /\ admitted' = [t \in Tenancies |-> 0]
  /\ token' = [u \in Members |-> [token[u] EXCEPT !.left = IF @ > 0 THEN @ - 1 ELSE 0]]
  /\ UNCHANGED <<pooled, dbSession, role>>

\* An owner takes a role away; the token is not issued again.
Demote(u) ==
  /\ role[u] = "admin" /\ role' = [role EXCEPT ![u] = "member"]
  /\ UNCHANGED <<pooled, dbSession, token, hits, admitted, windows>>

AccessNext ==
  \/ \E s \in DbSessions :
       \/ \E c \in Pool : OpenSystem(s, c) \/ Reconnect(s, c) \/ \E u \in Members : OpenRequest(s, u, c)
       \/ Authenticate(s) \/ Deny(s) \/ CommitSession(s) \/ RefuseSession(s) \/ CloseSession(s) \/ Analyze(s)
  \/ \E c \in Pool : Recycle(c)
  \/ NextWindow
  \/ \E u \in Members : Demote(u)

AccessSpec == AccessInit /\ [][AccessNext]_accessVars

-----------------------------------------------------------------------------
\* No session ever runs under the setting of another tenant, whatever the pool
\* hands it (session.py:141-144, 180-184).
NoForeignSetting ==
  \A c \in Pool :
    /\ pooled[c].held = 0 => pooled[c].setting = ""
    /\ pooled[c].held # 0 /\ pooled[c].setting # "" =>
         dbSession[pooled[c].held].user # "" /\ pooled[c].setting = TenantOfSession(pooled[c].held)

\* Until its first commit an authenticated request is never refused, and runs
\* under its tenant's setting (session.py:167-184, 218-245).
FirstTransactionIsScoped ==
  \A s \in DbSessions : dbSession[s].pc = "known" =>
    /\ pooled[dbSession[s].conn].mark = "true"
    /\ pooled[dbSession[s].conn].setting = TenantOfSession(s)

\* The users of a tenant share its plan's limit (rate_limit.py:31-41, 119-136).
TenantsShareTheLimit == \A t \in Tenancies : admitted[t] <= TierLimit[t]

\* An authenticated request runs as its tenant and under its tenant's limit.
AccessInv == NoForeignSetting /\ FirstTransactionIsScoped /\ TenantsShareTheLimit

\* "None is allowed for system/internal connections that don't go through get_db"
\* (session.py:220-221): a job's statement is never refused.
SystemIsNeverRefused == \A s \in DbSessions : dbSession[s].pc = "refused" => dbSession[s].user # ""
=============================================================================
