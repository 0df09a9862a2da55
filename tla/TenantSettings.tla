---------------------------- MODULE TenantSettings ----------------------------
(***************************************************************************)
(* The settings of a tenant: a row per table, made by the first request    *)
(* that finds none, whether it reads or writes, and unique by tenant.  A   *)
(* request loads the row, changes the object and commits: the UPDATE names *)
(* the columns whose value differs from the loaded one.                    *)
(***************************************************************************)
EXTENDS Integers, FiniteSets

CONSTANTS
  SettingsRequests,   \* requests of members and administrators
  SettingValues       \* values of a column; 0 is the default

ASSUME SettingsAssumption == 0 \in SettingValues /\ -1 \notin SettingValues

VARIABLES
  table,      \* the table these requests are about
  settings,   \* the committed row, or NoSettings
  change,     \* each request: what it asked for, loaded and was answered
  asked       \* rows asked for by committed updates

settingsVars == <<table, settings, change, asked>>

SettingsTables == {"notifications", "carbon", "activeops", "llm"}
\* Two columns stand for all: a preference, and one that requests leave out at times,
\* such as a channel, the recipients or the tenant's own key.
Columns == {"preference", "optional"}
Rows == [Columns -> SettingValues]
NoSettings == [c \in Columns |-> -1]
Defaults == [c \in Columns |-> 0]

IdleChange == [pc |-> "idle", ask |-> NoSettings, loaded |-> NoSettings, answer |-> NoSettings, alone |-> TRUE]

SettingsTypeOK ==
  /\ table \in SettingsTables /\ settings \in Rows \cup {NoSettings} /\ asked \subseteq Rows
  /\ \A r \in SettingsRequests :
       /\ change[r].pc \in {"idle", "get", "put", "committed", "done", "error"}
       /\ {change[r].ask, change[r].loaded, change[r].answer} \subseteq Rows \cup {NoSettings}

SettingsInit ==
  /\ table \in SettingsTables /\ settings = NoSettings /\ asked = {}
  /\ change = [r \in SettingsRequests |-> IdleChange]

-----------------------------------------------------------------------------
\* A read that finds the row answers it, one that finds none goes on to create it.
LoadForGet(r) ==
  /\ change[r].pc = "idle"
  /\ change' = [change EXCEPT ![r].pc = IF settings = NoSettings THEN "get" ELSE "done", ![r].answer = settings]
  /\ UNCHANGED <<table, settings, asked>>

GetNotificationSettings(r) == table = "notifications" /\ LoadForGet(r)
GetCarbonSettings(r) == table = "carbon" /\ LoadForGet(r)
GetActiveopsSettings(r) == table = "activeops" /\ LoadForGet(r)
GetLlmSettings(r) == table = "llm" /\ LoadForGet(r)

\* An update asks for every column: one the request leaves out has its default.
LoadForPut(r) ==
  /\ change[r].pc = "idle"
  /\ \E row \in Rows : change' = [change EXCEPT ![r].pc = "put", ![r].ask = row, ![r].loaded = settings]
  /\ UNCHANGED <<table, settings, asked>>

UpdateNotificationSettings(r) == table = "notifications" /\ LoadForPut(r)
UpdateCarbonSettings(r) == table = "carbon" /\ LoadForPut(r)
UpdateActiveopsSettings(r) == table = "activeops" /\ LoadForPut(r)
UpdateLlmSettings(r) == table = "llm" /\ LoadForPut(r)

\* Mutant of CreateDefaults: the row of another request is replaced.
CreateDefaultsAnyway(r) ==
  /\ change[r].pc = "get" /\ settings' = Defaults
  /\ change' = [change EXCEPT ![r].pc = "committed"]
  /\ UNCHANGED <<table, asked>>

\* The defaults are inserted, unless another request was first: tenant_id is unique.
CreateDefaults(r) ==
  /\ change[r].pc = "get"
  /\ settings' = IF settings = NoSettings THEN Defaults ELSE settings
  /\ change' = [change EXCEPT ![r].pc = IF settings = NoSettings THEN "committed" ELSE "error"]
  /\ UNCHANGED <<table, asked>>

\* Columns of the UPDATE: the others keep what a concurrent request has stored.  A key
\* is encrypted anew and so differs from the loaded one.
WrittenColumns(r) ==
  {c \in Columns : \/ change[r].ask[c] # change[r].loaded[c]
                   \/ table = "llm" /\ c = "optional" /\ change[r].ask[c] # 0}

\* The commit of an update, an INSERT when no row was loaded.
CommitSettings(r) ==
  LET inserts == change[r].loaded = NoSettings
      fails == inserts /\ settings # NoSettings
  IN /\ change[r].pc = "put"
     /\ settings' = IF fails THEN settings
                    ELSE [c \in Columns |-> IF inserts \/ c \in WrittenColumns(r) THEN change[r].ask[c] ELSE settings[c]]
     /\ asked' = IF fails THEN asked ELSE asked \cup {change[r].ask}
     /\ change' = [s \in SettingsRequests |->
                     IF s = r THEN [change[s] EXCEPT !.pc = IF fails THEN "error" ELSE "committed", !.loaded = NoSettings]
                     ELSE [change[s] EXCEPT !.alone = @ /\ (fails \/ change[s].pc \notin {"get", "put", "committed"})]]
     /\ UNCHANGED table

\* refresh: the answer is the row as it is by then.
RefreshSettings(r) ==
  /\ change[r].pc = "committed"
  /\ change' = [change EXCEPT ![r].pc = "done", ![r].answer = settings]
  /\ UNCHANGED <<table, settings, asked>>

NextSettingsRequest(r) ==
  /\ change[r].pc \in {"done", "error"}
  /\ change' = [change EXCEPT ![r] = IdleChange]
  /\ UNCHANGED <<table, settings, asked>>

SettingsNext ==
  \E r \in SettingsRequests :
    \/ GetNotificationSettings(r) \/ GetCarbonSettings(r) \/ GetActiveopsSettings(r) \/ GetLlmSettings(r)
    \/ UpdateNotificationSettings(r) \/ UpdateCarbonSettings(r)
    \/ UpdateActiveopsSettings(r) \/ UpdateLlmSettings(r)
    \/ CreateDefaults(r) \/ CommitSettings(r) \/ RefreshSettings(r) \/ NextSettingsRequest(r)

SettingsSpec == SettingsInit /\ [][SettingsNext]_settingsVars

-----------------------------------------------------------------------------
\* Once an update is stored no read brings the defaults back, and however updates
\* overlap each column holds what one of them asked for, although the row as a whole
\* may be what nobody asked for (notifications.py:73-86, 115-127).
StoredWasAsked ==
  asked # {} => \A c \in Columns : \E row \in asked : row[c] = settings[c]

\* An update that no other update was stored beside is answered with exactly what it
\* asked for, columns set back to their default included (notifications.py:122-128).
AloneIsStored ==
  \A r \in SettingsRequests :
    change[r].pc = "done" /\ change[r].ask # NoSettings /\ change[r].alone => change[r].answer = change[r].ask

\* Updates are kept, whole when they are alone and column by column when they overlap.
SettingsInv == StoredWasAsked /\ AloneIsStored
=============================================================================
