----------------------------- MODULE TenantProofs ------------------------------
(***************************************************************************)
(* What is kept about a tenant: its secrets, its settings, the log of what *)
(* was done, and nothing after its erasure; and who its sessions run as.   *)
(***************************************************************************)
EXTENDS Access, Secrets, TenantSettings, AuditTrail, Erasure, FiniteSetTheorems, TLAPS

-----------------------------------------------------------------------------
(***************************************************************************)
(* What a rotation of keys leaves readable, for any number of processes    *)
(* and of rotations.                                                       *)
(***************************************************************************)

\* Keys, settings of a process, and the columns.
KeysMade == 1..keysMade
Config == [encryption : KeysMade, api : {Unset} \cup KeysMade, blind : {2}, legacy : SUBSET KeysMade]
Names == Fernets \cup {"email", "email_bidx"}

\* Settings, secrets and the index are made of keys, and the key of the index is the one
\* it started with: no rotation replaces it.
WellMade ==
  /\ keysMade \in Nat /\ keysMade >= 2
  /\ environment \in Config /\ running \in [Processes -> Config]
  /\ secrets \in [Names -> {Unset} \cup KeysMade]
  /\ secrets["email_bidx"] \in {Unset, 2}

\* What a process encrypts with, whichever settings it has loaded, and what is stored
\* already, can be decrypted with the settings of the environment.
Readable ==
  \A s \in Fernets :
    /\ \A p \in Processes :
         PrimaryKey(running[p], ContextOf[s]) \in DecryptionKeys(environment, ContextOf[s])
    /\ secrets[s] # Unset => secrets[s] \in DecryptionKeys(environment, ContextOf[s])

\* The inductive invariant of the keys.
KeysInv == WellMade /\ Readable

-----------------------------------------------------------------------------
\* The two encrypted columns with their contexts.
LEMMA TheContexts ==
  /\ Fernets = {"llm_key", "auth_code"}
  /\ \A s \in Fernets : ContextOf[s] \in {"generic", "api_key"}
  BY DEF Fernets, ContextOf

\* A rotation takes no key away: the one it replaces becomes a legacy key.
LEMMA RotationKeepsKeys ==
  ASSUME WellMade, NEW setting \in {"encryption", "api"}, RotateKey(setting),
         NEW context \in {"generic", "api_key"}
  PROVE  DecryptionKeys(environment, context) \subseteq DecryptionKeys(environment', context)
<1>1. environment \in Config
  BY DEF WellMade
<1>2. CASE setting = "encryption"
  BY <1>1, <1>2 DEF RotateKey, DecryptionKeys, PrimaryKey, Config
<1>3. CASE setting = "api"
  BY <1>1, <1>3 DEF RotateKey, DecryptionKeys, PrimaryKey, Config
<1>4. QED
  BY <1>2, <1>3

\* At first there are two keys and no secrets.
LEMMA SecretsStart == SecretsInit => KeysInv
<1> SUFFICES ASSUME SecretsInit PROVE KeysInv
  OBVIOUS
<1>1. environment \in Config /\ keysMade = 2
  BY DEF SecretsInit, Config, KeysMade
<1>2. running \in [Processes -> Config] /\ \A p \in Processes : running[p] = environment
  BY <1>1 DEF SecretsInit
<1>3. secrets \in [Names -> {Unset} \cup KeysMade] /\ \A n \in Names : secrets[n] = Unset
  BY DEF SecretsInit, Names
<1>4. WellMade
  BY <1>1, <1>2, <1>3 DEF WellMade, Names
<1>5. Readable
  BY <1>2, <1>3 DEF Readable, DecryptionKeys, Names
<1>6. QED
  BY <1>4, <1>5 DEF KeysInv

\* No step makes a secret unreadable.
LEMMA SecretsStep == KeysInv /\ [SecretsNext]_secretsVars => KeysInv'
<1> SUFFICES ASSUME KeysInv, [SecretsNext]_secretsVars PROVE KeysInv'
  OBVIOUS
<1>a. WellMade /\ Readable
  BY DEF KeysInv
<1>b. \A p \in Processes, x \in {"generic", "api_key"} : PrimaryKey(running[p], x) \in KeysMade
  BY <1>a DEF WellMade, Config, PrimaryKey
<1>1. ASSUME NEW p \in Processes, NEW s \in Fernets, StoreSecret(p, s) PROVE KeysInv'
  <2>1. PrimaryKey(running[p], ContextOf[s]) \in KeysMade
    BY <1>b, TheContexts
  <2>2. s \in Names /\ s # "email_bidx"
    BY TheContexts DEF Names
  <2>3. WellMade'
    BY <1>1, <1>a, <2>1, <2>2 DEF StoreSecret, WellMade, Config, KeysMade, Names
  <2>4. Readable'
    BY <1>1, <1>a, <2>2 DEF StoreSecret, Readable, WellMade, Names
  <2>5. QED
    BY <2>3, <2>4 DEF KeysInv
<1>2. ASSUME NEW p \in Processes, SetEmail(p) PROVE KeysInv'
  <2>1. running[p].encryption \in KeysMade /\ running[p].blind = 2
    BY <1>a DEF WellMade, Config
  <2>2. BlindIndexKey(running[p]) = 2 /\ 2 \in KeysMade
    BY <1>a, <2>1, UnsetIsNoKey DEF BlindIndexKey, WellMade, KeysMade
  <2>3. WellMade'
    BY <1>2, <1>a, <2>1, <2>2 DEF SetEmail, WellMade, Config, KeysMade, Names
  <2>4. \A s \in Fernets : s # "email" /\ s # "email_bidx" /\ s \in Names
    BY TheContexts DEF Names
  <2>5. Readable'
    BY <1>2, <1>a, <2>4 DEF SetEmail, Readable, WellMade
  <2>6. QED
    BY <2>3, <2>5 DEF KeysInv
<1>3. ASSUME NEW p \in Processes, RestartProcess(p) PROVE KeysInv'
  <2>1. WellMade'
    BY <1>3, <1>a DEF RestartProcess, WellMade, Config, KeysMade, Names
  <2>2. Readable'
    BY <1>3, <1>a DEF RestartProcess, Readable, WellMade, DecryptionKeys
  <2>3. QED
    BY <2>1, <2>2 DEF KeysInv
<1>4. ASSUME NEW setting \in {"encryption", "api"}, RotateKey(setting) PROVE KeysInv'
  <2>1. keysMade' = keysMade + 1 /\ UNCHANGED <<running, secrets>>
    BY <1>4 DEF RotateKey
  <2>2. KeysMade \subseteq KeysMade' /\ keysMade + 1 \in KeysMade'
    BY <1>a, <2>1 DEF KeysMade, WellMade
  <2>3. PrimaryKey(environment, IF setting = "api" THEN "api_key" ELSE "generic") \in KeysMade
    BY <1>a DEF WellMade, Config, PrimaryKey
  <2>4. environment' \in Config'
    BY <1>4, <1>a, <2>2, <2>3 DEF RotateKey, WellMade, Config
  <2>5. WellMade'
    BY <1>a, <2>1, <2>2, <2>4 DEF WellMade, Config, Names
  <2>6. \A s \in Fernets :
          DecryptionKeys(environment, ContextOf[s]) \subseteq DecryptionKeys(environment', ContextOf[s])
    BY <1>4, <1>a, RotationKeepsKeys, TheContexts
  <2>7. Readable'
    BY <1>a, <2>1, <2>6 DEF Readable
  <2>8. QED
    BY <2>5, <2>7 DEF KeysInv
<1>5. CASE UNCHANGED secretsVars
  BY <1>5, <1>a DEF secretsVars, KeysInv, WellMade, Readable, Config, KeysMade, Names
<1>6. QED
  BY <1>1, <1>2, <1>3, <1>4, <1>5 DEF SecretsNext

\* A process that runs with the current settings reads every encrypted column, whoever
\* wrote it and whatever was rotated since, and every process finds a user by the index of
\* the e-mail (security.py:22-31, 189-232).
THEOREM RotationLosesNothing == SecretsSpec => [](SecretsTypeOK /\ SecretsInv)
<1>1. KeysInv => SecretsInv
  <2> SUFFICES ASSUME KeysInv PROVE SecretsInv
    OBVIOUS
  <2>1. RestartedReadsAll
    BY DEF KeysInv, Readable, RestartedReadsAll, Decrypts
  <2>2. \A p \in Processes : BlindIndexKey(running[p]) = 2
    BY UnsetIsNoKey DEF KeysInv, WellMade, Config, BlindIndexKey
  <2>3. EmailIsFound
    BY <2>2 DEF KeysInv, WellMade, EmailIsFound
  <2>4. QED
    BY <2>1, <2>3 DEF SecretsInv
<1> DEFINE Bounded == keysMade <= MaxKeys
<1>2. SecretsInit => Bounded
  BY UnsetIsNoKey DEF SecretsInit
<1>3. KeysInv /\ Bounded /\ [SecretsNext]_secretsVars => Bounded'
  <2> SUFFICES ASSUME KeysInv, Bounded, [SecretsNext]_secretsVars PROVE Bounded'
    OBVIOUS
  <2>1. CASE UNCHANGED keysMade
    BY <2>1
  <2>2. ASSUME NEW setting \in {"encryption", "api"}, RotateKey(setting) PROVE Bounded'
    <3>1. keysMade < MaxKeys /\ keysMade' = keysMade + 1
      BY <2>2 DEF RotateKey
    <3> QED
      BY <3>1, UnsetIsNoKey DEF KeysInv, WellMade
  <2> QED
    BY <2>1, <2>2 DEF SecretsNext, SetEmail, RestartProcess, StoreSecret, secretsVars
<1>4. KeysInv /\ Bounded => SecretsTypeOK
  <2> SUFFICES ASSUME KeysInv, Bounded PROVE SecretsTypeOK
    OBVIOUS
  <2>1. keysMade \in 2..MaxKeys /\ 2 \in 1..keysMade
    BY UnsetIsNoKey DEF KeysInv, WellMade
  <2>2. environment \in Config /\ \A p \in Processes : running[p] \in Config
    BY DEF KeysInv, WellMade
  <2>3. ASSUME NEW config \in Config
        PROVE  /\ {config.encryption, config.blind} \subseteq 1..keysMade
               /\ config.api \in {Unset} \cup 1..keysMade /\ config.legacy \subseteq 1..keysMade
    BY <2>1 DEF Config, KeysMade
  <2>4. secrets \in [Fernets \cup {"email", "email_bidx"} -> {Unset} \cup 1..keysMade]
    BY DEF KeysInv, WellMade, Names, KeysMade
  <2> QED
    BY <2>1, <2>2, <2>3, <2>4 DEF SecretsTypeOK
<1> HIDE DEF Bounded
<1> QED
  BY <1>1, <1>2, <1>3, <1>4, SecretsStart, SecretsStep, PTL DEF SecretsSpec

-----------------------------------------------------------------------------
(***************************************************************************)
(* The rows of settings, for any number of columns, values and concurrent  *)
(* requests.                                                               *)
(***************************************************************************)

\* A request about settings.
ChangeState ==
  [pc : {"idle", "get", "put", "committed", "done", "error"}, ask : Rows \cup {NoSettings},
   loaded : Rows \cup {NoSettings}, answer : Rows \cup {NoSettings}, alone : BOOLEAN]

SettingsShape ==
  /\ table \in SettingsTables /\ settings \in Rows \cup {NoSettings} /\ asked \subseteq Rows
  /\ change \in [SettingsRequests -> ChangeState]

\* Until an update is stored the row is missing or holds the defaults; afterwards each
\* column holds what was asked for.
RowIsAsked ==
  /\ asked = {} => settings \in {NoSettings, Defaults}
  /\ settings = NoSettings => asked = {}
  /\ StoredWasAsked

\* What a request that nobody disturbed has loaded, or committed, is still the row.
UpToDate(c) ==
  /\ c.pc \in {"idle", "get"} => c.ask = NoSettings
  /\ c.pc = "put" => c.ask \in Rows
  /\ c.pc = "put" /\ c.loaded # NoSettings /\ (c.alone \/ asked = {}) => settings = c.loaded
  /\ c.pc = "put" /\ c.loaded # NoSettings => settings # NoSettings
  /\ c.pc = "committed" /\ c.ask # NoSettings /\ c.alone => settings = c.ask
  /\ c.pc = "done" /\ c.ask # NoSettings /\ c.alone => c.answer = c.ask

\* The inductive invariant of the settings.
SettingsInd == SettingsShape /\ RowIsAsked /\ \A r \in SettingsRequests : UpToDate(change[r])

-----------------------------------------------------------------------------
\* A row is no missing row.
LEMMA RowsExist == NoSettings \notin Rows /\ Defaults \in Rows
<1>1. \A row \in Rows : row["optional"] \in SettingValues
  BY DEF Rows, Columns
<1>2. NoSettings["optional"] = -1
  BY DEF NoSettings, Columns
<1>3. Defaults \in Rows
  BY SettingsAssumption DEF Rows, Defaults
<1> QED
  BY <1>1, <1>2, <1>3, SettingsAssumption

\* At first there is no row and no request.
LEMMA SettingsStart == SettingsInit => SettingsInd
<1> SUFFICES ASSUME SettingsInit PROVE SettingsInd
  OBVIOUS
<1>1. IdleChange \in ChangeState
  BY DEF IdleChange, ChangeState
<1>2. SettingsShape
  BY <1>1 DEF SettingsInit, SettingsShape
<1>3. RowIsAsked
  BY DEF SettingsInit, RowIsAsked, StoredWasAsked
<1>4. \A r \in SettingsRequests : change[r] = IdleChange
  BY DEF SettingsInit
<1>5. UpToDate(IdleChange)
  BY DEF UpToDate, IdleChange
<1> QED
  BY <1>2, <1>3, <1>4, <1>5 DEF SettingsInd

\* A step of one request that leaves the row and what was asked as they are.
LEMMA RequestMoves ==
  ASSUME SettingsInd, NEW r \in SettingsRequests, NEW c \in ChangeState,
         change' = [change EXCEPT ![r] = c], UpToDate(c),
         UNCHANGED <<table, settings, asked>>
  PROVE  SettingsInd'
<1>1. SettingsShape'
  BY DEF SettingsInd, SettingsShape
<1>2. RowIsAsked'
  BY DEF SettingsInd, RowIsAsked, StoredWasAsked
<1>3. ASSUME NEW s \in SettingsRequests PROVE UpToDate(change[s])'
  <2>1. change'[s] = IF s = r THEN c ELSE change[s]
    BY DEF SettingsInd, SettingsShape
  <2>2. UpToDate(change'[s])
    BY <2>1 DEF SettingsInd
  <2> QED
    BY <2>2 DEF UpToDate
<1> QED
  BY <1>1, <1>2, <1>3 DEF SettingsInd

\* Loading: for a read that answers or goes on to create, or for an update.
LEMMA Loading ==
  ASSUME SettingsInd, NEW r \in SettingsRequests, LoadForGet(r) \/ LoadForPut(r)
  PROVE  SettingsInd'
<1>0. change[r] \in ChangeState /\ UpToDate(change[r]) /\ change[r].pc = "idle"
      /\ settings \in Rows \cup {NoSettings}
  BY DEF SettingsInd, SettingsShape, LoadForGet, LoadForPut
<1>1. CASE LoadForGet(r)
  <2> DEFINE c == [change[r] EXCEPT !.pc = IF settings = NoSettings THEN "get" ELSE "done", !.answer = settings]
  <2>1. change' = [change EXCEPT ![r] = c] /\ UNCHANGED <<table, settings, asked>>
    BY <1>1 DEF LoadForGet
  <2>2. c \in ChangeState
    BY <1>0 DEF ChangeState
  <2>3. UpToDate(c)
    BY <1>0 DEF UpToDate, ChangeState
  <2> QED
    BY <2>1, <2>2, <2>3, RequestMoves
<1>2. CASE LoadForPut(r)
  <2>0. PICK row \in Rows : change' = [change EXCEPT ![r].pc = "put", ![r].ask = row, ![r].loaded = settings]
    BY <1>2 DEF LoadForPut
  <2> DEFINE c == [change[r] EXCEPT !.pc = "put", !.ask = row, !.loaded = settings]
  <2>1. change' = [change EXCEPT ![r] = c] /\ UNCHANGED <<table, settings, asked>>
    BY <1>2, <2>0 DEF LoadForPut
  <2>2. c \in ChangeState
    BY <1>0 DEF ChangeState
  <2>3. UpToDate(c)
    BY <1>0 DEF UpToDate, ChangeState
  <2> QED
    BY <2>1, <2>2, <2>3, RequestMoves
<1> QED
  BY <1>1, <1>2

\* A request is answered with the row, or ends.
LEMMA Answering ==
  ASSUME SettingsInd, NEW r \in SettingsRequests, RefreshSettings(r) \/ NextSettingsRequest(r)
  PROVE  SettingsInd'
<1>0. change[r] \in ChangeState /\ UpToDate(change[r]) /\ settings \in Rows \cup {NoSettings}
  BY DEF SettingsInd, SettingsShape
<1>1. CASE RefreshSettings(r)
  <2> DEFINE c == [change[r] EXCEPT !.pc = "done", !.answer = settings]
  <2>1. change' = [change EXCEPT ![r] = c] /\ UNCHANGED <<table, settings, asked>>
    BY <1>1 DEF RefreshSettings
  <2>2. c \in ChangeState
    BY <1>0 DEF ChangeState
  <2>3. UpToDate(c)
    BY <1>0, <1>1 DEF UpToDate, ChangeState, RefreshSettings
  <2> QED
    BY <2>1, <2>2, <2>3, RequestMoves
<1>2. CASE NextSettingsRequest(r)
  <2>1. change' = [change EXCEPT ![r] = IdleChange] /\ UNCHANGED <<table, settings, asked>>
    BY <1>2 DEF NextSettingsRequest
  <2>2. IdleChange \in ChangeState /\ UpToDate(IdleChange)
    BY DEF IdleChange, ChangeState, UpToDate
  <2> QED
    BY <2>1, <2>2, RequestMoves
<1> QED
  BY <1>1, <1>2

\* Defaults are stored only where no row is, and so before any update was.
LEMMA Creating ==
  ASSUME SettingsInd, NEW r \in SettingsRequests, CreateDefaults(r)
  PROVE  SettingsInd'
<1>0. change[r] \in ChangeState /\ UpToDate(change[r]) /\ change[r].pc = "get" /\ change \in [SettingsRequests -> ChangeState]
  BY DEF SettingsInd, SettingsShape, CreateDefaults
<1>1. CASE settings # NoSettings
  <2> DEFINE c == [change[r] EXCEPT !.pc = "error"]
  <2>1. change' = [change EXCEPT ![r] = c] /\ UNCHANGED <<table, settings, asked>>
    BY <1>1 DEF CreateDefaults
  <2>2. c \in ChangeState /\ UpToDate(c)
    BY <1>0 DEF ChangeState, UpToDate
  <2> QED
    BY <2>1, <2>2, RequestMoves
<1>2. CASE settings = NoSettings
  <2> DEFINE c == [change[r] EXCEPT !.pc = "committed"]
  <2>1. change' = [change EXCEPT ![r] = c] /\ settings' = Defaults /\ UNCHANGED <<table, asked>>
    BY <1>2 DEF CreateDefaults
  <2>2. c \in ChangeState /\ c.ask = NoSettings /\ c.pc = "committed"
    BY <1>0 DEF ChangeState, UpToDate
  <2>3. asked = {}
    BY <1>2 DEF SettingsInd, RowIsAsked
  <2>4. SettingsShape'
    BY <2>1, <2>2, RowsExist DEF SettingsInd, SettingsShape
  <2>5. RowIsAsked'
    BY <2>1, <2>3, RowsExist DEF RowIsAsked, StoredWasAsked
  <2>6. ASSUME NEW s \in SettingsRequests PROVE UpToDate(change[s])'
    <3>1. change'[s] = IF s = r THEN c ELSE change[s]
      BY <2>1, <1>0
    <3>2. UpToDate(change[s])
      BY DEF SettingsInd
    <3>3. CASE s = r
      BY <3>1, <3>3, <2>2 DEF UpToDate
    <3>4. CASE s # r
      <4>1. change'[s] = change[s] /\ (change[s].pc # "committed" \/ change[s].ask = NoSettings \/ ~change[s].alone)
        BY <3>1, <3>2, <3>4, <1>2, RowsExist, <1>0 DEF UpToDate, ChangeState
      <4> QED
        BY <4>1, <3>1, <3>2, <3>4, <1>2, <2>1, <2>3 DEF UpToDate
    <3> QED
      BY <3>3, <3>4
  <2> QED
    BY <2>4, <2>5, <2>6 DEF SettingsInd
<1> QED
  BY <1>1, <1>2

\* An update stores, in each column it does not write, what it has loaded there unless
\* an earlier update disturbed it; whoever is at work is then no longer alone.
LEMMA ChangeCommits ==
  ASSUME SettingsInd, NEW r \in SettingsRequests, CommitSettings(r)
  PROVE  SettingsInd'
<1> DEFINE creates == change[r].loaded = NoSettings
           fails == creates /\ settings # NoSettings
           written == IF fails THEN settings
                      ELSE [c \in Columns |-> IF creates \/ c \in WrittenColumns(r)
                                              THEN change[r].ask[c] ELSE settings[c]]
           mine == [change[r] EXCEPT !.pc = IF fails THEN "error" ELSE "committed", !.loaded = NoSettings]
           alone(s) == change[s].alone /\ (fails \/ change[s].pc \notin {"get", "put", "committed"})
<1>1. /\ change[r] \in ChangeState /\ UpToDate(change[r]) /\ change[r].pc = "put" /\ change[r].ask \in Rows
      /\ change \in [SettingsRequests -> ChangeState] /\ settings \in Rows \cup {NoSettings} /\ asked \subseteq Rows
      /\ table \in SettingsTables
  BY DEF SettingsInd, SettingsShape, CommitSettings, UpToDate
<1>2. /\ settings' = written /\ table' = table
      /\ asked' = IF fails THEN asked ELSE asked \cup {change[r].ask}
      /\ change' = [s \in SettingsRequests |-> IF s = r THEN mine ELSE [change[s] EXCEPT !.alone = alone(s)]]
  BY DEF CommitSettings
<1>3. change'[r] = mine /\ mine \in ChangeState
  BY <1>1, <1>2 DEF ChangeState
<1>4. ASSUME NEW s \in SettingsRequests, s # r
      PROVE  change'[s] = [change[s] EXCEPT !.alone = alone(s)] /\ change'[s] \in ChangeState
  BY <1>1, <1>2, <1>4 DEF ChangeState
<1>5. ~fails => written \in Rows
  <2> SUFFICES ASSUME ~fails PROVE written \in Rows
    OBVIOUS
  <2>1. creates \/ settings \in Rows
    BY <1>1 DEF UpToDate
  <2> QED
    BY <1>1, <2>1 DEF Rows
<1>6. SettingsShape'
  <2>1. change' \in [SettingsRequests -> ChangeState]
    BY <1>2, <1>3, <1>4
  <2> QED
    BY <1>1, <1>2, <1>5, <2>1 DEF SettingsShape
<1>7. RowIsAsked'
  <2>1. CASE fails
    BY <1>2, <2>1 DEF SettingsInd, RowIsAsked, StoredWasAsked
  <2>2. CASE ~fails
    <3>1. asked' = asked \cup {change[r].ask} /\ settings' = written /\ written \in Rows
      BY <1>2, <1>5, <2>2
    <3>2. ASSUME NEW c \in Columns PROVE \E row \in asked' : row[c] = settings'[c]
      <4>1. CASE creates \/ c \in WrittenColumns(r)
        BY <3>1, <4>1, <2>2
      <4>2. CASE ~(creates \/ c \in WrittenColumns(r))
        <5>1. settings'[c] = settings[c] /\ change[r].ask[c] = change[r].loaded[c]
          BY <3>1, <4>2, <2>2 DEF WrittenColumns
        <5>2. CASE asked = {}
          BY <5>1, <5>2, <1>1, <3>1, <4>2 DEF UpToDate
        <5>3. CASE asked # {}
          BY <5>1, <5>3, <3>1 DEF SettingsInd, RowIsAsked, StoredWasAsked
        <5> QED
          BY <5>2, <5>3
      <4> QED
        BY <4>1, <4>2
    <3> QED
      BY <3>1, <3>2, RowsExist DEF RowIsAsked, StoredWasAsked
  <2> QED
    BY <2>1, <2>2
<1>8. UpToDate(change[r])'
  <2>1. CASE fails
    <3>1. mine.pc = "error"
      BY <1>1, <2>1 DEF ChangeState
    <3> QED
      BY <3>1, <1>3 DEF UpToDate
  <2>2. CASE ~fails
    <3>1. mine.pc = "committed" /\ mine.ask = change[r].ask /\ mine.alone = change[r].alone
      BY <1>1, <2>2 DEF ChangeState
    <3>2. change[r].alone => written = change[r].ask
      <4> SUFFICES ASSUME change[r].alone PROVE written = change[r].ask
        OBVIOUS
      <4>1. ~creates => settings = change[r].loaded
        BY <1>1 DEF UpToDate
      <4>2. \A c \in Columns : written[c] = change[r].ask[c]
        BY <4>1, <2>2 DEF WrittenColumns
      <4> QED
        BY <4>2, <1>5, <2>2, <1>1 DEF Rows
    <3> QED
      BY <3>1, <3>2, <1>2, <1>3 DEF UpToDate
  <2> QED
    BY <2>1, <2>2
<1>9. ASSUME NEW s \in SettingsRequests, s # r PROVE UpToDate(change[s])'
  <2> DEFINE d == [change[s] EXCEPT !.alone = alone(s)]
  <2>1. change'[s] = d /\ UpToDate(change[s]) /\ change[s] \in ChangeState
    BY <1>1, <1>4, <1>9 DEF SettingsInd
  <2>2. d.pc = change[s].pc /\ d.ask = change[s].ask /\ d.loaded = change[s].loaded
        /\ d.answer = change[s].answer /\ d.alone = alone(s)
    BY <2>1 DEF ChangeState
  <2>3. CASE fails
    <3>1. settings' = settings /\ asked' = asked
      BY <1>2, <2>3
    <3>2. /\ d.pc = change[s].pc /\ d.ask = change[s].ask /\ d.loaded = change[s].loaded
          /\ d.answer = change[s].answer /\ d.alone = change[s].alone
      BY <2>1, <2>2, <2>3 DEF ChangeState
    <3> HIDE DEF d, fails
    <3> QED
      BY <2>1, <3>1, <3>2 DEF UpToDate
  <2>4. CASE ~fails
    <3>1. asked' # {} /\ settings' \in Rows
      BY <1>2, <1>5, <2>4
    <3> QED
      BY <2>1, <2>2, <2>4, <3>1, RowsExist DEF UpToDate
  <2> QED
    BY <2>3, <2>4
<1> QED
  BY <1>6, <1>7, <1>8, <1>9 DEF SettingsInd

\* Whatever requests overlap, updates are kept, whole when they are alone and column by
\* column otherwise, and a read never brings the defaults back.
THEOREM SettingsAreKept == SettingsSpec => [](SettingsTypeOK /\ SettingsInv)
<1>1. SettingsInd /\ [SettingsNext]_settingsVars => SettingsInd'
  <2> SUFFICES ASSUME SettingsInd, [SettingsNext]_settingsVars PROVE SettingsInd'
    OBVIOUS
  <2>1. CASE UNCHANGED settingsVars
    BY <2>1 DEF settingsVars, SettingsInd, SettingsShape, RowIsAsked, StoredWasAsked, UpToDate
  <2>2. ASSUME NEW r \in SettingsRequests,
               LoadForGet(r) \/ LoadForPut(r) \/ CreateDefaults(r) \/ CommitSettings(r)
                 \/ RefreshSettings(r) \/ NextSettingsRequest(r)
        PROVE  SettingsInd'
    BY <2>2, Loading, Creating, ChangeCommits, Answering
  <2> QED
    BY <2>1, <2>2 DEF SettingsNext, GetNotificationSettings, GetCarbonSettings, GetActiveopsSettings,
      GetLlmSettings, UpdateNotificationSettings, UpdateCarbonSettings, UpdateActiveopsSettings, UpdateLlmSettings
<1>2. SettingsInd => SettingsInv
  BY DEF SettingsInd, RowIsAsked, UpToDate, SettingsInv, StoredWasAsked, AloneIsStored
<1>3. SettingsInd => SettingsTypeOK
  BY DEF SettingsInd, SettingsShape, ChangeState, SettingsTypeOK
<1> QED
  BY <1>1, <1>2, <1>3, SettingsStart, PTL DEF SettingsSpec

-----------------------------------------------------------------------------
(***************************************************************************)
(* The audit log, for any number of operations, size of a page and limit   *)
(* of an export.                                                           *)
(***************************************************************************)

\* An operation that is logged, and a reader of the log.
Operation == [pc : {"idle", "flushed", "committed", "lost"}, time : Nat]
Paging == [pc : {"idle", "reading", "read"}, page : Nat, shown : SUBSET Operations, before : SUBSET Operations]

\* How many entries come before one, in the order of the pages.
Rank(o) == Cardinality(Before(o, Ascending))

\* The entries have times of their own.
Times ==
  /\ \A o \in Operations : op[o].pc # "idle" => op[o].time <= clock
  /\ \A o, p \in Operations : o # p /\ op[o].pc # "idle" /\ op[p].pc # "idle" => op[o].time # op[p].time

\* What was there at the start and now comes before the reader's offset has been shown:
\* an entry that is committed late moves others back, never forward.
Shown ==
  /\ paging.before \subseteq Log
  /\ paging.pc = "reading" => \A o \in paging.before : Rank(o) < paging.page * PageSize => o \in paging.shown

\* The inductive invariant of the log.
AuditInd ==
  /\ op \in [Operations -> Operation] /\ clock \in Nat /\ paging \in Paging
  /\ exported \in [rows : SUBSET Operations, log : SUBSET Operations]
  /\ Times /\ Shown
  /\ exported.log \subseteq Log /\ exported.rows \subseteq exported.log
  /\ AuditInv

-----------------------------------------------------------------------------
\* The log is a finite set of entries.
LEMMA LogIsFinite == Log \in SUBSET Operations /\ IsFiniteSet(Log) /\ Cardinality(Log) \in Nat
<1>1. Log \in SUBSET Operations
  BY DEF Log
<1>2. IsFiniteSet(Log)
  BY <1>1, AuditAssumption, FS_Subset
<1> QED
  BY <1>1, <1>2, FS_CardinalityType

\* The entries before one are fewer than those of the log.
LEMMA BeforeIsFinite ==
  ASSUME NEW o \in Log, NEW up \in BOOLEAN, op \in [Operations -> Operation]
  PROVE  /\ Before(o, up) \in SUBSET (Log \ {o}) /\ IsFiniteSet(Before(o, up))
         /\ Cardinality(Before(o, up)) \in 0..Cardinality(Log) - 1
<1>1. Before(o, up) \in SUBSET (Log \ {o})
  BY DEF Before, Operation, Log
<1>2. IsFiniteSet(Log \ {o}) /\ Cardinality(Log \ {o}) = Cardinality(Log) - 1
  BY LogIsFinite, FS_RemoveElement
<1>3. IsFiniteSet(Before(o, up)) /\ Cardinality(Before(o, up)) <= Cardinality(Log \ {o})
  BY <1>1, <1>2, FS_Subset
<1>4. Cardinality(Before(o, up)) \in Nat
  BY <1>3, FS_CardinalityType
<1> QED
  BY <1>1, <1>2, <1>3, <1>4, LogIsFinite

\* Of two entries the one that comes first has the lower rank.
LEMMA RanksFollowTimes ==
  ASSUME op \in [Operations -> Operation], NEW up \in BOOLEAN, NEW o \in Log, NEW p \in Before(o, up)
  PROVE  Cardinality(Before(p, up)) < Cardinality(Before(o, up))
<1>1. p \in Log /\ Before(p, up) \in SUBSET Before(o, up) /\ p \notin Before(p, up)
  BY DEF Before, Operation, Log
<1>2. IsFiniteSet(Before(o, up)) /\ Cardinality(Before(o, up)) \in Nat /\ Cardinality(Before(p, up)) \in Nat
  BY <1>1, BeforeIsFinite
<1>3. Cardinality(Before(p, up)) <= Cardinality(Before(o, up)) /\ Cardinality(Before(p, up)) # Cardinality(Before(o, up))
  BY <1>1, <1>2, FS_Subset
<1> QED
  BY <1>2, <1>3

\* Of two entries, one comes before the other.
LEMMA OneComesFirst ==
  ASSUME op \in [Operations -> Operation], Times, NEW up \in BOOLEAN, NEW o \in Log, NEW p \in Log, o # p
  PROVE  o \in Before(p, up) \/ p \in Before(o, up)
<1>1. op[o].time # op[p].time /\ op[o].time \in Nat /\ op[p].time \in Nat
  BY DEF Times, Log, Operation
<1> QED
  BY <1>1 DEF Before

\* No rank below the number of entries is free.
LEMMA RanksAreTaken ==
  ASSUME op \in [Operations -> Operation], Times, NEW k \in 0..Cardinality(Log) - 1
  PROVE  \E o \in Log : Rank(o) = k
<1> DEFINE T == 0..Cardinality(Log) - 1
           f == [o \in Log |-> Rank(o)]
<1>1. f \in [Log -> T]
  BY BeforeIsFinite, AuditAssumption DEF Rank
<1>2. ASSUME NEW o \in Log, NEW p \in Log, o # p PROVE Rank(o) # Rank(p)
  <2>1. Rank(o) \in Int /\ Rank(p) \in Int
    BY <1>1
  <2>2. Rank(o) < Rank(p) \/ Rank(p) < Rank(o)
    BY <1>2, OneComesFirst, RanksFollowTimes, AuditAssumption DEF Rank
  <2> QED
    BY <2>1, <2>2
<1>3. f \in Injection(Log, T)
  BY <1>1, <1>2 DEF Injection, IsInjective
<1>4. IsFiniteSet(T) /\ Cardinality(T) = Cardinality(Log)
  <2>1. 0 \in Int /\ Cardinality(Log) - 1 \in Int /\ Cardinality(Log) \in Nat
    BY LogIsFinite
  <2>2. IsFiniteSet(T) /\ Cardinality(T) = IF 0 > Cardinality(Log) - 1 THEN 0 ELSE Cardinality(Log) - 1 - 0 + 1
    BY <2>1, FS_Interval
  <2> QED
    BY <2>1, <2>2
<1> HIDE DEF f
<1>5. f \in Surjection(Log, T)
  BY <1>3, <1>4, FS_Injection
<1>6. PICK o \in Log : f[o] = k
  BY <1>5 DEF Surjection
<1> QED
  BY <1>6 DEF f

\* A page that is not full is the last one.
LEMMA LastPage ==
  ASSUME op \in [Operations -> Operation], Times, NEW n \in Nat, Cardinality(Page(n)) < PageSize, NEW o \in Log
  PROVE  Rank(o) < (n + 1) * PageSize
<1>1. PICK a \in Nat : a = n * PageSize
  BY AuditAssumption
<1>2. PageSize \in Nat /\ PageSize > 0 /\ (n + 1) * PageSize = a + PageSize
  BY <1>1, AuditAssumption
<1>3. Rank(o) \in 0..Cardinality(Log) - 1 /\ Cardinality(Log) \in Nat
  BY BeforeIsFinite, LogIsFinite, AuditAssumption DEF Rank
<1> SUFFICES ASSUME Rank(o) >= a + PageSize PROVE FALSE
  BY <1>2, <1>3
<1> DEFINE T == a..a + PageSize - 1
           f == [p \in Page(n) |-> Rank(p)]
<1>4. Page(n) = {p \in Log : Rank(p) \in T}
  BY <1>1, <1>2 DEF Page, Rank
<1>5. f \in [Page(n) -> T]
  BY <1>4
<1>6. ASSUME NEW k \in T PROVE \E p \in Page(n) : f[p] = k
  <2>1. k \in 0..Cardinality(Log) - 1
    BY <1>2, <1>3
  <2>2. PICK p \in Log : Rank(p) = k
    BY <2>1, RanksAreTaken
  <2> QED
    BY <1>4, <2>2
<1>7. f \in Surjection(Page(n), T)
  BY <1>5, <1>6 DEF Surjection
<1>8. Page(n) \in SUBSET Log
  BY <1>4
<1>9. IsFiniteSet(Page(n)) /\ Cardinality(Page(n)) \in Nat
  BY <1>8, LogIsFinite, FS_Subset, FS_CardinalityType
<1>10. IsFiniteSet(T) /\ Cardinality(T) = PageSize
  <2>1. PICK b \in Int : b = a + PageSize - 1
    BY <1>2
  <2>2. T = a..b /\ a \in Int
    BY <2>1
  <2> HIDE DEF T
  <2>3. IsFiniteSet(T) /\ Cardinality(T) = IF a > b THEN 0 ELSE b - a + 1
    BY <2>2, FS_Interval
  <2>4. b - a + 1 = PageSize /\ ~(a > b)
    BY <1>2, <2>1
  <2> QED
    BY <2>3, <2>4
<1> HIDE DEF f, T
<1>11. Cardinality(T) <= Cardinality(Page(n))
  BY <1>7, <1>9, FS_Surjection
<1> QED
  BY <1>2, <1>9, <1>10, <1>11

\* Of two entries with a limit between their ranks, the one below comes first.
LEMMA LimitFallsBetween ==
  ASSUME op \in [Operations -> Operation], Times, NEW up \in BOOLEAN, NEW o \in Log, NEW p \in Log,
         Cardinality(Before(p, up)) < ExportLimit, ~(Cardinality(Before(o, up)) < ExportLimit)
  PROVE  p \in Before(o, up)
<1>1. o # p
  OBVIOUS
<1>2. ASSUME o \in Before(p, up) PROVE FALSE
  <2>1. Cardinality(Before(o, up)) < Cardinality(Before(p, up))
    BY <1>2, RanksFollowTimes
  <2>2. Cardinality(Before(o, up)) \in Nat /\ Cardinality(Before(p, up)) \in Nat
    BY BeforeIsFinite, LogIsFinite
  <2> QED
    BY <2>1, <2>2, AuditAssumption
<1> QED
  BY <1>1, <1>2, OneComesFirst

-----------------------------------------------------------------------------
\* At first the log is empty and nobody reads it.
LEMMA AuditStart == AuditInit => AuditInd
<1> SUFFICES ASSUME AuditInit PROVE AuditInd
  OBVIOUS
<1>1. op \in [Operations -> Operation] /\ clock \in Nat /\ \A o \in Operations : op[o].pc = "idle"
  BY DEF AuditInit, Operation
<1>2. paging \in Paging /\ paging.pc = "idle" /\ paging.before = {}
  BY DEF AuditInit, NoPaging, Paging
<1>3. exported \in [rows : SUBSET Operations, log : SUBSET Operations] /\ exported.rows = {} /\ exported.log = {}
  BY DEF AuditInit
<1> QED
  BY <1>1, <1>2, <1>3 DEF AuditInd, Times, Shown, AuditInv, PagingShowsAll, ExportIsNewest

\* A step of an operation: the log may grow, and the entries in it keep their times.
LEMMA LogGrows ==
  ASSUME AuditInd, op' \in [Operations -> Operation], clock' \in Nat, Times', UNCHANGED <<paging, exported>>,
         \A o \in Log : op'[o] = op[o]
  PROVE  AuditInd'
<1>1. Log \subseteq Log'
  BY DEF Log
<1>2. ASSUME NEW o \in Log PROVE Rank(o) <= Rank(o)' /\ Rank(o) \in Int /\ Rank(o)' \in Int
  <2>1. Before(o, Ascending) \in SUBSET Before(o, Ascending)'
    BY <1>1 DEF Before, Log
  <2>2. IsFiniteSet(Before(o, Ascending)')
    <3>1. Before(o, Ascending)' \in SUBSET Operations
      BY DEF Before, Log
    <3> QED
      BY <3>1, AuditAssumption, FS_Subset
  <2>3. Cardinality(Before(o, Ascending)) <= Cardinality(Before(o, Ascending)')
    BY <2>1, <2>2, FS_Subset
  <2>4. IsFiniteSet(Before(o, Ascending))
    BY <2>1, <2>2, FS_Subset
  <2>5. Cardinality(Before(o, Ascending)) \in Nat /\ Cardinality(Before(o, Ascending)') \in Nat
    BY <2>2, <2>4, FS_CardinalityType
  <2> QED
    BY <2>3, <2>5 DEF Rank
<1>3. Shown'
  <2>1. paging.before \subseteq Log'
    BY <1>1 DEF AuditInd, Shown
  <2>2. ASSUME paging.pc = "reading", NEW o \in paging.before, Rank(o)' < paging.page * PageSize
        PROVE  o \in paging.shown
    <3>1. o \in Log
      BY DEF AuditInd, Shown
    <3>2. paging.page * PageSize \in Int
      BY AuditAssumption DEF AuditInd, Paging
    <3>3. Rank(o) < paging.page * PageSize
      BY <1>2, <2>2, <3>1, <3>2
    <3> QED
      BY <2>2, <3>3 DEF AuditInd, Shown
  <2> QED
    BY <2>1, <2>2 DEF Shown, Rank
<1>4. exported.log \subseteq Log'
  BY <1>1 DEF AuditInd
<1>5. AuditInv'
  <2>1. PagingShowsAll'
    BY DEF AuditInd, AuditInv, PagingShowsAll
  <2>2. ExportIsNewest'
    BY DEF AuditInd, AuditInv, ExportIsNewest
  <2> QED
    BY <2>1, <2>2 DEF AuditInv
<1> QED
  BY <1>3, <1>4, <1>5 DEF AuditInd

\* An entry that is written, committed or lost has a time of its own.
LEMMA Logging ==
  ASSUME AuditInd, NEW o \in Operations, FlushEntry(o) \/ EndOperation(o)
  PROVE  AuditInd'
<1>1. PICK d \in Operation : d = op[o]
  BY DEF AuditInd
<1>2. clock \in Nat /\ op \in [Operations -> Operation] /\ UNCHANGED <<paging, exported>>
  BY DEF AuditInd, FlushEntry, EndOperation
<1>3. CASE FlushEntry(o)
  <2>1. PICK c \in Nat : c = clock
    BY <1>2
  <2>2. PICK x : x = [pc |-> "flushed", time |-> c + 1]
    OBVIOUS
  <2>3. op' = [op EXCEPT ![o] = x] /\ clock' = c + 1 /\ d.pc = "idle"
    BY <1>1, <1>3, <2>1, <2>2 DEF FlushEntry
  <2>4. x \in Operation /\ x.time = c + 1
    BY <2>2 DEF Operation
  <2>5. op' \in [Operations -> Operation] /\ op'[o] = x /\ \A p \in Operations : p # o => op'[p] = op[p]
    BY <1>2, <2>3, <2>4
  <2>6. clock' \in Nat
    BY <2>3
  <2>7. Times'
    <3>1. ASSUME NEW p \in Operations, p # o, op[p].pc # "idle" PROVE op[p].time <= c /\ op[p].time \in Nat
      BY <1>2, <2>1, <3>1 DEF AuditInd, Times, Operation
    <3>2. \A p \in Operations : op'[p].pc # "idle" => op'[p].time <= clock'
      BY <2>3, <2>4, <2>5, <3>1
    <3>3. ASSUME NEW p \in Operations, NEW q \in Operations, p # q, op'[p].pc # "idle", op'[q].pc # "idle"
          PROVE  op'[p].time # op'[q].time
      <4>1. CASE p # o /\ q # o
        BY <2>5, <3>3, <4>1 DEF AuditInd, Times
      <4>2. CASE p = o
        BY <2>4, <2>5, <3>1, <3>3, <4>2
      <4>3. CASE q = o
        BY <2>4, <2>5, <3>1, <3>3, <4>3
      <4> QED
        BY <4>1, <4>2, <4>3
    <3> QED
      BY <3>2, <3>3 DEF Times
  <2>8. \A p \in Log : op'[p] = op[p]
    BY <1>1, <2>3, <2>5 DEF Log
  <2> QED
    BY <1>2, <2>5, <2>6, <2>7, <2>8, LogGrows
<1>4. CASE EndOperation(o)
  <2>1. PICK end \in {"committed", "lost"} : op' = [op EXCEPT ![o].pc = end]
    BY <1>4 DEF EndOperation
  <2>2. PICK x : x = [d EXCEPT !.pc = end]
    OBVIOUS
  <2>3. op' = [op EXCEPT ![o] = x] /\ clock' = clock /\ d.pc = "flushed"
    BY <1>1, <1>2, <1>4, <2>1, <2>2 DEF EndOperation
  <2>4. x \in Operation /\ x.time = d.time
    BY <2>2 DEF Operation
  <2>5. op' \in [Operations -> Operation] /\ op'[o] = x /\ \A p \in Operations : p # o => op'[p] = op[p]
    BY <1>2, <2>3, <2>4
  <2>6. \A p \in Operations : op'[p].time = op[p].time /\ (op'[p].pc # "idle" => op[p].pc # "idle")
    BY <1>1, <2>3, <2>4, <2>5
  <2>7. Times'
    BY <2>3, <2>6 DEF AuditInd, Times
  <2>8. \A p \in Log : op'[p] = op[p]
    BY <1>1, <2>3, <2>5 DEF Log
  <2> QED
    BY <1>2, <2>3, <2>5, <2>7, <2>8, LogGrows
<1> QED
  BY <1>3, <1>4

\* A page shows the entries with its ranks, so it leaves none before its end out.
LEMMA PageRead == ASSUME AuditInd, ReadPage PROVE AuditInd'
<1>1. PICK d \in Paging : d = paging
  BY DEF AuditInd
<1>2. PICK n \in Nat : n = d.page
  BY DEF Paging
<1>3. PICK g : g = Page(n)
  OBVIOUS
<1>4. PICK x : x = [d EXCEPT !.shown = @ \cup g, !.page = @ + 1,
                            !.pc = IF Cardinality(g) < PageSize THEN "read" ELSE @]
  OBVIOUS
<1>5. paging' = x /\ d.pc = "reading" /\ UNCHANGED <<op, clock, exported>>
  BY <1>1, <1>2, <1>3, <1>4 DEF ReadPage
<1>6. g \subseteq Log /\ Log \subseteq Operations
  BY <1>3 DEF Page, Log
<1>7. /\ x \in Paging /\ x.shown = d.shown \cup g /\ x.page = n + 1 /\ x.before = d.before
      /\ x.pc = IF Cardinality(g) < PageSize THEN "read" ELSE "reading"
  <2>1. d.page + 1 \in Nat /\ d.page + 1 = n + 1 /\ d.shown \cup g \in SUBSET Operations
    BY <1>2, <1>6 DEF Paging
  <2> QED
    BY <1>4, <1>5, <2>1 DEF Paging
<1>8. op \in [Operations -> Operation] /\ Times /\ d.before \subseteq Log
  BY <1>1 DEF AuditInd, Shown
<1>9. ASSUME NEW o \in d.before, Rank(o) < (n + 1) * PageSize PROVE o \in x.shown
  <2>1. PICK a \in Nat : a = n * PageSize
    BY AuditAssumption
  <2>2. PageSize \in Nat /\ (n + 1) * PageSize = a + PageSize
    BY <2>1, AuditAssumption
  <2>3. Rank(o) \in Nat /\ o \in Log
    BY <1>8, BeforeIsFinite, LogIsFinite, AuditAssumption DEF Rank
  <2>4. CASE Rank(o) < a
    BY <1>1, <1>2, <1>5, <1>7, <2>1, <2>4 DEF AuditInd, Shown
  <2>5. CASE ~(Rank(o) < a)
    <3>1. Rank(o) \in a..a + PageSize - 1
      BY <1>9, <2>2, <2>3, <2>5
    <3>2. o \in g
      BY <1>3, <2>1, <2>2, <2>3, <3>1 DEF Page, Rank
    <3> QED
      BY <1>7, <3>2
  <2> QED
    BY <2>4, <2>5
<1>10. Log' = Log /\ \A o : Rank(o)' = Rank(o)
  BY <1>5 DEF Log, Rank, Before
<1>11. Shown'
  BY <1>5, <1>7, <1>8, <1>9, <1>10 DEF Shown
<1>12. PagingShowsAll'
  <2> SUFFICES ASSUME Cardinality(g) < PageSize, NEW o \in d.before PROVE o \in x.shown
    BY <1>5, <1>7 DEF PagingShowsAll
  <2>1. Rank(o) < (n + 1) * PageSize
    BY <1>3, <1>8, LastPage
  <2> QED
    BY <1>9, <2>1
<1>13. ExportIsNewest'
  BY <1>5 DEF AuditInd, AuditInv, ExportIsNewest
<1>14. Times'
  BY <1>5, <1>8 DEF Times
<1> QED
  BY <1>5, <1>7, <1>10, <1>11, <1>12, <1>13, <1>14 DEF AuditInd, AuditInv

\* A reader that begins has the log before it.
LEMMA Opening == ASSUME AuditInd, StartPaging PROVE AuditInd'
<1>1. PICK g \in SUBSET Operations : g = Log
  BY LogIsFinite
<1>2. PICK x : x = [NoPaging EXCEPT !.pc = "reading", !.before = g]
  OBVIOUS
<1>3. paging' = x /\ UNCHANGED <<op, clock, exported>>
  BY <1>1, <1>2 DEF StartPaging
<1>4. x \in Paging /\ x.pc = "reading" /\ x.page = 0 /\ x.before = g
  BY <1>2 DEF NoPaging, Paging
<1>5. Log' = Log
  BY <1>3 DEF Log
<1>6. ASSUME NEW o \in Log PROVE ~(Rank(o)' < x.page * PageSize)
  <2>1. Rank(o)' = Rank(o)
    BY <1>3 DEF Log, Rank, Before
  <2>2. Rank(o) \in Nat
    BY BeforeIsFinite, LogIsFinite, AuditAssumption DEF Rank, AuditInd
  <2>3. x.page * PageSize = 0
    BY <1>4, AuditAssumption
  <2> QED
    BY <2>1, <2>2, <2>3
<1>7. Shown'
  BY <1>1, <1>3, <1>4, <1>5, <1>6 DEF Shown
<1>8. AuditInv'
  BY <1>3, <1>4 DEF AuditInd, AuditInv, PagingShowsAll, ExportIsNewest
<1> QED
  BY <1>3, <1>4, <1>5, <1>7, <1>8 DEF AuditInd, Times

\* An export takes the entries that rank below its limit.
LEMMA Exporting == ASSUME AuditInd, Export PROVE AuditInd'
<1>1. exported' = [rows |-> Exported, log |-> Log] /\ UNCHANGED <<op, clock, paging>>
  BY DEF Export
<1>2. Log' = Log /\ (\A o : Rank(o)' = Rank(o)) /\ Exported \subseteq Log /\ Log \subseteq Operations
  BY <1>1 DEF Log, Rank, Before, Exported
<1>3. op \in [Operations -> Operation] /\ Times
  BY DEF AuditInd
<1>4. ASSUME NEW o \in Log, o \notin Exported, NEW p \in Exported PROVE op[o].time < op[p].time
  <2>1. p \in Log /\ Cardinality(Before(p, FALSE)) < ExportLimit /\ ~(Cardinality(Before(o, FALSE)) < ExportLimit)
    BY <1>4 DEF Exported
  <2>2. p \in Before(o, FALSE)
    BY <1>3, <2>1, LimitFallsBetween
  <2> QED
    BY <2>2 DEF Before
<1>5. ExportIsNewest'
  BY <1>1, <1>4 DEF ExportIsNewest
<1>6. PagingShowsAll'
  BY <1>1 DEF AuditInd, AuditInv, PagingShowsAll
<1>7. Shown' /\ Times'
  BY <1>1, <1>2 DEF AuditInd, Shown, Times
<1>8. /\ exported' \in [rows : SUBSET Operations, log : SUBSET Operations]
      /\ exported'.log \subseteq Log' /\ exported'.rows \subseteq exported'.log
  BY <1>1, <1>2
<1> QED
  BY <1>1, <1>5, <1>6, <1>7, <1>8 DEF AuditInd, AuditInv

\* The clock counts the operations that have begun, so no entry has a time beyond their
\* number.
Begun == {o \in Operations : op[o].pc # "idle"}
ClockCounts ==
  /\ clock = Cardinality(Begun)
  /\ \A o \in Operations : op[o].pc = "idle" => op[o].time = 0

\* At first no operation has begun.
LEMMA ClockStart == AuditInit => ClockCounts
<1> SUFFICES ASSUME AuditInit PROVE ClockCounts
  OBVIOUS
<1>1. \A o \in Operations : op[o].pc = "idle" /\ op[o].time = 0
  BY DEF AuditInit
<1>2. Begun = {}
  BY <1>1 DEF Begun
<1>3. clock = Cardinality({})
  BY FS_EmptySet DEF AuditInit
<1> QED
  BY <1>1, <1>2, <1>3 DEF ClockCounts

\* An operation that begins takes the next time.
LEMMA ClockStep == AuditInd /\ ClockCounts /\ [AuditNext]_auditVars => ClockCounts'
<1> SUFFICES ASSUME AuditInd, ClockCounts, [AuditNext]_auditVars PROVE ClockCounts'
  OBVIOUS
<1>0. op \in [Operations -> Operation] /\ clock \in Nat
  BY DEF AuditInd
<1>1. CASE UNCHANGED <<op, clock>>
  BY <1>1 DEF ClockCounts, Begun
<1>2. ASSUME NEW o \in Operations, FlushEntry(o) PROVE ClockCounts'
  <2>1. op[o].pc = "idle" /\ clock' = clock + 1 /\ op'[o].pc = "flushed"
    BY <1>0, <1>2 DEF FlushEntry
  <2>2. \A p \in Operations : p # o => op'[p] = op[p]
    BY <1>0, <1>2 DEF FlushEntry
  <2>3. Begun' = Begun \cup {o} /\ o \notin Begun /\ Begun \in SUBSET Operations
    BY <2>1, <2>2 DEF Begun
  <2>4. IsFiniteSet(Begun)
    BY <2>3, AuditAssumption, FS_Subset
  <2>5. Cardinality(Begun \cup {o}) = Cardinality(Begun) + 1
    BY <2>3, <2>4, FS_AddElement
  <2>6. clock' = Cardinality(Begun')
    BY <2>1, <2>3, <2>5 DEF ClockCounts
  <2>7. \A p \in Operations : op'[p].pc = "idle" => op'[p].time = 0
    BY <2>1, <2>2 DEF ClockCounts
  <2> QED
    BY <2>6, <2>7 DEF ClockCounts
<1>3. ASSUME NEW o \in Operations, EndOperation(o) PROVE ClockCounts'
  <2>1. PICK end \in {"committed", "lost"} : op' = [op EXCEPT ![o].pc = end]
    BY <1>3 DEF EndOperation
  <2>2. op[o].pc = "flushed" /\ clock' = clock /\ op'[o].pc = end
    BY <1>0, <1>3, <2>1 DEF EndOperation, Operation
  <2>3. \A p \in Operations : p # o => op'[p] = op[p]
    BY <1>0, <2>1
  <2>4. Begun' = Begun
    BY <2>2, <2>3 DEF Begun
  <2>5. \A p \in Operations : op'[p].pc = "idle" => op'[p].time = 0
    BY <2>2, <2>3 DEF ClockCounts
  <2> QED
    BY <2>2, <2>4, <2>5 DEF ClockCounts
<1> QED
  BY <1>1, <1>2, <1>3 DEF AuditNext, StartPaging, ReadPage, Export, auditVars

\* No entry has a time beyond the number of operations.
LEMMA TimesAreFew == AuditInd /\ ClockCounts => AuditTypeOK
<1> SUFFICES ASSUME AuditInd, ClockCounts PROVE AuditTypeOK
  OBVIOUS
<1>1. op \in [Operations -> Operation] /\ clock \in Nat /\ Times
  BY DEF AuditInd
<1>2. Begun \in SUBSET Operations
  BY DEF Begun
<1>3. Cardinality(Begun) <= Cardinality(Operations) /\ Cardinality(Operations) \in Nat
  BY <1>2, AuditAssumption, FS_Subset, FS_CardinalityType
<1>4. PICK n \in Nat : n = Cardinality(Operations)
  BY <1>3
<1>5. clock \in 0..n
  BY <1>1, <1>3, <1>4 DEF ClockCounts
<1>6. ASSUME NEW o \in Operations PROVE op[o] \in [pc : {"idle", "flushed", "committed", "lost"}, time : 0..n]
  <2>1. op[o] \in Operation
    BY <1>1
  <2>2. op[o].time \in Nat
    BY <2>1 DEF Operation
  <2>3. op[o].time <= clock
    <3>1. op[o].pc = "idle" => op[o].time = 0
      BY DEF ClockCounts
    <3>2. op[o].pc # "idle" => op[o].time <= clock
      BY <1>1 DEF Times
    <3> QED
      BY <1>1, <3>1, <3>2
  <2>4. op[o].time \in 0..n
    BY <1>4, <1>5, <2>2, <2>3
  <2> QED
    BY <2>1, <2>4 DEF Operation
<1>7. op \in [Operations -> [pc : {"idle", "flushed", "committed", "lost"}, time : 0..n]]
  BY <1>1, <1>6
<1>8. /\ paging.pc \in {"idle", "reading", "read"} /\ {paging.shown, paging.before} \subseteq SUBSET Operations
      /\ {exported.rows, exported.log} \subseteq SUBSET Operations
  BY DEF AuditInd, Paging
<1> QED
  BY <1>4, <1>5, <1>7, <1>8 DEF AuditTypeOK

\* An administrator who pages to the end misses nothing that was there at the start,
\* whatever is committed meanwhile, and an export leaves out only what is older.
THEOREM AuditLeavesNothingOut == AuditSpec => [](AuditTypeOK /\ AuditInv)
<1>1. AuditInd /\ [AuditNext]_auditVars => AuditInd'
  <2> SUFFICES ASSUME AuditInd, [AuditNext]_auditVars PROVE AuditInd'
    OBVIOUS
  <2>1. CASE AuditNext
    BY <2>1, Logging, Opening, PageRead, Exporting DEF AuditNext
  <2>2. CASE UNCHANGED auditVars
    BY <2>2 DEF auditVars, AuditInd, Times, Shown, Log, Rank, Before, AuditInv, PagingShowsAll, ExportIsNewest
  <2> QED
    BY <2>1, <2>2
<1>2. AuditInd => AuditInv
  BY DEF AuditInd
<1>3. AuditInd /\ ClockCounts => AuditTypeOK
  BY TimesAreFew
<1> QED
  BY AuditStart, ClockStart, ClockStep, <1>1, <1>2, <1>3, PTL DEF AuditSpec

-----------------------------------------------------------------------------
(***************************************************************************)
(* The erasure of a tenant, for any jobs that insert rows beside it.       *)
(***************************************************************************)

\* An erasure.
ErasureRow ==
  [step : 0..12, deleted : SUBSET Tables, found : SUBSET Tables, quiet : BOOLEAN,
   result : {"none", "complete", "failed"}]

\* The tables that an erasure is past at a step.
Past(i) == {ErasureOrder[k] : k \in 1..i - 1}

\* A transaction that nothing disturbs has before it what it found, and has emptied the
\* tables it is past; it is past the costs only if no allocation named them.
Undisturbed ==
  erasure.quiet /\ erasure.step > 0 /\ erasure.result = "none" =>
    /\ present = erasure.found
    /\ \A t \in Past(erasure.step) : t \notin View
    /\ erasure.step > 2 => "cost_allocations" \notin present

\* The inductive invariant of the erasure.
ErasureInd ==
  /\ erasure \in ErasureRow /\ present \subseteq Tables
  /\ erasure.deleted \subseteq Past(erasure.step)
  /\ erasure.step = 0 => erasure.result = "none" /\ erasure.quiet
  /\ erasure.result = "none" => Sound(present)
  /\ Undisturbed
  /\ ErasureInv

-----------------------------------------------------------------------------
\* The tables in the order in which they are emptied.
LEMMA ErasureSteps ==
  /\ DOMAIN ErasureOrder = 1..11 /\ Len(ErasureOrder) = 11
  /\ ErasureOrder[1] = "cost_audit_logs" /\ ErasureOrder[2] = "cost_records"
  /\ ErasureOrder[3] = "remediation_requests" /\ ErasureOrder[4] = "discovered_accounts"
  /\ ErasureOrder[5] = "connections" /\ ErasureOrder[6] = "cost_allocations"
  /\ ErasureOrder[7] = "attribution_rules" /\ ErasureOrder[8] = "llm_usage"
  /\ ErasureOrder[9] = "background_jobs" /\ ErasureOrder[10] = "cloud_accounts"
  /\ ErasureOrder[11] = "users"
  BY DEF ErasureOrder

\* Each table comes once in the order.
LEMMA Places ==
  ASSUME NEW i \in 1..11
  PROVE  /\ ErasureOrder[i] \in Tables
         /\ ErasureOrder[i] = "cost_audit_logs" => i = 1
         /\ ErasureOrder[i] = "cost_records" => i = 2
         /\ ErasureOrder[i] = "cost_allocations" => i = 6
         /\ ErasureOrder[i] = "cloud_accounts" => i = 10
         /\ ErasureOrder[i] = "users" => i = 11
<1>1. i \in {1, 2, 3, 4, 5, 6, 7, 8, 9, 10, 11}
  OBVIOUS
<1>2. ErasureOrder[i] \in Tables
  BY ErasureSteps DEF Tables
<1> QED
  BY <1>1, <1>2, ErasureSteps

\* What is past at the first steps, at each next one and at the end.
LEMMA Pasts ==
  /\ "cost_audit_logs" \in Past(2) /\ "cost_records" \in Past(3) /\ "remediation_requests" \in Past(4)
  /\ Past(1) = {}
  /\ \A i \in 1..11 : Past(i + 1) = Past(i) \cup {ErasureOrder[i]}
  /\ \A i \in 1..12 : \A k \in 1..i : Past(k) \subseteq Past(i)
  /\ Past(12) \cup {"audit_logs"} = Tables
<1>1. "cost_audit_logs" \in Past(2) /\ "cost_records" \in Past(3) /\ "remediation_requests" \in Past(4)
  BY ErasureSteps DEF Past
<1>2. Past(1) = {}
  BY DEF Past
<1>3. \A i \in 1..11 : Past(i + 1) = Past(i) \cup {ErasureOrder[i]}
  BY DEF Past
<1>4. \A i \in 1..12 : \A k \in 1..i : Past(k) \subseteq Past(i)
  BY DEF Past
<1>5. Past(12) \cup {"audit_logs"} = Tables
  <2>1. 1..12 - 1 = DOMAIN ErasureOrder
    BY ErasureSteps
  <2> QED
    BY <2>1 DEF Past, Tables
<1> QED
  BY <1>1, <1>2, <1>3, <1>4, <1>5

\* At first no erasure runs, and the rows name rows that are there.
LEMMA ErasureStart == ErasureInit => ErasureInd
<1> SUFFICES ASSUME ErasureInit PROVE ErasureInd
  OBVIOUS
<1>1. present \subseteq Tables /\ Sound(present) /\ erasure = NoErasure
  BY DEF ErasureInit
<1>2. /\ erasure \in ErasureRow /\ erasure.deleted = {} /\ erasure.step = 0 /\ erasure.result = "none" /\ erasure.quiet
  BY <1>1 DEF NoErasure, ErasureRow
<1>3. Undisturbed /\ ErasureInv
  BY <1>2 DEF Undisturbed, ErasureInv, CompleteIsEmpty, OrderSuffices
<1> QED
  BY <1>1, <1>2, <1>3 DEF ErasureInd

\* A job that inserts a row beside the erasure disturbs it.
LEMMA Inserting == ASSUME ErasureInd, NEW t \in JobTables, InsertRow(t) PROVE ErasureInd'
<1>1. PICK e \in ErasureRow : e = erasure
  BY DEF ErasureInd
<1>2. PICK f : f = [e EXCEPT !.deleted = @ \ {t}, !.quiet = e.step = 0]
  OBVIOUS
<1>3. erasure' = f
  BY <1>1, <1>2 DEF InsertRow
<1>4. /\ f \in ErasureRow /\ f.step = e.step /\ f.deleted = e.deleted \ {t} /\ f.result = "none"
      /\ f.quiet = (e.step = 0)
  BY <1>1, <1>2 DEF ErasureRow, InsertRow
<1>5. present' = present \cup {t} /\ Parents(t) \subseteq present /\ t \in Tables
  BY ErasureAssumption DEF InsertRow, View
<1>6. present' \subseteq Tables
  BY <1>5 DEF ErasureInd
<1>7. Sound(present)'
  BY <1>1, <1>5 DEF ErasureInd, Sound, InsertRow
<1>8. erasure'.deleted \subseteq Past(erasure'.step)
  BY <1>1, <1>3, <1>4 DEF ErasureInd
<1>9. (erasure.step = 0 => erasure.result = "none" /\ erasure.quiet)'
  BY <1>3, <1>4
<1>10. Undisturbed'
  BY <1>3, <1>4 DEF Undisturbed, ErasureRow
<1>11. ErasureInv'
  BY <1>3, <1>4 DEF ErasureInv, CompleteIsEmpty, OrderSuffices
<1> QED
  BY <1>3, <1>4, <1>6, <1>7, <1>8, <1>9, <1>10, <1>11 DEF ErasureInd

\* An erasure begins with what it finds.
LEMMA Beginning == ASSUME ErasureInd, StartErasure PROVE ErasureInd'
<1>1. PICK p \in SUBSET Tables : p = present
  BY DEF ErasureInd
<1>2. PICK f : f = [NoErasure EXCEPT !.step = 1, !.found = p]
  OBVIOUS
<1>3. erasure' = f /\ present' = present /\ erasure.result = "none"
  BY <1>1, <1>2 DEF StartErasure, ErasureInd
<1>4. /\ f \in ErasureRow /\ f.step = 1 /\ f.deleted = {} /\ f.found = p /\ f.result = "none"
  <2>1. /\ NoErasure.result = "none" /\ NoErasure.deleted = {} /\ NoErasure.quiet = TRUE
        /\ NoErasure = [step |-> 0, deleted |-> {}, found |-> {}, quiet |-> TRUE, result |-> "none"]
    BY DEF NoErasure
  <2>2. f = [step |-> 1, deleted |-> {}, found |-> p, quiet |-> TRUE, result |-> "none"]
    BY <1>2, <2>1
  <2>3. 1 \in 0..12
    OBVIOUS
  <2> QED
    BY <2>2, <2>3 DEF ErasureRow
<1>5. Sound(present)'
  BY <1>3 DEF ErasureInd, Sound
<1>6. Undisturbed'
  BY <1>1, <1>3, <1>4, Pasts DEF Undisturbed
<1>7. ErasureInv'
  BY <1>3, <1>4 DEF ErasureInv, CompleteIsEmpty, OrderSuffices
<1>8. erasure'.deleted \subseteq Past(erasure'.step)
  BY <1>3, <1>4
<1>9. (erasure.step = 0 => erasure.result = "none" /\ erasure.quiet)'
  BY <1>3, <1>4
<1> QED
  BY <1>1, <1>3, <1>4, <1>5, <1>6, <1>7, <1>8, <1>9 DEF ErasureInd

\* A row that is named by a row is there.
LEMMA NamedTable ==
  ASSUME NEW rows, Sound(rows), NEW t \in rows, NEW p, <<t, p>> \in References
  PROVE  p \in rows
<1>1. PICK r \in References : r = <<t, p>>
  OBVIOUS
<1>2. r[1] = t /\ r[2] = p
  BY <1>1
<1>3. p \in Parents(t)
  BY <1>2 DEF Parents
<1> QED
  BY <1>3 DEF Sound

\* A table of an undisturbed transaction that a row still refers to is blocked by an
\* allocation or by the audit log, which were there from the start.
LEMMA Blocked ==
  ASSUME ErasureInd, NEW i \in 1..11, erasure.step = i, erasure.result = "none", erasure.quiet,
         Blocking(ErasureOrder[i]) # {}
  PROVE  erasure.found \cap {"cost_allocations", "audit_logs"} # {}
<1>1. PICK c \in View : <<c, ErasureOrder[i]>> \in References
  BY DEF Blocking
<1>2. present = erasure.found /\ \A t \in Past(i) : t \notin View
  BY DEF ErasureInd, Undisturbed
<1>3. CASE c \in {"cost_allocations", "audit_logs"}
  BY <1>1, <1>2, <1>3 DEF View
<1>4. CASE c \notin {"cost_allocations", "audit_logs"}
  <2>1. \/ c = "cost_audit_logs" /\ i = 2
        \/ c = "cost_records" /\ i = 10
        \/ c = "remediation_requests" /\ i = 11
    BY <1>1, <1>4, Places DEF References
  <2>2. c \in Past(i)
    <3>1. CASE i = 2
      BY <2>1, <3>1, Pasts
    <3>2. CASE i = 10
      <4>1. Past(3) \subseteq Past(10)
        BY Pasts
      <4> QED
        BY <2>1, <3>2, <4>1, Pasts
    <3>3. CASE i = 11
      <4>1. Past(4) \subseteq Past(11)
        BY Pasts
      <4> QED
        BY <2>1, <3>3, <4>1, Pasts
    <3> QED
      BY <2>1, <3>1, <3>2, <3>3
  <2> QED
    BY <1>1, <1>2, <2>2
<1> QED
  BY <1>3, <1>4

\* A step that empties its table, or fails because rows of another name it.
LEMMA Erasing == ASSUME ErasureInd, EraseTable PROVE ErasureInd'
<1>1. PICK e \in ErasureRow : e = erasure
  BY DEF ErasureInd
<1>2. PICK i \in 1..11 : i = e.step
  BY <1>1, ErasureSteps DEF EraseTable
<1>3. e.result = "none" /\ present' = present /\ Sound(present) /\ present \subseteq Tables /\ e.deleted \subseteq Past(i)
  BY <1>1, <1>2 DEF EraseTable, ErasureInd
<1>4. CASE Blocking(ErasureOrder[i]) # {}
  <2>1. PICK f : f = [e EXCEPT !.result = "failed", !.deleted = {}]
    OBVIOUS
  <2>2. erasure' = f
    BY <1>1, <1>2, <1>4, <2>1 DEF EraseTable
  <2>3. /\ f \in ErasureRow /\ f.step = i /\ f.deleted = {} /\ f.found = e.found /\ f.result = "failed"
        /\ f.quiet = e.quiet
    BY <1>2, <2>1 DEF ErasureRow
  <2>4. e.quiet => e.found \cap {"cost_allocations", "audit_logs"} # {}
    BY <1>1, <1>2, <1>3, <1>4, Blocked
  <2>5. ErasureInv'
    BY <2>2, <2>3, <2>4 DEF ErasureInv, CompleteIsEmpty, OrderSuffices
  <2>6. Undisturbed'
    BY <2>2, <2>3 DEF Undisturbed
  <2> QED
    BY <1>3, <2>2, <2>3, <2>5, <2>6 DEF ErasureInd
<1>5. CASE Blocking(ErasureOrder[i]) = {}
  <2>1. PICK g : g = Reached(ErasureOrder[i])
    OBVIOUS
  <2>2. PICK f : f = [e EXCEPT !.step = @ + 1, !.deleted = @ \cup g]
    OBVIOUS
  <2>3. erasure' = f
    BY <1>1, <1>2, <1>5, <2>1, <2>2 DEF EraseTable
  <2>4. g \subseteq {ErasureOrder[i]} /\ ErasureOrder[i] \in Tables
    BY <2>1, Places DEF Reached
  <2>5. /\ f \in ErasureRow /\ f.step = i + 1 /\ f.deleted = e.deleted \cup g /\ f.found = e.found
        /\ f.result = "none" /\ f.quiet = e.quiet
    <3>1. e.step + 1 \in 0..12 /\ e.step + 1 = i + 1
      BY <1>2
    <3>2. e.deleted \cup g \in SUBSET Tables
      BY <2>4 DEF ErasureRow
    <3> QED
      BY <1>3, <2>2, <3>1, <3>2 DEF ErasureRow
  <2>6. f.deleted \subseteq Past(i + 1)
    BY <1>3, <2>4, <2>5, Pasts
  <2>7. ASSUME e.quiet
        PROVE  /\ present = e.found /\ \A t \in Past(i + 1) : t \notin present \ f.deleted
               /\ i + 1 > 2 => "cost_allocations" \notin present
    <3>1. /\ present = e.found /\ \A t \in Past(i) : t \notin View
          /\ i > 2 => "cost_allocations" \notin present
      BY <1>1, <1>2, <1>3, <2>7 DEF ErasureInd, Undisturbed
    <3>2. ASSUME i = 2, "cost_allocations" \in present PROVE FALSE
      <4>1. "cost_records" \in present
        BY <1>3, <3>2, NamedTable DEF References
      <4>2. "cost_allocations" \notin Past(2)
        BY ErasureSteps, Pasts DEF Past
      <4>3. "cost_allocations" \in View
        BY <1>1, <1>2, <1>3, <3>2, <4>2 DEF View
      <4>4. "cost_allocations" \in Blocking(ErasureOrder[i])
        BY <3>2, <4>3, ErasureSteps DEF Blocking, References
      <4> QED
        BY <1>5, <4>4
    <3>3. i + 1 > 2 => "cost_allocations" \notin present
      BY <3>1, <3>2
    <3>4. ErasureOrder[i] \notin present \ f.deleted
      <4>1. CASE g = {ErasureOrder[i]} \cap present
        BY <2>5, <4>1
      <4>2. CASE g # {ErasureOrder[i]} \cap present
        <5>1. ErasureOrder[i] \in {"cost_audit_logs", "cost_allocations"} /\ "cost_records" \notin View
          BY <2>1, <4>2 DEF Reached
        <5>2. CASE ErasureOrder[i] = "cost_allocations"
          <6>1. i = 6
            BY <5>2, Places
          <6> QED
            BY <3>3, <5>2, <6>1
        <5>3. CASE ErasureOrder[i] = "cost_audit_logs"
          <6>1. i = 1
            BY <5>3, Places
          <6>2. "cost_records" \notin present
            BY <1>1, <1>2, <1>3, <5>1, <6>1, Pasts DEF View
          <6>3. "cost_audit_logs" \notin present
            BY <1>3, <6>2, NamedTable DEF References
          <6> QED
            BY <5>3, <6>3
        <5> QED
          BY <5>1, <5>2, <5>3
      <4> QED
        BY <4>1, <4>2
    <3>5. \A t \in Past(i) : t \notin present \ f.deleted
      BY <1>1, <2>5, <3>1 DEF View
    <3>6. Past(i + 1) = Past(i) \cup {ErasureOrder[i]}
      BY Pasts
    <3> QED
      BY <3>1, <3>3, <3>4, <3>5, <3>6
  <2>8. Undisturbed'
    BY <1>1, <1>3, <2>3, <2>5, <2>7 DEF Undisturbed, View
  <2>9. ErasureInv'
    BY <2>3, <2>5 DEF ErasureInv, CompleteIsEmpty, OrderSuffices
  <2>10. Sound(present)' /\ present' \subseteq Tables
    BY <1>3 DEF Sound
  <2>11. (erasure.step = 0 => erasure.result = "none" /\ erasure.quiet)'
    BY <2>3, <2>5
  <2> QED
    BY <2>3, <2>5, <2>6, <2>8, <2>9, <2>10, <2>11 DEF ErasureInd
<1> QED
  BY <1>4, <1>5

\* The commit keeps what the deletes have done.
LEMMA Concluding == ASSUME ErasureInd, CommitErasure PROVE ErasureInd'
<1>1. PICK e \in ErasureRow : e = erasure
  BY DEF ErasureInd
<1>2. PICK f : f = [e EXCEPT !.result = "complete", !.deleted = {}]
  OBVIOUS
<1>3. erasure' = f /\ present' = View
  BY <1>1, <1>2 DEF CommitErasure
<1>4. e.step = 12 /\ e.result = "none"
  BY <1>1, ErasureSteps DEF CommitErasure, ErasureRow
<1>5. /\ f \in ErasureRow /\ f.step = 12 /\ f.deleted = {} /\ f.result = "complete" /\ f.quiet = e.quiet
  BY <1>2, <1>4 DEF ErasureRow
<1>6. View \subseteq Tables
  BY DEF View, ErasureInd
<1>7. e.quiet => View \subseteq {"audit_logs"}
  BY <1>1, <1>4, <1>6, Pasts DEF ErasureInd, Undisturbed
<1>8. ErasureInv'
  BY <1>3, <1>5, <1>7 DEF ErasureInv, CompleteIsEmpty, OrderSuffices
<1>9. Undisturbed'
  BY <1>3, <1>5 DEF Undisturbed
<1> QED
  BY <1>3, <1>5, <1>6, <1>8, <1>9 DEF ErasureInd

\* An erasure that nothing disturbs leaves the audit log and nothing else, and fails only
\* for the allocations and the log entries that were there when it began.
THEOREM ErasureIsWhole == ErasureSpec => [](ErasureTypeOK /\ ErasureInv)
<1>1. ErasureInd /\ [ErasureNext]_erasureVars => ErasureInd'
  <2> SUFFICES ASSUME ErasureInd, [ErasureNext]_erasureVars PROVE ErasureInd'
    OBVIOUS
  <2>1. CASE ErasureNext
    BY <2>1, Inserting, Beginning, Erasing, Concluding DEF ErasureNext
  <2>2. CASE UNCHANGED erasureVars
    BY <2>2 DEF erasureVars, ErasureInd, Undisturbed, Sound, View, ErasureInv, CompleteIsEmpty, OrderSuffices
  <2> QED
    BY <2>1, <2>2
<1>2. ErasureInd => ErasureInv
  BY DEF ErasureInd
<1> DEFINE FewInserts == inserts \in 0..MaxInserts
<1>3. ErasureInit => FewInserts
  BY ErasureAssumption DEF ErasureInit
<1>4. FewInserts /\ [ErasureNext]_erasureVars => FewInserts'
  <2> SUFFICES ASSUME FewInserts, [ErasureNext]_erasureVars PROVE FewInserts'
    OBVIOUS
  <2>1. CASE UNCHANGED inserts
    BY <2>1
  <2>2. ASSUME NEW t \in JobTables, InsertRow(t) PROVE FewInserts'
    <3>1. inserts < MaxInserts /\ inserts' = inserts + 1
      BY <2>2 DEF InsertRow
    <3> QED
      BY <3>1, ErasureAssumption
  <2> QED
    BY <2>1, <2>2 DEF ErasureNext, StartErasure, EraseTable, CommitErasure, erasureVars
<1>5. ErasureInd /\ FewInserts => ErasureTypeOK
  <2> SUFFICES ASSUME ErasureInd, FewInserts PROVE ErasureTypeOK
    OBVIOUS
  <2>1. PICK e \in ErasureRow : e = erasure
    BY DEF ErasureInd
  <2>2. Len(ErasureOrder) + 1 = 12
    BY ErasureSteps
  <2>3. e.deleted \subseteq Tables /\ e.step \in 0..12 /\ e.result \in {"none", "complete", "failed"}
    BY DEF ErasureRow
  <2> QED
    BY <2>1, <2>2, <2>3 DEF ErasureTypeOK, ErasureInd
<1> HIDE DEF FewInserts
<1> QED
  BY ErasureStart, <1>1, <1>2, <1>3, <1>4, <1>5, PTL DEF ErasureSpec

-----------------------------------------------------------------------------
(***************************************************************************)
(* Which tenant a database session runs as, and what the tenant is         *)
(* admitted to, for any users, tenants, sessions and pooled connections.   *)
(***************************************************************************)

PooledConn == [mark : {"none", "true", "false"}, setting : Tenancies \cup {""}, held : DbSessions \cup {0}]
DbSession == [pc : {"idle", "open", "known", "system", "detached", "refused"}, conn : Pool \cup {0},
            user : Members \cup {""}, role : DOMAIN Level]

Shape ==
  /\ pooled \in [Pool -> PooledConn] /\ dbSession \in [DbSessions -> DbSession]
  /\ role \in [Members -> DOMAIN Level]

\* A session has a connection exactly when the pool says that it holds it.
Held ==
  \A s \in DbSessions, c \in Pool : dbSession[s].conn = c <=> pooled[c].held = s

\* What each state of a session says of its user and its connection.  Only a request
\* that has authenticated and not yet committed has a setting.
Scoped ==
  /\ \A s \in DbSessions :
       /\ dbSession[s].pc = "idle" => dbSession[s].conn = 0
       /\ dbSession[s].pc \in {"open", "known"} => dbSession[s].user \in Members /\ dbSession[s].conn \in Pool
  /\ \A c \in Pool : pooled[c].setting # "" =>
       \E s \in DbSessions : pooled[c].held = s /\ dbSession[s].pc = "known"

SessionsInv == Shape /\ Held /\ Scoped /\ FirstTransactionIsScoped

\* The counter of the key of a user is what was admitted for the user's tenant.
Counted ==
  /\ hits \in [Members -> Nat] /\ admitted \in [Tenancies -> Nat]
  /\ \A u \in Members : /\ admitted[TenantOf[u]] = hits[LimitKey(u)]
                        /\ admitted[TenantOf[u]] <= TierLimit[TenantOf[u]]

-----------------------------------------------------------------------------
\* What the statements of a request do to its connection.
LEMMA ConnFields ==
  ASSUME NEW q \in PooledConn
  PROVE  /\ \A t \in Tenancies : /\ [q EXCEPT !.mark = "true", !.setting = t] \in PooledConn
                                 /\ [q EXCEPT !.mark = "true", !.setting = t].held = q.held
                                 /\ [q EXCEPT !.mark = "true", !.setting = t].mark = "true"
                                 /\ [q EXCEPT !.mark = "true", !.setting = t].setting = t
         /\ [q EXCEPT !.mark = "none"] \in PooledConn
         /\ [q EXCEPT !.mark = "none"].held = q.held
         /\ [q EXCEPT !.mark = "none"].setting = q.setting
  BY DEF PooledConn

\* The users of one tenant have one key, those of different tenants different ones.
LEMMA KeysAreTenants ==
  /\ \A u \in Members : LimitKey(u) \in Members /\ TenantOf[u] \in Tenancies
  /\ \A u, v \in Members : TenantOf[u] = TenantOf[v] <=> LimitKey(u) = LimitKey(v)
<1>1. ASSUME NEW u \in Members PROVE LimitKey(u) \in Members /\ TenantOf[LimitKey(u)] = TenantOf[u]
  BY DEF LimitKey
<1>2. ASSUME NEW u \in Members, NEW v \in Members, TenantOf[u] = TenantOf[v] PROVE LimitKey(u) = LimitKey(v)
  BY <1>2 DEF LimitKey
<1>3. QED
  BY <1>1, <1>2 DEF Tenancies

\* A step of one session that touches one connection, one that it holds or that is free,
\* leaves all others with theirs.
LEMMA DbSessionMoves ==
  ASSUME SessionsInv, NEW s \in DbSessions, NEW d \in DbSession, NEW c \in Pool, NEW k \in PooledConn,
         dbSession' = [dbSession EXCEPT ![s] = d], pooled' = [pooled EXCEPT ![c] = k], UNCHANGED role,
         pooled[c].held \in {0, s}, dbSession[s].conn \in {0, c}, d.conn \in {0, c},
         k.held = IF d.conn = c THEN s ELSE 0,
         d.pc = "idle" => d.conn = 0,
         d.pc \in {"open", "known"} => d.user \in Members /\ d.conn = c,
         d.pc = "known" => k.mark = "true" /\ k.setting = TenantOf[d.user],
         d.pc # "known" => k.setting = ""
  PROVE  SessionsInv'
<1>0. 0 \notin DbSessions /\ 0 \notin Pool
  BY NobodyIsNone
<1>1. /\ dbSession'[s] = d /\ \A t \in DbSessions : t # s => dbSession'[t] = dbSession[t]
      /\ pooled'[c] = k /\ \A e \in Pool : e # c => pooled'[e] = pooled[e]
  BY DEF SessionsInv, Shape
<1>h. \A t \in DbSessions, e \in Pool : dbSession[t].conn = e <=> pooled[e].held = t
  BY DEF SessionsInv, Held
<1>a. ASSUME NEW t \in DbSessions, t # s
      PROVE  pooled[c].held # t /\ dbSession[t].conn # c /\ k.held # t
  <2>1. t # 0
    BY <1>0
  <2>2. pooled[c].held # t /\ k.held # t
    BY <1>a, <2>1
  <2>3. QED
    BY <1>h, <2>2
<1>2. Shape'
  BY DEF SessionsInv, Shape
<1>3. Held'
  <2> SUFFICES ASSUME NEW t \in DbSessions, NEW e \in Pool
               PROVE  dbSession'[t].conn = e <=> pooled'[e].held = t
    BY DEF Held
  <2>1. (dbSession[t].conn = e <=> pooled[e].held = t) /\ (dbSession[s].conn = e <=> pooled[e].held = s)
    BY <1>h
  <2>2. s # 0 /\ c # 0 /\ e # 0
    BY <1>0
  <2>4. CASE t = s /\ e = c
    <3>1. dbSession'[t] = d /\ pooled'[e] = k
      BY <1>1, <2>4
    <3>2. QED
      BY <2>2, <2>4, <3>1
  <2>5. CASE t = s /\ e # c
    <3>1. dbSession'[t] = d /\ pooled'[e] = pooled[e]
      BY <1>1, <2>5
    <3>2. d.conn # e /\ dbSession[s].conn # e
      BY <2>2, <2>5
    <3>3. QED
      BY <2>1, <2>5, <3>1, <3>2
  <2>6. CASE t # s /\ e = c
    <3>1. dbSession'[t] = dbSession[t] /\ pooled'[e] = k
      BY <1>1, <2>6
    <3>2. dbSession[t].conn # e /\ k.held # t
      BY <1>a, <2>6
    <3>3. QED
      BY <3>1, <3>2
  <2>7. CASE t # s /\ e # c
    <3>1. dbSession'[t] = dbSession[t] /\ pooled'[e] = pooled[e]
      BY <1>1, <2>7
    <3>2. QED
      BY <2>1, <3>1
  <2>8. QED
    BY <2>4, <2>5, <2>6, <2>7
<1>4. Scoped'
  <2>1. ASSUME NEW t \in DbSessions
        PROVE  /\ dbSession'[t].pc = "idle" => dbSession'[t].conn = 0
               /\ dbSession'[t].pc \in {"open", "known"} =>
                    dbSession'[t].user \in Members /\ dbSession'[t].conn \in Pool
    <3>1. CASE t = s
      <4>1. dbSession'[t] = d
        BY <1>1, <3>1
      <4>2. QED
        BY <4>1
    <3>2. CASE t # s
      BY <1>1, <3>2 DEF SessionsInv, Scoped
    <3>3. QED
      BY <3>1, <3>2
  <2>2. ASSUME NEW e \in Pool, pooled'[e].setting # ""
        PROVE  \E t \in DbSessions : pooled'[e].held = t /\ dbSession'[t].pc = "known"
    <3>1. CASE e = c
      <4>1. k.setting # ""
        BY <1>1, <2>2, <3>1
      <4>2. d.pc = "known"
        BY <4>1
      <4>3. k.held = s
        BY <4>2
      <4>4. pooled'[e] = k /\ dbSession'[s] = d
        BY <1>1, <3>1
      <4>5. QED
        BY <4>2, <4>3, <4>4
    <3>2. CASE e # c
      <4>1. PICK t \in DbSessions : pooled[e].held = t /\ dbSession[t].pc = "known"
        BY <1>1, <2>2, <3>2 DEF SessionsInv, Scoped
      <4>2. dbSession[t].conn = e
        BY <1>h, <4>1
      <4>3. t # s
        BY <1>0, <3>2, <4>2
      <4>4. dbSession'[t] = dbSession[t] /\ pooled'[e] = pooled[e]
        BY <1>1, <3>2, <4>3
      <4>5. QED
        BY <4>1, <4>4
    <3>3. QED
      BY <3>1, <3>2
  <2>3. QED
    BY <2>1, <2>2 DEF Scoped
<1>5. FirstTransactionIsScoped'
  <2> SUFFICES ASSUME NEW t \in DbSessions, dbSession'[t].pc = "known"
               PROVE  /\ pooled'[dbSession'[t].conn].mark = "true"
                      /\ pooled'[dbSession'[t].conn].setting = TenantOf[dbSession'[t].user]
    BY DEF FirstTransactionIsScoped, TenantOfSession
  <2>1. CASE t = s
    <3>1. dbSession'[t] = d
      BY <1>1, <2>1
    <3>2. d.pc = "known" /\ d.conn = c
      BY <3>1
    <3>3. pooled'[c] = k
      BY <1>1
    <3>4. QED
      BY <3>1, <3>2, <3>3
  <2>2. CASE t # s
    <3>0. dbSession'[t] = dbSession[t]
      BY <1>1, <2>2
    <3>1. dbSession[t].pc = "known" /\ dbSession[t].conn \in Pool
      BY <3>0 DEF SessionsInv, Scoped
    <3>2. dbSession[t].conn # c
      BY <1>a, <2>2
    <3>3. pooled'[dbSession[t].conn] = pooled[dbSession[t].conn]
      BY <1>1, <3>1, <3>2
    <3>4. /\ pooled[dbSession[t].conn].mark = "true"
          /\ pooled[dbSession[t].conn].setting = TenantOf[dbSession[t].user]
      BY <3>1 DEF SessionsInv, FirstTransactionIsScoped, TenantOfSession
    <3>5. QED
      BY <3>0, <3>3, <3>4
  <2>3. QED
    BY <2>1, <2>2
<1>6. QED
  BY <1>2, <1>3, <1>4, <1>5 DEF SessionsInv

\* At first no connection is held, and nothing is admitted.
LEMMA AccessStarts == AccessInit => SessionsInv /\ Counted
<1> SUFFICES ASSUME AccessInit PROVE SessionsInv /\ Counted
  OBVIOUS
<1>0. Counted
  <2>1. hits \in [Members -> Nat] /\ admitted \in [Tenancies -> Nat]
    BY DEF AccessInit
  <2>2. ASSUME NEW u \in Members
        PROVE  admitted[TenantOf[u]] = hits[LimitKey(u)] /\ admitted[TenantOf[u]] <= TierLimit[TenantOf[u]]
    <3>1. LimitKey(u) \in Members /\ TenantOf[u] \in Tenancies
      BY KeysAreTenants
    <3>2. hits[LimitKey(u)] = 0 /\ admitted[TenantOf[u]] = 0
      BY <3>1 DEF AccessInit
    <3>3. TierLimit[TenantOf[u]] \in Nat
      BY LimitsAreNat
    <3>4. 0 <= TierLimit[TenantOf[u]]
      BY <3>3
    <3>5. QED
      BY <3>2, <3>4
  <2>3. QED
    BY <2>1, <2>2 DEF Counted
<1> USE NobodyIsNone
<1>1. NoSession \in DbSession /\ NoSession.pc = "idle" /\ NoSession.conn = 0
  BY DEF NoSession, DbSession, Level
<1>2. pooled \in [Pool -> PooledConn] /\ \A c \in Pool : pooled[c].held = 0 /\ pooled[c].setting = ""
  BY DEF AccessInit, PooledConn
<1>3. dbSession \in [DbSessions -> DbSession] /\ \A s \in DbSessions : dbSession[s] = NoSession
  BY <1>1 DEF AccessInit
<1>4. SessionsInv
  BY <1>1, <1>2, <1>3 DEF AccessInit, SessionsInv, Shape, Held, Scoped, FirstTransactionIsScoped, Level
<1>5. QED
  BY <1>0, <1>4

\* No step puts a session under another tenant's setting.
LEMMA SessionsStep == SessionsInv /\ [AccessNext]_accessVars => SessionsInv'
<1> SUFFICES ASSUME SessionsInv, [AccessNext]_accessVars PROVE SessionsInv'
  OBVIOUS
<1> USE NobodyIsNone DEF Outside
<1>a. /\ pooled \in [Pool -> PooledConn] /\ dbSession \in [DbSessions -> DbSession]
      /\ role \in [Members -> DOMAIN Level] /\ Held /\ Scoped /\ FirstTransactionIsScoped
  BY DEF SessionsInv, Shape
<1>b. ASSUME NEW c \in Pool, pooled[c].held = 0 PROVE pooled[c].setting = ""
  BY <1>a, <1>b DEF Scoped
<1>c. \A s \in DbSessions, c \in Pool : dbSession[s].conn = c => pooled[c].held = s
  BY <1>a DEF Held
<1>d. NoSession \in DbSession /\ NoSession.pc = "idle" /\ NoSession.conn = 0
  BY DEF NoSession, DbSession, Level
<1>1. ASSUME NEW s \in DbSessions, NEW u \in Members, NEW c \in Pool, OpenRequest(s, u, c) PROVE SessionsInv'
  <2> DEFINE d == [NoSession EXCEPT !.pc = "open", !.conn = c, !.user = u]
             k == [mark |-> "false", setting |-> "", held |-> s]
  <2>1. d \in DbSession /\ d.pc = "open" /\ d.conn = c /\ d.user = u
    BY DEF NoSession, DbSession, Level
  <2>2. k \in PooledConn /\ k.held = s /\ k.setting = ""
    BY DEF PooledConn
  <2>3. pooled[c].held = 0 /\ dbSession[s].conn = 0 /\ UNCHANGED role
    BY <1>1, <1>a DEF OpenRequest, FreeConns, Scoped
  <2>4. dbSession' = [dbSession EXCEPT ![s] = d] /\ pooled' = [pooled EXCEPT ![c] = k]
    BY <1>1 DEF OpenRequest
  <2> HIDE DEF d, k
  <2>5. QED
    BY <2>1, <2>2, <2>3, <2>4, DbSessionMoves
<1>2. ASSUME NEW s \in DbSessions, NEW c \in Pool, OpenSystem(s, c) PROVE SessionsInv'
  <2> DEFINE d == [NoSession EXCEPT !.pc = "system", !.conn = c]
             k == [pooled[c] EXCEPT !.held = s]
  <2>1. d \in DbSession /\ d.pc = "system" /\ d.conn = c
    BY DEF NoSession, DbSession, Level
  <2>2. pooled[c].held = 0 /\ dbSession[s].conn = 0 /\ UNCHANGED role
    BY <1>2, <1>a DEF OpenSystem, FreeConns, Scoped
  <2>3. k \in PooledConn /\ k.held = s /\ k.setting = ""
    BY <1>a, <1>b, <2>2 DEF PooledConn
  <2>4. dbSession' = [dbSession EXCEPT ![s] = d] /\ pooled' = [pooled EXCEPT ![c] = k]
    BY <1>2, <1>a DEF OpenSystem
  <2> HIDE DEF d, k
  <2>5. QED
    BY <2>1, <2>2, <2>3, <2>4, DbSessionMoves
<1>3. ASSUME NEW s \in DbSessions, Authenticate(s) PROVE SessionsInv'
  <2> DEFINE u == dbSession[s].user
             c == dbSession[s].conn
             d == [dbSession[s] EXCEPT !.pc = "known", !.role = RoleOf(u)]
             k == [pooled[c] EXCEPT !.mark = "true", !.setting = TenantOf[u]]
  <2>1. u \in Members /\ c \in Pool /\ UNCHANGED role
    BY <1>3, <1>a DEF Authenticate, Scoped
  <2>2. d \in DbSession /\ d.pc = "known" /\ d.conn = c /\ d.user = u
    BY <1>a, <2>1 DEF DbSession, RoleOf
  <2>3. pooled[c].held = s
    BY <1>c, <2>1
  <2>4. k \in PooledConn /\ k.held = s /\ k.mark = "true" /\ k.setting = TenantOf[u]
    <3>1. TenantOf[u] \in Tenancies
      BY <2>1, KeysAreTenants
    <3>2. pooled[c] \in PooledConn
      BY <1>a, <2>1
    <3>3. QED
      BY <2>3, <3>1, <3>2, ConnFields
  <2>5. dbSession' = [dbSession EXCEPT ![s] = d] /\ pooled' = [pooled EXCEPT ![c] = k]
    BY <1>3, <1>a, <2>1 DEF Authenticate
  <2>6. dbSession[s].conn \in {0, c}
    OBVIOUS
  <2> HIDE DEF d, k, u, c
  <2>7. QED
    BY <2>1, <2>2, <2>3, <2>4, <2>5, <2>6, DbSessionMoves
<1>4. ASSUME NEW s \in DbSessions, NEW d \in DbSession, dbSession[s].conn \in Pool,
             dbSession' = [dbSession EXCEPT ![s] = d], pooled' = Released(dbSession[s].conn), UNCHANGED role,
             d.conn = 0, d.pc \notin {"open", "known"}
      PROVE  SessionsInv'
  <2> DEFINE c == dbSession[s].conn
             k == [pooled[c] EXCEPT !.held = 0, !.setting = ""]
  <2>1. c \in Pool /\ pooled[c].held = s
    BY <1>4, <1>c
  <2>2. k \in PooledConn /\ k.held = 0 /\ k.setting = ""
    BY <1>a, <2>1 DEF PooledConn
  <2>3. pooled' = [pooled EXCEPT ![c] = k]
    BY <1>4, <1>a, <2>1 DEF Released
  <2>4. dbSession[s].conn \in {0, c}
    OBVIOUS
  <2>5. k.held = IF d.conn = c THEN s ELSE 0
    BY <1>4, <2>1, <2>2
  <2>6. /\ d.conn \in {0, c} /\ d.pc # "known" /\ (d.pc = "idle" => d.conn = 0)
        /\ d.pc \in {"open", "known"} => d.user \in Members /\ d.conn = c
    BY <1>4
  <2>7. pooled[c].held \in {0, s}
    BY <2>1
  <2> HIDE DEF c, k
  <2>8. QED
    BY <1>4, <2>1, <2>2, <2>3, <2>4, <2>5, <2>6, <2>7, DbSessionMoves
<1>5. ASSUME NEW s \in DbSessions, Deny(s) PROVE SessionsInv'
  <2>1. dbSession[s].conn \in Pool
    BY <1>5, <1>a DEF Deny, Scoped
  <2>2. QED
    BY <1>4, <1>5, <1>d, <2>1 DEF Deny
<1>6. ASSUME NEW s \in DbSessions, CommitSession(s) PROVE SessionsInv'
  <2> DEFINE d == [dbSession[s] EXCEPT !.conn = 0, !.pc = IF @ = "known" THEN "detached" ELSE @]
  <2>1. d \in DbSession /\ d.conn = 0 /\ d.pc \notin {"open", "known"}
    BY <1>6, <1>a DEF CommitSession, DbSession
  <2>2. dbSession[s].conn \in Pool
    BY <1>6, <1>a DEF CommitSession, DbSession
  <2>3. dbSession' = [dbSession EXCEPT ![s] = d]
    BY <1>6, <1>a DEF CommitSession
  <2> HIDE DEF d
  <2>4. QED
    BY <1>4, <1>6, <2>1, <2>2, <2>3 DEF CommitSession
<1>7. ASSUME NEW s \in DbSessions, NEW c \in Pool, Reconnect(s, c) PROVE SessionsInv'
  <2> DEFINE d == [dbSession[s] EXCEPT !.conn = c]
             k == [pooled[c] EXCEPT !.held = s]
  <2>1. d \in DbSession /\ d.pc \in {"detached", "system"} /\ d.conn = c
    BY <1>7, <1>a DEF Reconnect, DbSession
  <2>2. pooled[c].held = 0 /\ dbSession[s].conn = 0 /\ UNCHANGED role
    BY <1>7 DEF Reconnect, FreeConns
  <2>3. k \in PooledConn /\ k.held = s /\ k.setting = ""
    BY <1>a, <1>b, <2>2 DEF PooledConn
  <2>4. dbSession' = [dbSession EXCEPT ![s] = d] /\ pooled' = [pooled EXCEPT ![c] = k]
    BY <1>7, <1>a DEF Reconnect
  <2> HIDE DEF d, k
  <2>5. QED
    BY <2>1, <2>2, <2>3, <2>4, DbSessionMoves
<1>8. ASSUME NEW s \in DbSessions, RefuseSession(s) PROVE SessionsInv'
  <2> DEFINE d == [dbSession[s] EXCEPT !.pc = "refused", !.conn = 0]
  <2>1. d \in DbSession /\ d.conn = 0 /\ d.pc = "refused"
    BY <1>a DEF DbSession
  <2>2. dbSession[s].conn \in Pool
    BY <1>8, <1>a DEF RefuseSession, DbSession
  <2>3. dbSession' = [dbSession EXCEPT ![s] = d]
    BY <1>8, <1>a DEF RefuseSession
  <2> HIDE DEF d
  <2>4. QED
    BY <1>4, <1>8, <2>1, <2>2, <2>3 DEF RefuseSession
<1>9. ASSUME NEW s \in DbSessions, CloseSession(s) PROVE SessionsInv'
  <2>1. CASE dbSession[s].conn # 0
    <3>1. dbSession[s].conn \in Pool
      BY <1>a, <2>1 DEF DbSession
    <3>2. QED
      BY <1>4, <1>9, <1>d, <2>1, <3>1 DEF CloseSession
  <2>2. CASE dbSession[s].conn = 0
    <3>1. UNCHANGED <<pooled, role>> /\ dbSession' = [dbSession EXCEPT ![s] = NoSession]
      BY <1>9, <2>2 DEF CloseSession
    <3>2. \A t \in DbSessions : dbSession'[t] = IF t = s THEN NoSession ELSE dbSession[t]
      BY <1>a, <3>1
    <3>3. dbSession[s].pc # "known"
      BY <1>a, <2>2 DEF Scoped
    <3>4. Shape'
      BY <1>a, <1>d, <3>1 DEF Shape
    <3>a. Held'
      <4> SUFFICES ASSUME NEW t \in DbSessions, NEW c \in Pool
                   PROVE  dbSession'[t].conn = c <=> pooled[c].held = t
        BY <3>1 DEF Held
      <4>1. dbSession[t].conn = c <=> pooled[c].held = t
        BY <1>a DEF Held
      <4>2. dbSession'[t].conn = dbSession[t].conn
        BY <1>d, <2>2, <3>2
      <4>3. QED
        BY <4>1, <4>2
    <3>5. Scoped'
      <4>1. ASSUME NEW c \in Pool, pooled[c].setting # ""
            PROVE  \E t \in DbSessions : pooled[c].held = t /\ dbSession'[t].pc = "known"
        <5>1. PICK t \in DbSessions : pooled[c].held = t /\ dbSession[t].pc = "known"
          BY <1>a, <4>1 DEF Scoped
        <5>2. dbSession'[t] = dbSession[t]
          BY <3>2, <3>3, <5>1
        <5>3. QED
          BY <5>1, <5>2
      <4>2. QED
        BY <1>a, <1>d, <3>1, <3>2, <4>1 DEF Scoped
    <3>6. FirstTransactionIsScoped'
      BY <1>a, <1>d, <3>1, <3>2 DEF FirstTransactionIsScoped, TenantOfSession
    <3>7. QED
      BY <3>4, <3>a, <3>5, <3>6 DEF SessionsInv
  <2>3. QED
    BY <2>1, <2>2
<1>10. ASSUME NEW c \in Pool, Recycle(c) PROVE SessionsInv'
  <2>1. /\ UNCHANGED <<dbSession, role>> /\ pooled[c].held = 0
        /\ pooled' = [pooled EXCEPT ![c] = [pooled[c] EXCEPT !.mark = "none"]]
    BY <1>10, <1>a DEF Recycle, FreeConns
  <2>2. /\ pooled' \in [Pool -> PooledConn]
        /\ \A e \in Pool : /\ pooled'[e].held = pooled[e].held /\ pooled'[e].setting = pooled[e].setting
                           /\ e # c => pooled'[e] = pooled[e]
    <3>1. pooled[c] \in PooledConn
      BY <1>a
    <3>2. PICK k \in PooledConn : /\ k = [pooled[c] EXCEPT !.mark = "none"]
                                  /\ k.held = pooled[c].held /\ k.setting = pooled[c].setting
      BY <3>1, ConnFields
    <3>3. pooled' = [pooled EXCEPT ![c] = k]
      BY <2>1, <3>2
    <3>4. QED
      BY <1>a, <3>2, <3>3
  <2>3. Shape'
    BY <1>a, <2>1, <2>2 DEF Shape
  <2>b. Held'
    <3> SUFFICES ASSUME NEW t \in DbSessions, NEW e \in Pool
                 PROVE  dbSession[t].conn = e <=> pooled'[e].held = t
      <4>1. dbSession' = dbSession
        BY <2>1
      <4>2. QED
        BY <4>1 DEF Held
    <3>1. pooled'[e].held = pooled[e].held
      BY <2>2
    <3>2. dbSession[t].conn = e <=> pooled[e].held = t
      BY <1>a DEF Held
    <3>3. QED
      BY <3>1, <3>2
  <2>a. Scoped'
    BY <1>a, <2>1, <2>2 DEF Scoped
  <2>4. ASSUME NEW s \in DbSessions, dbSession[s].pc = "known"
        PROVE  dbSession[s].conn \in Pool /\ dbSession[s].conn # c
    <3>1. dbSession[s].conn \in Pool
      BY <1>a, <2>4 DEF Scoped
    <3>2. s # 0
      OBVIOUS
    <3>3. pooled[dbSession[s].conn].held = s
      BY <1>c, <3>1
    <3>4. QED
      BY <2>1, <3>1, <3>2, <3>3
  <2>5. FirstTransactionIsScoped'
    BY <1>a, <2>1, <2>2, <2>4 DEF FirstTransactionIsScoped, TenantOfSession
  <2>6. QED
    BY <2>3, <2>a, <2>b, <2>5 DEF SessionsInv
<1>11. CASE UNCHANGED <<pooled, dbSession>> /\ role' \in [Members -> DOMAIN Level]
  <2>1. Shape'
    BY <1>11, <1>a DEF Shape
  <2>2. Held'
    BY <1>11, <1>a DEF Held
  <2>3. Scoped'
    BY <1>11, <1>a DEF Scoped
  <2>4. FirstTransactionIsScoped'
    BY <1>11, <1>a DEF FirstTransactionIsScoped, TenantOfSession
  <2>5. QED
    BY <2>1, <2>2, <2>3, <2>4 DEF SessionsInv
<1>12. ASSUME NEW s \in DbSessions, Analyze(s) PROVE SessionsInv'
  BY <1>a, <1>11, <1>12 DEF Analyze
<1>13. CASE NextWindow
  BY <1>a, <1>11, <1>13 DEF NextWindow
<1>14. ASSUME NEW u \in Members, Demote(u) PROVE SessionsInv'
  BY <1>a, <1>11, <1>14 DEF Demote, Level
<1>15. CASE UNCHANGED accessVars
  BY <1>a, <1>11, <1>15 DEF accessVars
<1>16. QED
  BY <1>1, <1>2, <1>3, <1>5, <1>6, <1>7, <1>8, <1>9, <1>10, <1>12, <1>13, <1>14, <1>15 DEF AccessNext

\* No step admits a tenant beyond its limit.
LEMMA CountStep == SessionsInv /\ Counted /\ [AccessNext]_accessVars => Counted'
<1> SUFFICES ASSUME SessionsInv, Counted, [AccessNext]_accessVars PROVE Counted'
  OBVIOUS
<1> USE KeysAreTenants
<1>1. CASE UNCHANGED <<hits, admitted>>
  BY <1>1 DEF Counted, LimitKey
<1>2. ASSUME NEW s \in DbSessions, Analyze(s) PROVE Counted'
  <2> DEFINE u == dbSession[s].user
  <2>1. u \in Members
    BY <1>2 DEF SessionsInv, Scoped, Analyze
  <2>2. /\ hits' = [hits EXCEPT ![LimitKey(u)] = hits[LimitKey(u)] + 1]
        /\ admitted' = [admitted EXCEPT ![TenantOf[u]] = admitted[TenantOf[u]] + 1]
        /\ hits[LimitKey(u)] < TierLimit[TenantOf[u]]
    BY <1>2 DEF Analyze
  <2>3. hits \in [Members -> Nat] /\ admitted \in [Tenancies -> Nat]
    BY DEF Counted
  <2> HIDE DEF u
  <2>4. hits' \in [Members -> Nat] /\ admitted' \in [Tenancies -> Nat]
    BY <2>1, <2>2, <2>3
  <2>5. ASSUME NEW v \in Members
        PROVE  /\ admitted'[TenantOf[v]] = hits'[LimitKey(v)]
               /\ admitted'[TenantOf[v]] <= TierLimit[TenantOf[v]]
    <3>1. admitted[TenantOf[v]] = hits[LimitKey(v)] /\ admitted[TenantOf[v]] <= TierLimit[TenantOf[v]]
      BY DEF Counted
    <3>2. CASE TenantOf[v] = TenantOf[u]
      <4>1. LimitKey(v) = LimitKey(u)
        BY <2>1, <3>2
      <4>2. LimitKey(u) \in Members /\ TenantOf[u] \in Tenancies
        BY <2>1
      <4>3. /\ admitted'[TenantOf[u]] = admitted[TenantOf[u]] + 1
            /\ hits'[LimitKey(u)] = hits[LimitKey(u)] + 1
        BY <2>2, <2>3, <4>2
      <4>4. /\ hits[LimitKey(u)] \in Nat /\ TierLimit[TenantOf[u]] \in Nat
            /\ admitted[TenantOf[u]] = hits[LimitKey(u)]
        BY <2>1, <2>3, <3>1, <3>2, <4>1, <4>2, LimitsAreNat
      <4>5. admitted[TenantOf[u]] + 1 <= TierLimit[TenantOf[u]]
        BY <2>2, <4>4
      <4>6. QED
        BY <3>2, <4>1, <4>3, <4>4, <4>5
    <3>3. CASE TenantOf[v] # TenantOf[u]
      <4>1. LimitKey(v) # LimitKey(u)
        BY <2>1, <3>3
      <4>2. QED
        <5>1. admitted'[TenantOf[v]] = admitted[TenantOf[v]]
          BY <2>2, <2>3, <3>3
        <5>2. hits'[LimitKey(v)] = hits[LimitKey(v)]
          BY <2>2, <2>3, <4>1
        <5>3. QED
          BY <3>1, <5>1, <5>2
    <3>4. QED
      BY <3>2, <3>3
  <2>6. QED
    BY <2>4, <2>5 DEF Counted, LimitKey
<1>3. CASE NextWindow
  <2>1. hits' = [u \in Members |-> 0] /\ admitted' = [t \in Tenancies |-> 0]
    BY <1>3 DEF NextWindow
  <2>2. hits' \in [Members -> Nat] /\ admitted' \in [Tenancies -> Nat]
    BY <2>1
  <2>3. ASSUME NEW u \in Members
        PROVE  admitted'[TenantOf[u]] = hits'[LimitKey(u)] /\ admitted'[TenantOf[u]] <= TierLimit[TenantOf[u]]
    <3>1. LimitKey(u) \in Members /\ TenantOf[u] \in Tenancies
      OBVIOUS
    <3>2. hits'[LimitKey(u)] = 0 /\ admitted'[TenantOf[u]] = 0
      BY <2>1, <3>1
    <3>3. TierLimit[TenantOf[u]] \in Nat
      BY LimitsAreNat
    <3>4. 0 <= TierLimit[TenantOf[u]]
      BY <3>3
    <3>5. QED
      BY <3>2, <3>4
  <2>4. QED
    BY <2>2, <2>3 DEF Counted, LimitKey
<1>4. QED
  BY <1>1, <1>2, <1>3 DEF AccessNext, Outside, OpenRequest, OpenSystem, Authenticate, Deny, CommitSession,
     Reconnect, RefuseSession, Recycle, CloseSession, Demote, accessVars

\* Tokens age within their hours, and windows within the bound.
Tokens == [left : 0..TokenHours, role : DOMAIN Level]
Aging == token \in [Members -> Tokens] /\ windows \in 0..MaxWindows

\* At first every token is new.
LEMMA AgingStart == AccessInit => Aging
<1> SUFFICES ASSUME AccessInit PROVE Aging
  OBVIOUS
<1>1. TokenHours \in 0..TokenHours /\ 0 \in 0..MaxWindows
  BY LimitsAreNat
<1>2. token = [u \in Members |-> [left |-> TokenHours, role |-> role[u]]] /\ windows = 0
  BY DEF AccessInit
<1>3. \A u \in Members : role[u] \in DOMAIN Level
  BY DEF AccessInit, Level
<1>4. token \in [Members -> Tokens]
  BY <1>1, <1>2, <1>3 DEF Tokens
<1> QED
  BY <1>1, <1>2, <1>4 DEF Aging

\* A window takes an hour off each token that has any left.
LEMMA AgingStep == Aging /\ [AccessNext]_accessVars => Aging'
<1> SUFFICES ASSUME Aging, [AccessNext]_accessVars PROVE Aging'
  OBVIOUS
<1>1. CASE UNCHANGED <<token, windows>>
  BY <1>1 DEF Aging
<1>2. CASE NextWindow
  <2>1. windows < MaxWindows /\ windows' = windows + 1
    BY <1>2 DEF NextWindow
  <2>2. windows' \in 0..MaxWindows
    BY <2>1, LimitsAreNat DEF Aging
  <2>3. ASSUME NEW k \in Tokens PROVE [k EXCEPT !.left = IF @ > 0 THEN @ - 1 ELSE 0] \in Tokens
    <3>1. PICK n \in 0..TokenHours : n = k.left
      BY DEF Tokens
    <3>2. PICK m \in 0..TokenHours : m = IF n > 0 THEN n - 1 ELSE 0
      BY LimitsAreNat
    <3>3. [k EXCEPT !.left = IF @ > 0 THEN @ - 1 ELSE 0] = [k EXCEPT !.left = m]
      BY <3>1, <3>2
    <3> QED
      BY <3>3 DEF Tokens
  <2>4. token' = [u \in Members |-> [token[u] EXCEPT !.left = IF @ > 0 THEN @ - 1 ELSE 0]]
    BY <1>2 DEF NextWindow
  <2>5. token' \in [Members -> Tokens]
    BY <2>3, <2>4 DEF Aging
  <2> QED
    BY <2>2, <2>5 DEF Aging
<1> QED
  BY <1>1, <1>2 DEF AccessNext, Outside, OpenRequest, OpenSystem, Authenticate, Deny, CommitSession,
     Reconnect, RefuseSession, Recycle, CloseSession, Analyze, Demote, accessVars

\* A session that has a connection is the one that the pool says holds it.
LEMMA AccessTypes == SessionsInv /\ Aging => AccessTypeOK
<1> SUFFICES ASSUME SessionsInv, Aging PROVE AccessTypeOK
  OBVIOUS
<1>1. \A c \in Pool : pooled[c] \in PooledConn
  BY DEF SessionsInv, Shape
<1>2. \A s \in DbSessions : dbSession[s] \in DbSession
  BY DEF SessionsInv, Shape
<1>3. \A c \in Pool : /\ pooled[c].mark \in {"none", "true", "false"} /\ pooled[c].held \in DbSessions \cup {0}
                     /\ pooled[c].setting \in Tenancies \cup {""}
  BY <1>1 DEF PooledConn
<1>4. \A s \in DbSessions : /\ dbSession[s].pc \in {"idle", "open", "known", "system", "detached", "refused"}
                           /\ dbSession[s].conn \in Pool \cup {0} /\ dbSession[s].role \in DOMAIN Level
  BY <1>2 DEF DbSession
<1>5. \A s \in DbSessions : dbSession[s].conn # 0 => pooled[dbSession[s].conn].held = s
  BY <1>4 DEF SessionsInv, Held
<1>6. \A u \in Members : role[u] \in DOMAIN Level /\ token[u].left \in 0..TokenHours
  BY DEF SessionsInv, Shape, Aging, Tokens
<1> QED
  BY <1>3, <1>4, <1>5, <1>6 DEF AccessTypeOK, Aging

\* No session runs under the setting of another tenant, a request is not refused before its
\* first commit, and the users of a tenant share its limit, whatever connections the pool
\* hands out (session.py:141-184, 218-245; rate_limit.py:31-41).
THEOREM SessionsRunAsTheirTenant == AccessSpec => [](AccessTypeOK /\ AccessInv)
<1>1. SessionsInv /\ Counted => AccessInv
  <2> SUFFICES ASSUME SessionsInv, Counted PROVE AccessInv
    OBVIOUS
  <2>1. NoForeignSetting
    <3> SUFFICES ASSUME NEW c \in Pool
                 PROVE  /\ pooled[c].held = 0 => pooled[c].setting = ""
                        /\ pooled[c].held # 0 /\ pooled[c].setting # "" =>
                             /\ dbSession[pooled[c].held].user # ""
                             /\ pooled[c].setting = TenantOfSession(pooled[c].held)
      BY DEF NoForeignSetting
    <3>1. CASE pooled[c].setting = ""
      BY <3>1
    <3>2. CASE pooled[c].setting # ""
      <4>1. PICK s \in DbSessions : pooled[c].held = s /\ dbSession[s].pc = "known"
        BY <3>2 DEF SessionsInv, Scoped
      <4>2. dbSession[s].conn = c /\ dbSession[s].user \in Members
        BY <4>1 DEF SessionsInv, Held, Scoped
      <4>3. QED
        BY <4>1, <4>2, NobodyIsNone DEF SessionsInv, FirstTransactionIsScoped
    <3>3. QED
      BY <3>1, <3>2
  <2>2. FirstTransactionIsScoped
    BY DEF SessionsInv
  <2>3. TenantsShareTheLimit
    BY DEF Counted, TenantsShareTheLimit, Tenancies
  <2>4. QED
    BY <2>1, <2>2, <2>3 DEF AccessInv
<1>2. SessionsInv /\ Counted /\ [AccessNext]_accessVars => SessionsInv' /\ Counted'
  BY SessionsStep, CountStep
<1>3. SessionsInv /\ Aging => AccessTypeOK
  BY AccessTypes
<1>4. QED
  BY <1>1, <1>2, <1>3, AccessStarts, AgingStart, AgingStep, PTL DEF AccessSpec
=============================================================================
