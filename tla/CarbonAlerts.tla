----------------------------- MODULE CarbonAlerts -----------------------------
(***************************************************************************)
(* The carbon budget of a tenant.  Every GET /carbon/budget computes the   *)
(* status of the month and, over the threshold, sends an alert by Slack    *)
(* and by mail, at most once a day.  The session loads the settings once,  *)
(* before the costs are fetched, and decides with them afterwards.         *)
(***************************************************************************)
EXTENDS Integers, FiniteSets

CONSTANTS
  Readers,        \* requests that may be served
  MaxAlertDays,   \* bound: days of the month
  MaxCarbon,      \* bound: usage of the month, in units
  Budgets,        \* budgets that can be saved, in units
  Switches,       \* the preferences that members switch off
  HasSlack, HasSmtp

ASSUME AlertsAssumption ==
  MaxAlertDays \in Nat \ {0} /\ MaxCarbon \in Nat /\ {HasSlack, HasSmtp} \subseteq BOOLEAN

VARIABLES
  alertDay, carbon,  \* today, and the usage of the month
  carbonRow,      \* the tenant's row of carbon_settings
  muted,          \* what is switched off in notification_settings
  reader          \* each request

carbonVars == <<alertDay, carbon, carbonRow, muted, reader>>

Never == 0
NoCarbonRow == [exists |-> FALSE, budget |-> 2, mail |-> FALSE, last |-> Never]
IdleReader == [pc |-> "idle", row |-> NoCarbonRow, status |-> "ok", sent |-> FALSE,
               day |-> Never, marked |-> FALSE, after |-> {}]

AlertsTypeOK ==
  /\ alertDay \in 1..MaxAlertDays /\ carbon \in 0..MaxCarbon /\ muted \subseteq Switches
  /\ carbonRow \in [exists : BOOLEAN, budget : Budgets \cup {2}, mail : BOOLEAN, last : 0..MaxAlertDays]
  /\ \A r \in Readers : reader[r].pc \in {"idle", "fetching", "slack", "mail", "mark", "done", "error"}

AlertsInit ==
  /\ alertDay = 1 /\ carbon = 0 /\ muted = {}
  /\ carbonRow \in {NoCarbonRow} \cup {[NoCarbonRow EXCEPT !.exists = TRUE, !.mail = m] : m \in BOOLEAN}
  /\ reader = [r \in Readers |-> IdleReader]

\* Status of a usage under a budget, with the warning at half of it.  A budget of
\* zero is never used up.
BudgetStatus(row, used) ==
  IF row.budget = 0 \/ 2 * used < row.budget THEN "ok"
  ELSE IF used >= row.budget THEN "exceeded" ELSE "warning"

-----------------------------------------------------------------------------
\* GET /carbon/budget: the settings are loaded, then the costs are fetched.
ReadBudget(r) ==
  /\ reader[r].pc = "idle"
  /\ reader' = [reader EXCEPT ![r].pc = "fetching", ![r].row = carbonRow,
                              ![r].after = {s \in Readers : reader[s].marked}]
  /\ UNCHANGED <<alertDay, carbon, carbonRow, muted>>

\* A later query returns the object the session already holds, unless there was none.
Loaded(r) == IF reader[r].row.exists THEN reader[r].row ELSE carbonRow

\* should_send_alert, which does not look at the status.
MayAlert(row) == ~row.exists \/ row.last # alertDay

\* get_budget_status and the limit of one alert a day.
JudgeBudget(r) ==
  LET row == Loaded(r)
      status == BudgetStatus(row, carbon)
  IN /\ reader[r].pc = "fetching"
     /\ reader' = [reader EXCEPT ![r].row = row, ![r].status = status, ![r].day = alertDay,
                     ![r].pc = IF status = "ok" \/ ~MayAlert(row) THEN "done" ELSE "slack"]
     /\ UNCHANGED <<alertDay, carbon, carbonRow, muted>>

\* SlackService.send_alert.  The alert counts as sent whether or not Slack took it; a
\* new service is made for every alert, so that nothing is taken for a duplicate.
SendSlack(r) ==
  /\ reader[r].pc = "slack"
  /\ reader' = [reader EXCEPT ![r].pc = "mail",
                  ![r].sent = HasSlack /\ {reader[r].status, "slack"} \cap muted = {}]
  /\ UNCHANGED <<alertDay, carbon, carbonRow, muted>>

\* Without Slack the preferences were never read: with mail enabled the request fails.
SendMail(r) ==
  LET row == Loaded(r)
      mails == row.exists /\ row.mail
      sent == reader[r].sent \/ (mails /\ HasSmtp /\ reader[r].status \notin muted)
  IN /\ reader[r].pc = "mail"
     /\ reader' = [reader EXCEPT ![r].sent = sent,
                     ![r].pc = IF mails /\ ~HasSlack THEN "error" ELSE IF sent THEN "mark" ELSE "done"]
     /\ UNCHANGED <<alertDay, carbon, carbonRow, muted>>

\* Mutant of MarkSent: the mark is put on the object of a session that is not committed.
MarkSentLost(r) ==
  /\ reader[r].pc = "mark"
  /\ reader' = [reader EXCEPT ![r].pc = "done", ![r].marked = carbonRow.exists]
  /\ UNCHANGED <<alertDay, carbon, carbonRow, muted>>

\* UPDATE carbon_settings SET last_alert_sent, which needs a row.
MarkSent(r) ==
  /\ reader[r].pc = "mark"
  /\ carbonRow' = IF carbonRow.exists THEN [carbonRow EXCEPT !.last = alertDay] ELSE carbonRow
  /\ reader' = [reader EXCEPT ![r].pc = "done", ![r].marked = carbonRow.exists, ![r].day = alertDay]
  /\ UNCHANGED <<alertDay, carbon, muted>>

\* Saved settings: a row appears, or its budget and its mail switch change.
SaveCarbon ==
  /\ \E b \in Budgets, m \in BOOLEAN : carbonRow' = [carbonRow EXCEPT !.exists = TRUE, !.budget = b, !.mail = m]
  /\ UNCHANGED <<alertDay, carbon, muted, reader>>

SavePreferences ==
  /\ \E off \in SUBSET Switches : muted' = off
  /\ UNCHANGED <<alertDay, carbon, carbonRow, reader>>

UseCarbon ==
  /\ carbon < MaxCarbon /\ carbon' = carbon + 1
  /\ UNCHANGED <<alertDay, carbonRow, muted, reader>>

NextAlertDay ==
  /\ alertDay < MaxAlertDays /\ alertDay' = alertDay + 1
  /\ UNCHANGED <<carbon, carbonRow, muted, reader>>

AlertsNext ==
  \/ \E r \in Readers : ReadBudget(r) \/ JudgeBudget(r) \/ SendSlack(r) \/ SendMail(r) \/ MarkSent(r)
  \/ SaveCarbon \/ SavePreferences \/ UseCarbon \/ NextAlertDay

AlertsSpec == AlertsInit /\ [][AlertsNext]_carbonVars

-----------------------------------------------------------------------------
\* "Prevents alert spam": a request that began after the alert of another was marked
\* does not alert on the same day; only requests that overlap may both alert
\* (budget_alerts.py:111-145, carbon.py:68-91).
OneAlertADay ==
  \A r, s \in Readers :
    s \in reader[r].after /\ reader[r].pc \in {"slack", "mail", "mark"} => reader[r].day # reader[s].day
=============================================================================
