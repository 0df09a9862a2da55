------------------------------ MODULE LlmAnalysis ------------------------------
(***************************************************************************)
(* FinOpsAnalyzer.analyze for one tenant: look in the cache, lock the      *)
(* tenant's budget row and compare the month's usage with its limit, pick  *)
(* a provider and a model, call it, record the cost, cache the result.     *)
(* The callers are the API, whose session is never committed, and the job  *)
(* processor, which commits after the handler.  The row lock is held until *)
(* the caller's transaction ends.                                          *)
(*                                                                         *)
(* Money is counted in units of one small call; Redis is configured.       *)
(***************************************************************************)
EXTENDS Integers

CONSTANTS
  LlmCalls,       \* sessions that analyse
  LlmSettings,    \* what PUT /settings/llm may write: [limit, soft, hard]
  MaxLlmCost,     \* bound: the cost of a call is 1..MaxLlmCost
  HasAzureKey,    \* whether LLMBudget has the column azure_api_key
  ProvidersFail,  \* whether the providers may all fail
  MaxLlmFaults    \* bound: calls that die, and updates of the settings

ASSUME LlmAssumption ==
  /\ LlmSettings \subseteq [limit : Nat, soft : Nat, hard : BOOLEAN]
  /\ MaxLlmCost \in Nat /\ MaxLlmFaults \in Nat /\ "none" \notin LlmCalls

VARIABLES
  llmBudget,      \* the LLMBudget row of the tenant
  llmLock,        \* the call whose transaction holds the row, or "none"
  llmUsage,       \* committed cost of the month
  softFlag,       \* budget_soft in Redis
  analysisCache,  \* the tenant's analysis in Redis
  llmCall,        \* what each call is doing
  llmFaults

llmVars == <<llmBudget, llmLock, llmUsage, softFlag, analysisCache, llmCall, llmFaults>>

NoBudget == [limit |-> 0, soft |-> 0, hard |-> FALSE, alerted |-> FALSE, exists |-> FALSE]

\* The columns' defaults: ten dollars, alert at 80 percent, no hard limit.
DefaultSettings == [limit |-> 10, soft |-> 8, hard |-> FALSE]

NoCall == [pc |-> "idle", by |-> "api", estimate |-> 0, cost |-> 0, cheap |-> FALSE,
           format |-> "valid", alert |-> FALSE]

\* What LLMGuardrails and the raw parse make of an answer: it fits the schema,
\* it is some other JSON object, no JSON, or JSON that is no object.
Formats == {"valid", "object", "text", "list"}

LlmTypeOK ==
  /\ llmBudget.limit \in Nat /\ llmBudget.soft \in Nat
  /\ llmBudget.exists \in BOOLEAN /\ llmBudget.alerted \in BOOLEAN
  /\ llmLock \in LlmCalls \cup {"none"}
  /\ llmUsage \in Nat /\ softFlag \in BOOLEAN
  /\ analysisCache \in {"none", "result", "error"}
  /\ llmCall \in [LlmCalls ->
       [pc : {"idle", "started", "authorized", "ready", "answered", "recorded", "saved"},
        by : {"api", "job"}, estimate : 0..MaxLlmCost, cost : 0..MaxLlmCost,
        cheap : BOOLEAN, format : Formats, alert : BOOLEAN]]
  /\ llmFaults \in 0..MaxLlmFaults

LlmInit ==
  /\ llmBudget = NoBudget
  /\ llmLock = "none" /\ llmUsage = 0 /\ softFlag = FALSE /\ analysisCache = "none"
  /\ llmCall = [s \in LlmCalls |-> NoCall]
  /\ llmFaults = 0

At(s, pc) == llmCall[s].pc = pc

\* The caller's transaction ends: its locks go.
Release(s) ==
  /\ llmCall' = [llmCall EXCEPT ![s] = NoCall]
  /\ llmLock' = IF llmLock = s THEN "none" ELSE llmLock

-----------------------------------------------------------------------------
\* POST /costs/analyze or a FINOPS_ANALYSIS job; a cached analysis is returned
\* at once, in delta mode too, for its records are never cached with it.
StartAnalysis(s, by) ==
  /\ At(s, "idle") /\ analysisCache = "none"
  /\ llmCall' = [llmCall EXCEPT ![s] = [NoCall EXCEPT !.pc = "started", !.by = by]]
  /\ UNCHANGED <<llmBudget, llmLock, llmUsage, softFlag, analysisCache, llmFaults>>

\* Mutant of Authorize: the row is read without FOR UPDATE.
AuthorizeUnlocked(s, estimate) ==
  /\ At(s, "started")
  /\ llmBudget.exists /\ llmUsage + estimate <= llmBudget.limit
  /\ llmCall' = [llmCall EXCEPT ![s].pc = "authorized", ![s].estimate = estimate]
  /\ UNCHANGED <<llmBudget, llmLock, llmUsage, softFlag, analysisCache, llmFaults>>

\* check_and_reserve: the limit binds whether or not hard_limit is set.  The
\* reservation is a line in the log: only the row lock keeps the others out.
Authorize(s, estimate) ==
  /\ At(s, "started") /\ llmLock = "none"
  /\ llmBudget.exists /\ llmUsage + estimate <= llmBudget.limit
  /\ llmLock' = s
  /\ llmCall' = [llmCall EXCEPT ![s].pc = "authorized", ![s].estimate = estimate]
  /\ UNCHANGED <<llmBudget, llmUsage, softFlag, analysisCache, llmFaults>>

\* No budget row, or too little is left: the call fails.
RefuseAnalysis(s, estimate) ==
  /\ At(s, "started") /\ llmLock = "none"
  /\ ~llmBudget.exists \/ llmUsage + estimate > llmBudget.limit
  /\ Release(s)
  /\ UNCHANGED <<llmBudget, llmUsage, softFlag, analysisCache, llmFaults>>

\* check_budget: the flag in Redis is believed before the database.
BudgetStatus ==
  CASE softFlag -> "soft_limit"
    [] ~softFlag /\ llmUsage >= llmBudget.limit ->
         IF llmBudget.hard THEN "hard_limit" ELSE "soft_limit"
    [] ~softFlag /\ llmUsage < llmBudget.limit ->
         IF llmUsage >= llmBudget.soft THEN "soft_limit" ELSE "ok"

\* _setup_client_and_usage: a soft limit selects the cheapest model.
SetupClient(s) ==
  /\ At(s, "authorized") /\ HasAzureKey /\ BudgetStatus # "hard_limit"
  /\ softFlag' = (softFlag \/ (llmUsage < llmBudget.limit /\ llmUsage >= llmBudget.soft))
  /\ llmCall' = [llmCall EXCEPT ![s].pc = "ready", ![s].cheap = BudgetStatus = "soft_limit"]
  /\ UNCHANGED <<llmBudget, llmLock, llmUsage, analysisCache, llmFaults>>

\* The dictionary of keys reads budget.azure_api_key: without such a column the
\* call ends in an AttributeError.
SetupRaises(s) ==
  /\ At(s, "authorized") /\ (~HasAzureKey \/ BudgetStatus = "hard_limit")
  /\ Release(s)
  /\ UNCHANGED <<llmBudget, llmUsage, softFlag, analysisCache, llmFaults>>

\* The primary provider answers, at the latest at its third try, or one of the
\* fallbacks does, which are not the cheap models.
Answer(s, cost, format) ==
  /\ At(s, "ready")
  /\ llmCall' = [llmCall EXCEPT ![s].pc = "answered", ![s].cost = cost, ![s].format = format]
  /\ UNCHANGED <<llmBudget, llmLock, llmUsage, softFlag, analysisCache, llmFaults>>

AllProvidersFail(s) ==
  /\ At(s, "ready") /\ ProvidersFail
  /\ Release(s)
  /\ UNCHANGED <<llmBudget, llmUsage, softFlag, analysisCache, llmFaults>>

\* _check_budget_and_alert: once in a month, at the threshold.
DueAlert(s) == llmUsage + llmCall[s].cost >= llmBudget.soft /\ ~llmBudget.alerted

\* record_usage: the row is flushed, and the alert sent and marked, in the caller's
\* transaction.
RecordUsage(s) ==
  /\ At(s, "answered")
  /\ llmCall' = [llmCall EXCEPT ![s].pc = "recorded", ![s].alert = DueAlert(s)]
  /\ UNCHANGED <<llmBudget, llmLock, llmUsage, softFlag, analysisCache, llmFaults>>

\* _process_analysis_results: an answer that cannot be parsed is cached as well.
SaveResult(s) ==
  /\ At(s, "recorded") /\ llmCall[s].format # "list"
  /\ analysisCache' = IF llmCall[s].format = "text" THEN "error" ELSE "result"
  /\ llmCall' = [llmCall EXCEPT ![s].pc = "saved"]
  /\ UNCHANGED <<llmBudget, llmLock, llmUsage, softFlag, llmFaults>>

\* llm_result.get on a list raises: the transaction rolls back with the record.
ResultRaises(s) ==
  /\ At(s, "recorded") /\ llmCall[s].format = "list"
  /\ Release(s)
  /\ UNCHANGED <<llmBudget, llmUsage, softFlag, analysisCache, llmFaults>>

\* get_db closes the session without a commit: the record and the mark of the
\* alert are rolled back.
EndApi(s) ==
  /\ At(s, "saved") /\ llmCall[s].by = "api"
  /\ Release(s)
  /\ UNCHANGED <<llmBudget, llmUsage, softFlag, analysisCache, llmFaults>>

\* The processor commits the handler's work.
EndJob(s) ==
  /\ At(s, "saved") /\ llmCall[s].by = "job"
  /\ llmUsage' = llmUsage + llmCall[s].cost
  /\ llmBudget' = [llmBudget EXCEPT !.alerted = @ \/ llmCall[s].alert]
  /\ Release(s)
  /\ UNCHANGED <<softFlag, analysisCache, llmFaults>>

\* The process dies or the session is lost: the transaction rolls back.
LoseCall(s) ==
  /\ ~At(s, "idle")
  /\ llmFaults < MaxLlmFaults /\ llmFaults' = llmFaults + 1
  /\ Release(s)
  /\ UNCHANGED <<llmBudget, llmUsage, softFlag, analysisCache>>

\* The row with these settings.
Configured(new) ==
  [llmBudget EXCEPT !.limit = new.limit, !.soft = new.soft, !.hard = new.hard, !.exists = TRUE]

\* GET /settings/llm makes the default row.
CreateBudget ==
  /\ ~llmBudget.exists
  /\ llmBudget' = [Configured(DefaultSettings) EXCEPT !.alerted = FALSE]
  /\ UNCHANGED <<llmLock, llmUsage, softFlag, analysisCache, llmCall, llmFaults>>

\* PUT /settings/llm: waits for the row, and leaves alert_sent_at.
UpdateBudget(new) ==
  /\ llmLock = "none"
  /\ llmFaults < MaxLlmFaults /\ llmFaults' = llmFaults + 1
  /\ llmBudget' = Configured(new)
  /\ UNCHANGED <<llmLock, llmUsage, softFlag, analysisCache, llmCall>>

\* The time to live of the flag (300 s) and of the analysis (24 h).
FlagExpires ==
  /\ softFlag /\ softFlag' = FALSE
  /\ UNCHANGED <<llmBudget, llmLock, llmUsage, analysisCache, llmCall, llmFaults>>

AnalysisExpires ==
  /\ analysisCache # "none" /\ analysisCache' = "none"
  /\ UNCHANGED <<llmBudget, llmLock, llmUsage, softFlag, llmCall, llmFaults>>

\* Usage and the alert are those of the calendar month; no call is under way.
NewMonth ==
  /\ llmUsage > 0 /\ \A s \in LlmCalls : At(s, "idle")
  /\ llmUsage' = 0 /\ llmBudget' = [llmBudget EXCEPT !.alerted = FALSE]
  /\ UNCHANGED <<llmLock, softFlag, analysisCache, llmCall, llmFaults>>

CallStep(s) ==
  \/ \E cost \in 1..MaxLlmCost :
       Authorize(s, cost) \/ RefuseAnalysis(s, cost) \/ \E format \in Formats : Answer(s, cost, format)
  \/ SetupClient(s) \/ SetupRaises(s) \/ AllProvidersFail(s)
  \/ RecordUsage(s) \/ SaveResult(s) \/ ResultRaises(s) \/ EndApi(s) \/ EndJob(s)

LlmNext ==
  \/ \E s \in LlmCalls : CallStep(s) \/ LoseCall(s) \/ \E by \in {"api", "job"} : StartAnalysis(s, by)
  \/ CreateBudget \/ FlagExpires \/ AnalysisExpires \/ NewMonth
  \/ \E new \in LlmSettings : UpdateBudget(new)

LlmSpec == LlmInit /\ [][LlmNext]_llmVars

-----------------------------------------------------------------------------
(* Properties.                                                             *)

\* "Budget state is always consistent (no double-spending)": what a job adds to the
\* committed usage fitted, as estimated, the limit that holds when it commits.
CommittedSpendFits ==
  [][\A s \in LlmCalls :
       llmUsage' > llmUsage /\ At(s, "saved") /\ llmCall'[s].pc = "idle"
         => llmUsage + llmCall[s].estimate <= llmBudget.limit]_llmVars

\* The commit that takes the month's usage to the threshold leaves the alert sent.
ThresholdIsAlerted ==
  [][llmUsage' > llmUsage /\ llmUsage' >= llmBudget.soft => llmBudget'.alerted]_llmVars

\* No analysis at or over the threshold starts on an expensive model.
OverThresholdIsCheap ==
  \A s \in LlmCalls : At(s, "ready") /\ llmUsage >= llmBudget.soft => llmCall[s].cheap

\* An analysis ends, and so no one waits for the budget row for ever.
AnalysisEnds == \A s \in LlmCalls : ~At(s, "idle") ~> At(s, "idle")

\* "3. Call LLM with authorized reservation 4. Record actual usage on success": an
\* analysis that was authorised gets its answer when the providers do not fail.
AnalysesSucceed == \A s \in LlmCalls : At(s, "authorized") ~> At(s, "answered")

\* The budget row is kept to: spending fits it, its threshold is alerted and makes
\* models cheap, and whoever has locked it gives it back.
BudgetIsKept ==
  CommittedSpendFits /\ ThresholdIsAlerted /\ []OverThresholdIsCheap /\ AnalysisEnds
=============================================================================
