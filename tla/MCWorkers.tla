------------------------------- MODULE MCWorkers -------------------------------
(* Small instances of the parts that work in the background, for TLC.  The   *)
(* parts share no state: a behaviour is a behaviour of one of them, while    *)
(* the others rest in their initial states.                                  *)
EXTENDS MCBilling, Sweeps, LlmAnalysis, CostRecords, ProviderCircuits

CONSTANTS t1, t2, c1, c2, c3

VARIABLE part

MCPlan == [t \in Tenants |-> IF t = t1 THEN "pro" ELSE "growth"]
MCOwner == [c \in Connections |-> IF c = c3 THEN t2 ELSE t1]
MCLlmSettings == {[limit |-> 3, soft |-> 2, hard |-> TRUE]}
MCServiceOf == [b \in Bills |-> "unknown"]

workVars == <<vars, sweepVars, llmVars, costVars>>

WorkersInit ==
  /\ part \in {"billing", "sweeps", "llm", "costs", "circuits"}
  /\ IF part = "billing" THEN TRUE ELSE sub = NoSub
  /\ Init /\ SweepInit /\ LlmInit /\ CostInit /\ CircuitInit

WorkNext ==
  \/ part = "billing" /\ Next /\ UNCHANGED <<sweepVars, llmVars, costVars>>
  \/ part = "sweeps" /\ SweepNext /\ UNCHANGED <<vars, llmVars, costVars>>
  \/ part = "llm" /\ LlmNext /\ UNCHANGED <<vars, sweepVars, costVars>>
  \/ part = "costs" /\ CostNext /\ UNCHANGED <<vars, sweepVars, llmVars>>

WorkersNext ==
  \/ WorkNext /\ UNCHANGED <<part, circuitVars>>
  \/ part = "circuits" /\ CircuitNext /\ UNCHANGED <<part, workVars>>

WorkersVars == <<part, workVars, circuitVars>>
WorkersSpec == WorkersInit /\ [][WorkersNext]_WorkersVars

\* Each part keeps the fairness of its module.
In(p, A) == part = p /\ A
WorkersFairness ==
  /\ \A s \in Sessions : WF_vars(In("billing", Step(s)))
  /\ WF_vars(In("billing", \E s \in Sessions, j \in JobSlots : RunJob(s, j)))
  /\ \A w \in SweepWorkers : WF_sweepVars(In("sweeps", SweepStep(w)))
  /\ \A m \in SweepMessages : WF_sweepVars(In("sweeps", \E w \in SweepWorkers : TakeTask(w, m)))
  /\ \A s \in LlmCalls : SF_llmVars(In("llm", CallStep(s)))
  /\ WF_costVars(In("costs", Maintenance))
  /\ \A j \in Ingestions : /\ WF_costVars(In("costs", IngestionStep(j)))
                           /\ WF_costVars(In("costs", QueueIngestion(j)))
  /\ WF_circuitVars(In("circuits", Rest))
  /\ WF_circuitVars(In("circuits", \E c \in CircuitCallers : Ask(c)))
  /\ WF_circuitVars(In("circuits", \E c \in CircuitCallers : Call(c)))

WorkersFairSpec == WorkersSpec /\ WorkersFairness

\* Every part keeps its variables within their types.
WorkersTypeOK ==
  /\ TypeOK /\ SweepTypeOK /\ LlmTypeOK /\ CostTypeOK /\ CircuitTypeOK
=============================================================================
