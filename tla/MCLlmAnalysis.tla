----------------------------- MODULE MCLlmAnalysis -----------------------------
(* A small instance of LlmAnalysis for TLC.                                  *)
EXTENDS LlmAnalysis

MCLlmSettings == {[limit |-> 3, soft |-> 2, hard |-> TRUE]}

LlmFairSpec == LlmSpec /\ \A s \in LlmCalls : SF_llmVars(CallStep(s))
=============================================================================
