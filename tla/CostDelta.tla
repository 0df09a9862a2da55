------------------------------- MODULE CostDelta -------------------------------
(***************************************************************************)
(* DeltaAnalysisService.compute_delta: what the resources cost on the last *)
(* days is compared with the days before, so that only changes go to the   *)
(* LLM.  A resource's daily cost is its total over the days on which the   *)
(* bill names it, not over the days compared.  The code's floats are taken *)
(* for exact.                                                              *)
(***************************************************************************)
EXTENDS Integers, FiniteSets, Functions, Sequences

CONSTANTS
  Resources,     \* what the bill names
  DayBills,      \* what a resource costs on a day, NotBilled among them
  DaysCompared,  \* days_to_compare
  TopMovers,     \* TOP_MOVERS_COUNT
  Dollar         \* how many units of money a dollar is

NotBilled == -1

\* The unit of money is so small that daily costs are whole.
ASSUME DeltaAssumption ==
  /\ IsFiniteSet(Resources) /\ DaysCompared \in Nat \ {0} /\ TopMovers \in Nat /\ Dollar \in Nat
  /\ NotBilled \in DayBills /\ DayBills \subseteq Nat \cup {NotBilled}
  /\ \A cost \in DayBills \ {NotBilled}, n \in 1..DaysCompared : cost % n = 0

VARIABLE compared   \* the two periods: the costs of each resource, day by day
deltaVars == <<compared>>

Periods == [Resources -> [1..DaysCompared -> DayBills]]

Nothing == [r \in Resources |-> [d \in 1..DaysCompared |-> NotBilled]]

DeltaInit == compared = [before |-> Nothing, after |-> Nothing]

\* analyze_with_delta is given any two bills.
DeltaNext ==
  /\ compared = [before |-> Nothing, after |-> Nothing]
  /\ \E before, after \in Periods : compared' = [before |-> before, after |-> after]

DeltaSpec == DeltaInit /\ [][DeltaNext]_deltaVars

-----------------------------------------------------------------------------
BilledOn(bill, r) == {d \in 1..DaysCompared : bill[r][d] # NotBilled}
Billed(bill) == {r \in Resources : BilledOn(bill, r) # {}}

Total(bill, r) == SumFunctionOnSet(bill[r], BilledOn(bill, r))

\* _aggregate_by_resource
Daily(bill, r) == Total(bill, r) \div Cardinality(BilledOn(bill, r))

Magnitude(n) == IF n < 0 THEN -n ELSE n

\* MINIMUM_COST_THRESHOLD is a dollar a day.
New == {r \in Billed(compared.after) \ Billed(compared.before) : Daily(compared.after, r) >= Dollar}
Removed == Billed(compared.before) \ Billed(compared.after)
Change(r) == Daily(compared.after, r) - Daily(compared.before, r)

\* Changes of at least half a dollar a day.
Deltas == {r \in Billed(compared.before) \cap Billed(compared.after) : 2 * Magnitude(Change(r)) >= Dollar}

\* sorted(S, key, reverse=True): which of equals comes first is open.
Ranked(S, key) ==
  CHOOSE s \in [1..Cardinality(S) -> S] :
    Range(s) = S /\ \A i, j \in 1..Cardinality(S) : i < j => key[s[i]] >= key[s[j]]

Top(S, key) == SubSeq(Ranked(S, key), 1, IF Cardinality(S) < TopMovers THEN Cardinality(S) ELSE TopMovers)

Increases == {r \in Deltas : Change(r) > 0}
Decreases == {r \in Deltas : Change(r) < 0}
TopIncreases == Top(Increases, [r \in Increases |-> Change(r)])
TopDecreases == Top(Decreases, [r \in Decreases |-> -Change(r)])

TotalDaily(bill) == SumFunctionOnSet([r \in Billed(bill) |-> Daily(bill, r)], Billed(bill))

\* Whether the total changed by 15 percent.
TotalMoved ==
  /\ TotalDaily(compared.before) > 0
  /\ 100 * Magnitude(TotalDaily(compared.after) - TotalDaily(compared.before))
       >= 15 * TotalDaily(compared.before)

\* Mutant of WorthAnalyzing: only the changes of single resources count.
WorthAnalyzingChanges == TopIncreases # <<>> \/ TopDecreases # <<>> \/ New # {}

\* has_significant_changes
WorthAnalyzing == TopIncreases # <<>> \/ TopDecreases # <<>> \/ New # {} \/ TotalMoved

-----------------------------------------------------------------------------
\* The list that is sent names the largest increases: what is left out grew no more.
TopMoversLead ==
  \A r \in Deltas, i \in DOMAIN TopIncreases :
    r \notin Range(TopIncreases) => Change(r) <= Change(TopIncreases[i])

SpendOf(bill) == SumFunctionOnSet([r \in Resources |-> Total(bill, r)], Resources)
Regular(bill) == \A r \in Resources : BilledOn(bill, r) \in {{}, 1..DaysCompared}

\* "No significant changes" is never said of a period whose spend is 15 percent more
\* or less than the one before, when what is billed is billed every day.
PassedOverIsSmall ==
  LET before == SpendOf(compared.before)
      after  == SpendOf(compared.after)
  IN Regular(compared.before) /\ Regular(compared.after) /\ before > 0 /\ ~WorthAnalyzing
       => 100 * Magnitude(after - before) < 15 * before

\* No large change is kept from the model: neither by the ranking nor by the verdict
\* that there is nothing to analyse.
DeltaInv == TopMoversLead /\ PassedOverIsSmall
=============================================================================
