------------------------------ MODULE Attribution ------------------------------
(***************************************************************************)
(* AttributionEngine: a tenant's rules split the cost of a record over     *)
(* buckets; the first active rule by priority that matches decides.        *)
(* apply_rules_to_tenant deletes a record's allocations, writes new ones   *)
(* and commits.  One record stands for the tenant's.  Nothing calls the    *)
(* engine with its dates (see CostRecords), so there is one run at a time. *)
(*                                                                         *)
(* Allocated amounts are in hundredths of the unit of the costs, so that a *)
(* percentage of a cost is exact, as it is among decimals.                 *)
(***************************************************************************)
EXTENDS Integers, Sequences, Functions

CONSTANTS
  AttributionRules,  \* [type, service, priority, splits], the splits a sequence of portions
  Buckets,           \* the buckets that rules name
  RecordCosts,       \* costs of the record
  RecordServices     \* services of the record

Portion == [bucket : Buckets, share : Nat]
Allocation == [bucket : Buckets \cup {"Unallocated"}, amount : Nat]

ASSUME AttributionAssumption ==
  /\ RecordCosts \subseteq Nat
  /\ \A r \in AttributionRules : /\ r.type \in {"DIRECT", "PERCENTAGE", "FIXED"}
                                /\ r.splits \in Seq(Portion)

VARIABLES
  costed,       \* the record: [cost, service]
  applied,      \* history: the rules that were active at the last run
  allocations   \* cost_allocations of the record, in the order of their rows

attributionVars == <<costed, applied, allocations>>

\* match_conditions: region, account and tags are further conjuncts like the service.
Matches(rule, record) == rule.service \in {"any", record.service}

\* get_active_rules, ordered by priority: the database chooses among equals.
FirstMatch(rules, record) ==
  {r \in rules : Matches(r, record) /\ \A q \in rules : Matches(q, record) => r.priority <= q.priority}

Unallocated(amount) == [bucket |-> "Unallocated", amount |-> amount]

\* DIRECT gives all to the first bucket, PERCENTAGE the shares, which need not make 100,
\* and FIXED the amounts.
Given(rule, cost) ==
  CASE rule.type = "DIRECT" ->
         <<IF rule.splits = <<>> THEN Unallocated(100 * cost)
           ELSE [bucket |-> rule.splits[1].bucket, amount |-> 100 * cost]>>
    [] rule.type = "PERCENTAGE" ->
         [i \in DOMAIN rule.splits |-> [bucket |-> rule.splits[i].bucket, amount |-> cost * rule.splits[i].share]]
    [] rule.type = "FIXED" ->
         [i \in DOMAIN rule.splits |-> [bucket |-> rule.splits[i].bucket, amount |-> 100 * rule.splits[i].share]]

Shares(rule) == SumFunctionOnSet([i \in DOMAIN rule.splits |-> rule.splits[i].share], DOMAIN rule.splits)

\* What a FIXED rule leaves goes to Unallocated.
Split(rule, cost) ==
  IF rule.type = "FIXED" /\ Shares(rule) < cost
  THEN Append(Given(rule, cost), Unallocated(100 * (cost - Shares(rule))))
  ELSE Given(rule, cost)

\* apply_rules: without a rule, or with one that splits nothing, all is Unallocated.
Applied(rules, record) ==
  LET none == <<Unallocated(100 * record.cost)>>
      first == FirstMatch(rules, record)
  IN IF first = {} THEN {none}
     ELSE {IF Split(r, record.cost) = <<>> THEN none ELSE Split(r, record.cost) : r \in first}

AttributionTypeOK ==
  /\ costed \in [cost : RecordCosts, service : RecordServices]
  /\ applied \subseteq AttributionRules
  /\ allocations \in Seq(Allocation)

AttributionInit ==
  /\ costed \in [cost : RecordCosts, service : RecordServices]
  /\ applied = {} /\ allocations = <<>>

\* Mutant of Reallocate: the allocations there are stay.
ReallocateAgain(rules) ==
  /\ applied' = rules
  /\ Len(allocations) < 3 /\ \E new \in Applied(rules, costed) : allocations' = allocations \o new
  /\ UNCHANGED costed

\* apply_rules_to_tenant, with the rules that are active now.
Reallocate(rules) ==
  /\ applied' = rules
  /\ allocations' \in Applied(rules, costed)
  /\ UNCHANGED costed

AttributionNext == \E rules \in SUBSET AttributionRules : Reallocate(rules)

AttributionSpec == AttributionInit /\ [][AttributionNext]_attributionVars

-----------------------------------------------------------------------------
Allocated == SumFunctionOnSet([i \in DOMAIN allocations |-> allocations[i].amount], DOMAIN allocations)

\* Rules a tenant should write: the percentages make 100, the amounts fit.
WellFormed(rule, cost) ==
  CASE rule.type = "DIRECT"     -> TRUE
    [] rule.type = "PERCENTAGE" -> Shares(rule) = 100
    [] rule.type = "FIXED"      -> Shares(rule) <= cost

\* With well-formed rules, whatever they were before, the allocations of a record
\* add up to its cost.
AllocationsAddUp ==
  allocations # <<>> /\ (\A r \in applied : WellFormed(r, costed.cost)) => Allocated = 100 * costed.cost

\* "First matching rule wins": money goes to a bucket only by an active rule that names
\* it and matches, and has no matching rule before it.  What no rule gives is Unallocated.
FirstRuleWins ==
  \A i \in DOMAIN allocations : allocations[i].bucket # "Unallocated" =>
    \E r \in applied : /\ Matches(r, costed) /\ \E n \in DOMAIN r.splits : r.splits[n].bucket = allocations[i].bucket
                       /\ \A q \in applied : Matches(q, costed) => r.priority <= q.priority

\* The allocations of a record after any change of rules: they add up, and they are
\* those of the first rule that matches.
AttributionInv == AllocationsAddUp /\ FirstRuleWins
=============================================================================
