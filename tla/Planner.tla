------------------------------- MODULE Planner -------------------------------
(* The rule-based planner (intelligence.py, RuleBasedIntelligenceProvider.
   build_daily_plan): the order in which the day's Notion tasks enter the plan.
   Operators only, no state.

   A task is a record with its commitment tier, its priority and its start; the
   other fields are copied into the plan as they are and stand in its id.
   Notion hands the tasks over as a sequence, sorted by Window and Priority and
   otherwise in an order of its own.  A start is compared as ISO text, which
   orders the times of one UTC offset, so it is a number here; a task without a
   time ("99:99") has a start later than every time of the day. *)
EXTENDS Integers, Sequences, FiniteSets

(* commitment_rank and priority_rank; an unknown option ranks last. *)
TierRank(tier) ==
    CASE tier = "Core" -> 0 [] tier = "Flexible" -> 1 [] tier = "Optional" -> 2 [] OTHER -> 9
PriorityRank(priority) ==
    CASE priority = "P1" -> 0 [] priority = "P2" -> 1 [] priority = "P3" -> 2 [] OTHER -> 9

(* Mutants of KeyBelow: the priority is left out; the start is. *)
MutKeyBelowTier(a, b) ==
    \/ TierRank(a.tier) < TierRank(b.tier)
    \/ a.tier = b.tier /\ a.start < b.start
MutKeyBelowNoStart(a, b) ==
    \/ TierRank(a.tier) < TierRank(b.tier)
    \/ /\ TierRank(a.tier) = TierRank(b.tier)
       /\ PriorityRank(a.priority) < PriorityRank(b.priority)

(* The sort key of a is below that of b: tier, then priority, then start. *)
KeyBelow(a, b) ==
    \/ TierRank(a.tier) < TierRank(b.tier)
    \/ /\ TierRank(a.tier) = TierRank(b.tier)
       /\ \/ PriorityRank(a.priority) < PriorityRank(b.priority)
          \/ PriorityRank(a.priority) = PriorityRank(b.priority) /\ a.start < b.start

(* sorted() is stable: tasks whose keys agree keep their order. *)
Precedes(tasks, i, j) ==
    \/ KeyBelow(tasks[i], tasks[j])
    \/ ~ KeyBelow(tasks[j], tasks[i]) /\ i < j

(* DailyPlanItem.order of the i-th task. *)
Place(tasks, i) == 1 + Cardinality({j \in DOMAIN tasks : Precedes(tasks, j, i)})

(* The items of the plan in their order. *)
BuildDailyPlan(tasks) ==
    [k \in DOMAIN tasks |-> tasks[CHOOSE i \in DOMAIN tasks : Place(tasks, i) = k]]
=============================================================================
