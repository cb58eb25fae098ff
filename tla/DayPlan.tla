------------------------------- MODULE DayPlan -------------------------------
(* The daily plan as the rule-based provider builds it: PlanApproval, with the
   planner of module Planner.  A page is what Notion returns on a day, the
   content of a plan the sequence of its items. *)
EXTENDS PlanApproval, Planner, Functions

CONSTANT Returned   \* Returned[p]: the tasks of page p, in Notion's order

Tasks == [id : STRING, tier : STRING, priority : STRING, start : Int]

(* planner_agent: the plan of the tasks that load_commitments fetched. *)
PlanOf(p) == BuildDailyPlan(Returned[p])

ASSUME ReturnedAssumption ==
    \A p \in Pages :
      /\ Returned[p] \in Seq(Tasks)
      /\ \A i, j \in DOMAIN Returned[p] : Returned[p][i].id = Returned[p][j].id => i = j

ASSUME RuleBasedAssumption == \A p \in Pages : PlansOf[p] = {PlanOf(p)}

-----------------------------------------------------------------------------
(* Core before Flexible, then P1 before P2, then by start. *)
NotLater(a, b) ==
    LET tier(t) == TierRank(t.tier)
        priority(t) == PriorityRank(t.priority)
    IN  /\ tier(a) <= tier(b)
        /\ tier(a) = tier(b) => priority(a) <= priority(b)
        /\ tier(a) = tier(b) /\ priority(a) = priority(b) => a.start <= b.start

(* The day's plan holds every task of the page it was saved from exactly once,
   in the order of tier, priority and start. *)
PlanCoversDay ==
    row.status # "absent" =>
        /\ Range(row.content) = Range(Returned[basis])
        /\ \A i, j \in DOMAIN row.content : i < j =>
              row.content[i] # row.content[j] /\ NotLater(row.content[i], row.content[j])

(* "unchanged polling preserves approval": the token changes, and with it the
   need for approval, only if a task did.  Tasks that Notion returns in another
   order leave the plan alone, as long as no two of them have the same key. *)
ReorderingKeepsPlan ==
    [][row.status # "absent" /\ row'.token # row.token
         => Range(Returned[basis']) # Range(Returned[basis])]_vars
=============================================================================
