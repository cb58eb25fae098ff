--------------------------- MODULE MCPlanApproval ---------------------------
(* Instances of DayPlan for TLC. *)
EXTENDS DayPlan, TLC

Task(id, tier, priority, start) ==
    [id |-> id, tier |-> tier, priority |-> priority, start |-> start]

(* A start of 24 is no time of day. *)
Write == Task("write", "Core", "P1", 14)
Call  == Task("call", "Core", "P1", 9)
Read  == Task("read", "Core", "P2", 8)
Walk  == Task("walk", "Optional", "P1", 24)

(* One day's tasks in two orders, an edited day, a day without tasks. *)
DayPages == [day     |-> <<Walk, Read, Write, Call>>,
             dayAnew |-> <<Call, Write, Walk, Read>>,
             edited  |-> <<Read, [Write EXCEPT !.start = 7]>>,
             empty   |-> << >>]

(* TLC evaluates Built once, but a definition given to a constant at every use. *)
Built     == [p \in DOMAIN DayPages |-> PlanOf(p)]
NoItems   == << >>
AllPlans  == {NoItems} \cup {Built[p] : p \in Pages}
RuleBased == [p \in Pages |-> {Built[p]}]
=============================================================================
