\* One request at a time; a request dies half-way.
CONSTANTS
  Plans <- AllPlans
  Empty <- NoItems
  Pages = {"day", "dayAnew", "edited", "empty"}
  PlansOf <- RuleBased
  Returned <- DayPages
  Handlers = {h1}
  MaxEdits = 2
  MaxAborts = 1
SPECIFICATION Spec
INVARIANTS TypeOK HumanApproved LoggedFirst PlanCoversDay
PROPERTIES ImplementsApproval DecisionStands ReorderingKeepsPlan
