\* Two requests at a time, none dies.
CONSTANTS
  Plans <- AllPlans
  Empty <- NoItems
  Pages = {"day", "edited", "empty"}
  PlansOf <- RuleBased
  Returned <- DayPages
  Handlers = {h1, h2}
  MaxEdits = 1
  MaxAborts = 0
SPECIFICATION Spec
INVARIANTS HumanApproved
