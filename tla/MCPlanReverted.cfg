\* One request at a time; Notion is edited and edited back.
CONSTANTS
  Plans <- AllPlans
  Empty <- NoItems
  Pages = {"day", "edited", "empty"}
  PlansOf <- RuleBased
  Returned <- DayPages
  Handlers = {h1}
  MaxEdits = 2
  MaxAborts = 0
SPECIFICATION Spec
INVARIANTS PendingCanBeDecided
