\* Two requests at a time over pages nobody edits.
CONSTANTS
  Plans <- AllPlans
  Empty <- NoItems
  Pages = {"day"}
  PlansOf <- RuleBased
  Returned <- DayPages
  Handlers = {h1, h2}
  MaxEdits = 0
  MaxAborts = 0
SPECIFICATION FairSpec
INVARIANTS PendingWasAsked CausesFirst
PROPERTIES PressIsApplied
