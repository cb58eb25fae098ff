\* Two requests for one event of any branch race; calls raise, restarts.
CONSTANTS
  Events = {e1}
  Handlers = {h1, h2}
  Kinds = {"sync", "decision", "monitor", "press", "text"}
  LeaseTime = 1
  MaxTries = 3
  MaxFaults = 1
  MaxSilent = 1
  MaxCrashes = 1
SPECIFICATION Spec
SYMMETRY Symmetry
INVARIANTS TypeOK CompletedIsDone ProcessedIsDone
PROPERTIES ImplementsLedger
\* The system stops when every event is answered or its sender has given up.
CHECK_DEADLOCK FALSE
