\* One request at a time, five deliveries, three failures, all of them recorded.
CONSTANTS
  Events = {e1}
  Handlers = {h1}
  Kinds = {"sync", "decision", "monitor", "press", "text"}
  LeaseTime = 2
  MaxTries = 5
  MaxFaults = 3
  MaxSilent = 0
  MaxCrashes = 0
SPECIFICATION FairSpec
INVARIANTS NoFalseSuccess
PROPERTIES CompletedIsNotClaimed EventuallyDone
\* The system stops when every event is answered or its sender has given up.
CHECK_DEADLOCK FALSE
