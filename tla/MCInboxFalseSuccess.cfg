\* One request at a time; the database fails twice; the retry comes within the lease.
CONSTANTS
  Events = {e1}
  Handlers = {h1}
  Kinds = {"press"}
  LeaseTime = 2
  MaxTries = 2
  MaxFaults = 1
  MaxSilent = 1
  MaxCrashes = 0
SPECIFICATION Spec
INVARIANTS NoFalseSuccess
\* The system stops when every event is answered or its sender has given up.
CHECK_DEADLOCK FALSE
