\* One process delivers two messages in batches of one or two; loops are cut short.
CONSTANTS
  Messages = {m1, m2}
  Workers = {w1}
  MaxAttempts = 2
  LeaseTime = 1
  BatchLimit = 2
  MaxAborts = 2
SPECIFICATION FairSpec
INVARIANTS RetryableIsBelowLimit
PROPERTIES ResolvedIsFinal ResolvedOrStranded
\* The system stops when every message is resolved.
CHECK_DEADLOCK FALSE
