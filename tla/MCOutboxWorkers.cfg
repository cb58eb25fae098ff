\* Two processes deliver; a lease can end while its worker is still sending.
CONSTANTS
  Messages = {m1, m2}
  Workers = {w1, w2}
  MaxAttempts = 2
  LeaseTime = 1
  BatchLimit = 2
  MaxAborts = 1
SPECIFICATION Spec
INVARIANTS TypeOK PostedOnce SentWasAccepted DeadIsExhausted
PROPERTIES ImplementsMailbox RetryableInTime
\* The system stops when every message is resolved.
CHECK_DEADLOCK FALSE
