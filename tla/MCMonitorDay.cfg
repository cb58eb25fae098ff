\* One monitor request at a time; a day of four times, two reports, one change of plan.
CONSTANTS
  t1 = t1
  t2 = t2
  Tasks = {t1, t2}
  DayEnd = 3
  Reported = {"started", "completed", "blocked"}
  Grace = 1
  ProgressTime = 1
  BlockedTime = 1
  Plans = {"planA", "planB"}
  NoPlan = "none"
  Start <- Schedule
  RecoveryTime = 2
  SummaryTime = 3
  Monitors = {m1}
  MaxReports = 2
  MaxReplans = 1
  MaxManual = 1
SPECIFICATION Spec
INVARIANTS TypeOK AskedForAReason
PROPERTIES MessagesInOrder DoneIsLeftAlone
