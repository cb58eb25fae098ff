\* One monitor request at a time; one task, two reports; the day runs to its end.
CONSTANTS
  t1 = t1
  t2 = t2
  Tasks = {t1}
  DayEnd = 3
  Reported = {"started", "blocked"}
  Grace = 1
  ProgressTime = 1
  BlockedTime = 1
  Plans = {"planA", "planB"}
  NoPlan = "none"
  Start <- OneTask
  RecoveryTime = 2
  SummaryTime = 3
  Monitors = {m1}
  MaxReports = 2
  MaxReplans = 0
  MaxManual = 1
SPECIFICATION FairSpec
PROPERTIES FollowedUp DayIsClosed
