SPECIFICATION Spec
CONSTANTS
  alarm = alarm
  report = report
  w1 = w1
  w2 = w2
  Nobody = Nobody
  Files = {report}
  InPlace = {}
  Mail <- AlarmAndReport
  Workers = {w1}
  HasApprover = TRUE
  MaxAttempts = 2
  MaxFailures = 1
  MaxKills = 1
CHECK_DEADLOCK FALSE
INVARIANT ResultReachesThread
