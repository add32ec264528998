SPECIFICATION FairSpec
CONSTANTS
  alarm = alarm
  report = report
  w1 = w1
  w2 = w2
  Nobody = Nobody
  Files = {alarm, report}
  InPlace = {alarm}
  Mail <- AlarmAndStray
  Workers = {w1, w2}
  HasApprover = TRUE
  MaxAttempts = 2
  MaxFailures = 1
  MaxKills = 1
CHECK_DEADLOCK FALSE
INVARIANTS TypeOK PublishedOncePerRun
PROPERTIES CourierSpec EveryMailPublished 
