SPECIFICATION FairSpec
CONSTANTS
  alice = alice  mallory = mallory  b1 = b1  b2 = b2
  N = 2
  Builds <- OneBuild
  Old = Old
  Users = {alice, mallory}
  Allowed = {alice}
  Instances = {i1, i2}
  Workers = {w1, w2}
  Nothing = Nothing
  Expiry = 3
  MaxClicks = 3
  MaxFaults = 2
INVARIANTS TypeOK OneRunPerKey ShareWasApproved  StepsInOrder 
PROPERTIES NotStuck
CHECK_DEADLOCK FALSE
