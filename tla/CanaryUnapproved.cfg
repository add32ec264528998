SPECIFICATION Spec
CONSTANTS
  alice = alice  mallory = mallory  b1 = b1  b2 = b2
  N = 2
  Builds <- TwoBuilds
  Old = Old
  Users = {alice}
  Allowed = {alice}
  Instances = {i1}
  Workers = {w1}
  Nothing = Nothing
  Expiry = 3
  MaxClicks = 5
  MaxFaults = 1
INVARIANTS OnlyApprovedServe
CHECK_DEADLOCK FALSE
