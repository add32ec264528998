SPECIFICATION Spec
CONSTANTS
  alice = alice
  bob = bob
  shop = shop
  lost = lost
  paintress = paintress
  Nobody = Nobody
  Orders <- LostAndShop
  Users = {alice}
  Allowed = {alice}
  Instances = {i1}
  Goroutines = {g1}
  Workers = {w1}
  Registered = {shop, lost}
  Multi = TRUE
  Outboxes = {shop, lost}
  MaxAttempts = 3
  MaxClicks = 2
  MaxFailures = 1
  MaxLapses = 1
CHECK_DEADLOCK FALSE
INVARIANT FailureCanRetry
