SPECIFICATION FairSpec
CONSTANTS
  alice = alice
  bob = bob
  shop = shop
  lost = lost
  paintress = paintress
  Nobody = Nobody
  Orders <- LostAndShop
  Users = {alice, bob}
  Allowed = {alice}
  Instances = {i1}
  Goroutines = {g1, g2}
  Workers = {w1, w2}
  Registered = {shop, lost}
  Multi = TRUE
  Outboxes = {shop}
  MaxAttempts = 3
  MaxClicks = 3
  MaxFailures = 1
  MaxLapses = 1
CHECK_DEADLOCK FALSE
INVARIANTS TypeOK OncePerButton TakenWhole LandsInOrder
PROPERTIES CourierSpec RoutableLands
