SPECIFICATION FairSpec
CONSTANTS
  c1 = c1
  c2 = c2
  s1 = s1
  shop = shop
  daemon = daemon
  guest = guest
  Nobody = Nobody
  Callers = {c1, c2}
  Requests <- Asked
  Allowlist <- Listings
  Sessions = {s1}
  SessionOf <- SessionsFor
  Installed = {shop}
  Lifetime = 3
  Patience = 1
  SafetyMargin = 1
  MaxTime = 3
  MaxCalls = 3
  MaxFailures = 1
INVARIANTS TypeOK OneMintPerKey ServedIsFresh ServedFitsRequest ServedIsEntitled
PROPERTY RequestsEnd
CHECK_DEADLOCK FALSE
