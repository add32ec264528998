SPECIFICATION FairSpec
CONSTANTS
  alice = alice  bob = bob  p = p  bad = bad
  Humans = {alice, bob}
  Agents = {}
  Nobody = Nobody
  ProjectIds = {p}
  InvalidIds = {bad}
  Requests <- AddAndArchive
  Workers = {w1, w2}
  Nothing = Nothing
  Backend = "sqlite"
  MaxFaults = 0
INVARIANTS ApprovedIsVisible
PROPERTIES ArchivedAtStable AppliedSettles
