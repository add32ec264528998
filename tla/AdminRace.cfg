SPECIFICATION Spec
CONSTANTS
  alice = alice  bob = bob  p = p  bad = bad
  Humans = {alice, bob}
  Agents = {bot}
  Nobody = Nobody
  ProjectIds = {p, bad}
  InvalidIds = {bad}
  Requests <- TwoAdds
  Workers = {w1, w2}
  Nothing = Nothing
  Backend = "firestore"
  MaxFaults = 1
SYMMETRY WorkerSymmetry
INVARIANTS TypeOK FourEyes AddOnce SuccessIsTruthful PostedAtMostOnce
PROPERTY LedgerSpec
