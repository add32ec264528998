SPECIFICATION Spec
CONSTANTS
  alice = alice  bob = bob  bot = bot  key1 = key1  key2 = key2
  Humans = {alice, bob}
  Agents = {bot}
  Mails <- AsBuiltMails
  Instances = {i1, i2}
  Workers = {w1, w2}
  Nothing = Nothing
  MaxLapses = 0
INVARIANTS AdminButtonsWork
