SPECIFICATION Spec
CONSTANTS
  r1 = r1
  c1 = c1
  c2 = c2
  Recs <- MCRecs
  Clients <- MCClients
  MaxPosition = 1
  MaxChanges = 1
  MaxCrashes = 0
PROPERTY GcWhenTriggered
