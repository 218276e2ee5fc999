SPECIFICATION Spec
CONSTANTS
  c1 = c1
  c2 = c2
  Clients <- MCClients
  Lists <- MCLists
  Uids = {3}
  Asks <- MCAsks
  MaxRequests <- MCMaxRequests
INVARIANTS TypeOK ListStays
PROPERTY ClientsHear
