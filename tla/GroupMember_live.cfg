CONSTANTS
  p = p
  q = q
  Partitions = {p, q}
  Existing = {p, q}
  Protocols = {"Eager", "Cooperative"}
  Statics = {FALSE}
  Leads = {TRUE, FALSE}
  Faults = {"cancel"}
  MaxFaults = 1
  MaxRebalances = 1
  Calls = {"subscribe", "unsubscribe"}
  MaxCalls = 1
  Cycle = 4
SPECIFICATION FairSpec
CHECK_DEADLOCK FALSE
INVARIANTS
  AssignedIsPrimed
  FetchIsExclusive
PROPERTIES
  RebalanceEnds
