CONSTANTS
  p = p
  q = q
  Partitions = {p, q}
  Existing = {p}
  Protocols = {"Eager", "Cooperative"}
  Statics = {TRUE, FALSE}
  Leads = {TRUE}
  Faults = {"request", "pollTimeout", "cancel", "evict", "fence"}
  MaxFaults = 1
  MaxRebalances = 0
  Calls = {"close", "enforce"}
  MaxCalls = 1
  Cycle = 4
SPECIFICATION Spec
CHECK_DEADLOCK FALSE
INVARIANTS
  AddedWaitForCallback
  NoSilentLoss
