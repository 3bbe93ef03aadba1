SPECIFICATION FairSpec
CONSTANTS
  Confs <- MCConfs
  MaxPos = 1
  Budgets <- MCBudgets
  Faults = {"disconnect", "evict", "expire"}
INVARIANTS
  CallbackHasWorker
  CommitsProcessed
  CommittedNeverRewinds
PROPERTIES
  PreJoinTurnComes
CHECK_DEADLOCK FALSE
