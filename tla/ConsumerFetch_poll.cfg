SPECIFICATION FairSpec
CONSTANTS
  Confs <- MCConfs
  Budgets <- MCBudgets
  SeekTargets <- MCSeekTargets
  Hidden = {2}
  MaxEpoch = 3
INVARIANTS
  SessionServesAsked
  DeliveredIsDue
PROPERTIES
  FetchCatchesUp
