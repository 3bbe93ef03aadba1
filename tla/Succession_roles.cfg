CONSTANTS
  m1 = m1
  m2 = m2
  Members = {m1, m2}
  Duration = 1
  Stagger = 1
  Skew <- SecondIsFast
  TransactionV2 = TRUE
  EpochLimit = 3
  MaxProducerId = 0
  MaxTime = 1
  MaxOffset = 4
  MaxFaults = 1
  NoMember = NoMember
  NoRecord = NoRecord
SPECIFICATION Spec
INVARIANTS
  LeaseTokensGrow
  TokenHasOneOwner
  FoldIsOrderFree
  CompactionKeepsRole
