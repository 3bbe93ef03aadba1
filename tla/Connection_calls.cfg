SPECIFICATION FairSpec
CONSTANTS
  Calls = {1, 2, 3, 4}
  Capacity = 1
  MinReserved = 4
  Rounds = 2
  Confs <- MCConfs
INVARIANTS
  AnswerIsOwn
  ExchangeUninterrupted
PROPERTIES
  EveryCallEnds
  IdleCloses
CHECK_DEADLOCK FALSE
