CONSTANTS
  Partitions = {p1}
  TransactionV2 = TRUE
  TwoPhaseCommit = TRUE
  Retries = 1
  BatchMax = 2
  BrokerMax = 1
  MaxRecords = 2
  MaxTransactions = 1
  MaxEpoch = 2
  MaxFaults = 2
  Faults = {"transport", "expire_queued", "end_lost", "lookup", "drop_guard", "cancel_guarded", "other_init"}
  ProduceCodes = {"FATAL"}
  RefusalCodes = {}
  NoBatch = NoBatch
  NoPartition = NoPartition
SPECIFICATION FairSpec
PROPERTIES
  EveryRecordResolved
  EveryCallReturns
