CONSTANTS
  Partitions = {p1, p2}
  TransactionV2 = FALSE
  TwoPhaseCommit = FALSE
  Retries = 2
  BatchMax = 2
  BrokerMax = 2
  MaxRecords = 2
  MaxTransactions = 2
  MaxEpoch = 3
  MaxFaults = 2
  Faults = {"transport", "drop_guard", "cancel_guarded"}
  ProduceCodes = {"FATAL"}
  RefusalCodes = {"NOT_COORDINATOR", "INVALID_TXN_STATE", "UNKNOWN_PRODUCER_ID"}
  NoBatch = NoBatch
  NoPartition = NoPartition
SYMMETRY PartitionSymmetry
SPECIFICATION Spec
INVARIANTS
  AbortedMeansNone
  OneTransactionOpen
