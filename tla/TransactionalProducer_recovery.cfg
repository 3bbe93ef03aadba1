CONSTANTS
  Partitions = {p1, p2}
  TransactionV2 = TRUE
  TwoPhaseCommit = TRUE
  Retries = 1
  BatchMax = 2
  BrokerMax = 2
  MaxRecords = 2
  MaxTransactions = 2
  MaxEpoch = 2
  MaxFaults = 2
  Faults = {"transport", "end_lost", "drop_guard", "cancel_guarded"}
  ProduceCodes = {}
  RefusalCodes = {}
  NoBatch = NoBatch
  NoPartition = NoPartition
SYMMETRY PartitionSymmetry
SPECIFICATION Spec
INVARIANTS
  CommittedMeansAll
  AllOrNothing
  PreparedMeansFlushed
