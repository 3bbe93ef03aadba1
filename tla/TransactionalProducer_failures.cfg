CONSTANTS
  Partitions = {p1}
  TransactionV2 = TRUE
  TwoPhaseCommit = FALSE
  Retries = 1
  BatchMax = 2
  BrokerMax = 2
  MaxRecords = 3
  MaxTransactions = 2
  MaxEpoch = 3
  MaxFaults = 2
  Faults = {"transport", "append_and_fail", "expire_retry", "forget", "end_lost", "init_lost", "other_init", "flush_timeout"}
  ProduceCodes = {"RETRIABLE", "TERMINAL"}
  RefusalCodes = {"CONCURRENT_TRANSACTIONS", "PRODUCER_FENCED", "UNKNOWN_PRODUCER_ID"}
  NoBatch = NoBatch
  NoPartition = NoPartition
SPECIFICATION Spec
INVARIANTS
  ErrorMeansUnchanged
  FreshIdentityStartsAtZero
  NothingOutsideTransaction
