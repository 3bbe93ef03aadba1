CONSTANTS
  p1 = p1
  p2 = p2
  Partitions = {p1, p2}
  Mode = "Idempotent"
  Retries = 1
  BatchMax = 2
  BrokerMax <- WholeBatches
  MaxEpoch = 2
  MaxRecords = 3
  MaxFaults = 2
  FaultCodes = {"RETRIABLE", "TERMINAL"}
  MaxProducerId = 1
  NoBatch = NoBatch
  NoPartition = NoPartition
SYMMETRY PartitionSymmetry
SPECIFICATION Spec
INVARIANTS
  TypeOK
  OneBatchPerPartition
  SequenceNamesRecords
  FreshEpochStartsAtZero
  FlushResolves
  NoLostWakeup
PROPERTIES
  ImplementsDelivery
