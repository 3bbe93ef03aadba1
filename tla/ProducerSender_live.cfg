CONSTANTS
  p1 = p1
  p2 = p2
  Partitions = {p1}
  Mode = "Idempotent"
  Retries = 1
  BatchMax = 3
  BrokerMax <- SingleRecords
  MaxEpoch = 2
  MaxRecords = 3
  MaxFaults = 2
  FaultCodes = {"RETRIABLE", "FATAL"}
  MaxProducerId = 1
  NoBatch = NoBatch
  NoPartition = NoPartition
SPECIFICATION FairSpec
INVARIANTS
  InFlightExact
PROPERTIES
  EveryRecordResolved
  StoppingEnds
