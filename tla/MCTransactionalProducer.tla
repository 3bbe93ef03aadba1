---------------------- MODULE MCTransactionalProducer ----------------------
EXTENDS TransactionalProducer, TLC

\* All partitions behave alike.
PartitionSymmetry == Permutations(Partitions)
=============================================================================
