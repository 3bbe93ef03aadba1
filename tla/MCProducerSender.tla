-------------------------- MODULE MCProducerSender --------------------------
EXTENDS ProducerSender, TLC

CONSTANTS p1, p2

\* One topic that takes whole batches, and one with a small max.message.bytes.
WholeBatches == [p \in Partitions |-> BatchMax]
SingleRecords == [p \in Partitions |-> 1]

\* The partitions can be exchanged where they take batches of the same size.
PartitionSymmetry == Permutations(Partitions)
=============================================================================
