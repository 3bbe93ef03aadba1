----------------------------- MODULE BrokerLog -----------------------------
(***************************************************************************)
(* External: the leader of one partition, as the sender of the producer     *)
(* relies on it.  The leader keeps, per producer id, the last epoch, the    *)
(* next expected sequence and the base sequences that it accepted at that   *)
(* epoch.  The rules are the ones that the sender's comments and its test   *)
(* broker state: a lower epoch is refused, a higher epoch must start at     *)
(* sequence 0, the expected sequence is appended, a base sequence that was  *)
(* accepted before is a duplicate, and anything else is out of order.  A    *)
(* leader that lost the state of a producer (log retention) answers         *)
(* UNKNOWN_PRODUCER_ID to a sequence other than 0.                          *)
(***************************************************************************)
EXTENDS Integers, Sequences

\* The producer id of a batch of a producer without idempotence.
NoProducerId == -1

\* The state of a producer that the leader does not know.
NoProducerState == [epoch |-> -1, expected |-> 0, accepted |-> {}]

\* The code that the leader answers for batch b, when it keeps s for the
\* producer of b and takes batches of at most max records.
LeaderCode(s, b, max) ==
  IF Len(b.recs) > max THEN "MESSAGE_TOO_LARGE"
  ELSE IF b.pid = NoProducerId THEN "NONE"
  ELSE CASE b.epoch < s.epoch -> "INVALID_PRODUCER_EPOCH"
         [] b.epoch > s.epoch /\ b.seq # 0 ->
              IF s.epoch = -1 THEN "UNKNOWN_PRODUCER_ID"
                              ELSE "OUT_OF_ORDER_SEQUENCE_NUMBER"
         [] b.epoch > s.epoch /\ b.seq = 0 -> "NONE"
         [] b.epoch = s.epoch /\ b.seq = s.expected -> "NONE"
         [] b.epoch = s.epoch /\ b.seq # s.expected /\ b.seq \in s.accepted ->
              "DUPLICATE_SEQUENCE_NUMBER"
         [] OTHER -> "OUT_OF_ORDER_SEQUENCE_NUMBER"

\* The producer state after the leader appended b.
StateAfterAppend(s, b) ==
  IF b.epoch > s.epoch
  THEN [epoch |-> b.epoch, expected |-> Len(b.recs), accepted |-> {b.seq}]
  ELSE [s EXCEPT !.expected = @ + Len(b.recs), !.accepted = @ \cup {b.seq}]
=============================================================================
