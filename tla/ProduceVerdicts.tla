-------------------------- MODULE ProduceVerdicts --------------------------
(***************************************************************************)
(* The pure decisions of the producer's sender: what one partition answer   *)
(* of a Produce request means for the batch that it answers                 *)
(* (crates/client-producer/src/sender.rs, classify_verdict and BatchMode).  *)
(*                                                                          *)
(* Error codes are grouped by what the sender tells apart.  A group stands  *)
(* for every code that classify_verdict treats in the same way:             *)
(*   RETRIABLE   ErrorClass::Retriable and ErrorClass::InvalidMetadata, and *)
(*               UNKNOWN_PRODUCER_ID with an unknown log start offset;      *)
(*   TRANSPORT   no answer: the connection failed, or the request timed     *)
(*               out, or the answer names another partition;                *)
(*   FATAL       CLUSTER_AUTHORIZATION_FAILED, UNSUPPORTED_VERSION,         *)
(*               INVALID_PRODUCER_ID_MAPPING, PRODUCER_FENCED,              *)
(*               TRANSACTIONAL_ID_AUTHORIZATION_FAILED;                     *)
(*   TERMINAL    every other code that no rule retries.                     *)
(* INVALID_PRODUCER_EPOCH is such a code too; it keeps its name because the *)
(* broker of the model answers it for a stale epoch.                        *)
(***************************************************************************)
EXTENDS Integers

\* What the broker can answer for the one partition of a Produce request.
BrokerCodes ==
  {"NONE", "DUPLICATE_SEQUENCE_NUMBER", "MESSAGE_TOO_LARGE",
   "OUT_OF_ORDER_SEQUENCE_NUMBER", "UNKNOWN_PRODUCER_ID",
   "INVALID_PRODUCER_EPOCH", "RETRIABLE", "TERMINAL", "FATAL"}

\* What the sender can learn about a request.
Answers == BrokerCodes \cup {"TRANSPORT"}

BatchModes == {"Plain", "Idempotent", "Transactional"}

Verdicts ==
  {"Acked", "Retry", "BumpEpochAndRetry", "RestartSequenceAndRetry",
   "Terminal", "Split", "Fatal"}

\* The verdict on a batch of n records in the given mode.  behind tells that
\* the log start offset is past the last acked offset of the partition.
ClassifyVerdict(code, mode, n, behind) ==
  CASE code = "MESSAGE_TOO_LARGE" /\ n > 1 -> "Split"
    [] code \in {"NONE", "DUPLICATE_SEQUENCE_NUMBER"} -> "Acked"
    [] code = "FATAL" /\ mode # "Plain" -> "Fatal"
    [] code = "OUT_OF_ORDER_SEQUENCE_NUMBER" /\ mode = "Idempotent" ->
         "BumpEpochAndRetry"
    [] code = "UNKNOWN_PRODUCER_ID" /\ mode = "Idempotent" ->
         "BumpEpochAndRetry"
    [] code = "UNKNOWN_PRODUCER_ID" /\ mode = "Transactional" /\ behind ->
         "RestartSequenceAndRetry"
    [] code \in {"RETRIABLE", "TRANSPORT"} -> "Retry"
    [] OTHER -> "Terminal"

\* How the partition sequence is repaired once a batch failed for good.
RepairAfterFailure(mode) ==
  CASE mode = "Plain" -> "Keep"
    [] mode = "Idempotent" -> "BumpEpoch"
    [] mode = "Transactional" -> "GiveBack"

\* The repair that goes with a Terminal verdict: UNKNOWN_PRODUCER_ID of a
\* transactional batch starts the partition again at sequence 0.
TerminalRepair(code, mode) ==
  IF code = "UNKNOWN_PRODUCER_ID" /\ mode = "Transactional"
  THEN "Reset"
  ELSE RepairAfterFailure(mode)

\* The verdicts that send the batch again, and so use up one of its retries.
Resends == {"Retry", "BumpEpochAndRetry", "RestartSequenceAndRetry"}

\* take_retry: a batch that would be sent again but has no retry left fails.
VerdictWithRetries(verdict, used, retries) ==
  IF verdict \in Resends /\ used >= retries THEN "Exhausted" ELSE verdict
=============================================================================
