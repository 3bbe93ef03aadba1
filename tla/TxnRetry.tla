------------------------------ MODULE TxnRetry ------------------------------
(***************************************************************************)
(* The pure decisions of crates/client-producer/src/txn_retry.rs: what one  *)
(* attempt to reach the transaction coordinator means.                      *)
(*                                                                          *)
(* An attempt is the code that the coordinator answered, or "LOST" when the *)
(* request failed in transport.  Codes that every decision treats alike     *)
(* share a name: NOT_COORDINATOR also stands for COORDINATOR_NOT_AVAILABLE, *)
(* RETRIABLE for every other retriable code except CONCURRENT_TRANSACTIONS, *)
(* PRODUCER_FENCED also for INVALID_PRODUCER_EPOCH, and OTHER for the codes *)
(* that no rule names.                                                      *)
(***************************************************************************)
EXTENDS Integers

RetriableCodes == {"CONCURRENT_TRANSACTIONS", "RETRIABLE"}

CoordinatorCodes ==
  RetriableCodes \cup
  {"NONE", "NOT_COORDINATOR", "PRODUCER_FENCED", "UNKNOWN_PRODUCER_ID",
   "TRANSACTION_ABORTABLE", "TRANSACTIONAL_ID_AUTHORIZATION_FAILED",
   "INVALID_TXN_STATE", "OTHER"}

CoordinatorAttempts == CoordinatorCodes \cup {"LOST"}

LookupRefusals == {"Abortable", "Fatal"}

\* Retry and Rediscover are EndTxnDecision::Retry without and with a lookup.
EndTxnDecisions ==
  {"Complete", "Retry", "Rediscover", "Fenced", "ConcurrentTransactions",
   "Abortable", "Fatal", "TimedOut", "OutcomeUnknown"}

\* The decisions that tell the caller that no request changed the transaction.
UnchangedDecisions ==
  {"Fenced", "ConcurrentTransactions", "Abortable", "Fatal", "TimedOut"}

\* Mutant: a refusal is taken at its word although an earlier attempt was lost.
DecideEndTxnForgetsLoss(attempt, earlier_attempt_lost, committed) ==
  CASE attempt = "NONE" -> "Complete"
    [] attempt \in {"NOT_COORDINATOR", "LOST"} -> "Rediscover"
    [] attempt \in RetriableCodes -> "Retry"
    [] attempt = "PRODUCER_FENCED" -> "Fenced"
    [] attempt = "TRANSACTION_ABORTABLE" /\ committed -> "Abortable"
    [] attempt = "UNKNOWN_PRODUCER_ID" -> "Abortable"
    [] OTHER -> "Fatal"

\* Mutant: a lost request counts as done.
DecideEndTxnLostIsDone(attempt, earlier_attempt_lost, committed) ==
  CASE attempt \in {"NONE", "LOST"} -> "Complete"
    [] attempt = "NOT_COORDINATOR" -> "Rediscover"
    [] attempt \in RetriableCodes -> "Retry"
    [] OTHER -> IF earlier_attempt_lost THEN "OutcomeUnknown"
                ELSE IF attempt = "PRODUCER_FENCED" THEN "Fenced" ELSE "Fatal"

\* decide_end_txn: after a lost attempt only NONE proves the outcome.
DecideEndTxn(attempt, earlier_attempt_lost, committed) ==
  CASE attempt = "NONE" -> "Complete"
    [] attempt \in {"NOT_COORDINATOR", "LOST"} -> "Rediscover"
    [] attempt \in RetriableCodes -> "Retry"
    [] attempt \notin RetriableCodes \cup {"NONE", "NOT_COORDINATOR", "LOST"} ->
         CASE earlier_attempt_lost -> "OutcomeUnknown"
           [] ~earlier_attempt_lost /\ attempt = "PRODUCER_FENCED" -> "Fenced"
           [] ~earlier_attempt_lost /\ attempt = "TRANSACTION_ABORTABLE" ->
                IF committed THEN "Abortable" ELSE "Fatal"
           [] ~earlier_attempt_lost /\ attempt = "UNKNOWN_PRODUCER_ID" -> "Abortable"
           [] OTHER -> "Fatal"

\* decide_end_txn_at_deadline: lost covers the last attempt too.
DecideEndTxnAtDeadline(last, lost) ==
  CASE lost -> "OutcomeUnknown"
    [] ~lost /\ last = "CONCURRENT_TRANSACTIONS" -> "ConcurrentTransactions"
    [] OTHER -> "TimedOut"

\* decide_end_txn_after_refused_lookup.
DecideEndTxnAfterRefusedLookup(refusal, earlier_attempt_lost, committed) ==
  CASE refusal = "Fatal" -> "Fatal"
    [] refusal = "Abortable" /\ ~committed -> "Rediscover"
    [] refusal = "Abortable" /\ committed ->
         IF earlier_attempt_lost THEN "OutcomeUnknown" ELSE "Abortable"

\* decide_add_partitions.
DecideAddPartitions(attempt) ==
  CASE attempt = "NONE" -> "Done"
    [] attempt \in RetriableCodes \cup {"NOT_COORDINATOR", "LOST"} -> "Retry"
    [] attempt = "PRODUCER_FENCED" -> "Fenced"
    [] attempt \in {"TRANSACTIONAL_ID_AUTHORIZATION_FAILED", "INVALID_TXN_STATE"} ->
         "Fatal"
    [] OTHER -> "Abortable"

\* decide_init_producer_id.
DecideInitProducerId(attempt) ==
  CASE attempt = "NONE" -> "Done"
    [] attempt \in RetriableCodes \cup {"NOT_COORDINATOR", "LOST"} -> "Retry"
    [] attempt = "PRODUCER_FENCED" -> "Fenced"
    [] attempt \in {"TRANSACTIONAL_ID_AUTHORIZATION_FAILED", "TRANSACTION_ABORTABLE"} ->
         "Abortable"
    [] OTHER -> "Fatal"
=============================================================================
