----------------------- MODULE TransactionalProducer -----------------------
(***************************************************************************)
(* The transactional producer (crates/client-producer/src/producer.rs and   *)
(* transactional.rs) together with the part of the sender task that knows   *)
(* about transactions: generations, barriers, sequence repairs, the error   *)
(* slot.  One task makes the transactional calls (init, begin, prepare,     *)
(* commit, abort, complete), other tasks send, and one sender task drains.  *)
(* The transaction coordinator and the partition leaders are external.      *)
(*                                                                          *)
(* The mutex txn_state is held across a send (variable sending).  Every     *)
(* other call takes it for one step only.  Batches are completed one at a   *)
(* time here; cycles that complete several are in ProducerSender.           *)
(***************************************************************************)
EXTENDS Integers, Sequences, FiniteSets, ProduceVerdicts, BrokerLog, TxnRetry

CONSTANTS
  Partitions,       \* the topic partitions that the application writes to
  TransactionV2,    \* the cluster runs transaction.version 2 (KIP-890)
  TwoPhaseCommit,   \* transaction_two_phase_commit_enable (KIP-939)
  Retries,          \* `retries`: resends of one batch
  BatchMax,         \* records that fit into one batch
  BrokerMax,        \* records that a leader takes in one batch
  MaxRecords,       \* bound: records that the application sends
  MaxTransactions,  \* bound: transactions that it begins
  MaxEpoch,         \* bound: epochs after which it initializes no more
  MaxFaults,        \* bound: things that go wrong
  Faults,           \* bound: what may go wrong, a subset of FaultKinds
  ProduceCodes,     \* bound: codes that a leader may answer at will
  RefusalCodes,     \* bound: codes that the coordinator may answer at will
  NoBatch, NoPartition

FaultKinds ==
  {"transport", "append_and_fail", "expire_retry", "expire_queued", "forget",
   "end_lost", "init_lost", "other_init", "lookup", "flush_timeout",
   "drop_guard", "cancel_guarded", "cancel_unguarded", "stale_guard",
   "change_of_mind"}

ASSUME TransactionConstants ==
  /\ TransactionV2 \in BOOLEAN /\ TwoPhaseCommit \in BOOLEAN
  /\ Retries \in Nat /\ BatchMax \in Nat \ {0} /\ BrokerMax \in Nat \ {0}
  /\ MaxRecords \in Nat /\ MaxTransactions \in Nat
  /\ MaxEpoch \in Nat /\ MaxFaults \in Nat
  /\ Faults \subseteq FaultKinds
  /\ ProduceCodes \subseteq {"RETRIABLE", "TERMINAL", "FATAL"}
  /\ RefusalCodes \subseteq CoordinatorCodes \ {"NONE"}
  /\ IsFiniteSet(Partitions) /\ NoPartition \notin Partitions

Records == 1..MaxRecords
Transactions == 1..MaxTransactions

\* A batch that the sender drained: its identity and sequence are fixed.
SealedBatch ==
  [part : Partitions, recs : Seq(Records), gen : Nat, pid : {0, NoProducerId},
   epoch : Int, seq : Nat, used : 0..Retries]

ASSUME NoBatchAssumption == NoBatch \notin SealedBatch

VARIABLES
  txn_state,            \* TxnState, behind the mutex of the same name
  txn_error,            \* TxnErrorSlot: "none", "abortable", "Fenced", "Server"
  recovery_required,    \* txn_recovery_required
  recovery_generation,  \* txn_recovery_generation
  epoch,                \* txn_pid_epoch; the producer id never changes here
  prepared,             \* prepared_transaction_state, -1 for None
  open_guard,           \* the transaction whose guard is not resolved, or 0
  handles,              \* the guards that the application still holds
  call,                 \* the transactional call that runs
  sending,              \* the send that holds the txn_state mutex
  queue,                \* the batches of each accumulator, oldest first
  taken,                \* batches that an expiry took out and did not fail yet
  retry, requests, next_seq, in_flight,  \* as in ProducerSender
  active,               \* the producer is STATE_ACTIVE
  swept,                \* PipelineState.recovery_generation
  outcome,              \* what the delivery handle of each record shows
  txn_of,               \* the transaction that a record was accepted in
  begun,                \* number of transactions begun
  told,                 \* what commit or abort reported for a transaction
  issued,               \* the tokens that prepare_transaction returned
  coord,                \* the coordinator: its epoch, the last EndTxn, and the
                        \* epoch of the transaction that is open
  leaders,              \* the producer state of each partition leader
  open, committed, aborted, plain,  \* the records in the logs, by visibility
  faults                \* faults so far

txnVars    == <<txn_state, txn_error, recovery_required, recovery_generation,
                epoch, prepared, open_guard, handles>>
senderVars == <<queue, taken, retry, requests, next_seq, in_flight, active, swept>>
recordVars == <<outcome, txn_of>>
ghostVars  == <<begun, told, issued>>
coordVars  == <<coord, open, committed, aborted>>
logVars    == <<leaders, plain>>
vars == <<txnVars, call, sending, senderVars, recordVars, ghostVars, coordVars,
          logVars, faults>>

-----------------------------------------------------------------------------
TxnStates ==
  {"Uninitialized", "Ready", "InTransaction", "Preparing", "Prepared",
   "Initializing", "CommittingOrAborting", "RecoveryRequired", "Fenced",
   "FatalError"}

Fatal == txn_error \in {"Fenced", "Server"}
Abortable == txn_error = "abortable"

\* TxnErrorSlot: a fatal error is final.
Unless(value) == IF Fatal THEN txn_error ELSE value

NoCall == [op |-> "none", pc |-> "none", prev |-> "none", guard |-> 0,
           todo |-> {}, lost |-> FALSE, applied |-> FALSE, decision |-> "none",
           keep |-> FALSE, found |-> -1, ongoing |-> -1]

NoSend == [part |-> NoPartition, pc |-> "none", gen |-> 0]

\* The txn_state mutex is free.
Unlocked == sending = NoSend
Idle == call.op = "none"

Elems(s) == {s[i] : i \in DOMAIN s}
RecordsIn(batches) == UNION {Elems(b.recs) : b \in batches}

Resolve(rs, result) ==
  [r \in Records |-> IF r \in rs THEN result ELSE outcome[r]]

Occupied == {q.batch.part : q \in requests} \cup
            {p \in Partitions : retry[p] # NoBatch}

Fault(kind) == kind \in Faults /\ faults < MaxFaults /\ faults' = faults + 1

Init ==
  /\ txn_state = "Uninitialized" /\ txn_error = "none"
  /\ recovery_required = FALSE /\ recovery_generation = 0
  /\ epoch = -1 /\ prepared = -1
  /\ open_guard = 0 /\ handles = {}
  /\ call = NoCall /\ sending = NoSend
  /\ queue = [p \in Partitions |-> <<>>] /\ taken = {}
  /\ retry = [p \in Partitions |-> NoBatch] /\ requests = {}
  /\ next_seq = [p \in Partitions |-> 0] /\ in_flight = 0
  /\ active = TRUE /\ swept = -1
  /\ outcome = [r \in Records |-> "none"] /\ txn_of = [r \in Records |-> 0]
  /\ begun = 0 /\ told = [t \in Transactions |-> "none"]
  /\ issued = {}
  /\ coord = [epoch |-> -1, last |-> "none", ongoing |-> -1]
  /\ leaders = [p \in Partitions |-> NoProducerState]
  /\ open = {} /\ committed = {} /\ aborted = {} /\ plain = {}
  /\ faults = 0

-----------------------------------------------------------------------------
(* Guards and recovery.                                                    *)

\* Mutant: the first request for recovery keeps the generation.
RequireRecoveryKeepsGeneration ==
  recovery_required' = TRUE /\ UNCHANGED recovery_generation

\* require_transaction_recovery: the first request opens a new generation.
RequireRecovery ==
  /\ recovery_required' = TRUE
  /\ recovery_generation' = IF recovery_required THEN recovery_generation
                            ELSE recovery_generation + 1

\* begin_transaction: the new guard is the open one.
BeginTransaction ==
  /\ Idle /\ Unlocked /\ ~Fatal /\ ~recovery_required
  /\ txn_state = "Ready" /\ begun < MaxTransactions
  /\ txn_state' = "InTransaction"
  /\ begun' = begun + 1
  /\ open_guard' = begun + 1 /\ handles' = handles \cup {begun + 1}
  /\ UNCHANGED <<txn_error, recovery_required, recovery_generation, epoch,
                 prepared, call, sending, senderVars, recordVars, told,
                 issued, coordVars, logVars, faults>>

\* Drop of a guard: abandon_transaction_guard asks for recovery when the guard
\* is still the open one.
DropGuard(t) ==
  /\ t \in handles /\ call.guard # t
  /\ Fault("drop_guard")
  /\ handles' = handles \ {t}
  /\ IF open_guard = t
     THEN open_guard' = 0 /\ RequireRecovery
     ELSE UNCHANGED <<open_guard, recovery_required, recovery_generation>>
  /\ UNCHANGED <<txn_state, txn_error, epoch, prepared, call, sending,
                 senderVars, recordVars, ghostVars, coordVars, logVars>>

\* The application drops the future of a running call.  The future of commit
\* and abort owns the guard, so the guard is dropped with it.
CancelCall ==
  /\ ~Idle
  /\ IF call.guard # 0 /\ call.op # "prepare"
     THEN Fault("cancel_guarded") ELSE Fault("cancel_unguarded")
  /\ call' = NoCall
  /\ handles' = IF call.op = "prepare" THEN handles ELSE handles \ {call.guard}
  /\ IF open_guard # 0 /\ open_guard = call.guard /\ call.op # "prepare"
     THEN open_guard' = 0 /\ RequireRecovery
     ELSE UNCHANGED <<open_guard, recovery_required, recovery_generation>>
  /\ UNCHANGED <<txn_state, txn_error, epoch, prepared, sending, senderVars,
                 recordVars, ghostVars, coordVars, logVars>>

-----------------------------------------------------------------------------
(* send.                                                                   *)

\* append_transaction_generation fails in these states.
SendRefused ==
  txn_error # "none" \/ recovery_required \/ txn_state # "InTransaction"

Appended == {r \in Records : outcome[r] # "none"}

\* A send takes the txn_state mutex and its generation.
SendLock(p) ==
  /\ Unlocked /\ active /\ ~SendRefused /\ Appended # Records
  /\ sending' = [part |-> p, pc |-> IF TransactionV2 THEN "append" ELSE "register",
                 gen |-> recovery_generation]
  /\ UNCHANGED <<txnVars, call, senderVars, recordVars, ghostVars, coordVars,
                 logVars, faults>>

\* register_transaction_partition (transaction version 1): the coordinator
\* checks the epoch.  Adding a partition twice has no effect.
SendRegister ==
  /\ sending.pc = "register"
  /\ IF epoch = coord.epoch
     THEN sending' = [sending EXCEPT !.pc = "append"] /\ UNCHANGED txnVars
     ELSE /\ DecideAddPartitions("PRODUCER_FENCED") = "Fenced"
          /\ sending' = NoSend
          /\ txn_error' = "Fenced" /\ txn_state' = "Fenced" /\ open_guard' = 0
          /\ UNCHANGED <<recovery_required, recovery_generation, epoch, prepared,
                         handles>>
  /\ UNCHANGED <<call, senderVars, recordVars, ghostVars, coordVars, logVars, faults>>

\* The coordinator refuses the partition.  The send fails; the state of the
\* transaction moves under the mutex that the send holds.
SendRegisterRefused(code) ==
  LET decision == DecideAddPartitions(code) IN
  /\ sending.pc = "register" /\ faults < MaxFaults /\ faults' = faults + 1
  /\ \/ decision = "Retry" /\ UNCHANGED sending
     \/ sending' = NoSend
  /\ CASE decision = "Retry" -> UNCHANGED <<txn_error, txn_state, open_guard>>
       [] decision = "Abortable" ->
            txn_error' = Unless("abortable") /\ UNCHANGED <<txn_state, open_guard>>
       [] decision \in {"Fenced", "Fatal"} ->
            /\ txn_error' = IF decision = "Fenced" THEN "Fenced" ELSE "Server"
            /\ txn_state' = IF decision = "Fenced" THEN "Fenced" ELSE "FatalError"
            /\ open_guard' = 0
  /\ UNCHANGED <<recovery_required, recovery_generation, epoch, prepared, handles,
                 call, senderVars, recordVars, ghostVars, coordVars, logVars>>

\* lock_accumulator_for_append and the last is_active check.
AppendRefused == SendRefused \/ recovery_generation # sending.gen \/ ~active

\* The record joins the last batch of its partition, when that batch has the
\* same generation and room and is not sealed, or starts a new one.
SendAppend ==
  LET p == sending.part
      r == Cardinality(Appended) + 1
      n == Len(queue[p])
      new == Append(queue[p], [recs |-> <<r>>, gen |-> sending.gen])
      joined == [queue[p] EXCEPT ![n].recs = Append(@, r)]
  IN
  /\ sending.pc = "append"
  /\ sending' = NoSend
  /\ \/ /\ AppendRefused
        /\ UNCHANGED <<queue, recordVars>>
     \/ /\ ~AppendRefused
        /\ outcome' = [outcome EXCEPT ![r] = "pending"]
        /\ txn_of' = [txn_of EXCEPT ![r] = begun]
        /\ \/ queue' = [queue EXCEPT ![p] = new]
           \/ /\ n > 0 /\ queue[p][n].gen = sending.gen
              /\ Len(queue[p][n].recs) < BatchMax
              /\ queue' = [queue EXCEPT ![p] = joined]
  /\ UNCHANGED <<txnVars, call, taken, retry, requests, next_seq, in_flight,
                 active, swept, ghostVars, coordVars, logVars, faults>>

-----------------------------------------------------------------------------
(* commit, abort, complete and prepare: the wait for the records.          *)

\* The call returns, and the state goes back to what it was.
ReturnTo(previous) == call' = NoCall /\ txn_state' = previous

\* fence_transaction, fatal_transaction: the guard needs no recovery any more.
FatalReturn(decision) ==
  /\ ReturnTo(IF decision = "Fenced" THEN "Fenced" ELSE "FatalError")
  /\ txn_error' = IF decision = "Fenced" THEN "Fenced" ELSE "Server"
  /\ open_guard' = 0

\* end_transaction: the state moves first, so a racing send fails.  flush and
\* abort_undrained_batches first check that the producer is active.  Only with
\* change_of_mind does the application commit after an abort that failed.
EndStart(op, t) ==
  /\ Idle /\ Unlocked /\ active /\ ~Fatal
  /\ txn_state \in {"InTransaction", "Prepared"}
  /\ call' = [NoCall EXCEPT !.op = op, !.guard = t, !.prev = txn_state,
                !.todo = Partitions,
                !.pc = IF op = "commit" THEN "flush" ELSE "drop"]
  /\ txn_state' = "CommittingOrAborting"
  /\ op = "commit" /\ told[begun] = "aborting" => "change_of_mind" \in Faults
  /\ told' = [told EXCEPT ![begun] = IF op = "abort" THEN "aborting" ELSE @]
  /\ UNCHANGED <<txn_error, recovery_required, recovery_generation, epoch,
                 prepared, open_guard, handles, sending, senderVars, recordVars,
                 begun, issued, coordVars, logVars, faults>>

\* commit and abort of a guard.  A guard of an earlier transaction is one that
\* a failed call handed back, or that a prepare resolved.
GuardEnds(t) ==
  /\ t \in handles
  /\ t # begun => "stale_guard" \in Faults
  /\ EndStart("commit", t) \/ EndStart("abort", t)

\* complete_transaction: the token of the prepared transaction commits, any
\* other one aborts.  The application has the tokens that it got from prepare,
\* and the empty one.
CompleteTransaction(token) ==
  /\ txn_state = "Prepared" /\ token \in issued \cup {-1}
  /\ EndStart(IF token = prepared THEN "commit" ELSE "abort", 0)

\* prepare of a guard: prepare_transaction stops the writes and flushes.  Only
\* with change_of_mind does the application prepare after an abort that failed.
PrepareStart(t) ==
  /\ t \in handles /\ TwoPhaseCommit
  /\ t # begun => "stale_guard" \in Faults
  /\ told[begun] = "aborting" => "change_of_mind" \in Faults
  /\ Idle /\ Unlocked /\ active /\ ~Fatal /\ ~recovery_required
  /\ txn_state = "InTransaction"
  /\ call' = [NoCall EXCEPT !.op = "prepare", !.pc = "flush", !.guard = t,
                !.prev = txn_state, !.todo = Partitions]
  /\ txn_state' = "Preparing"
  /\ UNCHANGED <<txn_error, recovery_required, recovery_generation, epoch,
                 prepared, open_guard, handles, sending, senderVars, recordVars,
                 ghostVars, coordVars, logVars, faults>>

\* flush looks at one accumulator after the other.  One that holds a batch ends
\* the pass, and the next pass starts from the beginning.
FlushScan(p) ==
  /\ call.pc = "flush" /\ p \in call.todo
  /\ call' = [call EXCEPT !.todo =
                IF queue[p] = <<>> THEN call.todo \ {p} ELSE Partitions]
  /\ UNCHANGED <<txnVars, sending, senderVars, recordVars, ghostVars, coordVars,
                 logVars, faults>>

\* Mutant: a failed batch stops neither commit nor prepare.
FlushDoneIgnoresError ==
  /\ call.pc = "flush" /\ call.todo = {} /\ Unlocked /\ in_flight = 0
  /\ \/ /\ call.op = "commit"
        /\ call' = [call EXCEPT !.pc = "end"]
        /\ UNCHANGED <<txnVars, issued>>
     \/ /\ call.op = "prepare"
        /\ ReturnTo("Prepared")
        /\ prepared' = epoch /\ issued' = issued \cup {epoch} /\ open_guard' = 0
        /\ UNCHANGED <<txn_error, recovery_required, recovery_generation, epoch,
                       handles>>
  /\ UNCHANGED <<sending, senderVars, recordVars, begun, told, coordVars, logVars,
                 faults>>

\* The pass saw empty accumulators: flush returns when nothing is in flight.
\* A commit then stops at an abortable error, and a prepare at any error.
FlushDone ==
  /\ call.pc = "flush" /\ call.todo = {} /\ Unlocked
  /\ \/ /\ in_flight # 0
        /\ call' = [call EXCEPT !.todo = Partitions]
        /\ UNCHANGED <<txnVars, issued>>
     \/ /\ in_flight = 0 /\ call.op = "commit" /\ ~Abortable
        /\ call' = [call EXCEPT !.pc = "end"]
        /\ UNCHANGED <<txnVars, issued>>
     \/ /\ in_flight = 0
        /\ IF call.op = "commit" THEN Abortable ELSE txn_error # "none"
        /\ ReturnTo(call.prev)
        /\ UNCHANGED <<txn_error, recovery_required, recovery_generation, epoch,
                       prepared, open_guard, handles, issued>>
     \/ /\ in_flight = 0 /\ call.op = "prepare" /\ txn_error = "none"
        /\ ReturnTo("Prepared")
        /\ prepared' = epoch /\ issued' = issued \cup {epoch} /\ open_guard' = 0
        /\ UNCHANGED <<txn_error, recovery_required, recovery_generation, epoch,
                       handles>>
  /\ UNCHANGED <<sending, senderVars, recordVars, begun, told, coordVars, logVars,
                 faults>>

\* Mutant: an abort leaves the queued batches to the sender.
DropScanKeeps(p) ==
  /\ call.pc = "drop" /\ p \in call.todo
  /\ call' = [call EXCEPT !.todo = @ \ {p},
                          !.pc = IF call.todo = {p} THEN "drain" ELSE "drop"]
  /\ UNCHANGED <<txnVars, sending, senderVars, recordVars, ghostVars, coordVars,
                 logVars, faults>>

\* abort_undrained_batches fails what one accumulator holds.
DropScan(p) ==
  /\ call.pc = "drop" /\ p \in call.todo
  /\ call' = [call EXCEPT !.todo = @ \ {p},
                          !.pc = IF call.todo = {p} THEN "drain" ELSE "drop"]
  /\ outcome' = Resolve(RecordsIn(Elems(queue[p])), "failed")
  /\ queue' = [queue EXCEPT ![p] = <<>>]
  /\ UNCHANGED <<txnVars, sending, taken, retry, requests, next_seq, in_flight,
                 active, swept, txn_of, ghostVars, coordVars, logVars, faults>>

\* The abort waits for the batches on the wire only.
DrainDone ==
  /\ call.pc = "drain" /\ in_flight = 0
  /\ call' = [call EXCEPT !.pc = "end"]
  /\ UNCHANGED <<txnVars, sending, senderVars, recordVars, ghostVars, coordVars,
                 logVars, faults>>

\* flush_timeout ends either wait, and the transaction stays as it was.
FlushTimeout ==
  /\ call.pc \in {"flush", "drain"} /\ Unlocked
  /\ Fault("flush_timeout")
  /\ ReturnTo(call.prev)
  /\ UNCHANGED <<txn_error, recovery_required, recovery_generation, epoch,
                 prepared, open_guard, handles, sending, senderVars, recordVars,
                 ghostVars, coordVars, logVars>>

-----------------------------------------------------------------------------
(* EndTxn: the exchange with the coordinator.                              *)

\* The coordinator applies EndTxn at its own epoch.  With transaction version 2
\* it raises the epoch, and knows a repeated request by the epoch before.
EndTxnApplies == epoch = coord.epoch
EndTxnRepeated ==
  TransactionV2 /\ epoch + 1 = coord.epoch /\ coord.last = call.op

EndTxnCode == IF EndTxnApplies \/ EndTxnRepeated THEN "NONE" ELSE "PRODUCER_FENCED"

\* The epoch in the answer: the raised one, or none with version 1.
EpochAfterEnd ==
  IF ~TransactionV2 THEN -1
  ELSE IF EndTxnApplies THEN coord.epoch + 1 ELSE coord.epoch

CoordinatorEnds ==
  IF EndTxnApplies
  THEN /\ coord' = [coord EXCEPT
                      !.epoch = IF TransactionV2 THEN @ + 1 ELSE @,
                      !.last = call.op]
       /\ IF call.op = "commit"
          THEN committed' = committed \cup open /\ UNCHANGED aborted
          ELSE aborted' = aborted \cup open /\ UNCHANGED committed
       /\ open' = {}
  ELSE UNCHANGED coordVars

\* What send_end_txn_until_decided does with one attempt.  applied records for
\* the properties that the coordinator changed the transaction.
AfterAttempt(attempt, applied, found) ==
  LET decision == DecideEndTxn(attempt, call.lost, call.op = "commit")
      lost == call.lost \/ attempt = "LOST"
      noted == [call EXCEPT !.lost = lost, !.applied = @ \/ applied]
      decided(d) == [noted EXCEPT !.pc = "apply", !.decision = d]
  IN
  \/ /\ decision \notin {"Retry", "Rediscover"}
     /\ call' = [decided(decision) EXCEPT
                   !.found = IF decision = "Complete" THEN found ELSE -1]
  \/ /\ decision = "Retry" /\ call' = noted
  \/ /\ decision = "Rediscover" /\ call' = [noted EXCEPT !.pc = "lookup"]
  \/ /\ decision \in {"Retry", "Rediscover"}   \* the deadline ended
     /\ call' = decided(DecideEndTxnAtDeadline(attempt, lost))

EndTxnAnswered ==
  /\ call.pc = "end"
  /\ CoordinatorEnds
  /\ AfterAttempt(EndTxnCode, EndTxnApplies, EpochAfterEnd)
  /\ UNCHANGED <<txnVars, sending, senderVars, recordVars, ghostVars, logVars,
                 faults>>

\* The request or its answer is lost.
EndTxnLost ==
  /\ call.pc = "end" /\ Fault("end_lost")
  /\ \/ CoordinatorEnds /\ AfterAttempt("LOST", EndTxnApplies, -1)
     \/ UNCHANGED coordVars /\ AfterAttempt("LOST", FALSE, -1)
  /\ UNCHANGED <<txnVars, sending, senderVars, recordVars, ghostVars, logVars>>

EndTxnRefused(code) ==
  /\ call.pc = "end" /\ faults < MaxFaults /\ faults' = faults + 1
  /\ AfterAttempt(code, FALSE, -1)
  /\ UNCHANGED <<txnVars, sending, senderVars, recordVars, ghostVars, coordVars,
                 logVars>>

\* The coordinator is found again, or the lookup is refused.
EndTxnLookup ==
  /\ call.pc = "lookup"
  /\ \/ call' = [call EXCEPT !.pc = "end"] /\ UNCHANGED faults
     \/ \E refusal \in LookupRefusals :
          LET decision == DecideEndTxnAfterRefusedLookup(
                            refusal, call.lost, call.op = "commit")
          IN /\ Fault("lookup")
             /\ call' = IF decision = "Rediscover"
                        THEN [call EXCEPT !.pc = "end"]
                        ELSE [call EXCEPT !.pc = "apply", !.decision = decision]
  /\ UNCHANGED <<txnVars, sending, senderVars, recordVars, ghostVars, coordVars,
                 logVars>>

\* Mutant: a new identity keeps the sequences.
AdoptIdentityKeeps(e) == epoch' = e /\ UNCHANGED next_seq

\* adopt_transactional_identity: a new identity starts at sequence 0.
AdoptIdentity(e) ==
  /\ epoch' = e
  /\ next_seq' = IF e = epoch THEN next_seq ELSE [p \in Partitions |-> 0]

\* The transaction that the call was about, as the caller sees it.
Concerned == IF call.guard = 0 THEN begun ELSE call.guard

\* apply_end_txn.
EndTxnApply ==
  LET d == call.decision IN
  /\ call.pc = "apply" /\ Unlocked
  /\ \/ /\ d = "Complete"
        /\ ReturnTo("Ready")
        /\ IF call.found >= 0 THEN AdoptIdentity(call.found)
                              ELSE UNCHANGED <<epoch, next_seq>>
        /\ prepared' = -1 /\ txn_error' = Unless("none")
        /\ open_guard' = 0
        /\ handles' = handles \ {call.guard}
        /\ told' = [told EXCEPT ![Concerned] =
                      IF call.op = "commit" THEN "committed" ELSE "aborted"]
        /\ UNCHANGED <<recovery_required, recovery_generation>>
     \/ /\ d \in {"Fenced", "Fatal"}
        /\ FatalReturn(d)
        /\ UNCHANGED <<recovery_required, recovery_generation, epoch, next_seq,
                       prepared, handles, told>>
     \/ /\ d \in {"ConcurrentTransactions", "TimedOut", "Abortable"}
        /\ ReturnTo(call.prev)
        /\ txn_error' = IF d = "Abortable" THEN Unless("abortable") ELSE txn_error
        /\ UNCHANGED <<recovery_required, recovery_generation, epoch, next_seq,
                       prepared, open_guard, handles, told>>
     \/ /\ d = "OutcomeUnknown"
        /\ RequireRecovery
        /\ ReturnTo("RecoveryRequired")
        /\ UNCHANGED <<txn_error, epoch, next_seq, prepared, open_guard, handles,
                       told>>
  /\ UNCHANGED <<sending, queue, taken, retry, requests, in_flight, active, swept,
                 recordVars, begun, issued, coordVars, logVars,
                 faults>>

-----------------------------------------------------------------------------
(* init_transactions.                                                      *)

InitStart(keep) ==
  /\ Idle /\ Unlocked /\ ~Fatal /\ coord.epoch < MaxEpoch
  /\ txn_state \in {"Uninitialized", "Ready", "RecoveryRequired"} \/ recovery_required
  /\ keep => TwoPhaseCommit
  /\ call' = [NoCall EXCEPT !.op = "init", !.pc = "init", !.prev = txn_state,
                            !.keep = keep]
  /\ txn_state' = "Initializing"
  /\ UNCHANGED <<txn_error, recovery_required, recovery_generation, epoch,
                 prepared, open_guard, handles, sending, senderVars, recordVars,
                 ghostVars, coordVars, logVars, faults>>

\* InitProducerId raises the epoch and aborts what is open, unless the caller
\* keeps a prepared transaction.
CoordinatorInits(keep) ==
  /\ coord' = [coord EXCEPT !.epoch = @ + 1, !.last = "none"]
  /\ IF keep THEN UNCHANGED <<open, aborted>>
             ELSE aborted' = aborted \cup open /\ open' = {}
  /\ UNCHANGED committed

InitAnswered ==
  /\ call.pc = "init"
  /\ CoordinatorInits(call.keep)
  /\ call' = [call EXCEPT !.pc = "adopt", !.found = coord.epoch + 1,
                !.ongoing = IF call.keep /\ open # {} THEN coord.ongoing ELSE -1]
  /\ UNCHANGED <<txnVars, sending, senderVars, recordVars, ghostVars, logVars,
                 faults>>

\* The answer is lost: the call tries again, or gives up at its deadline.
InitLost ==
  /\ call.pc = "init" /\ Unlocked /\ Fault("init_lost")
  /\ CoordinatorInits(call.keep) \/ UNCHANGED coordVars
  /\ \/ UNCHANGED <<call, txn_state>>
     \/ ReturnTo(IF Fatal THEN txn_state ELSE call.prev)
  /\ UNCHANGED <<txn_error, recovery_required, recovery_generation, epoch,
                 prepared, open_guard, handles, sending, senderVars, recordVars,
                 ghostVars, logVars>>

\* The coordinator refuses, and nothing changed.
InitRefused(code) ==
  LET decision == DecideInitProducerId(code) IN
  /\ call.pc = "init" /\ Unlocked /\ faults < MaxFaults /\ faults' = faults + 1
  /\ \/ decision = "Retry" /\ UNCHANGED <<call, txn_state, txn_error, open_guard>>
     \/ /\ decision \in {"Retry", "Abortable"}
        /\ ReturnTo(call.prev)
        /\ UNCHANGED <<txn_error, open_guard>>
     \/ /\ decision \in {"Fenced", "Fatal"}
        /\ FatalReturn(decision)
  /\ UNCHANGED <<recovery_required, recovery_generation, epoch, prepared, handles,
                 sending, senderVars, recordVars, ghostVars, coordVars, logVars>>

\* The answer is NONE: the producer takes the new identity.
InitAdopt ==
  /\ call.pc = "adopt" /\ Unlocked
  /\ call' = NoCall
  /\ AdoptIdentity(call.found)
  /\ txn_error' = Unless("none")
  /\ prepared' = call.ongoing
  /\ txn_state' = IF call.ongoing >= 0 THEN "Prepared" ELSE "Ready"
  /\ recovery_required' = FALSE /\ open_guard' = 0
  /\ UNCHANGED <<recovery_generation, handles, sending, queue, taken, retry,
                 requests, in_flight, active, swept, recordVars, ghostVars,
                 coordVars, logVars, faults>>

-----------------------------------------------------------------------------
(* The sender task.                                                        *)

\* Mutant: a batch of an earlier generation passes.
DrainedBarrierStale(gen) == Fatal \/ recovery_required

\* drained_barrier and undrained_barrier: batches that must not be sent.
DrainedBarrier(gen) ==
  Fatal \/ recovery_required \/ gen # recovery_generation

UndrainedBarrier(gen) == DrainedBarrier(gen) \/ Abortable

\* Mutant: a batch that is drained during commit is built outside of the
\* transaction.
InTransactionSnapshot == txn_state \in {"InTransaction", "Preparing"}

\* txn_pid_snapshot: the batch is built as a part of the transaction.
Snapshot == txn_state \in {"InTransaction", "Preparing", "CommittingOrAborting"}

BatchMode(b) == IF b.pid = NoProducerId THEN "Plain" ELSE "Transactional"

\* The sender is not inside take_expired_accumulator_batches.
SenderRuns == taken = {}

\* drain_batches for the idle partition p: a batch behind a barrier fails, any
\* other is built and goes on the wire.
DrainBatch(p) ==
  LET b == Head(queue[p]) IN
  /\ SenderRuns /\ active /\ p \notin Occupied /\ queue[p] # <<>>
  /\ queue' = [queue EXCEPT ![p] = Tail(@)]
  /\ \/ /\ UndrainedBarrier(b.gen)
        /\ outcome' = Resolve(Elems(b.recs), "failed")
        /\ UNCHANGED <<requests, next_seq, in_flight>>
     \/ /\ ~UndrainedBarrier(b.gen) /\ Unlocked
        /\ requests' = requests \cup
             {[batch |-> [part |-> p, recs |-> b.recs, gen |-> b.gen,
                          pid |-> IF Snapshot THEN 0 ELSE NoProducerId,
                          epoch |-> IF Snapshot THEN epoch ELSE -1,
                          seq |-> next_seq[p], used |-> 0],
               answer |-> "queued"]}
        /\ next_seq' = [next_seq EXCEPT ![p] = @ + Len(b.recs)]
        /\ in_flight' = in_flight + 1
        /\ UNCHANGED outcome
  /\ UNCHANGED <<txnVars, call, sending, taken, retry, active, swept, txn_of,
                 ghostVars, coordVars, logVars, faults>>

\* send_one_batch_to_leader checks the barrier again before it sends.
StartRequest(q) ==
  /\ q \in requests /\ q.answer = "queued"
  /\ requests' = (requests \ {q}) \cup
       {[q EXCEPT !.answer = IF DrainedBarrier(q.batch.gen) THEN "BARRED" ELSE "none"]}
  /\ UNCHANGED <<txnVars, call, sending, queue, taken, retry, next_seq, in_flight,
                 active, swept, recordVars, ghostVars, coordVars, logVars, faults>>

\* A batch in the retry slot fails behind a barrier, or is sent again.
Resend(p) ==
  /\ SenderRuns /\ active /\ retry[p] # NoBatch
  /\ retry' = [retry EXCEPT ![p] = NoBatch]
  /\ IF DrainedBarrier(retry[p].gen)
     THEN /\ outcome' = Resolve(Elems(retry[p].recs), "failed")
          /\ in_flight' = in_flight - 1
          /\ UNCHANGED requests
     ELSE /\ requests' = requests \cup {[batch |-> retry[p], answer |-> "queued"]}
          /\ UNCHANGED <<outcome, in_flight>>
  /\ UNCHANGED <<txnVars, call, sending, queue, taken, next_seq, active, swept,
                 txn_of, ghostVars, coordVars, logVars, faults>>

\* retain_mut: the elements of s at the positions kept, in their order.
Retained(s, kept) ==
  [n \in 1..Cardinality(kept) |->
     s[CHOOSE i \in kept : Cardinality({j \in kept : j <= i}) = n]]

\* fail_recovered_accumulator_batches, when recovery_scan_needed.
SweepRecovered ==
  LET barred == {b \in UNION {Elems(queue[p]) : p \in Partitions} :
                   UndrainedBarrier(b.gen)}
  IN
  /\ SenderRuns /\ active
  /\ swept # recovery_generation \/ recovery_required \/ txn_error # "none"
  /\ barred # {} \/ swept # recovery_generation
  /\ outcome' = Resolve(RecordsIn(barred), "failed")
  /\ queue' = [p \in Partitions |->
                 Retained(queue[p], {i \in DOMAIN queue[p] :
                                       ~UndrainedBarrier(queue[p][i].gen)})]
  /\ swept' = recovery_generation
  /\ UNCHANGED <<txnVars, call, sending, taken, retry, requests, next_seq,
                 in_flight, active, txn_of, ghostVars, coordVars, logVars, faults>>

\* How a failed batch repairs the sequence of its partition.
Repaired(b, repair) ==
  CASE repair = "GiveBack" -> [next_seq EXCEPT ![b.part] = b.seq]
    [] repair = "Reset" -> [next_seq EXCEPT ![b.part] = 0]
    [] OTHER -> next_seq

\* terminal_fail_batch: a failed batch of a transaction makes it abort-only.
ErrorAfterFailure(b) ==
  IF BatchMode(b) = "Transactional" THEN Unless("abortable") ELSE txn_error

\* The batch in the retry slot reached the delivery timeout.
ExpireRetry(p) ==
  LET b == retry[p] IN
  /\ SenderRuns /\ active /\ b # NoBatch /\ Fault("expire_retry")
  /\ next_seq' = Repaired(b, RepairAfterFailure(BatchMode(b)))
  /\ txn_error' = ErrorAfterFailure(b)
  /\ outcome' = Resolve(Elems(b.recs), "failed")
  /\ retry' = [retry EXCEPT ![p] = NoBatch]
  /\ in_flight' = in_flight - 1
  /\ UNCHANGED <<txn_state, recovery_required, recovery_generation, epoch, prepared,
                 open_guard, handles, call, sending, queue, taken, requests, active,
                 swept, txn_of, ghostVars, coordVars, logVars>>

\* take_expired_accumulator_batches takes the expired batches out, accumulator
\* by accumulator, and fail_unsent_batches fails them after the last one.
TakeExpired(p) ==
  /\ active /\ queue[p] # <<>> /\ Fault("expire_queued")
  /\ taken' = taken \cup {Head(queue[p])}
  /\ queue' = [queue EXCEPT ![p] = Tail(@)]
  /\ UNCHANGED <<txnVars, call, sending, retry, requests, next_seq, in_flight,
                 active, swept, recordVars, ghostVars, coordVars, logVars>>

\* Mutant: an expired batch is dropped with its delivery handles.
FailExpiredSilently ==
  /\ taken # {}
  /\ txn_error' = Unless("abortable")
  /\ taken' = {}
  /\ UNCHANGED <<txn_state, recovery_required, recovery_generation, epoch, prepared,
                 open_guard, handles, call, sending, queue, retry, requests,
                 next_seq, in_flight, active, swept, recordVars, ghostVars,
                 coordVars, logVars, faults>>

FailExpired ==
  /\ taken # {}
  /\ txn_error' = Unless("abortable")
  /\ outcome' = Resolve(RecordsIn(taken), "failed")
  /\ taken' = {}
  /\ UNCHANGED <<txn_state, recovery_required, recovery_generation, epoch, prepared,
                 open_guard, handles, call, sending, queue, retry, requests,
                 next_seq, in_flight, active, swept, txn_of, ghostVars, coordVars,
                 logVars, faults>>

Halves(b) ==
  LET middle == Len(b.recs) \div 2 IN
  <<[recs |-> SubSeq(b.recs, 1, middle), gen |-> b.gen],
    [recs |-> SubSeq(b.recs, middle + 1, Len(b.recs)), gen |-> b.gen]>>

\* complete_batches for one answer.  behind: the log start offset passed the
\* last acked offset of the partition.
Verdict(q, behind) ==
  VerdictWithRetries(
    ClassifyVerdict(q.answer, BatchMode(q.batch), Len(q.batch.recs), behind),
    q.batch.used, Retries)

\* Mutant: the batch keeps its in-flight slot.
FinishBatchKeepsSlot(q, result) ==
  /\ outcome' = Resolve(Elems(q.batch.recs), result)
  /\ UNCHANGED in_flight

FinishBatch(q, result) ==
  /\ outcome' = Resolve(Elems(q.batch.recs), result)
  /\ in_flight' = in_flight - 1

Answered(q) == q \in requests /\ q.answer \in Answers

CompleteAcked(q) ==
  /\ SenderRuns /\ Answered(q)
  /\ \E behind \in BOOLEAN : Verdict(q, behind) = "Acked"
  /\ requests' = requests \ {q}
  /\ FinishBatch(q, "acked")
  /\ UNCHANGED <<txnVars, call, sending, queue, taken, retry, next_seq, active,
                 swept, txn_of, ghostVars, coordVars, logVars, faults>>

CompleteBarred(q) ==
  /\ SenderRuns /\ q \in requests /\ q.answer = "BARRED"
  /\ requests' = requests \ {q}
  /\ FinishBatch(q, "failed")
  /\ UNCHANGED <<txnVars, call, sending, queue, taken, retry, next_seq, active,
                 swept, txn_of, ghostVars, coordVars, logVars, faults>>

\* The batch goes to the retry slot, as it is or restarted at sequence 0.
CompleteRetry(q) ==
  LET b == q.batch IN
  /\ SenderRuns /\ Answered(q)
  /\ requests' = requests \ {q}
  /\ \E behind \in BOOLEAN :
       \/ /\ Verdict(q, behind) = "Retry"
          /\ retry' = [retry EXCEPT ![b.part] = [b EXCEPT !.used = @ + 1]]
          /\ UNCHANGED next_seq
       \/ /\ Verdict(q, behind) = "RestartSequenceAndRetry"
          /\ retry' = [retry EXCEPT ![b.part] = [b EXCEPT !.used = @ + 1, !.seq = 0]]
          /\ next_seq' = [next_seq EXCEPT ![b.part] = Len(b.recs)]
  /\ UNCHANGED <<txnVars, call, sending, queue, taken, in_flight, active, swept,
                 recordVars, ghostVars, coordVars, logVars, faults>>

\* The batch fails, its sequences are repaired, and the transaction is spoilt.
CompleteFailed(q) ==
  LET b == q.batch IN
  /\ SenderRuns /\ Answered(q)
  /\ requests' = requests \ {q}
  /\ \E behind \in BOOLEAN :
       \/ /\ Verdict(q, behind) = "Terminal"
          /\ next_seq' = Repaired(b, TerminalRepair(q.answer, BatchMode(b)))
       \/ /\ Verdict(q, behind) = "Exhausted"
          /\ next_seq' = Repaired(b, RepairAfterFailure(BatchMode(b)))
  /\ txn_error' = ErrorAfterFailure(b)
  /\ FinishBatch(q, "failed")
  /\ UNCHANGED <<txn_state, recovery_required, recovery_generation, epoch, prepared,
                 open_guard, handles, call, sending, queue, taken, retry, active,
                 swept, txn_of, ghostVars, coordVars, logVars, faults>>

\* split_and_requeue: the halves go back to the front of the accumulator.
CompleteSplit(q) ==
  LET b == q.batch IN
  /\ SenderRuns /\ Answered(q)
  /\ \E behind \in BOOLEAN : Verdict(q, behind) = "Split"
  /\ requests' = requests \ {q}
  /\ queue' = [queue EXCEPT ![b.part] = Halves(b) \o @]
  /\ next_seq' = IF BatchMode(b) = "Plain" THEN next_seq
                 ELSE [next_seq EXCEPT ![b.part] = b.seq]
  /\ in_flight' = in_flight - 1
  /\ UNCHANGED <<txnVars, call, sending, taken, retry, active, swept, recordVars,
                 ghostVars, coordVars, logVars, faults>>

\* fence: every batch that the sender holds fails, and the producer stops.  An accumulator
\* whose lock is held is passed over by try_lock and emptied by the next drain (DrainFence);
\* ProducerSender has this sweep accumulator by accumulator.
FenceAll(others) ==
  LET dead == others \cup {retry[p] : p \in {p \in Partitions : retry[p] # NoBatch}}
      queued == UNION {Elems(queue[p]) : p \in Partitions}
  IN
  /\ active' = FALSE
  /\ outcome' = Resolve(RecordsIn(dead \cup queued), "failed")
  /\ in_flight' = in_flight - Cardinality(dead)
  /\ retry' = [p \in Partitions |-> NoBatch]
  /\ queue' = [p \in Partitions |-> <<>>]

\* A fatal answer: the error of the transaction is final.
CompleteFatal(q) ==
  /\ SenderRuns /\ Answered(q)
  /\ \E behind \in BOOLEAN : Verdict(q, behind) = "Fatal"
  /\ requests' = requests \ {q}
  /\ FenceAll({q.batch})
  /\ txn_error' = "Server"
  /\ UNCHANGED <<txn_state, recovery_required, recovery_generation, epoch, prepared,
                 open_guard, handles, call, sending, taken, next_seq, swept, txn_of,
                 ghostVars, coordVars, logVars, faults>>

\* A drain cycle of a producer that is fenced.
DrainFence ==
  /\ SenderRuns /\ ~active
  /\ \E p \in Partitions : retry[p] # NoBatch \/ queue[p] # <<>>
  /\ FenceAll({})
  /\ UNCHANGED <<txnVars, call, sending, taken, requests, next_seq, swept, txn_of,
                 ghostVars, coordVars, logVars, faults>>

-----------------------------------------------------------------------------
(* External: the partition leaders and other instances of the application. *)

\* A leader verifies the epoch of a transactional batch with the coordinator.
TxnLeaderCode(b) ==
  IF b.pid # NoProducerId /\ Len(b.recs) <= BrokerMax /\ b.epoch # coord.epoch
  THEN "INVALID_PRODUCER_EPOCH"
  ELSE LeaderCode(leaders[b.part], b, BrokerMax)

\* The first record of a transaction opens it at the coordinator.
LeaderAppends(b) ==
  IF TxnLeaderCode(b) = "NONE"
  THEN IF b.pid = NoProducerId
       THEN /\ plain' = plain \cup Elems(b.recs)
            /\ UNCHANGED <<leaders, coordVars>>
       ELSE /\ leaders' = [leaders EXCEPT ![b.part] = StateAfterAppend(@, b)]
            /\ open' = open \cup Elems(b.recs)
            /\ coord' = [coord EXCEPT !.ongoing = IF open = {} THEN b.epoch ELSE @]
            /\ UNCHANGED <<committed, aborted, plain>>
  ELSE UNCHANGED <<coordVars, logVars>>

Answer(q, code) ==
  requests' = (requests \ {q}) \cup {[q EXCEPT !.answer = code]}

LeaderAnswers(q) ==
  /\ q \in requests /\ q.answer = "none"
  /\ LeaderAppends(q.batch)
  /\ Answer(q, TxnLeaderCode(q.batch))
  /\ UNCHANGED <<txnVars, call, sending, queue, taken, retry, next_seq, in_flight,
                 active, swept, recordVars, ghostVars, faults>>

\* The leader appends the batch but answers that the request timed out.
LeaderAppendsAndFails(q) ==
  /\ q \in requests /\ q.answer = "none" /\ TxnLeaderCode(q.batch) = "NONE"
  /\ Fault("append_and_fail")
  /\ LeaderAppends(q.batch)
  /\ Answer(q, "RETRIABLE")
  /\ UNCHANGED <<txnVars, call, sending, queue, taken, retry, next_seq, in_flight,
                 active, swept, recordVars, ghostVars>>

LeaderRefuses(q, code) ==
  /\ q \in requests /\ q.answer = "none"
  /\ faults < MaxFaults /\ faults' = faults + 1
  /\ Answer(q, code)
  /\ UNCHANGED <<txnVars, call, sending, queue, taken, retry, next_seq, in_flight,
                 active, swept, recordVars, ghostVars, coordVars, logVars>>

\* The connection fails before or after the leader saw the request.
TransportFails(q) ==
  /\ q \in requests /\ q.answer = "none" /\ Fault("transport")
  /\ LeaderAppends(q.batch) \/ UNCHANGED <<coordVars, logVars>>
  /\ Answer(q, "TRANSPORT")
  /\ UNCHANGED <<txnVars, call, sending, queue, taken, retry, next_seq, in_flight,
                 active, swept, recordVars, ghostVars>>

\* Retention removes the producer state of a partition that is quiet.
LeaderForgets(p) ==
  /\ leaders[p] # NoProducerState /\ p \notin Occupied /\ Fault("forget")
  /\ leaders' = [leaders EXCEPT ![p] = NoProducerState]
  /\ UNCHANGED <<txnVars, call, sending, senderVars, recordVars, ghostVars,
                 coordVars, plain>>

\* Another instance with the same transactional id fences this one.
OtherInit ==
  /\ coord.epoch >= 0 /\ coord.epoch < MaxEpoch /\ Fault("other_init")
  /\ CoordinatorInits(FALSE)
  /\ UNCHANGED <<txnVars, call, sending, senderVars, recordVars, ghostVars, logVars>>

-----------------------------------------------------------------------------
\* The application may stop when every call returned and every record is
\* resolved.
Stopped ==
  /\ Idle /\ Unlocked
  /\ \A r \in Records : outcome[r] # "pending"
  /\ UNCHANGED vars

CallSteps ==
  \/ \E p \in Partitions : FlushScan(p) \/ DropScan(p)
  \/ FlushDone \/ DrainDone
  \/ EndTxnAnswered \/ EndTxnLookup \/ EndTxnApply
  \/ InitAnswered \/ InitAdopt

SendSteps == SendRegister \/ SendAppend

SenderSteps ==
  \/ \E p \in Partitions : DrainBatch(p) \/ Resend(p)
  \/ \E q \in requests :
       \/ StartRequest(q) \/ CompleteAcked(q) \/ CompleteBarred(q)
       \/ CompleteRetry(q) \/ CompleteFailed(q) \/ CompleteSplit(q)
       \/ CompleteFatal(q)
  \/ SweepRecovered \/ FailExpired \/ DrainFence

AppSteps ==
  \/ BeginTransaction
  \/ \E p \in Partitions : SendLock(p)
  \/ \E t \in Transactions : GuardEnds(t) \/ PrepareStart(t)
  \/ \E token \in issued \cup {-1} : CompleteTransaction(token)
  \/ \E keep \in BOOLEAN : InitStart(keep)

FaultSteps ==
  \/ CancelCall \/ \E t \in Transactions : DropGuard(t)
  \/ FlushTimeout \/ EndTxnLost \/ InitLost \/ OtherInit
  \/ \E code \in RefusalCodes :
       SendRegisterRefused(code) \/ EndTxnRefused(code) \/ InitRefused(code)
  \/ \E p \in Partitions : ExpireRetry(p) \/ TakeExpired(p) \/ LeaderForgets(p)
  \/ \E q \in requests :
       \/ LeaderAppendsAndFails(q) \/ TransportFails(q)
       \/ \E code \in ProduceCodes : LeaderRefuses(q, code)

Next ==
  \/ AppSteps \/ CallSteps \/ SendSteps \/ SenderSteps \/ FaultSteps
  \/ \E q \in requests : LeaderAnswers(q)
  \/ Stopped

Spec == Init /\ [][Next]_vars

\* The runtime runs every ready task, and a leader answers what it receives or
\* the request fails.  Nothing makes the application call or a fault happen.
Fairness ==
  /\ WF_vars(CallSteps)
  /\ WF_vars(SendSteps)
  /\ WF_vars(SenderSteps)
  /\ WF_vars(\E q \in requests : LeaderAnswers(q))

FairSpec == Spec /\ Fairness

-----------------------------------------------------------------------------
(* Properties.                                                             *)

QueuedBatches == UNION {Elems(queue[p]) : p \in Partitions}

\* The types, and in_flight counts the batches that the sender has drained.
TypeOK ==
  /\ txn_state \in TxnStates
  /\ txn_error \in {"none", "abortable", "Fenced", "Server"}
  /\ recovery_required \in BOOLEAN /\ recovery_generation \in Nat
  /\ epoch \in Int /\ prepared \in Int
  /\ open_guard \in 0..MaxTransactions /\ handles \subseteq Transactions
  /\ call.op \in {"none", "commit", "abort", "prepare", "init"}
  /\ call.guard \in 0..MaxTransactions /\ call.todo \subseteq Partitions
  /\ sending.pc \in {"none", "register", "append"}
  /\ sending.part \in Partitions \cup {NoPartition}
  /\ \A b \in QueuedBatches \cup taken :
       b.recs \in Seq(Records) /\ b.recs # <<>> /\ b.gen \in Nat
  /\ \A p \in Partitions : retry[p] = NoBatch \/ retry[p] \in SealedBatch
  /\ \A q \in requests :
       /\ q.batch \in SealedBatch
       /\ q.answer \in Answers \cup {"queued", "none", "BARRED"}
  /\ next_seq \in [Partitions -> Nat] /\ active \in BOOLEAN
  /\ in_flight = Cardinality(requests) +
                 Cardinality({p \in Partitions : retry[p] # NoBatch})
  /\ outcome \in [Records -> {"none", "pending", "acked", "failed"}]
  /\ txn_of \in [Records -> 0..MaxTransactions]
  /\ issued \subseteq Int
  /\ told \in [Transactions -> {"none", "aborting", "committed", "aborted"}]
  /\ open \cup committed \cup aborted \cup plain \subseteq Records

\* Transaction of the records in a set.
TransactionsOf(rs) == {txn_of[r] : r \in rs}
Of(t) == {r \in Records : txn_of[r] = t}

\* When commit reports success, every record that the transaction accepted is
\* committed in the logs.
CommittedMeansAll ==
  \A t \in Transactions : told[t] = "committed" => Of(t) \subseteq committed

\* When abort reports success, no record of the transaction is visible, and
\* none can become visible with a later transaction.
AbortedMeansNone ==
  \A t \in Transactions :
    told[t] = "aborted" => Of(t) \cap (committed \cup open \cup plain) = {}

\* No transaction is committed in one part and aborted in another.
AllOrNothing ==
  TransactionsOf(committed) \cap TransactionsOf(aborted) = {}

\* The open transaction of the coordinator holds records of one transaction of
\* the application only: a late batch never joins the next transaction.
OneTransactionOpen == Cardinality(TransactionsOf(open)) <= 1

\* No record of a transactional producer is written outside of a transaction,
\* where every reader would see it at once.
NothingOutsideTransaction == plain = {}

\* An error of commit or abort other than RecoveryRequired is reported only if
\* no request changed the transaction.
ErrorMeansUnchanged ==
  call.pc = "apply" /\ call.decision \in UnchangedDecisions => ~call.applied

\* A leader that has not seen the epoch of the producer is sent sequence 0
\* first, so it never refuses the first batch of an identity.
FreshIdentityStartsAtZero ==
  \A q \in requests :
    LET b == q.batch IN
    /\ q.answer = "none" /\ b.pid # NoProducerId
    /\ b.epoch = coord.epoch /\ leaders[b.part].epoch < b.epoch
    /\ leaders[b.part] # NoProducerState
    => b.seq = 0

\* A transaction that prepare_transaction reported as prepared holds every
\* record that it accepted, until its decision ends it.
PreparedMeansFlushed ==
  txn_state = "Prepared" /\ prepared \in issued => Of(begun) \subseteq open

\* Every record that send accepted is acked or failed in the end.
EveryRecordResolved ==
  \A r \in Records : outcome[r] = "pending" ~> outcome[r] # "pending"

\* Every transactional call returns.
EveryCallReturns == call.op # "none" ~> call.op = "none"
=============================================================================
