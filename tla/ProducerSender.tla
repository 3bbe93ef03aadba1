--------------------------- MODULE ProducerSender ---------------------------
(***************************************************************************)
(* The sending pipeline of the producer without transactions               *)
(* (crates/client-producer/src): application tasks append records to the    *)
(* accumulator of a partition, one sender task drains the accumulators,     *)
(* sends at most one batch per partition, resends and repairs, and flush    *)
(* and close wait for the records.  The broker side is BrokerLog.           *)
(*                                                                          *)
(* Records are numbered in the order in which send accepts them.  Time is   *)
(* abstract: linger, backoff and the delivery timeout may end at any step.  *)
(* Three groups of actions interleave: Application, Sender and Network.     *)
(***************************************************************************)
EXTENDS Integers, Sequences, FiniteSets, ProduceVerdicts, BrokerLog

CONSTANTS
  Partitions,     \* the topic partitions that the application writes to
  Mode,           \* "Plain" or "Idempotent": enable.idempotence
  Retries,        \* `retries`: resends of one batch
  BatchMax,       \* records that fit into one batch (batch.size)
  BrokerMax,      \* per partition, records that the broker takes in a batch
  MaxEpoch,       \* the last producer epoch (i16::MAX in the code)
  MaxRecords,     \* bound: records that the application sends
  MaxFaults,      \* bound: answers and requests that go wrong
  FaultCodes,     \* bound: codes that a leader may answer at will
  MaxProducerId,  \* bound: producer ids that the cluster allocates
  NoBatch, NoPartition

ASSUME ConstantsAssumption ==
  /\ IsFiniteSet(Partitions)
  /\ Mode \in {"Plain", "Idempotent"}
  /\ Retries \in Nat /\ MaxRecords \in Nat /\ MaxFaults \in Nat
  /\ BatchMax \in Nat \ {0} /\ MaxEpoch \in Nat /\ MaxProducerId \in Nat
  /\ BrokerMax \in [Partitions -> Nat \ {0}]
  /\ FaultCodes \subseteq {"RETRIABLE", "TERMINAL", "FATAL"}
  /\ NoPartition \notin Partitions

Records == 1..MaxRecords

\* A batch of the accumulator is the sequence of its records.  PreparedBatch.
PreparedBatches ==
  [part : Partitions, recs : Seq(Records), pid : Int, epoch : Int,
   seq : Int, used : Nat]

ASSUME NoBatchAssumption == NoBatch \notin PreparedBatches

VARIABLES
  current,         \* Accumulator.current of each partition, <<>> for None
  ready,           \* Accumulator.ready of each partition
  taken,           \* batches that an expiry took out and did not fail yet
  locked,          \* the accumulator that an appending task holds locked
  retry,           \* PipelineState.retry, the retry slot of each partition
  requests,        \* the Produce requests of `drive`, with what is known
  next_seq,        \* the next sequence of each partition
  producer_id,
  producer_epoch,
  in_flight,       \* the counter that flush waits for
  state,           \* "active", "fenced" or "closed"
  sweep,           \* accumulators that a running `fence` has not visited
  stopping,        \* the producer was closed or dropped
  exited,          \* the sender task returned
  appended,        \* number of records that send accepted
  outcome,         \* what the delivery handle of each record shows
  flush_pc,        \* "idle", "scan", "load" or "wait"
  flush_todo,      \* accumulators that this pass of all_empty must still see
  flush_signal,    \* the Notified future of the pass was woken
  flush_mark,      \* records accepted before the flush began
  flush_result,    \* "none", "ok" or "timeout"
  log,             \* the records of each partition, in log order
  producers,       \* the producer states of each leader
  stray,           \* requests that the client gave up and that may arrive
  faults           \* faults so far

senderVars == <<retry, requests, next_seq, producer_id, producer_epoch>>
accVars    == <<current, ready, taken, locked, appended>>
lifeVars   == <<state, sweep, stopping, exited>>
flushVars  == <<flush_pc, flush_todo, flush_signal, flush_mark, flush_result>>
brokerVars == <<log, producers, stray, faults>>
vars == <<senderVars, accVars, lifeVars, flushVars, brokerVars,
          in_flight, outcome>>

-----------------------------------------------------------------------------
Elems(s) == {s[i] : i \in DOMAIN s}

\* The batches of partition p that wait in its accumulator, oldest first.
Queue(p) == IF current[p] = <<>> THEN ready[p]
                                 ELSE Append(ready[p], current[p])

QueuedRecords(p) == UNION {Elems(b) : b \in Elems(Queue(p))}

\* The records of batches that an expiry took out and is about to fail.
TakenRecords == UNION {Elems(b) : b \in taken}

RequestedPartitions == {q.batch.part : q \in requests}
RetryPartitions == {p \in Partitions : retry[p] # NoBatch}

\* Mutant: only a batch in the retry slot keeps its partition occupied.
OccupiedByRetry == RetryPartitions

\* The partitions that must not send a new batch: they have a request on the
\* wire, or a batch in the retry slot.
Occupied == RequestedPartitions \cup RetryPartitions

Outstanding == {q.batch : q \in requests} \cup {retry[p] : p \in RetryPartitions}

\* Resolving the delivery handles of a set of records.
Resolve(rs, result) ==
  [r \in Records |-> IF r \in rs THEN result ELSE outcome[r]]

RecordsOf(batches) == UNION {Elems(b.recs) : b \in batches}

\* Notify::notify_waiters wakes the flush that registered its Notified.
NotifyWaiters(wake) ==
  flush_signal' = (flush_signal \/ (wake /\ flush_pc # "idle"))

\* Mutants: the wake-up tests the count after the subtraction, and two calls
\* for each batch.
FinishInFlightOffByOne(n) ==
  /\ in_flight' = in_flight - n
  /\ NotifyWaiters(n > 0 /\ in_flight = n + 1)
  /\ UNCHANGED <<flush_pc, flush_todo, flush_mark, flush_result>>

FinishInFlightTwice(n) ==
  /\ in_flight' = in_flight - 2 * n
  /\ NotifyWaiters(n > 0 /\ in_flight = 2 * n)
  /\ UNCHANGED <<flush_pc, flush_todo, flush_mark, flush_result>>

\* n calls of finish_in_flight.  The one that reaches zero wakes the flush.
FinishInFlight(n) ==
  /\ in_flight' = in_flight - n
  /\ NotifyWaiters(n > 0 /\ in_flight = n)
  /\ UNCHANGED <<flush_pc, flush_todo, flush_mark, flush_result>>

\* Requests whose answer is in.
Answered == {q \in requests : q.answer # "none"}

Init ==
  /\ current = [p \in Partitions |-> <<>>]
  /\ ready = [p \in Partitions |-> <<>>]
  /\ taken = {} /\ locked = NoPartition
  /\ retry = [p \in Partitions |-> NoBatch]
  /\ requests = {}
  /\ next_seq = [p \in Partitions |-> 0]
  /\ producer_id = IF Mode = "Plain" THEN NoProducerId ELSE 0
  /\ producer_epoch = IF Mode = "Plain" THEN -1 ELSE 0
  /\ in_flight = 0
  /\ state = "active" /\ sweep = {} /\ stopping = FALSE /\ exited = FALSE
  /\ appended = 0
  /\ outcome = [r \in Records |-> "none"]
  /\ flush_pc = "idle" /\ flush_todo = {} /\ flush_signal = FALSE
  /\ flush_mark = 0 /\ flush_result = "none"
  /\ log = [p \in Partitions |-> <<>>]
  /\ producers = [p \in Partitions |-> [i \in 0..MaxProducerId |-> NoProducerState]]
  /\ stray = {} /\ faults = 0

-----------------------------------------------------------------------------
(* Application tasks: send.                                                *)

\* enqueue_inner finds no room in the current batch, seals it so that the
\* sender can free memory, and waits for buffer memory.  The send may then
\* go on, or fail with BufferExhausted.
EnqueueSeal(p) ==
  /\ ~stopping /\ state = "active" /\ locked # p
  /\ Len(current[p]) = BatchMax
  /\ ready' = [ready EXCEPT ![p] = Append(@, current[p])]
  /\ current' = [current EXCEPT ![p] = <<>>]
  /\ UNCHANGED <<taken, locked, appended, senderVars, lifeVars, flushVars,
                 brokerVars, in_flight, outcome>>

\* A send takes the accumulator lock and passes the is_active check.
EnqueueLock(p) ==
  /\ ~stopping /\ state = "active"
  /\ locked = NoPartition /\ appended < MaxRecords
  /\ locked' = p
  /\ UNCHANGED <<current, ready, taken, appended, senderVars, lifeVars, flushVars,
                 brokerVars, in_flight, outcome>>

\* Accumulator::append: a full batch moves to ready, and the record starts a
\* new one.
EnqueueAppend(p) ==
  /\ locked = p
  /\ LET r == appended + 1 IN
       /\ IF Len(current[p]) = BatchMax
          THEN /\ ready' = [ready EXCEPT ![p] = Append(@, current[p])]
               /\ current' = [current EXCEPT ![p] = <<r>>]
          ELSE /\ current' = [current EXCEPT ![p] = Append(@, r)]
               /\ UNCHANGED ready
       /\ outcome' = [outcome EXCEPT ![r] = "pending"]
       /\ appended' = r
  /\ locked' = NoPartition
  /\ UNCHANGED <<taken, senderVars, lifeVars, flushVars, brokerVars, in_flight>>

-----------------------------------------------------------------------------
(* Application tasks: flush, close, drop.                                  *)

FlushStart ==
  /\ ~stopping /\ state = "active" /\ flush_pc = "idle"
  /\ flush_pc' = "scan" /\ flush_todo' = Partitions
  /\ flush_signal' = FALSE
  /\ flush_mark' = appended /\ flush_result' = "none"
  /\ UNCHANGED <<accVars, senderVars, lifeVars, brokerVars, in_flight, outcome>>

\* all_empty locks one accumulator after the other, and stops at the first
\* one that holds a batch.
FlushScan(p) ==
  /\ flush_pc = "scan" /\ p \in flush_todo /\ locked # p
  /\ flush_todo' = flush_todo \ {p}
  /\ flush_pc' = IF Queue(p) # <<>> THEN "wait"
                 ELSE IF flush_todo = {p} THEN "load" ELSE "scan"
  /\ UNCHANGED <<flush_signal, flush_mark, flush_result, accVars, senderVars,
                 lifeVars, brokerVars, in_flight, outcome>>

\* Mutant: flush looks at the accumulators only.
FlushLoadUnchecked ==
  /\ flush_pc = "load"
  /\ flush_pc' = "idle" /\ flush_result' = "ok"
  /\ UNCHANGED <<flush_todo, flush_signal, flush_mark, accVars, senderVars,
                 lifeVars, brokerVars, in_flight, outcome>>

\* all_empty was true: flush returns when nothing is in flight.
FlushLoad ==
  /\ flush_pc = "load"
  /\ IF in_flight = 0
     THEN flush_pc' = "idle" /\ flush_result' = "ok"
     ELSE flush_pc' = "wait" /\ UNCHANGED flush_result
  /\ UNCHANGED <<flush_todo, flush_signal, flush_mark, accVars, senderVars,
                 lifeVars, brokerVars, in_flight, outcome>>

\* The wait ends, and the next pass registers a new Notified first.
FlushWake ==
  /\ flush_pc = "wait" /\ flush_signal
  /\ flush_pc' = "scan" /\ flush_todo' = Partitions /\ flush_signal' = FALSE
  /\ UNCHANGED <<flush_mark, flush_result, accVars, senderVars, lifeVars,
                 brokerVars, in_flight, outcome>>

FlushTimeout ==
  /\ flush_pc # "idle"
  /\ flush_pc' = "idle" /\ flush_result' = "timeout"
  /\ flush_todo' = {} /\ flush_signal' = FALSE
  /\ UNCHANGED <<flush_mark, accVars, senderVars, lifeVars, brokerVars,
                 in_flight, outcome>>

\* close takes the producer by value, so no other call runs.  It goes on only
\* when its flush returned Ok.
Close ==
  /\ ~stopping /\ locked = NoPartition /\ flush_pc = "idle"
  /\ flush_result = "ok" /\ flush_mark = appended
  /\ state' = "closed" /\ stopping' = TRUE
  /\ UNCHANGED <<sweep, exited, accVars, senderVars, flushVars, brokerVars,
                 in_flight, outcome>>

\* The last handle is dropped: the wake channel closes.
DropProducer ==
  /\ ~stopping /\ locked = NoPartition /\ flush_pc = "idle"
  /\ stopping' = TRUE
  /\ UNCHANGED <<state, sweep, exited, accVars, senderVars, flushVars,
                 brokerVars, in_flight, outcome>>

-----------------------------------------------------------------------------
(* The sender task: one drain cycle.                                       *)

\* The sender task runs, and it is neither inside `fence` nor inside an expiry
\* of queued batches.
SenderRuns == ~exited /\ sweep = {} /\ taken = {}

\* At the last epoch a drain first allocates a new producer id.  When the
\* allocation fails, the cycle sends nothing, and the next one tries again.
IdentityUsable == Mode = "Idempotent" => producer_epoch # MaxEpoch

AllocateProducerId ==
  /\ SenderRuns /\ state = "active" /\ ~IdentityUsable
  /\ producer_id < MaxProducerId
  /\ \E p \in Partitions : retry[p] # NoBatch \/ Queue(p) # <<>>
  /\ producer_id' = producer_id + 1 /\ producer_epoch' = 0
  /\ next_seq' = [p \in Partitions |-> 0]
  /\ UNCHANGED <<retry, requests, accVars, lifeVars, flushVars, brokerVars,
                 in_flight, outcome>>

\* prepare_batch: stamp the batch and allocate its sequences, once.
PrepareBatch(p, recs) ==
  [part |-> p, recs |-> recs, pid |-> producer_id, epoch |-> producer_epoch,
   seq |-> next_seq[p], used |-> 0]

\* pop_ready_batch takes the oldest batch.
PopReady(queue) == [batch |-> Head(queue), rest |-> Tail(queue)]

\* The idle partition p contributes its oldest batch.  Linger or a forced
\* drain may seal the current batch first; it must when no batch is ready.
\* The batch counts as in flight before the accumulator is unlocked.
DrainBatch(p) ==
  /\ SenderRuns /\ state = "active" /\ IdentityUsable
  /\ p \notin Occupied /\ locked # p /\ Queue(p) # <<>>
  /\ \E seal \in BOOLEAN :
       LET popped == PopReady(IF seal THEN Queue(p) ELSE ready[p]) IN
       /\ ready[p] = <<>> => seal
       /\ ready' = [ready EXCEPT ![p] = popped.rest]
       /\ current' = IF seal THEN [current EXCEPT ![p] = <<>>] ELSE current
       /\ requests' = requests \cup
            {[batch |-> PrepareBatch(p, popped.batch), answer |-> "none"]}
       /\ next_seq' = [next_seq EXCEPT ![p] = @ + Len(popped.batch)]
  /\ in_flight' = in_flight + 1
  /\ UNCHANGED <<taken, locked, appended, retry, producer_id, producer_epoch,
                 lifeVars, flushVars, brokerVars, outcome>>

\* Mutant: a resend takes the sequences that are next now.
ResentAtNextSequence(p) == [retry[p] EXCEPT !.seq = next_seq[p]]

\* The batch of a resend keeps its bytes.
Resent(p) == retry[p]

\* A batch whose backoff ended leaves its retry slot.
Resend(p) ==
  /\ SenderRuns /\ state = "active" /\ IdentityUsable
  /\ retry[p] # NoBatch
  /\ requests' = requests \cup {[batch |-> Resent(p), answer |-> "none"]}
  /\ retry' = [retry EXCEPT ![p] = NoBatch]
  /\ UNCHANGED <<next_seq, producer_id, producer_epoch, accVars, lifeVars,
                 flushVars, brokerVars, in_flight, outcome>>

\* bump_idempotent_epoch: the identities it can leave behind, and whether it
\* moved.  Only an allocation at the last epoch can fail.
BumpedIdentities ==
  IF producer_epoch < MaxEpoch
  THEN {[ok |-> TRUE, pid |-> producer_id, epoch |-> producer_epoch + 1]}
  ELSE {[ok |-> FALSE, pid |-> producer_id, epoch |-> producer_epoch]} \cup
       {[ok |-> TRUE, pid |-> i, epoch |-> 0] :
          i \in {producer_id + 1} \cap 0..MaxProducerId}

\* The identity after a cycle that asks for a bump, or does not.
IdentityAfter(bump) ==
  IF bump THEN BumpedIdentities
  ELSE {[ok |-> FALSE, pid |-> producer_id, epoch |-> producer_epoch]}

\* Mutant: the bump does not clear next_seq.
SequencesKept(id) == next_seq

SequencesAfter(id) == IF id.ok THEN [p \in Partitions |-> 0] ELSE next_seq

\* Batches in the retry slots that reached the delivery timeout fail, and
\* nothing is sent in this cycle.  An idempotent producer raises its epoch.
ExpireBatches(expired) ==
  /\ SenderRuns /\ state = "active"
  /\ expired # {} /\ expired \subseteq RetryPartitions
  /\ \E id \in IdentityAfter(RepairAfterFailure(Mode) = "BumpEpoch") :
       /\ producer_id' = id.pid /\ producer_epoch' = id.epoch
       /\ next_seq' = SequencesAfter(id)
  /\ outcome' = Resolve(RecordsOf({retry[p] : p \in expired}), "failed")
  /\ retry' = [p \in Partitions |-> IF p \in expired THEN NoBatch ELSE retry[p]]
  /\ FinishInFlight(Cardinality(expired))
  /\ UNCHANGED <<requests, accVars, lifeVars, brokerVars>>

\* take_expired_accumulator_batches pops the oldest batch of an accumulator
\* that reached the delivery timeout before its first send, and goes on to the
\* next batch or accumulator.  The batch is then in no accumulator and not in
\* flight.  A batch in the retry slot is older and expires with it.
TakeExpired(p) ==
  /\ ~exited /\ sweep = {} /\ state = "active" /\ locked # p
  /\ Queue(p) # <<>> /\ retry[p] = NoBatch
  /\ taken' = taken \cup {Head(Queue(p))}
  /\ IF ready[p] # <<>>
     THEN ready' = [ready EXCEPT ![p] = Tail(@)] /\ UNCHANGED current
     ELSE current' = [current EXCEPT ![p] = <<>>] /\ UNCHANGED ready
  /\ UNCHANGED <<locked, appended, senderVars, lifeVars, flushVars, brokerVars,
                 in_flight, outcome>>

\* fail_unsent_batches: the batches that were taken fail, and flush is woken.
FailExpired ==
  /\ taken # {}
  /\ outcome' = Resolve(TakenRecords, "failed")
  /\ taken' = {}
  /\ NotifyWaiters(TRUE)
  /\ UNCHANGED <<current, ready, locked, appended, senderVars, lifeVars,
                 brokerVars, in_flight, flush_pc, flush_todo, flush_mark,
                 flush_result>>

-----------------------------------------------------------------------------
(* The sender task: completion of requests, and the fence.                 *)

Verdict(q) ==
  VerdictWithRetries(
    ClassifyVerdict(q.answer, Mode, Len(q.batch.recs), TRUE),
    q.batch.used, Retries)

\* The batch of the one request in qs for partition p.
BatchAt(qs, p) == (CHOOSE q \in qs : q.batch.part = p).batch

\* The split puts both halves at the front of the queue, in order.
Halves(recs) ==
  LET middle == Len(recs) \div 2
  IN  <<SubSeq(recs, 1, middle), SubSeq(recs, middle + 1, Len(recs))>>

\* The partitions whose request in done got one of these verdicts.
PartitionsWith(done, verdicts) ==
  {q.batch.part : q \in {d \in done : Verdict(d) \in verdicts}}

\* Mutant: an epoch bump rewrites every batch that is sent again.
ParkedAtBumpedEpoch(b, rewrite, id) ==
  IF id.ok
  THEN [b EXCEPT !.used = @ + 1, !.pid = id.pid, !.epoch = id.epoch, !.seq = 0]
  ELSE [b EXCEPT !.used = @ + 1]

\* A batch on its way to the retry slot, rewritten after an epoch bump.
Parked(b, rewrite, id) ==
  IF rewrite /\ id.ok
  THEN [b EXCEPT !.used = @ + 1, !.pid = id.pid, !.epoch = id.epoch, !.seq = 0]
  ELSE [b EXCEPT !.used = @ + 1]

\* Mutant: a split batch keeps its in-flight slot.
ReleasingUnlessSplit == {"Acked", "Terminal", "Exhausted"}

\* The verdicts that end a batch, and so call finish_in_flight.
Releasing == {"Acked", "Terminal", "Exhausted", "Split"}

\* complete_batches without a fatal verdict: CycleVerdicts::record sorts the
\* answers, and CycleVerdicts::apply bumps the epoch at most once, parks the
\* resends, requeues the splits and fails the rest.
CompleteBatches(done) ==
  LET with(vs) == PartitionsWith(done, vs)
      batches(vs) == {q.batch : q \in {d \in done : Verdict(d) \in vs}}
      failed == {"Terminal", "Exhausted"}
      rewrites == with({"BumpEpochAndRetry"})
      bump == \/ rewrites # {}
              \/ with(failed) # {} /\ RepairAfterFailure(Mode) = "BumpEpoch"
  IN
  /\ SenderRuns /\ done # {} /\ done \subseteq Answered
  /\ with({"Fatal"}) = {}
  /\ locked \notin with({"Split"})
  /\ requests' = requests \ done
  /\ \E id \in IdentityAfter(bump) :
       /\ producer_id' = id.pid /\ producer_epoch' = id.epoch
       /\ next_seq' = [p \in Partitions |->
            IF p \in rewrites /\ id.ok THEN Len(BatchAt(done, p).recs)
            ELSE IF p \in with({"Split"}) /\ Mode # "Plain" /\ ~id.ok
                 THEN BatchAt(done, p).seq
            ELSE SequencesAfter(id)[p]]
       /\ retry' = [p \in Partitions |->
            IF p \in with({"Retry", "BumpEpochAndRetry"})
            THEN Parked(BatchAt(done, p), p \in rewrites, id)
            ELSE retry[p]]
  /\ ready' = [p \in Partitions |->
       IF p \in with({"Split"}) THEN Halves(BatchAt(done, p).recs) \o ready[p]
       ELSE ready[p]]
  /\ outcome' = [r \in Records |->
       IF r \in RecordsOf(batches({"Acked"})) THEN "acked"
       ELSE IF r \in RecordsOf(batches(failed)) THEN "failed" ELSE outcome[r]]
  /\ FinishInFlight(Cardinality({q \in done : Verdict(q) \in Releasing}))
  /\ UNCHANGED <<current, taken, locked, appended, lifeVars, brokerVars>>

\* `fence`: the producer stops, the batches it holds and the retry slots fail,
\* and the sweep of the accumulators begins.
Fence(done, acked) ==
  LET dead == {q.batch : q \in done \ acked} \cup {retry[p] : p \in RetryPartitions}
  IN
  /\ state' = IF state = "active" THEN "fenced" ELSE state
  /\ requests' = requests \ done
  /\ retry' = [p \in Partitions |-> NoBatch]
  /\ outcome' = [r \in Records |->
       IF r \in RecordsOf({q.batch : q \in acked}) THEN "acked"
       ELSE IF r \in RecordsOf(dead) THEN "failed" ELSE outcome[r]]
  /\ FinishInFlight(Cardinality(done) + Cardinality(RetryPartitions))
  /\ sweep' = Partitions
  /\ UNCHANGED <<next_seq, producer_id, producer_epoch, stopping, exited,
                 accVars, brokerVars>>

\* complete_batches with a fatal verdict: what is not acked fails.
CompleteFatal(done) ==
  /\ SenderRuns /\ done # {} /\ done \subseteq Answered
  /\ PartitionsWith(done, {"Fatal"}) # {}
  /\ Fence(done, {q \in done : Verdict(q) = "Acked"})

\* Mutant: every pass of the loop starts a drain cycle.
AlwaysWork == TRUE

\* schedule: something that a drain cycle must look at.
DrainWork ==
  \/ RetryPartitions # {}
  \/ \E p \in Partitions \ Occupied : Queue(p) # <<>>

\* A drain cycle of a producer that is no longer active.
DrainFence ==
  /\ SenderRuns /\ state # "active" /\ DrainWork
  /\ Fence({}, {})

\* `fence` visits one accumulator.  It fails every batch of it, unless a task
\* holds the lock: then try_lock skips it.
FenceAccumulator(p) ==
  /\ p \in sweep
  /\ sweep' = sweep \ {p}
  /\ IF locked = p
     THEN UNCHANGED <<current, ready, outcome>>
     ELSE /\ outcome' = Resolve(QueuedRecords(p), "failed")
          /\ current' = [current EXCEPT ![p] = <<>>]
          /\ ready' = [ready EXCEPT ![p] = <<>>]
  /\ UNCHANGED <<taken, locked, appended, state, stopping, exited, senderVars,
                 flushVars, brokerVars, in_flight>>

\* Mutant: settled without a look at the accumulators.
SettledRequests == in_flight = 0 /\ RetryPartitions = {}

\* The loop ends once it is stopping and everything settled.
Settled == /\ in_flight = 0 /\ RetryPartitions = {}
           /\ \A p \in Partitions : Queue(p) = <<>>

SenderExit ==
  /\ SenderRuns /\ stopping /\ Settled
  /\ exited' = TRUE
  /\ UNCHANGED <<state, sweep, stopping, accVars, senderVars, flushVars,
                 brokerVars, in_flight, outcome>>

-----------------------------------------------------------------------------
(* The network and the leaders of the partitions.                          *)

Answer(q, code) == (requests \ {q}) \cup {[q EXCEPT !.answer = code]}

ProducerStateFor(b) ==
  IF b.pid = NoProducerId THEN NoProducerState ELSE producers[b.part][b.pid]

CodeFor(b) == LeaderCode(ProducerStateFor(b), b, BrokerMax[b.part])

\* The leader of b's partition handles b: it appends it when the code is NONE.
Arrive(b) ==
  IF CodeFor(b) = "NONE"
  THEN /\ log' = [log EXCEPT ![b.part] = @ \o b.recs]
       /\ producers' = IF b.pid = NoProducerId THEN producers
            ELSE [producers EXCEPT ![b.part][b.pid] = StateAfterAppend(@, b)]
  ELSE UNCHANGED <<log, producers>>

\* The request arrives, and the answer comes back.
LeaderAnswers(q) ==
  /\ q.answer = "none"
  /\ Arrive(q.batch)
  /\ requests' = Answer(q, CodeFor(q.batch))
  /\ UNCHANGED <<stray, faults, retry, next_seq, producer_id, producer_epoch,
                 accVars, lifeVars, flushVars, in_flight, outcome>>

\* The leader appends the batch and still answers a retriable code, such as
\* NOT_ENOUGH_REPLICAS_AFTER_APPEND or REQUEST_TIMED_OUT.
LeaderAppendsAndFails(q) ==
  /\ q.answer = "none" /\ faults < MaxFaults
  /\ CodeFor(q.batch) = "NONE"
  /\ Arrive(q.batch)
  /\ requests' = Answer(q, "RETRIABLE")
  /\ faults' = faults + 1
  /\ UNCHANGED <<stray, retry, next_seq, producer_id, producer_epoch,
                 accVars, lifeVars, flushVars, in_flight, outcome>>

\* The leader refuses the batch with some other code.
LeaderRefuses(q, code) ==
  /\ q.answer = "none" /\ faults < MaxFaults
  /\ requests' = Answer(q, code)
  /\ faults' = faults + 1
  /\ UNCHANGED <<log, producers, stray, retry, next_seq, producer_id,
                 producer_epoch, accVars, lifeVars, flushVars, in_flight, outcome>>

\* The client loses the request or its answer: the connection broke or the
\* request timed out.  A request that did not arrive yet may arrive later.
TransportFails(q) ==
  /\ q.answer # "TRANSPORT" /\ faults < MaxFaults
  /\ requests' = Answer(q, "TRANSPORT")
  /\ faults' = faults + 1
  /\ \/ UNCHANGED stray
     \/ q.answer = "none" /\ stray' = stray \cup {q.batch}
  /\ UNCHANGED <<log, producers, retry, next_seq, producer_id, producer_epoch,
                 accVars, lifeVars, flushVars, in_flight, outcome>>

\* A request that the client gave up arrives late, and nobody reads the answer.
StrayArrives(b) ==
  /\ Arrive(b)
  /\ stray' = stray \ {b}
  /\ UNCHANGED <<faults, senderVars, accVars, lifeVars, flushVars, in_flight,
                 outcome>>

\* The leader drops its producer state by retention, which is long after the
\* last request of the partition.
LeaderForgets(p) ==
  /\ faults < MaxFaults
  /\ \A b \in Outstanding \cup stray : b.part # p
  /\ producers[p] # [i \in 0..MaxProducerId |-> NoProducerState]
  /\ producers' = [producers EXCEPT ![p] = [i \in 0..MaxProducerId |-> NoProducerState]]
  /\ faults' = faults + 1
  /\ UNCHANGED <<log, stray, senderVars, accVars, lifeVars, flushVars,
                 in_flight, outcome>>

-----------------------------------------------------------------------------
\* A run ends when the sender task returned and every request arrived.
Terminated == exited /\ stray = {} /\ UNCHANGED vars

Application ==
  \/ \E p \in Partitions : EnqueueSeal(p) \/ EnqueueLock(p) \/ EnqueueAppend(p)
  \/ FlushStart \/ FlushLoad \/ FlushWake \/ FlushTimeout
  \/ \E p \in Partitions : FlushScan(p)
  \/ Close \/ DropProducer

Sender ==
  \/ AllocateProducerId
  \/ \E p \in Partitions : DrainBatch(p) \/ Resend(p) \/ TakeExpired(p)
  \/ FailExpired
  \/ \E expired \in SUBSET RetryPartitions : ExpireBatches(expired)
  \/ \E done \in SUBSET Answered : CompleteBatches(done) \/ CompleteFatal(done)
  \/ DrainFence
  \/ \E p \in sweep : FenceAccumulator(p)
  \/ SenderExit

Network ==
  \/ \E q \in requests :
       \/ LeaderAnswers(q) \/ LeaderAppendsAndFails(q) \/ TransportFails(q)
       \/ \E code \in FaultCodes : LeaderRefuses(q, code)
  \/ \E b \in stray : StrayArrives(b)
  \/ \E p \in Partitions : LeaderForgets(p)

Next == Application \/ Sender \/ Network \/ Terminated

Spec == Init /\ [][Next]_vars

\* The runtime polls every task that can run, an answer or a transport error
\* ends every request, and a task does not keep an accumulator locked.
Fairness ==
  /\ \A p \in Partitions : WF_vars(EnqueueAppend(p)) /\ WF_vars(FlushScan(p))
  /\ WF_vars(FlushLoad) /\ WF_vars(FlushWake)
  /\ \A p \in Partitions : WF_vars(DrainBatch(p)) /\ WF_vars(Resend(p))
  /\ WF_vars(AllocateProducerId)
  /\ WF_vars(\E done \in SUBSET Answered : CompleteBatches(done) \/ CompleteFatal(done))
  /\ WF_vars(FailExpired) /\ WF_vars(DrainFence)
  /\ WF_vars(\E p \in sweep : FenceAccumulator(p))
  /\ WF_vars(SenderExit)
  /\ WF_vars(\E q \in requests : LeaderAnswers(q))

FairSpec == Spec /\ Fairness

-----------------------------------------------------------------------------
(* Properties.                                                             *)

\* The types of the variables of the pipeline.
TypeOK ==
  /\ current \in [Partitions -> Seq(Records)]
  /\ ready \in [Partitions -> Seq(Seq(Records))]
  /\ taken \subseteq Seq(Records)
  /\ locked \in Partitions \cup {NoPartition}
  /\ retry \in [Partitions -> PreparedBatches \cup {NoBatch}]
  /\ requests \subseteq [batch : PreparedBatches, answer : Answers \cup {"none"}]
  /\ next_seq \in [Partitions -> Int]
  /\ producer_id \in Int /\ producer_epoch \in Int
  /\ in_flight \in Nat
  /\ state \in {"active", "fenced", "closed"}
  /\ sweep \subseteq Partitions
  /\ stopping \in BOOLEAN /\ exited \in BOOLEAN
  /\ appended \in 0..MaxRecords
  /\ outcome \in [Records -> {"none", "pending", "acked", "failed"}]
  /\ flush_pc \in {"idle", "scan", "load", "wait"}
  /\ flush_todo \subseteq Partitions
  /\ flush_signal \in BOOLEAN
  /\ flush_mark \in 0..MaxRecords
  /\ flush_result \in {"none", "ok", "timeout"}
  /\ log \in [Partitions -> Seq(Records)]
  /\ stray \subseteq PreparedBatches
  /\ faults \in 0..MaxFaults

\* The broker never sees two outstanding batches of one partition: a
\* partition has a request on the wire, or a batch in its retry slot, or
\* neither (drain_batches: "never both").
OneBatchPerPartition ==
  /\ \A q1, q2 \in requests : q1.batch.part = q2.batch.part => q1 = q2
  /\ RequestedPartitions \cap RetryPartitions = {}

\* in_flight counts exactly the batches that left an accumulator and are not
\* resolved.  A missed or doubled finish_in_flight, or a batch that overwrites
\* another one in a retry slot, breaks it.
InFlightExact ==
  in_flight = Cardinality(requests) + Cardinality(RetryPartitions)

\* At one identity a sequence names the same records forever, and a record
\* keeps its sequence: whatever copy of a batch reaches the leader, outstanding
\* or given up, the leader can tell a resend from a new batch.
Sent == Outstanding \cup stray

SequenceSpan(b) == b.seq..(b.seq + Len(b.recs) - 1)

SequenceNamesRecords ==
  Mode = "Idempotent" =>
    \A b, c \in Sent :
      b.part = c.part /\ b.pid = c.pid /\ b.epoch = c.epoch =>
        \/ b.seq = c.seq /\ b.recs = c.recs
        \/ /\ SequenceSpan(b) \cap SequenceSpan(c) = {}
           /\ Elems(b.recs) \cap Elems(c.recs) = {}

\* The first batch of an identity at a partition starts at sequence 0, so no
\* gap makes the leader answer OUT_OF_ORDER_SEQUENCE_NUMBER
\* (bump_idempotent_epoch: "start every partition again at sequence 0").
FreshEpochStartsAtZero ==
  Mode = "Idempotent" =>
    \A b \in Outstanding :
      producers[b.part][b.pid].epoch \in 0..(b.epoch - 1) => b.seq = 0

\* flush returned Ok: every record that was accepted before it began is
\* resolved, or in a batch that an expiry took out of an accumulator and is
\* about to fail: such a batch is neither queued nor in flight, so flush cannot
\* see it.  No other record escapes a flush.
FlushResolves ==
  flush_result = "ok" =>
    \A r \in 1..flush_mark :
      outcome[r] \in {"acked", "failed"} \/ r \in TakenRecords

\* A flush does not sleep when nothing is left to wait for: drain_batches says
\* "flush_notify wakes when in_flight hits zero, and when there is nothing to
\* send".
NoLostWakeup ==
  ~ (/\ flush_pc = "wait" /\ ~flush_signal
     /\ in_flight = 0 /\ sweep = {} /\ taken = {}
     /\ \A p \in Partitions : Queue(p) = <<>>)

\* With idempotence, the pipeline with its resends, splits, new epochs and given-up requests
\* does to the logs and the delivery handles only what Delivery allows: every record is written
\* at most once and in send order, and acked only when it is in the log.
Contract ==
  INSTANCE Delivery WITH Partitions <- Partitions, Records <- Records, log <- log,
                         outcome <- outcome
ImplementsDelivery == Contract!Spec

\* Every record that send accepted is resolved in the end.
EveryRecordResolved ==
  \A r \in Records : outcome[r] = "pending" ~> outcome[r] \in {"acked", "failed"}

\* A closed or dropped producer ends its sender task.
StoppingEnds == stopping ~> exited
=============================================================================
