# Verification of krabka-client-rs

TLA+ specifications of the Kafka client in `src/`, the TLC configurations that
check them, and proofs that TLAPS checks. `PROJECT.json` lists every run, every
mutant, the source lines that each definition translates, and the hazards that
the properties are aimed at.

## The system and its parts

| part | state | operations | hard part |
|---|---|---|---|
| Producer `send`, `flush`, `close` (`client-producer/src/producer.rs`) | accumulators, `in_flight`, `state`, wake channel | enqueue, flush, close, drop | application tasks race the sender task |
| Accumulator (`accumulator.rs`) | `current`, `ready` per partition | append, seal, pop, push_front | order of batches |
| Sender task (`sender.rs`) | retry slots, requests on the wire, `next_seq`, producer id and epoch | drain, resend, complete, bump, split, expire, fence | lost answers, late requests, epoch bumps between cycles |
| Transactions (`transactional.rs`, `txn_retry.rs`, `producer.rs`) | `TxnState`, error slot, generations, identity | init, begin, send, prepare, commit, abort, recover | unknown outcome of `EndTxn`, late answers after recovery |
| Buffer pool (`buffer_pool.rs`) | free memory | allocate, free | waiters, timeouts |
| Metadata wait, partitioner | topic waiters, sticky partition | wait, refresh, switch | shared waits |
| Consumer group (`client-consumer/src/coordinator.rs`, `consumer_group.rs`, `commit.rs`) | generation, member id, assignment, offsets | join, sync, heartbeat, commit, leave | rebalance races commits |
| Fetching (`poll.rs`, `fetch_session.rs`, `fetch_buffer.rs`, `seek.rs`, `validate.rs`) | session epoch, positions, buffers | fetch, seek, validate | stale answers |
| Share consumer (`share/`) | share session, acknowledgements | poll, acknowledge | session epoch |
| Assignors (`assignor/`) | none | range, round robin, cooperative sticky | balance, stickiness |
| Connections (`client-core/src/connection.rs`, `pool.rs`, `reauth.rs`) | correlation ids, pool, backoff | send, receive, reconnect, re-authenticate | order of answers |
| Coordination (`client-coordination/src`) | lease, succession record | acquire, renew, take over | clock skew |
| Admin client (`client-admin/src`) | none between calls | one request per call, retry driver | partial failure |

Application tasks share the accumulators (one mutex each), the counter
`in_flight`, the atomics for state and identity, and a `Notify` with the single
sender task. The sender talks to the partition leaders; the transactional calls
talk to the transaction coordinator and share `next_seq`, the identity and the
error slot with the sender.

A consumer has an application thread that polls, a coordinator task that joins,
heartbeats and rejoins, a worker task for asynchronous commits, and one task per
Fetch in flight. They share `assigned`, `next_offsets`, `positions`, the commit
identity and the lock `commit_serialization`; the listener of the application
runs inside `poll`, at the request of the coordinator task.

## Module by module

### ProduceVerdicts
The pure decision of `classify_verdict`, with `BatchMode::repair_after_failure`
and `take_retry`. Error codes are grouped by what the code tells apart; the head
of the module lists the groups.

### BrokerLog (external)
The leader of a partition: sequence check, duplicate detection and expiry of the
producer state. It is modelled from the rules that the sender's comments and the
test broker state.

### ProducerSender
The whole send pipeline without transactions. One action per operation:

| action | code |
|---|---|
| `EnqueueSeal`, `EnqueueLock`, `EnqueueAppend` | `enqueue_inner`: the seal before the wait for memory, the lock with the `is_active` check, `Accumulator::append` |
| `FlushStart`, `FlushScan`, `FlushLoad`, `FlushWake`, `FlushTimeout` | `flush`: each accumulator is locked alone, then `in_flight` is read |
| `Close`, `DropProducer` | `close` after its flush, and the closed wake channel |
| `AllocateProducerId`, `DrainBatch`, `Resend`, `ExpireBatches`, `TakeExpired`, `FailExpired`, `DrainFence` | the parts of `drain_batches`; the two halves of an expiry in the accumulators |
| `CompleteBatches`, `CompleteFatal`, `FenceAccumulator` | `complete_batches` with `CycleVerdicts::record` and `apply`, and `fence` |
| `SenderExit` | the end of the `drive` loop |
| `LeaderAnswers`, `LeaderAppendsAndFails`, `LeaderRefuses`, `TransportFails`, `StrayArrives`, `LeaderForgets` | leaders and network |

Records are numbered in the order of the sends, so order and duplicates in the
log can be read off. Time is abstract: linger, backoff and the delivery timeout
may end at any step. A request that the client gives up may reach the leader
later (`stray`). The fence visits one accumulator per step, because a sending
task may append to an accumulator that the sweep skipped. An expiry takes the
batches out of one accumulator after the other (`TakeExpired`) and fails them
afterwards (`FailExpired`); in between they are in `taken`, neither queued nor in
flight.

Left out of this module: `acks=0`, leader routing with `max_in_flight`, metadata
refresh, compression, the sticky partitioner. A single lock is held by appending
tasks at a time, which suffices to reach the skipped accumulator of the sweep.

### Delivery
The contract of the idempotent producer, over `log` and `outcome` only: `Accept`
takes the next record, `Write` puts a run of records behind the log of a
partition, `Resolve` ends delivery handles. A record enters a log at most once
and in send order, an ack needs a record in the log, and a result is final. A
record that was reported failed may still enter the log, and out of order.
`ProducerSender` implements it: `ImplementsDelivery` is the specification of
`Delivery` under the identity on `log` and `outcome`.

Runs and bounds (`MCProducerSender`):

* `sender_idempotent`: two exchangeable partitions, three records, batches of
  two, one retry, epochs 0 to 2, two producer ids, two faults. Three records
  give a partition a full batch and a successor, or work on both partitions; two
  faults give a lost answer and the failure of the resend, which uses up the
  retry and bumps the epoch; three epochs reach the rollover.
* `sender_live`: one partition whose leader takes one record per batch, three
  records in batches of up to three, so that a half is split again, with
  retriable and fatal answers and the fence. `InFlightExact`, and liveness under
  `Fairness`: the runtime polls every ready task, the request timeout ends every request, the lock of an accumulator
  is never kept; the timers (linger, expiry, flush timeout) get no fairness.
  Faults are bounded, and an allocation of a producer id succeeds in the end.

### ProducerSender_proofs
`Spec => []TypeOK`, `Spec => []OneBatchPerPartition` and
`Spec => []InFlightExact` for all values of the constants. The induction needs
more than the three: `SlotsMatch` (a batch in the retry slot of p is for p), the
finiteness of `requests`, so that cardinalities can be counted, and
`AppendPending` (an appending task that holds a lock has room for a record).
`InFlightExact` depends on `OneBatchPerPartition`: completing a set of requests
fills one retry slot per parked request only when no two requests share a
partition and the slot was free.

Two theorems about `flush` follow, each under the condition without which the
code does not keep it (Disagreements); the run `sender_idempotent` meets both.

* `FlushAlwaysWoken`: `NoFatal => (Spec => []NoLostWakeup)`. Without fatal answers
  only a closed producer sweeps its accumulators (`SweepsAfterClose`), so the last
  batch of a sleeping flush ends in `finish_in_flight` or in an expiry, and both
  notify; an expiry that has taken a batch will.
* `FlushAlwaysResolves`: `NoSplit => (Spec => []FlushResolves)`, where `NoSplit`
  says that every leader takes a batch of `batch.size`. The property names the
  records that a returning flush may leave: those in `taken`, which a flush cannot
  see (Disagreements). `NoneLost` says that an accepted record is resolved,
  outstanding, taken or in an accumulator. `PassSeen` adds that what an accumulator
  held when `flush` passed it is resolved, outstanding or taken, so that
  `in_flight = 0`, read after the pass, leaves no other record.

### ProducerDelivery_proofs
Three theorems about the idempotent producer under `NoSplit`, for every set of
partitions, every batch size, number of records, retries, epochs, producer ids and
faults, and with fatal answers too:

* `SequenceAlwaysNamesRecords`: `Spec => []SequenceNamesRecords`.
* `FreshEpochAlwaysStartsAtZero`: `Spec => []FreshEpochStartsAtZero`.
* `DeliveryImplemented`: `Spec => ImplementsDelivery`, the refinement of
  `Delivery`: no record is written twice or out of order, and no ack is given for
  a record that is not in the log.

With a split the second is false (Disagreements), so `NoSplit` is not only for the
proof; splits are in the run `sender_live`.

The invariant is about one partition at a time. `Local` relates what the sender
has for it (the outstanding batch, every copy of a batch that may still arrive,
`next_seq`, the identity) to what its leader has (the producer state, the log):
copies that share a record are copies of one batch, at one identity the sequences
of two batches do not overlap, an outstanding batch is the next one that the
leader expects or is already in the log, and no copy carries a record of an
accumulator. Each step of the pipeline is, for each partition, one of eight moves
on these values, proved without the state machine: a batch is drained, a copy is
appended, a batch ends, the identity is replaced, a batch is rewritten to it, the
leader forgets, and so on. `Placed` keeps the records of two partitions apart,
`AnswersRight` says what the leader's state was to give the answer that a request
carries, and `QueuesInOrder` that an accumulator holds records in send order.

The refinement adds `Outcomes`, which ties the delivery handles to the batches: a
record is unresolved while it is queued or outstanding, an acked record is in the
log in front of all that is still to come, and a batch precedes its accumulator.
Each action then maps to one step of `Delivery` or to none: `EnqueueAppend` to
`Accept`, an arrival that the leader takes to `Write`, the completions, the
expiries and the fence to `Resolve` (all three through the lemma `Settles`). The
order of the log at `Write` needs `NoneLost`: a record of the log that is neither
acked nor failed is outstanding, hence in the batch that arrives.

Liveness under fairness (`EveryRecordResolved`, `StoppingEnds`) is out of the
prover's reach and stays with TLC.

### TxnRetry
The pure decisions of `txn_retry.rs` about one attempt to reach the transaction
coordinator: `DecideEndTxn`, `DecideEndTxnAtDeadline`,
`DecideEndTxnAfterRefusedLookup`, `DecideAddPartitions`, `DecideInitProducerId`.

### TransactionalProducer
The transactional calls, the sends that run beside them, and the part of the
sender task that knows about transactions. One task makes the transactional
calls; `call` is the call that runs and the step it has reached. `sending` is the
send that holds the `txn_state` mutex across its `AddPartitionsToTxn` and its
append; every other holder of the mutex keeps it for one step.

| action | code |
|---|---|
| `BeginTransaction`, `DropGuard`, `CancelCall` | `begin_transaction_state`, `abandon_transaction_guard`, a dropped future |
| `SendLock`, `SendRegister`, `SendRegisterRefused`, `SendAppend` | `enqueue_inner`, `register_transaction_partition`, `append_transaction_generation` |
| `GuardEnds`, `CompleteTransaction`, `PrepareStart` | `Transaction::commit` and `abort`, `complete_transaction`, `prepare_transaction` up to the wait |
| `FlushScan`, `FlushDone`, `DropScan`, `DrainDone`, `FlushTimeout` | `flush` and `abort_undrained_batches` |
| `EndTxnAnswered`, `EndTxnLost`, `EndTxnRefused`, `EndTxnLookup`, `EndTxnApply` | `send_end_txn_until_decided` and `apply_end_txn` |
| `InitStart`, `InitAnswered`, `InitLost`, `InitRefused`, `InitAdopt` | `init_transactions_with_keep_prepared` |
| `DrainBatch`, `StartRequest`, `Resend`, `SweepRecovered`, `ExpireRetry`, `TakeExpired`, `FailExpired`, `DrainFence` | `drain_batches`, the barriers, the recovery sweep, the two halves of an expiry |
| `CompleteAcked` to `CompleteFatal` | `complete_batches`, one batch at a time |
| `LeaderAnswers` and the other leader actions, `OtherInit` | external |

The coordinator (`coord`, `open`, `committed`, `aborted`) is external: it checks
the epoch, raises it on `InitProducerId` and, with transaction version 2, on
`EndTxn`, and knows a repeated `EndTxn` by the epoch before. Markers are written
together with `EndTxn`. A leader checks the epoch of a transactional batch with
the coordinator.

Four variables exist for the properties only: `begun` and `txn_of` (which
transaction accepted a record), `told` (what commit or abort reported, and that
an abort was tried), `issued` (tokens that a prepare returned). The field
`call.applied` notes that the coordinator applied an `EndTxn` of this call.

A fence clears every queue in one step. The code passes over an accumulator whose
lock is held at that moment (`try_lock`, `sender.rs:2009`); what it leaves there is
failed by the next drain, `DrainFence`. `ProducerSender` has the sweep with its
skipped accumulators step by step.

Bounds, all of them constants: `MaxRecords`, `MaxTransactions`, `MaxEpoch`
(epochs after which the application initializes no more), `MaxFaults`, and the
kinds of faults of a run in `Faults`, `ProduceCodes` and `RefusalCodes`. Two
transactions are enough for a late batch or verdict of one to meet the next; one
more epoch than transactions leaves room for one recovery between them; two or
three faults combine a lost request with the failure of its retry.

Passing runs (`MCTransactionalProducer`):

* `txn_recovery`: two partitions, two-phase commit with `keep_prepared`; dropped
  and cancelled guards, lost `EndTxn` and lost produce answers. What commit,
  abort and prepare report is what the logs hold, and no transaction is half
  committed.
* `txn_failures`: refusals, losses and a second instance that fences this one;
  failing batches, expired retries and forgotten producer state.
* `txn_v1`: transaction version 1, with `AddPartitionsToTxn`, two retries; the
  epoch is not raised by `EndTxn`, so only the barriers keep an old batch out.
  Fatal answers while the other partition is busy.
* `txn_live`: every accepted record is resolved and every call returns.
  `Fairness` gives weak fairness to the running call, to the sends, to the sender
  task and to the leaders: the runtime polls every ready task, and a request is
  answered or ends at its timeout. No fault and no call of the application is
  fair.

Each passing run states the properties that its faults can endanger. A property
that the code does not keep under some fault is left out of the passing runs with
that fault (Disagreements).

### TransactionalProducer_proofs
For any number of partitions, records, transactions, retries and faults and for
both transaction versions.

* `ErrorMeansUnchangedHolds`, as long as no coordinator lookup is refused
  (`"lookup" \notin Faults`; with a refused lookup the property is false, see
  Disagreements). The property is not inductive: at the step that decides, one
  must know that a change so far is one behind a lost attempt.
  `AppliedIsKnownOrLost` says this, and the lemmas on `DecideEndTxn` and
  `DecideEndTxnAtDeadline` say that after a lost attempt neither reports an error
  that stands for an unchanged transaction.
* `TypeCorrect`, without any condition. `in_flight` is exact only if no two
  requests and retry slots are one batch, which `SlotsTyped` says of each
  partition; `Numbered` adds that records are numbered in the order of the sends.
* `NothingOutsideTransactionHolds`, under `NoSplit` (`BatchMax <= BrokerMax`: every
  leader takes what the producer builds, so `split_and_requeue` never runs; with a
  split the property is false). `Ground` adds to the types that a batch in a queue
  is of the current generation only as long as the sender can see a transaction
  (`Generations`), which rests on the steps that a running call has behind it:
  which state it set (`Phase`), and which queues and batches it waited for
  (`Drained`).
* `OneTransactionOpenHolds`, under `NoSplit`. `Opened` adds the epochs of producer,
  batches and coordinator (`Epochs`, `Born`), when the coordinator has nothing open
  (`OpenPhase`: a `Ready` producer, a call about to adopt an epoch, an epoch that
  was raised), and that whatever the leader would still take, because it has the
  coordinator's epoch, is of the last transaction that began (`Belongs`). With
  version 1 the epoch of the next transaction is the same, so it is the wait of
  the call (`Drained`) and the generations that give this; with version 2 or after
  a recovery it is the epoch.
* `AllOrNothingHolds`, under `NoSplit`, and `AbortedMeansNoneHolds`, in addition for
  an application that does not end a transaction through the guard of an earlier
  one (`"stale_guard" \notin Faults`). `Closed` adds that a transaction that is over
  at the coordinator stays over (`EndedOver`): nothing of it is open or can be
  opened by a batch on its way (`Clean`), and a producer with the coordinator's
  epoch is done with it (`Gone`) and has nothing queued that could be sent
  (`Quiet`). This needs `Honest`: a call that hands the transaction back to the
  application changed nothing. `CommittedOver` says that no abort follows a commit
  that was applied.

Each invariant was checked by TLC for both versions, with three faults of
twelve kinds, before it was proved. The two liveness properties are model-checked
only.

### TransactionalCommit_proofs
What a commit, a prepare and a new identity promise with transaction version 2,
again for any number of partitions, records, transactions, retries and faults.
The five hypotheses of `CommittedMeansAllHolds` are all needed, and so are version 2
for the first theorem and the single instance for the third: without one of them
TLC finds a violation (Disagreements; for the third, with `other_init`).

* `FreshIdentityStartsAtZeroHolds`, under `NoSplit` and `TransactionV2`. With version
  2 every transaction has an epoch of its own (`Renewed`), so a verdict of an old
  identity cannot move the sequences of the new one. `Sequenced` says of each batch
  with the present epoch that it continues what the leader stored, or is stored
  already (`InLine`), and of `next_seq` that it continues the last of them (`Due`);
  an answer that is still to be applied is true of the leader (`AnswerTrue`). Once
  an error is noted nothing is drained, so the proof need not follow sequences that
  a failed batch spoilt (`Fine`).
* `CommittedMeansAllHolds`, in addition under `Orderly`: no fatal produce answer, no
  batch that expires in an accumulator, no commit or prepare after an abort that
  failed, no guard of an earlier transaction. These are the four cases in which
  the code breaks the property. The invariant `Accounted` keeps account of the
  records: one that is pending is in some batch, one that is acknowledged is in a
  log (`Accounts`), and while the transaction goes on, none of its records has
  failed unless the error slot says so (`Failures`), because its batches pass the
  barriers (`Generation`). A flush that ends without an error therefore leaves the
  transaction `Whole`. The rest follows what may be committed later: `Tokens`
  (what a prepare token or a guard that is left stands for is whole, or about to be
  aborted, and the producer sends nothing more for it), `Commits` (a commit behind
  its flush is whole; one about to complete is committed), `Marks` (an epoch that
  was raised with a commit stands for this transaction, so a repeated `EndTxn` that
  is answered with success does too) and `Reports` (a transaction that was reported
  is over). Every step is of one of fourteen kinds (`Kinds`), by what it does with
  the state that the application sees; each conjunct has one lemma with these cases.
* `PreparedMeansFlushedHolds`, in addition when no other instance uses the
  transactional id (`"other_init" \notin Faults`: its `InitProducerId` aborts the
  prepared transaction). What a token stands for is whole by `Tokens`; `Unended`
  adds that it is not over as long as the producer may go on with it (`Alive`).

### GroupMember
One member of a classic group, with the eager or the cooperative protocol,
dynamic or static, leader or follower. `task` is `CoordinatorState` with the
locals of `rejoin_group`, `shared` what the task shares with the `Consumer`,
`app` the application thread, `calls` the queue of listener calls, `broker` the
group coordinator with the other members as one set (external). Every topic has
one partition. Ids and generations are only compared for equality, so they are
numbered in a cycle.

| action | code |
|---|---|
| `PollStart`, `RunCall`, `PollEnter`, `PollJoined`, `PollDeadline`, `PollReturn`, `DropCall` | `poll` with `wait_for_rebalance` and `run_pending_listener_calls`; a poll that is dropped inside a callback |
| `Subscribe`, `Unsubscribe`, `EnforceRebalance`, `Close` | the calls of the application |
| `TaskPoll`, `Heartbeat`, `MetadataCheck`, `TakeEnforced`, `HandleSubscriptionChange`, `FencedWake`, `PollTimeout` | the loop of the coordinator task |
| `StartRejoin`, `JoinPrepare`, `SendJoin`, `JoinAnswer`, `SyncAnswer`, `RejoinFails` | `rejoin_group`, both rounds of a cooperative revocation |
| `PrimeOffsets`, `CloseGate`, `PublishAssignment`, `PruneOffsets`, `AnnounceAssignment` | the installation of an assignment, in the order `StepAfter` of `rejoin_group` and `publish_cooperative_additions` |
| `HeartbeatInCall`, `CallReturns`, `CallTimeout` | `call_listener` |
| `BComplete`, `BAssign`, `BStartRebalance`, `BEvict`, `BFence`, `BCreateTopic` | external |

Runs: `group_faults` gives every protocol and membership one fault (a failed
request, a poll timeout, a cancelled poll, an eviction, a fence) and one call at
any point of a rejoin that a new topic causes; the rejoin has up to two rounds,
so a fault can hit each of them, and polls run between the steps that install an
assignment. `group_live` has two topics, leader and
follower, one rebalance of the group, one change of the subscription and one
cancelled poll, so that a poll, a subscription or an `unsubscribe` meets each of
these steps too; weak fairness of the application's polls, of the task and of the
coordinator. The application may stop after `close`, so deadlock is not checked.

### GroupMember_proofs
Four theorems, for every set of partitions, both protocols, static and dynamic
members, leaders and followers, and any number of faults, rebalances and calls.

* `AddedAlwaysWaitForCallback`, without any condition. A poll fetches through the
  gate, so the gate must cover every partition that is visible and not announced
  yet: from the publication to the call (`InstallInv`) and while the call waits
  (`GateClosed`).
  This is inductive only together with the fact that at most the last call of the
  queue has a task behind it, which knows its partitions (`LiveCall`): a task that
  left its callback has queued calls that nobody waits for. `FetchStale` covers
  these: the member then has no partitions until a later poll.
* `AssignedAlwaysPrimed`, without any condition. `prime_offsets` skips what the
  member owned when it joined and what its first round kept, so `PrimedInv` says
  what is primed at each step of a rejoin, from the join to the pruning. An
  `unsubscribe` clears the offsets under a rejoin that goes on; the property is
  suspended until the task has handled it (Disagreements).
* `NoLossIsSilent`, for an application that neither unsubscribes nor cancels a
  poll inside a callback (Disagreements). `LossInv` adds to the property where
  the partitions are on each path: what was told when a callback has run
  (`ToldInv`), what a cooperative member gives up between its two rounds
  (`CooperativeInv`), that an eager member which joins was revoked everything
  (`EagerInv`), and that an abandoned assign callback names only what is lost or
  revoked behind it in the queue (`DeadInv`).

* `FetchAlwaysExclusive`, as long as the coordinator does not evict the member
  (`"evict" \notin Faults`; Disagreements). In `ExclusiveInv`, what a cooperative member
  owns is no other member's and, while the group reassigns, is among what it
  claimed in its join (`CooperativeFetch`); an eager member that owns something
  fetches nothing between its join and its sync, and a poll finds an assignment
  that is settled or behind the gate (`EagerFetch`).

`RebalanceEnds`, a liveness property, is model-checked only.

### OffsetCommit
The commits of one consumer for one partition, as commits treat partitions one by
one: `commit_sync` and `commit_offsets_sync`, `commit_async` with its coalescing
worker and callbacks, the interval commit of `poll`, the commit before a
`JoinGroup` and the one of `close`. `ident` is the commit identity that the
coordinator task installs, `polled` the positions of the latest poll, `lock`
`commit_serialization`. The consumer and the coordinator task have a connection
each, which delivers in order and may break before or after the coordinator
worked. `ghost` keeps what the application declared processed and the best commit.

A commit before a `JoinGroup` ends at its deadline, the rebalance timeout, while it
waits for the lock, for an answer or for its next attempt, or when a heartbeat
beside it says that the member is unknown (`TaskGivesUp`); a synchronous commit ends
at its deadline in `SyncEnds`. Both free the lock with their request on the way
(`GiveUp`). Each request carries a ghost `kind`: what it may do to the best commit.
The offset that the application selects may lower it, and so may a request that was
given up beside automatic commits, because the commit before a `JoinGroup` and the
others use two connections. Every other position raises it.

Run `commit`: both protocols, with automatic or with manual commits; two offsets,
and budgets in which two commits meet, a commit loses two connections, or a
commit spans a fault and a rebalance. A call that runs goes on, and tokio's mutex
serves its waiters in order, which is the strong fairness of `TaskTurn`.

### OffsetCommit_proofs
`CallbackAlwaysHasWorker` and `CommitsAlwaysProcessed`, for every configuration,
log end and budget. The first needs `WorkerFollowsState`: the state of
`commit_async_state` is `IDLE` exactly when no worker runs, and a callback waits
for a caller between its two steps, for a worker before its round, or for a mark.
The second is not inductive, as an offset passes through a caller, the exchange
and a connection before the group stores it: `OffsetsProcessed` bounds it in each
of these places. `LockHeld` and `OneExchange` say that the one exchange belongs to
the holder of `commit_serialization`, so nobody else moves its offset.
`PreJoinTurnComes`, a liveness property, is model-checked only.

The second half of the module is about the order of the commits.
`CommittedAlwaysKept`: `CommittedNeverRewinds` for every log end, budget and
configuration, with all deadlines. A request that was given up beside automatic
commits is the one exception that the property makes (Disagreements).

The property says nothing of the offsets that are still to be stored, so
`OrderInv` orders them. The coordinator accepts only its own generation
(`Valid`), and only a member that owns the partition and has not lost it to another
one (`Owns`, `Granted`) can have a request of it: `RequestsGood` says so of each connection,
with the requests not below the best commit and the positions among them in
order. `Good` is an offset that is below neither the best commit nor a position
that may still be accepted. The position of an owner is `Good` (`PositionGood`),
also between `prime_offsets` and the assignment that is published, and so are the
offset of a synchronous commit as long as its ownership goes on (`SyncGood`), the
request that may be sent again (`ResendGood`) and the positions for the commit
before a `JoinGroup` (`PolledGood`). `SnapshotsGood` covers an identity that was
read before the position. `Base` adds that ids and generations in hand are older
than the next ones, that the steps of a join fit the coordinator (`JoinFits`), and
that a request nobody waits for may only lower the best commit, or is one of a
synchronous commit without automatic ones, on one connection (`GivenUp`). A step commits for another member,
sends, or does neither; each kind has its lemmas, one per conjunct.

### ConsumerFetch
`poll` as nine steps between which the coordinator task and the brokers run, the
Fetch requests that outlive it, the fetch session of each broker, the buffer of
fetched records, preferred replicas, resets, `seek`, `pause` and `resume`, and
eager rebalances, whose commit before the join may fail; it stands for the positions
of the latest poll, and what the application is due next starts from whatever was
committed. The brokers are external: a session cache that may lose a
session, leaders that move, retention, followers that lag. `due` is the record
that the application must get next.

Run `fetch`: one partition at two brokers, or two partitions at one broker, under
`earliest` and `latest`, `max_poll_records = 1` so that a batch is returned in
parts; the epochs wrap after 3. A budget names how many faults, cancelled polls,
calls and rebalances a behaviour has; two together are enough for a lost answer
and an eviction, a seek during a failing Fetch, or a rebalance around a seek.
Liveness: the application keeps polling, the brokers answer and a rejoin goes on.
The run assumes that a poll does not wait between collecting its answers and
using them (`waits = FALSE`); Disagreements says what happens when it does.
Its two invariants are model-checked only: they hold under that assumption and under
budgets that keep certain faults apart, which no simple condition on the constants states.

### Succession
The members of one role of `client-coordination`: registration, the scan of the
role records, the fold into a roster and a lease, `evaluate`, acquisition of the
epoch, renewal and fencing. The coordination topic, its compaction and the
transaction coordinator are external. Run `roles`: two members, the clock of one
a tick ahead, five offsets, one fault; a crash, a lost commit or a transaction
timeout meets a challenge of the other member, and a member registers again.

### Succession_proofs
`LeaseTokensAlwaysGrow`, `TokenAlwaysHasOneOwner` and `FoldIsAlwaysOrderFree`, for
every set of members, every skew of their clocks, every duration and both
transaction versions. No clock enters the argument: it rests on the coordinator
alone. `TokenInv` says that no token is newer than the coordinator's, so a token
that it mints is new; that two members never share one; and that a member whose
producer is not fenced is the last one that was given a token, so that its lease
may follow all those in the log. `OffsetsDiffer` makes the fold independent of the
order. Besides the bounds the constants need only that the markers `NoMember` and
`NoRecord` are no member and no record. `CompactionKeepsRole` folds whole logs,
which would need an induction over data, and stays with TLC.

### Connection
One connection of `client-core` once its stream is up: the calls that share it,
the reader and the writer task, the dispatch queue, and the SASL exchange that the
first call after the due time runs in place. A frame is known by a tag (its call,
and the number and round of its exchange), which the code does not send: the tags
tell whose answer an answer is. The `ApiVersions` exchange of the setup is call 0.

| action | code |
|---|---|
| `Start`, `Check`, `TakeTurn` | `send` and `send_no_response` up to the guard of `reauthenticate_if_due`, and the second look under its write guard |
| `Register`, `Enqueue` | the two halves of `enqueue`: the id enters `pending`, then the frame waits for a place in the queue |
| `Returns`, `Disconnects`, `Timeout`, `Cancel` | `await_response` and `PendingRegistration`; a call whose future is dropped |
| `Authenticate`, `Reject`, `DueTime` | `sasl::authenticate` over the connection, `Reauth::authenticate`, `due_time` |
| `SetupAnswered` | `fetch_api_versions` with its retry at another version |
| `WriterTake`, `WriterWrite`, `WriterStops`, `WriterIdle`, `WriterFails`, `WriterDrops` | `write_loop`; the queue closes one step after the loop ended |
| `ReaderReads`, `ReaderStops`, `ReaderEof`, `ReaderDrains` | the reader task and its last sweep of `pending` |
| `Close`, `PeerStalls` | `close` or the drop of the last handle; a peer that stops reading |

Calls are numbered in the order in which they start, which is only a naming.

Run `connection`: up to four calls, a queue of one place, ids that wrap after
four, exchanges of two rounds, up to two due times. With four calls one frame is
held by a peer that stopped reading, one fills the queue, one call waits for a
place with its read guard and one behind that guard for its turn to authenticate;
the two due times give an exchange after an exchange. Each configuration has one or two faults out of those
listed in `MCConfs`. Fairness: a task that can run runs, a ready future is polled
and a request timeout fires; the broker owes no answer, so `ReaderReads` is not
fair. Nothing need happen after the last call, so deadlock is not checked.

### Connection_proofs
`ExchangeNeverInterrupted` and `AnswerAlwaysOwn`, for every set of calls, queue
capacity, number of rounds and configuration, under two conditions.

* `NoCancelledExchange`: no caller drops a call in the middle of an exchange. With
  such a caller `AnswerIsOwn` is false (Disagreements).
* `FewRequests`, for `AnswerAlwaysOwn` only: the connection makes fewer requests
  than there are correlation ids, `MinReserved` of them; they are about 2^31 in
  the code. What happens when the ids wrap is in the run, not in the proof.

The invariant follows the frames through the queue, the buffer of the writer and
the stream. `LockHeld` ties each call to the guard of `reauthenticate_if_due` that
it has, `IdsApart` keeps the ids of exchanges and of requests apart, and
`FrameInv` says that a running exchange has at most one frame on the way, with all
requests in front of it. A write of the writer moves frames from one sequence to
the next without reordering them, which is the lemma that the rest uses. After a
shutdown a round of an exchange may find the connection closed, so the property
asks for a connection that is still up unless the frame is the first of its
exchange.

## Disagreements between the code and its documentation

The models show the following. To see one that names a property, take a run of
the module, change the constants and check the property:

| constants | property | what happens |
|---|---|---|
| `ProducerSender`, two partitions of which one takes one record per batch | `FreshEpochStartsAtZero` | a split gives back a sequence of an epoch that another partition bumped meanwhile (`sender.rs:1946`; `sender.rs:1778`: "start every partition again at sequence 0") |
| `ProducerSender`, one partition, `BrokerMax <- SingleRecords` | `FlushResolves` | a split puts its halves behind the scan of `flush`, which returns Ok early (`sender.rs:1969`) |
| `ProducerSender`, any | `FlushResolves` without its last disjunct | an expiry takes a batch out of an accumulator and fails it only after it has locked the others; a flush that scans in between finds nothing queued and nothing in flight and returns Ok (`sender.rs:1071`; `sender.rs:918` promises of the drain that "a concurrent `flush` never sees a batch that is neither in the accumulator nor counted in flight") |
| `ProducerSender`, one partition, `FaultCodes = {"FATAL"}` | `NoLostWakeup` | `fence` empties the accumulators without waking `flush`, which sleeps until its timeout (`sender.rs:2009`) |
| `TransactionalProducer`, `BrokerMax = 1`, no fault | `NothingOutsideTransaction` | a commit ends before the halves of a split, which are then sent outside of any transaction (`producer.rs:2752`) |
| the same, `MaxRecords = 3` | `OneTransactionOpen` | an abort leaves the halves of a split queued; they join the next transaction (`producer.rs:2775`) |
| `Faults = {"end_lost", "lookup"}` | `ErrorMeansUnchanged` | a commit that was applied is reported as failed without effect (`txn_retry.rs:394`; `txn_retry.rs:102`: "No earlier attempt was lost") |
| `ProduceCodes = {"FATAL"}` | `CommittedMeansAll` | a batch that fails with a fatal code during the flush does not stop the commit (`producer.rs:1039`; `producer.rs:991`) |
| `TransactionV2 = FALSE`, `MaxRecords = 3`, `MaxTransactions = 3`, `Faults = {"drop_guard"}` | `FreshIdentityStartsAtZero` | the verdict of an abandoned batch sets the sequence of the new identity (`producer.rs:1168`) |
| `Faults = {"expire_queued"}` | `CommittedMeansAll` | a batch taken by an expiry is failed after the commit looked for errors (`sender.rs:1071`) |
| `Faults = {"stale_guard", "end_lost"}`, one partition | `CommittedMeansAll` | a commit through the guard of an earlier transaction reports success for that one (`transactional.rs:348`) |
| `TransactionV2 = FALSE`, `Faults = {"append_and_fail", "expire_retry"}`, one partition | `CommittedMeansAll` | the sequence of an expired batch that the leader did append is used again, and the batch that has it next counts as a duplicate (`sender.rs:1042`) |
| `BrokerMax = 1`, no fault | `CommittedMeansAll` | the commit ends before the halves of a split are sent (`producer.rs:2752`) |
| `Faults = {"change_of_mind"}`, `RefusalCodes = {"CONCURRENT_TRANSACTIONS"}` | `CommittedMeansAll` | a commit after an abort that failed midway reports success for dropped records (`producer.rs:1053`) |
| `ConsumerFetch`, `waits = TRUE`, one fault, one cancelled poll, one seek | `SessionServesAsked` | a poll dropped while it waits for `next_offsets` leaves a failed Fetch unprocessed; the next incremental request omits the sought offset (`poll.rs:1209`) |
| `ConsumerFetch`, `earliest`, one fault and one rebalance | `DeliveredIsDue` | `recover_out_of_range` overwrites a position that a rebalance primed meanwhile (`poll.rs:1987`) |
| `ConsumerFetch`, `waits = TRUE`, one partition at one broker, `latest`, one rebalance, `Hidden = {}` | `DeliveredIsDue` | a poll checks an answer against a copy of the positions (`poll.rs:1209`) and reads the floor again after it waited (`poll.rs:1574`); a member that lost the partition and got it back in between skips records (`poll.rs:1190`: "drops the data of a partition whose fetch position changed after the request") |
| `Connection`, `Conf(1..2, {}, {"cancel_exchange"}, 1, 1)` | `AnswerIsOwn` | a call dropped in the middle of an exchange leaves the connection open; the next exchange starts at the same reserved id (`reauth.rs:73`) and takes the late answer of the dropped one (`connection.rs:1058`: "a late response must not match a later request") |
| `Connection`, `Conf(1..3, {1, 2, 3}, {"stall"}, 1, 0)` | `EveryCallEnds` | requests without a response have no timeout: behind a peer that stops reading, a full queue holds them for ever (`connection.rs:822`) |
| `GroupMember`, `MaxRebalances = 1`, `Faults = {"evict"}`, cooperative | `FetchIsExclusive` | the poll in which `on_partitions_revoked` ran may still fetch the partition (`poll.rs:730`) |
| `GroupMember`, `MaxFaults = 2`, `Faults = {"pollTimeout", "cancel"}` | `NoSilentLoss` | during the lost callback of a member that left after a poll timeout, a heartbeat says that the member is unknown and the cancelled poll drops the call; it is not sent again (`coordinator.rs:783`, against `:760`: "The next `poll` runs it again") |
| `GroupMember`, `Calls` with `"unsubscribe"` | `AssignedIsPrimed` without `app.unsubscribed` | an `unsubscribe` during a rejoin clears the offsets of partitions that the rejoin then publishes (`subscription.rs:326`, against `coordinator.rs:1943`: "a partition is only visible in `assigned` once its next_offset is established"); the task clears the assignment when it handles the change |
| `OffsetCommit`, `auto`, one fault and one rebalance, `Late(r)` keeping its kind | `CommittedNeverRewinds` | the commit before a `JoinGroup` is given up at its deadline with its request on the way and the lock free (`coordinator.rs:2402`); the interval commit of a poll, on the other connection, arrives before it, and the old offset is stored last (`coordinator.rs:2375`: "it cannot reach the coordinator after a newer commit of the consumer"). A `commit_sync` given up at its deadline lands after a newer commit before a `JoinGroup` in the same way |

These were met while reading or while checking earlier properties:

* Transactions. A guard handed back with `RecoveryRequired` ends the transaction
  begun after it (`transactional.rs:348`, against `:314`). A cancelled `init_transactions` leaves `Initializing` behind
  (`producer.rs:1411`). The doc of `fence` (`sender.rs:1983`) says that it is also
  called when a batch runs out of retries; `record` does not fence then.
* Membership. A cooperative member that is forgotten during its revoke callback
  publishes the assignment of the lost generation (`coordinator.rs:780`, against
  `:1684`). `UNKNOWN_MEMBER_ID` from `JoinGroup` or `SyncGroup` is retried with the
  same id for ever (`:1349`, against `:1680`). After a topic grew, every follower
  rejoins at each refresh, because `merge_counts` gets an empty snapshot
  (`:1325`). When a join fails after a cooperative revoke callback, the partition
  stays assigned and comes back without an assign callback. An eager listener can
  be told of the same partitions as revoked and as lost, and an `unsubscribe` or
  `close` after the member was forgotten reports no lost partitions.
  The initial `Assigned` call that a cancelled poll drops is not sent again.
* Commits. `commit.rs:410` fails a commit although the
  member is in the group. `merge_sent_positions` (`commit.rs:131`) replaces known
  positions whenever the ownership ids differ, where its comment says newer.
  `commit_async` takes the positions when the worker runs, not at the call. The
  lock order test models `commit_sync` without its nested `positions` lock.
* Connections. A request that registers after the reader swept `pending` and
  queues its frame before the writer dropped its queue waits for the request
  timeout (`connection.rs:1205`), where the doc of `is_closed` says that a closed
  connection fails every request with `Disconnected`, and that of
  `spawn_io_tasks` that a failure reaches callers promptly.
* Leases. After a restart `evaluate` can say Hold to a member that holds nothing
  (`succession.rs:260`). With transaction version 2 `EndTxn` raises the epoch, so
  the token that a third party reads is not the holder's (`broker.rs:20`).

## What is not modelled

In the transactional model: `send_offsets_to_transaction`, authentication
failures, requests that reach a leader after the client gave them up (they are in
`ProducerSender`), an `EndTxn` that arrives after its answer was given up, the
coordinator's treatment of an `EndTxn` without a transaction (it is taken as
success), markers that lag behind `EndTxn`, and the code inside `InitAdopt`, which
is one step. The application calls `prepare_transaction` through the guard.

In the sending pipeline: `acks=0`, leader routing with `max_in_flight`, the memory
budget, sequences that wrap at 2^31. In the commits: positions that move back by a
seek or a reset, with `AutoCommit::reset_polled` (`commit.rs:795`, called at
`poll.rs:1056`, `1987` and `2077`), so positions only grow between two ownerships; a
request that a coordinator processes after its connection broke and a newer one was
processed. In the consumer: leader epochs and their
validation (KIP-320), `by_duration` and `none` resets, a topic id that changes,
a fetch beside a cooperative rebalance, manual assignment, the KIP-848 member of
`consumer_group.rs`. In a connection: encoding errors of a request, a response
that cannot be decoded, the wait for an OAUTHBEARER token (taken to end), the TCP,
TLS and first SASL handshake; an answer of an exchange that follows a timed-out
one on a connection that is already shut down. The connection pool, the share
consumer, the assignors, the admin client and the metadata waits are not modelled
yet.

Out of reach of TLC or without state worth checking: encoding, compression,
cryptography, telemetry, configuration builders. Liveness under fairness and what
recursive definitions compute are model-checked, never proved.

## Plan

1. Proofs: `SessionServesAsked` and `DeliveredIsDue` of `ConsumerFetch`; delivery
   with splits on a single partition.
2. The KIP-848 member, with an abstract group member (owned partitions,
   generation) that it and `GroupMember` implement.
3. Cooperative rebalances and epoch validation in `ConsumerFetch`; the share
   consumer's session and acknowledgements.
4. The connection pool over `Connection` (one connection per broker, eviction,
   reconnect backoff, an endpoint that changes while a call connects); the admin retry driver; leader routing, `max_in_flight` and the buffer pool.
5. The assignors against reference definitions.
