----------------------- MODULE ProducerSender_proofs -----------------------
(***************************************************************************)
(* Proofs about ProducerSender, for every set of partitions and every value *)
(* of the other constants: type correctness, at most one outstanding batch  *)
(* per partition, the exactness of the in_flight counter, and what flush    *)
(* relies on: no lost wake-up, and all accepted records resolved.           *)
(*                                                                          *)
(* The first three go together.  The counter is exact only if a completed   *)
(* batch never overwrites another one in a retry slot, which is what the    *)
(* rule of one batch per partition gives.  The inductive invariant also     *)
(* needs that a retry slot holds a batch of its own partition, that the set *)
(* of requests is finite, and that a task that holds an accumulator locked  *)
(* still has a record to append.  The wake-up of flush is proved without    *)
(* fatal answers, and its promise without splits: with them the code does   *)
(* not keep the two (README, Disagreements).                                *)
(***************************************************************************)
EXTENDS ProducerSender, FiniteSetTheorems, SequenceTheorems, TLAPS

\* A retry slot holds a batch of its own partition.
SlotsMatch == \A p \in Partitions : retry[p] # NoBatch => retry[p].part = p

\* A task that holds an accumulator locked has a record to append.
AppendPending == locked # NoPartition => appended < MaxRecords

\* The part of the invariant that is about outstanding batches.
Pipeline ==
  /\ SlotsMatch
  /\ IsFiniteSet(requests)
  /\ OneBatchPerPartition
  /\ InFlightExact

Inv == TypeOK /\ AppendPending /\ Pipeline

-----------------------------------------------------------------------------
(* The operators of the model.                                             *)

LEMMA VerdictType ==
  ASSUME NEW code \in Answers \cup {"none"}, NEW mode \in {"Plain", "Idempotent"},
         NEW n \in Nat, NEW behind \in BOOLEAN
  PROVE  ClassifyVerdict(code, mode, n, behind) \in
           {"Acked", "Retry", "BumpEpochAndRetry", "Terminal", "Split", "Fatal"}
BY DEF ClassifyVerdict, Answers, BrokerCodes

LEMMA LeaderCodeType ==
  ASSUME NEW s, NEW b, NEW max
  PROVE  LeaderCode(s, b, max) \in BrokerCodes
BY DEF LeaderCode, BrokerCodes

\* A request ends with one of the verdicts that complete_batches applies.
LEMMA VerdictCases ==
  ASSUME TypeOK, NEW q \in requests
  PROVE  Verdict(q) \in Releasing \cup {"Retry", "BumpEpochAndRetry", "Fatal"}
<1>1. /\ q.answer \in Answers \cup {"none"}
      /\ Len(q.batch.recs) \in Nat
  BY LenProperties DEF TypeOK, PreparedBatches
<1>2. ClassifyVerdict(q.answer, Mode, Len(q.batch.recs), TRUE) \in
        {"Acked", "Retry", "BumpEpochAndRetry", "Terminal", "Split", "Fatal"}
  BY <1>1, VerdictType, ConstantsAssumption
<1> QED
  BY <1>2 DEF Verdict, VerdictWithRetries, Resends, Releasing

-----------------------------------------------------------------------------
(* Initial states.                                                         *)

LEMMA InitInv == Init => Inv
<1> SUFFICES ASSUME Init PROVE Inv
  OBVIOUS
<1>1. TypeOK
  <2>1. <<>> \in Seq(Records) /\ <<>> \in Seq(Seq(Records))
    BY EmptySeq
  <2>2. /\ current \in [Partitions -> Seq(Records)]
        /\ log \in [Partitions -> Seq(Records)]
        /\ ready \in [Partitions -> Seq(Seq(Records))]
    BY <2>1 DEF Init
  <2>3. producer_id \in Int /\ producer_epoch \in Int
    BY DEF Init, NoProducerId
  <2>4. requests \subseteq [batch : PreparedBatches, answer : Answers \cup {"none"}]
    BY DEF Init
  <2>5. /\ retry \in [Partitions -> PreparedBatches \cup {NoBatch}]
        /\ next_seq \in [Partitions -> Int]
        /\ outcome \in [Records -> {"none", "pending", "acked", "failed"}]
    BY DEF Init
  <2>6. /\ appended \in 0..MaxRecords /\ flush_mark \in 0..MaxRecords
        /\ faults \in 0..MaxFaults /\ in_flight \in Nat
    BY ConstantsAssumption DEF Init
  <2>7. /\ locked \in Partitions \cup {NoPartition} /\ sweep \subseteq Partitions
        /\ flush_todo \subseteq Partitions /\ stray \subseteq PreparedBatches
        /\ taken \subseteq Seq(Records)
    BY DEF Init
  <2>8. /\ state \in {"active", "fenced", "closed"}
        /\ stopping \in BOOLEAN /\ exited \in BOOLEAN /\ flush_signal \in BOOLEAN
        /\ flush_pc \in {"idle", "scan", "load", "wait"}
        /\ flush_result \in {"none", "ok", "timeout"}
    BY DEF Init
  <2> QED
    BY <2>2, <2>3, <2>4, <2>5, <2>6, <2>7, <2>8 DEF TypeOK
<1>2. RetryPartitions = {}
  BY DEF Init, RetryPartitions
<1>3. InFlightExact
  BY <1>2, FS_EmptySet DEF Init, InFlightExact
<1>4. OneBatchPerPartition
  BY <1>2 DEF Init, OneBatchPerPartition, RequestedPartitions
<1> QED
  BY <1>1, <1>3, <1>4, FS_EmptySet
     DEF Init, Inv, AppendPending, Pipeline, SlotsMatch

-----------------------------------------------------------------------------
(* Steps that do not touch the outstanding batches.                        *)

LEMMA PipelineUnchanged ==
  ASSUME Pipeline, UNCHANGED <<requests, retry, in_flight>>
  PROVE  Pipeline'
BY DEF Pipeline, SlotsMatch, OneBatchPerPartition, InFlightExact,
       RequestedPartitions, RetryPartitions

LEMMA EnqueueStep ==
  ASSUME Inv, NEW p \in Partitions,
         EnqueueSeal(p) \/ EnqueueLock(p) \/ EnqueueAppend(p)
  PROVE  Inv'
<1> USE DEF accVars, senderVars, lifeVars, flushVars, brokerVars
<1>1. Pipeline'
  BY PipelineUnchanged DEF Inv, EnqueueSeal, EnqueueLock, EnqueueAppend
<1>2. CASE EnqueueSeal(p)
  BY <1>1, <1>2, EmptySeq DEF Inv, AppendPending, EnqueueSeal, TypeOK
<1>3. CASE EnqueueLock(p)
  BY <1>1, <1>3 DEF Inv, AppendPending, EnqueueLock, TypeOK
<1>4. CASE EnqueueAppend(p)
  <2>1. /\ appended + 1 \in Records /\ appended' = appended + 1
        /\ appended' \in 0..MaxRecords /\ locked' = NoPartition
    BY <1>4, ConstantsAssumption
       DEF Inv, AppendPending, EnqueueAppend, TypeOK, Records
  <2>a. current[p] \in Seq(Records) /\ ready[p] \in Seq(Seq(Records))
    BY DEF Inv, TypeOK
  <2>b. /\ Append(current[p], appended + 1) \in Seq(Records)
        /\ <<appended + 1>> \in Seq(Records)
        /\ Append(ready[p], current[p]) \in Seq(Seq(Records))
    BY <2>1, <2>a
  <2>2. current' \in [Partitions -> Seq(Records)]
    BY <1>4, <2>b DEF EnqueueAppend, Inv, TypeOK
  <2>3. ready' \in [Partitions -> Seq(Seq(Records))]
    BY <1>4, <2>b DEF EnqueueAppend, Inv, TypeOK
  <2>4. outcome' \in [Records -> {"none", "pending", "acked", "failed"}]
    BY <1>4, <2>1 DEF EnqueueAppend, Inv, TypeOK
  <2>5. TypeOK'
    BY <1>4, <2>1, <2>2, <2>3, <2>4 DEF EnqueueAppend, Inv, TypeOK
  <2> QED
    BY <1>1, <1>4, <2>5 DEF EnqueueAppend, Inv, AppendPending
<1> QED
  BY <1>2, <1>3, <1>4

LEMMA FlushStep ==
  ASSUME Inv,
         \/ FlushStart \/ FlushLoad \/ FlushWake \/ FlushTimeout
         \/ \E p \in Partitions : FlushScan(p)
         \/ Close \/ DropProducer
  PROVE  Inv'
<1> USE DEF accVars, senderVars, lifeVars, flushVars, brokerVars
<1>1. Pipeline'
  BY PipelineUnchanged DEF Inv, FlushStart, FlushLoad, FlushWake, FlushTimeout,
                           FlushScan, Close, DropProducer
<1>2. AppendPending'
  BY DEF Inv, AppendPending, FlushStart, FlushLoad, FlushWake, FlushTimeout,
         FlushScan, Close, DropProducer
<1>3. TypeOK'
  <2>1. CASE FlushStart
    BY <2>1, ConstantsAssumption DEF Inv, TypeOK, FlushStart
  <2>2. CASE FlushLoad
    BY <2>2 DEF Inv, TypeOK, FlushLoad
  <2>3. CASE FlushWake
    BY <2>3 DEF Inv, TypeOK, FlushWake
  <2>4. CASE FlushTimeout
    BY <2>4 DEF Inv, TypeOK, FlushTimeout
  <2>5. CASE \E p \in Partitions : FlushScan(p)
    BY <2>5 DEF Inv, TypeOK, FlushScan
  <2>6. CASE Close
    BY <2>6 DEF Inv, TypeOK, Close
  <2>7. CASE DropProducer
    BY <2>7 DEF Inv, TypeOK, DropProducer
  <2> QED
    BY <2>1, <2>2, <2>3, <2>4, <2>5, <2>6, <2>7
<1> QED
  BY <1>1, <1>2, <1>3 DEF Inv


-----------------------------------------------------------------------------
(* Drain cycles.                                                           *)

LEMMA QueueType ==
  ASSUME TypeOK, NEW p \in Partitions
  PROVE  /\ current[p] \in Seq(Records) /\ ready[p] \in Seq(Seq(Records))
         /\ Queue(p) \in Seq(Seq(Records))
<1>1. current[p] \in Seq(Records) /\ ready[p] \in Seq(Seq(Records))
  BY DEF TypeOK
<1> QED
  BY <1>1 DEF Queue

LEMMA PopType ==
  ASSUME NEW queue \in Seq(Seq(Records)), queue # <<>>
  PROVE  /\ PopReady(queue).batch \in Seq(Records)
         /\ PopReady(queue).rest \in Seq(Seq(Records))
BY HeadTailProperties DEF PopReady

\* The partitions of the retry slots are finitely many.
LEMMA RetryFinite ==
  /\ IsFiniteSet(RetryPartitions) /\ Cardinality(RetryPartitions) \in Nat
<1>1. RetryPartitions \in SUBSET Partitions
  BY DEF RetryPartitions
<1> QED
  BY <1>1, FS_Subset, FS_CardinalityType, ConstantsAssumption

LEMMA AllocateStep ==
  ASSUME Inv, AllocateProducerId
  PROVE  Inv'
<1> USE DEF accVars, senderVars, lifeVars, flushVars, brokerVars
<1>1. Pipeline'
  BY PipelineUnchanged DEF Inv, AllocateProducerId
<1> QED
  BY <1>1 DEF Inv, AppendPending, AllocateProducerId, TypeOK

LEMMA DrainStep ==
  ASSUME Inv, NEW p \in Partitions, DrainBatch(p)
  PROVE  Inv'
<1> USE DEF accVars, senderVars, lifeVars, flushVars, brokerVars
<1>1. PICK seal \in BOOLEAN :
        LET popped == PopReady(IF seal THEN Queue(p) ELSE ready[p]) IN
        /\ ready[p] = <<>> => seal
        /\ ready' = [ready EXCEPT ![p] = popped.rest]
        /\ current' = IF seal THEN [current EXCEPT ![p] = <<>>] ELSE current
        /\ requests' = requests \cup
             {[batch |-> PrepareBatch(p, popped.batch), answer |-> "none"]}
        /\ next_seq' = [next_seq EXCEPT ![p] = @ + Len(popped.batch)]
  BY DEF DrainBatch
<1> DEFINE popped == PopReady(IF seal THEN Queue(p) ELSE ready[p])
           q == [batch |-> PrepareBatch(p, popped.batch), answer |-> "none"]
<1>2. popped.batch \in Seq(Records) /\ popped.rest \in Seq(Seq(Records))
  <2>1. CASE seal
    BY <2>1, QueueType, PopType DEF Inv, DrainBatch
  <2>2. CASE ~seal
    BY <1>1, <2>2, QueueType, PopType DEF Inv
  <2> QED
    BY <2>1, <2>2
<1>3. PrepareBatch(p, popped.batch) \in PreparedBatches
  <2>1. producer_id \in Int /\ producer_epoch \in Int /\ next_seq[p] \in Int
    BY DEF Inv, TypeOK
  <2> QED
    BY <1>2, <2>1 DEF PrepareBatch, PreparedBatches
<1>4. requests' = requests \cup {q}
  BY <1>1
<1>5. q.batch.part = p /\ q.answer = "none"
  BY DEF PrepareBatch
<1>6. p \notin RequestedPartitions /\ p \notin RetryPartitions
  BY DEF DrainBatch, Occupied
<1>7. TypeOK'
  <2>1. requests' \subseteq [batch : PreparedBatches, answer : Answers \cup {"none"}]
    BY <1>3, <1>4 DEF Inv, TypeOK
  <2>2. ready' \in [Partitions -> Seq(Seq(Records))]
    BY <1>1, <1>2 DEF Inv, TypeOK
  <2>3. current' \in [Partitions -> Seq(Records)]
    BY <1>1, EmptySeq DEF Inv, TypeOK
  <2>4. next_seq' \in [Partitions -> Int]
    <3>1. Len(popped.batch) \in Nat
      BY <1>2, LenProperties
    <3> QED
      BY <1>1, <3>1 DEF Inv, TypeOK
  <2>5. in_flight' \in Nat
    BY DEF Inv, TypeOK, DrainBatch
  <2> QED
    BY <2>1, <2>2, <2>3, <2>4, <2>5 DEF Inv, TypeOK, DrainBatch
<1>8. q \notin requests
  BY <1>5, <1>6 DEF RequestedPartitions
<1>9. UNCHANGED retry /\ in_flight' = in_flight + 1 /\ UNCHANGED <<locked, appended>>
  BY DEF DrainBatch
<1>10. RetryPartitions' = RetryPartitions
  BY <1>9 DEF RetryPartitions
<1>11. OneBatchPerPartition'
  BY <1>4, <1>5, <1>6, <1>10
     DEF Inv, Pipeline, OneBatchPerPartition, RequestedPartitions
<1>12. IsFiniteSet(requests') /\ InFlightExact'
  <2>1. /\ IsFiniteSet(requests')
        /\ Cardinality(requests') = Cardinality(requests) + 1
        /\ Cardinality(requests) \in Nat
    BY <1>4, <1>8, FS_AddElement, FS_CardinalityType DEF Inv, Pipeline
  <2> QED
    BY <2>1, <1>9, <1>10, RetryFinite DEF Inv, Pipeline, InFlightExact
<1> QED
  BY <1>7, <1>9, <1>11, <1>12 DEF Inv, AppendPending, Pipeline, SlotsMatch

LEMMA ResendStep ==
  ASSUME Inv, NEW p \in Partitions, Resend(p)
  PROVE  Inv'
<1> USE DEF accVars, senderVars, lifeVars, flushVars, brokerVars
<1> DEFINE q == [batch |-> retry[p], answer |-> "none"]
<1>1. /\ requests' = requests \cup {q}
      /\ retry' = [retry EXCEPT ![p] = NoBatch]
      /\ in_flight' = in_flight
      /\ p \in RetryPartitions
  BY DEF Resend, Resent, RetryPartitions
<1>2. retry[p] \in PreparedBatches /\ retry[p].part = p
  BY <1>1 DEF Inv, TypeOK, Pipeline, SlotsMatch, RetryPartitions
<1>3. RetryPartitions' = RetryPartitions \ {p}
  BY <1>1 DEF RetryPartitions, Inv, TypeOK
<1>4. q.batch.part = p /\ p \notin RequestedPartitions
  BY <1>1, <1>2 DEF Inv, Pipeline, OneBatchPerPartition
<1>5. q \notin requests
  BY <1>4 DEF RequestedPartitions
<1>6. TypeOK'
  <2>1. requests' \subseteq [batch : PreparedBatches, answer : Answers \cup {"none"}]
    BY <1>1, <1>2 DEF Inv, TypeOK
  <2>2. retry' \in [Partitions -> PreparedBatches \cup {NoBatch}]
    BY <1>1 DEF Inv, TypeOK
  <2> QED
    BY <2>1, <2>2 DEF Inv, TypeOK, Resend
<1>7. SlotsMatch'
  BY <1>1 DEF Inv, TypeOK, Pipeline, SlotsMatch
<1>8. OneBatchPerPartition'
  BY <1>1, <1>3, <1>4 DEF Inv, Pipeline, OneBatchPerPartition, RequestedPartitions
<1>9. IsFiniteSet(requests') /\ InFlightExact'
  <2>1. /\ IsFiniteSet(requests')
        /\ Cardinality(requests') = Cardinality(requests) + 1
        /\ Cardinality(requests) \in Nat
    BY <1>1, <1>5, FS_AddElement, FS_CardinalityType DEF Inv, Pipeline
  <2>2. Cardinality(RetryPartitions') = Cardinality(RetryPartitions) - 1
    BY <1>1, <1>3, RetryFinite, FS_RemoveElement
  <2> QED
    BY <2>1, <2>2, <1>1, RetryFinite DEF Inv, Pipeline, InFlightExact
<1> QED
  BY <1>6, <1>7, <1>8, <1>9 DEF Inv, AppendPending, Pipeline, Resend


LEMMA DifferenceCardinality ==
  ASSUME NEW S, IsFiniteSet(S), NEW T, T \subseteq S
  PROVE  /\ IsFiniteSet(T) /\ IsFiniteSet(S \ T)
         /\ Cardinality(S \ T) = Cardinality(S) - Cardinality(T)
         /\ Cardinality(T) \in Nat /\ Cardinality(S) \in Nat
<1>1. IsFiniteSet(T) /\ IsFiniteSet(S \ T)
  BY FS_Subset
<1>2. /\ Cardinality(T) \in Nat /\ Cardinality(S \ T) \in Nat
      /\ Cardinality(S) \in Nat
  BY <1>1, FS_CardinalityType
<1>3. Cardinality((S \ T) \cup T) =
        Cardinality(S \ T) + Cardinality(T) - Cardinality((S \ T) \cap T)
  BY <1>1, FS_Union
<1>4. (S \ T) \cup T = S /\ (S \ T) \cap T = {}
  OBVIOUS
<1> QED
  BY <1>1, <1>2, <1>3, <1>4, FS_EmptySet

LEMMA IdentityType ==
  ASSUME TypeOK, NEW bump \in BOOLEAN, NEW id \in IdentityAfter(bump)
  PROVE  /\ id.pid \in Int /\ id.epoch \in Int
         /\ SequencesAfter(id) \in [Partitions -> Int]
<1>1. id.pid \in Int /\ id.epoch \in Int
  BY ConstantsAssumption DEF IdentityAfter, BumpedIdentities, TypeOK
<1>2. SequencesAfter(id) \in [Partitions -> Int]
  BY DEF SequencesAfter, TypeOK
<1> QED
  BY <1>1, <1>2

LEMMA ExpireBatchesStep ==
  ASSUME Inv, NEW expired \in SUBSET RetryPartitions, ExpireBatches(expired)
  PROVE  Inv'
<1> USE DEF accVars, senderVars, lifeVars, flushVars, brokerVars
<1>1. PICK id \in IdentityAfter(RepairAfterFailure(Mode) = "BumpEpoch") :
        /\ producer_id' = id.pid /\ producer_epoch' = id.epoch
        /\ next_seq' = SequencesAfter(id)
  BY DEF ExpireBatches
<1>2. /\ producer_id' \in Int /\ producer_epoch' \in Int
      /\ next_seq' \in [Partitions -> Int]
  BY <1>1, IdentityType DEF Inv
<1>3. /\ retry' = [p \in Partitions |-> IF p \in expired THEN NoBatch ELSE retry[p]]
      /\ in_flight' = in_flight - Cardinality(expired)
      /\ UNCHANGED <<requests, locked, appended>>
  BY DEF ExpireBatches, FinishInFlight
<1>4. RetryPartitions' = RetryPartitions \ expired
  BY <1>3 DEF RetryPartitions
<1>5. /\ Cardinality(RetryPartitions') = Cardinality(RetryPartitions) - Cardinality(expired)
      /\ Cardinality(expired) \in Nat
      /\ Cardinality(RetryPartitions') \in Nat
  BY <1>4, RetryFinite, DifferenceCardinality, FS_CardinalityType
<1>6. Cardinality(requests) \in Nat
  BY FS_CardinalityType DEF Inv, Pipeline
<1>7. InFlightExact' /\ in_flight' \in Nat
  BY <1>3, <1>5, <1>6, RetryFinite DEF Inv, Pipeline, InFlightExact
<1>8. OneBatchPerPartition'
  BY <1>3, <1>4 DEF Inv, Pipeline, OneBatchPerPartition, RequestedPartitions
<1>9. SlotsMatch'
  BY <1>3 DEF Inv, Pipeline, SlotsMatch
<1>10. TypeOK'
  <2>1. retry' \in [Partitions -> PreparedBatches \cup {NoBatch}]
    BY <1>3 DEF Inv, TypeOK
  <2>2. outcome' \in [Records -> {"none", "pending", "acked", "failed"}]
    BY DEF ExpireBatches, Resolve, Inv, TypeOK
  <2>3. flush_signal' \in BOOLEAN
    BY DEF ExpireBatches, FinishInFlight, NotifyWaiters
  <2> QED
    BY <1>2, <1>7, <2>1, <2>2, <2>3 DEF Inv, TypeOK, ExpireBatches, FinishInFlight
<1> QED
  BY <1>3, <1>7, <1>8, <1>9, <1>10 DEF Inv, AppendPending, Pipeline

LEMMA TakeExpiredStep ==
  ASSUME Inv, NEW p \in Partitions, TakeExpired(p)
  PROVE  Inv'
<1> USE DEF accVars, senderVars, lifeVars, flushVars, brokerVars
<1>1. Pipeline'
  BY PipelineUnchanged DEF Inv, TakeExpired
<1>2. ready' \in [Partitions -> Seq(Seq(Records))]
  <2>1. ready[p] # <<>> => Tail(ready[p]) \in Seq(Seq(Records))
    BY QueueType, HeadTailProperties DEF Inv
  <2> QED
    BY <2>1 DEF TakeExpired, Inv, TypeOK
<1>3. current' \in [Partitions -> Seq(Records)]
  <2>1. <<>> \in Seq(Records) /\ current \in [Partitions -> Seq(Records)]
    BY EmptySeq DEF Inv, TypeOK
  <2>2. current' = current \/ current' = [current EXCEPT ![p] = <<>>]
    BY DEF TakeExpired
  <2> QED
    BY <2>1, <2>2
<1>4. taken' \subseteq Seq(Records)
  <2>1. Queue(p) \in Seq(Seq(Records)) /\ Queue(p) # <<>>
    BY QueueType DEF Inv, TakeExpired
  <2>2. Head(Queue(p)) \in Seq(Records)
    BY <2>1, HeadTailProperties
  <2> QED
    BY <2>2 DEF TakeExpired, Inv, TypeOK
<1>5. TypeOK'
  BY <1>2, <1>3, <1>4 DEF Inv, TypeOK, TakeExpired
<1> QED
  BY <1>1, <1>5 DEF Inv, AppendPending, TakeExpired

LEMMA FailExpiredStep ==
  ASSUME Inv, FailExpired
  PROVE  Inv'
<1> USE DEF accVars, senderVars, lifeVars, flushVars, brokerVars
<1>1. Pipeline'
  BY PipelineUnchanged DEF Inv, FailExpired
<1>2. outcome' \in [Records -> {"none", "pending", "acked", "failed"}]
  BY DEF FailExpired, Resolve, Inv, TypeOK
<1>3. flush_signal' \in BOOLEAN
  BY DEF FailExpired, NotifyWaiters
<1>4. TypeOK'
  BY <1>2, <1>3 DEF Inv, TypeOK, FailExpired
<1> QED
  BY <1>1, <1>4 DEF Inv, AppendPending, FailExpired


-----------------------------------------------------------------------------
(* Completion of requests.                                                 *)

LEMMA HalvesType ==
  ASSUME NEW recs \in Seq(Records)
  PROVE  Halves(recs) \in Seq(Seq(Records))
<1> DEFINE middle == Len(recs) \div 2
<1>1. Len(recs) \in Nat
  BY LenProperties
<1>2. middle \in Nat /\ middle <= Len(recs)
  BY <1>1
<1>3. \A i \in 1..Len(recs) : recs[i] \in Records
  BY ElementOfSeq
<1>4. SubSeq(recs, 1, middle) \in Seq(Records)
  BY <1>1, <1>2, <1>3, SubSeqProperties
<1>5. SubSeq(recs, middle + 1, Len(recs)) \in Seq(Records)
  BY <1>1, <1>2, <1>3, SubSeqProperties
<1> QED
  BY <1>4, <1>5 DEF Halves

\* Requests of different partitions: as many partitions as requests.
LEMMA OnePartitionEach ==
  ASSUME OneBatchPerPartition, NEW qs \in SUBSET requests, IsFiniteSet(qs)
  PROVE  LET ps == {q.batch.part : q \in qs}
         IN  IsFiniteSet(ps) /\ Cardinality(ps) = Cardinality(qs)
<1> DEFINE ps == {q.batch.part : q \in qs}
           f == [q \in qs |-> q.batch.part]
<1>1. f \in Bijection(qs, ps)
  <2>1. f \in Surjection(qs, ps)
    BY DEF Surjection
  <2>2. f \in Injection(qs, ps)
    BY DEF Injection, IsInjective, OneBatchPerPartition
  <2> QED
    BY <2>1, <2>2 DEF Bijection
<1>2. ExistsBijection(qs, ps)
  BY <1>1 DEF ExistsBijection
<1> QED
  BY <1>2, FS_Bijection

\* The batch of a completed partition.
LEMMA BatchAtType ==
  ASSUME TypeOK, NEW done \in SUBSET requests,
         NEW p \in {q.batch.part : q \in done}
  PROVE  /\ BatchAt(done, p) \in PreparedBatches
         /\ BatchAt(done, p).part = p
BY DEF BatchAt, TypeOK


LEMMA ParkedType ==
  ASSUME NEW b \in PreparedBatches, NEW rewrite, NEW id,
         id.pid \in Int, id.epoch \in Int
  PROVE  /\ Parked(b, rewrite, id) \in PreparedBatches
         /\ Parked(b, rewrite, id).part = b.part
<1>1. CASE rewrite /\ id.ok
  <2>1. Parked(b, rewrite, id) =
          [b EXCEPT !.used = @ + 1, !.pid = id.pid, !.epoch = id.epoch, !.seq = 0]
    BY <1>1 DEF Parked
  <2>2. Parked(b, rewrite, id) =
          [part |-> b.part, recs |-> b.recs, pid |-> id.pid, epoch |-> id.epoch,
           seq |-> 0, used |-> b.used + 1]
    BY <2>1 DEF PreparedBatches
  <2>3. b.part \in Partitions /\ b.recs \in Seq(Records) /\ b.used + 1 \in Nat
    BY DEF PreparedBatches
  <2> QED
    BY <2>2, <2>3 DEF PreparedBatches
<1>2. CASE ~(rewrite /\ id.ok)
  <2>1. Parked(b, rewrite, id) = [b EXCEPT !.used = @ + 1]
    BY <1>2 DEF Parked
  <2> QED
    BY <2>1 DEF PreparedBatches
<1> QED
  BY <1>1, <1>2

LEMMA CompleteBatchesStep ==
  ASSUME Inv, NEW done \in SUBSET Answered, CompleteBatches(done)
  PROVE  Inv'
<1> USE DEF accVars, senderVars, lifeVars, flushVars, brokerVars
<1> DEFINE with(vs) == PartitionsWith(done, vs)
           failed == {"Terminal", "Exhausted"}
           rewrites == with({"BumpEpochAndRetry"})
           bump == \/ rewrites # {}
                   \/ with(failed) # {} /\ RepairAfterFailure(Mode) = "BumpEpoch"
           resends == {"Retry", "BumpEpochAndRetry"}
           parked == with(resends)
           released == {q \in done : Verdict(q) \in Releasing}
           resent == {q \in done : Verdict(q) \in resends}
           completed == {q.batch.part : q \in done}
<1>1. PICK id \in IdentityAfter(bump) :
       /\ producer_id' = id.pid /\ producer_epoch' = id.epoch
       /\ next_seq' = [p \in Partitions |->
            IF p \in rewrites /\ id.ok THEN Len(BatchAt(done, p).recs)
            ELSE IF p \in with({"Split"}) /\ Mode # "Plain" /\ ~id.ok
                 THEN BatchAt(done, p).seq
            ELSE SequencesAfter(id)[p]]
       /\ retry' = [p \in Partitions |->
            IF p \in parked
            THEN Parked(BatchAt(done, p), p \in rewrites, id)
            ELSE retry[p]]
  BY DEF CompleteBatches
<1>2. /\ done \subseteq requests /\ requests' = requests \ done
      /\ in_flight' = in_flight - Cardinality(released)
      /\ with({"Fatal"}) = {}
      /\ UNCHANGED <<locked, appended>>
  BY DEF CompleteBatches, FinishInFlight, Answered
<1>3. /\ id.pid \in Int /\ id.epoch \in Int
      /\ SequencesAfter(id) \in [Partitions -> Int]
  BY <1>1, IdentityType DEF Inv
<1>4. \A vs : with(vs) \subseteq completed
  BY DEF PartitionsWith
<1>5. \A p \in completed :
        BatchAt(done, p) \in PreparedBatches /\ BatchAt(done, p).part = p
  BY <1>2, BatchAtType DEF Inv
<1>6. \A p \in parked : /\ retry'[p] \in PreparedBatches
                        /\ retry'[p].part = p
                        /\ retry'[p] # NoBatch
  <2> TAKE p \in parked
  <2>1. BatchAt(done, p) \in PreparedBatches /\ BatchAt(done, p).part = p
    BY <1>4, <1>5
  <2>2. p \in Partitions
    BY <2>1 DEF PreparedBatches
  <2>3. retry'[p] = Parked(BatchAt(done, p), p \in rewrites, id)
    BY <1>1, <2>2
  <2>4. /\ retry'[p] \in PreparedBatches
        /\ retry'[p].part = BatchAt(done, p).part
    <3> DEFINE b == BatchAt(done, p)
               rewrite == p \in rewrites
    <3>1. b \in PreparedBatches /\ id.pid \in Int /\ id.epoch \in Int
      BY <1>3, <2>1
    <3>2. retry'[p] = Parked(b, rewrite, id)
      BY <2>3
    <3> HIDE DEF b, rewrite
    <3>3. /\ Parked(b, rewrite, id) \in PreparedBatches
          /\ Parked(b, rewrite, id).part = b.part
      BY <3>1, ParkedType
    <3> QED
      BY <3>2, <3>3 DEF b
  <2> QED
    BY <2>1, <2>4, NoBatchAssumption
<1>7. parked \subseteq Partitions
  BY <1>4, <1>5 DEF PreparedBatches
<1>8. RetryPartitions' = RetryPartitions \cup parked
  BY <1>1, <1>6, <1>7 DEF RetryPartitions
<1>9. parked = {q.batch.part : q \in resent}
  BY DEF PartitionsWith
<1>10. parked \subseteq RequestedPartitions
  BY <1>2, <1>9 DEF RequestedPartitions
<1>11. done \ released = resent
  <2>1. \A q \in done : Verdict(q) \in Releasing \cup resends \cup {"Fatal"}
    BY <1>2, VerdictCases DEF Inv
  <2>2. \A q \in done : Verdict(q) # "Fatal"
    BY <1>2 DEF PartitionsWith
  <2> QED
    BY <2>1, <2>2 DEF Releasing
<1>12. InFlightExact' /\ in_flight' \in Nat /\ IsFiniteSet(requests')
  <2>1. /\ IsFiniteSet(done) /\ IsFiniteSet(requests')
        /\ Cardinality(requests') = Cardinality(requests) - Cardinality(done)
        /\ Cardinality(requests) \in Nat /\ Cardinality(done) \in Nat
    BY <1>2, DifferenceCardinality DEF Inv, Pipeline
  <2>2. /\ IsFiniteSet(resent)
        /\ Cardinality(resent) = Cardinality(done) - Cardinality(released)
        /\ Cardinality(released) \in Nat
    BY <1>11, <2>1, DifferenceCardinality
  <2>3. IsFiniteSet(parked) /\ Cardinality(parked) = Cardinality(resent)
    BY <1>2, <1>9, <2>2, OnePartitionEach DEF Inv, Pipeline
  <2>4. RetryPartitions \cap parked = {}
    BY <1>10 DEF Inv, Pipeline, OneBatchPerPartition
  <2>5. Cardinality(RetryPartitions') =
          Cardinality(RetryPartitions) + Cardinality(parked)
    <3>1. Cardinality(RetryPartitions \cup parked) =
            Cardinality(RetryPartitions) + Cardinality(parked)
            - Cardinality(RetryPartitions \cap parked)
      BY <2>3, RetryFinite, FS_Union
    <3>2. Cardinality(parked) \in Nat
      BY <2>3, FS_CardinalityType
    <3>3. Cardinality(RetryPartitions \cap parked) = 0
      BY <2>4, FS_EmptySet
    <3> HIDE DEF parked
    <3> QED
      BY <1>8, <3>1, <3>2, <3>3, RetryFinite
  <2>6. Cardinality(requests') \in Nat /\ Cardinality(resent) \in Nat
    BY <2>1, <2>2, FS_CardinalityType
  <2> QED
    BY <1>2, <2>1, <2>2, <2>3, <2>5, <2>6, RetryFinite
       DEF Inv, Pipeline, InFlightExact
<1>13. OneBatchPerPartition'
  <2>1. \A q1, q2 \in requests' : q1.batch.part = q2.batch.part => q1 = q2
    BY <1>2 DEF Inv, Pipeline, OneBatchPerPartition
  <2>2. \A q \in requests' : q.batch.part \notin parked
    BY <1>2, <1>9 DEF Inv, Pipeline, OneBatchPerPartition
  <2>3. \A q \in requests' : q.batch.part \notin RetryPartitions
    BY <1>2 DEF Inv, Pipeline, OneBatchPerPartition, RequestedPartitions
  <2>4. RequestedPartitions' = {q.batch.part : q \in requests'}
    BY DEF RequestedPartitions
  <2>5. RequestedPartitions' \cap RetryPartitions' = {}
    BY <1>8, <2>2, <2>3, <2>4
  <2> QED
    BY <2>1, <2>5 DEF OneBatchPerPartition
<1>14. SlotsMatch'
  BY <1>1, <1>6 DEF Inv, Pipeline, SlotsMatch
<1>15. TypeOK'
  <2>1. retry' \in [Partitions -> PreparedBatches \cup {NoBatch}]
    BY <1>1, <1>6 DEF Inv, TypeOK
  <2>2. next_seq' \in [Partitions -> Int]
    <3>1. \A p \in completed : /\ Len(BatchAt(done, p).recs) \in Nat
                               /\ BatchAt(done, p).seq \in Int
      BY <1>5, LenProperties DEF PreparedBatches
    <3> QED
      BY <1>1, <1>3, <1>4, <3>1
  <2>3. ready' \in [Partitions -> Seq(Seq(Records))]
    <3>1. ready' = [p \in Partitions |->
            IF p \in with({"Split"}) THEN Halves(BatchAt(done, p).recs) \o ready[p]
            ELSE ready[p]]
      BY DEF CompleteBatches
    <3>2. \A p \in completed : Halves(BatchAt(done, p).recs) \in Seq(Seq(Records))
      BY <1>5, HalvesType DEF PreparedBatches
    <3>3. \A p \in Partitions : ready[p] \in Seq(Seq(Records))
      BY DEF Inv, TypeOK
    <3>4. \A p \in completed \cap Partitions :
            Halves(BatchAt(done, p).recs) \o ready[p] \in Seq(Seq(Records))
      BY <3>2, <3>3, ConcatProperties
    <3> QED
      BY <1>4, <3>1, <3>3, <3>4
  <2>4. outcome' \in [Records -> {"none", "pending", "acked", "failed"}]
    BY DEF CompleteBatches, Inv, TypeOK
  <2>5. flush_signal' \in BOOLEAN
    BY DEF CompleteBatches, FinishInFlight, NotifyWaiters
  <2>6. requests' \subseteq [batch : PreparedBatches, answer : Answers \cup {"none"}]
    BY <1>2 DEF Inv, TypeOK
  <2>7. producer_id' \in Int /\ producer_epoch' \in Int
    BY <1>1, <1>3
  <2> QED
    BY <1>12, <2>1, <2>2, <2>3, <2>4, <2>5, <2>6, <2>7
       DEF Inv, TypeOK, CompleteBatches, FinishInFlight
<1> QED
  BY <1>2, <1>12, <1>13, <1>14, <1>15 DEF Inv, AppendPending, Pipeline


-----------------------------------------------------------------------------
(* The fence and the end of the sender task.                               *)

LEMMA FenceStep ==
  ASSUME Inv, NEW done \in SUBSET requests, NEW acked, Fence(done, acked)
  PROVE  Inv'
<1> USE DEF accVars, senderVars, lifeVars, flushVars, brokerVars
<1>1. /\ requests' = requests \ done
      /\ retry' = [p \in Partitions |-> NoBatch]
      /\ in_flight' = in_flight - (Cardinality(done) + Cardinality(RetryPartitions))
      /\ UNCHANGED <<locked, appended>>
  BY DEF Fence, FinishInFlight
<1>2. RetryPartitions' = {}
  BY <1>1 DEF RetryPartitions
<1>3. /\ IsFiniteSet(requests')
      /\ Cardinality(requests') = Cardinality(requests) - Cardinality(done)
      /\ Cardinality(requests) \in Nat /\ Cardinality(done) \in Nat
  BY <1>1, DifferenceCardinality DEF Inv, Pipeline
<1>4. Cardinality(requests') \in Nat
  BY <1>3, FS_CardinalityType
<1>5. InFlightExact' /\ in_flight' \in Nat
  BY <1>1, <1>2, <1>3, <1>4, RetryFinite, FS_EmptySet
     DEF Inv, Pipeline, InFlightExact
<1>6. OneBatchPerPartition'
  BY <1>1, <1>2 DEF Inv, Pipeline, OneBatchPerPartition
<1>7. SlotsMatch'
  BY <1>1 DEF SlotsMatch
<1>8. TypeOK'
  <2>1. retry' \in [Partitions -> PreparedBatches \cup {NoBatch}]
    BY <1>1
  <2>2. outcome' \in [Records -> {"none", "pending", "acked", "failed"}]
    BY DEF Fence, Inv, TypeOK
  <2>3. flush_signal' \in BOOLEAN
    BY DEF Fence, FinishInFlight, NotifyWaiters
  <2>4. requests' \subseteq [batch : PreparedBatches, answer : Answers \cup {"none"}]
    BY <1>1 DEF Inv, TypeOK
  <2>5. state' \in {"active", "fenced", "closed"} /\ sweep' \subseteq Partitions
    BY DEF Fence, Inv, TypeOK
  <2> QED
    BY <1>5, <2>1, <2>2, <2>3, <2>4, <2>5 DEF Inv, TypeOK, Fence, FinishInFlight
<1> QED
  BY <1>1, <1>3, <1>5, <1>6, <1>7, <1>8 DEF Inv, AppendPending, Pipeline

LEMMA FenceAccumulatorStep ==
  ASSUME Inv, NEW p \in sweep, FenceAccumulator(p)
  PROVE  Inv'
<1> USE DEF accVars, senderVars, lifeVars, flushVars, brokerVars
<1>1. Pipeline'
  BY PipelineUnchanged DEF Inv, FenceAccumulator
<1>2. ready' \in [Partitions -> Seq(Seq(Records))]
  <2>1. <<>> \in Seq(Seq(Records)) /\ ready \in [Partitions -> Seq(Seq(Records))]
    BY EmptySeq DEF Inv, TypeOK
  <2>2. ready' = ready \/ ready' = [ready EXCEPT ![p] = <<>>]
    BY DEF FenceAccumulator
  <2> QED
    BY <2>1, <2>2
<1>3. current' \in [Partitions -> Seq(Records)]
  <2>1. <<>> \in Seq(Records) /\ current \in [Partitions -> Seq(Records)]
    BY EmptySeq DEF Inv, TypeOK
  <2>2. current' = current \/ current' = [current EXCEPT ![p] = <<>>]
    BY DEF FenceAccumulator
  <2> QED
    BY <2>1, <2>2
<1>4. outcome' \in [Records -> {"none", "pending", "acked", "failed"}]
  BY DEF FenceAccumulator, Resolve, Inv, TypeOK
<1>5. TypeOK'
  BY <1>2, <1>3, <1>4 DEF Inv, TypeOK, FenceAccumulator
<1> QED
  BY <1>1, <1>5 DEF Inv, AppendPending, FenceAccumulator

LEMMA SenderStep ==
  ASSUME Inv, Sender
  PROVE  Inv'
<1>1. CASE AllocateProducerId
  BY <1>1, AllocateStep
<1>2. CASE \E p \in Partitions : DrainBatch(p) \/ Resend(p) \/ TakeExpired(p)
  BY <1>2, DrainStep, ResendStep, TakeExpiredStep
<1>8. CASE FailExpired
  BY <1>8, FailExpiredStep
<1>3. CASE \E expired \in SUBSET RetryPartitions : ExpireBatches(expired)
  BY <1>3, ExpireBatchesStep
<1>4. CASE \E done \in SUBSET Answered : CompleteBatches(done) \/ CompleteFatal(done)
  <2>1. PICK done \in SUBSET Answered : CompleteBatches(done) \/ CompleteFatal(done)
    BY <1>4
  <2>2. done \in SUBSET requests
    BY DEF Answered
  <2>3. CASE CompleteBatches(done)
    BY <2>3, CompleteBatchesStep
  <2>4. CASE CompleteFatal(done)
    BY <2>2, <2>4, FenceStep DEF CompleteFatal
  <2> QED
    BY <2>1, <2>3, <2>4
<1>5. CASE DrainFence
  <2>1. {} \in SUBSET requests
    OBVIOUS
  <2> QED
    BY <1>5, <2>1, FenceStep DEF DrainFence
<1>6. CASE \E p \in sweep : FenceAccumulator(p)
  BY <1>6, FenceAccumulatorStep
<1>7. CASE SenderExit
  <2> USE DEF accVars, senderVars, lifeVars, flushVars, brokerVars
  <2>1. Pipeline'
    BY <1>7, PipelineUnchanged DEF Inv, SenderExit
  <2> QED
    BY <1>7, <2>1 DEF Inv, AppendPending, TypeOK, SenderExit
<1> QED
  BY <1>1, <1>2, <1>3, <1>4, <1>5, <1>6, <1>7, <1>8 DEF Sender

-----------------------------------------------------------------------------
(* The network and the leaders.                                            *)

\* An answer replaces a request of the same batch.
LEMMA AnswerPipeline ==
  ASSUME Inv, NEW q \in requests, NEW code \in Answers,
         requests' = Answer(q, code), UNCHANGED <<retry, in_flight>>
  PROVE  /\ Pipeline'
         /\ requests' \subseteq [batch : PreparedBatches, answer : Answers \cup {"none"}]
<1> DEFINE a == [q EXCEPT !.answer = code]
<1>1. q \in [batch : PreparedBatches, answer : Answers \cup {"none"}]
  BY DEF Inv, TypeOK
<1>2. a = [batch |-> q.batch, answer |-> code]
  BY <1>1
<1>3. requests' = (requests \ {q}) \cup {a}
  BY DEF Answer
<1>4. requests' \subseteq [batch : PreparedBatches, answer : Answers \cup {"none"}]
  BY <1>1, <1>2, <1>3 DEF Inv, TypeOK
<1>5. a \notin requests \ {q}
  BY <1>2 DEF Inv, Pipeline, OneBatchPerPartition
<1>6. IsFiniteSet(requests') /\ Cardinality(requests') = Cardinality(requests)
  <2>1. /\ IsFiniteSet(requests \ {q})
        /\ Cardinality(requests \ {q}) = Cardinality(requests) - 1
        /\ Cardinality(requests) \in Nat
    BY FS_RemoveElement, FS_CardinalityType DEF Inv, Pipeline
  <2>2. /\ IsFiniteSet((requests \ {q}) \cup {a})
        /\ Cardinality((requests \ {q}) \cup {a}) = Cardinality(requests \ {q}) + 1
    BY <1>5, <2>1, FS_AddElement
  <2> QED
    BY <1>3, <2>1, <2>2
<1>7. RetryPartitions' = RetryPartitions
  BY DEF RetryPartitions
<1>8. RequestedPartitions' = RequestedPartitions
  BY <1>2, <1>3 DEF RequestedPartitions
<1>9. OneBatchPerPartition'
  BY <1>2, <1>3, <1>7, <1>8 DEF Inv, Pipeline, OneBatchPerPartition
<1>10. InFlightExact'
  BY <1>6, <1>7 DEF Inv, Pipeline, InFlightExact
<1> QED
  BY <1>4, <1>6, <1>9, <1>10 DEF Inv, Pipeline, SlotsMatch

LEMMA ArriveType ==
  ASSUME TypeOK, NEW b \in PreparedBatches, Arrive(b)
  PROVE  log' \in [Partitions -> Seq(Records)]
<1>1. /\ b.part \in Partitions /\ b.recs \in Seq(Records)
      /\ log[b.part] \in Seq(Records)
  BY DEF TypeOK, PreparedBatches
<1>2. log[b.part] \o b.recs \in Seq(Records)
  BY <1>1, ConcatProperties
<1> QED
  BY <1>1, <1>2 DEF Arrive, TypeOK

LEMMA NetworkStep ==
  ASSUME Inv, Network
  PROVE  Inv'
<1> USE DEF accVars, senderVars, lifeVars, flushVars, brokerVars
<1>0. \A q \in requests : q.batch \in PreparedBatches
  BY DEF Inv, TypeOK
<1>1. ASSUME NEW q \in requests, LeaderAnswers(q)
      PROVE  Inv'
  <2>1. CodeFor(q.batch) \in Answers
    BY LeaderCodeType DEF CodeFor, Answers
  <2>2. Pipeline' /\ requests' \subseteq
          [batch : PreparedBatches, answer : Answers \cup {"none"}]
    BY <1>1, <2>1, AnswerPipeline DEF LeaderAnswers
  <2>3. log' \in [Partitions -> Seq(Records)]
    BY <1>0, <1>1, ArriveType DEF Inv, LeaderAnswers
  <2> QED
    BY <1>1, <2>2, <2>3 DEF Inv, AppendPending, TypeOK, LeaderAnswers
<1>2. ASSUME NEW q \in requests, LeaderAppendsAndFails(q)
      PROVE  Inv'
  <2>1. Pipeline' /\ requests' \subseteq
          [batch : PreparedBatches, answer : Answers \cup {"none"}]
    BY <1>2, AnswerPipeline DEF LeaderAppendsAndFails, Answers, BrokerCodes
  <2>2. log' \in [Partitions -> Seq(Records)]
    BY <1>0, <1>2, ArriveType DEF Inv, LeaderAppendsAndFails
  <2>3. faults' \in 0..MaxFaults
    BY <1>2, ConstantsAssumption DEF Inv, TypeOK, LeaderAppendsAndFails
  <2> QED
    BY <1>2, <2>1, <2>2, <2>3 DEF Inv, AppendPending, TypeOK, LeaderAppendsAndFails
<1>3. ASSUME NEW q \in requests, TransportFails(q)
      PROVE  Inv'
  <2>1. Pipeline' /\ requests' \subseteq
          [batch : PreparedBatches, answer : Answers \cup {"none"}]
    BY <1>3, AnswerPipeline DEF TransportFails, Answers
  <2>2. stray' \subseteq PreparedBatches
    BY <1>0, <1>3 DEF Inv, TypeOK, TransportFails
  <2>3. faults' \in 0..MaxFaults
    BY <1>3, ConstantsAssumption DEF Inv, TypeOK, TransportFails
  <2> QED
    BY <1>3, <2>1, <2>2, <2>3 DEF Inv, AppendPending, TypeOK, TransportFails
<1>4. ASSUME NEW q \in requests, NEW code \in FaultCodes, LeaderRefuses(q, code)
      PROVE  Inv'
  <2>1. code \in Answers
    BY ConstantsAssumption DEF Answers, BrokerCodes
  <2>2. Pipeline' /\ requests' \subseteq
          [batch : PreparedBatches, answer : Answers \cup {"none"}]
    BY <1>4, <2>1, AnswerPipeline DEF LeaderRefuses
  <2>3. faults' \in 0..MaxFaults
    BY <1>4, ConstantsAssumption DEF Inv, TypeOK, LeaderRefuses
  <2> QED
    BY <1>4, <2>2, <2>3 DEF Inv, AppendPending, TypeOK, LeaderRefuses
<1>5. ASSUME NEW b \in stray, StrayArrives(b)
      PROVE  Inv'
  <2>1. Pipeline'
    BY <1>5, PipelineUnchanged DEF Inv, StrayArrives
  <2>2. b \in PreparedBatches
    BY DEF Inv, TypeOK
  <2>3. log' \in [Partitions -> Seq(Records)]
    BY <1>5, <2>2, ArriveType DEF Inv, StrayArrives
  <2> QED
    BY <1>5, <2>1, <2>3 DEF Inv, AppendPending, TypeOK, StrayArrives
<1>6. ASSUME NEW p \in Partitions, LeaderForgets(p)
      PROVE  Inv'
  <2>1. Pipeline'
    BY <1>6, PipelineUnchanged DEF Inv, LeaderForgets
  <2>2. faults' \in 0..MaxFaults
    BY <1>6, ConstantsAssumption DEF Inv, TypeOK, LeaderForgets
  <2> QED
    BY <1>6, <2>1, <2>2 DEF Inv, AppendPending, TypeOK, LeaderForgets
<1> QED
  BY <1>1, <1>2, <1>3, <1>4, <1>5, <1>6 DEF Network

-----------------------------------------------------------------------------
(* The theorems.                                                           *)

LEMMA InvStep == Inv /\ [Next]_vars => Inv'
<1> SUFFICES ASSUME Inv, [Next]_vars PROVE Inv'
  OBVIOUS
<1>1. CASE Application
  BY <1>1, EnqueueStep, FlushStep DEF Application
<1>2. CASE Sender
  BY <1>2, SenderStep
<1>3. CASE Network
  BY <1>3, NetworkStep
<1>4. CASE UNCHANGED vars
  <2> USE DEF vars, accVars, senderVars, lifeVars, flushVars, brokerVars
  <2>1. Pipeline'
    BY <1>4, PipelineUnchanged DEF Inv
  <2> QED
    BY <1>4, <2>1 DEF Inv, AppendPending, TypeOK
<1> QED
  BY <1>1, <1>2, <1>3, <1>4 DEF Next, Terminated

\* The inductive invariant holds in every reachable state.
THEOREM Invariance == Spec => []Inv
<1> QED
  BY InitInv, InvStep, PTL DEF Spec

\* Every variable of the pipeline keeps its type.
THEOREM TypeCorrect == Spec => []TypeOK
<1>1. Inv => TypeOK
  BY DEF Inv
<1> QED
  BY <1>1, Invariance, PTL

\* The sender never has two outstanding batches of one partition: neither two
\* requests on the wire, nor a request and a batch in the retry slot.
THEOREM OneBatchPerPartitionAlways == Spec => []OneBatchPerPartition
<1>1. Inv => OneBatchPerPartition
  BY DEF Inv, Pipeline
<1> QED
  BY <1>1, Invariance, PTL

\* in_flight is the number of batches on the wire and in the retry slots, on
\* every path through acks, failures, splits, expiry and the fence.
THEOREM InFlightAlwaysExact == Spec => []InFlightExact
<1>1. Inv => InFlightExact
  BY DEF Inv, Pipeline
<1> QED
  BY <1>1, Invariance, PTL

-----------------------------------------------------------------------------
(* The queue of an accumulator: ready, then current.                       *)

LEMMA AppendFront ==
  ASSUME NEW S, NEW s \in Seq(S), NEW x \in S
  PROVE  /\ Append(s, x) # <<>>
         /\ s = <<>> => Head(Append(s, x)) = x /\ Tail(Append(s, x)) = <<>>
         /\ s # <<>> => /\ Head(Append(s, x)) = Head(s)
                        /\ Tail(Append(s, x)) = Append(Tail(s), x)
<1>1. /\ Append(s, x) \in Seq(S) /\ Append(s, x) # <<>>
      /\ Len(Append(s, x)) = Len(s) + 1 /\ Len(s) \in Nat
  BY AppendProperties, LenProperties
<1>2. ASSUME s = <<>>
      PROVE  Head(Append(s, x)) = x /\ Tail(Append(s, x)) = <<>>
  BY <1>2
<1>3. ASSUME s # <<>>
      PROVE  /\ Head(Append(s, x)) = Head(s)
             /\ Tail(Append(s, x)) = Append(Tail(s), x)
  <2>1. Head(Append(s, x)) = Head(s)
    BY <1>3
  <2>2. /\ Tail(s) \in Seq(S) /\ Len(Tail(s)) = Len(s) - 1
        /\ Tail(Append(s, x)) \in Seq(S) /\ Len(Tail(Append(s, x))) = Len(s)
        /\ Append(Tail(s), x) \in Seq(S) /\ Len(Append(Tail(s), x)) = Len(s)
    BY <1>1, <1>3, HeadTailProperties, AppendProperties
  <2>3. \A i \in 1..Len(s) : Tail(Append(s, x))[i] = Append(Tail(s), x)[i]
    <3> TAKE i \in 1..Len(s)
    <3>1. Tail(Append(s, x))[i] = Append(s, x)[i + 1]
      BY <1>1, HeadTailProperties
    <3>2. CASE i = Len(s)
      BY <1>1, <2>2, <3>1, <3>2, AppendProperties
    <3>3. CASE i < Len(s)
      <4>1. i + 1 \in 1..Len(s) /\ i \in 1..Len(Tail(s))
        BY <1>1, <2>2, <3>3
      <4>2. Append(s, x)[i + 1] = s[i + 1] /\ Tail(s)[i] = s[i + 1]
        BY <1>3, <4>1, AppendProperties, HeadTailProperties
      <4>3. Append(Tail(s), x)[i] = Tail(s)[i]
        BY <2>2, <4>1, AppendProperties
      <4> QED
        BY <3>1, <4>2, <4>3
    <3> QED
      BY <1>1, <3>2, <3>3
  <2>4. Tail(Append(s, x)) = Append(Tail(s), x)
    <3> DEFINE t == Tail(Append(s, x))
               u == Append(Tail(s), x)
    <3>1. /\ t \in Seq(S) /\ u \in Seq(S) /\ Len(t) = Len(u)
          /\ \A i \in 1..Len(t) : t[i] = u[i]
      BY <2>2, <2>3
    <3> HIDE DEF t, u
    <3>2. t = u
      BY <3>1, SeqEqual
    <3> QED
      BY <3>2 DEF t, u
  <2> QED
    BY <2>1, <2>4
<1> QED
  BY <1>1, <1>2, <1>3

\* An accumulator is popped at the front of its queue, whether its current
\* batch is sealed first or not.
LEMMA PopQueue ==
  ASSUME TypeOK, NEW p \in Partitions, NEW seal \in BOOLEAN,
         Queue(p) # <<>>, ready[p] = <<>> => seal,
         LET popped == PopReady(IF seal THEN Queue(p) ELSE ready[p]) IN
         /\ ready' = [ready EXCEPT ![p] = popped.rest]
         /\ current' = IF seal THEN [current EXCEPT ![p] = <<>>] ELSE current
  PROVE  /\ PopReady(IF seal THEN Queue(p) ELSE ready[p]).batch = Head(Queue(p))
         /\ Queue(p)' = Tail(Queue(p))
         /\ \A o \in Partitions : o # p => Queue(o)' = Queue(o)
<1>1. /\ current[p] \in Seq(Records) /\ ready[p] \in Seq(Seq(Records))
      /\ Queue(p) \in Seq(Seq(Records))
  BY QueueType
<1>2. \A o \in Partitions : o # p => ready'[o] = ready[o] /\ current'[o] = current[o]
  BY DEF TypeOK
<1>3. \A o \in Partitions : o # p => Queue(o)' = Queue(o)
  BY <1>2 DEF Queue
<1>4. CASE seal
  <2>1. ready'[p] = Tail(Queue(p)) /\ current'[p] = <<>>
    BY <1>4 DEF TypeOK, PopReady
  <2> QED
    BY <1>3, <1>4, <2>1 DEF Queue, PopReady
<1>5. CASE ~seal
  <2>1. /\ ready'[p] = Tail(ready[p]) /\ current'[p] = current[p] /\ ready[p] # <<>>
        /\ PopReady(IF seal THEN Queue(p) ELSE ready[p]).batch = Head(ready[p])
    BY <1>5 DEF TypeOK, PopReady
  <2>2. CASE current[p] = <<>>
    BY <1>3, <2>1, <2>2 DEF Queue
  <2>3. CASE current[p] # <<>>
    <3>1. Queue(p) = Append(ready[p], current[p]) /\ Queue(p)' = Append(Tail(ready[p]), current[p])
      BY <2>1, <2>3 DEF Queue
    <3>2. /\ Head(Append(ready[p], current[p])) = Head(ready[p])
          /\ Tail(Append(ready[p], current[p])) = Append(Tail(ready[p]), current[p])
      <4>1. ready[p] # <<>>
        BY <2>1
      <4> QED
        BY ONLY <1>1, <4>1, AppendFront
    <3> QED
      BY <1>3, <2>1, <3>1, <3>2
  <2> QED
    BY <2>2, <2>3
<1> QED
  BY <1>4, <1>5

LEMMA DrainQueue ==
  ASSUME TypeOK, NEW p \in Partitions, DrainBatch(p)
  PROVE  /\ Queue(p)' = Tail(Queue(p))
         /\ \A o \in Partitions : o # p => Queue(o)' = Queue(o)
         /\ requests' = requests \cup
              {[batch |-> PrepareBatch(p, Head(Queue(p))), answer |-> "none"]}
         /\ next_seq' = [next_seq EXCEPT ![p] = @ + Len(Head(Queue(p)))]
<1>1. PICK seal \in BOOLEAN :
        LET popped == PopReady(IF seal THEN Queue(p) ELSE ready[p]) IN
        /\ ready[p] = <<>> => seal
        /\ ready' = [ready EXCEPT ![p] = popped.rest]
        /\ current' = IF seal THEN [current EXCEPT ![p] = <<>>] ELSE current
        /\ requests' = requests \cup
             {[batch |-> PrepareBatch(p, popped.batch), answer |-> "none"]}
        /\ next_seq' = [next_seq EXCEPT ![p] = @ + Len(popped.batch)]
  BY DEF DrainBatch
<1> DEFINE popped == PopReady(IF seal THEN Queue(p) ELSE ready[p])
<1>2. /\ popped.batch = Head(Queue(p))
      /\ Queue(p)' = Tail(Queue(p))
      /\ \A o \in Partitions : o # p => Queue(o)' = Queue(o)
  BY <1>1, PopQueue DEF DrainBatch
<1>3. /\ requests' = requests \cup
             {[batch |-> PrepareBatch(p, popped.batch), answer |-> "none"]}
      /\ next_seq' = [next_seq EXCEPT ![p] = @ + Len(popped.batch)]
  BY <1>1
<1> HIDE DEF popped
<1> QED
  BY <1>2, <1>3

LEMMA ExpireQueue ==
  ASSUME TypeOK, NEW p \in Partitions, TakeExpired(p)
  PROVE  /\ Queue(p)' = Tail(Queue(p))
         /\ \A o \in Partitions : o # p => Queue(o)' = Queue(o)
<1>1. /\ current[p] \in Seq(Records) /\ ready[p] \in Seq(Seq(Records))
  BY QueueType
<1>2. \A o \in Partitions : o # p => Queue(o)' = Queue(o)
  <2>1. \A o \in Partitions : o # p => ready'[o] = ready[o] /\ current'[o] = current[o]
    BY DEF TypeOK, TakeExpired
  <2> QED
    BY <2>1 DEF Queue
<1>3. CASE ready[p] = <<>>
  <2>1. /\ current'[p] = <<>> /\ ready'[p] = <<>>
        /\ Queue(p) = Append(<<>>, current[p]) /\ Queue(p)' = <<>>
    BY <1>3 DEF TypeOK, TakeExpired, Queue
  <2>2. <<>> \in Seq(Seq(Records))
    BY EmptySeq
  <2> QED
    BY <1>1, <1>2, <2>1, <2>2, AppendFront
<1>4. CASE ready[p] # <<>>
  <2>1. ready'[p] = Tail(ready[p]) /\ current'[p] = current[p]
    BY <1>4 DEF TypeOK, TakeExpired
  <2>2. CASE current[p] = <<>>
    BY <1>2, <2>1, <2>2 DEF Queue
  <2>3. CASE current[p] # <<>>
    <3>1. Queue(p) = Append(ready[p], current[p]) /\ Queue(p)' = Append(Tail(ready[p]), current[p])
      BY <2>1, <2>3 DEF Queue
    <3> QED
      BY <1>1, <1>2, <1>4, <3>1, AppendFront
  <2> QED
    BY <2>2, <2>3
<1> QED
  BY <1>3, <1>4

\* A send that seals a full batch changes nothing of the queue.
LEMMA SealQueue ==
  ASSUME TypeOK, NEW p \in Partitions, EnqueueSeal(p)
  PROVE  \A o \in Partitions : Queue(o)' = Queue(o)
<1>1. current[p] # <<>>
  BY ConstantsAssumption DEF EnqueueSeal
<1>2. current'[p] = <<>> /\ ready'[p] = Append(ready[p], current[p])
  BY DEF EnqueueSeal, TypeOK
<1>3. \A o \in Partitions : o # p => ready'[o] = ready[o] /\ current'[o] = current[o]
  BY DEF EnqueueSeal, TypeOK
<1> QED
  BY <1>1, <1>2, <1>3 DEF Queue

\* append puts the record into a new batch at the end of the queue, or at the
\* end of its last batch.
LEMMA AppendQueue ==
  ASSUME TypeOK, NEW p \in Partitions, EnqueueAppend(p)
  PROVE  /\ \A o \in Partitions : o # p => Queue(o)' = Queue(o)
         /\ \/ Queue(p)' = Append(Queue(p), <<appended + 1>>)
            \/ /\ current[p] # <<>> /\ Len(current[p]) # BatchMax
               /\ Queue(p) = Append(ready[p], current[p])
               /\ Queue(p)' = Append(ready[p], Append(current[p], appended + 1))
<1>1. /\ current[p] \in Seq(Records) /\ ready[p] \in Seq(Seq(Records))
  BY QueueType
<1>2. \A o \in Partitions : o # p => Queue(o)' = Queue(o)
  <2>1. \A o \in Partitions : o # p => ready'[o] = ready[o] /\ current'[o] = current[o]
    BY DEF TypeOK, EnqueueAppend
  <2> QED
    BY <2>1 DEF Queue
<1>3. CASE Len(current[p]) = BatchMax
  <2>1. current[p] # <<>>
    BY <1>3, ConstantsAssumption
  <2>2. ready'[p] = Append(ready[p], current[p]) /\ current'[p] = <<appended + 1>>
    BY <1>3 DEF TypeOK, EnqueueAppend
  <2> QED
    BY <1>2, <2>1, <2>2 DEF Queue
<1>4. CASE Len(current[p]) # BatchMax
  <2>1. ready'[p] = ready[p] /\ current'[p] = Append(current[p], appended + 1)
    BY <1>4 DEF TypeOK, EnqueueAppend
  <2>2. current'[p] # <<>>
    BY <1>1, <2>1
  <2>3. CASE current[p] = <<>>
    <3>1. Append(current[p], appended + 1) = <<appended + 1>>
      BY <2>3
    <3> QED
      BY <1>2, <2>1, <2>2, <2>3, <3>1 DEF Queue
  <2>4. CASE current[p] # <<>>
    BY <1>2, <1>4, <2>1, <2>2, <2>4 DEF Queue
  <2> QED
    BY <2>3, <2>4
<1> QED
  BY <1>3, <1>4

-----------------------------------------------------------------------------
(* The wake-up of flush.  A fatal answer is left out: the fence that it      *)
(* starts empties the accumulators and wakes nobody (README, Disagreements). *)

\* No leader answers with a code that stops the producer.
NoFatal == Mode = "Plain" \/ "FATAL" \notin FaultCodes

\* No request was answered with a code that stops the producer.
NoFatalAnswer == \A q \in requests : Mode = "Plain" \/ q.answer # "FATAL"

\* Only a closed producer sweeps its accumulators, and then no flush runs.
SweepsAfterClose ==
  /\ state = "active" \/ stopping
  /\ sweep # {} => stopping
  /\ stopping => flush_pc = "idle"

\* A flush that sleeps has something to wait for: a batch that leaves an
\* accumulator counts as in flight before it is gone, or it was taken by an
\* expiry, which will wake the flush.
SleepsForSomething ==
  flush_pc = "wait" /\ ~flush_signal =>
    in_flight > 0 \/ taken # {} \/ \E p \in Partitions : Queue(p) # <<>>

Wakeup == NoFatalAnswer /\ SweepsAfterClose /\ SleepsForSomething

LEMMA NoFatalVerdict ==
  ASSUME NoFatalAnswer, NEW q \in requests
  PROVE  Verdict(q) # "Fatal"
BY DEF NoFatalAnswer, Verdict, VerdictWithRetries, ClassifyVerdict, Resends

LEMMA LeaderNotFatal ==
  ASSUME NEW s, NEW b, NEW max
  PROVE  LeaderCode(s, b, max) # "FATAL"
BY DEF LeaderCode

\* finish_in_flight: the call that reaches zero wakes a flush that waits.
LEMMA FinishWakes ==
  ASSUME TypeOK, SleepsForSomething, NEW n \in Nat, FinishInFlight(n), in_flight' \in Nat, taken' = taken,
         \A p \in Partitions : Queue(p) # <<>> => Queue(p)' # <<>>
  PROVE  SleepsForSomething'
<1>1. /\ in_flight' = in_flight - n /\ UNCHANGED flush_pc
      /\ flush_signal' = (flush_signal \/ (n > 0 /\ in_flight = n /\ flush_pc # "idle"))
  BY DEF FinishInFlight, NotifyWaiters
<1>2. CASE in_flight' > 0
  BY <1>2 DEF SleepsForSomething
<1>3. CASE ~(in_flight' > 0) /\ n = 0
  BY <1>1, <1>3 DEF SleepsForSomething, TypeOK
<1>4. CASE ~(in_flight' > 0) /\ n > 0
  <2>1. in_flight = n
    BY <1>1, <1>4 DEF TypeOK
  <2> QED
    BY <1>1, <1>4, <2>1 DEF SleepsForSomething
<1> QED
  BY <1>2, <1>3, <1>4

LEMMA WakeupInit == Init => Wakeup
BY DEF Init, Wakeup, NoFatalAnswer, SweepsAfterClose, SleepsForSomething

LEMMA WakeupApplication ==
  ASSUME Inv, Wakeup, Application
  PROVE  Wakeup'
<1> USE DEF accVars, senderVars, lifeVars, flushVars, brokerVars
<1>1. NoFatalAnswer'
  BY DEF Wakeup, NoFatalAnswer, Application, EnqueueSeal, EnqueueLock, EnqueueAppend,
         FlushStart, FlushLoad, FlushWake, FlushTimeout, FlushScan, Close, DropProducer
<1>2. SweepsAfterClose'
  <2>1. CASE \E p \in Partitions : EnqueueSeal(p) \/ EnqueueLock(p) \/ EnqueueAppend(p)
    BY <2>1 DEF Wakeup, SweepsAfterClose, EnqueueSeal, EnqueueLock, EnqueueAppend
  <2>2. CASE FlushStart \/ FlushTimeout \/ Close \/ DropProducer
    BY <2>2 DEF Wakeup, SweepsAfterClose, FlushStart, FlushTimeout, Close, DropProducer
  <2>3. CASE FlushLoad \/ FlushWake \/ \E p \in Partitions : FlushScan(p)
    BY <2>3 DEF Wakeup, SweepsAfterClose, FlushLoad, FlushWake, FlushScan
  <2> QED
    BY <2>1, <2>2, <2>3 DEF Application
<1>3. SleepsForSomething'
  <2>1. ASSUME NEW p \in Partitions, EnqueueSeal(p) \/ EnqueueLock(p) \/ EnqueueAppend(p)
        PROVE  SleepsForSomething'
    <3>1. \A o \in Partitions : Queue(o) # <<>> => Queue(o)' # <<>>
      <4>1. CASE EnqueueSeal(p)
        BY <4>1, SealQueue DEF Inv
      <4>2. CASE EnqueueLock(p)
        BY <4>2 DEF Queue, EnqueueLock
      <4>3. CASE EnqueueAppend(p)
        <5>1. \A o \in Partitions : o # p => Queue(o)' = Queue(o)
          BY <4>3, AppendQueue DEF Inv
        <5>2. Queue(p)' # <<>>
          <6>1. current[p] \in Seq(Records) /\ ready[p] \in Seq(Seq(Records))
                /\ Queue(p) \in Seq(Seq(Records)) /\ appended + 1 \in Records
            BY <4>3, QueueType, ConstantsAssumption
               DEF Inv, AppendPending, TypeOK, EnqueueAppend, Records
          <6>2. <<appended + 1>> \in Seq(Records) /\ Append(current[p], appended + 1) \in Seq(Records)
            BY <6>1
          <6> QED
            BY <4>3, <6>1, <6>2, AppendQueue, AppendFront DEF Inv
        <5> QED
          BY <5>1, <5>2
      <4> QED
        BY <2>1, <4>1, <4>2, <4>3
    <3>2. UNCHANGED <<flush_pc, flush_signal, in_flight, taken>>
      BY <2>1 DEF EnqueueSeal, EnqueueLock, EnqueueAppend
    <3> QED
      BY <3>1, <3>2 DEF Wakeup, SleepsForSomething
  <2>2. CASE FlushStart \/ FlushWake \/ FlushTimeout
    BY <2>2 DEF FlushStart, FlushWake, FlushTimeout, SleepsForSomething
  <2>3. CASE FlushLoad
    BY <2>3 DEF FlushLoad, SleepsForSomething, Inv, TypeOK
  <2>4. ASSUME NEW p \in Partitions, FlushScan(p)
        PROVE  SleepsForSomething'
    <3>1. Queue(p)' = Queue(p) /\ (flush_pc' = "wait" => Queue(p) # <<>>)
      BY <2>4 DEF FlushScan, Queue
    <3> QED
      BY <3>1 DEF SleepsForSomething
  <2>5. CASE Close \/ DropProducer
    BY <2>5 DEF Close, DropProducer, SleepsForSomething
  <2> QED
    BY <2>1, <2>2, <2>3, <2>4, <2>5 DEF Application
<1> QED
  BY <1>1, <1>2, <1>3 DEF Wakeup

LEMMA WakeupSender ==
  ASSUME Inv, Inv', Wakeup, Sender
  PROVE  Wakeup'
<1> USE DEF accVars, senderVars, lifeVars, flushVars, brokerVars
<1>1. ASSUME AllocateProducerId \/ SenderExit
      PROVE  Wakeup'
  BY <1>1 DEF AllocateProducerId, SenderExit, Wakeup, NoFatalAnswer, SweepsAfterClose,
              SleepsForSomething, Queue
<1>2. ASSUME NEW p \in Partitions, DrainBatch(p)
      PROVE  Wakeup'
  <2>1. NoFatalAnswer'
    BY <1>2, DrainQueue DEF Inv, Wakeup, NoFatalAnswer
  <2>2. in_flight' > 0
    BY <1>2 DEF DrainBatch, Inv, TypeOK
  <2> QED
    BY <1>2, <2>1, <2>2 DEF DrainBatch, Wakeup, SweepsAfterClose, SleepsForSomething
<1>3. ASSUME NEW p \in Partitions, Resend(p)
      PROVE  Wakeup'
  BY <1>3 DEF Resend, Resent, Wakeup, NoFatalAnswer, SweepsAfterClose, SleepsForSomething, Queue
<1>4. ASSUME NEW p \in Partitions, TakeExpired(p)
      PROVE  Wakeup'
  BY <1>4 DEF TakeExpired, Wakeup, NoFatalAnswer, SweepsAfterClose, SleepsForSomething
<1>10. ASSUME FailExpired
       PROVE  Wakeup'
  <2>1. flush_pc' = "wait" => flush_signal'
    BY <1>10 DEF FailExpired, NotifyWaiters
  <2> QED
    BY <1>10, <2>1 DEF FailExpired, Wakeup, NoFatalAnswer, SweepsAfterClose, SleepsForSomething
<1>5. ASSUME NEW expired \in SUBSET RetryPartitions, ExpireBatches(expired)
      PROVE  Wakeup'
  <2>1. Cardinality(expired) \in Nat
    BY RetryFinite, FS_Subset, FS_CardinalityType
  <2>2. \A p \in Partitions : Queue(p)' = Queue(p)
    BY <1>5 DEF ExpireBatches, Queue
  <2>3. SleepsForSomething'
    BY <1>5, <2>1, <2>2, FinishWakes DEF Inv, TypeOK, Wakeup, ExpireBatches
  <2> QED
    BY <1>5, <2>3 DEF ExpireBatches, FinishInFlight, Wakeup, NoFatalAnswer, SweepsAfterClose
<1>6. ASSUME NEW done \in SUBSET Answered, CompleteBatches(done)
      PROVE  Wakeup'
  <2>1. Cardinality({q \in done : Verdict(q) \in Releasing}) \in Nat
    <3>1. {q \in done : Verdict(q) \in Releasing} \subseteq requests
      BY DEF Answered
    <3> QED
      BY <3>1, FS_Subset, FS_CardinalityType DEF Inv, Pipeline
  <2>2. \A p \in Partitions : Queue(p) # <<>> => Queue(p)' # <<>>
    <3> TAKE p \in Partitions
    <3>1. current'[p] = current[p] /\ ready[p] \in Seq(Seq(Records)) /\ ready'[p] \in Seq(Seq(Records))
      BY <1>6 DEF CompleteBatches, Inv, TypeOK
    <3>2. ready[p] # <<>> => ready'[p] # <<>>
      <4>1. CASE p \notin PartitionsWith(done, {"Split"})
        BY <1>6, <4>1 DEF CompleteBatches
      <4>2. CASE p \in PartitionsWith(done, {"Split"})
        <5>1. ready'[p] = Halves(BatchAt(done, p).recs) \o ready[p]
          BY <1>6, <4>2 DEF CompleteBatches
        <5> DEFINE h == Halves(BatchAt(done, p).recs)
        <5>2. h \in Seq(Seq(Records))
          <6>1. done \in SUBSET requests /\ p \in {q.batch.part : q \in done}
            BY <4>2 DEF Answered, PartitionsWith
          <6> QED
            BY <6>1, BatchAtType, HalvesType DEF Inv, PreparedBatches
        <5> HIDE DEF h
        <5>3. h \o ready[p] \in Seq(Seq(Records)) /\ Len(h \o ready[p]) = Len(h) + Len(ready[p])
          BY <3>1, <5>2, ConcatProperties
        <5>4. ready'[p] = h \o ready[p]
          BY <5>1 DEF h
        <5> QED
          BY <3>1, <5>2, <5>3, <5>4, LenProperties, EmptySeq
      <4> QED
        BY <4>1, <4>2
    <3>3. current[p] \in Seq(Records)
      BY DEF Inv, TypeOK
    <3>4. CASE current[p] = <<>>
      BY <3>1, <3>2, <3>4 DEF Queue
    <3>5. CASE current[p] # <<>>
      <4>1. Append(ready'[p], current[p]) # <<>>
        BY <3>1, <3>3, AppendFront
      <4> QED
        BY <3>1, <3>5, <4>1 DEF Queue
    <3> QED
      BY <3>4, <3>5
  <2>3. SleepsForSomething'
    BY <1>6, <2>1, <2>2, FinishWakes DEF Inv, TypeOK, Wakeup, CompleteBatches
  <2> QED
    BY <1>6, <2>3 DEF CompleteBatches, FinishInFlight, Wakeup, NoFatalAnswer, SweepsAfterClose
<1>7. ASSUME NEW done \in SUBSET Answered, CompleteFatal(done)
      PROVE  FALSE
  BY <1>7, NoFatalVerdict DEF Wakeup, CompleteFatal, PartitionsWith, Answered
<1>8. ASSUME DrainFence
      PROVE  Wakeup'
  <2>1. stopping /\ flush_pc = "idle"
    BY <1>8 DEF DrainFence, Wakeup, SweepsAfterClose
  <2>2. UNCHANGED <<stopping, flush_pc>> /\ requests' = requests
    BY <1>8 DEF DrainFence, Fence, FinishInFlight
  <2> QED
    BY <2>1, <2>2 DEF Wakeup, NoFatalAnswer, SweepsAfterClose, SleepsForSomething
<1>9. ASSUME NEW p \in sweep, FenceAccumulator(p)
      PROVE  Wakeup'
  <2>1. stopping /\ flush_pc = "idle"
    BY <1>9 DEF Wakeup, SweepsAfterClose
  <2> QED
    BY <1>9, <2>1 DEF FenceAccumulator, Wakeup, NoFatalAnswer, SweepsAfterClose, SleepsForSomething
<1> QED
  BY <1>1, <1>2, <1>3, <1>4, <1>5, <1>6, <1>7, <1>8, <1>9, <1>10 DEF Sender

LEMMA WakeupNetwork ==
  ASSUME NoFatal, Inv, Wakeup, Network
  PROVE  Wakeup'
<1> USE DEF accVars, senderVars, lifeVars, flushVars, brokerVars
<1>1. ASSUME NEW q \in requests, NEW code, code # "FATAL" \/ Mode = "Plain",
             requests' = Answer(q, code)
      PROVE  NoFatalAnswer'
  <2>1. [q EXCEPT !.answer = code].answer = code
    BY DEF Inv, TypeOK
  <2> QED
    BY <1>1, <2>1 DEF Wakeup, NoFatalAnswer, Answer
<1>2. NoFatalAnswer'
  <2>1. ASSUME NEW q \in requests, LeaderAnswers(q)
        PROVE  NoFatalAnswer'
    BY <1>1, <2>1, LeaderNotFatal DEF LeaderAnswers, CodeFor
  <2>2. ASSUME NEW q \in requests, LeaderAppendsAndFails(q) \/ TransportFails(q)
        PROVE  NoFatalAnswer'
    BY <1>1, <2>2 DEF LeaderAppendsAndFails, TransportFails
  <2>3. ASSUME NEW q \in requests, NEW code \in FaultCodes, LeaderRefuses(q, code)
        PROVE  NoFatalAnswer'
    BY <1>1, <2>3 DEF LeaderRefuses, NoFatal
  <2>4. CASE (\E b \in stray : StrayArrives(b)) \/ \E p \in Partitions : LeaderForgets(p)
    BY <2>4 DEF StrayArrives, LeaderForgets, Wakeup, NoFatalAnswer
  <2> QED
    BY <2>1, <2>2, <2>3, <2>4 DEF Network
<1>3. UNCHANGED <<current, ready, taken, state, sweep, stopping, flush_pc, flush_signal, in_flight>>
  BY DEF Network, LeaderAnswers, LeaderAppendsAndFails, TransportFails, LeaderRefuses,
         StrayArrives, LeaderForgets
<1> QED
  BY <1>2, <1>3 DEF Wakeup, SweepsAfterClose, SleepsForSomething, Queue

LEMMA WakeupStep == NoFatal /\ Inv /\ Inv' /\ Wakeup /\ [Next]_vars => Wakeup'
<1> SUFFICES ASSUME NoFatal, Inv, Inv', Wakeup, [Next]_vars PROVE Wakeup'
  OBVIOUS
<1>1. CASE UNCHANGED vars
  BY <1>1 DEF vars, accVars, senderVars, lifeVars, flushVars, brokerVars, Wakeup,
              NoFatalAnswer, SweepsAfterClose, SleepsForSomething, Queue
<1> QED
  BY <1>1, WakeupApplication, WakeupSender, WakeupNetwork DEF Next, Terminated

\* Without fatal answers a flush never sleeps past its wake-up: while it waits
\* unsignalled, a batch is in flight or in an accumulator.  The drain raises
\* in_flight before the accumulator is unlocked, finish_in_flight wakes the
\* flush when it reaches zero, and expiry in an accumulator wakes it as well.
THEOREM FlushAlwaysWoken == NoFatal => (Spec => []NoLostWakeup)
<1>1. Wakeup => NoLostWakeup
  BY DEF Wakeup, SleepsForSomething, NoLostWakeup
<1> SUFFICES ASSUME NoFatal PROVE Spec => []NoLostWakeup
  OBVIOUS
<1>2. Inv /\ Inv' /\ Wakeup /\ [Next]_vars => Wakeup'
  BY WakeupStep
<1> QED
  BY <1>1, <1>2, WakeupInit, Invariance, PTL DEF Spec

-----------------------------------------------------------------------------
(* What flush promises.  A split is left out: it puts the halves of a batch  *)
(* back behind a scan that has passed (README, Disagreements).               *)

\* Every leader takes a batch of batch.size.
NoSplit == \A p \in Partitions : BatchMax <= BrokerMax[p]

RecordsIn(queue) == UNION {Elems(b) : b \in Elems(queue)}

\* No batch is larger than batch.size, so none is refused for its size.
SmallBatches ==
  /\ \A p \in Partitions : \A i \in 1..Len(Queue(p)) : Len(Queue(p)[i]) <= BatchMax
  /\ \A b \in Outstanding : Len(b.recs) <= BatchMax

NoneTooLarge == \A q \in requests : q.answer # "MESSAGE_TOO_LARGE"

Unsplit == SmallBatches /\ NoneTooLarge

LEMMA NoSplitVerdict ==
  ASSUME NoneTooLarge, NEW q \in requests
  PROVE  Verdict(q) # "Split"
BY DEF NoneTooLarge, Verdict, VerdictWithRetries, ClassifyVerdict, Resends

LEMMA ElemsInterval ==
  ASSUME NEW S, NEW s \in Seq(S)
  PROVE  Elems(s) = {s[i] : i \in 1..Len(s)} /\ Elems(s) \subseteq S
<1>1. DOMAIN s = 1..Len(s) /\ \A i \in 1..Len(s) : s[i] \in S
  BY LenProperties, ElementOfSeq
<1> QED
  BY <1>1 DEF Elems

LEMMA ElemsAppend ==
  ASSUME NEW S, NEW s \in Seq(S), NEW x \in S
  PROVE  Elems(Append(s, x)) = Elems(s) \cup {x}
<1>1. /\ Append(s, x) \in Seq(S) /\ Len(Append(s, x)) = Len(s) + 1 /\ Len(s) \in Nat
      /\ \A i \in 1..Len(s) : Append(s, x)[i] = s[i]
      /\ Append(s, x)[Len(s) + 1] = x
  BY AppendProperties, LenProperties
<1>2. /\ Elems(Append(s, x)) = {Append(s, x)[i] : i \in 1..(Len(s) + 1)}
      /\ Elems(s) = {s[i] : i \in 1..Len(s)}
  BY <1>1, ElemsInterval
<1>3. 1..(Len(s) + 1) = (1..Len(s)) \cup {Len(s) + 1}
  BY <1>1
<1> QED
  BY <1>1, <1>2, <1>3

LEMMA ElemsHeadTail ==
  ASSUME NEW S, NEW s \in Seq(S), s # <<>>
  PROVE  Elems(s) = {Head(s)} \cup Elems(Tail(s))
<1>1. /\ Len(s) \in Nat \ {0} /\ Head(s) = s[1] /\ Tail(s) \in Seq(S)
      /\ Len(Tail(s)) = Len(s) - 1
      /\ \A i \in 1..Len(Tail(s)) : Tail(s)[i] = s[i + 1]
  BY HeadTailProperties, EmptySeq, LenProperties
<1>2. /\ Elems(s) = {s[i] : i \in 1..Len(s)}
      /\ Elems(Tail(s)) = {Tail(s)[i] : i \in 1..(Len(s) - 1)}
  BY <1>1, ElemsInterval
<1>3. Elems(Tail(s)) = {s[i + 1] : i \in 1..(Len(s) - 1)}
  BY <1>1, <1>2
<1>4. \A i \in 1..Len(s) : i = 1 \/ (i - 1 \in 1..(Len(s) - 1) /\ s[i] = s[(i - 1) + 1])
  BY <1>1
<1>5. Elems(s) \subseteq {Head(s)} \cup Elems(Tail(s))
  BY <1>1, <1>2, <1>3, <1>4
<1>6. {Head(s)} \cup Elems(Tail(s)) \subseteq Elems(s)
  <2>1. 1 \in 1..Len(s) /\ \A i \in 1..(Len(s) - 1) : i + 1 \in 1..Len(s)
    BY <1>1
  <2> QED
    BY <1>1, <1>2, <1>3, <2>1
<1> QED
  BY <1>5, <1>6

LEMMA RecordsInAppend ==
  ASSUME NEW queue \in Seq(Seq(Records)), NEW b \in Seq(Records)
  PROVE  RecordsIn(Append(queue, b)) = RecordsIn(queue) \cup Elems(b)
<1>1. Elems(Append(queue, b)) = Elems(queue) \cup {b}
  BY ElemsAppend
<1> QED
  BY <1>1 DEF RecordsIn

LEMMA RecordsInPopped ==
  ASSUME NEW queue \in Seq(Seq(Records)), queue # <<>>
  PROVE  RecordsIn(queue) = Elems(Head(queue)) \cup RecordsIn(Tail(queue))
<1>1. Elems(queue) = {Head(queue)} \cup Elems(Tail(queue))
  BY ElemsHeadTail
<1> QED
  BY <1>1 DEF RecordsIn

LEMMA QueuedIsIn == \A p : QueuedRecords(p) = RecordsIn(Queue(p))
BY DEF QueuedRecords, RecordsIn

\* What an append adds to the queued records.
LEMMA AppendQueued ==
  ASSUME Inv, NEW p \in Partitions, EnqueueAppend(p)
  PROVE  /\ QueuedRecords(p)' = QueuedRecords(p) \cup {appended + 1}
         /\ appended + 1 \in Records
<1>1. /\ current[p] \in Seq(Records) /\ ready[p] \in Seq(Seq(Records))
      /\ Queue(p) \in Seq(Seq(Records)) /\ appended + 1 \in Records
  BY QueueType, ConstantsAssumption
     DEF Inv, AppendPending, TypeOK, EnqueueAppend, Records
<1>2. /\ <<appended + 1>> \in Seq(Records) /\ Append(current[p], appended + 1) \in Seq(Records)
      /\ Elems(<<appended + 1>>) = {appended + 1}
      /\ Elems(Append(current[p], appended + 1)) = Elems(current[p]) \cup {appended + 1}
  <2>1. <<appended + 1>> \in Seq(Records) /\ Append(current[p], appended + 1) \in Seq(Records)
    BY <1>1
  <2>2. Elems(<<appended + 1>>) = {appended + 1}
    <3>1. DOMAIN <<appended + 1>> = {1} /\ <<appended + 1>>[1] = appended + 1
      OBVIOUS
    <3> QED
      BY <3>1 DEF Elems
  <2>3. Elems(Append(current[p], appended + 1)) = Elems(current[p]) \cup {appended + 1}
    BY <1>1, ElemsAppend
  <2> QED
    BY <2>1, <2>2, <2>3
<1>3. CASE Queue(p)' = Append(Queue(p), <<appended + 1>>)
  <2>1. RecordsIn(Queue(p)') = RecordsIn(Queue(p)) \cup {appended + 1}
    BY <1>1, <1>2, <1>3, RecordsInAppend
  <2> QED
    BY <1>1, <2>1 DEF QueuedRecords, RecordsIn
<1>4. CASE /\ Queue(p) = Append(ready[p], current[p])
           /\ Queue(p)' = Append(ready[p], Append(current[p], appended + 1))
  <2>1. /\ RecordsIn(Queue(p)) = RecordsIn(ready[p]) \cup Elems(current[p])
        /\ RecordsIn(Queue(p)') = RecordsIn(ready[p]) \cup Elems(Append(current[p], appended + 1))
    BY <1>1, <1>2, <1>4, RecordsInAppend
  <2> QED
    BY <1>1, <1>2, <2>1 DEF QueuedRecords, RecordsIn
<1> QED
  BY <1>1, <1>3, <1>4, AppendQueue DEF Inv

\* The batches of the requests once batch b is sent.
LEMMA RequestAdded ==
  ASSUME NEW b, requests' = requests \cup {[batch |-> b, answer |-> "none"]}
  PROVE  {q.batch : q \in requests'} = {q.batch : q \in requests} \cup {b}
<1> DEFINE n == [batch |-> b, answer |-> "none"]
<1>1. n.batch = b /\ requests' = requests \cup {n}
  OBVIOUS
<1> HIDE DEF n
<1> QED
  BY <1>1

\* The outstanding batches after a step of the sender.
LEMMA DrainOutstanding ==
  ASSUME Inv, NEW p \in Partitions, DrainBatch(p)
  PROVE  Outstanding' = Outstanding \cup {PrepareBatch(p, Head(Queue(p)))}
<1>1. /\ requests' = requests \cup
           {[batch |-> PrepareBatch(p, Head(Queue(p))), answer |-> "none"]}
      /\ retry' = retry
  BY DrainQueue DEF Inv, DrainBatch
<1>2. RetryPartitions' = RetryPartitions
  BY <1>1 DEF RetryPartitions
<1>3. {q.batch : q \in requests'} =
        {q.batch : q \in requests} \cup {PrepareBatch(p, Head(Queue(p)))}
  BY <1>1, RequestAdded
<1> QED
  BY <1>1, <1>2, <1>3 DEF Outstanding

LEMMA ResendOutstanding ==
  ASSUME Inv, NEW p \in Partitions, Resend(p)
  PROVE  Outstanding' = Outstanding
<1>1. /\ requests' = requests \cup {[batch |-> retry[p], answer |-> "none"]}
      /\ retry' = [retry EXCEPT ![p] = NoBatch] /\ retry[p] # NoBatch
  BY DEF Resend, Resent
<1>2. RetryPartitions' = RetryPartitions \ {p} /\ p \in RetryPartitions
  BY <1>1 DEF RetryPartitions, Inv, TypeOK
<1>3. {q.batch : q \in requests'} = {q.batch : q \in requests} \cup {retry[p]}
  BY <1>1, RequestAdded
<1>4. \A o \in RetryPartitions' : retry'[o] = retry[o]
  BY <1>1, <1>2 DEF Inv, TypeOK, RetryPartitions
<1>5. {retry'[o] : o \in RetryPartitions'} \cup {retry[p]} = {retry[o] : o \in RetryPartitions}
  BY <1>2, <1>4
<1> QED
  BY <1>3, <1>5 DEF Outstanding

LEMMA AnswerOutstanding ==
  ASSUME Inv, NEW q \in requests, NEW code, requests' = Answer(q, code), retry' = retry
  PROVE  Outstanding' = Outstanding
<1>1. [q EXCEPT !.answer = code].batch = q.batch
  BY DEF Inv, TypeOK
<1>2. {r.batch : r \in requests'} = {r.batch : r \in requests}
  BY <1>1 DEF Answer
<1> QED
  BY <1>2 DEF Outstanding, RetryPartitions

LEMMA ExpireOutstanding ==
  ASSUME Inv, NEW expired \in SUBSET RetryPartitions, ExpireBatches(expired)
  PROVE  Outstanding' = {b \in Outstanding : b.part \notin expired}
<1>1. /\ retry' = [p \in Partitions |-> IF p \in expired THEN NoBatch ELSE retry[p]]
      /\ requests' = requests
  BY DEF ExpireBatches
<1>2. RetryPartitions' = RetryPartitions \ expired
  BY <1>1 DEF RetryPartitions
<1>3. \A q \in requests : q.batch.part \notin expired
  BY DEF Inv, Pipeline, OneBatchPerPartition, RequestedPartitions
<1>4. \A p \in RetryPartitions : retry[p].part = p
  BY DEF Inv, Pipeline, SlotsMatch, RetryPartitions
<1>5. \A p \in RetryPartitions' : retry'[p] = retry[p]
  BY <1>1, <1>2 DEF RetryPartitions
<1> QED
  BY <1>1, <1>2, <1>3, <1>4, <1>5 DEF Outstanding

LEMMA FenceOutstanding ==
  ASSUME NEW done, NEW acked, Fence(done, acked)
  PROVE  Outstanding' = {q.batch : q \in requests \ done}
<1>1. RetryPartitions' = {} /\ requests' = requests \ done
  BY DEF Fence, RetryPartitions
<1> QED
  BY <1>1 DEF Outstanding

\* An outstanding batch is known by its partition.
LEMMA OutstandingUnique ==
  ASSUME Inv
  PROVE  /\ \A b, c \in Outstanding : b.part = c.part => b = c
         /\ Outstanding \subseteq PreparedBatches
<1>1. \A p \in RetryPartitions : retry[p].part = p /\ retry[p] \in PreparedBatches /\ p \in Partitions
  BY DEF Inv, TypeOK, Pipeline, SlotsMatch, RetryPartitions
<1>2. /\ \A q, r \in requests : q.batch.part = r.batch.part => q.batch = r.batch
      /\ \A q \in requests : q.batch.part \notin RetryPartitions /\ q.batch \in PreparedBatches
  BY DEF Inv, TypeOK, Pipeline, OneBatchPerPartition, RequestedPartitions
<1> QED
  BY <1>1, <1>2 DEF Outstanding

LEMMA BatchAtIs ==
  ASSUME Inv, NEW done \in SUBSET requests, NEW q \in done
  PROVE  BatchAt(done, q.batch.part) = q.batch
<1> DEFINE c == CHOOSE r \in done : r.batch.part = q.batch.part
<1>1. c \in done /\ c.batch.part = q.batch.part
  OBVIOUS
<1>2. c = q
  BY <1>1 DEF Inv, Pipeline, OneBatchPerPartition
<1> QED
  BY <1>2 DEF BatchAt

LEMMA ParkedFields ==
  ASSUME NEW b \in PreparedBatches, NEW rewrite, NEW id
  PROVE  /\ Parked(b, rewrite, id).recs = b.recs
         /\ Parked(b, rewrite, id).part = b.part
         /\ rewrite /\ id.ok => /\ Parked(b, rewrite, id).pid = id.pid
                                /\ Parked(b, rewrite, id).epoch = id.epoch
                                /\ Parked(b, rewrite, id).seq = 0
         /\ ~(rewrite /\ id.ok) => /\ Parked(b, rewrite, id).pid = b.pid
                                   /\ Parked(b, rewrite, id).epoch = b.epoch
                                   /\ Parked(b, rewrite, id).seq = b.seq
<1>1. CASE rewrite /\ id.ok
  <2>1. Parked(b, rewrite, id) =
          [b EXCEPT !.used = @ + 1, !.pid = id.pid, !.epoch = id.epoch, !.seq = 0]
    BY <1>1 DEF Parked
  <2> QED
    BY <1>1, <2>1 DEF PreparedBatches
<1>2. CASE ~(rewrite /\ id.ok)
  <2>1. Parked(b, rewrite, id) = [b EXCEPT !.used = @ + 1]
    BY <1>2 DEF Parked
  <2> QED
    BY <1>2, <2>1 DEF PreparedBatches
<1> QED
  BY <1>1, <1>2

\* The requests of done that are sent again, and their batches in the slots.
Resending(done) == {q \in done : Verdict(q) \in {"Retry", "BumpEpochAndRetry"}}
Rewrites(q) == Verdict(q) = "BumpEpochAndRetry"
ParkedOf(done, id) == {Parked(q.batch, Rewrites(q), id) : q \in Resending(done)}
WantsBump(done) ==
  \E q \in done : Rewrites(q) \/ (Verdict(q) \in {"Terminal", "Exhausted"} /\ Mode = "Idempotent")

\* What complete_batches does when no batch is split: the parked batches take
\* the place of the requests, and a bump starts the sequences again.
LEMMA CompleteEffect ==
  ASSUME Inv, NoneTooLarge, NEW done \in SUBSET Answered, CompleteBatches(done)
  PROVE  /\ ready' = ready /\ current' = current
         /\ done \subseteq requests /\ requests' = requests \ done
         /\ \A q \in done : Verdict(q) \in {"Acked", "Terminal", "Exhausted", "Retry", "BumpEpochAndRetry"}
         /\ \E id \in IdentityAfter(WantsBump(done)) :
              /\ producer_id' = id.pid /\ producer_epoch' = id.epoch
              /\ Outstanding' = {b \in Outstanding : \A q \in done : q.batch.part # b.part}
                                  \cup ParkedOf(done, id)
              /\ ~id.ok => next_seq' = next_seq
              /\ id.ok => \A q \in done : Rewrites(q) => next_seq'[q.batch.part] = Len(q.batch.recs)
              /\ id.ok => \A p \in Partitions :
                   (\A q \in done : q.batch.part = p => ~Rewrites(q)) => next_seq'[p] = 0
<1> DEFINE with(vs) == PartitionsWith(done, vs)
           failed == {"Terminal", "Exhausted"}
           rewrites == with({"BumpEpochAndRetry"})
           bump == \/ rewrites # {}
                   \/ with(failed) # {} /\ RepairAfterFailure(Mode) = "BumpEpoch"
           parked == with({"Retry", "BumpEpochAndRetry"})
<1>1. done \subseteq requests /\ requests' = requests \ done /\ current' = current
  BY DEF CompleteBatches, Answered
<1>2. \A q \in done : Verdict(q) \in {"Acked", "Terminal", "Exhausted", "Retry", "BumpEpochAndRetry"}
  <2> TAKE q \in done
  <2>1. Verdict(q) \in Releasing \cup {"Retry", "BumpEpochAndRetry", "Fatal"}
    BY <1>1, VerdictCases DEF Inv
  <2>2. Verdict(q) # "Split"
    BY <1>1, NoSplitVerdict
  <2>3. Verdict(q) # "Fatal"
    <3>1. PartitionsWith(done, {"Fatal"}) = {}
      BY DEF CompleteBatches
    <3> QED
      BY <3>1 DEF PartitionsWith
  <2> QED
    BY <2>1, <2>2, <2>3 DEF Releasing
<1>3. with({"Split"}) = {}
  BY <1>2 DEF PartitionsWith
<1>4. ready' = ready
  <2>1. ready' = [p \in Partitions |-> ready[p]]
    BY <1>3 DEF CompleteBatches
  <2> QED
    BY <2>1 DEF Inv, TypeOK
<1>5. bump <=> WantsBump(done)
  <2>1. RepairAfterFailure(Mode) = "BumpEpoch" <=> Mode = "Idempotent"
    BY ConstantsAssumption DEF RepairAfterFailure
  <2>2. rewrites # {} <=> \E q \in done : Rewrites(q)
    BY DEF Rewrites, PartitionsWith
  <2>3. with(failed) # {} <=> \E q \in done : Verdict(q) \in failed
    BY DEF PartitionsWith
  <2> QED
    BY <2>1, <2>2, <2>3 DEF WantsBump
<1>6. bump \in BOOLEAN /\ WantsBump(done) \in BOOLEAN /\ bump = WantsBump(done)
  BY <1>5 DEF WantsBump
<1>7. PICK id \in IdentityAfter(bump) :
       /\ producer_id' = id.pid /\ producer_epoch' = id.epoch
       /\ next_seq' = [p \in Partitions |->
            IF p \in rewrites /\ id.ok THEN Len(BatchAt(done, p).recs)
            ELSE IF p \in with({"Split"}) /\ Mode # "Plain" /\ ~id.ok
                 THEN BatchAt(done, p).seq
            ELSE SequencesAfter(id)[p]]
       /\ retry' = [p \in Partitions |->
            IF p \in parked
            THEN Parked(BatchAt(done, p), p \in rewrites, id)
            ELSE retry[p]]
  BY DEF CompleteBatches
<1>8. id \in IdentityAfter(WantsBump(done))
  BY <1>6, <1>7
<1>9. id.pid \in Int /\ id.epoch \in Int
  BY <1>6, <1>7, IdentityType DEF Inv
<1>10. \A p \in Partitions : p \in rewrites <=> \E q \in done : q.batch.part = p /\ Rewrites(q)
  BY DEF PartitionsWith, Rewrites
<1>11. \A q \in done : /\ BatchAt(done, q.batch.part) = q.batch
                       /\ q.batch \in PreparedBatches /\ q.batch.part \in Partitions
  BY <1>1, BatchAtIs DEF Inv, TypeOK, PreparedBatches
<1>12. next_seq' = [p \in Partitions |->
         IF p \in rewrites /\ id.ok THEN Len(BatchAt(done, p).recs) ELSE SequencesAfter(id)[p]]
  BY <1>3, <1>7
<1>13. ~id.ok => next_seq' = next_seq
  BY <1>12 DEF SequencesAfter, Inv, TypeOK
<1>14. id.ok => \A q \in done : Rewrites(q) => next_seq'[q.batch.part] = Len(q.batch.recs)
  BY <1>10, <1>11, <1>12
<1>15. id.ok => \A p \in Partitions :
                  (\A q \in done : q.batch.part = p => ~Rewrites(q)) => next_seq'[p] = 0
  BY <1>10, <1>12 DEF SequencesAfter
<1>16. \A q \in done : q.batch.part \in rewrites <=> Rewrites(q)
  BY <1>1, <1>10, <1>11 DEF Inv, Pipeline, OneBatchPerPartition
<1>17. \A q \in Resending(done) : /\ retry'[q.batch.part] = Parked(q.batch, Rewrites(q), id)
                                  /\ q.batch.part \in parked
  <2> TAKE q \in Resending(done)
  <2>1. q \in done /\ q.batch.part \in parked /\ q.batch.part \in Partitions
    BY <1>11 DEF Resending, PartitionsWith
  <2>2. retry'[q.batch.part] =
          Parked(BatchAt(done, q.batch.part), q.batch.part \in rewrites, id)
    BY <1>7, <2>1
  <2>3. (q.batch.part \in rewrites) = Rewrites(q)
    BY <1>16, <2>1 DEF Rewrites
  <2> QED
    BY <1>11, <2>1, <2>2, <2>3
<1>18. \A p \in parked : \E q \in Resending(done) : q.batch.part = p
  BY DEF PartitionsWith, Resending
<1>19. \A p \in Partitions : p \notin parked => retry'[p] = retry[p]
  BY <1>7
<1>20. \A q \in Resending(done) : retry'[q.batch.part] # NoBatch /\ q.batch.part \in Partitions
  BY <1>9, <1>11, <1>17, ParkedType, NoBatchAssumption DEF Resending
<1>21. RetryPartitions' = RetryPartitions \cup parked
  BY <1>17, <1>18, <1>19, <1>20 DEF RetryPartitions
<1>22. \A p \in RetryPartitions : p \notin parked /\ \A q \in done : q.batch.part # retry[p].part
  BY <1>1, <1>18
     DEF Inv, Pipeline, OneBatchPerPartition, RequestedPartitions, SlotsMatch,
         RetryPartitions, Resending
<1>23. {retry'[p] : p \in RetryPartitions'} = {retry[p] : p \in RetryPartitions} \cup ParkedOf(done, id)
  <2>1. {retry'[p] : p \in RetryPartitions} = {retry[p] : p \in RetryPartitions}
    BY <1>19, <1>22 DEF RetryPartitions
  <2>2. {retry'[p] : p \in parked} = ParkedOf(done, id)
    BY <1>17, <1>18 DEF ParkedOf
  <2> QED
    BY <1>21, <2>1, <2>2
<1>24. {q.batch : q \in requests'} = {b \in {q.batch : q \in requests} : \A q \in done : q.batch.part # b.part}
  BY <1>1 DEF Inv, Pipeline, OneBatchPerPartition
<1>25. Outstanding' = {b \in Outstanding : \A q \in done : q.batch.part # b.part}
                        \cup ParkedOf(done, id)
  BY <1>22, <1>23, <1>24 DEF Outstanding
<1> QED
  BY <1>1, <1>2, <1>4, <1>7, <1>8, <1>13, <1>14, <1>15, <1>25

LEMMA UnsplitInit == Init => Unsplit
<1> SUFFICES ASSUME Init PROVE Unsplit
  OBVIOUS
<1>1. \A p \in Partitions : Queue(p) = <<>>
  BY DEF Init, Queue
<1>2. Outstanding = {}
  BY DEF Init, Outstanding, RetryPartitions
<1>3. Len(<<>>) = 0
  OBVIOUS
<1> QED
  BY <1>1, <1>2, <1>3 DEF Init, Unsplit, SmallBatches, NoneTooLarge

\* The length of the batches of a queue that is popped or appended to.
LEMMA SmallTail ==
  ASSUME NEW queue \in Seq(Seq(Records)), queue # <<>>,
         \A i \in 1..Len(queue) : Len(queue[i]) <= BatchMax
  PROVE  /\ Len(Head(queue)) <= BatchMax
         /\ \A i \in 1..Len(Tail(queue)) : Len(Tail(queue)[i]) <= BatchMax
<1>1. /\ Len(queue) \in Nat \ {0} /\ Head(queue) = queue[1]
      /\ Len(Tail(queue)) = Len(queue) - 1
      /\ \A i \in 1..Len(Tail(queue)) : Tail(queue)[i] = queue[i + 1]
  BY HeadTailProperties, EmptySeq, LenProperties
<1> QED
  BY <1>1

LEMMA SmallAppend ==
  ASSUME NEW queue \in Seq(Seq(Records)), NEW b \in Seq(Records)
  PROVE  (\A i \in 1..Len(Append(queue, b)) : Len(Append(queue, b)[i]) <= BatchMax)
           <=> /\ \A i \in 1..Len(queue) : Len(queue[i]) <= BatchMax
               /\ Len(b) <= BatchMax
<1>1. /\ Len(Append(queue, b)) = Len(queue) + 1 /\ Len(queue) \in Nat
      /\ \A i \in 1..Len(queue) : Append(queue, b)[i] = queue[i]
      /\ Append(queue, b)[Len(queue) + 1] = b
  BY AppendProperties, LenProperties
<1>2. 1..(Len(queue) + 1) = (1..Len(queue)) \cup {Len(queue) + 1}
  BY <1>1
<1> QED
  BY <1>1, <1>2

LEMMA UnsplitUnchanged ==
  ASSUME Unsplit, UNCHANGED <<current, ready, requests, retry>>
  PROVE  Unsplit'
BY DEF Unsplit, SmallBatches, NoneTooLarge, Queue, Outstanding, RetryPartitions

LEMMA UnsplitApplication ==
  ASSUME Inv, Unsplit, Application
  PROVE  Unsplit'
<1> USE DEF accVars, senderVars, lifeVars, flushVars, brokerVars
<1>1. UNCHANGED <<requests, retry>>
  BY DEF Application, EnqueueSeal, EnqueueLock, EnqueueAppend, FlushStart, FlushLoad,
         FlushWake, FlushTimeout, FlushScan, Close, DropProducer
<1>2. SUFFICES \A p \in Partitions : \A i \in 1..Len(Queue(p)') : Len(Queue(p)'[i]) <= BatchMax
  BY <1>1 DEF Unsplit, SmallBatches, NoneTooLarge, Outstanding, RetryPartitions
<1>3. ASSUME NEW p \in Partitions, EnqueueSeal(p)
      PROVE  \A o \in Partitions : Queue(o)' = Queue(o)
  BY <1>3, SealQueue DEF Inv
<1>4. ASSUME NEW p \in Partitions, EnqueueAppend(p)
      PROVE  \A o \in Partitions : \A i \in 1..Len(Queue(o)') : Len(Queue(o)'[i]) <= BatchMax
  <2>1. \A o \in Partitions : o # p => Queue(o)' = Queue(o)
    BY <1>4, AppendQueue DEF Inv
  <2>2. /\ current[p] \in Seq(Records) /\ ready[p] \in Seq(Seq(Records))
        /\ Queue(p) \in Seq(Seq(Records)) /\ appended + 1 \in Records
    BY <1>4, QueueType, AppendQueued DEF Inv
  <2>3. /\ <<appended + 1>> \in Seq(Records) /\ Append(current[p], appended + 1) \in Seq(Records)
        /\ Len(<<appended + 1>>) = 1
        /\ Len(Append(current[p], appended + 1)) = Len(current[p]) + 1 /\ Len(current[p]) \in Nat
    BY <2>2
  <2>4. \A i \in 1..Len(Queue(p)) : Len(Queue(p)[i]) <= BatchMax
    BY DEF Unsplit, SmallBatches
  <2>5. CASE Queue(p)' = Append(Queue(p), <<appended + 1>>)
    <3>1. Len(<<appended + 1>>) <= BatchMax
      BY <2>3, ConstantsAssumption
    <3>2. \A i \in 1..Len(Queue(p)') : Len(Queue(p)'[i]) <= BatchMax
      BY <2>2, <2>3, <2>4, <2>5, <3>1, SmallAppend
    <3> QED
      BY <2>1, <3>2 DEF Unsplit, SmallBatches
  <2>6. CASE /\ Len(current[p]) # BatchMax
             /\ Queue(p) = Append(ready[p], current[p])
             /\ Queue(p)' = Append(ready[p], Append(current[p], appended + 1))
    <3>1. /\ \A i \in 1..Len(ready[p]) : Len(ready[p][i]) <= BatchMax
          /\ Len(current[p]) <= BatchMax
      BY <2>2, <2>4, <2>6, SmallAppend
    <3>2. Len(Append(current[p], appended + 1)) <= BatchMax
      BY <2>3, <2>6, <3>1, ConstantsAssumption
    <3>3. \A i \in 1..Len(Queue(p)') : Len(Queue(p)'[i]) <= BatchMax
      BY <2>2, <2>3, <2>6, <3>1, <3>2, SmallAppend
    <3> QED
      BY <2>1, <3>3 DEF Unsplit, SmallBatches
  <2> QED
    BY <1>4, <2>5, <2>6, AppendQueue DEF Inv
<1>5. ASSUME UNCHANGED <<current, ready>>
      PROVE  \A o \in Partitions : Queue(o)' = Queue(o)
  BY <1>5 DEF Queue
<1>6. CASE \E p \in Partitions : EnqueueSeal(p)
  BY <1>3, <1>6 DEF Unsplit, SmallBatches
<1>7. CASE \E p \in Partitions : EnqueueAppend(p)
  BY <1>4, <1>7
<1>8. CASE UNCHANGED <<current, ready>>
  BY <1>5, <1>8 DEF Unsplit, SmallBatches
<1> QED
  BY <1>6, <1>7, <1>8 DEF Application, EnqueueLock, FlushStart, FlushLoad,
         FlushWake, FlushTimeout, FlushScan, Close, DropProducer

LEMMA UnsplitSender ==
  ASSUME Inv, Unsplit, Sender
  PROVE  Unsplit'
<1> USE DEF accVars, senderVars, lifeVars, flushVars, brokerVars
<1>q. \A p \in Partitions : Queue(p) \in Seq(Seq(Records))
  BY QueueType DEF Inv
<1>1. ASSUME AllocateProducerId \/ SenderExit
      PROVE  Unsplit'
  BY <1>1, UnsplitUnchanged DEF AllocateProducerId, SenderExit
<1>2. ASSUME NEW p \in Partitions, DrainBatch(p)
      PROVE  Unsplit'
  <2>1. /\ Queue(p)' = Tail(Queue(p)) /\ Queue(p) # <<>>
        /\ \A o \in Partitions : o # p => Queue(o)' = Queue(o)
    BY <1>2, DrainQueue DEF Inv, DrainBatch
  <2>2. /\ Len(Head(Queue(p))) <= BatchMax
        /\ \A i \in 1..Len(Tail(Queue(p))) : Len(Tail(Queue(p))[i]) <= BatchMax
    BY <1>q, <2>1, SmallTail DEF Unsplit, SmallBatches
  <2>3. Outstanding' = Outstanding \cup {PrepareBatch(p, Head(Queue(p)))}
    BY <1>2, DrainOutstanding
  <2>4. PrepareBatch(p, Head(Queue(p))).recs = Head(Queue(p))
    BY DEF PrepareBatch
  <2>5. NoneTooLarge'
    BY <1>2, DrainQueue DEF Inv, Unsplit, NoneTooLarge
  <2>6. \A o \in Partitions : \A i \in 1..Len(Queue(o)') : Len(Queue(o)'[i]) <= BatchMax
    BY <2>1, <2>2 DEF Unsplit, SmallBatches
  <2>7. \A b \in Outstanding' : Len(b.recs) <= BatchMax
    BY <2>2, <2>3, <2>4 DEF Unsplit, SmallBatches
  <2> QED
    BY <2>5, <2>6, <2>7 DEF Unsplit, SmallBatches
<1>3. ASSUME NEW p \in Partitions, Resend(p)
      PROVE  Unsplit'
  <2>1. Outstanding' = Outstanding
    BY <1>3, ResendOutstanding
  <2>2. NoneTooLarge'
    BY <1>3 DEF Resend, Resent, Unsplit, NoneTooLarge
  <2>3. UNCHANGED <<current, ready>>
    BY <1>3 DEF Resend
  <2> QED
    BY <2>1, <2>2, <2>3 DEF Unsplit, SmallBatches, Queue
<1>4. ASSUME NEW p \in Partitions, TakeExpired(p)
      PROVE  Unsplit'
  <2>1. /\ Queue(p)' = Tail(Queue(p)) /\ Queue(p) # <<>>
        /\ \A o \in Partitions : o # p => Queue(o)' = Queue(o)
    BY <1>4, ExpireQueue DEF Inv, TakeExpired
  <2>2. \A i \in 1..Len(Tail(Queue(p))) : Len(Tail(Queue(p))[i]) <= BatchMax
    BY <1>q, <2>1, SmallTail DEF Unsplit, SmallBatches
  <2>3. \A o \in Partitions : \A i \in 1..Len(Queue(o)') : Len(Queue(o)'[i]) <= BatchMax
    BY <2>1, <2>2 DEF Unsplit, SmallBatches
  <2> QED
    BY <1>4, <2>3 DEF TakeExpired, Unsplit, SmallBatches, NoneTooLarge, Outstanding, RetryPartitions
<1>9. ASSUME FailExpired
      PROVE  Unsplit'
  BY <1>9, UnsplitUnchanged DEF FailExpired
<1>5. ASSUME NEW expired \in SUBSET RetryPartitions, ExpireBatches(expired)
      PROVE  Unsplit'
  <2>1. Outstanding' \subseteq Outstanding
    BY <1>5, ExpireOutstanding
  <2> QED
    BY <1>5, <2>1 DEF ExpireBatches, Unsplit, SmallBatches, NoneTooLarge, Queue
<1>6. ASSUME NEW done \in SUBSET Answered, CompleteBatches(done)
      PROVE  Unsplit'
  <2>1. /\ UNCHANGED <<current, ready>> /\ done \subseteq requests
        /\ requests' \subseteq requests
    BY <1>6, CompleteEffect DEF Unsplit
  <2>2. PICK id : Outstanding' \subseteq Outstanding \cup ParkedOf(done, id)
    BY <1>6, CompleteEffect DEF Unsplit
  <2>3. \A q \in requests : q.batch \in Outstanding /\ q.batch \in PreparedBatches
    BY DEF Outstanding, Inv, TypeOK
  <2>4. \A b \in ParkedOf(done, id) : Len(b.recs) <= BatchMax
    BY <2>1, <2>3, ParkedFields DEF ParkedOf, Resending, Unsplit, SmallBatches
  <2> QED
    BY <2>1, <2>2, <2>4 DEF Unsplit, SmallBatches, NoneTooLarge, Queue
<1>7. ASSUME NEW done, NEW acked, Fence(done, acked)
      PROVE  Unsplit'
  <2>1. Outstanding' \subseteq Outstanding
    BY <1>7, FenceOutstanding DEF Outstanding
  <2> QED
    BY <1>7, <2>1 DEF Fence, Unsplit, SmallBatches, NoneTooLarge, Queue
<1>8. ASSUME NEW p \in sweep, FenceAccumulator(p)
      PROVE  Unsplit'
  <2>1. \A o \in Partitions : Queue(o)' = Queue(o) \/ Queue(o)' = <<>>
    BY <1>8 DEF FenceAccumulator, Queue, Inv, TypeOK
  <2>2. \A o \in Partitions : \A i \in 1..Len(Queue(o)') : Len(Queue(o)'[i]) <= BatchMax
    <3>1. 1..Len(<<>>) = {}
      OBVIOUS
    <3> QED
      BY <2>1, <3>1 DEF Unsplit, SmallBatches
  <2> QED
    BY <1>8, <2>2 DEF FenceAccumulator, Unsplit, SmallBatches, NoneTooLarge, Outstanding, RetryPartitions
<1> QED
  BY <1>1, <1>2, <1>3, <1>4, <1>5, <1>6, <1>7, <1>8, <1>9 DEF Sender, CompleteFatal, DrainFence

LEMMA UnsplitNetwork ==
  ASSUME NoSplit, Inv, Unsplit, Network
  PROVE  Unsplit'
<1> USE DEF accVars, senderVars, lifeVars, flushVars, brokerVars
<1>1. ASSUME NEW q \in requests, NEW code, code # "MESSAGE_TOO_LARGE",
             requests' = Answer(q, code), UNCHANGED <<current, ready, retry>>
      PROVE  Unsplit'
  <2>1. [q EXCEPT !.answer = code].answer = code
    BY DEF Inv, TypeOK
  <2>2. NoneTooLarge'
    BY <1>1, <2>1 DEF Unsplit, NoneTooLarge, Answer
  <2>3. Outstanding' = Outstanding
    BY <1>1, AnswerOutstanding
  <2> QED
    BY <1>1, <2>2, <2>3 DEF Unsplit, SmallBatches, Queue
<1>2. ASSUME NEW q \in requests, LeaderAnswers(q)
      PROVE  Unsplit'
  <2>1. /\ q.batch \in Outstanding /\ q.batch \in PreparedBatches
    BY DEF Outstanding, Inv, TypeOK
  <2>2. Len(q.batch.recs) <= BrokerMax[q.batch.part]
    <3>1. Len(q.batch.recs) \in Nat /\ q.batch.part \in Partitions
      BY <2>1, LenProperties DEF PreparedBatches
    <3>2. BrokerMax[q.batch.part] \in Nat
      BY <3>1, ConstantsAssumption
    <3> QED
      BY <2>1, <3>1, <3>2, ConstantsAssumption DEF Unsplit, SmallBatches, NoSplit
  <2>3. CodeFor(q.batch) # "MESSAGE_TOO_LARGE"
    <3>1. Len(q.batch.recs) \in Nat /\ BrokerMax[q.batch.part] \in Nat
      BY <2>1, LenProperties, ConstantsAssumption DEF PreparedBatches
    <3> QED
      BY <2>2, <3>1 DEF CodeFor, LeaderCode
  <2> QED
    BY <1>1, <1>2, <2>3 DEF LeaderAnswers
<1>3. ASSUME NEW q \in requests, LeaderAppendsAndFails(q) \/ TransportFails(q)
      PROVE  Unsplit'
  BY <1>1, <1>3 DEF LeaderAppendsAndFails, TransportFails
<1>4. ASSUME NEW q \in requests, NEW code \in FaultCodes, LeaderRefuses(q, code)
      PROVE  Unsplit'
  BY <1>1, <1>4, ConstantsAssumption DEF LeaderRefuses
<1>5. CASE (\E b \in stray : StrayArrives(b)) \/ \E p \in Partitions : LeaderForgets(p)
  BY <1>5, UnsplitUnchanged DEF StrayArrives, LeaderForgets
<1> QED
  BY <1>2, <1>3, <1>4, <1>5 DEF Network

LEMMA UnsplitStep == NoSplit /\ Inv /\ Unsplit /\ [Next]_vars => Unsplit'
<1> SUFFICES ASSUME NoSplit, Inv, Unsplit, [Next]_vars PROVE Unsplit'
  OBVIOUS
<1>1. CASE UNCHANGED vars
  BY <1>1, UnsplitUnchanged DEF vars, accVars, senderVars
<1> QED
  BY <1>1, UnsplitApplication, UnsplitSender, UnsplitNetwork DEF Next, Terminated

-----------------------------------------------------------------------------
(* Where an accepted record is.                                            *)

Done(r) == outcome[r] \in {"acked", "failed"}
OnTheWay(r) == r \in RecordsOf(Outstanding)

Expiring(r) == r \in TakenRecords

\* Every accepted record is resolved, outstanding, in an accumulator or in the
\* hands of an expiry.
NoneLost ==
  \A r \in 1..appended :
    Done(r) \/ Expiring(r) \/ OnTheWay(r) \/ \E p \in Partitions : r \in QueuedRecords(p)

\* What a pass of flush has seen: a record of an accumulator that it passed is
\* resolved, outstanding or in the hands of an expiry.
PassSeen ==
  flush_pc \in {"scan", "load"} =>
    \A r \in 1..flush_mark :
      Done(r) \/ Expiring(r) \/ OnTheWay(r) \/ \E p \in flush_todo : r \in QueuedRecords(p)

FlushInv ==
  /\ flush_mark <= appended
  /\ flush_pc = "load" => flush_todo = {}
  /\ NoneLost
  /\ PassSeen
  /\ FlushResolves

\* A record leaves an accumulator for the wire, for an expiry or with its
\* outcome, and the wire or the expiry with its outcome.
HandedOn ==
  /\ \A r \in 1..appended : Done(r) => Done(r)'
  /\ \A r \in 1..appended : Expiring(r) => Expiring(r)' \/ Done(r)'
  /\ \A r \in 1..appended : OnTheWay(r) => OnTheWay(r)' \/ Done(r)'
  /\ \A r \in 1..appended : \A p \in Partitions :
       r \in QueuedRecords(p) =>
         r \in QueuedRecords(p)' \/ OnTheWay(r)' \/ Expiring(r)' \/ Done(r)'

LEMMA AcceptedAreRecords ==
  ASSUME TypeOK
  PROVE  1..appended \subseteq Records
BY ConstantsAssumption DEF TypeOK, Records

LEMMA HandedOnUnchanged ==
  ASSUME UNCHANGED <<current, ready, taken, requests, retry, outcome>>
  PROVE  HandedOn
<1>1. Outstanding' = Outstanding
  BY DEF Outstanding, RetryPartitions
<1>2. RecordsOf(Outstanding)' = RecordsOf(Outstanding)
  BY <1>1 DEF RecordsOf
<1> QED
  BY <1>2 DEF HandedOn, Done, Expiring, TakenRecords, OnTheWay, QueuedRecords, Queue

LEMMA OnTheWayIs ==
  \A r : OnTheWay(r) <=> \E b \in Outstanding : r \in Elems(b.recs)
BY DEF OnTheWay, RecordsOf

LEMMA OnTheWayNext ==
  \A r : OnTheWay(r)' <=> \E b \in Outstanding' : r \in Elems(b.recs)
BY DEF OnTheWay, RecordsOf

LEMMA HandedOnApplication ==
  ASSUME Inv, Application
  PROVE  HandedOn
<1> USE DEF accVars, senderVars, lifeVars, flushVars, brokerVars
<1>1. UNCHANGED <<requests, retry>>
  BY DEF Application, EnqueueSeal, EnqueueLock, EnqueueAppend, FlushStart, FlushLoad,
         FlushWake, FlushTimeout, FlushScan, Close, DropProducer
<1>2. \A r : OnTheWay(r)' <=> OnTheWay(r)
  BY <1>1 DEF OnTheWay, RecordsOf, Outstanding, RetryPartitions
<1>3. ASSUME NEW p \in Partitions, EnqueueSeal(p)
      PROVE  HandedOn
  <2>1. \A o \in Partitions : QueuedRecords(o)' = QueuedRecords(o)
    BY <1>3, SealQueue DEF QueuedRecords, Inv
  <2> QED
    BY <1>2, <1>3, <2>1 DEF EnqueueSeal, HandedOn, Done, Expiring, TakenRecords
<1>4. ASSUME NEW p \in Partitions, EnqueueAppend(p)
      PROVE  HandedOn
  <2>1. \A o \in Partitions : QueuedRecords(o) \subseteq QueuedRecords(o)'
    <3>1. \A o \in Partitions : o # p => QueuedRecords(o)' = QueuedRecords(o)
      BY <1>4, AppendQueue DEF QueuedRecords, Inv
    <3> QED
      BY <1>4, <3>1, AppendQueued
  <2>2. \A r \in 1..appended : outcome'[r] = outcome[r]
    <3>1. outcome' = [outcome EXCEPT ![appended + 1] = "pending"] /\ appended \in Nat
      BY <1>4 DEF EnqueueAppend, Inv, TypeOK
    <3>2. \A r \in 1..appended : r # appended + 1 /\ r \in Records
      BY <3>1, AcceptedAreRecords DEF Inv
    <3> QED
      BY <3>1, <3>2 DEF Inv, TypeOK
  <2>9. taken' = taken
    BY <1>4 DEF EnqueueAppend
  <2> QED
    BY <2>9, <1>2, <2>1, <2>2 DEF HandedOn, Done, Expiring, TakenRecords
<1>5. CASE UNCHANGED <<current, ready, taken, requests, retry, outcome>>
  BY <1>5, HandedOnUnchanged
<1> QED
  BY <1>3, <1>4, <1>5 DEF Application, EnqueueLock, FlushStart, FlushLoad,
         FlushWake, FlushTimeout, FlushScan, Close, DropProducer

LEMMA HandedOnSender ==
  ASSUME Inv, NoneTooLarge, Sender
  PROVE  HandedOn
<1> USE DEF accVars, senderVars, lifeVars, flushVars, brokerVars
<1>q. \A p \in Partitions : Queue(p) \in Seq(Seq(Records))
  BY QueueType DEF Inv
<1>r. 1..appended \subseteq Records /\ outcome \in [Records -> {"none", "pending", "acked", "failed"}]
  BY AcceptedAreRecords DEF Inv, TypeOK
<1>1. ASSUME AllocateProducerId \/ SenderExit
      PROVE  HandedOn
  BY <1>1, HandedOnUnchanged DEF AllocateProducerId, SenderExit
<1>2. ASSUME NEW p \in Partitions, DrainBatch(p)
      PROVE  HandedOn
  <2>1. /\ Queue(p)' = Tail(Queue(p)) /\ Queue(p) # <<>>
        /\ \A o \in Partitions : o # p => Queue(o)' = Queue(o)
    BY <1>2, DrainQueue DEF Inv, DrainBatch
  <2>2. QueuedRecords(p) = Elems(Head(Queue(p))) \cup QueuedRecords(p)'
    BY <1>q, <2>1, RecordsInPopped DEF QueuedRecords, RecordsIn
  <2>3. Outstanding' = Outstanding \cup {PrepareBatch(p, Head(Queue(p)))}
    BY <1>2, DrainOutstanding
  <2>4. PrepareBatch(p, Head(Queue(p))).recs = Head(Queue(p))
    BY DEF PrepareBatch
  <2>5. \A r \in Elems(Head(Queue(p))) : OnTheWay(r)'
    BY <2>3, <2>4, OnTheWayNext
  <2>6. \A r : OnTheWay(r) => OnTheWay(r)'
    BY <2>3, OnTheWayIs, OnTheWayNext
  <2>7. \A o \in Partitions : o # p => QueuedRecords(o)' = QueuedRecords(o)
    BY <2>1 DEF QueuedRecords
  <2>8. outcome' = outcome
    BY <1>2 DEF DrainBatch
  <2>9. taken' = taken
    BY <1>2 DEF DrainBatch
  <2> QED
    BY <2>9, <2>2, <2>5, <2>6, <2>7, <2>8 DEF HandedOn, Done, Expiring, TakenRecords
<1>3. ASSUME NEW p \in Partitions, Resend(p)
      PROVE  HandedOn
  <2>1. Outstanding' = Outstanding
    BY <1>3, ResendOutstanding
  <2>2. \A r : OnTheWay(r) => OnTheWay(r)'
    BY <2>1, OnTheWayIs, OnTheWayNext
  <2> QED
    BY <1>3, <2>2 DEF Resend, HandedOn, Done, Expiring, TakenRecords, QueuedRecords, Queue
<1>4. ASSUME NEW p \in Partitions, TakeExpired(p)
      PROVE  HandedOn
  <2>1. /\ Queue(p)' = Tail(Queue(p)) /\ Queue(p) # <<>>
        /\ \A o \in Partitions : o # p => Queue(o)' = Queue(o)
    BY <1>4, ExpireQueue DEF Inv, TakeExpired
  <2>2. QueuedRecords(p) = Elems(Head(Queue(p))) \cup QueuedRecords(p)'
    BY <1>q, <2>1, RecordsInPopped DEF QueuedRecords, RecordsIn
  <2>3. \A o \in Partitions : o # p => QueuedRecords(o)' = QueuedRecords(o)
    BY <2>1 DEF QueuedRecords
  <2>4. /\ \A r : Expiring(r) => Expiring(r)'
        /\ \A r \in Elems(Head(Queue(p))) : Expiring(r)'
    BY <1>4 DEF TakeExpired, Expiring, TakenRecords
  <2>5. \A r : OnTheWay(r) => OnTheWay(r)'
    BY <1>4 DEF TakeExpired, OnTheWay, RecordsOf, Outstanding, RetryPartitions
  <2>6. outcome' = outcome
    BY <1>4 DEF TakeExpired
  <2> QED
    BY <2>2, <2>3, <2>4, <2>5, <2>6 DEF HandedOn, Done
<1>9. ASSUME FailExpired
      PROVE  HandedOn
  <2>1. \A r \in Records : outcome'[r] = IF Expiring(r) THEN "failed" ELSE outcome[r]
    BY <1>9 DEF FailExpired, Resolve, Expiring
  <2>2. \A r : OnTheWay(r) => OnTheWay(r)'
    BY <1>9 DEF FailExpired, OnTheWay, RecordsOf, Outstanding, RetryPartitions
  <2>3. \A p \in Partitions : QueuedRecords(p)' = QueuedRecords(p)
    BY <1>9 DEF FailExpired, QueuedRecords, Queue
  <2> QED
    BY <1>r, <2>1, <2>2, <2>3 DEF HandedOn, Done
<1>5. ASSUME NEW expired \in SUBSET RetryPartitions, ExpireBatches(expired)
      PROVE  HandedOn
  <2>1. Outstanding' = {b \in Outstanding : b.part \notin expired}
    BY <1>5, ExpireOutstanding
  <2>2. \A r \in Records : outcome'[r] =
          IF r \in RecordsOf({retry[p] : p \in expired}) THEN "failed" ELSE outcome[r]
    BY <1>5 DEF ExpireBatches, Resolve
  <2>3. \A b \in Outstanding : b.part \in expired => b \in {retry[p] : p \in expired}
    <3>1. \A p \in expired : retry[p] \in Outstanding /\ retry[p].part = p
      BY DEF Outstanding, RetryPartitions, Inv, Pipeline, SlotsMatch
    <3> QED
      BY <3>1, OutstandingUnique
  <2>4. \A r \in Records : OnTheWay(r) => OnTheWay(r)' \/ Done(r)'
    <3> TAKE r \in Records
    <3> SUFFICES ASSUME OnTheWay(r) PROVE OnTheWay(r)' \/ Done(r)'
      OBVIOUS
    <3>1. PICK b \in Outstanding : r \in Elems(b.recs)
      BY OnTheWayIs
    <3>2. CASE b.part \in expired
      BY <2>2, <2>3, <3>1, <3>2 DEF RecordsOf, Done
    <3>3. CASE b.part \notin expired
      BY <2>1, <3>1, <3>3, OnTheWayNext
    <3> QED
      BY <3>2, <3>3
  <2>5. \A p \in Partitions : QueuedRecords(p)' = QueuedRecords(p)
    BY <1>5 DEF ExpireBatches, QueuedRecords, Queue
  <2>9. taken' = taken
    BY <1>5 DEF ExpireBatches
  <2> QED
    BY <2>9, <1>r, <2>2, <2>4, <2>5 DEF HandedOn, Done, Expiring, TakenRecords
<1>6. ASSUME NEW done \in SUBSET Answered, CompleteBatches(done)
      PROVE  HandedOn
  <2>1. /\ UNCHANGED <<current, ready>> /\ done \subseteq requests
        /\ \A q \in done : Verdict(q) \in {"Acked", "Terminal", "Exhausted", "Retry", "BumpEpochAndRetry"}
    BY <1>6, CompleteEffect
  <2>2. PICK id : Outstanding' = {b \in Outstanding : \A q \in done : q.batch.part # b.part}
                                   \cup ParkedOf(done, id)
    BY <1>6, CompleteEffect
  <2> DEFINE batches(vs) == {q.batch : q \in {d \in done : Verdict(d) \in vs}}
  <2>3. \A r \in Records : outcome'[r] =
          IF r \in RecordsOf(batches({"Acked"})) THEN "acked"
          ELSE IF r \in RecordsOf(batches({"Terminal", "Exhausted"})) THEN "failed" ELSE outcome[r]
    BY <1>6 DEF CompleteBatches
  <2>4. \A q \in requests : q.batch \in Outstanding /\ q.batch \in PreparedBatches
    BY DEF Outstanding, Inv, TypeOK
  <2>5. \A r \in Records : OnTheWay(r) => OnTheWay(r)' \/ Done(r)'
    <3> TAKE r \in Records
    <3> SUFFICES ASSUME OnTheWay(r) PROVE OnTheWay(r)' \/ Done(r)'
      OBVIOUS
    <3>1. PICK b \in Outstanding : r \in Elems(b.recs)
      BY OnTheWayIs
    <3>2. CASE \A q \in done : q.batch.part # b.part
      BY <2>2, <3>1, <3>2, OnTheWayNext
    <3>3. ASSUME NEW q \in done, q.batch.part = b.part
          PROVE  OnTheWay(r)' \/ Done(r)'
      <4>1. b = q.batch
        BY <2>1, <2>4, <3>3, OutstandingUnique
      <4>2. CASE Verdict(q) \in {"Acked", "Terminal", "Exhausted"}
        BY <2>3, <3>1, <4>1, <4>2 DEF RecordsOf, Done
      <4>3. CASE Verdict(q) \in {"Retry", "BumpEpochAndRetry"}
        <5>1. Parked(q.batch, Rewrites(q), id) \in Outstanding'
          BY <2>2, <4>3 DEF ParkedOf, Resending
        <5>2. Parked(q.batch, Rewrites(q), id).recs = b.recs
          BY <2>1, <2>4, <4>1, ParkedFields
        <5> QED
          BY <3>1, <5>1, <5>2, OnTheWayNext
      <4> QED
        BY <2>1, <4>2, <4>3
    <3> QED
      BY <3>2, <3>3
  <2>6. \A p \in Partitions : QueuedRecords(p)' = QueuedRecords(p)
    BY <2>1 DEF QueuedRecords, Queue
  <2>9. taken' = taken
    BY <1>6 DEF CompleteBatches
  <2> QED
    BY <2>9, <1>r, <2>3, <2>5, <2>6 DEF HandedOn, Done, Expiring, TakenRecords
<1>7. ASSUME NEW done, NEW acked, Fence(done, acked)
      PROVE  HandedOn
  <2>1. Outstanding' = {q.batch : q \in requests \ done}
    BY <1>7, FenceOutstanding
  <2> DEFINE dead == {q.batch : q \in done \ acked} \cup {retry[p] : p \in RetryPartitions}
  <2>2. \A r \in Records : outcome'[r] =
          IF r \in RecordsOf({q.batch : q \in acked}) THEN "acked"
          ELSE IF r \in RecordsOf(dead) THEN "failed" ELSE outcome[r]
    BY <1>7 DEF Fence
  <2>3. \A r \in Records : OnTheWay(r) => OnTheWay(r)' \/ Done(r)'
    <3> TAKE r \in Records
    <3> SUFFICES ASSUME OnTheWay(r) PROVE OnTheWay(r)' \/ Done(r)'
      OBVIOUS
    <3>1. PICK b \in Outstanding : r \in Elems(b.recs)
      BY OnTheWayIs
    <3>2. CASE b \in Outstanding'
      BY <3>1, <3>2, OnTheWayNext
    <3>3. CASE b \notin Outstanding'
      <4>1. b \in dead \/ b \in {q.batch : q \in acked}
        BY <2>1, <3>1, <3>3 DEF Outstanding
      <4>2. r \in RecordsOf(dead) \/ r \in RecordsOf({q.batch : q \in acked})
        BY <3>1, <4>1 DEF RecordsOf
      <4> HIDE DEF dead
      <4> QED
        BY <2>2, <4>2 DEF Done
    <3> QED
      BY <3>2, <3>3
  <2>4. \A p \in Partitions : QueuedRecords(p)' = QueuedRecords(p)
    BY <1>7 DEF Fence, QueuedRecords, Queue
  <2> HIDE DEF dead
  <2>9. taken' = taken
    BY <1>7 DEF Fence
  <2> QED
    BY <2>9, <1>r, <2>2, <2>3, <2>4 DEF HandedOn, Done, Expiring, TakenRecords
<1>8. ASSUME NEW p \in sweep, FenceAccumulator(p)
      PROVE  HandedOn
  <2>1. \A r : OnTheWay(r) => OnTheWay(r)'
    BY <1>8 DEF FenceAccumulator, OnTheWay, RecordsOf, Outstanding, RetryPartitions
  <2>2. CASE locked = p
    BY <1>8, <2>2, HandedOnUnchanged DEF FenceAccumulator
  <2>3. CASE locked # p
    <3>1. \A r \in Records : outcome'[r] = IF r \in QueuedRecords(p) THEN "failed" ELSE outcome[r]
      BY <1>8, <2>3 DEF FenceAccumulator, Resolve
    <3>2. \A o \in Partitions : o # p => Queue(o)' = Queue(o)
      BY <1>8, <2>3 DEF FenceAccumulator, Queue, Inv, TypeOK
    <3>3. \A o \in Partitions : o # p => QueuedRecords(o)' = QueuedRecords(o)
      BY <3>2 DEF QueuedRecords
    <3>9. taken' = taken
      BY <1>8 DEF FenceAccumulator
    <3> QED
      BY <3>9, <1>r, <2>1, <3>1, <3>3 DEF HandedOn, Done, Expiring, TakenRecords
  <2> QED
    BY <2>2, <2>3
<1> QED
  BY <1>1, <1>2, <1>3, <1>4, <1>5, <1>6, <1>7, <1>8, <1>9 DEF Sender, CompleteFatal, DrainFence

LEMMA HandedOnNetwork ==
  ASSUME Inv, Network
  PROVE  HandedOn
<1> USE DEF accVars, senderVars, lifeVars, flushVars, brokerVars
<1>1. UNCHANGED <<current, ready, taken, retry, outcome>>
  BY DEF Network, LeaderAnswers, LeaderAppendsAndFails, TransportFails, LeaderRefuses,
         StrayArrives, LeaderForgets
<1>2. Outstanding' = Outstanding
  <2>1. ASSUME NEW q \in requests, NEW code, requests' = Answer(q, code)
        PROVE  Outstanding' = Outstanding
    BY <1>1, <2>1, AnswerOutstanding
  <2>2. CASE requests' = requests
    BY <1>1, <2>2 DEF Outstanding, RetryPartitions
  <2> QED
    BY <2>1, <2>2 DEF Network, LeaderAnswers, LeaderAppendsAndFails, TransportFails,
                      LeaderRefuses, StrayArrives, LeaderForgets
<1>3. \A r : OnTheWay(r) => OnTheWay(r)'
  BY <1>2, OnTheWayIs, OnTheWayNext
<1> QED
  BY <1>1, <1>3 DEF HandedOn, Done, Expiring, TakenRecords, QueuedRecords, Queue

LEMMA HandedOnStep == Inv /\ Unsplit /\ [Next]_vars => HandedOn
<1> SUFFICES ASSUME Inv, Unsplit, [Next]_vars PROVE HandedOn
  OBVIOUS
<1>1. CASE UNCHANGED vars
  BY <1>1, HandedOnUnchanged DEF vars, accVars, senderVars
<1> QED
  BY <1>1, HandedOnApplication, HandedOnSender, HandedOnNetwork DEF Next, Terminated, Unsplit

LEMMA FlushInvInit == Init => FlushInv
BY DEF Init, FlushInv, NoneLost, PassSeen, FlushResolves

\* Steps that accept no record and are no step of flush.
LEMMA FlushKept ==
  ASSUME Inv, FlushInv, HandedOn,
         UNCHANGED <<appended, flush_pc, flush_todo, flush_mark, flush_result>>
  PROVE  FlushInv'
<1>1. 1..flush_mark \subseteq 1..appended /\ flush_todo \subseteq Partitions
  BY DEF Inv, TypeOK, FlushInv
<1>2. NoneLost'
  BY DEF FlushInv, NoneLost, HandedOn
<1>3. PassSeen'
  <2> SUFFICES ASSUME flush_pc \in {"scan", "load"}, NEW r \in 1..flush_mark
               PROVE  Done(r)' \/ Expiring(r)' \/ OnTheWay(r)' \/ \E p \in flush_todo : r \in QueuedRecords(p)'
    BY DEF PassSeen
  <2>1. Done(r) \/ Expiring(r) \/ OnTheWay(r) \/ \E p \in flush_todo : r \in QueuedRecords(p)
    BY DEF FlushInv, PassSeen
  <2> QED
    BY <1>1, <2>1 DEF HandedOn
<1>4. FlushResolves'
  <2>1. FlushResolves => (flush_result = "ok" => \A r \in 1..flush_mark : Done(r) \/ Expiring(r))
    BY DEF FlushResolves, Done, Expiring
  <2>2. (flush_result = "ok" => \A r \in 1..flush_mark : Done(r)' \/ Expiring(r)') => FlushResolves'
    BY DEF FlushResolves, Done, Expiring
  <2> QED
    BY <1>1, <2>1, <2>2 DEF FlushInv, HandedOn
<1> QED
  BY <1>2, <1>3, <1>4 DEF FlushInv

LEMMA FlushInvApplication ==
  ASSUME Inv, Inv', FlushInv, HandedOn, Application
  PROVE  FlushInv'
<1> USE DEF accVars, senderVars, lifeVars, flushVars, brokerVars
<1>1. ASSUME NEW p \in Partitions, EnqueueSeal(p) \/ EnqueueLock(p)
      PROVE  FlushInv'
  BY <1>1, FlushKept DEF EnqueueSeal, EnqueueLock
<1>2. ASSUME NEW p \in Partitions, EnqueueAppend(p)
      PROVE  FlushInv'
  <2>1. /\ appended' = appended + 1 /\ appended \in Nat /\ flush_mark \in Nat
        /\ flush_todo \subseteq Partitions
        /\ UNCHANGED <<flush_pc, flush_todo, flush_mark, flush_result>>
    BY <1>2 DEF EnqueueAppend, Inv, TypeOK
  <2>2. 1..flush_mark \subseteq 1..appended /\ 1..appended' = (1..appended) \cup {appended + 1}
    BY <2>1 DEF FlushInv
  <2>3. appended + 1 \in QueuedRecords(p)'
    BY <1>2, AppendQueued
  <2>4. NoneLost'
    BY <2>2, <2>3 DEF FlushInv, NoneLost, HandedOn
  <2>5. PassSeen'
    BY <2>1, <2>2 DEF FlushInv, PassSeen, HandedOn
  <2>6. FlushResolves'
    BY <2>1, <2>2 DEF FlushInv, FlushResolves, HandedOn, Done, Expiring
  <2> QED
    BY <2>1, <2>4, <2>5, <2>6 DEF FlushInv
<1>3. ASSUME FlushStart \/ FlushWake \/ FlushTimeout \/ FlushLoad
             \/ (\E p \in Partitions : FlushScan(p)) \/ Close \/ DropProducer
      PROVE  UNCHANGED <<current, ready, taken, requests, retry, outcome, appended>>
  BY <1>3 DEF FlushStart, FlushWake, FlushTimeout, FlushLoad, FlushScan, Close, DropProducer
<1>4. ASSUME UNCHANGED <<current, ready, taken, requests, retry, outcome, appended>>
      PROVE  /\ \A r : (OnTheWay(r)' <=> OnTheWay(r)) /\ (Done(r)' <=> Done(r)) /\ (Expiring(r)' <=> Expiring(r))
             /\ \A p : QueuedRecords(p)' = QueuedRecords(p)
             /\ NoneLost'
  <2>1. /\ \A r : (OnTheWay(r)' <=> OnTheWay(r)) /\ (Done(r)' <=> Done(r)) /\ (Expiring(r)' <=> Expiring(r))
        /\ \A p : QueuedRecords(p)' = QueuedRecords(p)
    BY <1>4 DEF OnTheWay, RecordsOf, Outstanding, RetryPartitions, Done, Expiring, TakenRecords, QueuedRecords, Queue
  <2> QED
    BY <1>4, <2>1 DEF FlushInv, NoneLost
<1>5. CASE FlushStart
  <2>1. /\ NoneLost' /\ flush_mark' = appended /\ appended' = appended
        /\ flush_todo' = Partitions /\ flush_pc' = "scan" /\ flush_result' = "none"
    BY <1>3, <1>4, <1>5 DEF FlushStart
  <2>2. PassSeen' /\ FlushResolves'
    BY <2>1 DEF PassSeen, NoneLost, FlushResolves
  <2> QED
    BY <2>1, <2>2 DEF FlushInv, Inv, TypeOK
<1>6. CASE FlushWake
  <2>1. /\ NoneLost' /\ UNCHANGED <<flush_mark, appended, flush_result, outcome, taken>>
        /\ flush_todo' = Partitions /\ flush_pc' = "scan"
    BY <1>3, <1>4, <1>6 DEF FlushWake
  <2>2. 1..flush_mark \subseteq 1..appended
    BY DEF FlushInv, Inv, TypeOK
  <2>3. PassSeen' /\ FlushResolves'
    BY <2>1, <2>2 DEF PassSeen, NoneLost, FlushResolves, FlushInv, TakenRecords
  <2> QED
    BY <2>1, <2>3 DEF FlushInv
<1>7. CASE FlushTimeout
  <2>1. NoneLost' /\ UNCHANGED <<flush_mark, appended>> /\ flush_pc' = "idle" /\ flush_result' = "timeout"
    BY <1>3, <1>4, <1>7 DEF FlushTimeout
  <2> QED
    BY <2>1 DEF FlushInv, PassSeen, FlushResolves
<1>8. CASE FlushLoad
  <2>1. /\ NoneLost' /\ UNCHANGED <<flush_mark, appended, flush_todo, outcome, taken>>
        /\ flush_pc' \in {"idle", "wait"}
        /\ flush_result' = "ok" => in_flight = 0 \/ flush_result = "ok"
    BY <1>3, <1>4, <1>8 DEF FlushLoad
  <2>2. in_flight = 0 => Outstanding = {}
    <3>1. Cardinality(requests) \in Nat /\ IsFiniteSet(requests)
      BY FS_CardinalityType DEF Inv, Pipeline
    <3>2. in_flight = 0 => Cardinality(requests) = 0 /\ Cardinality(RetryPartitions) = 0
      BY <3>1, RetryFinite DEF Inv, Pipeline, InFlightExact
    <3>3. in_flight = 0 => requests = {} /\ RetryPartitions = {}
      BY <3>1, <3>2, RetryFinite, FS_EmptySet
    <3> QED
      BY <3>3 DEF Outstanding
  <2>3. in_flight = 0 => \A r \in 1..flush_mark : Done(r) \/ Expiring(r)
    <3>1. flush_pc = "load" /\ flush_todo = {}
      BY <1>8 DEF FlushLoad, FlushInv
    <3> QED
      BY <2>2, <3>1, OnTheWayIs DEF FlushInv, PassSeen
  <2>4. FlushResolves'
    BY <2>1, <2>3 DEF FlushInv, FlushResolves, Done, Expiring, TakenRecords
  <2>5. PassSeen'
    BY <2>1 DEF PassSeen
  <2> QED
    BY <2>1, <2>4, <2>5 DEF FlushInv
<1>9. ASSUME NEW p \in Partitions, FlushScan(p)
      PROVE  FlushInv'
  <2>1. /\ UNCHANGED <<flush_mark, appended, flush_result, outcome, taken>>
        /\ flush_pc = "scan" /\ flush_todo' = flush_todo \ {p} /\ p \in flush_todo
        /\ flush_pc' \in {"scan", "load"} => Queue(p) = <<>>
        /\ flush_pc' = "load" => flush_todo = {p}
    BY <1>9 DEF FlushScan
  <2>2. /\ \A r : (OnTheWay(r)' <=> OnTheWay(r)) /\ (Done(r)' <=> Done(r)) /\ (Expiring(r)' <=> Expiring(r))
        /\ \A o : QueuedRecords(o)' = QueuedRecords(o)
        /\ NoneLost'
    BY <1>3, <1>4, <1>9
  <2>3. flush_pc' \in {"scan", "load"} => QueuedRecords(p) = {}
    BY <2>1 DEF QueuedRecords, Elems
  <2>4. PassSeen'
    BY <2>1, <2>2, <2>3 DEF FlushInv, PassSeen
  <2>5. FlushResolves'
    BY <2>1 DEF FlushInv, FlushResolves, TakenRecords
  <2> QED
    BY <2>1, <2>2, <2>4, <2>5 DEF FlushInv
<1>10. CASE Close \/ DropProducer
  BY <1>10, FlushKept DEF Close, DropProducer
<1> QED
  BY <1>1, <1>2, <1>5, <1>6, <1>7, <1>8, <1>9, <1>10 DEF Application

LEMMA FlushInvStep ==
  Inv /\ Inv' /\ Unsplit /\ FlushInv /\ [Next]_vars => FlushInv'
<1> SUFFICES ASSUME Inv, Inv', Unsplit, FlushInv, [Next]_vars PROVE FlushInv'
  OBVIOUS
<1> USE DEF accVars, senderVars, lifeVars, flushVars, brokerVars
<1>1. HandedOn
  BY HandedOnStep
<1>2. CASE Application
  BY <1>1, <1>2, FlushInvApplication
<1>3. CASE Sender
  <2>1. UNCHANGED <<appended, flush_pc, flush_todo, flush_mark, flush_result>>
    BY <1>3 DEF Sender, AllocateProducerId, DrainBatch, Resend, TakeExpired, FailExpired, ExpireBatches,
                CompleteBatches, CompleteFatal, DrainFence, Fence, FinishInFlight,
                FenceAccumulator, SenderExit
  <2> QED
    BY <1>1, <2>1, FlushKept
<1>4. CASE Network
  <2>1. UNCHANGED <<appended, flush_pc, flush_todo, flush_mark, flush_result>>
    BY <1>4 DEF Network, LeaderAnswers, LeaderAppendsAndFails, TransportFails, LeaderRefuses,
                StrayArrives, LeaderForgets
  <2> QED
    BY <1>1, <2>1, FlushKept
<1>5. CASE UNCHANGED vars
  <2>1. UNCHANGED <<appended, flush_pc, flush_todo, flush_mark, flush_result>>
    BY <1>5 DEF vars
  <2> QED
    BY <1>1, <2>1, FlushKept
<1> QED
  BY <1>2, <1>3, <1>4, <1>5 DEF Next, Terminated

\* While no batch is refused for its size, every batch fits into batch.size
\* and no answer asks for a split.
THEOREM UnsplitAlways == NoSplit => (Spec => []Unsplit)
<1> SUFFICES ASSUME NoSplit PROVE Spec => []Unsplit
  OBVIOUS
<1>1. Inv /\ Unsplit /\ [Next]_vars => Unsplit'
  BY UnsplitStep
<1> QED
  BY <1>1, UnsplitInit, Invariance, PTL DEF Spec

\* While no batch is split, a flush that returns Ok keeps its promise for the
\* records that were accepted before it began.  all_empty does not hold the
\* accumulators that it has seen locked, and in_flight is loaded afterwards:
\* a record that left an accumulator during the scan is still counted.
THEOREM FlushAlwaysResolves == NoSplit => (Spec => []FlushResolves)
<1> SUFFICES ASSUME NoSplit PROVE Spec => []FlushResolves
  OBVIOUS
<1>1. FlushInv => FlushResolves
  BY DEF FlushInv
<1>2. Spec => []Unsplit
  BY UnsplitAlways
<1> QED
  BY <1>1, <1>2, FlushInvInit, FlushInvStep, Invariance, PTL DEF Spec

=============================================================================
