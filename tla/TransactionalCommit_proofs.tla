---------------------- MODULE TransactionalCommit_proofs ----------------------
(***************************************************************************)
(* What a successful commit or prepare means with transaction version 2,    *)
(* proved for every number of records, transactions, partitions and faults: *)
(* the sequences of an identity, the records that are acknowledged, what    *)
(* the application may commit, and what a prepared transaction holds.       *)
(***************************************************************************)
EXTENDS TransactionalProducer_proofs

-----------------------------------------------------------------------------
(* Sequences.                                                              *)

\* No failure is recorded for the identity.
Fine == txn_error = "none" /\ ~recovery_required

\* What a leader knows of the producer.
LeaderTyped ==
  /\ leaders \in [Partitions -> [epoch : Int, expected : Nat, accepted : SUBSET Nat]]
  /\ \A p \in Partitions :
       /\ -1 <= leaders[p].epoch /\ leaders[p].epoch <= epoch
       /\ leaders[p].epoch = -1 => leaders[p] = NoProducerState

\* The leader of p takes sequence n of the identity, unless it lost its state.
Due(p, n) ==
  \/ leaders[p] = NoProducerState
  \/ leaders[p].epoch = epoch /\ n = leaders[p].expected
  \/ leaders[p].epoch < epoch /\ n = 0

\* The leader appended the batch.
Stored(b) ==
  /\ leaders[b.part].epoch = b.epoch /\ b.seq \in leaders[b.part].accepted
  /\ leaders[b.part].expected = b.seq + Len(b.recs)
  /\ Elems(b.recs) \subseteq Logged

\* A batch of the identity is the next one at its leader, or the last one.
InLine(b) ==
  b.epoch = epoch =>
    /\ b.gen = recovery_generation \/ recovery_required
    /\ next_seq[b.part] = b.seq + Len(b.recs)
    /\ Due(b.part, b.seq) \/ Stored(b)

\* What an answer says is true.
AnswerTrue(q) ==
  /\ q.answer = "BARRED" /\ q.batch.epoch = epoch => ~Fine
  /\ q.answer = "UNKNOWN_PRODUCER_ID" => leaders[q.batch.part] = NoProducerState
  /\ q.answer \in {"NONE", "DUPLICATE_SEQUENCE_NUMBER"} =>
       /\ Elems(q.batch.recs) \subseteq Logged
       /\ q.batch.epoch = epoch => Stored(q.batch)

\* No batch of the identity is on its way to p.
Clear(p) == \A b \in Outstanding : b.part = p => b.epoch # epoch

Sequenced ==
  /\ LeaderTyped
  /\ \A b \in Outstanding : InLine(b)
  /\ \A q \in requests : AnswerTrue(q)
  /\ Fine => \A p \in Partitions : Clear(p) => Due(p, next_seq[p])
  /\ ~active => Fatal

\* A call that completes with version 2 brings a new epoch.
Renewed == call.pc = "apply" /\ call.decision = "Complete" => epoch < call.found

LEMMA OneBatch ==
  ASSUME SlotsTyped, NEW b \in Outstanding, NEW c \in Outstanding, b.part = c.part
  PROVE  b = c
BY DEF SlotsTyped, Outstanding

LEMMA OutstandingTyped ==
  ASSUME SlotsTyped, NEW b \in Outstanding
  PROVE  /\ b \in SealedBatch /\ b.part \in Partitions /\ b.recs \in Seq(Records)
         /\ b.epoch \in Int /\ b.seq \in Nat /\ Len(b.recs) \in Nat
<1>1. b \in SealedBatch
  BY DEF SlotsTyped, Outstanding, Parked, Request
<1> QED BY <1>1, LenProperties DEF SealedBatch

\* The batches of the sender, partition by partition.
LEMMA OccupiedParts ==
  ASSUME SlotsTyped, NEW p \in Partitions
  PROVE  p \in Occupied <=> \E b \in Outstanding : b.part = p
BY DEF SlotsTyped, Outstanding, Parked, Occupied

\* Nothing of the pipeline changes.
LEMMA SequencedStays ==
  ASSUME Sequenced, UNCHANGED <<leaders, epoch, requests, retry, next_seq>>,
         Logged \subseteq Logged', Fine' => Fine, ~active' => Fatal',
         recovery_required => recovery_required',
         recovery_generation' = recovery_generation \/ recovery_required'
  PROVE  Sequenced'
<1>1. Outstanding' = Outstanding
  BY DEF Outstanding, Parked
<1>2. LeaderTyped'
  BY DEF Sequenced, LeaderTyped
<1>3. ASSUME NEW b \in Outstanding PROVE InLine(b)'
  <2>1. InLine(b)
    BY DEF Sequenced
  <2>2. Stored(b) => Stored(b)'
    BY DEF Stored
  <2>3. Due(b.part, b.seq) => Due(b.part, b.seq)'
    BY DEF Due
  <2> QED BY <2>1, <2>2, <2>3 DEF InLine
<1>4. ASSUME NEW q \in requests PROVE AnswerTrue(q)'
  <2>1. AnswerTrue(q)
    BY DEF Sequenced
  <2>2. Stored(q.batch) => Stored(q.batch)'
    BY DEF Stored
  <2> QED BY <2>1, <2>2 DEF AnswerTrue
<1>5. ASSUME Fine', NEW p \in Partitions, Clear(p)' PROVE Due(p, next_seq[p])'
  <2>1. Clear(p)
    BY <1>1, <1>5 DEF Clear
  <2>2. Due(p, next_seq[p])
    BY <1>5, <2>1 DEF Sequenced
  <2> QED BY <2>2 DEF Due
<1> QED BY <1>1, <1>2, <1>3, <1>4, <1>5 DEF Sequenced

\* A step of the sender at one partition.
LEMMA SequencedAt ==
  ASSUME Sequenced, UNCHANGED <<leaders, epoch, recovery_required, recovery_generation>>,
         Logged' = Logged, Fine' => Fine, ~active' => Fatal',
         NEW p \in Partitions,
         \A x \in Partitions : x # p => next_seq'[x] = next_seq[x],
         \A b \in Outstanding : b.part = p \/ b \in Outstanding',
         \A b \in Outstanding' :
           b.part \in Partitions /\ ((b.part # p /\ b \in Outstanding) \/ (b.part = p /\ InLine(b)')),
         Fine' /\ Clear(p)' => Due(p, next_seq[p])',
         \A q \in requests' :
           \/ q \in requests \/ q.answer \in {"queued", "none"}
           \/ q.answer = "BARRED" /\ (q.batch.epoch = epoch => ~Fine')
  PROVE  Sequenced'
<1>1. LeaderTyped'
  BY DEF Sequenced, LeaderTyped
<1>2. ASSUME NEW x, NEW n PROVE Due(x, n)' <=> Due(x, n)
  BY DEF Due
<1>3. ASSUME NEW b PROVE Stored(b)' <=> Stored(b)
  BY DEF Stored
<1>4. ASSUME NEW b \in Outstanding', b.part # p PROVE InLine(b)'
  <2>1. b \in Outstanding /\ b.part \in Partitions /\ next_seq'[b.part] = next_seq[b.part]
    BY <1>4
  <2>2. InLine(b)
    BY <2>1 DEF Sequenced
  <2> QED BY <1>2, <1>3, <2>1, <2>2 DEF InLine
<1>5. ASSUME NEW q \in requests' PROVE AnswerTrue(q)'
  <2>1. CASE q \in requests
    <3>1. AnswerTrue(q)
      BY <2>1 DEF Sequenced
    <3> QED BY <1>3, <3>1 DEF AnswerTrue
  <2> QED BY <2>1 DEF AnswerTrue
<1>6. ASSUME Fine', NEW x \in Partitions, Clear(x)' PROVE Due(x, next_seq[x])'
  <2>1. CASE x # p
    <3>1. Clear(x)
      BY <1>6, <2>1 DEF Clear
    <3>2. Due(x, next_seq[x])
      BY <1>6, <3>1 DEF Sequenced
    <3> QED BY <2>1, <3>2 DEF Due
  <2> QED BY <1>6, <2>1
<1> QED BY <1>1, <1>4, <1>5, <1>6 DEF Sequenced

\* A batch leaves its request or its retry slot.
LEMMA RequestLeaves ==
  ASSUME SlotsTyped, NEW q \in requests, requests' = requests \ {q}, retry' = retry
  PROVE  /\ \A b \in Outstanding : b.part = q.batch.part \/ b \in Outstanding'
         /\ \A b \in Outstanding' : b \in Outstanding /\ b.part # q.batch.part
<1>1. Parked' = Parked
  BY DEF Parked
<1>2. ASSUME NEW b \in Outstanding, b.part # q.batch.part PROVE b \in Outstanding'
  <2>1. CASE \E x \in requests : b = x.batch
    BY <1>2, <2>1 DEF Outstanding
  <2> QED BY <1>1, <1>2, <2>1 DEF Outstanding
<1>3. ASSUME NEW b \in Outstanding' PROVE b \in Outstanding /\ b.part # q.batch.part
  BY <1>1, <1>3 DEF Outstanding, SlotsTyped
<1> QED BY <1>2, <1>3

LEMMA SlotEmptied ==
  ASSUME SlotsTyped, NEW p \in Parked, retry' = [retry EXCEPT ![p] = NoBatch],
         requests' = requests
  PROVE  /\ \A b \in Outstanding : b.part = p \/ b \in Outstanding'
         /\ \A b \in Outstanding' : b \in Outstanding /\ b.part # p
<1>1. Parked' = Parked \ {p} /\ \A x \in Parked' : retry'[x] = retry[x]
  BY DEF Parked, SlotsTyped
<1>2. ASSUME NEW b \in Outstanding, b.part # p PROVE b \in Outstanding'
  BY <1>1, <1>2 DEF Outstanding, SlotsTyped
<1>3. ASSUME NEW b \in Outstanding' PROVE b \in Outstanding /\ b.part # p
  BY <1>1, <1>3 DEF Outstanding, SlotsTyped
<1> QED BY <1>2, <1>3

\* A batch goes on in a new form, or in another slot.
LEMMA RequestParked ==
  ASSUME SlotsTyped, NEW q \in requests, NEW n, n # NoBatch, n.part = q.batch.part,
         requests' = requests \ {q}, retry' = [retry EXCEPT ![q.batch.part] = n]
  PROVE  /\ \A b \in Outstanding : b.part = q.batch.part \/ b \in Outstanding'
         /\ \A b \in Outstanding' : b = n \/ (b \in Outstanding /\ b.part # q.batch.part)
         /\ n \in Outstanding'
<1> DEFINE p == q.batch.part
<1>1. p \in Partitions /\ p \notin Parked
  BY RequestBatch DEF SlotsTyped
<1>2. /\ Parked' = Parked \cup {p} /\ retry'[p] = n
      /\ \A x \in Parked : retry'[x] = retry[x]
  BY <1>1 DEF Parked, SlotsTyped
<1>3. ASSUME NEW b \in Outstanding, b.part # p PROVE b \in Outstanding'
  BY <1>1, <1>2, <1>3 DEF Outstanding, SlotsTyped
<1>4. ASSUME NEW b \in Outstanding' PROVE b = n \/ (b \in Outstanding /\ b.part # p)
  <2>1. CASE b \in {x.batch : x \in requests'}
    BY <2>1 DEF Outstanding, SlotsTyped
  <2>2. CASE b \in {retry'[x] : x \in Parked'}
    BY <1>1, <1>2, <2>2 DEF Outstanding, SlotsTyped
  <2> QED BY <1>4, <2>1, <2>2 DEF Outstanding
<1>5. n \in Outstanding'
  BY <1>2 DEF Outstanding
<1> QED BY <1>3, <1>4, <1>5

LEMMA RequestReplaced ==
  ASSUME NEW q \in requests, NEW n, n.batch = q.batch,
         requests' = (requests \ {q}) \cup {n}, retry' = retry
  PROVE  Outstanding' = Outstanding
<1>1. Parked' = Parked
  BY DEF Parked
<1>2. {x.batch : x \in requests'} = {x.batch : x \in requests}
  OBVIOUS
<1> QED BY <1>1, <1>2 DEF Outstanding

LEMMA SlotResent ==
  ASSUME SlotsTyped, NEW p \in Parked, retry' = [retry EXCEPT ![p] = NoBatch],
         NEW n, n.batch = retry[p], requests' = requests \cup {n}
  PROVE  Outstanding' = Outstanding
<1>1. Parked' = Parked \ {p} /\ \A x \in Parked' : retry'[x] = retry[x]
  BY DEF Parked, SlotsTyped
<1>2. ASSUME NEW b \in Outstanding'
      PROVE  b \in Outstanding
  BY <1>1 DEF Outstanding
<1>3. ASSUME NEW b \in Outstanding
      PROVE  b \in Outstanding'
  BY <1>1 DEF Outstanding
<1> QED BY <1>2, <1>3

LEMMA RequestAdded ==
  ASSUME NEW n, requests' = requests \cup {n}, retry' = retry
  PROVE  Outstanding' = Outstanding \cup {n.batch}
<1>1. Parked' = Parked
  BY DEF Parked
<1>2. ASSUME NEW b
      PROVE  b \in Outstanding' <=> b \in Outstanding \cup {n.batch}
  BY <1>1 DEF Outstanding
<1> QED BY <1>2

\* What the sender leaves alone, and that a failure is not forgotten.
LEMMA SenderKeeps ==
  ASSUME Typed, SenderWork
  PROVE  /\ UNCHANGED <<leaders, epoch, recovery_required, recovery_generation>>
         /\ Logged' = Logged /\ (Fine' => Fine) /\ (Fatal => Fatal')
<1>1. SenderFrame
  BY SenderWorkFrame
<1>2. txn_error \in {"none", "abortable", "Fenced", "Server"}
  BY DEF Typed, ControlTyped, StateTyped
<1> QED BY <1>1, <1>2 DEF SenderFrame, Logged, Fine

\* A barrier in front of a batch of the identity stands for a failure.
LEMMA BarrierMeansFailure ==
  ASSUME Sequenced, NEW b \in Outstanding, DrainedBarrier(b.gen), b.epoch = epoch
  PROVE  ~Fine
<1>1. InLine(b)
  BY DEF Sequenced
<1> QED BY <1>1 DEF InLine, DrainedBarrier, Fine, Fatal

LEMMA DrainSequenced ==
  ASSUME Ground, Sequenced, NEW p \in Partitions, DrainBatch(p)
  PROVE  Sequenced'
<1> DEFINE b == Head(queue[p])
           n == [batch |-> [part |-> p, recs |-> b.recs, gen |-> b.gen,
                            pid |-> IF Snapshot THEN 0 ELSE NoProducerId,
                            epoch |-> IF Snapshot THEN epoch ELSE -1,
                            seq |-> next_seq[p], used |-> 0],
                 answer |-> "queued"]
<1>1. SenderWork /\ Typed /\ SlotsTyped /\ QueueTyped /\ next_seq \in [Partitions -> Nat]
  BY DEF SenderWork, SenderSteps, Ground, Typed, PipelineTyped
<1>2. /\ UNCHANGED <<leaders, epoch, recovery_required, recovery_generation>>
      /\ Logged' = Logged /\ (Fine' => Fine) /\ (Fatal => Fatal')
  BY <1>1, SenderKeeps
<1>3. ~active' => Fatal'
  BY <1>2 DEF DrainBatch, Sequenced
<1>4. CASE UNCHANGED <<requests, next_seq>>
  BY <1>2, <1>3, <1>4, SequencedStays DEF DrainBatch
<1>5. CASE /\ ~UndrainedBarrier(b.gen) /\ requests' = requests \cup {n}
           /\ next_seq' = [next_seq EXCEPT ![p] = @ + Len(b.recs)]
  <2>1. b \in QueuedBatches /\ b \in UnsentBatch
    BY <1>1, QueuePops DEF DrainBatch
  <2>2. /\ b.gen = recovery_generation /\ ~recovery_required /\ ~Fatal /\ ~Abortable
        /\ b \in Current
    BY <1>5, <2>1 DEF UndrainedBarrier, DrainedBarrier, Current
  <2>3. Fine
    BY <1>1, <2>2 DEF Typed, ControlTyped, StateTyped, Fine, Fatal, Abortable
  <2>4. Snapshot
    BY <2>2 DEF Ground, Generations, Quiet
  <2> HIDE DEF b
  <2>5. /\ n.batch.part = p /\ n.batch.recs = b.recs /\ n.batch.gen = b.gen
        /\ n.batch.epoch = epoch /\ n.batch.seq = next_seq[p] /\ n.answer = "queued"
    BY <2>4
  <2> HIDE DEF n
  <2> PICK m : m = n
    OBVIOUS
  <2>6. Outstanding' = Outstanding \cup {m.batch} /\ requests' = requests \cup {m}
    BY <1>5, RequestAdded DEF DrainBatch
  <2>7. \A c \in Outstanding : c.part # p
    BY <1>1, OccupiedParts DEF DrainBatch
  <2>8. Due(p, next_seq[p])
    BY <2>3, <2>7 DEF Sequenced, Clear
  <2>9. Due(p, m.batch.seq)'
    BY <1>2, <2>5, <2>8 DEF Due
  <2>10. next_seq'[p] = next_seq[p] + Len(b.recs)
    BY <1>1, <1>5
  <2>11. InLine(m.batch)'
    BY <1>2, <2>2, <2>5, <2>9, <2>10 DEF InLine
  <2>12. ~Clear(p)'
    BY <1>2, <2>5, <2>6 DEF Clear
  <2>13. \A x \in Partitions : x # p => next_seq'[x] = next_seq[x]
    BY <1>1, <1>5
  <2>15. \A c \in Outstanding' : (c.part # p /\ c \in Outstanding) \/ (c.part = p /\ InLine(c)')
    BY <2>5, <2>6, <2>7, <2>11
  <2>16. \A q \in requests' : q \in requests \/ q.answer \in {"queued", "none"}
    BY <2>5, <2>6
  <2>14. \A c \in Outstanding : c.part \in Partitions
    BY <1>1, OutstandingTyped
  <2>17. \A c \in Outstanding' : c.part \in Partitions
    BY <2>5, <2>6, <2>14
  <2> QED BY <1>2, <1>3, <2>6, <2>12, <2>13, <2>15, <2>16, <2>17, SequencedAt
<1> QED BY <1>4, <1>5 DEF DrainBatch

\* A batch of a partition leaves: the next sequence is due, or the identity failed.
LEMMA LeavesSequenced ==
  ASSUME Typed, Sequenced, SenderWork, active' = active, NEW p \in Partitions,
         requests' \subseteq requests,
         \A b \in Outstanding : b.part = p \/ b \in Outstanding',
         \A b \in Outstanding' : b \in Outstanding /\ b.part # p,
         \A x \in Partitions : x # p => next_seq'[x] = next_seq[x],
         Fine' => Due(p, next_seq'[p]) \/ (Clear(p) /\ next_seq'[p] = next_seq[p])
  PROVE  Sequenced'
<1>1. /\ UNCHANGED <<leaders, epoch, recovery_required, recovery_generation>>
      /\ Logged' = Logged /\ (Fine' => Fine) /\ (Fatal => Fatal')
  BY SenderKeeps
<1>2. ~active' => Fatal'
  BY <1>1 DEF Sequenced
<1>3. ASSUME Fine' PROVE Due(p, next_seq[p])'
  <2>1. Due(p, next_seq'[p])
    BY <1>1, <1>3 DEF Sequenced
  <2> QED BY <1>1, <2>1 DEF Due
<1>4. \A b \in Outstanding : b.part \in Partitions
  BY OutstandingTyped DEF Typed, PipelineTyped
<1>5. \A b \in Outstanding' :
        b.part \in Partitions /\ ((b.part # p /\ b \in Outstanding) \/ (b.part = p /\ InLine(b)'))
  BY <1>4
<1>6. \A q \in requests' : q \in requests
  OBVIOUS
<1> QED BY <1>1, <1>2, <1>3, <1>5, <1>6, SequencedAt

\* A batch stays outstanding, as a request that waits or is barred.
LEMMA WaitsSequenced ==
  ASSUME Typed, Sequenced, SenderWork, UNCHANGED <<active, next_seq>>,
         Outstanding' = Outstanding,
         \A q \in requests' :
           \/ q \in requests \/ q.answer \in {"queued", "none"}
           \/ q.answer = "BARRED" /\ (q.batch.epoch = epoch => ~Fine')
  PROVE  Sequenced'
<1>1. /\ UNCHANGED <<leaders, epoch, recovery_required, recovery_generation>>
      /\ Logged' = Logged /\ (Fine' => Fine) /\ (Fatal => Fatal')
  BY SenderKeeps
<1>2. ASSUME NEW x, NEW n PROVE Due(x, n)' <=> Due(x, n)
  BY <1>1 DEF Due
<1>3. ASSUME NEW b PROVE Stored(b)' <=> Stored(b)
  BY <1>1 DEF Stored
<1>4. ASSUME NEW b \in Outstanding' PROVE InLine(b)'
  <2>1. InLine(b)
    BY <1>4 DEF Sequenced
  <2> QED BY <1>1, <1>2, <1>3, <2>1 DEF InLine
<1>5. ASSUME NEW q \in requests' PROVE AnswerTrue(q)'
  <2>1. CASE q \in requests
    <3>1. AnswerTrue(q)
      BY <2>1 DEF Sequenced
    <3> QED BY <1>1, <1>3, <3>1 DEF AnswerTrue
  <2> QED BY <1>1, <2>1, <1>5 DEF AnswerTrue
<1>6. ASSUME Fine', NEW x \in Partitions, Clear(x)' PROVE Due(x, next_seq[x])'
  <2>1. Clear(x)
    BY <1>1, <1>6 DEF Clear
  <2>2. Due(x, next_seq[x])
    BY <1>1, <1>6, <2>1 DEF Sequenced
  <2> QED BY <1>1, <2>2 DEF Due
<1>7. LeaderTyped' /\ (~active' => Fatal')
  BY <1>1 DEF Sequenced, LeaderTyped
<1> QED BY <1>4, <1>5, <1>6, <1>7 DEF Sequenced

LEMMA StartSequenced ==
  ASSUME Typed, Sequenced, NEW q \in requests, StartRequest(q)
  PROVE  Sequenced'
<1> DEFINE answer == IF DrainedBarrier(q.batch.gen) THEN "BARRED" ELSE "none"
           n == [q EXCEPT !.answer = answer]
<1>1. SenderWork /\ q \in Request /\ q.batch \in Outstanding
  BY RequestOutstanding DEF SenderWork, SenderSteps, Typed, PipelineTyped, SlotsTyped
<1>2. n.batch = q.batch /\ n.answer = answer
  BY <1>1 DEF Request
<1>3. requests' = (requests \ {q}) \cup {n}
  BY DEF StartRequest
<1>4. answer \in {"BARRED", "none"} /\ (answer = "BARRED" => DrainedBarrier(q.batch.gen))
  OBVIOUS
<1> HIDE DEF answer, n
<1>5. Outstanding' = Outstanding
  BY <1>2, <1>3, RequestReplaced DEF StartRequest
<1>6. n.answer = "BARRED" /\ n.batch.epoch = epoch => ~Fine'
  BY <1>1, <1>2, <1>4, BarrierMeansFailure, SenderKeeps
<1> QED BY <1>1, <1>2, <1>3, <1>4, <1>5, <1>6, WaitsSequenced DEF StartRequest

LEMMA ResendSequenced ==
  ASSUME Typed, Sequenced, NEW p \in Partitions, Resend(p)
  PROVE  Sequenced'
<1>1. SenderWork /\ SlotsTyped /\ p \in Parked /\ retry[p] \in Outstanding /\ retry[p].part = p
  BY ParkedOutstanding DEF SenderWork, SenderSteps, Typed, PipelineTyped, SlotsTyped, Parked, Resend
<1>2. CASE DrainedBarrier(retry[p].gen)
  <2>1. requests' = requests /\ retry' = [retry EXCEPT ![p] = NoBatch]
    BY <1>2 DEF Resend
  <2>2. ASSUME Fine' PROVE Clear(p)
    <3>1. retry[p].epoch # epoch
      BY <1>1, <1>2, <2>2, BarrierMeansFailure, SenderKeeps
    <3> QED BY <1>1, <3>1, OneBatch DEF Clear
  <2> QED BY <1>1, <2>1, <2>2, SlotEmptied, LeavesSequenced DEF Resend
<1>3. CASE ~DrainedBarrier(retry[p].gen)
  <2> DEFINE n == [batch |-> retry[p], answer |-> "queued"]
  <2>1. requests' = requests \cup {n} /\ n.answer = "queued" /\ n.batch = retry[p]
    BY <1>3 DEF Resend
  <2> HIDE DEF n
  <2>2. Outstanding' = Outstanding
    BY <1>1, <2>1, SlotResent DEF Resend
  <2> QED BY <1>1, <2>1, <2>2, WaitsSequenced DEF Resend
<1> QED BY <1>2, <1>3

\* What the verdicts on a batch of a transaction stand for.
LEMMA VerdictMeans ==
  ASSUME Transactional, NEW q \in requests, Answered(q), NEW behind \in BOOLEAN
  PROVE  /\ q.batch.pid = 0 /\ BatchMode(q.batch) = "Transactional"
         /\ Verdict(q, behind) = "Acked" => q.answer \in {"NONE", "DUPLICATE_SEQUENCE_NUMBER"}
         /\ Verdict(q, behind) = "RestartSequenceAndRetry" => q.answer = "UNKNOWN_PRODUCER_ID"
         /\ Verdict(q, behind) # "Split"
<1>1. q.batch.pid = 0 /\ q.answer # "MESSAGE_TOO_LARGE"
  BY RequestOutstanding DEF Transactional
<1>2. BatchMode(q.batch) = "Transactional"
  BY <1>1 DEF BatchMode, NoProducerId
<1>3. /\ Verdict(q, behind) = "Acked" => q.answer \in {"NONE", "DUPLICATE_SEQUENCE_NUMBER"}
      /\ Verdict(q, behind) = "RestartSequenceAndRetry" => q.answer = "UNKNOWN_PRODUCER_ID"
      /\ Verdict(q, behind) # "Split"
  BY <1>1, <1>2 DEF Verdict, VerdictWithRetries, ClassifyVerdict, Resends
<1> QED BY <1>1, <1>2, <1>3

\* A repair changes one partition.
LEMMA RepairsOne ==
  ASSUME next_seq \in [Partitions -> Nat], NEW b, NEW repair, next_seq' = Repaired(b, repair)
  PROVE  \A x \in Partitions : x # b.part => next_seq'[x] = next_seq[x]
BY DEF Repaired

LEMMA FailureNoted ==
  ASSUME NEW b, BatchMode(b) = "Transactional", txn_error' = ErrorAfterFailure(b)
  PROVE  ~Fine'
BY DEF ErrorAfterFailure, Unless, Fatal, Fine

\* The batch of a request is resolved: acknowledged, barred or failed.
LEMMA ResolveSequenced ==
  ASSUME Ground, Sequenced, NEW q \in requests,
         CompleteAcked(q) \/ CompleteBarred(q) \/ CompleteFailed(q)
  PROVE  Sequenced'
<1> DEFINE p == q.batch.part
<1>1. /\ SenderWork /\ Typed /\ SlotsTyped /\ Transactional
      /\ next_seq \in [Partitions -> Nat] /\ p \in Partitions /\ q.batch \in Outstanding
  BY RequestBatch, RequestOutstanding
     DEF SenderWork, SenderSteps, Ground, Typed, PipelineTyped
<1>2. requests' = requests \ {q} /\ retry' = retry /\ active' = active
  BY DEF CompleteAcked, CompleteBarred, CompleteFailed
<1>3. /\ requests' \subseteq requests
      /\ \A b \in Outstanding : b.part = p \/ b \in Outstanding'
      /\ \A b \in Outstanding' : b \in Outstanding /\ b.part # p
  BY <1>1, <1>2, RequestLeaves
<1>4. q.batch.epoch # epoch => Clear(p)
  BY <1>1, OneBatch DEF Clear
<1>5. AnswerTrue(q) /\ InLine(q.batch)
  BY <1>1 DEF Sequenced
<1>6. CASE CompleteAcked(q)
  <2>1. q.answer \in {"NONE", "DUPLICATE_SEQUENCE_NUMBER"} /\ next_seq' = next_seq
    BY <1>1, <1>6, VerdictMeans DEF CompleteAcked
  <2>2. q.batch.epoch = epoch => Due(p, next_seq[p])
    BY <1>5, <2>1 DEF AnswerTrue, InLine, Stored, Due
  <2> QED BY <1>1, <1>2, <1>3, <1>4, <2>1, <2>2, LeavesSequenced
<1>7. CASE CompleteBarred(q)
  <2>1. next_seq' = next_seq /\ (Fine' => Clear(p))
    BY <1>4, <1>5, <1>7 DEF CompleteBarred, AnswerTrue, Fine, txnVars
  <2> QED BY <1>1, <1>2, <1>3, <2>1, LeavesSequenced
<1>8. CASE CompleteFailed(q)
  <2>1. ~Fine'
    BY <1>1, <1>8, VerdictMeans, FailureNoted DEF CompleteFailed
  <2>2. \A x \in Partitions : x # p => next_seq'[x] = next_seq[x]
    BY <1>1, <1>8, RepairsOne DEF CompleteFailed
  <2> QED BY <1>1, <1>2, <1>3, <2>1, <2>2, LeavesSequenced
<1> QED BY <1>6, <1>7, <1>8

LEMMA ExpireSequenced ==
  ASSUME Ground, Sequenced, NEW p \in Partitions, ExpireRetry(p)
  PROVE  Sequenced'
<1>1. /\ SenderWork /\ Typed /\ SlotsTyped /\ Transactional /\ p \in Parked
      /\ next_seq \in [Partitions -> Nat] /\ retry[p] \in Outstanding /\ retry[p].part = p
  BY ParkedOutstanding
     DEF SenderWork, SenderSteps, Ground, Typed, PipelineTyped, SlotsTyped, Parked, ExpireRetry
<1>2. BatchMode(retry[p]) = "Transactional"
  BY <1>1 DEF Transactional, BatchMode, NoProducerId
<1>3. ~Fine'
  BY <1>2, FailureNoted DEF ExpireRetry
<1>4. \A x \in Partitions : x # p => next_seq'[x] = next_seq[x]
  BY <1>1, RepairsOne DEF ExpireRetry
<1> QED BY <1>1, <1>3, <1>4, SlotEmptied, LeavesSequenced DEF ExpireRetry

\* fence: the producer stops for good.
LEMMA FenceSequenced ==
  ASSUME Typed, Sequenced, SenderWork, Fatal', requests' \subseteq requests,
         Outstanding' \subseteq Outstanding, next_seq' = next_seq
  PROVE  Sequenced'
<1>1. /\ UNCHANGED <<leaders, epoch, recovery_required, recovery_generation>>
      /\ Logged' = Logged /\ (Fine' => Fine) /\ (Fatal => Fatal')
  BY SenderKeeps
<1>2. ASSUME NEW x, NEW n PROVE Due(x, n)' <=> Due(x, n)
  BY <1>1 DEF Due
<1>3. ASSUME NEW b PROVE Stored(b)' <=> Stored(b)
  BY <1>1 DEF Stored
<1>4. ASSUME NEW b \in Outstanding' PROVE InLine(b)'
  <2>1. InLine(b)
    BY <1>4 DEF Sequenced
  <2> QED BY <1>1, <1>2, <1>3, <2>1 DEF InLine
<1>5. ~Fine'
  BY DEF Fine, Fatal
<1>6. ASSUME NEW q \in requests' PROVE AnswerTrue(q)'
  <2>1. AnswerTrue(q)
    BY <1>6 DEF Sequenced
  <2> QED BY <1>1, <1>3, <1>5, <2>1 DEF AnswerTrue
<1>7. LeaderTyped'
  BY <1>1 DEF Sequenced, LeaderTyped
<1> QED BY <1>4, <1>5, <1>6, <1>7 DEF Sequenced

\* The batch goes to the retry slot, as it is or restarted at sequence 0 at a
\* leader that does not know the producer.
Reparked(b, n) ==
  /\ n.part = b.part /\ n.recs = b.recs /\ n.epoch = b.epoch /\ n.gen = b.gen
  /\ n.pid = b.pid /\ n # NoBatch
  /\ retry' = [retry EXCEPT ![b.part] = n]
  /\ \/ n.seq = b.seq /\ next_seq' = next_seq
     \/ /\ n.seq = 0 /\ leaders[b.part] = NoProducerState
        /\ next_seq' = [next_seq EXCEPT ![b.part] = Len(b.recs)]

LEMMA RetryParks ==
  ASSUME Ground, Sequenced, NEW q \in requests, CompleteRetry(q)
  PROVE  \E n : Reparked(q.batch, n)
<1> DEFINE b == q.batch
<1>1. Transactional /\ b \in SealedBatch /\ AnswerTrue(q)
  BY RequestBatch DEF Ground, Typed, PipelineTyped, Sequenced
<1>2. PICK behind \in BOOLEAN :
        \/ /\ Verdict(q, behind) = "Retry"
           /\ retry' = [retry EXCEPT ![b.part] = [b EXCEPT !.used = @ + 1]]
           /\ UNCHANGED next_seq
        \/ /\ Verdict(q, behind) = "RestartSequenceAndRetry"
           /\ retry' = [retry EXCEPT ![b.part] = [b EXCEPT !.used = @ + 1, !.seq = 0]]
           /\ next_seq' = [next_seq EXCEPT ![b.part] = Len(b.recs)]
  BY DEF CompleteRetry
<1>3. b.used < Retries
  BY <1>1, <1>2, TransactionConstants DEF SealedBatch, Verdict, VerdictWithRetries, Resends
<1>4. Verdict(q, behind) = "RestartSequenceAndRetry" => leaders[b.part] = NoProducerState
  BY <1>1, VerdictMeans DEF AnswerTrue, CompleteRetry
<1>5. b.used + 1 \in 0..Retries /\ 0 \in Nat
  BY <1>1, <1>3, TransactionConstants DEF SealedBatch
<1> HIDE DEF b
<1>6. [b EXCEPT !.used = @ + 1] \in SealedBatch
      /\ [b EXCEPT !.used = @ + 1, !.seq = 0] \in SealedBatch
  BY <1>1, <1>5 DEF SealedBatch
<1>7. CASE Verdict(q, behind) = "Retry"
  <2>1. Reparked(b, [b EXCEPT !.used = @ + 1])
    BY <1>1, <1>2, <1>6, <1>7, NoBatchAssumption DEF SealedBatch, Reparked
  <2> QED BY <2>1 DEF b
<1>8. CASE Verdict(q, behind) = "RestartSequenceAndRetry"
  <2>1. Reparked(b, [b EXCEPT !.used = @ + 1, !.seq = 0])
    BY <1>1, <1>2, <1>4, <1>6, <1>8, NoBatchAssumption DEF SealedBatch, Reparked
  <2> QED BY <2>1 DEF b
<1> QED BY <1>2, <1>7, <1>8

LEMMA RetrySequenced ==
  ASSUME Ground, Sequenced, NEW q \in requests, CompleteRetry(q)
  PROVE  Sequenced'
<1> DEFINE b == q.batch
           p == q.batch.part
<1>1. /\ SenderWork /\ Typed /\ SlotsTyped /\ Transactional
      /\ next_seq \in [Partitions -> Nat] /\ p \in Partitions /\ b \in Outstanding
      /\ b \in SealedBatch
  BY RequestBatch, RequestOutstanding
     DEF SenderWork, SenderSteps, Ground, Typed, PipelineTyped
<1>2. /\ UNCHANGED <<leaders, epoch, recovery_required, recovery_generation>>
      /\ Logged' = Logged /\ (Fine' => Fine) /\ (Fatal => Fatal')
  BY <1>1, SenderKeeps
<1>3. requests' = requests \ {q} /\ active' = active
  BY DEF CompleteRetry
<1>4. InLine(b) /\ AnswerTrue(q)
  BY <1>1 DEF Sequenced
<1>14. PICK n : Reparked(q.batch, n)
  BY RetryParks
<1>5. /\ n.part = p /\ n.recs = b.recs /\ n.epoch = b.epoch /\ n.gen = b.gen
        /\ n.pid = b.pid /\ n # NoBatch
        /\ retry' = [retry EXCEPT ![p] = n]
        /\ \/ n.seq = b.seq /\ next_seq' = next_seq
           \/ /\ n.seq = 0 /\ leaders[p] = NoProducerState
              /\ next_seq' = [next_seq EXCEPT ![p] = Len(b.recs)]
  BY <1>14 DEF Reparked
<1>6. /\ \A c \in Outstanding : c.part = p \/ c \in Outstanding'
      /\ \A c \in Outstanding' : c = n \/ (c \in Outstanding /\ c.part # p)
      /\ n \in Outstanding'
  BY <1>1, <1>3, <1>5, RequestParked
<1>7. b.recs \in Seq(Records) /\ b.seq \in Nat /\ b.part = p /\ Len(b.recs) \in Nat
  BY <1>1, OutstandingTyped
<1> HIDE DEF b, p
<1>8. \A x \in Partitions : x # p => next_seq'[x] = next_seq[x]
  BY <1>1, <1>5
<1>9. InLine(n)'
  <2>1. CASE n.seq = b.seq /\ next_seq' = next_seq
    <3>1. Due(p, b.seq) => Due(n.part, n.seq)'
      BY <1>2, <1>5, <2>1 DEF Due
    <3>2. Stored(b) => Stored(n)'
      BY <1>2, <1>5, <1>7, <2>1 DEF Stored
    <3> QED BY <1>2, <1>4, <1>5, <1>7, <2>1, <3>1, <3>2 DEF InLine
  <2>2. CASE /\ n.seq = 0 /\ leaders[p] = NoProducerState
             /\ next_seq' = [next_seq EXCEPT ![p] = Len(b.recs)]
    <3>1. Due(n.part, n.seq)'
      BY <1>2, <1>5, <2>2 DEF Due
    <3>2. next_seq'[n.part] = n.seq + Len(n.recs)
      BY <1>1, <1>5, <1>7, <2>2
    <3> QED BY <1>2, <1>4, <1>5, <1>7, <2>2, <3>1, <3>2 DEF InLine
  <2> QED BY <1>5, <2>1, <2>2
<1>10. ASSUME Fine', Clear(p)' PROVE Due(p, next_seq[p])'
  <2>1. CASE next_seq' = next_seq
    <3>1. n.epoch # epoch
      BY <1>2, <1>5, <1>6, <1>10 DEF Clear
    <3>2. Clear(p)
      BY <1>1, <1>5, <1>7, <3>1, OneBatch DEF Clear
    <3>3. Due(p, next_seq[p])
      BY <1>1, <1>2, <1>10, <3>2 DEF Sequenced
    <3> QED BY <1>2, <2>1, <3>3 DEF Due
  <2>2. CASE leaders[p] = NoProducerState
    BY <1>2, <2>2 DEF Due
  <2> QED BY <1>5, <2>1, <2>2
<1>11. \A c \in Outstanding' :
         c.part \in Partitions /\ ((c.part # p /\ c \in Outstanding) \/ (c.part = p /\ InLine(c)'))
  BY <1>1, <1>5, <1>6, <1>9, OutstandingTyped
<1>12. ~active' => Fatal'
  BY <1>2, <1>3 DEF Sequenced
<1> QED BY <1>1, <1>2, <1>3, <1>6, <1>8, <1>10, <1>11, <1>12, SequencedAt

LEMMA SenderSequenced ==
  ASSUME Ground, Sequenced, SenderWork
  PROVE  Sequenced'
<1>1. /\ Typed /\ Transactional
      /\ UNCHANGED <<leaders, epoch, recovery_required, recovery_generation>>
      /\ Logged' = Logged /\ (Fine' => Fine) /\ (Fatal => Fatal')
  BY SenderKeeps DEF Ground
<1>2. ASSUME NEW p \in Partitions, DrainBatch(p) \/ Resend(p) \/ ExpireRetry(p)
      PROVE  Sequenced'
  BY <1>1, <1>2, DrainSequenced, ResendSequenced, ExpireSequenced
<1>3. ASSUME NEW q \in requests,
             \/ StartRequest(q) \/ CompleteAcked(q) \/ CompleteBarred(q)
             \/ CompleteRetry(q) \/ CompleteFailed(q)
      PROVE  Sequenced'
  BY <1>1, <1>3, StartSequenced, ResolveSequenced, RetrySequenced
<1>4. ASSUME NEW q \in requests PROVE ~CompleteSplit(q)
  BY <1>1, VerdictMeans DEF CompleteSplit
<1>5. CASE DrainFence \/ \E q \in requests : CompleteFatal(q)
  <2>1. requests' \subseteq requests /\ next_seq' = next_seq /\ Parked' = {}
    BY <1>5 DEF DrainFence, CompleteFatal, FenceAll, Parked
  <2>2. Outstanding' \subseteq Outstanding
    BY <2>1 DEF Outstanding
  <2>3. Fatal'
    <3>1. CASE DrainFence
      BY <1>1, <3>1 DEF DrainFence, Sequenced
    <3>2. CASE \E q \in requests : CompleteFatal(q)
      BY <3>2 DEF CompleteFatal, Fatal
    <3> QED BY <1>5, <3>1, <3>2
  <2> QED BY <1>1, <2>1, <2>2, <2>3, FenceSequenced
<1>6. CASE SweepRecovered \/ FailExpired \/ \E p \in Partitions : TakeExpired(p)
  <2>1. UNCHANGED <<requests, retry, next_seq, active>>
    BY <1>6 DEF SweepRecovered, FailExpired, TakeExpired
  <2>2. ~active' => Fatal'
    BY <1>1, <2>1 DEF Sequenced
  <2> QED BY <1>1, <2>1, <2>2, SequencedStays
<1> QED BY <1>2, <1>3, <1>4, <1>5, <1>6 DEF SenderWork, SenderSteps

-----------------------------------------------------------------------------
(* The leaders.                                                            *)

\* The leader of one partition changes, or answers.
LEMMA SequencedLeader ==
  ASSUME Typed, Sequenced,
         UNCHANGED <<epoch, recovery_required, recovery_generation, txn_error, active, next_seq>>,
         Outstanding' = Outstanding, Logged \subseteq Logged', LeaderTyped',
         NEW p \in Partitions,
         \A x \in Partitions : x # p => leaders'[x] = leaders[x],
         \A b \in Outstanding : b.part = p => InLine(b)',
         Fine /\ Clear(p) => Due(p, next_seq[p])',
         \A q \in requests' : (q \in requests /\ q.batch.part # p) \/ AnswerTrue(q)'
  PROVE  Sequenced'
<1>1. SlotsTyped
  BY DEF Typed, PipelineTyped
<1>2. ASSUME NEW x \in Partitions, x # p, NEW n PROVE Due(x, n)' <=> Due(x, n)
  BY <1>2 DEF Due
<1>3. ASSUME NEW b, b.part \in Partitions, b.part # p, Stored(b) PROVE Stored(b)'
  BY <1>3 DEF Stored
<1>4. ASSUME NEW b \in Outstanding' PROVE InLine(b)'
  <2>1. b \in Outstanding /\ b.part \in Partitions /\ InLine(b)
    BY <1>1, OutstandingTyped DEF Sequenced
  <2>2. CASE b.part # p
    BY <1>2, <1>3, <2>1, <2>2 DEF InLine
  <2> QED BY <2>1, <2>2
<1>5. ASSUME NEW q \in requests' PROVE AnswerTrue(q)'
  <2>1. CASE q \in requests /\ q.batch.part # p
    <3>1. q.batch.part \in Partitions /\ AnswerTrue(q)
      BY <1>1, <2>1, RequestBatch DEF Sequenced
    <3>2. leaders'[q.batch.part] = leaders[q.batch.part]
      BY <2>1, <3>1
    <3>3. Stored(q.batch) => Stored(q.batch)'
      BY <1>3, <2>1, <3>1
    <3> QED BY <3>1, <3>2, <3>3 DEF AnswerTrue, Fine
  <2> QED BY <1>5, <2>1
<1>6. ASSUME Fine', NEW x \in Partitions, Clear(x)' PROVE Due(x, next_seq[x])'
  <2>1. Clear(x) /\ Fine
    BY <1>6 DEF Clear, Fine
  <2>2. CASE x # p
    <3>1. Due(x, next_seq[x])
      BY <2>1 DEF Sequenced
    <3> QED BY <2>2, <3>1 DEF Due
  <2> QED BY <2>1, <2>2
<1>7. ~active' => Fatal'
  BY DEF Sequenced, Fatal
<1> QED BY <1>4, <1>5, <1>6, <1>7 DEF Sequenced

\* The leader appends the batch of a request.
Takes(b) ==
  /\ TxnLeaderCode(b) = "NONE"
  /\ leaders' = [leaders EXCEPT ![b.part] = StateAfterAppend(@, b)]
  /\ open' = open \cup Elems(b.recs) /\ UNCHANGED <<committed, aborted, plain>>

Refused == {"RETRIABLE", "TERMINAL", "FATAL", "TRANSPORT"}

LEMMA LeaderServes ==
  ASSUME Ground, LeaderWork
  PROVE  /\ LeaderFrame
         /\ \E q \in requests : \E code :
              /\ q.answer = "none" /\ Answer(q, code)
              /\ \/ Takes(q.batch) /\ code \in Refused \cup {"NONE"}
                 \/ /\ UNCHANGED <<leaders, coordVars, plain>>
                    /\ code \in Refused \/ (code = TxnLeaderCode(q.batch) /\ code # "NONE")
<1>1. PICK q \in requests :
        \/ LeaderAnswers(q) \/ LeaderAppendsAndFails(q) \/ TransportFails(q)
        \/ \E code \in ProduceCodes : LeaderRefuses(q, code)
  BY DEF LeaderWork
<1>2. q.batch.pid # NoProducerId
  BY RequestOutstanding DEF Ground, Transactional, NoProducerId
<1>3. LeaderFrame
  BY <1>1 DEF LeaderFrame, LeaderAnswers, LeaderAppendsAndFails, TransportFails, LeaderRefuses
<1>4. ASSUME LeaderAppends(q.batch)
      PROVE  \/ Takes(q.batch)
             \/ UNCHANGED <<leaders, coordVars, plain>> /\ TxnLeaderCode(q.batch) # "NONE"
  BY <1>2, <1>4 DEF LeaderAppends, Takes, logVars
<1>5. CASE LeaderAnswers(q)
  <2>1. q.answer = "none" /\ Answer(q, TxnLeaderCode(q.batch)) /\ LeaderAppends(q.batch)
    BY <1>5 DEF LeaderAnswers
  <2>2. Takes(q.batch) => TxnLeaderCode(q.batch) = "NONE"
    BY DEF Takes
  <2> QED BY <1>3, <1>4, <2>1, <2>2
<1>6. CASE LeaderAppendsAndFails(q)
  <2>1. q.answer = "none" /\ Answer(q, "RETRIABLE") /\ LeaderAppends(q.batch)
    BY <1>6 DEF LeaderAppendsAndFails
  <2> QED BY <1>3, <1>4, <2>1 DEF Refused
<1>7. CASE TransportFails(q)
  <2>1. q.answer = "none" /\ Answer(q, "TRANSPORT")
    BY <1>7 DEF TransportFails
  <2>2. Takes(q.batch) \/ UNCHANGED <<leaders, coordVars, plain>>
    BY <1>4, <1>7 DEF TransportFails, logVars
  <2> QED BY <1>3, <2>1, <2>2 DEF Refused
<1>8. ASSUME NEW code \in ProduceCodes, LeaderRefuses(q, code)
      PROVE  /\ q.answer = "none" /\ Answer(q, code) /\ code \in Refused
             /\ UNCHANGED <<leaders, coordVars, plain>>
  BY <1>8, TransactionConstants DEF LeaderRefuses, Refused, logVars
<1> QED BY <1>1, <1>3, <1>5, <1>6, <1>7, <1>8

\* What the code of a leader says of a batch of a transaction.
LEMMA CodeMeans ==
  ASSUME NoSplit, Ground, Epochs, LeaderTyped, NEW b \in Outstanding
  PROVE  /\ TxnLeaderCode(b) \in {"NONE", "DUPLICATE_SEQUENCE_NUMBER"} =>
              b.epoch = epoch /\ b.epoch = coord.epoch
         /\ TxnLeaderCode(b) = "NONE" =>
              \/ leaders[b.part].epoch < b.epoch /\ b.seq = 0
              \/ leaders[b.part].epoch = b.epoch /\ b.seq = leaders[b.part].expected
         /\ TxnLeaderCode(b) = "DUPLICATE_SEQUENCE_NUMBER" =>
              leaders[b.part].epoch = b.epoch /\ b.seq # leaders[b.part].expected
         /\ TxnLeaderCode(b) = "UNKNOWN_PRODUCER_ID" => leaders[b.part] = NoProducerState
<1>1. /\ b.part \in Partitions /\ b.epoch \in Int /\ b.seq \in Nat /\ Len(b.recs) \in Nat
      /\ b.pid # NoProducerId /\ Len(b.recs) <= BrokerMax
  BY OutstandingTyped, TransactionConstants
     DEF Ground, Typed, PipelineTyped, Transactional, NoSplit, NoProducerId
<1>2. leaders[b.part].epoch \in Int /\ leaders[b.part].expected \in Nat
  BY <1>1 DEF LeaderTyped
<1>3. epoch \in Int /\ coord.epoch \in Int /\ b.epoch <= epoch /\ epoch <= coord.epoch
  BY EpochTypes DEF Ground, Epochs
<1>4. TxnLeaderCode(b) # "INVALID_PRODUCER_EPOCH" => b.epoch = epoch /\ b.epoch = coord.epoch
  BY <1>1, <1>3 DEF TxnLeaderCode
<1>5. CASE b.epoch # coord.epoch
  BY <1>1, <1>5 DEF TxnLeaderCode
<1>6. CASE b.epoch = coord.epoch
  <2>1. TxnLeaderCode(b) = LeaderCode(leaders[b.part], b, BrokerMax) /\ ~(Len(b.recs) > BrokerMax)
    BY <1>1, <1>6, TransactionConstants DEF TxnLeaderCode
  <2>2. leaders[b.part].epoch = -1 => leaders[b.part] = NoProducerState
    BY <1>1 DEF LeaderTyped
  <2> QED BY <1>1, <1>2, <1>4, <2>1, <2>2 DEF LeaderCode
<1> QED BY <1>5, <1>6

LEMMA TakenStored ==
  ASSUME NoSplit, Ground, Epochs, LeaderTyped, NEW b \in Outstanding, Takes(b), epoch' = epoch
  PROVE  Stored(b)' /\ LeaderTyped'
<1> DEFINE p == b.part
           s == leaders[b.part]
<1>1. /\ p \in Partitions /\ b.epoch \in Int /\ b.seq \in Nat /\ Len(b.recs) \in Nat
      /\ epoch \in Int /\ b.epoch = epoch /\ 0 <= b.epoch
  BY OutstandingTyped, CodeMeans, EpochTypes
     DEF Ground, Typed, PipelineTyped, Takes, Epochs
<1>2. s \in [epoch : Int, expected : Nat, accepted : SUBSET Nat]
  BY <1>1 DEF LeaderTyped
<1>3. \/ s.epoch < b.epoch /\ b.seq = 0
      \/ s.epoch = b.epoch /\ b.seq = s.expected
  BY CodeMeans DEF Takes
<1> HIDE DEF s
<1>4. /\ StateAfterAppend(s, b) \in [epoch : Int, expected : Nat, accepted : SUBSET Nat]
      /\ StateAfterAppend(s, b).epoch = b.epoch /\ b.seq \in StateAfterAppend(s, b).accepted
      /\ StateAfterAppend(s, b).expected = b.seq + Len(b.recs)
  <2>1. CASE s.epoch < b.epoch
    BY <1>1, <1>2, <1>3, <2>1 DEF StateAfterAppend
  <2>2. CASE s.epoch = b.epoch /\ b.seq = s.expected
    <3>1. StateAfterAppend(s, b) =
            [s EXCEPT !.expected = @ + Len(b.recs), !.accepted = @ \cup {b.seq}]
      BY <1>1, <1>2, <2>2 DEF StateAfterAppend
    <3>2. s.expected + Len(b.recs) \in Nat /\ s.accepted \cup {b.seq} \in SUBSET Nat
      BY <1>1, <1>2
    <3> QED BY <1>2, <2>2, <3>1, <3>2
  <2> QED BY <1>3, <2>1, <2>2
<1>5. leaders'[p] = StateAfterAppend(s, b) /\ \A x \in Partitions : x # p => leaders'[x] = leaders[x]
  BY <1>1 DEF Takes, LeaderTyped, s
<1>6. leaders' \in [Partitions -> [epoch : Int, expected : Nat, accepted : SUBSET Nat]]
  BY <1>1, <1>4 DEF Takes, LeaderTyped, s
<1>7. Elems(b.recs) \subseteq Logged'
  BY DEF Takes, Logged
<1>8. Stored(b)'
  BY <1>4, <1>5, <1>7 DEF Stored
<1>9. LeaderTyped'
  <2>1. ASSUME NEW x \in Partitions
        PROVE  /\ -1 <= leaders'[x].epoch /\ leaders'[x].epoch <= epoch'
               /\ leaders'[x].epoch = -1 => leaders'[x] = NoProducerState
    <3>1. CASE x = p
      BY <1>1, <1>4, <1>5, <3>1
    <3> QED BY <1>5, <3>1 DEF LeaderTyped
  <2> QED BY <1>6, <2>1 DEF LeaderTyped
<1> QED BY <1>8, <1>9

LEMMA LeaderSequenced ==
  ASSUME NoSplit, Ground, Epochs, Sequenced, LeaderWork
  PROVE  Sequenced'
<1>1. PICK q \in requests : \E code :
        /\ q.answer = "none" /\ Answer(q, code)
        /\ \/ Takes(q.batch) /\ code \in Refused \cup {"NONE"}
           \/ /\ UNCHANGED <<leaders, coordVars, plain>>
              /\ code \in Refused \/ (code = TxnLeaderCode(q.batch) /\ code # "NONE")
  BY LeaderServes
<1>10. PICK code :
        /\ q.answer = "none" /\ Answer(q, code)
        /\ \/ Takes(q.batch) /\ code \in Refused \cup {"NONE"}
           \/ /\ UNCHANGED <<leaders, coordVars, plain>>
              /\ code \in Refused \/ (code = TxnLeaderCode(q.batch) /\ code # "NONE")
  BY <1>1
<1> DEFINE b == q.batch
           n == [q EXCEPT !.answer = code]
<1>2. /\ UNCHANGED <<epoch, recovery_required, recovery_generation, txn_error, active,
                     next_seq, retry>>
      /\ Typed /\ SlotsTyped /\ LeaderTyped
  BY LeaderServes DEF LeaderFrame, txnVars, Ground, Typed, PipelineTyped, Sequenced
<1>3. /\ b \in Outstanding /\ b.part \in Partitions /\ InLine(b) /\ b.epoch \in Int
      /\ n.batch = b /\ n.answer = code
  BY <1>2, RequestOutstanding, RequestBatch, OutstandingTyped
     DEF Sequenced, SlotsTyped, Request
<1>4. requests' = (requests \ {q}) \cup {n}
  BY <1>10 DEF Answer
<1> HIDE DEF n
<1>5. Outstanding' = Outstanding
  BY <1>2, <1>3, <1>4, RequestReplaced
<1>6. \A c \in Outstanding : c.part = b.part => c = b
  BY <1>2, <1>3, OneBatch
<1>7. \A x \in requests' : (x \in requests /\ x.batch.part # b.part) \/ x = n
  BY <1>2, <1>4 DEF SlotsTyped
<1>8. CASE Takes(b) /\ code \in Refused \cup {"NONE"}
  <2>1. Stored(b)' /\ LeaderTyped' /\ b.epoch = epoch
    BY <1>2, <1>3, <1>8, TakenStored, CodeMeans DEF Takes
  <2>2. InLine(b)'
    BY <1>2, <1>3, <2>1 DEF InLine
  <2>3. AnswerTrue(n)'
    BY <1>3, <1>8, <2>1 DEF AnswerTrue, Stored, Refused
  <2>4. ~Clear(b.part) /\ Logged \subseteq Logged'
    BY <1>3, <1>8, <2>1 DEF Clear, Takes, Logged
  <2>5. \A x \in Partitions : x # b.part => leaders'[x] = leaders[x]
    BY <1>2, <1>8 DEF Takes, LeaderTyped
  <2> QED BY <1>2, <1>3, <1>5, <1>6, <1>7, <2>1, <2>2, <2>3, <2>4, <2>5, SequencedLeader
<1>9. CASE /\ UNCHANGED <<leaders, coordVars, plain>>
           /\ code \in Refused \/ (code = TxnLeaderCode(b) /\ code # "NONE")
  <2>1. Logged' = Logged
    BY <1>9 DEF coordVars, Logged
  <2>2. ASSUME NEW x, NEW m PROVE Due(x, m)' <=> Due(x, m)
    BY <1>2, <1>9 DEF Due
  <2>3. Stored(b)' <=> Stored(b)
    BY <1>9, <2>1 DEF Stored
  <2>4. InLine(b)'
    BY <1>2, <1>3, <2>2, <2>3 DEF InLine
  <2>5. LeaderTyped'
    BY <1>2, <1>9 DEF LeaderTyped
  <2>6. code = "UNKNOWN_PRODUCER_ID" => leaders[b.part] = NoProducerState
    BY <1>2, <1>3, <1>9, CodeMeans DEF Refused
  <2>7. code # "NONE" /\ code # "BARRED"
    <3>1. TxnLeaderCode(b) # "BARRED"
      BY DEF TxnLeaderCode, LeaderCode
    <3> QED BY <1>9, <3>1 DEF Refused
  <2>8. code = "DUPLICATE_SEQUENCE_NUMBER" => Stored(b)
    <3>1. code = "DUPLICATE_SEQUENCE_NUMBER" =>
            /\ leaders[b.part].epoch = b.epoch /\ b.epoch = epoch
            /\ b.seq # leaders[b.part].expected
      BY <1>2, <1>3, <1>9, CodeMeans DEF Refused
    <3>2. 0 <= b.epoch
      BY <1>3 DEF Epochs
    <3> QED BY <1>3, <3>1, <3>2 DEF InLine, Due, NoProducerState
  <2>9. AnswerTrue(n)'
    BY <1>2, <1>3, <1>9, <2>1, <2>3, <2>6, <2>7, <2>8 DEF AnswerTrue, Stored
  <2>10. Fine /\ Clear(b.part) => Due(b.part, next_seq[b.part])'
    BY <1>2, <1>3, <2>2 DEF Sequenced
  <2> QED BY <1>2, <1>3, <1>5, <1>6, <1>7, <1>9, <2>1, <2>4, <2>5, <2>9, <2>10, SequencedLeader
<1> QED BY <1>10, <1>8, <1>9

LEMMA ForgetSequenced ==
  ASSUME Ground, Sequenced, NEW p \in Partitions, LeaderForgets(p)
  PROVE  Sequenced'
<1>1. /\ UNCHANGED <<epoch, recovery_required, recovery_generation, txn_error, active,
                     next_seq, retry, requests, coordVars, plain>>
      /\ Typed /\ SlotsTyped /\ LeaderTyped
  BY DEF LeaderForgets, txnVars, senderVars, Ground, Typed, PipelineTyped, Sequenced
<1>2. Outstanding' = Outstanding /\ Logged' = Logged
  BY <1>1 DEF Outstanding, Parked, Logged, coordVars
<1>3. \A b \in Outstanding : b.part # p
  BY <1>1, OccupiedParts DEF LeaderForgets
<1>4. leaders'[p] = NoProducerState /\ \A x \in Partitions : x # p => leaders'[x] = leaders[x]
  BY <1>1 DEF LeaderForgets, LeaderTyped
<1>5. NoProducerState \in [epoch : Int, expected : Nat, accepted : SUBSET Nat]
      /\ NoProducerState.epoch = -1
  BY DEF NoProducerState
<1>6. LeaderTyped'
  <2>1. leaders' \in [Partitions -> [epoch : Int, expected : Nat, accepted : SUBSET Nat]]
    BY <1>1, <1>5 DEF LeaderForgets, LeaderTyped
  <2>2. -1 <= epoch /\ epoch \in Int
    BY <1>1 DEF LeaderTyped, Typed, ControlTyped, StateTyped
  <2>3. ASSUME NEW x \in Partitions
        PROVE  /\ -1 <= leaders'[x].epoch /\ leaders'[x].epoch <= epoch'
               /\ leaders'[x].epoch = -1 => leaders'[x] = NoProducerState
    <3>1. CASE x = p
      BY <1>1, <1>4, <1>5, <2>2, <3>1
    <3> QED BY <1>1, <1>4, <3>1 DEF LeaderTyped
  <2> QED BY <2>1, <2>3 DEF LeaderTyped
<1>7. Due(p, next_seq[p])'
  BY <1>4 DEF Due
<1>8. \A q \in requests' : q \in requests /\ q.batch.part # p
  BY <1>1, <1>3, RequestOutstanding
<1> QED BY <1>1, <1>2, <1>3, <1>4, <1>6, <1>7, <1>8, SequencedLeader

-----------------------------------------------------------------------------
(* The transactional calls.                                                *)

\* The logs only grow.
LEMMA LoggedGrows ==
  ASSUME Ground, Cases
  PROVE  Logged \subseteq Logged'
<1>1. ControlTyped
  BY DEF Ground, Typed
<1>2. CASE LeaderWork
  BY <1>2, LeaderServes DEF Takes, Logged, coordVars
<1>3. CASE ~LeaderWork
  <2>1. plain' = plain
    BY <1>1, <1>3, BatchCases, SenderWorkFrame
       DEF Still, SenderFrame, SendAppend, DropScan, logVars
  <2>2. UNCHANGED coordVars \/ Finishes \/ \E keep \in BOOLEAN : Raises(keep)
    BY <1>1, <1>3, CoordCases
  <2> QED BY <2>1, <2>2 DEF Logged, coordVars, Finishes, CoordinatorEnds, Raises, CoordinatorInits
<1> QED BY <1>2, <1>3

\* A step that is none of the sender's, of a leader or of an adoption.
Calm ==
  UNCHANGED <<leaders, epoch, requests, retry, next_seq, active>> /\ (Fine' => Fine)

LEMMA CalmSteps ==
  ASSUME ControlTyped, Cases
  PROVE  \/ SenderWork \/ LeaderWork \/ (\E p \in Partitions : LeaderForgets(p))
         \/ InitAdopt \/ (EndTxnApply /\ call.decision = "Complete") \/ Calm
<1>1. CASE BeginTransaction \/ (\E p \in Partitions : SendLock(p) \/ FlushScan(p) \/ DropScan(p))
  BY <1>1 DEF BeginTransaction, SendLock, FlushScan, DropScan, Calm, Fine, txnVars,
              senderVars, logVars
<1>2. ASSUME NEW op \in {"commit", "abort"}, NEW t \in 0..MaxTransactions, Ends(op, t)
      PROVE  Calm
  BY <1>2 DEF Ends, EndStart, Calm, Fine, senderVars, logVars
<1>3. ASSUME NEW t \in Transactions, PrepareStart(t) \/ DropGuard(t)
      PROVE  Calm
  BY <1>3 DEF PrepareStart, DropGuard, RequireRecovery, Calm, Fine, senderVars, logVars
<1>4. CASE (\E keep \in BOOLEAN : InitStart(keep)) \/ FlushTimeout \/ CancelCall
  BY <1>4 DEF InitStart, FlushTimeout, CancelCall, RequireRecovery, Calm, Fine, senderVars,
              logVars
<1>5. CASE FlushDone \/ DrainDone
  BY <1>5 DEF FlushDone, DrainDone, Calm, Fine, senderVars, logVars, txnVars
<1>6. CASE EndTxnStep
  BY <1>6, EndTxnStepEffect DEF EndTxnEffect, Calm, Fine, senderVars, logVars, txnVars
<1>7. CASE EndTxnLookup \/ InitAnswered \/ InitLost \/ OtherInit
  BY <1>7 DEF EndTxnLookup, InitAnswered, InitLost, OtherInit, Calm, Fine, senderVars,
              logVars, txnVars
<1>8. CASE EndTxnApply /\ call.decision # "Complete"
  BY <1>8 DEF EndTxnApply, FatalReturn, RequireRecovery, Unless, Fatal, Calm, Fine, logVars
<1>9. CASE SendRegister \/ SendAppend
  BY <1>9 DEF SendRegister, SendAppend, Calm, Fine, senderVars, logVars, txnVars
<1>10. ASSUME NEW code \in RefusalCodes, SendRegisterRefused(code) \/ InitRefused(code)
       PROVE  Calm
  <2>1. CASE SendRegisterRefused(code)
    <3>1. DecideAddPartitions(code) \in {"Retry", "Abortable", "Fenced", "Fatal"}
      BY TransactionConstants DEF DecideAddPartitions
    <3> QED BY <2>1, <3>1 DEF SendRegisterRefused, Unless, Fatal, Calm, Fine, senderVars, logVars
  <2>2. CASE InitRefused(code)
    BY <2>2 DEF InitRefused, FatalReturn, Calm, Fine, senderVars, logVars
  <2> QED BY <1>10, <2>1, <2>2
<1>11. CASE UNCHANGED vars
  BY <1>11 DEF vars, txnVars, senderVars, logVars, Calm, Fine
<1> QED BY <1>1, <1>2, <1>3, <1>4, <1>5, <1>6, <1>7, <1>8, <1>9, <1>10, <1>11 DEF Cases

\* A new identity starts at sequence 0, and no leader has seen it.
LEMMA AdoptSequenced ==
  ASSUME Ground, Epochs, Sequenced, epoch < epoch', epoch' \in Int, Fatal => Fatal',
         next_seq' = [p \in Partitions |-> 0], UNCHANGED <<leaders, requests, retry, active, Logged>>
  PROVE  Sequenced'
<1>1. Outstanding' = Outstanding /\ epoch \in Int
  BY EpochTypes DEF Outstanding, Parked, Ground
<1>2. \A b \in Outstanding : b.epoch \in Int /\ b.epoch < epoch'
  BY <1>1, EpochTypes DEF Ground, Epochs
<1>3. LeaderTyped'
  BY <1>1 DEF Sequenced, LeaderTyped
<1>4. ASSUME NEW b \in Outstanding PROVE InLine(b)'
  BY <1>2 DEF InLine
<1>5. ASSUME NEW q \in requests PROVE AnswerTrue(q)'
  <2>1. AnswerTrue(q) /\ q.batch.epoch # epoch'
    BY <1>2, RequestOutstanding DEF Sequenced
  <2> QED BY <2>1 DEF AnswerTrue
<1>6. ASSUME NEW p \in Partitions PROVE Due(p, next_seq[p])'
  BY <1>1 DEF Due, Sequenced, LeaderTyped
<1>7. ~active' => Fatal'
  BY DEF Sequenced
<1> QED BY <1>1, <1>3, <1>4, <1>5, <1>6, <1>7 DEF Sequenced

LEMMA RenewedStep ==
  ASSUME TransactionV2, Opened, Renewed, Cases
  PROVE  Renewed'
<1>1. /\ ControlTyped /\ epoch \in Int /\ coord.epoch \in Int
  BY EpochTypes DEF Opened, Ground
<1> SUFFICES ASSUME call'.pc = "apply", call'.decision = "Complete"
             PROVE  epoch' < call'.found
  BY DEF Renewed
<1>2. epoch' = epoch
  <2>1. EndTxnApply \/ InitAdopt => call' = NoCall
    BY DEF EndTxnApply, ReturnTo, FatalReturn, InitAdopt
  <2>2. NoCall.pc = "none"
    BY DEF NoCall
  <2> QED BY <1>1, <2>1, <2>2, EpochStep
<1>3. CASE call' = call
  BY <1>2, <1>3 DEF Renewed
<1>4. CASE EndTxnStep
  <2>1. call'.found = EpochAfterEnd /\ (EndTxnApplies \/ EndTxnRepeated)
    BY <1>1, <1>4, EndTxnStepEffect DEF EndTxnEffect
  <2> QED BY <1>1, <1>2, <2>1 DEF EpochAfterEnd, EndTxnApplies, EndTxnRepeated
<1> QED BY <1>1, <1>3, <1>4, AdoptingStep

LEMMA SequencedStep ==
  ASSUME NoSplit, TransactionV2, Opened, Sequenced, Renewed, Cases
  PROVE  Sequenced'
<1>1. /\ Ground /\ Typed /\ ControlTyped /\ Epochs /\ Born /\ epoch \in Int /\ call.found \in Int
      /\ -1 <= epoch
  BY EpochTypes DEF Opened, Ground, Typed, Epochs
<1>2. (Fatal => Fatal') /\ Logged \subseteq Logged'
  BY <1>1, FatalStep, LoggedGrows
<1>3. CASE SenderWork \/ LeaderWork \/ \E p \in Partitions : LeaderForgets(p)
  BY <1>1, <1>3, SenderSequenced, LeaderSequenced, ForgetSequenced
<1>4. CASE InitAdopt \/ (EndTxnApply /\ call.decision = "Complete")
  <2>1. epoch < call.found /\ call.found >= 0
    BY <1>1, <1>4 DEF InitAdopt, EndTxnApply, Epochs, Renewed
  <2>2. AdoptIdentity(call.found)
    BY <1>4, <2>1 DEF InitAdopt, EndTxnApply
  <2>3. epoch' = call.found /\ next_seq' = [p \in Partitions |-> 0]
    BY <1>1, <2>1, <2>2 DEF AdoptIdentity
  <2>4. UNCHANGED <<leaders, requests, retry, active, Logged>>
    BY <1>4 DEF InitAdopt, EndTxnApply, coordVars, logVars, Logged, RequireRecovery
  <2> QED BY <1>1, <1>2, <2>1, <2>3, <2>4, AdoptSequenced
<1>5. CASE Calm /\ ~InitAdopt
  <2>1. /\ recovery_required => recovery_required'
        /\ recovery_generation' = recovery_generation \/ recovery_required'
    <3>1. UNCHANGED <<recovery_required, recovery_generation>> \/ RequireRecovery
      BY <1>1, <1>5, GenerationStep
    <3>2. RequireRecovery => recovery_required'
      BY DEF RequireRecovery
    <3>3. CASE UNCHANGED <<recovery_required, recovery_generation>>
      BY <3>3
    <3> QED BY <3>1, <3>2, <3>3
  <2>2. ~active' => Fatal'
    BY <1>2, <1>5 DEF Calm, Sequenced
  <2> QED BY <1>2, <1>5, <2>1, <2>2, SequencedStays DEF Calm
<1> QED BY <1>1, <1>3, <1>4, <1>5, CalmSteps

LEMMA SequencedInit ==
  ASSUME Init
  PROVE  Sequenced /\ Renewed
<1>1. Outstanding = {}
  BY DEF Init, Outstanding, Parked
<1>2. LeaderTyped
  BY DEF Init, LeaderTyped, NoProducerState
<1>3. \A p \in Partitions : Due(p, next_seq[p])
  BY DEF Init, Due
<1> QED BY <1>1, <1>2, <1>3 DEF Init, Sequenced, Renewed, NoCall

\* With transaction version 2, when no batch has to be split, the first batch that
\* a leader is sent under a new epoch has sequence 0 (adopt_transactional_identity
\* against the repairs of terminal_fail_batch and the restarts of a retry): no
\* leader that knows the producer refuses the first batch of an identity.
THEOREM FreshIdentityStartsAtZeroHolds ==
  ASSUME NoSplit, TransactionV2
  PROVE  Spec => []FreshIdentityStartsAtZero
<1> DEFINE Inv == Opened /\ Sequenced /\ Renewed
<1>1. Init => Inv
  BY OpenedInit, SequencedInit
<1>2. Inv /\ [Next]_vars => Inv'
  BY NextCases, OpenedStep, SequencedStep, RenewedStep
<1>3. Inv => FreshIdentityStartsAtZero
  <2> SUFFICES ASSUME Inv, NEW q \in requests, q.batch.epoch = coord.epoch,
                      leaders[q.batch.part].epoch < q.batch.epoch,
                      leaders[q.batch.part] # NoProducerState
               PROVE  q.batch.seq = 0
    BY DEF FreshIdentityStartsAtZero
  <2>1. /\ q.batch \in Outstanding /\ q.batch.epoch \in Int /\ q.batch.part \in Partitions
        /\ leaders[q.batch.part].epoch \in Int /\ epoch \in Int /\ coord.epoch \in Int
    BY RequestOutstanding, RequestBatch, EpochTypes
       DEF Opened, Ground, Typed, PipelineTyped, Sequenced, LeaderTyped
  <2>2. q.batch.epoch = epoch
    BY <2>1 DEF Opened, Epochs
  <2>3. InLine(q.batch)
    BY <2>1 DEF Sequenced
  <2> QED BY <2>1, <2>2, <2>3 DEF InLine, Due, Stored
<1> QED BY <1>1, <1>2, <1>3, PTL DEF Spec

-----------------------------------------------------------------------------
(* What becomes of the records.                                            *)

LEMMA ElemsHead ==
  ASSUME NEW S, NEW s \in Seq(S), s # <<>>
  PROVE  Elems(s) \subseteq {Head(s)} \cup Elems(Tail(s))
<1>1. /\ Len(s) \in Nat \ {0} /\ Head(s) = s[1] /\ Tail(s) \in Seq(S)
      /\ Len(Tail(s)) = Len(s) - 1
      /\ \A i \in 1..Len(Tail(s)) : Tail(s)[i] = s[i + 1]
  BY HeadTailProperties, EmptySeq, LenProperties
<1>2. /\ Elems(s) = {s[i] : i \in 1..Len(s)}
      /\ Elems(Tail(s)) = {Tail(s)[i] : i \in 1..(Len(s) - 1)}
  BY <1>1, ElemsInterval
<1>3. ASSUME NEW i \in 1..Len(s), i # 1 PROVE s[i] \in Elems(Tail(s))
  <2>1. i - 1 \in 1..(Len(s) - 1) /\ (i - 1) + 1 = i
    BY <1>1, <1>3
  <2>2. Tail(s)[i - 1] = s[i]
    BY <1>1, <2>1
  <2> QED BY <1>2, <2>1, <2>2
<1> QED BY <1>1, <1>2, <1>3

\* retain_mut loses nothing that it keeps.
LEMMA RetainedAll ==
  ASSUME NEW S, NEW s \in Seq(S), NEW kept \in SUBSET (DOMAIN s)
  PROVE  {s[i] : i \in kept} \subseteq Elems(Retained(s, kept))
<1> DEFINE rank(i) == Cardinality({j \in kept : j <= i})
           size == Cardinality(kept)
<1>1. /\ IsFiniteSet(kept) /\ size \in Nat /\ kept \subseteq Nat
  <2>1. Len(s) \in Nat /\ DOMAIN s = 1..Len(s)
    BY LenProperties
  <2>2. IsFiniteSet(1..Len(s)) /\ kept \in SUBSET (1..Len(s))
    BY <2>1, FS_Interval
  <2>3. IsFiniteSet(kept)
    BY <2>2, FS_Subset
  <2> QED BY <2>2, <2>3, FS_CardinalityType
<1>2. ASSUME NEW i \in kept
      PROVE  /\ IsFiniteSet({j \in kept : j <= i}) /\ rank(i) \in 1..size
  <2>1. {j \in kept : j <= i} \in SUBSET kept /\ i \in {j \in kept : j <= i}
    BY <1>1
  <2>2. /\ IsFiniteSet({j \in kept : j <= i}) /\ rank(i) <= size /\ rank(i) \in Nat
    BY <1>1, <2>1, FS_Subset, FS_CardinalityType
  <2>3. rank(i) # 0
    BY <2>1, <2>2, FS_EmptySet
  <2> QED BY <1>1, <2>2, <2>3
<1>3. ASSUME NEW i \in kept, NEW j \in kept, i < j PROVE rank(i) # rank(j)
  <2>1. {k \in kept : k <= i} \in SUBSET {k \in kept : k <= j}
    BY <1>1, <1>3
  <2>2. j \in {k \in kept : k <= j} /\ j \notin {k \in kept : k <= i}
    BY <1>1, <1>3
  <2> QED BY <1>2, <2>1, <2>2, FS_Subset
<1> DEFINE at(n) == CHOOSE i \in kept : rank(i) = n
<1>4. Retained(s, kept) = [n \in 1..size |-> s[at(n)]]
  BY DEF Retained
<1>5. ASSUME NEW i \in kept PROVE at(rank(i)) = i
  <2>1. at(rank(i)) \in kept /\ rank(at(rank(i))) = rank(i)
    BY <1>5
  <2> HIDE DEF at, rank
  <2>2. ~(i < at(rank(i))) /\ ~(at(rank(i)) < i)
    BY <1>3, <2>1
  <2> QED BY <1>1, <2>1, <2>2
<1> HIDE DEF rank, size, at
<1>6. ASSUME NEW i \in kept PROVE s[i] \in Elems(Retained(s, kept))
  BY <1>2, <1>4, <1>5 DEF Elems
<1> QED BY <1>6

LEMMA QueueLosesHead ==
  ASSUME QueueTyped, NEW p \in Partitions, queue[p] # <<>>,
         queue' = [queue EXCEPT ![p] = Tail(@)]
  PROVE  QueuedBatches \subseteq QueuedBatches' \cup {Head(queue[p])}
<1>1. ASSUME NEW x \in Partitions
      PROVE  Elems(queue[x]) \subseteq Elems(queue'[x]) \cup {Head(queue[p])}
  <2>1. CASE x = p
    BY <2>1, ElemsHead DEF QueueTyped
  <2>2. CASE x # p
    BY <2>2 DEF QueueTyped
  <2> QED BY <2>1, <2>2
<1> QED BY <1>1 DEF QueuedBatches

\* The batches that are on their way.
Batches == QueuedBatches \cup taken \cup Outstanding

LEMMA HeldMoves ==
  ASSUME NEW rs,
         \A b \in Batches : (\E c \in Batches' : c.recs = b.recs) \/ Elems(b.recs) \subseteq rs
  PROVE  Held \subseteq Held' \cup rs
<1>1. ASSUME NEW r \in Held PROVE r \in Held' \cup rs
  <2>1. PICK b \in Batches : r \in Elems(b.recs)
    BY DEF Held, RecordsIn, Batches
  <2> QED BY <2>1 DEF Held, RecordsIn, Batches
<1> QED BY <1>1

\* The application goes on with the transaction: it did not ask for its abort, and
\* the transaction needs no recovery.
Aborting == begun \in Transactions /\ told[begun] \in {"aborting", "aborted"}
Going ==
  /\ begun \in Transactions /\ ~Aborting /\ ~recovery_required
  /\ \/ txn_state = "InTransaction"
     \/ call.op \in {"commit", "prepare"} /\ call.prev = "InTransaction"

\* Its batches pass the barriers.
Generation ==
  Going =>
    /\ \A b \in QueuedBatches :
         begun \in TransactionsOf(Elems(b.recs)) => b.gen = recovery_generation
    /\ \A b \in Outstanding : begun \in TransactionsOf(Elems(b.recs)) => b.epoch = epoch

\* A step resolves records: those that are acknowledged are in the logs, and those
\* that fail are not of the transaction, or the failure is noted.
Foreign(rs) == Going => \A r \in rs : txn_of[r] # begun
Settles(rs, result) ==
  /\ outcome' = Resolve(rs, result) /\ Held \subseteq Held' \cup rs
  /\ \/ result = "acked" /\ rs \subseteq Logged
     \/ result = "failed" /\ (Fine' => Foreign(rs))

LEMMA SettlesNothing ==
  ASSUME RecordsTyped, outcome' = outcome, Held \subseteq Held'
  PROVE  Settles({}, "failed")
<1>1. outcome' = Resolve({}, "failed")
  BY DEF RecordsTyped, Resolve
<1> QED BY <1>1 DEF Settles, Foreign

LEMMA ForeignQueued ==
  ASSUME Generation, Fine, NEW b \in QueuedBatches, UndrainedBarrier(b.gen)
  PROVE  Foreign(Elems(b.recs))
<1>1. Going => b.gen # recovery_generation
  BY DEF Fine, UndrainedBarrier, DrainedBarrier, Fatal, Abortable
<1> QED BY <1>1 DEF Generation, Foreign, TransactionsOf

LEMMA ForeignOutstanding ==
  ASSUME Generation, NEW b \in Outstanding, b.epoch # epoch
  PROVE  Foreign(Elems(b.recs))
BY DEF Generation, Foreign, TransactionsOf

\* A batch leaves the slots of the sender.
LEMMA SettlesBatch ==
  ASSUME Typed, NEW b \in Outstanding, UNCHANGED <<queue, taken>>,
         \A c \in Outstanding : c.part = b.part \/ c \in Outstanding',
         NEW result, outcome' = Resolve(Elems(b.recs), result),
         \/ result = "acked" /\ Elems(b.recs) \subseteq Logged
         \/ result = "failed" /\ (Fine' => b.epoch # epoch /\ Generation)
  PROVE  Settles(Elems(b.recs), result)
<1>1. \A c \in Outstanding : c = b \/ c \in Outstanding'
  BY OneBatch DEF Typed, PipelineTyped
<1>2. QueuedBatches' = QueuedBatches
  BY DEF QueuedBatches
<1>3. Held \subseteq Held' \cup Elems(b.recs)
  BY <1>1, <1>2, HeldMoves DEF Batches
<1>4. result = "failed" /\ Fine' => Foreign(Elems(b.recs))
  BY ForeignOutstanding
<1> QED BY <1>3, <1>4 DEF Settles

LEMMA DrainSettles ==
  ASSUME Ground, Sequenced, Generation, NEW p \in Partitions, DrainBatch(p)
  PROVE  \E rs, result : Settles(rs, result)
<1> DEFINE b == Head(queue[p])
           n == [batch |-> [part |-> p, recs |-> b.recs, gen |-> b.gen,
                            pid |-> IF Snapshot THEN 0 ELSE NoProducerId,
                            epoch |-> IF Snapshot THEN epoch ELSE -1,
                            seq |-> next_seq[p], used |-> 0],
                 answer |-> "queued"]
<1>1. /\ SenderWork /\ Typed /\ SlotsTyped /\ QueueTyped /\ RecordsTyped
      /\ retry' = retry /\ taken' = taken
  BY DEF SenderWork, SenderSteps, Ground, Typed, PipelineTyped, DrainBatch
<1>2. QueuedBatches \subseteq QueuedBatches' \cup {b} /\ b \in QueuedBatches
  BY <1>1, QueueLosesHead, QueuePops DEF DrainBatch
<1>3. CASE UndrainedBarrier(b.gen) /\ outcome' = Resolve(Elems(b.recs), "failed")
           /\ requests' = requests
  <2>1. Outstanding' = Outstanding
    BY <1>1, <1>3 DEF Outstanding, Parked
  <2>2. Fine' => Foreign(Elems(b.recs))
    BY <1>1, <1>2, <1>3, SenderKeeps, ForeignQueued
  <2> HIDE DEF b
  <2>3. Held \subseteq Held' \cup Elems(b.recs)
    BY <1>1, <1>2, <2>1, HeldMoves DEF Batches
  <2>4. Settles(Elems(b.recs), "failed")
    BY <1>3, <2>2, <2>3 DEF Settles
  <2> QED BY <2>4
<1>4. CASE requests' = requests \cup {n} /\ outcome' = outcome
  <2>1. n.batch.recs = b.recs
    OBVIOUS
  <2> HIDE DEF n
  <2>2. Outstanding' = Outstanding \cup {n.batch}
    BY <1>1, <1>4, RequestAdded
  <2> HIDE DEF b
  <2>3. ASSUME NEW c \in Batches PROVE \E d \in Batches' : d.recs = c.recs
    BY <1>1, <1>2, <2>1, <2>2 DEF Batches
  <2>4. Held \subseteq Held' \cup {}
    BY <2>3, HeldMoves
  <2>5. Settles({}, "failed")
    BY <1>1, <1>4, <2>4, SettlesNothing
  <2> QED BY <2>5
<1> QED BY <1>3, <1>4 DEF DrainBatch

LEMMA SlotSettles ==
  ASSUME Ground, Sequenced, Generation, NEW p \in Partitions, Resend(p) \/ ExpireRetry(p)
  PROVE  \E rs, result : Settles(rs, result)
<1>1. /\ SenderWork /\ Typed /\ SlotsTyped /\ RecordsTyped /\ p \in Parked /\ Transactional
      /\ retry[p] \in Outstanding /\ retry[p].part = p
      /\ retry' = [retry EXCEPT ![p] = NoBatch] /\ UNCHANGED <<queue, taken>>
  BY ParkedOutstanding
     DEF SenderWork, SenderSteps, Ground, Typed, PipelineTyped, SlotsTyped, Parked, Resend,
         ExpireRetry
<1>2. CASE ExpireRetry(p) \/ (Resend(p) /\ DrainedBarrier(retry[p].gen))
  <2>1. requests' = requests /\ outcome' = Resolve(Elems(retry[p].recs), "failed")
    BY <1>2 DEF Resend, ExpireRetry
  <2>2. \A c \in Outstanding : c.part = retry[p].part \/ c \in Outstanding'
    BY <1>1, <2>1, SlotEmptied
  <2>3. Fine' => retry[p].epoch # epoch
    <3>1. CASE ExpireRetry(p)
      <4>1. BatchMode(retry[p]) = "Transactional"
        BY <1>1 DEF Transactional, BatchMode, NoProducerId
      <4> QED BY <3>1, <4>1, FailureNoted DEF ExpireRetry
    <3>2. CASE DrainedBarrier(retry[p].gen)
      BY <1>1, <3>2, BarrierMeansFailure, SenderKeeps
    <3> QED BY <1>2, <3>1, <3>2
  <2>4. Settles(Elems(retry[p].recs), "failed")
    BY <1>1, <2>1, <2>2, <2>3, SettlesBatch
  <2> QED BY <2>4
<1>3. CASE Resend(p) /\ ~DrainedBarrier(retry[p].gen)
  <2> DEFINE n == [batch |-> retry[p], answer |-> "queued"]
  <2>1. requests' = requests \cup {n} /\ n.batch = retry[p] /\ outcome' = outcome
    BY <1>3 DEF Resend
  <2> HIDE DEF n
  <2>2. Outstanding' = Outstanding /\ QueuedBatches' = QueuedBatches
    BY <1>1, <2>1, SlotResent DEF QueuedBatches
  <2>3. Settles({}, "failed")
    BY <1>1, <2>1, <2>2, SettlesNothing DEF Held
  <2> QED BY <2>3
<1> QED BY <1>2, <1>3

LEMMA RequestSettles ==
  ASSUME Ground, Sequenced, Generation, NEW q \in requests,
         \/ StartRequest(q) \/ CompleteAcked(q) \/ CompleteBarred(q)
         \/ CompleteRetry(q) \/ CompleteFailed(q)
  PROVE  \E rs, result : Settles(rs, result)
<1>1. /\ SenderWork /\ Typed /\ SlotsTyped /\ RecordsTyped /\ Transactional
      /\ q.batch \in Outstanding /\ AnswerTrue(q) /\ q \in Request
      /\ UNCHANGED <<queue, taken>>
  BY RequestOutstanding
     DEF SenderWork, SenderSteps, Ground, Typed, PipelineTyped, SlotsTyped, Sequenced,
         StartRequest, CompleteAcked, CompleteBarred, CompleteRetry, CompleteFailed
<1>2. QueuedBatches' = QueuedBatches
  BY <1>1 DEF QueuedBatches
<1>3. CASE CompleteAcked(q) \/ CompleteBarred(q) \/ CompleteFailed(q)
  <2>1. requests' = requests \ {q} /\ retry' = retry
    BY <1>3 DEF CompleteAcked, CompleteBarred, CompleteFailed
  <2>2. \A c \in Outstanding : c.part = q.batch.part \/ c \in Outstanding'
    BY <1>1, <2>1, RequestLeaves
  <2>3. CASE CompleteAcked(q)
    <3>1. Elems(q.batch.recs) \subseteq Logged
      BY <1>1, <2>3, VerdictMeans DEF CompleteAcked, AnswerTrue
    <3>2. outcome' = Resolve(Elems(q.batch.recs), "acked")
      BY <2>3 DEF CompleteAcked, FinishBatch
    <3>3. Settles(Elems(q.batch.recs), "acked")
      BY <1>1, <2>2, <3>1, <3>2, SettlesBatch
    <3> QED BY <3>3
  <2>4. CASE CompleteBarred(q) \/ CompleteFailed(q)
    <3>1. outcome' = Resolve(Elems(q.batch.recs), "failed")
      BY <2>4 DEF CompleteBarred, CompleteFailed, FinishBatch
    <3>2. Fine' => q.batch.epoch # epoch
      <4>1. CASE CompleteBarred(q)
        BY <1>1, <4>1, SenderKeeps DEF CompleteBarred, AnswerTrue
      <4>2. CASE CompleteFailed(q)
        BY <1>1, <4>2, VerdictMeans, FailureNoted DEF CompleteFailed
      <4> QED BY <2>4, <4>1, <4>2
    <3>3. Settles(Elems(q.batch.recs), "failed")
      BY <1>1, <2>2, <3>1, <3>2, SettlesBatch
    <3> QED BY <3>3
  <2> QED BY <1>3, <2>3, <2>4
<1>4. CASE StartRequest(q)
  <2> DEFINE n == [q EXCEPT !.answer = IF DrainedBarrier(q.batch.gen) THEN "BARRED" ELSE "none"]
  <2>1. n.batch = q.batch /\ requests' = (requests \ {q}) \cup {n}
    BY <1>1, <1>4 DEF StartRequest, Request
  <2> HIDE DEF n
  <2>2. Outstanding' = Outstanding
    BY <1>4, <2>1, RequestReplaced DEF StartRequest
  <2>3. Settles({}, "failed")
    BY <1>1, <1>2, <1>4, <2>2, SettlesNothing DEF Held, StartRequest, recordVars
  <2> QED BY <2>3
<1>5. CASE CompleteRetry(q)
  <2>1. PICK n : Reparked(q.batch, n)
    BY <1>5, RetryParks
  <2>2. n.recs = q.batch.recs /\ n # NoBatch /\ n.part = q.batch.part
        /\ retry' = [retry EXCEPT ![q.batch.part] = n]
    BY <2>1 DEF Reparked
  <2>3. (\A c \in Outstanding : c.part = q.batch.part \/ c \in Outstanding') /\ n \in Outstanding'
    BY <1>1, <1>5, <2>2, RequestParked DEF CompleteRetry
  <2>4. \A c \in Outstanding : c = q.batch \/ c \in Outstanding'
    BY <1>1, <2>3, OneBatch
  <2>5. \A c \in Batches : \E d \in Batches' : d.recs = c.recs
    BY <1>1, <1>2, <2>2, <2>3, <2>4 DEF Batches
  <2>6. Held \subseteq Held' \cup {}
    BY <2>5, HeldMoves
  <2>7. Settles({}, "failed")
    BY <1>1, <1>5, <2>6, SettlesNothing DEF CompleteRetry, recordVars
  <2> QED BY <2>7
<1> QED BY <1>3, <1>4, <1>5

LEMMA FenceSettles ==
  ASSUME Typed, Sequenced, DrainFence \/ \E q \in requests : CompleteFatal(q)
  PROVE  \E rs, result : Settles(rs, result)
<1>1. Fatal' /\ taken' = taken /\ ~Fine'
  <2>1. SenderWork
    BY DEF SenderWork, SenderSteps
  <2>2. Fatal'
    <3>1. CASE DrainFence
      BY <2>1, <3>1, SenderKeeps DEF DrainFence, Sequenced
    <3>2. CASE \E q \in requests : CompleteFatal(q)
      BY <3>2 DEF CompleteFatal, Fatal
    <3> QED BY <3>1, <3>2
  <2> QED BY <2>2 DEF DrainFence, CompleteFatal, Fatal, Fine
<1>2. PICK others :
        /\ \A b \in {q.batch : q \in requests} : b \in others \/ b \in {q.batch : q \in requests'}
        /\ FenceAll(others)
  <2>1. CASE DrainFence
    BY <2>1 DEF DrainFence
  <2>2. ASSUME NEW q \in requests, CompleteFatal(q)
        PROVE  /\ \A b \in {x.batch : x \in requests} :
                    b \in {q.batch} \/ b \in {x.batch : x \in requests'}
               /\ FenceAll({q.batch})
    BY <2>2 DEF CompleteFatal
  <2> QED BY <2>1, <2>2
<1> DEFINE dead == others \cup {retry[p] : p \in Parked}
<1>3. outcome' = Resolve(RecordsIn(dead \cup QueuedBatches), "failed")
  BY <1>2 DEF FenceAll, Parked, QueuedBatches
<1>4. ASSUME NEW b \in Batches
      PROVE  (\E c \in Batches' : c.recs = b.recs) \/ b \in dead \cup QueuedBatches
  BY <1>1, <1>2 DEF Batches, Outstanding
<1> HIDE DEF dead
<1>5. ASSUME NEW b \in dead \cup QueuedBatches
      PROVE  Elems(b.recs) \subseteq RecordsIn(dead \cup QueuedBatches)
  BY DEF RecordsIn
<1>6. Held \subseteq Held' \cup RecordsIn(dead \cup QueuedBatches)
  BY <1>4, <1>5, HeldMoves
<1>7. Settles(RecordsIn(dead \cup QueuedBatches), "failed")
  BY <1>1, <1>3, <1>6 DEF Settles
<1> QED BY <1>7

LEMMA SweepSettles ==
  ASSUME Ground, Generation, SweepRecovered
  PROVE  \E rs, result : Settles(rs, result)
<1> DEFINE kept(p) == {i \in DOMAIN queue[p] : ~UndrainedBarrier(queue[p][i].gen)}
           barred == {b \in QueuedBatches : UndrainedBarrier(b.gen)}
<1>1. SenderWork /\ Typed /\ QueueTyped /\ UNCHANGED <<taken, requests, retry>>
  BY DEF SenderWork, SenderSteps, Ground, Typed, PipelineTyped, SweepRecovered
<1>2. /\ outcome' = Resolve(RecordsIn(barred), "failed")
      /\ queue' = [p \in Partitions |-> Retained(queue[p], kept(p))]
  BY DEF SweepRecovered, QueuedBatches
<1>3. ASSUME NEW b \in QueuedBatches, ~UndrainedBarrier(b.gen)
      PROVE  b \in QueuedBatches'
  <2>1. PICK p \in Partitions : b \in Elems(queue[p])
    BY DEF QueuedBatches
  <2>2. PICK i \in DOMAIN queue[p] : b = queue[p][i]
    BY <2>1 DEF Elems
  <2>3. i \in kept(p) /\ kept(p) \in SUBSET DOMAIN queue[p] /\ queue[p] \in Seq(UnsentBatch)
    BY <1>1, <1>3, <2>2 DEF QueueTyped
  <2>4. queue'[p] = Retained(queue[p], kept(p))
    BY <1>2
  <2> HIDE DEF kept
  <2>5. b \in Elems(queue'[p])
    BY <2>2, <2>3, <2>4, RetainedAll
  <2> QED BY <2>5 DEF QueuedBatches
<1>4. Outstanding' = Outstanding
  BY <1>1 DEF Outstanding, Parked
<1>5. ASSUME NEW b \in Batches
      PROVE  (\E c \in Batches' : c.recs = b.recs) \/ Elems(b.recs) \subseteq RecordsIn(barred)
  <2>1. CASE b \in QueuedBatches /\ UndrainedBarrier(b.gen)
    BY <2>1 DEF RecordsIn
  <2>2. CASE b \in Batches'
    BY <2>2
  <2> QED BY <1>1, <1>3, <1>4, <2>1, <2>2 DEF Batches
<1>6. Fine' => Foreign(RecordsIn(barred))
  <2>1. SUFFICES ASSUME Fine', NEW b \in barred
                 PROVE  Foreign(Elems(b.recs))
    BY DEF RecordsIn, Foreign
  <2> QED BY <1>1, <2>1, SenderKeeps, ForeignQueued
<1> HIDE DEF barred
<1>7. Held \subseteq Held' \cup RecordsIn(barred)
  BY <1>5, HeldMoves
<1>8. Settles(RecordsIn(barred), "failed")
  BY <1>2, <1>6, <1>7 DEF Settles
<1> QED BY <1>8

\* The sender resolves records in one step of one of these kinds, when no batch
\* expires in a queue.
LEMMA SenderSettles ==
  ASSUME Ground, Sequenced, Generation, SenderWork, taken = {}, "expire_queued" \notin Faults
  PROVE  \E rs, result : Settles(rs, result)
<1>1. ASSUME NEW q \in requests PROVE ~CompleteSplit(q)
  BY VerdictMeans DEF CompleteSplit, Ground
<1>2. ~FailExpired /\ \A p \in Partitions : ~TakeExpired(p)
  BY DEF FailExpired, TakeExpired, Fault
<1>3. Typed
  BY DEF Ground
<1> QED
  BY <1>1, <1>2, <1>3, DrainSettles, SlotSettles, RequestSettles, FenceSettles, SweepSettles
     DEF SenderWork, SenderSteps

-----------------------------------------------------------------------------
(* The steps of the application and of its calls.                          *)

\* The hypotheses of this part: no fatal code from a leader, no batch that expires
\* in a queue, and an application that uses the guard of the last transaction only
\* and does not commit what it began to abort.
Orderly ==
  /\ "FATAL" \notin ProduceCodes
  /\ Faults \cap {"expire_queued", "change_of_mind", "stale_guard"} = {}

\* A call runs only while no failure is final.
Base ==
  /\ taken = {} /\ (\A q \in requests : q.answer # "FATAL")
  /\ ~Idle => ~Fatal

LEMMA TakenStays ==
  ASSUME Ground, Orderly, Base, Cases
  PROVE  taken' = {}
<1>1. CASE SenderWork
  <2>1. \A p \in Partitions : ~TakeExpired(p)
    BY DEF TakeExpired, Fault, Orderly
  <2> QED
    BY <1>1, <2>1
       DEF Base, SenderWork, SenderSteps, DrainBatch, Resend, StartRequest, CompleteAcked,
           CompleteBarred, CompleteRetry, CompleteFailed, CompleteSplit, CompleteFatal,
           SweepRecovered, FailExpired, DrainFence, ExpireRetry
<1>2. CASE LeaderWork
  BY <1>2, LeaderWorkServes DEF LeaderFrame, Base
<1>3. CASE SendAppend \/ (\E p \in Partitions : DropScan(p)) \/ Still
  BY <1>3 DEF SendAppend, DropScan, Still, Base
<1> QED BY <1>1, <1>2, <1>3, BatchCases DEF Ground, Typed

LEMMA AnswersStay ==
  ASSUME Ground, Orderly, Base, Cases
  PROVE  \A q \in requests' : q.answer # "FATAL"
<1>1. CASE SenderWork
  <2>1. ASSUME NEW q \in requests PROVE ~CompleteSplit(q)
    BY VerdictMeans DEF CompleteSplit, Ground
  <2>2. SlotMoves
    BY <1>1, <2>1, SenderWorkMoves DEF Moves, Ground
  <2> QED BY <2>2 DEF SlotMoves, Base
<1>2. CASE LeaderWork
  <2>1. PICK q \in requests :
          \/ LeaderAnswers(q) \/ LeaderAppendsAndFails(q) \/ TransportFails(q)
          \/ \E code \in ProduceCodes : LeaderRefuses(q, code)
    BY <1>2 DEF LeaderWork
  <2>2. TxnLeaderCode(q.batch) # "FATAL"
    BY DEF TxnLeaderCode, LeaderCode
  <2>3. PICK code : code # "FATAL" /\ Answer(q, code)
    BY <2>1, <2>2
       DEF LeaderAnswers, LeaderAppendsAndFails, TransportFails, LeaderRefuses, Orderly
  <2>4. q \in Request
    BY DEF Ground, Typed, PipelineTyped, SlotsTyped
  <2>5. [q EXCEPT !.answer = code].answer = code
    BY <2>4 DEF Request
  <2> QED BY <2>3, <2>5 DEF Answer, Base
<1>3. CASE SendAppend \/ (\E p \in Partitions : DropScan(p)) \/ Still
  BY <1>3 DEF SendAppend, DropScan, Still, Base
<1> QED BY <1>1, <1>2, <1>3, BatchCases DEF Ground, Typed

\* No leader's answer is fatal, so no failure becomes final while a call runs.
LEMMA SenderNeverFatal ==
  ASSUME Ground, Base, SenderWork
  PROVE  Fatal' => Fatal
<1>1. ASSUME NEW q \in requests, CompleteFatal(q) PROVE FALSE
  <2>1. PICK behind \in BOOLEAN : Verdict(q, behind) = "Fatal"
    BY <1>1 DEF CompleteFatal
  <2>2. ClassifyVerdict(q.answer, BatchMode(q.batch), Len(q.batch.recs), behind) = "Fatal"
    BY <2>1 DEF Verdict, VerdictWithRetries
  <2>3. q.answer = "FATAL"
    BY <2>2 DEF ClassifyVerdict
  <2> QED BY <2>3 DEF Base
<1> QED
  BY <1>1
     DEF SenderWork, SenderSteps, DrainBatch, Resend, StartRequest, CompleteAcked,
         CompleteBarred, CompleteRetry, CompleteFailed, CompleteSplit, ErrorAfterFailure,
         SweepRecovered, FailExpired, DrainFence, ExpireRetry, TakeExpired, Unless, Fatal, txnVars

\* The kinds of steps, by what they do with the state that the application sees.
heldVars == <<prepared, open_guard, handles, issued>>

\* Nothing of it changes.
Steady ==
  UNCHANGED <<txn_state, call, recovery_required, epoch, begun, told, heldVars>>

\* commit, abort or complete_transaction starts: with the guard of the last
\* transaction, or with a token.
StartsEnd(op) ==
  /\ Idle /\ ~Fatal /\ txn_state \in {"InTransaction", "Prepared"}
  /\ txn_state' = "CommittingOrAborting"
  /\ call'.op = op /\ call'.prev = txn_state /\ ~call'.applied
  /\ call'.pc = (IF op = "commit" THEN "flush" ELSE "drop")
  /\ \/ call'.guard = begun /\ begun \in handles
     \/ /\ call'.guard = 0 /\ txn_state = "Prepared"
        /\ op = "commit" => prepared \in issued \cup {-1}
  /\ op = "commit" => told[begun] # "aborting" /\ UNCHANGED told
  /\ op = "abort" => told' = [told EXCEPT ![begun] = "aborting"]
  /\ UNCHANGED <<recovery_required, epoch, begun, heldVars>>

StartsPrepare ==
  /\ Idle /\ ~Fatal /\ txn_state = "InTransaction" /\ ~recovery_required
  /\ begun \in handles /\ told[begun] # "aborting"
  /\ txn_state' = "Preparing"
  /\ call'.op = "prepare" /\ call'.prev = txn_state /\ call'.guard = begun
  /\ call'.pc = "flush" /\ ~call'.applied
  /\ UNCHANGED <<recovery_required, epoch, begun, told, heldVars>>

EntersInit ==
  /\ Idle /\ ~Fatal
  /\ txn_state \in {"Uninitialized", "Ready", "RecoveryRequired"} \/ recovery_required
  /\ txn_state' = "Initializing" /\ StartsInit /\ ~call'.applied
  /\ UNCHANGED <<recovery_required, epoch, begun, told, heldVars>>

\* A call goes on.  A flush is over when it saw empty accumulators and nothing in
\* flight.
Flushed == call.pc = "flush" /\ call.todo = {} /\ in_flight = 0
GoesOn ==
  /\ ~Idle /\ call'.op = call.op /\ call'.prev = call.prev /\ call'.guard = call.guard
  /\ call'.pc = "drop" => call.pc = "drop"
  /\ call.pc = "flush" /\ call'.pc # "flush" => Flushed /\ call.op = "commit" /\ ~Abortable
  /\ UNCHANGED <<txn_state, recovery_required, epoch, begun, told, heldVars>>

\* A call returns, and the state goes back to what it was.
Returns ==
  /\ ~Idle /\ call' = NoCall /\ txn_state' = call.prev
  /\ UNCHANGED <<recovery_required, epoch, begun, told, heldVars>>

\* prepare_transaction succeeds.
Prepares ==
  /\ Flushed /\ call.op = "prepare" /\ txn_error = "none"
  /\ call' = NoCall /\ txn_state' = "Prepared"
  /\ prepared' = epoch /\ issued' = issued \cup {epoch} /\ open_guard' = 0
  /\ UNCHANGED <<recovery_required, epoch, begun, told, handles>>

\* commit or abort succeeds.
Completes ==
  /\ call.pc = "apply" /\ call.decision = "Complete"
  /\ call' = NoCall /\ txn_state' = "Ready"
  /\ epoch' = (IF call.found >= 0 THEN call.found ELSE epoch)
  /\ prepared' = -1 /\ open_guard' = 0 /\ handles' = handles \ {call.guard}
  /\ told' = [told EXCEPT ![Concerned] =
                IF call.op = "commit" THEN "committed" ELSE "aborted"]
  /\ UNCHANGED <<recovery_required, begun, issued>>

\* The producer fails for good.
Fails ==
  /\ txn_state' \in {"Fenced", "FatalError"} /\ call' = NoCall /\ open_guard' = 0
  /\ UNCHANGED <<recovery_required, epoch, begun, told, prepared, handles, issued>>

\* The outcome of commit or abort is unknown.
Doubts ==
  /\ call.pc = "apply" /\ call' = NoCall
  /\ txn_state' = "RecoveryRequired" /\ recovery_required'
  /\ UNCHANGED <<epoch, begun, told, heldVars>>

\* init_transactions succeeds.
Adopts ==
  /\ call.pc = "adopt" /\ call' = NoCall
  /\ epoch' = call.found /\ prepared' = call.ongoing /\ open_guard' = 0
  /\ txn_state' = (IF call.ongoing >= 0 THEN "Prepared" ELSE "Ready")
  /\ ~recovery_required' /\ UNCHANGED <<begun, told, handles, issued>>

\* A guard is dropped, alone or with its call.
Drops ==
  /\ call' = NoCall \/ call' = call
  /\ open_guard' \in {0, open_guard} /\ handles' \subseteq handles
  /\ recovery_required => recovery_required'
  /\ \/ recovery_required' = recovery_required
     \/ open_guard # 0 /\ begun \notin handles' /\ (call' = NoCall \/ call.guard # begun)
  /\ UNCHANGED <<txn_state, epoch, begun, told, prepared, issued>>

Kinds ==
  \/ Steady \/ BeginTransaction \/ StartsEnd("commit") \/ StartsEnd("abort")
  \/ StartsPrepare \/ EntersInit \/ GoesOn \/ Returns \/ Prepares
  \/ Completes \/ Fails \/ Doubts \/ Adopts \/ Drops

\* The guards of the last transaction.
Guarded == open_guard \in {0, begun} /\ handles \subseteq 1..begun

LEMMA AppKinds ==
  ASSUME Ground, Orderly, AppSteps
  PROVE  Kinds
<1> USE DEF heldVars
<1>1. ControlTyped /\ begun \in 0..MaxTransactions
  BY DEF Ground, Typed, ControlTyped, StateTyped
<1>2. ASSUME NEW t \in 0..MaxTransactions, NEW op \in {"commit", "abort"}, EndStart(op, t),
             \/ t = begun /\ begun \in handles
             \/ /\ t = 0 /\ txn_state = "Prepared"
                /\ op = "commit" => prepared \in issued \cup {-1}
      PROVE  StartsEnd(op)
  <2>1. /\ call'.op = op /\ call'.guard = t /\ call'.prev = txn_state /\ call'.applied = FALSE
        /\ call'.pc = (IF op = "commit" THEN "flush" ELSE "drop")
    BY <1>1, <1>2, EndStartCall
  <2>2. op = "commit" => told[begun] # "aborting" /\ UNCHANGED told
    <3>1. told \in [Transactions -> {"none", "aborting", "committed", "aborted"}]
      BY <1>1 DEF ControlTyped, StateTyped
    <3> QED BY <1>2, <3>1 DEF EndStart, Orderly
  <2>3. op = "abort" => told' = [told EXCEPT ![begun] = "aborting"]
    BY <1>2 DEF EndStart
  <2> QED BY <1>2, <2>1, <2>2, <2>3 DEF EndStart, StartsEnd
<1>3. ASSUME NEW t \in Transactions, GuardEnds(t)
      PROVE  StartsEnd("commit") \/ StartsEnd("abort")
  <2>1. t = begun /\ begun \in handles
    BY <1>3 DEF GuardEnds, Orderly
  <2>2. EndStart("commit", begun) \/ EndStart("abort", begun)
    BY <1>3, <2>1 DEF GuardEnds
  <2> QED BY <1>1, <1>2, <2>1, <2>2
<1>4. ASSUME NEW token \in issued \cup {-1}, CompleteTransaction(token)
      PROVE  StartsEnd("commit") \/ StartsEnd("abort")
  <2>1. 0 \in 0..MaxTransactions
    BY TransactionConstants
  <2>2. CASE token = prepared
    <3>1. EndStart("commit", 0) /\ txn_state = "Prepared" /\ prepared \in issued \cup {-1}
      BY <1>4, <2>2 DEF CompleteTransaction
    <3> QED BY <1>2, <2>1, <3>1
  <2>3. CASE token # prepared
    <3>1. EndStart("abort", 0) /\ txn_state = "Prepared"
      BY <1>4, <2>3 DEF CompleteTransaction
    <3> QED BY <1>2, <2>1, <3>1
  <2> QED BY <2>2, <2>3
<1>5. ASSUME NEW t \in Transactions, PrepareStart(t) PROVE StartsPrepare
  BY <1>1, <1>5, PrepareStartCall DEF PrepareStart, StartsPrepare, Orderly, ghostVars
<1>6. ASSUME NEW keep \in BOOLEAN, InitStart(keep) PROVE EntersInit
  BY <1>1, <1>6, InitStartCall DEF InitStart, EntersInit, StartsInit, ghostVars
<1>7. ASSUME NEW p \in Partitions, SendLock(p) PROVE Steady
  BY <1>7 DEF SendLock, Steady, txnVars, ghostVars
<1> QED BY <1>3, <1>4, <1>5, <1>6, <1>7 DEF AppSteps, Kinds

LEMMA CallKinds ==
  ASSUME Ground, Base, CallSteps \/ FlushTimeout \/ EndTxnStep
  PROVE  Kinds
<1> USE DEF heldVars
<1>1. /\ ControlTyped /\ call \in Call /\ (Idle => call = NoCall) /\ Phase
      /\ recovery_required \in BOOLEAN
  BY DEF Ground, Typed, ControlTyped, CallTyped, StateTyped
<1>2. call.pc # "none" => ~Idle
  BY <1>1 DEF NoCall
<1>3. ASSUME NEW p \in Partitions, FlushScan(p) \/ DropScan(p)
      PROVE  GoesOn
  BY <1>1, <1>2, <1>3 DEF FlushScan, DropScan, GoesOn, txnVars, ghostVars, Call
<1>4. CASE FlushDone
  <2>1. call.pc = "flush" /\ call.todo = {} /\ UNCHANGED <<begun, told>>
    BY <1>4 DEF FlushDone
  <2>2. ASSUME call' = [call EXCEPT !.todo = Partitions], UNCHANGED <<txnVars, issued>>
        PROVE  GoesOn
    BY <1>1, <1>2, <2>1, <2>2 DEF GoesOn, txnVars, Call
  <2>3. ASSUME in_flight = 0, call.op = "commit", ~Abortable,
               call' = [call EXCEPT !.pc = "end"], UNCHANGED <<txnVars, issued>>
        PROVE  GoesOn
    BY <1>1, <1>2, <2>1, <2>3 DEF GoesOn, Flushed, txnVars, Call
  <2>4. ASSUME ReturnTo(call.prev),
               UNCHANGED <<recovery_required, epoch, prepared, open_guard, handles, issued>>
        PROVE  Returns
    BY <1>2, <2>1, <2>4 DEF ReturnTo, Returns
  <2>5. ASSUME in_flight = 0, call.op = "prepare", txn_error = "none", ReturnTo("Prepared"),
               prepared' = epoch, issued' = issued \cup {epoch}, open_guard' = 0,
               UNCHANGED <<recovery_required, epoch, handles>>
        PROVE  Prepares
    BY <2>1, <2>5 DEF ReturnTo, Prepares, Flushed
  <2>6. GoesOn \/ Returns \/ Prepares
    BY <1>4, <2>2, <2>3, <2>4, <2>5 DEF FlushDone
  <2> QED BY <2>6 DEF Kinds
<1>5. CASE FlushTimeout
  BY <1>2, <1>5 DEF FlushTimeout, ReturnTo, Returns, Kinds, ghostVars
<1>6. CASE DrainDone
  BY <1>1, <1>2, <1>6 DEF DrainDone, GoesOn, Kinds, txnVars, ghostVars, Call
<1>7. CASE EndTxnStep
  BY <1>1, <1>2, <1>7, EndTxnStepEffect DEF EndTxnEffect, GoesOn, Kinds, txnVars, ghostVars
<1>8. CASE EndTxnLookup
  BY <1>1, <1>2, <1>8 DEF EndTxnLookup, GoesOn, Kinds, txnVars, ghostVars, Call
<1>9. CASE EndTxnApply
  <2>1. CASE call.decision = "Complete"
    BY <1>9, <2>1 DEF EndTxnApply, ReturnTo, AdoptIdentity, Completes, Kinds
  <2>2. CASE call.decision \in {"Fenced", "Fatal"}
    BY <1>9, <2>2 DEF EndTxnApply, FatalReturn, ReturnTo, Fails, Kinds
  <2>3. CASE call.decision \in Returned
    BY <1>2, <1>9, <2>3 DEF EndTxnApply, ReturnTo, Returns, Returned, Kinds
  <2>4. CASE call.decision = "OutcomeUnknown"
    BY <1>9, <2>4 DEF EndTxnApply, ReturnTo, RequireRecovery, Doubts, Kinds
  <2> QED BY <1>9, <2>1, <2>2, <2>3, <2>4 DEF EndTxnApply, Returned
<1>10. CASE InitAnswered
  BY <1>1, <1>2, <1>10 DEF InitAnswered, GoesOn, Kinds, txnVars, ghostVars, Call
<1>11. CASE InitAdopt
  BY <1>11 DEF InitAdopt, AdoptIdentity, Adopts, Kinds, ghostVars
<1> QED
  BY <1>3, <1>4, <1>5, <1>6, <1>7, <1>8, <1>9, <1>10, <1>11 DEF CallSteps, Kinds, EndTxnStep

LEMMA FaultKind ==
  ASSUME Ground, Base, Guarded, FaultSteps
  PROVE  Kinds
<1> USE DEF heldVars
<1>1. /\ ControlTyped /\ call \in Call /\ (Idle => call = NoCall) /\ Phase
      /\ recovery_required \in BOOLEAN
  BY DEF Ground, Typed, ControlTyped, CallTyped, StateTyped
<1>2. call.pc # "none" => ~Idle
  BY <1>1 DEF NoCall
<1>3. CASE CancelCall
  BY <1>3 DEF CancelCall, RequireRecovery, Drops, Kinds, Guarded, ghostVars
<1>4. ASSUME NEW t \in Transactions, DropGuard(t) PROVE Drops
  BY <1>4 DEF DropGuard, RequireRecovery, Drops, Guarded, ghostVars
<1>5. CASE FlushTimeout \/ EndTxnLost \/ \E code \in RefusalCodes : EndTxnRefused(code)
  BY <1>5, CallKinds DEF EndTxnStep
<1>6. CASE InitLost
  BY <1>1, <1>2, <1>6 DEF InitLost, ReturnTo, Base, Steady, Returns, Kinds, ghostVars
<1>7. CASE OtherInit
  BY <1>7 DEF OtherInit, Steady, Kinds, txnVars, ghostVars
<1>8. ASSUME NEW code \in RefusalCodes, SendRegisterRefused(code)
      PROVE  Steady \/ Fails
  <2>1. DecideAddPartitions(code) \in {"Retry", "Abortable", "Fenced", "Fatal"}
    BY TransactionConstants DEF DecideAddPartitions
  <2>2. sending # NoSend
    BY <1>8 DEF SendRegisterRefused, NoSend
  <2>3. call = NoCall
    BY <1>1, <2>2 DEF Phase
  <2> QED BY <1>8, <2>1, <2>3 DEF SendRegisterRefused, Steady, Fails, ghostVars
<1>9. ASSUME NEW code \in RefusalCodes, InitRefused(code)
      PROVE  Steady \/ Returns \/ Fails
  BY <1>2, <1>9 DEF InitRefused, FatalReturn, ReturnTo, Steady, Returns, Fails, ghostVars
<1>10. CASE \E p \in Partitions : ExpireRetry(p) \/ TakeExpired(p) \/ LeaderForgets(p)
  BY <1>10 DEF ExpireRetry, TakeExpired, LeaderForgets, Steady, Kinds, txnVars, ghostVars
<1>11. CASE LeaderWork
  BY <1>11, LeaderWorkServes DEF LeaderFrame, Steady, Kinds, txnVars, ghostVars
<1> QED
  BY <1>3, <1>4, <1>5, <1>6, <1>7, <1>8, <1>9, <1>10, <1>11 DEF FaultSteps, LeaderWork, Kinds

LEMMA KindsStep ==
  ASSUME Ground, Orderly, Base, Guarded, [Next]_vars
  PROVE  Kinds
<1> USE DEF heldVars
<1>1. CASE SendSteps
  <2>1. sending # NoSend => call = NoCall
    BY DEF Ground, Phase, Typed, ControlTyped, CallTyped
  <2>2. CASE SendRegister
    BY <2>1, <2>2 DEF SendRegister, NoSend, Steady, Fails, Kinds, txnVars, ghostVars
  <2>3. CASE SendAppend
    BY <2>3 DEF SendAppend, Steady, Kinds, txnVars, ghostVars
  <2> QED BY <1>1, <2>2, <2>3 DEF SendSteps
<1>2. CASE SenderSteps
  BY <1>2, SenderWorkFrame DEF SenderWork, SenderFrame, Steady, Kinds
<1>3. CASE \E q \in requests : LeaderAnswers(q)
  BY <1>3 DEF LeaderAnswers, Steady, Kinds, txnVars, ghostVars
<1>4. CASE Stopped \/ UNCHANGED vars
  BY <1>4 DEF Stopped, vars, Steady, Kinds, txnVars, ghostVars
<1> QED BY <1>1, <1>2, <1>3, <1>4, AppKinds, CallKinds, FaultKind DEF Next

-----------------------------------------------------------------------------
(* What the application may commit.                                        *)

\* Every record of the last transaction is in the logs; every one is committed.
Whole == begun \in Transactions => Of(begun) \subseteq Logged
AllCommitted == begun \in Transactions => Of(begun) \subseteq committed
Kept == Whole \/ Aborting

\* What the outcome of a record says.
Accounts ==
  \A r \in Records :
    /\ outcome[r] = "pending" => r \in Held
    /\ outcome[r] = "acked" => r \in Logged
    /\ txn_of[r] <= begun /\ (txn_of[r] # 0 => outcome[r] # "none")

\* A record that failed spoils the transaction.
Failures ==
  Going /\ txn_error = "none" => \A r \in Of(begun) : outcome[r] # "failed"

\* Where the guards and the calls may be.
Guards ==
  /\ Guarded
  /\ call.op \in {"commit", "abort", "prepare"} /\ call.prev = "InTransaction" =>
       call.guard = begun
  /\ txn_state = "Uninitialized" \/ call.prev = "Uninitialized" => begun = 0
  /\ txn_state = "RecoveryRequired" => recovery_required
  /\ call.op = "init" => call.prev \in {"Uninitialized", "Ready"} \/ recovery_required
  /\ txn_state = "Prepared" \/ call.prev = "Prepared" =>
       prepared >= 0 /\ ~recovery_required /\ open_guard = 0
  /\ call.op = "prepare" => ~recovery_required /\ begun # 0

\* The producer sends nothing more in its epoch.
Writing == {"InTransaction", "Preparing", "Ready"}
Sent == txn_state \notin Writing /\ call.op # "prepare" /\ call.prev \notin Writing

\* What a token stands for is whole; what a guard that is left stands for is whole
\* or about to be aborted.
Tokens ==
  /\ \A e \in issued : e <= epoch /\ begun # 0
  /\ epoch \in issued => Whole /\ Sent
  /\ open # {} /\ coord.ongoing \in issued => Whole /\ Sent
  /\ call.pc = "adopt" /\ call.ongoing >= 0 =>
       (call.ongoing \in issued => Whole) /\ (begun \in handles => Kept)
  /\ recovery_required /\ begun \in handles => Kept
  /\ txn_state = "Prepared" \/ call.prev = "Prepared" =>
       (prepared \in issued => Whole) /\ (begun \in handles => Kept)

\* What a commit and an abort have behind them.
Commits ==
  /\ call.op = "abort" => begun \notin Transactions \/ Aborting
  /\ call.op \in {"commit", "prepare"} => ~Aborting /\ call.pc # "drop"
  /\ call.op = "commit" /\ (call.prev = "Prepared" \/ call.pc # "flush" \/ recovery_required)
       => Whole
  /\ call.op = "commit" /\ call.pc = "apply" /\ call.decision = "Complete" => AllCommitted

\* What the coordinator's epoch and its last EndTxn stand for.
Marks ==
  /\ call.applied => epoch < coord.epoch
  /\ call.pc = "adopt" => coord.last = "none"
  /\ call.pc = "apply" /\ call.decision = "Complete" /\ coord.last # "none" =>
       call.found = coord.epoch
  /\ epoch # coord.epoch /\ coord.last = "commit" =>
       /\ AllCommitted /\ Gone
       /\ txn_state # "Ready" /\ (call.op = "init" => call.prev # "Ready")

\* A transaction whose end was reported is over.
Reports ==
  /\ begun \in Transactions /\ told[begun] \in {"committed", "aborted"} =>
       Clean /\ Quiet /\ Gone
  /\ \A t \in Transactions : t > begun => told[t] = "none"

\* The invariant.
Accounted ==
  /\ Closed /\ Sequenced /\ Renewed /\ Base /\ Accounts /\ Guards /\ Generation
  /\ Failures /\ Tokens /\ Commits /\ Marks /\ Reports /\ CommittedMeansAll

\* A step, with all that is known of it.
Step == NoSplit /\ TransactionV2 /\ Orderly /\ Cases /\ Kinds

LEMMA KnownTypes ==
  ASSUME Accounted
  PROVE  /\ Opened /\ Ground /\ Typed /\ ControlTyped /\ RecordsTyped /\ Phase
         /\ call \in Call /\ (Idle => call = NoCall) /\ (~Idle => call.prev \in TxnStates)
         /\ begun \in 0..MaxTransactions /\ begun \in Nat /\ recovery_required \in BOOLEAN
         /\ told \in [Transactions -> {"none", "aborting", "committed", "aborted"}]
         /\ epoch \in Int /\ coord.epoch \in Int /\ call.found \in Int /\ call.ongoing \in Int
         /\ issued \subseteq Int /\ prepared \in Int /\ handles \subseteq Transactions
         /\ NoCall.op = "none" /\ NoCall.pc = "none" /\ NoCall.prev = "none" /\ ~NoCall.applied
  BY TransactionConstants, EpochTypes
     DEF Accounted, Closed, Opened, Ground, Typed, ControlTyped, StateTyped, CallTyped, NoCall

\* The application goes on with no new transaction and no new record.
Settled == UNCHANGED <<begun, txn_of>>

LEMMA SettledStep ==
  ASSUME Accounted, Step
  PROVE  \/ Settled
         \/ BeginTransaction /\ begun' = begun + 1 /\ UNCHANGED txn_of
         \/ \E r : Accepts(r) /\ UNCHANGED begun /\ Steady /\ Idle /\ SendAppend
<1>1. Ground /\ ControlTyped /\ Typed /\ Numbered /\ Transactional /\ Phase
  BY KnownTypes DEF Ground
<1>2. Cases
  BY DEF Step
<1>3. CASE Drifts
  BY <1>1, <1>2, <1>3, BeganStep DEF Drifts, Settled
<1>4. CASE SendAppend /\ \E r : Accepts(r)
  <2>1. Steady /\ UNCHANGED begun
    BY <1>4 DEF SendAppend, Steady, txnVars, ghostVars, heldVars
  <2>2. Idle
    BY <1>1, <1>4 DEF Accepts, Phase
  <2> QED BY <1>4, <2>1, <2>2
<1> QED BY <1>1, <1>2, <1>3, <1>4, BatchStep

\* An abort is never taken back.
LEMMA AbortingStays ==
  ASSUME Accounted, Step, begun' = begun, Aborting
  PROVE  Aborting'
<1>1. /\ told \in [Transactions -> {"none", "aborting", "committed", "aborted"}]
      /\ Commits /\ begun \in Transactions
  BY KnownTypes DEF Accounted, Aborting
<1>2. CASE told' = told
  BY <1>2 DEF Aborting
<1>3. CASE StartsEnd("abort")
  BY <1>1, <1>3 DEF StartsEnd, Aborting
<1>4. CASE Completes
  <2>1. call.op # "commit"
    BY <1>1 DEF Commits
  <2> QED BY <1>1, <1>4, <2>1 DEF Completes, Aborting
<1>5. told' = told \/ StartsEnd("abort") \/ Completes
  BY DEF Step, Kinds, Steady, BeginTransaction, StartsEnd, StartsPrepare, EntersInit, GoesOn,
         Returns, Prepares, Fails, Doubts, Adopts, Drops
<1> QED BY <1>2, <1>3, <1>4, <1>5

\* What is in the logs stays, and what is committed stays committed.
LEMMA WholeStays ==
  ASSUME Accounted, Step, Settled
  PROVE  /\ (Whole => Whole') /\ (AllCommitted => AllCommitted') /\ (Kept => Kept')
         /\ \A t : Of(t)' = Of(t)
<1>1. Logged \subseteq Logged' /\ committed \subseteq committed'
  BY KnownTypes, LoggedGrows, EndsStep DEF Step
<1>2. \A t : Of(t)' = Of(t)
  BY DEF Of, Settled
<1>3. Aborting => Aborting'
  BY AbortingStays DEF Settled
<1>4. begun' = begun /\ Of(begun)' = Of(begun)
  BY DEF Of, Settled
<1> QED BY <1>1, <1>2, <1>3, <1>4 DEF Whole, AllCommitted, Kept

\* A flush that ended without an error left every record of the transaction in the
\* logs.
LEMMA FlushedWhole ==
  ASSUME Accounted, Flushed, Going, txn_error = "none"
  PROVE  Whole
<1>1. /\ Ground /\ Drained /\ SlotsTyped /\ taken = {} /\ Accounts /\ Failures /\ RecordsTyped
      /\ begun \in Transactions
  BY DEF Accounted, Base, Closed, Opened, Ground, Typed, PipelineTyped, Going
<1>2. Outstanding = {} /\ QueuedBatches = {}
  BY <1>1, NothingInFlight, QueuesEmpty DEF Flushed, Drained
<1>3. Held = {}
  BY <1>1, <1>2 DEF Held, RecordsIn
<1>4. ASSUME NEW r \in Of(begun) PROVE r \in Logged
  <2>1. r \in Records /\ txn_of[r] = begun /\ begun # 0
    BY <1>1 DEF Of, Transactions
  <2>2. outcome[r] \notin {"none", "pending", "failed"}
    BY <1>1, <1>3, <2>1 DEF Accounts, Failures
  <2>3. outcome[r] = "acked"
    BY <1>1, <2>1, <2>2 DEF RecordsTyped
  <2> QED BY <1>1, <2>1, <2>3 DEF Accounts
<1> QED BY <1>4 DEF Whole

LEMMA CommitWhole ==
  ASSUME Accounted, Flushed, call.op = "commit", ~Abortable
  PROVE  Whole
<1>1. /\ Commits /\ Phase /\ txn_error = "none"
  <2>1. ~Fatal /\ txn_error \in {"none", "abortable", "Fenced", "Server"}
    BY KnownTypes DEF Accounted, Base, Idle, ControlTyped, StateTyped
  <2> QED BY <2>1, KnownTypes DEF Accounted, Fatal, Abortable
<1>2. CASE call.prev = "Prepared" \/ recovery_required \/ begun \notin Transactions
  BY <1>1, <1>2 DEF Commits, Whole
<1>3. CASE call.prev = "InTransaction" /\ ~recovery_required /\ begun \in Transactions
  <2>1. Going
    BY <1>1, <1>3 DEF Commits, Going
  <2> QED BY <1>1, <2>1, FlushedWhole
<1> QED BY <1>1, <1>2, <1>3 DEF Phase

LEMMA PrepareWhole ==
  ASSUME Accounted, Prepares
  PROVE  Whole /\ begun # 0
<1>1. Flushed /\ call.op = "prepare" /\ txn_error = "none"
  BY DEF Prepares
<1>2. call.prev = "InTransaction" /\ ~recovery_required /\ ~Aborting /\ begun # 0
  BY <1>1, KnownTypes DEF Accounted, Guards, Phase, Commits
<1>3. CASE begun \in Transactions
  BY <1>1, <1>2, <1>3, FlushedWhole DEF Going
<1> QED BY <1>2, <1>3 DEF Whole

\* The commit that the coordinator applies commits all of the transaction.
LEMMA FinishCommits ==
  ASSUME Accounted, Step, Finishes, call.op = "commit"
  PROVE  AllCommitted' /\ Settled
<1>1. /\ Ground /\ Closed /\ EndedOver /\ Commits /\ Marks /\ Transactional /\ call.pc = "end"
      /\ Cases /\ RecordsTyped /\ ControlTyped
  BY KnownTypes, FinishesOver DEF Accounted, Closed, Opened, Ground, Step
<1>2. Whole
  BY <1>1 DEF Commits
<1>3. EndTxnEffect
  BY <1>1, EndTxnStepEffect DEF Finishes
<1>4. Settled
  BY <1>3 DEF EndTxnEffect, Settled, recordVars, ghostVars
<1>5. committed' = committed \cup open
  BY DEF Finishes, CoordinatorEnds
<1>6. ~Ended
  <2>1. epoch = coord.epoch /\ ~call.applied
    BY <1>1, KnownTypes DEF Finishes, EndTxnApplies, Marks
  <2> QED BY <1>1, <2>1 DEF EndedOver, Gone
<1>7. ASSUME NEW r \in Of(begun), begun \in Transactions PROVE r \in committed'
  <2>1. r \in Logged /\ plain = {} /\ txn_of[r] = begun
    BY <1>1, <1>2, <1>7 DEF Whole, Transactional, Of
  <2>2. r \notin aborted
    BY <1>6, <2>1 DEF Ended, TransactionsOf
  <2> QED BY <1>5, <2>1, <2>2 DEF Logged
<1>8. begun' = begun /\ Of(begun)' = Of(begun)
  BY <1>4 DEF Settled, Of
<1> QED BY <1>4, <1>7, <1>8 DEF AllCommitted

LEMMA BaseStep ==
  ASSUME Accounted, Step
  PROVE  Base'
<1>1. Ground /\ Orderly /\ Base /\ Cases /\ Phase /\ ControlTyped
  BY KnownTypes DEF Accounted, Step
<1>2. taken' = {} /\ \A q \in requests' : q.answer # "FATAL"
  BY <1>1, TakenStays, AnswersStay
<1>3. (~Idle => ~Fatal)'
  <2>1. CASE Fatal
    <3>1. call = NoCall
      BY <1>1, <2>1, KnownTypes DEF Base
    <3>2. call' = NoCall
      BY <2>1, <3>1, KnownTypes
         DEF Step, Kinds, Steady, BeginTransaction, StartsEnd, StartsPrepare, EntersInit, GoesOn,
             Returns, Prepares, Completes, Fails, Doubts, Adopts, Drops, Idle
    <3> QED BY <3>2, KnownTypes DEF Idle
  <2>2. CASE ~Fatal /\ Fatal'
    <3>1. ~SenderWork
      BY <1>1, <2>2, SenderNeverFatal
    <3>2. Idle'
      <4>1. NoCall.op = "none"
        BY KnownTypes
      <4>2. sending # NoSend => Idle
        BY <1>1 DEF Phase
      <4>3. txn_error' = txn_error => ~Fatal'
        BY <2>2 DEF Fatal
      <4>4. CASE SendRegister \/ \E code \in RefusalCodes : SendRegisterRefused(code)
        <5>1. sending.pc = "register" /\ call' = call
          BY <4>4 DEF SendRegister, SendRegisterRefused
        <5>2. sending # NoSend
          BY <5>1 DEF NoSend
        <5> QED BY <4>2, <5>1, <5>2 DEF Idle
      <4>5. CASE EndTxnApply \/ InitAdopt
        BY <4>1, <4>5 DEF EndTxnApply, InitAdopt, FatalReturn, ReturnTo, Idle
      <4>6. CASE \E code \in RefusalCodes : InitRefused(code)
        BY <4>1, <4>3, <2>2, <4>6 DEF InitRefused, FatalReturn, ReturnTo, Idle
      <4>7. CASE \/ BeginTransaction \/ FlushDone \/ DrainDone \/ FlushTimeout \/ CancelCall
                 \/ EndTxnLookup \/ InitAnswered \/ InitLost \/ OtherInit \/ SendAppend
        BY <4>3, <2>2, <4>7
           DEF BeginTransaction, FlushDone, DrainDone, FlushTimeout, CancelCall, EndTxnLookup,
               InitAnswered, InitLost, OtherInit, SendAppend, txnVars
      <4>8. CASE EndTxnStep
        BY <1>1, <2>2, <4>3, <4>8, EndTxnStepEffect DEF EndTxnEffect, txnVars
      <4>9. CASE LeaderWork \/ UNCHANGED vars
        BY <2>2, <4>3, <4>9, LeaderWorkServes DEF LeaderFrame, vars, txnVars
      <4>10. ASSUME NEW p, SendLock(p) \/ FlushScan(p) \/ DropScan(p) \/ LeaderForgets(p)
             PROVE  FALSE
        BY <2>2, <4>3, <4>10 DEF SendLock, FlushScan, DropScan, LeaderForgets, txnVars
      <4>11. ASSUME NEW op, NEW t, Ends(op, t) \/ PrepareStart(t) \/ DropGuard(t) \/ InitStart(t)
             PROVE  FALSE
        BY <2>2, <4>3, <4>11 DEF Ends, EndStart, PrepareStart, DropGuard, InitStart
      <4> QED
        BY <1>1, <3>1, <4>4, <4>5, <4>6, <4>7, <4>8, <4>9, <4>10, <4>11 DEF Cases
    <3> QED BY <3>2
  <2> QED BY <2>1, <2>2
<1> QED BY <1>2, <1>3 DEF Base

LEMMA GuardsStep ==
  ASSUME Accounted, Step
  PROVE  Guards'
<1> USE KnownTypes DEF Guards, Guarded, heldVars
<1>1. Guards /\ Phase /\ (call.pc = "adopt" => call.op = "init")
  BY DEF Accounted, Phase, Idle, Call
<1>2. CASE Steady
  BY <1>1, <1>2 DEF Steady
<1>3. CASE BeginTransaction
  <2>1. call' = NoCall /\ txn_state' = "InTransaction"
    BY <1>3 DEF BeginTransaction
  <2>2. begun' = begun + 1 /\ open_guard' = begun + 1 /\ handles' = handles \cup {begun + 1}
    BY <1>3 DEF BeginTransaction
  <2>3. begun \in Nat /\ handles \subseteq 1..begun
    BY <1>1
  <2>4. handles \cup {begun + 1} \subseteq 1..(begun + 1)
    BY ONLY <2>3
  <2> QED BY <2>1, <2>2, <2>4
<1>4. ASSUME NEW op \in {"commit", "abort"}, StartsEnd(op) PROVE Guards'
  BY <1>1, <1>4 DEF StartsEnd
<1>5. CASE StartsPrepare
  BY <1>1, <1>5 DEF StartsPrepare
<1>6. CASE EntersInit
  BY <1>1, <1>6 DEF EntersInit, StartsInit
<1>7. CASE GoesOn
  BY <1>1, <1>7 DEF GoesOn
<1>8. CASE Returns
  BY <1>1, <1>8 DEF Returns, Phase, Idle, Call
<1>9. CASE Prepares
  <2>1. epoch >= 0
    BY <1>9 DEF Prepares, Accounted, Closed, Opened, Born, Epochs
  <2> QED BY <1>1, <1>9, <2>1 DEF Prepares
<1>10. CASE Completes \/ Fails \/ Doubts
  BY <1>1, <1>10 DEF Completes, Fails, Doubts
<1>11. CASE Adopts
  BY <1>1, <1>11 DEF Adopts
<1>12. CASE Drops
  BY <1>1, <1>12 DEF Drops, Phase
<1> QED BY <1>2, <1>3, <1>4, <1>5, <1>6, <1>7, <1>8, <1>9, <1>10, <1>11, <1>12 DEF Step, Kinds

\* The application goes on with a transaction only if it did so before.
LEMMA GoingStep ==
  ASSUME Accounted, Step, Going', ~BeginTransaction
  PROVE  Going /\ UNCHANGED <<begun, epoch, recovery_required, recovery_generation>>
<1> USE KnownTypes
<1>1. /\ Guards /\ Commits /\ Phase /\ begun' = begun /\ ControlTyped /\ Cases
      /\ (call.pc = "adopt" => call.op = "init")
  BY BeganStep DEF Accounted, Step, Phase, Idle, Call
<1>2. ~Aborting /\ begun \in Transactions /\ ~recovery_required'
  BY <1>1, AbortingStays DEF Going
<1>3. \/ txn_state' = "InTransaction"
      \/ call'.op \in {"commit", "prepare"} /\ call'.prev = "InTransaction"
  BY DEF Going
<1>4. ~Completes /\ ~Adopts /\ ~Prepares /\ ~Fails /\ ~Doubts /\ ~EntersInit /\ ~StartsEnd("abort")
  BY <1>3 DEF Completes, Adopts, Prepares, Fails, Doubts, EntersInit, StartsInit, StartsEnd
<1>5. epoch' = epoch
  BY <1>4 DEF Step, Kinds, Steady, BeginTransaction, StartsEnd, StartsPrepare, GoesOn, Returns, Drops
<1>6. UNCHANGED <<recovery_required, recovery_generation>>
  <2>1. ~InitAdopt
    BY <1>3 DEF InitAdopt
  <2>2. ~RequireRecovery
    BY <1>2 DEF RequireRecovery
  <2> QED BY <1>1, <2>1, <2>2, GenerationStep
<1>7. txn_state = "InTransaction" \/ (call.op \in {"commit", "prepare"} /\ call.prev = "InTransaction")
  <2>1. CASE Steady \/ GoesOn
    BY <1>3, <2>1 DEF Steady, GoesOn
  <2>2. CASE StartsEnd("commit") \/ StartsPrepare
    BY <1>3, <2>2 DEF StartsEnd, StartsPrepare
  <2>3. CASE Returns
    <3>1. call.prev = "InTransaction" /\ call.op # "none"
      BY <1>3, <2>3 DEF Returns, Idle
    <3>2. call.op # "abort" /\ call.op # "init"
      BY <1>1, <1>2, <1>6, <3>1 DEF Commits, Guards
    <3> QED BY <3>1, <3>2 DEF Call
  <2>4. CASE Drops
    BY <1>3, <2>4 DEF Drops
  <2> QED BY <1>4, <2>1, <2>2, <2>3, <2>4 DEF Step, Kinds
<1> QED BY <1>1, <1>2, <1>5, <1>6, <1>7 DEF Going

\* No record is of a transaction that has not begun.
LEMMA NothingBegun ==
  ASSUME Accounted, BeginTransaction
  PROVE  Of(begun)' = {} /\ \A r \in Records : txn_of'[r] # begun'
<1>1. /\ Accounts /\ RecordsTyped /\ begun \in Nat /\ begun' = begun + 1 /\ txn_of' = txn_of
  BY KnownTypes DEF Accounted, BeginTransaction, recordVars
<1>2. ASSUME NEW r \in Records PROVE txn_of'[r] # begun'
  <2>1. txn_of[r] <= begun /\ txn_of[r] \in Nat
    BY <1>1, TransactionConstants DEF Accounts, RecordsTyped
  <2> QED BY <1>1, <2>1
<1> QED BY <1>2 DEF Of

LEMMA BatchRecords ==
  ASSUME Typed
  PROVE  /\ \A b \in QueuedBatches \cup Outstanding : Elems(b.recs) \subseteq Records
         /\ \A b \in QueuedBatches \cup Outstanding : Elems(b.recs) \in SUBSET (Held \cup Logged)
<1>1. SlotsTyped /\ QueueTyped
  BY DEF Typed, PipelineTyped
<1>2. ASSUME NEW b \in QueuedBatches \cup Outstanding PROVE Elems(b.recs) \subseteq Records
  <2>1. b.recs \in Seq(Records)
    BY <1>1, OutstandingTyped, QueuedTyped DEF UnsentBatch
  <2> QED BY <2>1, ElemsInterval
<1>3. ASSUME NEW b \in QueuedBatches \cup Outstanding
      PROVE  Elems(b.recs) \in SUBSET (Held \cup Logged)
  BY HeldBatch
<1> QED BY <1>2, <1>3

LEMMA GenerationKept ==
  ASSUME Accounted, Step
  PROVE  Generation'
<1>1. /\ Ground /\ Typed /\ Numbered /\ Transactional /\ Generations /\ Generation /\ Cases
  BY KnownTypes DEF Accounted, Ground, Step
<1> SUFFICES ASSUME Going'
             PROVE  /\ \A b \in QueuedBatches' :
                         begun' \in TransactionsOf(Elems(b.recs))' => b.gen = recovery_generation'
                    /\ \A b \in Outstanding' :
                         begun' \in TransactionsOf(Elems(b.recs))' => b.epoch = epoch'
  BY DEF Generation
<1>2. CASE BeginTransaction
  <2>1. QueuedBatches' = QueuedBatches /\ Outstanding' = Outstanding
    BY <1>2 DEF BeginTransaction, senderVars, QueuedBatches, Outstanding, Parked
  <2>2. ASSUME NEW rs \in SUBSET Records PROVE begun' \notin TransactionsOf(rs)'
    BY <1>2, NothingBegun DEF TransactionsOf
  <2> QED BY <1>1, <2>1, <2>2, BatchRecords
<1>3. CASE ~BeginTransaction
  <2>1. Going /\ UNCHANGED <<begun, epoch, recovery_required, recovery_generation>>
    BY <1>3, GoingStep
  <2>2. UNCHANGED txn_of \/ \E r : Accepts(r)
    BY <1>1, BatchStep DEF Drifts
  <2>3. ASSUME NEW b \in QueuedBatches \cup Outstanding
        PROVE  TransactionsOf(Elems(b.recs))' = TransactionsOf(Elems(b.recs))
    BY <1>1, <2>2, BatchRecords, TransactionsStay
  <2>4. CASE Drifts
    <3>1. ASSUME NEW b \in QueuedBatches', begun' \in TransactionsOf(Elems(b.recs))'
          PROVE  b.gen = recovery_generation'
      BY <1>1, <2>1, <2>3, <2>4, <3>1 DEF Drifts, QueueMoves, Generation
    <3>2. ASSUME NEW b \in Outstanding', begun' \in TransactionsOf(Elems(b.recs))'
          PROVE  b.epoch = epoch'
      <4>1. CASE Carried(b)
        <5>1. PICK c \in Outstanding : b.recs = c.recs /\ b.epoch = c.epoch
          BY <4>1 DEF Carried
        <5>2. TransactionsOf(Elems(b.recs))' = TransactionsOf(Elems(c.recs))'
          BY <5>1
        <5> QED BY <1>1, <2>1, <2>3, <3>2, <5>1, <5>2 DEF Generation
      <4>2. CASE Built(b)
        BY <1>1, <2>1, <4>2, BuiltBatch
      <4> QED BY <2>4, <4>1, <4>2 DEF Drifts
    <3> QED BY <3>1, <3>2
  <2>5. ASSUME NEW r, SendAppend, Accepts(r), r = Cardinality(Appended) + 1
        PROVE  /\ \A b \in QueuedBatches' :
                    begun' \in TransactionsOf(Elems(b.recs))' => b.gen = recovery_generation'
               /\ \A b \in Outstanding' :
                    begun' \in TransactionsOf(Elems(b.recs))' => b.epoch = epoch'
    <3>1. Outstanding' = Outstanding
      BY <1>1, <2>5, AcceptsTyped
    <3>2. ASSUME NEW b \in QueuedBatches' PROVE b \in QueuedBatches \/ b.gen = recovery_generation
      BY <2>5 DEF Accepts, Grown
    <3> QED BY <1>1, <2>1, <2>3, <3>1, <3>2 DEF Generation
  <2> QED BY <1>1, <2>4, <2>5, BatchStep
<1> QED BY <1>2, <1>3

\* What every step does with the records: it resolves some, or adds one.
Adds(r) ==
  /\ r \in Records /\ txn_of' = [txn_of EXCEPT ![r] = begun]
  /\ outcome' = [outcome EXCEPT ![r] = "pending"] /\ Held \cup {r} \subseteq Held'
  /\ UNCHANGED begun

LEMMA AcceptsAdds ==
  ASSUME Typed, Numbered, SendAppend, NEW r, Accepts(r), r = Cardinality(Appended) + 1
  PROVE  Adds(r)
<1>1. PICK b : Grown(b, r) /\ Covers(QueuedBatches', QueuedBatches \cup {b})
  BY DEF Accepts
<1>2. Outstanding' = Outstanding /\ taken' = taken
  BY AcceptsTyped DEF Accepts
<1>3. ASSUME NEW c \in QueuedBatches \cup {b} PROVE Elems(c.recs) \subseteq Held'
  <2>1. PICK d \in QueuedBatches' : Elems(c.recs) \subseteq Elems(d.recs)
    BY <1>1 DEF Covers
  <2> QED BY <2>1 DEF Held, RecordsIn
<1>4. ASSUME NEW c \in taken \cup Outstanding PROVE Elems(c.recs) \subseteq Held'
  BY <1>2 DEF Held, RecordsIn
<1>5. Held \subseteq Held'
  BY <1>3, <1>4 DEF Held, RecordsIn
<1>6. r \in Held'
  BY <1>1, <1>3 DEF Grown
<1>7. UNCHANGED begun
  BY DEF SendAppend, ghostVars
<1> QED BY <1>5, <1>6, <1>7 DEF Adds, Accepts

LEMMA DropSettles ==
  ASSUME Accounted, NEW p \in Partitions, DropScan(p)
  PROVE  \E rs, result : Settles(rs, result)
<1>1. /\ Typed /\ QueueTyped /\ Phase /\ Commits /\ UNCHANGED <<taken, requests, retry>>
      /\ call.pc = "drop" /\ call \in Call /\ (Idle => call = NoCall) /\ NoCall.pc = "none"
  BY KnownTypes DEF Accounted, Typed, PipelineTyped, DropScan
<1>2. ~Going
  <2>1. call.op \in {"commit", "abort"} /\ txn_state = "CommittingOrAborting"
    BY <1>1 DEF Phase, Call, Idle
  <2> QED BY <1>1, <2>1 DEF Going, Commits
<1>3. Outstanding' = Outstanding
  BY <1>1 DEF Outstanding, Parked
<1>4. ASSUME NEW b \in QueuedBatches
      PROVE  b \in QueuedBatches' \/ Elems(b.recs) \subseteq RecordsIn(Elems(queue[p]))
  <2>1. PICK x \in Partitions : b \in Elems(queue[x])
    BY DEF QueuedBatches
  <2>2. CASE x = p
    BY <2>1, <2>2 DEF RecordsIn
  <2>3. CASE x # p
    <3>1. queue'[x] = queue[x]
      BY <1>1, <2>3 DEF DropScan, QueueTyped
    <3> QED BY <2>1, <3>1 DEF QueuedBatches
  <2> QED BY <2>2, <2>3
<1>5. Held \subseteq Held' \cup RecordsIn(Elems(queue[p]))
  <2>1. ASSUME NEW b \in Batches
        PROVE  (\E c \in Batches' : c.recs = b.recs)
               \/ Elems(b.recs) \subseteq RecordsIn(Elems(queue[p]))
    BY <1>1, <1>3, <1>4 DEF Batches
  <2> QED BY <2>1, HeldMoves
<1>6. Settles(RecordsIn(Elems(queue[p])), "failed")
  BY <1>2, <1>5 DEF Settles, Foreign, DropScan
<1> QED BY <1>6

LEMMA RecordsStep ==
  ASSUME Accounted, Step
  PROVE  \/ (\E rs, result : Settles(rs, result)) /\ UNCHANGED txn_of
         \/ \E r : Adds(r)
<1>1. /\ Ground /\ Typed /\ Numbered /\ ControlTyped /\ RecordsTyped /\ Sequenced
      /\ Generation /\ Cases /\ taken = {} /\ "expire_queued" \notin Faults
  BY KnownTypes DEF Accounted, Ground, Base, Step, Orderly
<1>2. CASE SenderWork
  BY <1>1, <1>2, SenderSettles, SenderWorkFrame DEF SenderFrame
<1>3. CASE LeaderWork
  <2>1. PICK q \in requests : \E code : Answer(q, code)
    BY <1>1, <1>3, LeaderServes
  <2>2. PICK code : Answer(q, code)
    BY <2>1
  <2>3. [q EXCEPT !.answer = code].batch = q.batch
    BY <1>1 DEF Typed, PipelineTyped, SlotsTyped, Request
  <2>4. UNCHANGED <<queue, taken, retry, outcome, txn_of>>
    BY <1>3, LeaderWorkServes DEF LeaderFrame, recordVars
  <2>5. Outstanding' = Outstanding
    BY <2>2, <2>3, <2>4, RequestReplaced DEF Answer
  <2>6. Held' = Held
    BY <2>4, <2>5 DEF Held, QueuedBatches
  <2>7. Settles({}, "failed")
    BY <1>1, <2>4, <2>6, SettlesNothing
  <2> QED BY <2>4, <2>7
<1>4. CASE Still
  <2>1. Held' = Held
    BY <1>1, <1>4, StillMoves
  <2>2. Settles({}, "failed")
    BY <1>1, <1>4, <2>1, SettlesNothing DEF Still
  <2> QED BY <1>4, <2>2 DEF Still
<1>5. CASE SendAppend
  BY <1>1, <1>4, <1>5, SendAppendEffect, AcceptsAdds
<1>6. CASE \E p \in Partitions : DropScan(p)
  BY <1>6, DropSettles DEF DropScan
<1> QED BY <1>1, <1>2, <1>3, <1>4, <1>5, <1>6, BatchCases

LEMMA AccountsStep ==
  ASSUME Accounted, Step
  PROVE  Accounts'
<1>1. /\ Accounts /\ RecordsTyped /\ Ground /\ Cases /\ ControlTyped /\ begun \in Nat
      /\ begun' \in Nat /\ begun <= begun'
  BY KnownTypes, BeganStep DEF Accounted, Step
<1>2. Logged \subseteq Logged'
  BY <1>1, LoggedGrows
<1>3. ASSUME NEW rs, NEW result, Settles(rs, result), UNCHANGED txn_of
      PROVE  Accounts'
  <2>1. /\ outcome' = Resolve(rs, result) /\ Held \subseteq Held' \cup rs
        /\ result \in {"acked", "failed"} /\ (result = "acked" => rs \subseteq Logged)
    BY <1>3 DEF Settles
  <2>2. ASSUME NEW r \in Records
        PROVE  /\ outcome'[r] = "pending" => r \in Held'
               /\ outcome'[r] = "acked" => r \in Logged'
               /\ txn_of'[r] <= begun' /\ (txn_of'[r] # 0 => outcome'[r] # "none")
    <3>1. outcome'[r] = IF r \in rs THEN result ELSE outcome[r]
      BY <2>1 DEF Resolve
    <3>2. txn_of[r] \in Nat /\ txn_of'[r] = txn_of[r] /\ txn_of[r] <= begun
      BY <1>1, <1>3, TransactionConstants DEF RecordsTyped, Accounts
    <3>3. txn_of'[r] <= begun'
      BY <1>1, <3>2
    <3> QED BY <1>1, <1>2, <2>1, <3>1, <3>2, <3>3 DEF Accounts
  <2> QED BY <2>2 DEF Accounts
<1>4. ASSUME NEW x, Adds(x) PROVE Accounts'
  <2>1. ASSUME NEW r \in Records
        PROVE  /\ outcome'[r] = "pending" => r \in Held'
               /\ outcome'[r] = "acked" => r \in Logged'
               /\ txn_of'[r] <= begun' /\ (txn_of'[r] # 0 => outcome'[r] # "none")
    BY <1>1, <1>2, <1>4 DEF Adds, Accounts, RecordsTyped
  <2> QED BY <2>1 DEF Accounts
<1> QED BY <1>3, <1>4, RecordsStep

\* A failure of the identity is forgotten only with the identity.
LEMMA FailuresStep ==
  ASSUME Accounted, Step
  PROVE  Failures'
<1>1. /\ Failures /\ RecordsTyped /\ Ground /\ Typed /\ Cases /\ ControlTyped
  BY KnownTypes DEF Accounted, Step
<1> SUFFICES ASSUME Going', txn_error' = "none", NEW r \in Of(begun)'
             PROVE  outcome'[r] # "failed"
  BY DEF Failures
<1>2. CASE BeginTransaction
  BY <1>2, NothingBegun
<1>3. CASE ~BeginTransaction
  <2>1. Going /\ UNCHANGED <<begun, epoch, recovery_required, recovery_generation>>
    BY <1>3, GoingStep
  <2>2. Fine'
    BY DEF Fine, Going
  <2>3. Fine
    <3>1. CASE SenderWork
      BY <1>1, <2>2, <3>1, SenderKeeps
    <3>2. CASE LeaderWork
      BY <2>2, <3>2, LeaderWorkServes DEF LeaderFrame, txnVars, Fine
    <3>3. CASE \E p \in Partitions : LeaderForgets(p)
      BY <2>2, <3>3 DEF LeaderForgets, txnVars, Fine
    <3>4. ~InitAdopt /\ ~(EndTxnApply /\ call.decision = "Complete")
      <4>1. NoCall.op = "none"
        BY KnownTypes
      <4> QED BY <4>1 DEF InitAdopt, EndTxnApply, ReturnTo, Going
    <3> QED BY <1>1, <2>2, <3>1, <3>2, <3>3, <3>4, CalmSteps DEF Calm
  <2>4. r \in Records /\ txn_of'[r] = begun
    BY <2>1 DEF Of
  <2>5. txn_of[r] = begun => outcome[r] # "failed"
    BY <1>1, <2>1, <2>3, <2>4 DEF Failures, Fine, Of
  <2>6. ASSUME NEW rs, NEW result, Settles(rs, result), UNCHANGED txn_of
        PROVE  outcome'[r] # "failed"
    <3>1. outcome'[r] = IF r \in rs THEN result ELSE outcome[r]
      BY <2>4, <2>6 DEF Settles, Resolve
    <3>2. txn_of[r] = begun
      BY <2>4, <2>6
    <3>3. r \in rs => result # "failed"
      BY <2>1, <2>2, <2>6, <3>2 DEF Settles, Foreign
    <3> QED BY <2>5, <3>1, <3>2, <3>3
  <2>7. ASSUME NEW x, Adds(x) PROVE outcome'[r] # "failed"
    BY <1>1, <2>4, <2>5, <2>7 DEF Adds, RecordsTyped
  <2> QED BY <2>6, <2>7, RecordsStep
<1> QED BY <1>2, <1>3

\* While a call runs the application begins nothing and sends nothing.
LEMMA BusySettled ==
  ASSUME Accounted, Step, ~Idle
  PROVE  Settled
  BY SettledStep DEF BeginTransaction

\* A transaction that the producer sends nothing more for stays as it is.
LEMMA SentSettled ==
  ASSUME Accounted, Step, txn_state \notin {"InTransaction", "Ready"}
  PROVE  Settled
<1>1. ~BeginTransaction
  BY DEF BeginTransaction
<1>2. ~(\E r : Accepts(r))
  BY DEF Accepts, SendRefused
<1> QED BY <1>1, <1>2, SettledStep

LEMMA StartsWhole ==
  ASSUME Accounted, StartsEnd("commit"), txn_state = "Prepared" \/ recovery_required
  PROVE  Whole /\ ~Aborting
<1>1. Tokens /\ Guards /\ Reports /\ told[begun] # "aborting"
  BY DEF Accounted, StartsEnd
<1>2. txn_state \in {"InTransaction", "Prepared"}
  BY DEF StartsEnd
<1>3. ~Aborting
  BY <1>1, <1>2 DEF Aborting, Reports, Gone, Live
<1>4. Kept
  <2>1. CASE txn_state = "Prepared"
    <3>1. prepared >= 0 /\ prepared \in Int
      BY <1>1, <2>1, KnownTypes DEF Guards
    <3>2. prepared \in issued \/ begun \in handles
      BY <3>1 DEF StartsEnd
    <3> QED BY <1>1, <2>1, <3>2 DEF Tokens, Kept
  <2>2. CASE txn_state # "Prepared" /\ recovery_required
    BY <1>1, <2>2 DEF Tokens, StartsEnd
  <2> QED BY <2>1, <2>2
<1> QED BY <1>3, <1>4 DEF Kept

LEMMA CommitsStep ==
  ASSUME Accounted, Step
  PROVE  Commits'
<1> USE KnownTypes
<1>1. /\ Commits /\ Phase /\ Guards /\ Cases /\ ControlTyped
      /\ (call.pc = "adopt" => call.op = "init")
  BY DEF Accounted, Phase, Idle, Call, Step
<1>2. CASE call' = NoCall
  BY <1>2 DEF Commits
<1>3. CASE call' # NoCall /\ StartsEnd("commit")
  <2>1. Settled \/ UNCHANGED <<begun, txn_of>>
    <3>1. ~Steady
      BY <1>3 DEF StartsEnd, Steady, Idle
    <3> QED BY <1>3, <3>1, SettledStep DEF StartsEnd, BeginTransaction, Settled
  <2>2. Settled
    BY <2>1 DEF Settled
  <2>3. ~Aborting /\ UNCHANGED <<told, begun, recovery_required>>
    <3>1. Reports /\ txn_state \in {"InTransaction", "Prepared"} /\ told[begun] # "aborting"
      BY <1>3 DEF Accounted, StartsEnd
    <3> QED BY <1>3, <3>1 DEF Aborting, Reports, Gone, Live, StartsEnd
  <2>4. ~Aborting'
    BY <2>3 DEF Aborting
  <2>5. call'.op = "commit" /\ call'.prev = txn_state /\ call'.pc = "flush"
    BY <1>3 DEF StartsEnd
  <2>6. txn_state = "Prepared" \/ recovery_required => Whole'
    BY <1>3, <2>2, StartsWhole, WholeStays
  <2> QED BY <2>3, <2>4, <2>5, <2>6 DEF Commits
<1>4. CASE StartsEnd("abort")
  <2>1. begun' = begun /\ call'.op = "abort" /\ told' = [told EXCEPT ![begun] = "aborting"]
    BY <1>4 DEF StartsEnd
  <2>2. begun' \notin Transactions \/ Aborting'
    BY <2>1 DEF Aborting
  <2> QED BY <2>1, <2>2 DEF Commits
<1>5. CASE StartsPrepare
  <2>1. Reports /\ txn_state = "InTransaction" /\ told[begun] # "aborting"
    BY <1>5 DEF Accounted, StartsPrepare
  <2>2. ~Aborting /\ UNCHANGED <<told, begun>>
    BY <1>5, <2>1 DEF Aborting, Reports, Gone, Live, StartsPrepare
  <2>3. ~Aborting'
    BY <2>2 DEF Aborting
  <2> QED BY <1>5, <2>3 DEF StartsPrepare, Commits
<1>10. CASE EntersInit
  BY <1>10 DEF EntersInit, StartsInit, Commits
<1>6. CASE /\ ~Idle /\ call'.op = call.op /\ call'.prev = call.prev /\ UNCHANGED <<begun, told>>
           /\ GoesOn \/ call' = call
           /\ recovery_required' => recovery_required \/ call.guard # begun
  <2>1. Settled
    BY <1>6, BusySettled
  <2>2. (Whole => Whole') /\ (AllCommitted => AllCommitted') /\ (Aborting' <=> Aborting)
    <3>1. Aborting' <=> Aborting
      BY <1>6 DEF Aborting
    <3> QED BY <2>1, <3>1, WholeStays
  <2>3. call.op = "abort" => begun' \notin Transactions \/ Aborting'
    BY <1>1, <1>6, <2>2 DEF Commits
  <2>4. call.op \in {"commit", "prepare"} => ~Aborting' /\ call'.pc # "drop"
    BY <1>1, <1>6, <2>2 DEF Commits, GoesOn
  <2>5. ASSUME call.op = "commit",
               call.prev = "Prepared" \/ call'.pc # "flush" \/ recovery_required'
        PROVE  Whole'
    <3>1. CASE call.prev = "Prepared" \/ call.pc # "flush" \/ recovery_required
      BY <1>1, <2>2, <2>5, <3>1 DEF Commits
    <3>2. CASE call.prev # "Prepared" /\ call.pc = "flush" /\ ~recovery_required
      <4>1. call.guard = begun
        BY <1>1, <2>5, <3>2 DEF Phase, Guards
      <4>2. call'.pc # "flush"
        BY <1>6, <2>5, <3>2, <4>1
      <4>3. Flushed /\ ~Abortable
        BY <1>6, <3>2, <4>2 DEF GoesOn
      <4> QED BY <2>2, <2>5, <4>3, CommitWhole
    <3> QED BY <3>1, <3>2
  <2>6. ASSUME call.op = "commit", call'.pc = "apply", call'.decision = "Complete"
        PROVE  AllCommitted'
    <3>1. CASE call' = call
      BY <1>1, <2>2, <2>6, <3>1 DEF Commits
    <3>2. CASE call' # call
      <4>1. EndTxnStep
        BY <1>1, <2>6, <3>2, AdoptingStep
      <4>2. EndTxnEffect
        BY <1>1, <4>1, EndTxnStepEffect
      <4>3. CoordinatorEnds /\ (EndTxnApplies \/ EndTxnRepeated)
        BY <2>6, <4>2 DEF EndTxnEffect
      <4>4. CASE EndTxnApplies
        <5>1. call'.applied
          <6>1. coord'.epoch = coord.epoch + 1
            BY <4>3, <4>4, EpochTypes, EndsEffect DEF Step
          <6>2. ~UNCHANGED coordVars
            BY <6>1 DEF coordVars
          <6> QED BY <4>2, <4>4, <6>2 DEF EndTxnEffect
        <5>2. Finishes
          BY <4>1, <4>3, <4>4, <5>1 DEF Finishes
        <5> QED BY <2>6, <5>2, FinishCommits
      <4>5. CASE EndTxnRepeated
        <5>1. epoch # coord.epoch /\ coord.last = "commit"
          BY <2>6, <4>5 DEF EndTxnRepeated
        <5>2. AllCommitted
          BY <5>1 DEF Accounted, Marks
        <5> QED BY <2>2, <5>2
      <4> QED BY <4>3, <4>4, <4>5
    <3> QED BY <3>1, <3>2
  <2> QED BY <1>6, <2>3, <2>4, <2>5, <2>6 DEF Commits
<1>7. CASE Steady \/ GoesOn \/ Drops
  <2>1. CASE Idle
    <3>1. call' = NoCall
      BY <1>7, <2>1 DEF Steady, GoesOn, Drops
    <3> QED BY <1>2, <3>1
  <2>2. CASE ~Idle /\ call' # NoCall
    BY <1>6, <1>7, <2>2 DEF Steady, GoesOn, Drops
  <2> QED BY <1>2, <2>1, <2>2
<1>8. CASE BeginTransaction
  BY <1>2, <1>8 DEF BeginTransaction
<1>9. CASE Returns \/ Prepares \/ Completes \/ Fails \/ Doubts \/ Adopts
  BY <1>2, <1>9 DEF Returns, Prepares, Completes, Fails, Doubts, Adopts
<1> QED BY <1>2, <1>3, <1>4, <1>5, <1>7, <1>8, <1>9, <1>10 DEF Step, Kinds

\* The producer writes again only after the transaction is over.
LEMMA SentStays ==
  ASSUME Accounted, Step, Sent, ~Completes, Adopts => call.ongoing >= 0
  PROVE  Sent' /\ Settled
<1> USE KnownTypes DEF Sent, Writing
<1>1. Settled
  BY SentSettled
<1>2. CASE Steady \/ GoesOn \/ Drops
  BY <1>1, <1>2 DEF Steady, GoesOn, Drops
<1>3. CASE StartsEnd("commit") \/ StartsEnd("abort") \/ EntersInit
  BY <1>1, <1>3 DEF StartsEnd, EntersInit, StartsInit
<1>4. CASE Returns \/ Fails \/ Doubts \/ Adopts
  BY <1>1, <1>4 DEF Returns, Fails, Doubts, Adopts
<1>5. ~BeginTransaction /\ ~StartsPrepare /\ ~Prepares
  BY DEF BeginTransaction, StartsPrepare, Prepares
<1> QED BY <1>1, <1>2, <1>3, <1>4, <1>5 DEF Step, Kinds

\* A prepared transaction is whole.
LEMMA PreparesWhole ==
  ASSUME Accounted, Step, Prepares
  PROVE  Whole' /\ Kept' /\ Sent' /\ begun' # 0
<1>1. Settled
  BY BusySettled DEF Prepares, Idle
<1>2. Whole' /\ Kept' /\ begun' # 0
  BY <1>1, PrepareWhole, WholeStays DEF Kept, Settled
<1>3. Sent'
  BY KnownTypes DEF Prepares, Sent, Writing
<1> QED BY <1>2, <1>3

\* A new identity has no token.
LEMMA EpochTokens ==
  ASSUME Accounted, Step, ~Prepares
  PROVE  /\ \A e \in issued' : e <= epoch' /\ begun' # 0
         /\ epoch' \in issued' => Whole' /\ Sent'
<1>1. /\ Tokens /\ Opened /\ Born /\ Epochs /\ Ground /\ Renewed /\ Cases /\ NoSplit /\ epoch \in Int
      /\ issued \subseteq Int
  BY KnownTypes DEF Accounted, Closed, Opened, Step
<1>2. issued' = issued
  BY DEF Step, Kinds, Steady, BeginTransaction, StartsEnd, StartsPrepare, EntersInit, GoesOn,
         Returns, Completes, Fails, Doubts, Adopts, Drops, heldVars
<1>3. epoch <= epoch' /\ epoch' \in Int
  <2>1. epoch' \in Int
    BY <1>1, EpochStep, KnownTypes
  <2> QED BY <1>1, <2>1, EpochsStep
<1>4. ASSUME epoch' \in issued PROVE epoch' = epoch
  BY <1>1, <1>3, <1>4 DEF Tokens
<1>5. ASSUME epoch' = epoch PROVE ~Completes /\ ~Adopts
  <2>1. ~Completes
    BY <1>1, <1>5, KnownTypes DEF Completes, Renewed, Epochs
  <2>2. ~Adopts
    BY <1>1, <1>5, KnownTypes DEF Adopts, Epochs
  <2> QED BY <2>1, <2>2
<1>6. epoch' \in issued' => Whole' /\ Sent'
  BY <1>1, <1>2, <1>4, <1>5, SentStays, WholeStays DEF Tokens
<1>7. \A e \in issued' : e <= epoch' /\ begun' # 0
  <2>1. begun # 0 => begun' # 0
    BY <1>1, KnownTypes, BeganStep
  <2> QED BY <1>1, <1>2, <1>3, <2>1 DEF Tokens
<1> QED BY <1>6, <1>7

LEMMA OngoingTokens ==
  ASSUME Accounted, Step, ~Prepares, open' # {}, coord'.ongoing \in issued'
  PROVE  Whole' /\ Sent'
<1>1. /\ Tokens /\ Opened /\ Epochs /\ OpenPhase /\ Ground /\ Cases /\ NoSplit /\ ControlTyped
      /\ Typed /\ Transactional /\ CoordTyped /\ epoch \in Int /\ coord.epoch \in Int
  BY KnownTypes, EpochTypes DEF Accounted, Closed, Opened, Ground, Step
<1>2. issued' = issued
  BY DEF Step, Kinds, Steady, BeginTransaction, StartsEnd, StartsPrepare, EntersInit, GoesOn,
         Returns, Completes, Fails, Doubts, Adopts, Drops, heldVars
<1>3. ASSUME Whole, Sent, ~Completes, Adopts => call.ongoing >= 0
      PROVE  Whole' /\ Sent'
  BY <1>3, SentStays, WholeStays
<1>4. ASSUME open # {} PROVE ~Completes /\ (Adopts => call.ongoing >= 0)
  BY <1>1, <1>4, KnownTypes DEF OpenPhase, Completes, Adopts
<1>5. CASE open # {} /\ coord'.ongoing = coord.ongoing
  BY <1>1, <1>2, <1>3, <1>4, <1>5 DEF Tokens
<1>6. CASE LeaderWork
  <2>1. CASE UNCHANGED coordVars
    BY <1>5, <2>1 DEF coordVars
  <2>2. ASSUME NEW b, Appends(b) PROVE Whole' /\ Sent'
    <3>1. CASE open # {}
      BY <1>1, <1>5, <2>2, <3>1, AppendsEffect
    <3>2. CASE open = {}
      <4>1. coord'.ongoing = b.epoch /\ b.epoch = coord.epoch /\ b \in Outstanding
        BY <1>1, <2>2, <3>2, AppendsEffect DEF Appends
      <4>2. b.epoch = epoch
        BY <1>1, <4>1, EpochTypes DEF Epochs
      <4>3. call' = call
        BY <1>1, <1>6, LeaderStep
      <4>4. ~Completes /\ ~Adopts
        BY <4>3, KnownTypes DEF Completes, Adopts
      <4> QED BY <1>1, <1>2, <1>3, <4>1, <4>2, <4>4 DEF Tokens
    <3> QED BY <3>1, <3>2
  <2> QED BY <1>1, <1>6, <2>1, <2>2, LeaderStep
<1>7. ~Finishes
  BY DEF Finishes, CoordinatorEnds
<1>8. ASSUME NEW keep \in BOOLEAN, Raises(keep) PROVE Whole' /\ Sent'
  <2>1. open' = open /\ coord'.ongoing = coord.ongoing
    BY <1>1, <1>8, InitsEffect DEF Raises, CoordinatorInits
  <2> QED BY <1>5, <2>1
<1> QED BY <1>1, <1>5, <1>6, <1>7, <1>8, CoordCases DEF coordVars

\* A guard or a token that is left when InitProducerId is answered.
LEMMA AdoptTokens ==
  ASSUME Accounted, Step, call'.pc = "adopt", call'.ongoing >= 0
  PROVE  (call'.ongoing \in issued' => Whole') /\ (begun' \in handles' => Kept')
<1> USE KnownTypes
<1>1. /\ Tokens /\ Guards /\ OpenPhase /\ Cases /\ ControlTyped /\ Phase
  BY DEF Accounted, Closed, Opened, Step
<1>2. CASE call' = call
  <2>1. ~Idle
    BY <1>2
  <2>2. UNCHANGED <<begun, issued>> /\ handles' \subseteq handles
    BY <1>2, <2>1
       DEF Step, Kinds, Steady, BeginTransaction, StartsEnd, StartsPrepare, EntersInit, GoesOn,
           Returns, Prepares, Completes, Fails, Doubts, Adopts, Drops, heldVars
  <2>3. (call'.ongoing \in issued' => Whole) /\ (begun' \in handles' => Kept)
    BY <1>1, <1>2, <2>2 DEF Tokens
  <2> QED BY <2>1, <2>3, BusySettled, WholeStays
<1>3. CASE InitAnswered
  <2>1. /\ call.pc = "init" /\ UNCHANGED <<handles, issued, begun>>
        /\ call'.ongoing = IF call.keep /\ open # {} THEN coord.ongoing ELSE -1
    BY <1>3 DEF InitAnswered, Call, txnVars, ghostVars
  <2>2. call.op = "init"
    BY <1>1, <2>1 DEF Phase, Call, Idle
  <2>3. open # {} /\ call'.ongoing = coord.ongoing
    BY <2>1
  <2>4. coord.ongoing \in issued => Whole
    BY <1>1, <2>3 DEF Tokens
  <2>5. ASSUME begun \in handles PROVE Kept
    <3>1. begun # 0
      BY <1>1, <2>5 DEF Guards, Guarded
    <3>2. call.prev \notin {"Uninitialized", "Ready"}
      BY <1>1, <2>2, <2>3, <3>1 DEF Guards, OpenPhase, Clean
    <3> QED BY <1>1, <2>2, <2>5, <3>2 DEF Guards, Tokens
  <2>6. ~Idle
    BY <2>2 DEF Idle
  <2> QED BY <2>1, <2>3, <2>4, <2>5, <2>6, BusySettled, WholeStays
<1> QED BY <1>1, <1>2, <1>3, AdoptingStep

\* A guard of a transaction that needs recovery.
LEMMA RecoveryTokens ==
  ASSUME Accounted, Step, recovery_required', begun' \in handles'
  PROVE  Kept'
<1> USE KnownTypes
<1>1. Tokens /\ Commits /\ Phase
  BY DEF Accounted
<1>2. CASE recovery_required
  <2>1. ~BeginTransaction
    BY <1>2 DEF BeginTransaction
  <2>2. Settled
    BY <1>2, <2>1, SettledStep DEF Accepts, SendRefused
  <2>3. begun' = begun /\ handles' \subseteq handles
    BY <2>1, <2>2
       DEF Settled, Step, Kinds, Steady, StartsEnd, StartsPrepare, EntersInit, GoesOn,
           Returns, Prepares, Completes, Fails, Doubts, Adopts, Drops, heldVars
  <2>4. Kept
    BY <1>1, <1>2, <2>3 DEF Tokens
  <2> QED BY <2>2, <2>4, WholeStays
<1>3. CASE ~recovery_required
  <2>1. Doubts
    BY <1>3
       DEF Step, Kinds, Steady, BeginTransaction, StartsEnd, StartsPrepare, EntersInit, GoesOn,
           Returns, Prepares, Completes, Fails, Adopts, Drops
  <2>2. call.pc = "apply" /\ ~Idle
    BY <2>1 DEF Doubts
  <2>3. call.op \in {"commit", "abort"}
    BY <1>1, <2>2 DEF Phase, Call, Idle
  <2>4. Kept
    BY <1>1, <2>2, <2>3 DEF Commits, Kept, Whole
  <2> QED BY <2>2, <2>4, BusySettled, WholeStays
<1> QED BY <1>2, <1>3

\* A transaction that is prepared.
LEMMA PreparedTokens ==
  ASSUME Accounted, Step, txn_state' = "Prepared" \/ call'.prev = "Prepared"
  PROVE  (prepared' \in issued' => Whole') /\ (begun' \in handles' => Kept')
<1> USE KnownTypes
<1>1. Tokens /\ Phase
  BY DEF Accounted
<1>2. CASE Prepares
  BY <1>2, PreparesWhole
<1>3. CASE Adopts
  <2>1. call.pc = "adopt" /\ ~Idle /\ call.ongoing >= 0
    BY <1>3 DEF Adopts
  <2>2. (prepared' \in issued' => Whole) /\ (begun' \in handles' => Kept)
    BY <1>1, <1>3, <2>1 DEF Adopts, Tokens
  <2> QED BY <2>1, <2>2, BusySettled, WholeStays
<1>4. CASE ~Prepares /\ ~Adopts
  <2>1. /\ txn_state = "Prepared" \/ call.prev = "Prepared"
        /\ UNCHANGED <<prepared, issued, begun>> /\ handles' \subseteq handles
    <3>1. CASE Steady \/ GoesOn \/ Drops
      BY <1>4, <3>1 DEF Steady, GoesOn, Drops, heldVars
    <3>2. CASE StartsEnd("commit") \/ StartsEnd("abort") \/ StartsPrepare \/ EntersInit
      BY <1>4, <3>2 DEF StartsEnd, StartsPrepare, EntersInit, StartsInit, heldVars
    <3>3. CASE Returns
      BY <1>4, <3>3 DEF Returns, heldVars
    <3>4. ~Completes /\ ~Fails /\ ~Doubts /\ ~BeginTransaction
      BY DEF Completes, Fails, Doubts, BeginTransaction
    <3> QED BY <1>4, <3>1, <3>2, <3>3, <3>4 DEF Step, Kinds
  <2>2. (prepared' \in issued' => Whole) /\ (begun' \in handles' => Kept)
    BY <1>1, <2>1 DEF Tokens
  <2>3. Settled
    BY <2>1, BusySettled, SentSettled
  <2> QED BY <2>2, <2>3, WholeStays
<1> QED BY <1>2, <1>3, <1>4

LEMMA TokensStep ==
  ASSUME Accounted, Step
  PROVE  Tokens'
<1>1. /\ \A e \in issued' : e <= epoch' /\ begun' # 0
      /\ epoch' \in issued' => Whole' /\ Sent'
  <2>1. CASE Prepares
    BY <2>1, KnownTypes, PreparesWhole DEF Prepares, Accounted, Tokens
  <2> QED BY <2>1, EpochTokens
<1>2. open' # {} /\ coord'.ongoing \in issued' => Whole' /\ Sent'
  BY OngoingTokens, PreparesWhole
<1> QED BY <1>1, <1>2, AdoptTokens, RecoveryTokens, PreparedTokens DEF Tokens

\* What the steps do with the coordinator's epoch and its last EndTxn.
Marked == coord'.epoch = coord.epoch /\ coord'.last = coord.last
Remarked == coord'.epoch = coord.epoch + 1 /\ coord'.last = "none"
Finished ==
  /\ Finishes /\ epoch = coord.epoch /\ coord'.epoch = coord.epoch + 1
  /\ coord'.last = call.op /\ call.pc = "end" /\ call'.pc \in {"end", "lookup", "apply"}
  /\ UNCHANGED txnVars

LEMMA MarkStep ==
  ASSUME Accounted, Step
  PROVE  Marked \/ Remarked \/ Finished
<1>1. /\ Typed /\ ControlTyped /\ CoordTyped /\ Transactional /\ NoSplit /\ Cases /\ TransactionV2
  BY KnownTypes, EpochTypes DEF Step, Ground
<1>2. CASE UNCHANGED coordVars
  BY <1>2 DEF coordVars, Marked
<1>3. CASE LeaderWork
  BY <1>1, <1>3, LeaderStep, AppendsEffect DEF coordVars, Marked
<1>4. CASE Finishes
  <2>1. EndTxnEffect
    BY <1>1, <1>4, EndTxnStepEffect DEF Finishes
  <2> QED BY <1>1, <1>4, <2>1, CoordEpochStep DEF Finished, Finishes, EndTxnApplies, EndTxnEffect
<1>5. CASE \E keep \in BOOLEAN : Raises(keep)
  BY <1>1, <1>5, CoordEpochStep DEF Remarked
<1> QED BY <1>1, <1>2, <1>3, <1>4, <1>5, CoordCases

\* A call changes the transaction only when the coordinator ends it.
LEMMA AppliedStep ==
  ASSUME ControlTyped, Cases, call'.applied, ~call.applied
  PROVE  EndTxnStep /\ EndTxnApplies /\ CoordinatorEnds
<1>1. call \in Call /\ call.applied = FALSE /\ ~NoCall.applied
  BY DEF ControlTyped, CallTyped, NoCall, Call
<1>2. ASSUME NEW p \in Partitions, FlushScan(p) PROVE FALSE
  BY <1>1, <1>2 DEF FlushScan, Call
<1>3. ASSUME NEW p \in Partitions, DropScan(p) PROVE FALSE
  BY <1>1, <1>3 DEF DropScan, Call
<1>4. ASSUME NEW op, NEW t, Ends(op, t) PROVE FALSE
  BY <1>4 DEF Ends, EndStart, NoCall
<1>5. ASSUME NEW t, PrepareStart(t) PROVE FALSE
  BY <1>5 DEF PrepareStart, NoCall
<1>6. ASSUME NEW keep, InitStart(keep) PROVE FALSE
  BY <1>6 DEF InitStart, NoCall
<1>7. CASE FlushDone \/ DrainDone
  BY <1>1, <1>7 DEF FlushDone, DrainDone, ReturnTo, Call
<1>8. CASE EndTxnStep
  BY <1>1, <1>8, EndTxnStepEffect DEF EndTxnEffect
<1>9. CASE EndTxnLookup
  <2>1. CASE call' = [call EXCEPT !.pc = "end"]
    BY <1>1, <2>1 DEF Call
  <2>2. ASSUME NEW d, call' = [call EXCEPT !.pc = "apply", !.decision = d] PROVE FALSE
    BY <1>1, <2>2 DEF Call
  <2> QED BY <1>9, <2>1, <2>2 DEF EndTxnLookup
<1>10. CASE InitAnswered
  BY <1>1, <1>10 DEF InitAnswered, Call
<1>11. CASE \/ BeginTransaction \/ FlushTimeout \/ CancelCall \/ EndTxnApply \/ InitLost
            \/ InitAdopt \/ OtherInit \/ SendRegister \/ SendAppend \/ UNCHANGED vars
  BY <1>1, <1>11
     DEF BeginTransaction, FlushTimeout, CancelCall, EndTxnApply, InitLost, InitAdopt,
         OtherInit, SendRegister, SendAppend, ReturnTo, FatalReturn, vars
<1>12. ASSUME NEW p \in Partitions, SendLock(p) \/ LeaderForgets(p) PROVE FALSE
  BY <1>1, <1>12 DEF SendLock, LeaderForgets
<1>13. ASSUME NEW t, DropGuard(t) PROVE FALSE
  BY <1>1, <1>13 DEF DropGuard
<1>14. ASSUME NEW code, SendRegisterRefused(code) \/ InitRefused(code) PROVE FALSE
  BY <1>1, <1>14 DEF SendRegisterRefused, InitRefused, ReturnTo, FatalReturn
<1>15. CASE SenderWork \/ LeaderWork
  BY <1>1, <1>15, SenderWorkFrame, LeaderWorkServes DEF SenderFrame, LeaderFrame
<1> QED BY <1>2, <1>3, <1>4, <1>5, <1>6, <1>7, <1>8, <1>9, <1>10, <1>11, <1>12, <1>13,
           <1>14, <1>15 DEF Cases

\* The epoch of the identity changes only when a call returns.
LEMMA EpochKept ==
  ASSUME Accounted, Step, call' # NoCall
  PROVE  epoch' = epoch
  BY DEF Step, Kinds, Steady, BeginTransaction, StartsEnd, StartsPrepare, EntersInit, GoesOn,
         Returns, Prepares, Completes, Fails, Doubts, Adopts, Drops

\* An EndTxn that was applied raised the epoch of the coordinator.
LEMMA AppliedMarks ==
  ASSUME Accounted, Step, call'.applied
  PROVE  epoch' < coord'.epoch
<1> USE KnownTypes
<1>1. epoch' = epoch
  BY EpochKept
<1>2. CASE call.applied
  BY <1>1, <1>2, MarkStep DEF Accounted, Marks, Marked, Remarked, Finished
<1>3. CASE ~call.applied
  <2>1. EndTxnStep /\ EndTxnApplies /\ CoordinatorEnds
    BY <1>3, AppliedStep DEF Step
  <2>2. Finishes
    BY <2>1 DEF Finishes
  <2> QED BY <1>1, <2>1, <2>2, EpochTypes, CoordEpochStep DEF EndTxnApplies, Step, Ground
<1> QED BY <1>2, <1>3

\* What the answer that a call is about to adopt says of the coordinator.
LEMMA AnswerMarks ==
  ASSUME Accounted, Step
  PROVE  /\ call'.pc = "adopt" => coord'.last = "none"
         /\ call'.pc = "apply" /\ call'.decision = "Complete" /\ coord'.last # "none" =>
              call'.found = coord'.epoch
<1> USE KnownTypes
<1>1. Marks /\ Cases /\ ControlTyped /\ Typed /\ TransactionV2
  BY DEF Accounted, Step
<1>2. CASE call' = call
  <2>1. CASE Marked
    BY <1>1, <1>2, <2>1 DEF Marks, Marked
  <2>2. CASE Remarked \/ Finished
    BY <1>2, <2>2 DEF Remarked, Finished
  <2> QED BY <2>1, <2>2, MarkStep
<1>3. CASE InitAnswered /\ call'.pc = "adopt"
  BY <1>1, <1>3, EpochTypes, InitsEffect DEF InitAnswered
<1>4. CASE EndTxnStep /\ call'.pc = "apply"
  <2>1. EndTxnEffect
    BY <1>1, <1>4, EndTxnStepEffect
  <2>2. ASSUME call'.decision = "Complete" PROVE call'.found = coord'.epoch
    <3>1. CoordinatorEnds /\ call'.found = EpochAfterEnd
      BY <1>4, <2>1, <2>2 DEF EndTxnEffect
    <3>2. CASE EndTxnApplies
      BY <1>1, <3>1, <3>2, EpochTypes, EndsEffect DEF EpochAfterEnd
    <3>3. CASE ~EndTxnApplies
      BY <1>1, <3>1, <3>3 DEF EpochAfterEnd, CoordinatorEnds, coordVars
    <3> QED BY <3>2, <3>3
  <2> QED BY <1>4, <2>2
<1>5. CASE call'.pc = "apply" /\ call'.decision # "Complete"
  BY <1>5
<1> QED BY <1>1, <1>2, <1>3, <1>4, <1>5, AdoptingStep

\* A commit that the coordinator applied, and the producer has not heard of.
LEMMA CommitMarks ==
  ASSUME Accounted, Step, epoch' # coord'.epoch, coord'.last = "commit"
  PROVE  /\ AllCommitted' /\ Gone'
         /\ txn_state' # "Ready" /\ (call'.op = "init" => call'.prev # "Ready")
<1> USE KnownTypes
<1>1. /\ Marks /\ Cases /\ ControlTyped /\ Honest /\ OpenPhase /\ Renewed /\ Epochs /\ Phase
  BY DEF Accounted, Step, Closed, Opened
<1>2. CASE Finished
  <2>1. AllCommitted' /\ Gone' /\ call'.op = "commit"
    BY <1>1, <1>2, FinishCommits, FinishesOver DEF Finished
  <2>2. txn_state' # "Ready"
    BY <1>1, <1>2 DEF Finished, Phase, txnVars, Idle, Call
  <2> QED BY <2>1, <2>2
<1>3. CASE Marked
  <2>1. coord.last = "commit" /\ coord'.epoch = coord.epoch
    BY <1>3 DEF Marked
  <2>2. ~Adopts
    BY <1>1, <2>1 DEF Adopts, Marks
  <2>3. ~Completes
    BY <1>1, <2>1 DEF Completes, Marks, Renewed, Epochs
  <2>4. epoch' = epoch
    BY <2>2, <2>3
       DEF Step, Kinds, Steady, BeginTransaction, StartsEnd, StartsPrepare, EntersInit, GoesOn,
           Returns, Prepares, Fails, Doubts, Drops
  <2>5. /\ AllCommitted /\ Gone /\ open = {}
        /\ txn_state # "Ready" /\ (call.op = "init" => call.prev # "Ready")
    BY <1>1, <2>1, <2>4 DEF Marks, OpenPhase
  <2>6. ~BeginTransaction
    BY <2>5 DEF BeginTransaction
  <2>7. Gone'
    BY <1>1, <2>5, <2>6, GoneStep
  <2>8. AllCommitted'
    <3>1. Settled
      BY <2>5, SentSettled DEF Gone, Live
    <3> QED BY <2>5, <3>1, WholeStays
  <2>9. txn_state' # "Ready" /\ (call'.op = "init" => call'.prev # "Ready")
    <3>1. CASE Steady \/ GoesOn \/ Drops
      BY <2>5, <3>1 DEF Steady, GoesOn, Drops
    <3>2. CASE StartsEnd("commit") \/ StartsEnd("abort") \/ StartsPrepare \/ EntersInit
      BY <2>5, <3>2 DEF StartsEnd, StartsPrepare, EntersInit, StartsInit
    <3>3. CASE Returns
      BY <1>1, <2>5, <3>3 DEF Returns, Phase, Call, Idle
    <3>4. CASE Prepares \/ Fails \/ Doubts
      BY <3>4 DEF Prepares, Fails, Doubts
    <3> QED BY <2>2, <2>3, <2>6, <3>1, <3>2, <3>3, <3>4 DEF Step, Kinds
  <2> QED BY <2>7, <2>8, <2>9
<1> QED BY <1>2, <1>3, MarkStep DEF Remarked

LEMMA MarksStep ==
  ASSUME Accounted, Step
  PROVE  Marks'
  BY AppliedMarks, AnswerMarks, CommitMarks DEF Marks

\* What commit and abort report is about the last transaction.
LEMMA ReportStep ==
  ASSUME Accounted, Step
  PROVE  \/ told' = told
         \/ told' = [told EXCEPT ![begun] = "aborting"] /\ UNCHANGED begun
         \/ /\ Completes /\ call.op \in {"commit", "abort"} /\ UNCHANGED begun
            /\ told' = [told EXCEPT ![begun] = IF call.op = "commit" THEN "committed" ELSE "aborted"]
<1> USE KnownTypes
<1>1. CASE Completes
  <2>1. call.op \in {"commit", "abort"}
    BY <1>1 DEF Completes, Phase, Idle, Call
  <2>2. call.guard \in {0, begun}
    BY <2>1 DEF Accounted, Closed, EndedOver, Step, Orderly
  <2>3. Concerned = begun
    BY <2>2 DEF Concerned
  <2> QED BY <1>1, <2>1, <2>3 DEF Completes
<1>2. CASE StartsEnd("abort")
  BY <1>2 DEF StartsEnd
<1>3. told' = told \/ StartsEnd("abort") \/ Completes
  BY DEF Step, Kinds, Steady, BeginTransaction, StartsEnd, StartsPrepare, EntersInit, GoesOn,
         Returns, Prepares, Fails, Doubts, Adopts, Drops
<1> QED BY <1>1, <1>2, <1>3

\* A transaction whose end was reported stays over.
LEMMA OverStays ==
  ASSUME Accounted, Step, ~BeginTransaction, Clean, Quiet, Gone \/ Completes
  PROVE  Clean' /\ Quiet' /\ Gone'
<1> USE KnownTypes
<1>1. /\ NoSplit /\ Cases /\ Epochs /\ Honest /\ Generations /\ Numbered /\ Transactional
  BY DEF Step, Accounted, Closed, Opened, Ground
<1>2. Clean'
  BY <1>1, CleanStep
<1>3. Drifts
  <2>1. ASSUME NEW r, Accepts(r) PROVE FALSE
    BY <2>1 DEF Accepts, SendRefused, Gone, Live, Completes, Phase
  <2> QED BY <1>1, <2>1, BatchStep
<1>4. Quiet'
  BY <1>1, <1>3, CurrentShrinks
<1>5. CASE Gone
  BY <1>1, <1>2, <1>4, <1>5, GoneStep DEF Clean
<1>6. CASE Completes
  <2>1. txn_state' = "Ready" /\ call' = NoCall
    BY <1>6 DEF Completes
  <2>2. Gone'
    BY <2>1 DEF Gone, Live
  <2> QED BY <1>2, <1>4, <2>2
<1> QED BY <1>5, <1>6

LEMMA ReportsStep ==
  ASSUME Accounted, Step
  PROVE  Reports'
<1> USE KnownTypes
<1>1. /\ Reports /\ Epochs /\ OpenPhase /\ Cases
      /\ UNCHANGED begun \/ (BeginTransaction /\ begun' = begun + 1 /\ told' = told)
  <2>1. BeginTransaction => told' = told
    BY DEF BeginTransaction
  <2> QED BY <2>1, BeganStep DEF Accounted, Closed, Opened, Step
<1>2. ASSUME NEW t \in Transactions, t > begun' PROVE told'[t] = "none"
  <2>1. t > begun /\ told[t] = "none"
    BY <1>1, <1>2, TransactionConstants DEF Reports, Transactions
  <2> QED BY <2>1, ReportStep
<1>3. ASSUME begun' \in Transactions, told'[begun'] \in {"committed", "aborted"}
      PROVE  Clean' /\ Quiet' /\ Gone'
  <2>1. CASE BeginTransaction
    <3>1. begun' > begun /\ told' = told
      BY <2>1 DEF BeginTransaction
    <3> QED BY <1>1, <1>3, <3>1 DEF Reports
  <2>2. CASE ~BeginTransaction
    <3>1. begun' = begun
      BY <1>1, <2>2
    <3>2. CASE told[begun] \in {"committed", "aborted"}
      BY <1>1, <1>3, <2>2, <3>1, <3>2, OverStays DEF Reports
    <3>3. CASE told[begun] \notin {"committed", "aborted"}
      <4>1. Completes
        BY <1>3, <3>1, <3>3, ReportStep
      <4>2. Clean /\ Quiet
        BY <1>1, <4>1, CleanCalls DEF Completes
      <4> QED BY <2>2, <4>1, <4>2, OverStays
    <3> QED BY <3>2, <3>3
  <2> QED BY <2>1, <2>2
<1> QED BY <1>2, <1>3 DEF Reports

LEMMA CommittedStep ==
  ASSUME Accounted, Step
  PROVE  CommittedMeansAll'
<1> USE KnownTypes
<1>1. committed \subseteq committed' /\ Reports /\ Commits /\ CommittedMeansAll
  BY EndsStep DEF Accounted, Step
<1>2. ASSUME NEW t \in Transactions, told'[t] = "committed" PROVE Of(t)' \subseteq committed'
  <2>1. CASE told[t] = "committed"
    <3>1. Of(t) \subseteq committed
      BY <1>1, <2>1 DEF CommittedMeansAll
    <3>2. Of(t)' \subseteq Of(t)
      <4>1. CASE UNCHANGED txn_of
        BY <4>1 DEF Of
      <4>2. ASSUME NEW r, Accepts(r) PROVE Of(t)' \subseteq Of(t)
        <5>1. txn_state = "InTransaction" /\ txn_of' = [txn_of EXCEPT ![r] = begun]
          BY <4>2 DEF Accepts, SendRefused
        <5>2. t # begun
          BY <1>1, <2>1, <5>1 DEF Reports, Gone, Live
        <5>3. \A x \in Records : txn_of'[x] = t => txn_of[x] = t
          BY <5>1, <5>2 DEF RecordsTyped
        <5> QED BY <5>3 DEF Of
      <4> QED BY <4>1, <4>2, SettledStep DEF Settled
    <3> QED BY <1>1, <3>1, <3>2
  <2>2. CASE told[t] # "committed"
    <3>1. Completes /\ call.op = "commit" /\ t = begun /\ UNCHANGED begun
      BY <1>2, <2>2, ReportStep
    <3>2. AllCommitted /\ ~Idle
      BY <1>1, <3>1 DEF Completes, Commits, Idle
    <3>3. AllCommitted'
      BY <3>2, BusySettled, WholeStays
    <3>4. Of(begun)' = Of(t)'
      BY <3>1 DEF Of
    <3> QED BY <3>1, <3>3, <3>4 DEF AllCommitted
  <2> QED BY <2>1, <2>2
<1> QED BY <1>2 DEF CommittedMeansAll

LEMMA AccountedInit ==
  ASSUME Init
  PROVE  Accounted
<1>1. /\ begun = 0 /\ begun \notin Transactions /\ issued = {} /\ handles = {} /\ open_guard = 0
      /\ txn_state = "Uninitialized" /\ ~recovery_required /\ epoch = coord.epoch
      /\ call.op = "none" /\ call.pc = "none" /\ call.prev = "none" /\ ~call.applied
      /\ taken = {} /\ requests = {} /\ open = {}
      /\ \A r \in Records : outcome[r] = "none" /\ txn_of[r] = 0
      /\ \A t \in Transactions : told[t] = "none"
  BY TransactionConstants DEF Init, NoCall, Transactions
<1>2. ~Going
  BY <1>1 DEF Going
<1>3. Base /\ Accounts /\ Generation /\ Failures
  BY <1>1, <1>2 DEF Base, Idle, Accounts, Generation, Failures
<1>4. Guards /\ Commits /\ Marks /\ Reports /\ CommittedMeansAll
  BY <1>1 DEF Guards, Guarded, Commits, Marks, Reports, CommittedMeansAll
<1>5. Tokens
  BY <1>1 DEF Tokens
<1> QED BY <1>3, <1>4, <1>5, ClosedInit, SequencedInit DEF Accounted

LEMMA AccountedStep ==
  ASSUME NoSplit, TransactionV2, Orderly, Accounted, [Next]_vars
  PROVE  Accounted'
<1>1. Step
  BY KnownTypes, NextCases, KindsStep DEF Step, Accounted, Guards
<1>2. Closed' /\ Sequenced' /\ Renewed'
  BY <1>1, KnownTypes, ClosedStep, SequencedStep, RenewedStep DEF Step, Accounted
<1> QED BY <1>1, <1>2, BaseStep, AccountsStep, GuardsStep, GenerationKept, FailuresStep,
           TokensStep, CommitsStep, MarksStep, ReportsStep, CommittedStep DEF Accounted

\* With transaction version 2, when no batch has to be split, a commit that
\* reported success (apply_end_txn) left every record that the transaction accepted
\* committed in the logs: through retries, lost answers, fenced epochs, dropped
\* guards, recoveries and prepared transactions that another guard, a token or a
\* new init_transactions finishes.  Orderly leaves out the four cases in which the
\* code breaks this: a fatal produce answer, batches that expire in an accumulator,
\* an application that commits after an abort that failed, and one that uses the
\* guard of an earlier transaction.
THEOREM CommittedMeansAllHolds ==
  ASSUME NoSplit, TransactionV2, Orderly
  PROVE  Spec => []CommittedMeansAll
<1>1. Init => Accounted
  BY AccountedInit
<1>2. Accounted /\ [Next]_vars => Accounted'
  BY AccountedStep
<1>3. Accounted => CommittedMeansAll
  BY DEF Accounted
<1> QED BY <1>1, <1>2, <1>3, PTL DEF Spec

-----------------------------------------------------------------------------
(* What prepare_transaction promises.                                      *)

\* The producer may still go on with the transaction, and no recovery is due.
Alive ==
  /\ ~recovery_required
  /\ \/ txn_state \in Live \/ call.op = "prepare"
     \/ call.op \in {"commit", "abort"} /\ ~call.applied

\* Then the transaction is not over at the coordinator.  An identity that a call is
\* about to adopt is the one that the coordinator has.
Unended ==
  /\ Alive => ~Ended
  /\ call.pc = "adopt" => call.found = coord.epoch

\* A transaction that the producer goes on with, it went on with before.
LEMMA AliveStep ==
  ASSUME Accounted, Step, Alive', begun' = begun
  PROVE  Alive \/ (Adopts /\ call.ongoing >= 0)
<1> USE KnownTypes
<1>1. Guards /\ Phase /\ Honest /\ Cases /\ ControlTyped
  BY DEF Accounted, Closed, Step
<1>2. ~recovery_required'
  BY DEF Alive
<1>3. CASE Steady
  BY <1>3 DEF Steady, Alive
<1>4. CASE StartsEnd("commit") \/ StartsEnd("abort") \/ StartsPrepare
  BY <1>2, <1>4 DEF StartsEnd, StartsPrepare, Alive, Live
<1>5. CASE EntersInit
  BY <1>5 DEF EntersInit, StartsInit, Alive, Live
<1>6. CASE GoesOn
  <2>1. ~recovery_required /\ txn_state' = txn_state /\ call'.op = call.op /\ ~Idle
    BY <1>2, <1>6 DEF GoesOn
  <2>2. CASE txn_state \in Live \/ call.op \notin {"commit", "abort"}
    BY <2>1, <2>2 DEF Alive
  <2>3. CASE txn_state \notin Live /\ call.op \in {"commit", "abort"}
    <3>1. ~call'.applied
      BY <2>1, <2>3 DEF Alive
    <3>2. call' = call \/ Proceeds
      BY <1>1, <2>1, <2>3, CallMoves DEF Idle, Learns, Starts, StartsInit
    <3> QED BY <2>1, <2>3, <3>1, <3>2 DEF Proceeds, Alive
  <2> QED BY <2>2, <2>3
<1>7. CASE Returns
  <2>1. ~recovery_required /\ txn_state' = call.prev /\ call' = NoCall /\ ~Idle
    BY <1>2, <1>7 DEF Returns
  <2>2. call.prev \in Live
    BY <2>1 DEF Alive
  <2>3. call.op # "init"
    BY <1>1, <2>1, <2>2 DEF Guards, Live
  <2>4. CASE call.op = "prepare"
    BY <2>1, <2>4 DEF Alive
  <2>5. CASE call.op \in {"commit", "abort"}
    <3>1. /\ txn_state = "CommittingOrAborting" /\ txn_state' \in {"InTransaction", "Prepared"}
          /\ call.pc \in {"flush", "drop", "drain", "end", "lookup", "apply"}
      BY <1>1, <2>1, <2>5 DEF Phase
    <3>2. \/ call.pc \in {"flush", "drain"}
          \/ EndTxnApply /\ call.decision \in Returned
      BY <1>1, <2>5, <3>1, StateMoves DEF BeginTransaction, Live, InitAdopt
    <3>3. ~call.applied
      BY <1>1, <3>2 DEF Honest, EndTxnApply
    <3> QED BY <2>1, <2>5, <3>3 DEF Alive
  <2> QED BY <2>1, <2>3, <2>4, <2>5 DEF Call, Idle
<1>8. CASE Prepares
  BY <1>1, <1>8 DEF Prepares, Guards, Alive
<1>9. CASE Completes \/ Fails \/ Doubts
  BY <1>2, <1>9 DEF Completes, Fails, Doubts, Alive, Live
<1>10. CASE Adopts
  BY <1>10 DEF Adopts, Alive, Live
<1>11. CASE Drops
  BY <1>2, <1>11 DEF Drops, Alive
<1>12. ~BeginTransaction
  BY DEF BeginTransaction
<1> QED BY <1>3, <1>4, <1>5, <1>6, <1>7, <1>8, <1>9, <1>10, <1>11, <1>12 DEF Step, Kinds

\* Nothing but a call of this producer ends the transaction.
LEMMA UnendedStep ==
  ASSUME Accounted, Step, "other_init" \notin Faults, Unended
  PROVE  Unended'
<1> USE KnownTypes
<1>1. /\ NoSplit /\ Cases /\ EndedOver /\ Guards /\ Base /\ Typed /\ CoordTyped /\ ~OtherInit
  BY EpochTypes DEF Accounted, Closed, Step, OtherInit, Fault
<1>2. ASSUME Alive', Ended' PROVE FALSE
  <2>1. /\ begun' = begun
        /\ \/ Ended \/ Finishes \/ (\E keep \in BOOLEAN : Raises(keep) /\ ~keep)
           \/ EndTxnApply /\ call.decision = "Complete"
    BY <1>1, <1>2, EndedMoves
  <2>2. CASE Ended
    <3>1. Adopts /\ call.ongoing >= 0
      BY <1>2, <2>1, <2>2, AliveStep DEF Unended
    <3> QED BY <1>1, <2>2, <3>1 DEF Unended, EndedOver, Adopts
  <2>3. CASE Finishes
    <3>1. Gone'
      BY <1>1, <2>3, FinishesOver
    <3> QED BY <1>2, <3>1 DEF Gone, Alive
  <2>4. ASSUME NEW keep, Raises(keep) PROVE FALSE
    <3>1. InitAnswered \/ InitLost
      BY <1>1, <2>4 DEF Raises
    <3>2. call.pc = "init" /\ ~Idle /\ UNCHANGED recovery_required
      BY <3>1 DEF InitAnswered, InitLost, txnVars
    <3>3. call.op = "init" /\ txn_state = "Initializing" /\ ~Fatal
      BY <1>1, <3>2 DEF Phase, Call, Idle, Base
    <3>4. \/ call'.op = "init" /\ txn_state' = txn_state
          \/ call' = NoCall /\ txn_state' = call.prev
      BY <3>1, <3>3 DEF InitAnswered, InitLost, ReturnTo, Call, txnVars
    <3>5. call.prev \in Live /\ ~recovery_required
      BY <1>2, <3>2, <3>3, <3>4 DEF Alive, Live
    <3> QED BY <1>1, <3>3, <3>5 DEF Guards, Live
  <2>5. CASE EndTxnApply /\ call.decision = "Complete"
    <3>1. txn_state' = "Ready" /\ call' = NoCall
      BY <2>5 DEF EndTxnApply, ReturnTo
    <3> QED BY <1>2, <3>1 DEF Alive, Live
  <2> QED BY <2>1, <2>2, <2>3, <2>4, <2>5
<1>3. ASSUME call'.pc = "adopt" PROVE call'.found = coord'.epoch
  <2>1. CASE call' = call
    <3>1. ~InitAnswered /\ ~InitLost /\ ~Finishes
      BY <1>3, <2>1 DEF InitAnswered, InitLost, Finishes, EndTxnStep, EndTxnAnswered,
                        EndTxnLost, EndTxnRefused
    <3>2. UNCHANGED coordVars \/ LeaderWork
      BY <1>1, <3>1, CoordCases DEF Raises
    <3>3. coord'.epoch = coord.epoch
      BY <1>1, <3>2, LeaderStep, AppendsEffect DEF coordVars, Ground
    <3> QED BY <1>3, <2>1, <3>3 DEF Unended
  <2>2. CASE InitAnswered /\ call'.found = coord.epoch + 1
    BY <1>1, <2>2, InitsEffect DEF InitAnswered
  <2> QED BY <1>1, <1>3, <2>1, <2>2, AdoptingStep
<1> QED BY <1>2, <1>3 DEF Unended

\* With transaction version 2, when no batch has to be split and no other instance
\* uses the transactional id, a transaction that prepare_transaction reported as
\* prepared holds every record that it accepted, and holds them until its decision:
\* also after a commit or an abort that failed, and after an init_transactions that
\* kept it.  Orderly is as above; an application that prepares after an abort that
\* failed is one that changes its mind.
THEOREM PreparedMeansFlushedHolds ==
  ASSUME NoSplit, TransactionV2, Orderly, "other_init" \notin Faults
  PROVE  Spec => []PreparedMeansFlushed
<1> DEFINE Inv == Accounted /\ Unended
<1>1. Init => Inv
  <2> SUFFICES ASSUME Init PROVE Inv
    OBVIOUS
  <2>1. ~Alive /\ call.pc = "none"
    BY DEF Init, Alive, Live, NoCall
  <2> QED BY <2>1, AccountedInit DEF Unended
<1>2. Inv /\ [Next]_vars => Inv'
  <2> SUFFICES ASSUME Inv, [Next]_vars PROVE Inv'
    OBVIOUS
  <2>1. Step
    BY KnownTypes, NextCases, KindsStep DEF Step, Accounted, Guards
  <2> QED BY <2>1, AccountedStep, UnendedStep
<1>3. Inv => PreparedMeansFlushed
  <2> SUFFICES ASSUME Inv, txn_state = "Prepared", prepared \in issued, NEW r \in Of(begun)
               PROVE  r \in open
    BY DEF PreparedMeansFlushed
  <2>1. ~recovery_required /\ Whole /\ begun # 0 /\ plain = {}
    BY DEF Accounted, Guards, Tokens, Closed, Opened, Ground, Transactional
  <2>2. begun \in Transactions /\ ~Ended
    BY <2>1, KnownTypes, TransactionConstants DEF Transactions, Unended, Alive, Live
  <2>3. r \in Logged /\ txn_of[r] = begun
    BY <2>1, <2>2 DEF Whole, Of
  <2> QED BY <2>1, <2>2, <2>3 DEF Logged, Ended, TransactionsOf
<1> QED BY <1>1, <1>2, <1>3, PTL DEF Spec

=============================================================================
