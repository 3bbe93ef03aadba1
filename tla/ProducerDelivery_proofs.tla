----------------------- MODULE ProducerDelivery_proofs -----------------------
(***************************************************************************)
(* Proofs about the idempotent ProducerSender, for every set of partitions  *)
(* and every value of the other constants under which no leader refuses a   *)
(* batch for its size (NoSplit): at one identity a sequence names the same  *)
(* records, a new epoch starts at sequence 0, and the pipeline implements   *)
(* Delivery, so that every record is written at most once, in the order of  *)
(* the sends, and acked only when it is in the log.                         *)
(*                                                                          *)
(* The argument is about one partition.  What the sender and the leader     *)
(* know about it is a few values (Local), and every step of the pipeline is *)
(* for each partition one of a few moves on them: a batch is drained, a     *)
(* copy of a batch reaches the leader, an outstanding batch ends, the       *)
(* identity changes, a batch is rewritten to the new identity, the leader   *)
(* forgets.  The moves are proved for values, without the state machine.    *)
(***************************************************************************)
EXTENDS ProducerSender_proofs

Pids == 0..MaxProducerId

\* What identifies a batch at its partition.
Keys == [recs : Seq(Records) \ {<<>>}, pid : Pids, epoch : Nat, seq : Nat]

ProducerStates == [epoch : Nat \cup {-1}, expected : Nat, accepted : SUBSET Nat]

Recs(b) == Elems(b.recs)
End(b) == b.seq + Len(b.recs)
Shares(b, c) == Recs(b) \cap Recs(c) # {}

\* The order of identities.
Older(b, i, e) == b.pid < i \/ (b.pid = i /\ b.epoch < e)
At(b, i, e) == b.pid = i /\ b.epoch = e
AtMost(b, i, e) == Older(b, i, e) \/ At(b, i, e)

\* What the leader with the producer states L makes of b: it accepted b, it
\* lost the state of b's producer, or it refuses b for one of these reasons or
\* for a newer epoch.
Has(b, L) == L[b.pid].epoch = b.epoch /\ b.seq \in L[b.pid].accepted
Lost(b, L) == L[b.pid].epoch = -1 /\ b.seq # 0
Refused(b, L) == Has(b, L) \/ Lost(b, L) \/ L[b.pid].epoch > b.epoch

(***************************************************************************)
(* The parts of the invariant of one partition.  O is its outstanding       *)
(* batch, as a set; S are its batches that were sent and may still arrive,  *)
(* O among them; n is its next sequence, i and e are the identity of the    *)
(* producer, L the producer states of the leader, G the records of the log  *)
(* and Q the records of the accumulator.                                    *)
(***************************************************************************)
Typed(O, S, n, i, e, L) ==
  /\ S \subseteq Keys /\ O \subseteq S /\ \A b, c \in O : b = c
  /\ n \in Nat /\ i \in Pids /\ e \in 0..MaxEpoch
  /\ L \in [Pids -> ProducerStates]
  /\ \A j \in Pids : /\ L[j].epoch = -1 => L[j].accepted = {} /\ L[j].expected = 0
                     /\ \A s \in L[j].accepted : s < L[j].expected

\* Two batches of one identity take different sequences and records.
Apart(S) ==
  \A b, c \in S :
    At(b, c.pid, c.epoch) => b = c \/ ((End(b) <= c.seq \/ End(c) <= b.seq) /\ ~Shares(b, c))

\* Batches that share a record are copies of one batch.
Units(S) == \A b, c \in S : Shares(b, c) => b.recs = c.recs

\* Nothing was sent at an identity that is still to come, or beyond n.
Bounded(S, n, i, e) == \A b \in S : AtMost(b, i, e) /\ (At(b, i, e) => End(b) <= n)

\* The outstanding batch is the last one that was sent.
Latest(O, S) ==
  \A b \in O, c \in S : AtMost(c, b.pid, b.epoch) /\ (At(c, b.pid, b.epoch) => c.seq <= b.seq)

NextIs(O, n, i, e) == \A b \in O : n = IF At(b, i, e) THEN End(b) ELSE 0

\* A record of the accumulator was never sent.
Unsent(S, G, Q) == G \cap Q = {} /\ \A b \in S : Recs(b) \cap Q = {}

\* The leader knows no identity after (i, e).
Behind(L, i, e) == \A j \in Pids : (j > i => L[j].epoch = -1) /\ (j = i => L[j].epoch <= e)

\* At a leader that knows an earlier epoch the outstanding batch starts at 0.
Fresh(O, L) == \A b \in O : L[b.pid].epoch \in 0..(b.epoch - 1) => b.seq = 0

\* At a leader that knows its epoch the outstanding batch is next, or the last.
Expects(O, L, G) ==
  \A b \in O : L[b.pid].epoch = b.epoch =>
    \/ b.seq = L[b.pid].expected
    \/ b.seq \in L[b.pid].accepted /\ L[b.pid].expected = End(b) /\ Recs(b) \subseteq G

\* What a batch that takes the sequence n will find.
ReadyToSend(O, S, n, i, e, L) ==
  O = {} =>
    /\ L[i].epoch = e => L[i].expected = n
    /\ L[i].epoch \in 0..(e - 1) => n = 0
    /\ L[i].epoch = -1 /\ n # 0 => \A c \in S : c.pid = i => c.seq # 0

\* No late batch makes a leader that lost its state accept b.
NoRevival(S, L) ==
  \A b, c \in S : c.pid = b.pid /\ Lost(b, L) /\ c.epoch <= b.epoch => c.seq # 0

\* Copies of a batch are refused once one of them is in the log, and all but
\* the last one once a batch is rewritten.
LoggedRefused(S, L, G) == \A b \in S : Recs(b) \cap G # {} => Refused(b, L)
OldRefused(S, L) ==
  \A b, c \in S : b.recs = c.recs /\ Older(b, c.pid, c.epoch) => Refused(b, L)
LostUnlogged(O, L, G) == \A b \in O : Lost(b, L) => Recs(b) \cap G = {}

Local(live, O, S, n, i, e, L, G, Q) ==
  /\ Typed(O, S, n, i, e, L)
  /\ Apart(S) /\ Units(S) /\ Bounded(S, n, i, e)
  /\ Latest(O, S) /\ NextIs(O, n, i, e) /\ Unsent(S, G, Q)
  /\ Behind(L, i, e) /\ \A b \in O : Behind(L, b.pid, b.epoch)
  /\ Fresh(O, L) /\ Expects(O, L, G)
  /\ live => ReadyToSend(O, S, n, i, e, L)
  /\ NoRevival(S, L)
  /\ LoggedRefused(S, L, G) /\ OldRefused(S, L) /\ LostUnlogged(O, L, G)

-----------------------------------------------------------------------------
(* The moves of a partition.                                               *)

LEMMA KeyFacts ==
  ASSUME NEW b \in Keys
  PROVE  /\ b.pid \in Pids /\ b.pid \in Int /\ b.epoch \in Nat /\ b.seq \in Nat
         /\ Len(b.recs) \in Nat \ {0} /\ End(b) \in Nat /\ b.seq < End(b)
         /\ Recs(b) # {} /\ Shares(b, b)
         /\ b = [recs |-> b.recs, pid |-> b.pid, epoch |-> b.epoch, seq |-> b.seq]
<1>1. /\ b.recs \in Seq(Records) /\ b.recs # <<>> /\ b.pid \in Pids
      /\ b.epoch \in Nat /\ b.seq \in Nat
      /\ b = [recs |-> b.recs, pid |-> b.pid, epoch |-> b.epoch, seq |-> b.seq]
  BY DEF Keys
<1>2. b.pid \in Int
  BY <1>1, ConstantsAssumption DEF Pids
<1>3. Len(b.recs) \in Nat \ {0}
  BY <1>1, LenProperties, EmptySeq
<1>4. b.recs[1] \in Recs(b)
  <2>1. 1 \in 1..Len(b.recs)
    BY <1>3
  <2> QED
    BY <1>1, <2>1, ElemsInterval DEF Recs
<1> QED
  BY <1>1, <1>2, <1>3, <1>4 DEF End, Shares

LEMMA StateFacts ==
  ASSUME NEW L \in [Pids -> ProducerStates], NEW j \in Pids
  PROVE  /\ L[j].epoch \in Int /\ L[j].epoch >= -1 /\ L[j].expected \in Nat
         /\ L[j].accepted \subseteq Nat /\ j \in Int
<1>1. L[j] \in ProducerStates
  OBVIOUS
<1>2. j \in Int
  BY ConstantsAssumption DEF Pids
<1> QED
  BY <1>1, <1>2 DEF ProducerStates

\* Fewer copies, and a producer that may have stopped.
LEMMA MoveShrink ==
  ASSUME NEW live, NEW O, NEW S, NEW n, NEW i, NEW e, NEW L, NEW G, NEW Q,
         Local(live, O, S, n, i, e, L, G, Q),
         NEW live2, NEW S2, S2 \subseteq S, O \subseteq S2, live2 => live
  PROVE  Local(live2, O, S2, n, i, e, L, G, Q)
<1>1. Typed(O, S2, n, i, e, L)
  BY DEF Local, Typed
<1>2. Apart(S2) /\ Units(S2) /\ Bounded(S2, n, i, e)
  BY DEF Local, Apart, Units, Bounded
<1>3. Latest(O, S2) /\ Unsent(S2, G, Q)
  BY DEF Local, Latest, Unsent
<1>4. live2 => ReadyToSend(O, S2, n, i, e, L)
  BY DEF Local, ReadyToSend
<1>5. NoRevival(S2, L) /\ LoggedRefused(S2, L, G) /\ OldRefused(S2, L)
  BY DEF Local, NoRevival, LoggedRefused, OldRefused
<1> QED
  BY <1>1, <1>2, <1>3, <1>4, <1>5 DEF Local

\* Other records in the accumulator.
LEMMA MoveQueue ==
  ASSUME NEW live, NEW O, NEW S, NEW n, NEW i, NEW e, NEW L, NEW G, NEW Q,
         Local(live, O, S, n, i, e, L, G, Q), NEW Q2, Unsent(S, G, Q2)
  PROVE  Local(live, O, S, n, i, e, L, G, Q2)
BY DEF Local

\* A new identity starts the sequences again.
LEMMA MoveBump ==
  ASSUME NEW live, NEW O, NEW S, NEW n, NEW i, NEW e, NEW L, NEW G, NEW Q,
         Local(live, O, S, n, i, e, L, G, Q),
         NEW live2, NEW i2 \in Pids, NEW e2 \in 0..MaxEpoch, i2 > i \/ (i2 = i /\ e2 > e)
  PROVE  /\ Local(live2, O, S, 0, i2, e2, L, G, Q)
         /\ \A b \in S : Older(b, i2, e2)
<1>1. /\ i \in Pids /\ i \in Int /\ e \in Nat /\ i2 \in Int /\ e2 \in Nat
      /\ L \in [Pids -> ProducerStates] /\ O \subseteq S /\ S \subseteq Keys
  BY ConstantsAssumption DEF Local, Typed, Pids
<1>2. \A b \in S : Older(b, i2, e2)
  <2> TAKE b \in S
  <2>1. b.pid \in Int /\ b.epoch \in Nat /\ AtMost(b, i, e)
    BY <1>1, KeyFacts DEF Local, Bounded
  <2> QED
    BY <1>1, <2>1 DEF AtMost, Older, At
<1>3. \A b \in S : ~At(b, i2, e2) /\ AtMost(b, i2, e2)
  <2> TAKE b \in S
  <2>1. b.pid \in Int /\ b.epoch \in Nat /\ Older(b, i2, e2)
    BY <1>1, <1>2, KeyFacts
  <2> QED
    BY <1>1, <2>1 DEF AtMost, Older, At
<1>4. Bounded(S, 0, i2, e2) /\ NextIs(O, 0, i2, e2)
  BY <1>1, <1>3 DEF Bounded, NextIs
<1>5. Behind(L, i2, e2) /\ L[i2].epoch # e2
  <2>1. \A j \in Pids : L[j].epoch \in Int /\ j \in Int
    BY <1>1, StateFacts
  <2>2. \A j \in Pids : (j > i => L[j].epoch = -1) /\ (j = i => L[j].epoch <= e)
    BY DEF Local, Behind
  <2>3. ASSUME NEW j \in Pids
        PROVE  (j > i2 => L[j].epoch = -1) /\ (j = i2 => L[j].epoch < e2)
    BY <1>1, <2>1, <2>2
  <2> QED
    BY <1>1, <2>1, <2>3 DEF Behind
<1>6. ReadyToSend(O, S, 0, i2, e2, L)
  BY <1>5 DEF ReadyToSend
<1>7. Typed(O, S, 0, i2, e2, L)
  BY DEF Local, Typed
<1> QED
  BY <1>2, <1>4, <1>5, <1>6, <1>7 DEF Local

\* The outstanding batch ends: it was acked, or the identity moved on, or
\* nothing is sent at this identity any more.
LEMMA MoveEnd ==
  ASSUME NEW live, NEW O, NEW S, NEW n, NEW i, NEW e, NEW L, NEW G, NEW Q,
         Local(live, O, S, n, i, e, L, G, Q), NEW b \in O,
         NEW live2, live2 => Has(b, L) \/ Older(b, i, e),
         NEW S2, S2 \subseteq S
  PROVE  Local(live2, {}, S2, n, i, e, L, G, Q)
<1>1. /\ i \in Pids /\ i \in Int /\ e \in Nat /\ n \in Nat /\ b \in S
      /\ L \in [Pids -> ProducerStates] /\ O \subseteq S /\ S \subseteq Keys
  BY ConstantsAssumption DEF Local, Typed, Pids
<1>2. /\ b.pid \in Pids /\ b.pid \in Int /\ b.epoch \in Nat /\ b.seq \in Nat /\ b \in Keys
  BY <1>1, KeyFacts
<1>3. /\ L[i].epoch \in Int /\ L[i].expected \in Nat /\ L[b.pid].epoch \in Int
      /\ L[b.pid].expected \in Nat /\ L[b.pid].accepted \subseteq Nat
  BY <1>1, <1>2, StateFacts
<1>4. AtMost(b, i, e) /\ Behind(L, b.pid, b.epoch)
  BY <1>1 DEF Local, Bounded
<1>5. ASSUME Older(b, i, e)
      PROVE  ReadyToSend({}, S2, n, i, e, L)
  <2>1. L[i].epoch # e
    <3>1. CASE b.pid < i
      BY <1>1, <1>2, <1>4, <3>1 DEF Behind
    <3>2. CASE b.pid = i /\ b.epoch < e
      BY <1>1, <1>2, <1>3, <1>4, <3>2 DEF Behind
    <3> QED
      BY <1>5, <3>1, <3>2 DEF Older
  <2>2. n = 0
    <3>1. ~At(b, i, e)
      BY <1>1, <1>2, <1>5 DEF Older, At
    <3> QED
      BY <3>1 DEF Local, NextIs
  <2> QED
    BY <2>1, <2>2 DEF ReadyToSend
<1>6. ASSUME Has(b, L), At(b, i, e)
      PROVE  ReadyToSend({}, S2, n, i, e, L)
  <2>1. L[i].epoch = e /\ b.seq \in L[i].accepted /\ n = End(b)
    BY <1>6 DEF Has, At, Local, NextIs
  <2>2. b.seq < L[i].expected
    BY <1>1, <2>1 DEF Local, Typed
  <2>3. L[i].expected = End(b)
    BY <1>2, <1>3, <1>6, <2>1, <2>2 DEF Local, Expects, At
  <2> QED
    BY <1>1, <2>1, <2>3 DEF ReadyToSend
<1>7. live2 => ReadyToSend({}, S2, n, i, e, L)
  BY <1>4, <1>5, <1>6 DEF AtMost
<1>8. Typed({}, S2, n, i, e, L)
  BY DEF Local, Typed
<1>9. Apart(S2) /\ Units(S2) /\ Bounded(S2, n, i, e) /\ Unsent(S2, G, Q)
  BY DEF Local, Apart, Units, Bounded, Unsent
<1>10. NoRevival(S2, L) /\ LoggedRefused(S2, L, G) /\ OldRefused(S2, L)
  BY DEF Local, NoRevival, LoggedRefused, OldRefused
<1> QED
  BY <1>7, <1>8, <1>9, <1>10 DEF Local, Latest, NextIs, Fresh, Expects, LostUnlogged

\* The accumulator is drained: a batch takes the next sequences.
LEMMA MoveDrain ==
  ASSUME NEW S, NEW n, NEW i, NEW e, NEW L, NEW G, NEW Q,
         Local(TRUE, {}, S, n, i, e, L, G, Q),
         NEW b \in Keys, At(b, i, e), b.seq = n, Recs(b) \subseteq Q,
         NEW Q2, Q2 \subseteq Q, Recs(b) \cap Q2 = {}, NEW live2
  PROVE  Local(live2, {b}, S \cup {b}, End(b), i, e, L, G, Q2)
<1>1. /\ i \in Pids /\ i \in Int /\ e \in Nat /\ n \in Nat /\ b.pid = i /\ b.epoch = e
      /\ L \in [Pids -> ProducerStates] /\ S \subseteq Keys
  BY ConstantsAssumption DEF Local, Typed, Pids, At
<1>2. /\ End(b) \in Nat /\ n < End(b) /\ Recs(b) # {} /\ Shares(b, b) /\ b.seq = n
  BY KeyFacts
<1>3. \A c \in S : /\ c.pid \in Pids /\ c.pid \in Int /\ c.epoch \in Nat /\ c.seq \in Nat
                   /\ End(c) \in Nat /\ c.seq < End(c) /\ Shares(c, c)
  BY <1>1, KeyFacts
<1>4. \A c \in S : AtMost(c, i, e) /\ (At(c, i, e) => End(c) <= n)
  BY DEF Local, Bounded
<1>5. \A c \in S : ~Shares(b, c) /\ ~Shares(c, b) /\ b.recs # c.recs
  BY <1>3 DEF Local, Unsent, Shares, Recs
<1>6. \A c \in S : At(b, c.pid, c.epoch) \/ At(c, b.pid, b.epoch) => At(c, i, e)
  BY <1>1 DEF At
<1>7. L[i].epoch \in Int /\ L[i].expected \in Nat /\ ReadyToSend({}, S, n, i, e, L)
  BY <1>1, StateFacts DEF Local
<1>8. Typed({b}, S \cup {b}, End(b), i, e, L)
  BY <1>1, <1>2 DEF Local, Typed
<1>9. Apart(S \cup {b})
  BY <1>2, <1>3, <1>4, <1>5, <1>6 DEF Local, Apart
<1>10. Units(S \cup {b})
  BY <1>5 DEF Local, Units
<1>11. Bounded(S \cup {b}, End(b), i, e)
  BY <1>1, <1>2, <1>3, <1>4 DEF Bounded, AtMost, At
<1>12. Latest({b}, S \cup {b})
  BY <1>1, <1>2, <1>3, <1>4 DEF Latest, AtMost, At
<1>13. NextIs({b}, End(b), i, e)
  BY <1>1 DEF NextIs, At
<1>14. Unsent(S \cup {b}, G, Q2)
  BY DEF Local, Unsent
<1>15. Behind(L, b.pid, b.epoch)
  BY <1>1 DEF Local
<1>16. Fresh({b}, L) /\ Expects({b}, L, G)
  BY <1>1, <1>2, <1>7 DEF Fresh, Expects, ReadyToSend
<1>17. ReadyToSend({b}, S \cup {b}, End(b), i, e, L)
  BY DEF ReadyToSend
<1>18. NoRevival(S \cup {b}, L)
  <2> SUFFICES ASSUME NEW x \in S \cup {b}, NEW y \in S \cup {b},
                      y.pid = x.pid, Lost(x, L), y.epoch <= x.epoch
               PROVE  y.seq # 0
    BY DEF NoRevival
  <2>1. CASE x \in S /\ y \in S
    BY <2>1 DEF Local, NoRevival
  <2>2. CASE x = b /\ y = b
    BY <2>2 DEF Lost
  <2>3. CASE x = b /\ y \in S
    BY <1>1, <1>2, <1>7, <2>3 DEF Lost, ReadyToSend
  <2>4. CASE x \in S /\ y = b
    <3>1. x.pid = i /\ e <= x.epoch /\ x.seq # 0
      BY <1>1, <2>4 DEF Lost
    <3>2. At(x, i, e)
      BY <1>1, <1>3, <1>4, <2>4, <3>1 DEF AtMost, Older, At
    <3> QED
      BY <1>1, <1>2, <1>3, <1>4, <2>4, <3>1, <3>2
  <2> QED
    BY <2>1, <2>2, <2>3, <2>4
<1>19. LoggedRefused(S \cup {b}, L, G)
  BY DEF Local, LoggedRefused, Unsent
<1>20. OldRefused(S \cup {b}, L)
  <2>1. ~Older(b, b.pid, b.epoch)
    BY <1>1 DEF Older
  <2> QED
    BY <1>5, <2>1 DEF Local, OldRefused
<1>21. LostUnlogged({b}, L, G)
  BY DEF Local, LostUnlogged, Unsent
<1> QED
  BY <1>8, <1>9, <1>10, <1>11, <1>12, <1>13, <1>14, <1>15, <1>16, <1>17, <1>18, <1>19,
     <1>20, <1>21 DEF Local

\* The outstanding batch is rewritten to a new identity, at a leader that lost
\* the state of the producer.
LEMMA MoveRewrite ==
  ASSUME NEW live, NEW O, NEW S, NEW n, NEW i, NEW e, NEW L, NEW G, NEW Q,
         Local(live, O, S, n, i, e, L, G, Q), NEW b \in O, Lost(b, L),
         NEW i2 \in Pids, NEW e2 \in 0..MaxEpoch, i2 > i \/ (i2 = i /\ e2 > e),
         NEW c \in Keys, c.recs = b.recs, At(c, i2, e2), c.seq = 0
  PROVE  Local(TRUE, {c}, S \cup {c}, Len(b.recs), i2, e2, L, G, Q)
<1> DEFINE S2 == S \cup {c}
<1>1. /\ i2 \in Int /\ e2 \in Nat /\ c.pid = i2 /\ c.epoch = e2 /\ b \in S /\ b \in Keys
      /\ L \in [Pids -> ProducerStates] /\ S \subseteq Keys
  BY ConstantsAssumption DEF Local, Typed, Pids, At
<1>2. Local(TRUE, O, S, 0, i2, e2, L, G, Q) /\ \A x \in S : Older(x, i2, e2)
  BY MoveBump
<1>3. End(c) = Len(b.recs) /\ Len(b.recs) \in Nat \ {0} /\ Recs(c) = Recs(b) /\ Shares(c, c)
  BY <1>1, KeyFacts DEF End, Recs
<1>4. \A x \in S : /\ x.pid \in Pids /\ x.pid \in Int /\ x.epoch \in Nat /\ x.seq \in Nat
                   /\ Shares(x, x)
  BY <1>1, KeyFacts
<1>5. \A x \in S : ~At(x, i2, e2) /\ ~At(c, x.pid, x.epoch) /\ ~Older(c, x.pid, x.epoch)
  BY <1>1, <1>2, <1>4 DEF Older, At
<1>6. Typed({c}, S2, Len(b.recs), i2, e2, L)
  BY <1>1, <1>2, <1>3 DEF Local, Typed
<1>7. Apart(S2)
  BY <1>1, <1>5 DEF Local, Apart
<1>8. Units(S2)
  <2>1. \A x \in S : (Shares(x, c) => x.recs = c.recs) /\ (Shares(c, x) => x.recs = c.recs)
    BY <1>1, <1>3 DEF Local, Units, Shares
  <2> QED
    BY <2>1 DEF Local, Units
<1>9. Bounded(S2, Len(b.recs), i2, e2) /\ Latest({c}, S2)
  BY <1>1, <1>2, <1>3, <1>5 DEF Bounded, Latest, AtMost, At
<1>10. NextIs({c}, Len(b.recs), i2, e2)
  BY <1>1, <1>3 DEF NextIs, At
<1>11. Unsent(S2, G, Q)
  BY <1>1, <1>3 DEF Local, Unsent
<1>12. Behind(L, i2, e2) /\ Behind(L, c.pid, c.epoch)
  BY <1>1, <1>2 DEF Local
<1>13. Fresh({c}, L)
  BY DEF Fresh
<1>14. Expects({c}, L, G)
  <2>1. L[i2].epoch \in Int /\ L[i].epoch \in Int /\ i \in Pids /\ i \in Int /\ e \in Nat
    BY <1>1, StateFacts, ConstantsAssumption DEF Local, Typed, Pids
  <2>2. L[i2].epoch # e2
    BY <1>1, <2>1 DEF Local, Behind
  <2> QED
    BY <1>1, <2>2 DEF Expects
<1>15. ReadyToSend({c}, S2, Len(b.recs), i2, e2, L)
  BY DEF ReadyToSend
<1>16. NoRevival(S2, L)
  <2>1. ~Lost(c, L)
    BY DEF Lost
  <2>2. \A x \in S : ~(c.pid = x.pid /\ c.epoch <= x.epoch)
    BY <1>1, <1>2, <1>4 DEF Older
  <2> QED
    BY <2>1, <2>2 DEF Local, NoRevival
<1>17. Recs(b) \cap G = {}
  BY DEF Local, LostUnlogged
<1>18. LoggedRefused(S2, L, G) /\ LostUnlogged({c}, L, G)
  BY <1>3, <1>17 DEF Local, LoggedRefused, LostUnlogged
<1>19. OldRefused(S2, L)
  <2>1. ASSUME NEW x \in S, x.recs = c.recs
        PROVE  Refused(x, L)
    <3>1. AtMost(x, b.pid, b.epoch)
      BY DEF Local, Latest
    <3>2. CASE Older(x, b.pid, b.epoch)
      BY <1>1, <2>1, <3>2 DEF Local, OldRefused
    <3>3. CASE At(x, b.pid, b.epoch)
      <4>1. Shares(x, b)
        BY <1>4, <2>1 DEF Shares, Recs
      <4>2. x = b
        BY <1>1, <3>3, <4>1 DEF Local, Apart
      <4> QED
        BY <4>2 DEF Refused
    <3> QED
      BY <3>1, <3>2, <3>3 DEF AtMost
  <2>2. ~Older(c, c.pid, c.epoch)
    BY <1>1 DEF Older
  <2> QED
    BY <1>5, <2>1, <2>2 DEF Local, OldRefused
<1> QED
  BY <1>6, <1>7, <1>8, <1>9, <1>10, <1>11, <1>12, <1>13, <1>14, <1>15, <1>16, <1>18, <1>19
     DEF Local

\* The leader forgets the producer when no copy is left.
LEMMA MoveForget ==
  ASSUME NEW live, NEW n, NEW i, NEW e, NEW L, NEW G, NEW Q,
         Local(live, {}, {}, n, i, e, L, G, Q)
  PROVE  Local(live, {}, {}, n, i, e, [j \in Pids |-> NoProducerState], G, Q)
<1> DEFINE L2 == [j \in Pids |-> NoProducerState]
<1>1. \A j \in Pids : L2[j].epoch = -1 /\ L2[j].accepted = {} /\ L2[j].expected = 0
  BY DEF NoProducerState
<1>2. NoProducerState \in ProducerStates
  BY DEF NoProducerState, ProducerStates
<1>3. i \in Pids /\ e \in Nat
  BY ConstantsAssumption DEF Local, Typed
<1>4. Typed({}, {}, n, i, e, L2)
  BY <1>1, <1>2 DEF Local, Typed
<1>5. Behind(L2, i, e)
  BY <1>1, <1>3 DEF Behind
<1>6. ReadyToSend({}, {}, n, i, e, L2)
  BY <1>1, <1>3 DEF ReadyToSend
<1> HIDE DEF L2
<1>7. Local(live, {}, {}, n, i, e, L2, G, Q)
  BY <1>4, <1>5, <1>6 DEF Local, Fresh, Expects, NoRevival, LoggedRefused, OldRefused, LostUnlogged
<1> QED
  BY <1>7 DEF L2

\* The leader takes c: it is the first batch of a newer epoch, or the next one.
Takes(c, L) ==
  \/ c.epoch > L[c.pid].epoch /\ c.seq = 0
  \/ c.epoch = L[c.pid].epoch /\ c.seq = L[c.pid].expected

Appended(c, L) == [L EXCEPT ![c.pid] = StateAfterAppend(@, c)]

\* The producer states after c was appended.
LEMMA AppendedStates ==
  ASSUME NEW L \in [Pids -> ProducerStates], NEW c \in Keys, Takes(c, L)
  PROVE  /\ Appended(c, L) \in [Pids -> ProducerStates]
         /\ \A j \in Pids : j # c.pid => Appended(c, L)[j] = L[j]
         /\ Appended(c, L)[c.pid].epoch = c.epoch
         /\ c.epoch > L[c.pid].epoch /\ c.seq = 0 =>
              /\ Appended(c, L)[c.pid].expected = Len(c.recs)
              /\ Appended(c, L)[c.pid].accepted = {c.seq}
         /\ c.epoch = L[c.pid].epoch /\ c.seq = L[c.pid].expected =>
              /\ Appended(c, L)[c.pid].expected = End(c)
              /\ Appended(c, L)[c.pid].accepted = L[c.pid].accepted \cup {c.seq}
<1> DEFINE s == L[c.pid]
           s2 == StateAfterAppend(s, c)
<1>1. /\ c.pid \in Pids /\ c.epoch \in Nat /\ c.seq \in Nat /\ Len(c.recs) \in Nat
      /\ s \in ProducerStates /\ s.epoch \in Int /\ s.expected \in Nat /\ s.accepted \subseteq Nat
  BY KeyFacts, StateFacts
<1>2. CASE c.epoch > s.epoch /\ c.seq = 0
  <2>1. s2 = [epoch |-> c.epoch, expected |-> Len(c.recs), accepted |-> {c.seq}]
    BY <1>2 DEF StateAfterAppend
  <2>2. s2 \in ProducerStates
    BY <1>1, <2>1 DEF ProducerStates
  <2> QED
    BY <1>1, <1>2, <2>1, <2>2 DEF Appended
<1>3. CASE c.epoch = s.epoch /\ c.seq = s.expected
  <2>1. s2 = [s EXCEPT !.expected = @ + Len(c.recs), !.accepted = @ \cup {c.seq}]
    BY <1>1, <1>3 DEF StateAfterAppend
  <2>2. s2 = [epoch |-> s.epoch, expected |-> s.expected + Len(c.recs),
              accepted |-> s.accepted \cup {c.seq}]
    BY <1>1, <2>1 DEF ProducerStates
  <2>3. s2 \in ProducerStates
    BY <1>1, <2>2 DEF ProducerStates
  <2> QED
    BY <1>1, <1>3, <2>2, <2>3 DEF Appended, End
<1> QED
  BY <1>2, <1>3 DEF Takes

\* A copy that the leader refuses stays refused when another one is appended.
LEMMA RefusedStays ==
  ASSUME NEW L \in [Pids -> ProducerStates], NEW S, S \subseteq Keys, NoRevival(S, L),
         NEW c \in S, Takes(c, L), NEW b \in S, Refused(b, L)
  PROVE  Refused(b, Appended(c, L))
<1> DEFINE L2 == Appended(c, L)
<1>1. /\ b.pid \in Pids /\ b.epoch \in Nat /\ b.seq \in Nat /\ L[b.pid].epoch \in Int
      /\ c.pid \in Pids /\ c.epoch \in Nat /\ c.seq \in Nat /\ c \in Keys
  BY KeyFacts, StateFacts
<1>2. /\ \A j \in Pids : j # c.pid => L2[j] = L[j]
      /\ L2[c.pid].epoch = c.epoch
      /\ c.epoch = L[c.pid].epoch /\ c.seq = L[c.pid].expected =>
           L2[c.pid].accepted = L[c.pid].accepted \cup {c.seq}
  BY <1>1, AppendedStates
<1> HIDE DEF L2
<1>3. CASE b.pid # c.pid
  BY <1>1, <1>2, <1>3 DEF L2, Refused, Has, Lost
<1>4. CASE b.pid = c.pid /\ Lost(b, L)
  <2>1. c.seq = 0
    BY <1>1, <1>4 DEF Takes, Lost
  <2>2. c.epoch > b.epoch
    BY <1>1, <1>4, <2>1 DEF NoRevival
  <2> QED
    BY <1>2, <1>4, <2>2 DEF L2, Refused
<1>5. CASE b.pid = c.pid /\ L[b.pid].epoch > b.epoch
  BY <1>1, <1>2, <1>5 DEF L2, Refused, Takes
<1>6. CASE b.pid = c.pid /\ Has(b, L)
  BY <1>1, <1>2, <1>6 DEF L2, Refused, Takes, Has
<1> QED
  BY <1>3, <1>4, <1>5, <1>6 DEF Refused

\* What the sender knows of its outstanding batch stays true as well.
LEMMA KnownStays ==
  ASSUME NEW live, NEW O, NEW S, NEW n, NEW i, NEW e, NEW L, NEW G, NEW Q,
         Local(live, O, S, n, i, e, L, G, Q), NEW c \in S, Takes(c, L), NEW b \in O
  PROVE  /\ Has(b, L) => Has(b, Appended(c, L))
         /\ Lost(b, L) => Lost(b, Appended(c, L))
         /\ Has(c, Appended(c, L))
<1> DEFINE L2 == Appended(c, L)
<1>1. /\ L \in [Pids -> ProducerStates] /\ S \subseteq Keys /\ b \in S /\ c \in Keys /\ b \in Keys
  BY DEF Local, Typed
<1>2. /\ b.pid \in Pids /\ b.epoch \in Nat /\ b.seq \in Nat /\ L[b.pid].epoch \in Int
      /\ c.pid \in Pids /\ c.epoch \in Nat /\ c.seq \in Nat /\ b.pid \in Int /\ c.pid \in Int
  BY <1>1, KeyFacts, StateFacts
<1>3. /\ \A j \in Pids : j # c.pid => L2[j] = L[j]
      /\ L2[c.pid].epoch = c.epoch
      /\ c.epoch > L[c.pid].epoch /\ c.seq = 0 => L2[c.pid].accepted = {c.seq}
      /\ c.epoch = L[c.pid].epoch /\ c.seq = L[c.pid].expected =>
           L2[c.pid].accepted = L[c.pid].accepted \cup {c.seq}
  BY <1>1, AppendedStates
<1> HIDE DEF L2
<1>4. c.pid = b.pid => c.epoch <= b.epoch
  <2>1. AtMost(c, b.pid, b.epoch)
    BY DEF Local, Latest
  <2> QED
    BY <1>2, <2>1 DEF AtMost, Older, At
<1>5. Has(b, L) => Has(b, L2)
  BY <1>2, <1>3, <1>4 DEF Has, Takes
<1>6. Lost(b, L) => Lost(b, L2)
  <2> SUFFICES ASSUME Lost(b, L) PROVE Lost(b, L2)
    OBVIOUS
  <2>1. c.pid = b.pid => c.seq = 0
    BY <1>2 DEF Takes, Lost
  <2>2. c.pid # b.pid
    BY <1>1, <1>4, <2>1 DEF Local, NoRevival
  <2> QED
    BY <1>2, <1>3, <2>2 DEF Lost
<1>7. Has(c, L2)
  BY <1>3 DEF Has, Takes
<1> QED
  BY <1>5, <1>6, <1>7 DEF L2

\* A copy of a batch reaches the leader, and the leader appends it.
LEMMA MoveAppend ==
  ASSUME NEW live, NEW O, NEW S, NEW n, NEW i, NEW e, NEW L, NEW G, NEW Q,
         Local(live, O, S, n, i, e, L, G, Q), NEW c \in S, Takes(c, L)
  PROVE  /\ Local(live, O, S, n, i, e, Appended(c, L), G \cup Recs(c), Q)
         /\ Recs(c) \cap G = {}
         /\ ~Refused(c, L)
<1> DEFINE L2 == Appended(c, L)
           G2 == G \cup Recs(c)
<1>1. /\ L \in [Pids -> ProducerStates] /\ S \subseteq Keys /\ c \in Keys /\ O \subseteq S
      /\ i \in Pids /\ i \in Int /\ e \in Nat /\ n \in Nat
  BY ConstantsAssumption DEF Local, Typed, Pids
<1>2. \A b \in S : /\ b.pid \in Pids /\ b.pid \in Int /\ b.epoch \in Nat /\ b.seq \in Nat
                   /\ End(b) \in Nat /\ b.seq < End(b)
                   /\ L[b.pid].epoch \in Int /\ L[b.pid].epoch >= -1 /\ L[b.pid].expected \in Nat
  BY <1>1, KeyFacts, StateFacts
<1>3. /\ L2 \in [Pids -> ProducerStates]
      /\ \A j \in Pids : j # c.pid => L2[j] = L[j]
      /\ L2[c.pid].epoch = c.epoch
      /\ c.epoch > L[c.pid].epoch /\ c.seq = 0 =>
           L2[c.pid].expected = Len(c.recs) /\ L2[c.pid].accepted = {c.seq}
      /\ c.epoch = L[c.pid].epoch /\ c.seq = L[c.pid].expected =>
           L2[c.pid].expected = End(c) /\ L2[c.pid].accepted = L[c.pid].accepted \cup {c.seq}
  BY <1>1, AppendedStates
<1>4. L2[c.pid].expected = End(c) /\ c.seq \in L2[c.pid].accepted
  BY <1>2, <1>3, KeyFacts DEF Takes, End
<1> HIDE DEF L2
<1>5. ~Refused(c, L)
  <2>1. \A s \in L[c.pid].accepted : s < L[c.pid].expected
    BY <1>2 DEF Local, Typed
  <2>2. ~Has(c, L)
    BY <1>2, <2>1 DEF Has, Takes
  <2>3. ~Lost(c, L) /\ ~(L[c.pid].epoch > c.epoch)
    BY <1>2 DEF Lost, Takes
  <2> QED
    BY <2>2, <2>3 DEF Refused
<1>6. Recs(c) \cap G = {}
  BY <1>5 DEF Local, LoggedRefused
<1>7. \A b \in S : Refused(b, L) => Refused(b, L2)
  BY <1>1, RefusedStays DEF Local, L2
<1>8. Typed(O, S, n, i, e, L2)
  <2>1. ASSUME NEW j \in Pids
        PROVE  /\ L2[j].epoch = -1 => L2[j].accepted = {} /\ L2[j].expected = 0
               /\ \A s \in L2[j].accepted : s < L2[j].expected
    <3>1. CASE j # c.pid
      BY <1>3, <3>1 DEF Local, Typed
    <3>2. CASE j = c.pid
      <4>1. L2[j].epoch # -1
        BY <1>2, <1>3, <3>2
      <4>2. \A s \in L2[j].accepted : s = c.seq \/ (s < c.seq /\ s \in Nat)
        BY <1>1, <1>2, <1>3, <3>2, StateFacts DEF Takes, Local, Typed
      <4> QED
        BY <1>2, <1>4, <3>2, <4>1, <4>2
    <3> QED
      BY <3>1, <3>2
  <2> QED
    BY <1>3, <2>1 DEF Local, Typed
<1>9. \A b \in O : c.pid < b.pid \/ (c.pid = b.pid /\ c.epoch < b.epoch)
                   \/ (At(c, b.pid, b.epoch) /\ c.seq <= b.seq)
  BY DEF Local, Latest, AtMost, Older
<1>10. Behind(L2, i, e) /\ \A b \in O : Behind(L2, b.pid, b.epoch)
  <2>1. ASSUME NEW j \in Pids, NEW k \in Int, NEW d \in Nat, AtMost(c, j, d), Behind(L, j, d)
        PROVE  Behind(L2, j, d)
    <3>1. j \in Int /\ \A x \in Pids : x \in Int
      BY ConstantsAssumption DEF Pids
    <3>2. c.pid < j \/ (c.pid = j /\ c.epoch <= d)
      BY <1>2, <2>1 DEF AtMost, Older, At
    <3> QED
      BY <1>2, <1>3, <2>1, <3>1, <3>2 DEF Behind
  <2>2. Behind(L2, i, e)
    BY <1>1, <2>1 DEF Local, Bounded
  <2>3. \A b \in O : Behind(L2, b.pid, b.epoch)
    BY <1>1, <1>2, <2>1 DEF Local, Latest
  <2> QED
    BY <2>2, <2>3
<1>11. \A b \in O : b.seq # 0 /\ c.pid = b.pid /\ c.seq = 0 => L[b.pid].epoch >= b.epoch
  <2> SUFFICES ASSUME NEW b \in O, b.seq # 0, c.pid = b.pid, c.seq = 0
               PROVE  L[b.pid].epoch >= b.epoch
    OBVIOUS
  <2>1. b \in S /\ c.epoch <= b.epoch
    BY <1>1, <1>2, <1>9 DEF At
  <2>2. L[b.pid].epoch # -1
    BY <2>1 DEF Local, NoRevival, Lost
  <2>3. L[b.pid].epoch \notin 0..(b.epoch - 1)
    BY DEF Local, Fresh
  <2> QED
    BY <1>2, <2>1, <2>2, <2>3
<1>12. Fresh(O, L2)
  <2> SUFFICES ASSUME NEW b \in O, L2[b.pid].epoch \in 0..(b.epoch - 1)
               PROVE  b.seq = 0
    BY DEF Fresh
  <2>1. CASE b.pid # c.pid
    BY <1>1, <1>2, <1>3, <2>1 DEF Local, Fresh
  <2>2. CASE b.pid = c.pid /\ c.epoch = L[c.pid].epoch
    BY <1>3, <2>2 DEF Local, Fresh
  <2>3. CASE b.pid = c.pid /\ c.epoch > L[c.pid].epoch /\ c.seq = 0
    <3>1. b \in S /\ L2[b.pid].epoch = c.epoch
      BY <1>1, <1>3, <2>3
    <3>2. /\ b.epoch \in Nat /\ c.epoch \in Nat /\ L[b.pid].epoch \in Int /\ c.epoch < b.epoch
      BY <1>2, <3>1
    <3> QED
      BY <1>11, <2>3, <3>2
  <2> QED
    BY <2>1, <2>2, <2>3 DEF Takes
<1>13. Expects(O, L2, G2)
  <2> SUFFICES ASSUME NEW b \in O, L2[b.pid].epoch = b.epoch
               PROVE  \/ b.seq = L2[b.pid].expected
                      \/ /\ b.seq \in L2[b.pid].accepted
                         /\ L2[b.pid].expected = End(b)
                         /\ Recs(b) \subseteq G2
    BY DEF Expects
  <2>1. CASE b.pid # c.pid
    BY <1>1, <1>2, <1>3, <2>1 DEF Local, Expects
  <2>2. CASE b = c
    BY <1>4, <2>2
  <2>3. CASE b.pid = c.pid /\ b # c
    <3>1. At(c, b.pid, b.epoch) /\ c.seq <= b.seq
      BY <1>1, <1>2, <1>3, <1>9, <2>3 DEF At
    <3>2. End(c) <= b.seq
      <4>1. End(c) <= b.seq \/ End(b) <= c.seq
        BY <1>1, <2>3, <3>1 DEF Local, Apart
      <4> QED
        BY <1>1, <1>2, <3>1, <4>1
    <3>3. CASE c.epoch > L[c.pid].epoch /\ c.seq = 0
      BY <1>1, <1>2, <1>11, <2>3, <3>1, <3>2, <3>3 DEF At
    <3>4. CASE c.epoch = L[c.pid].epoch /\ c.seq = L[c.pid].expected
      <4>1. \/ b.seq = L[b.pid].expected
            \/ L[b.pid].expected = End(b)
        BY <2>3, <3>1, <3>4 DEF Local, Expects, At
      <4> QED
        BY <1>1, <1>2, <2>3, <3>2, <3>4, <4>1
    <3> QED
      BY <3>3, <3>4 DEF Takes
  <2> QED
    BY <2>1, <2>2, <2>3
<1>14. live => ReadyToSend(O, S, n, i, e, L2)
  <2> SUFFICES ASSUME live, O = {} PROVE ReadyToSend(O, S, n, i, e, L2)
    BY DEF ReadyToSend
  <2>1. /\ L[i].epoch = e => L[i].expected = n
        /\ L[i].epoch \in 0..(e - 1) => n = 0
        /\ L[i].epoch = -1 /\ n # 0 => \A x \in S : x.pid = i => x.seq # 0
    BY DEF Local, ReadyToSend
  <2>2. CASE c.pid # i
    BY <1>1, <1>3, <2>1, <2>2 DEF ReadyToSend
  <2>3. CASE c.pid = i
    <3>1. c.epoch <= e /\ (c.epoch = e => End(c) <= n)
      BY <1>1, <1>2, <2>3 DEF Local, Bounded, AtMost, Older, At
    <3>2. c.epoch # e
      BY <1>1, <1>2, <2>1, <2>3, <3>1 DEF Takes
    <3>3. n = 0
      BY <1>1, <1>2, <2>1, <2>3, <3>1, <3>2 DEF Takes
    <3> QED
      BY <1>3, <2>3, <3>2, <3>3 DEF ReadyToSend
  <2> QED
    BY <2>2, <2>3
<1>15. NoRevival(S, L2)
  <2>1. \A b \in S : Lost(b, L2) => Lost(b, L)
    BY <1>2, <1>3 DEF Lost
  <2> QED
    BY <2>1 DEF Local, NoRevival
<1>16. \A b \in S : b.recs = c.recs => b = c \/ Refused(b, L)
  <2> SUFFICES ASSUME NEW b \in S, b.recs = c.recs PROVE b = c \/ Refused(b, L)
    OBVIOUS
  <2>1. At(b, c.pid, c.epoch) \/ Older(b, c.pid, c.epoch) \/ Older(c, b.pid, b.epoch)
    BY <1>2 DEF At, Older
  <2>2. CASE At(b, c.pid, c.epoch)
    <3>1. Shares(b, c)
      BY <1>1, KeyFacts DEF Shares, Recs
    <3> QED
      BY <2>2, <3>1 DEF Local, Apart
  <2>3. CASE Older(b, c.pid, c.epoch)
    BY <2>3 DEF Local, OldRefused
  <2>4. CASE Older(c, b.pid, b.epoch)
    BY <1>5, <2>4 DEF Local, OldRefused
  <2> QED
    BY <2>1, <2>2, <2>3, <2>4
<1>17. LoggedRefused(S, L2, G2)
  <2> SUFFICES ASSUME NEW b \in S, Recs(b) \cap G2 # {} PROVE Refused(b, L2)
    BY DEF LoggedRefused
  <2>1. CASE Recs(b) \cap G # {}
    BY <1>7, <2>1 DEF Local, LoggedRefused
  <2>2. CASE Shares(b, c)
    <3>1. b.recs = c.recs
      BY <2>2 DEF Local, Units
    <3>2. Has(c, L2)
      BY <1>3, <1>4 DEF Has
    <3> QED
      BY <1>7, <1>16, <3>1, <3>2 DEF Refused
  <2> QED
    BY <2>1, <2>2 DEF Shares
<1>18. OldRefused(S, L2)
  BY <1>7 DEF Local, OldRefused
<1>19. LostUnlogged(O, L2, G2)
  <2> SUFFICES ASSUME NEW b \in O, Lost(b, L2) PROVE Recs(b) \cap G2 = {}
    BY DEF LostUnlogged
  <2>1. b.pid # c.pid /\ Lost(b, L) /\ b \in S
    <3>1. b \in S /\ b.pid \in Pids /\ c.epoch \in Nat
      BY <1>1, <1>2
    <3>2. b.pid # c.pid
      BY <1>3, <3>1 DEF Lost
    <3> QED
      BY <1>3, <3>1, <3>2 DEF Lost
  <2>2. Recs(b) \cap G = {}
    BY <2>1 DEF Local, LostUnlogged
  <2>3. ASSUME Shares(b, c) PROVE FALSE
    <3>1. b.recs = c.recs
      BY <2>1, <2>3 DEF Local, Units
    <3>2. Older(c, b.pid, b.epoch)
      BY <1>9, <2>1 DEF Older, At
    <3> QED
      BY <1>5, <2>1, <3>1, <3>2 DEF Local, OldRefused
  <2> QED
    BY <2>2, <2>3 DEF Shares
<1>20. Unsent(S, G2, Q)
  BY DEF Local, Unsent
<1>21. Local(live, O, S, n, i, e, L2, G2, Q)
  BY <1>8, <1>10, <1>12, <1>13, <1>14, <1>15, <1>17, <1>18, <1>19, <1>20 DEF Local
<1> QED
  BY <1>5, <1>6, <1>21 DEF L2

-----------------------------------------------------------------------------
(* The accumulators: their batches hold records in the order of the sends. *)

Sorted(s) == \A i, j \in 1..Len(s) : i < j => s[i] < s[j]

InOrder(queue) ==
  /\ \A i \in 1..Len(queue) : queue[i] # <<>> /\ Sorted(queue[i])
  /\ \A i, j \in 1..Len(queue) : i < j =>
       \A x \in Elems(queue[i]), y \in Elems(queue[j]) : x < y

QueuesInOrder == \A p \in Partitions : InOrder(Queue(p))

\* What a step does to the accumulator of p when it does not append to it.
QueueMove(p) ==
  \/ Queue(p)' = Queue(p)
  \/ Queue(p) # <<>> /\ Queue(p)' = Tail(Queue(p))
  \/ Queue(p)' = <<>>

LEMMA InRecordsIn ==
  ASSUME NEW queue \in Seq(Seq(Records)), NEW y
  PROVE  y \in RecordsIn(queue) <=> \E i \in 1..Len(queue) : y \in Elems(queue[i])
<1>1. Elems(queue) = {queue[i] : i \in 1..Len(queue)}
  BY ElemsInterval
<1> QED
  BY <1>1 DEF RecordsIn

LEMMA InOrderPopped ==
  ASSUME NEW queue \in Seq(Seq(Records)), queue # <<>>, InOrder(queue)
  PROVE  /\ Head(queue) \in Seq(Records) /\ Head(queue) # <<>> /\ Sorted(Head(queue))
         /\ InOrder(Tail(queue)) /\ Tail(queue) \in Seq(Seq(Records))
         /\ \A x \in Elems(Head(queue)), y \in RecordsIn(Tail(queue)) : x < y
<1>1. /\ Len(queue) \in Nat \ {0} /\ Head(queue) = queue[1] /\ 1 \in 1..Len(queue)
      /\ Tail(queue) \in Seq(Seq(Records)) /\ Len(Tail(queue)) = Len(queue) - 1
      /\ \A i \in 1..Len(Tail(queue)) : Tail(queue)[i] = queue[i + 1] /\ i + 1 \in 1..Len(queue)
  BY HeadTailProperties, LenProperties, EmptySeq
<1>2. Head(queue) \in Seq(Records)
  BY <1>1, ElementOfSeq
<1>3. InOrder(Tail(queue))
  BY <1>1 DEF InOrder
<1>4. ASSUME NEW x \in Elems(Head(queue)), NEW y \in RecordsIn(Tail(queue))
      PROVE  x < y
  <2>1. PICK i \in 1..Len(Tail(queue)) : y \in Elems(Tail(queue)[i])
    BY <1>1, InRecordsIn
  <2>2. y \in Elems(queue[i + 1]) /\ i + 1 \in 1..Len(queue) /\ 1 < i + 1
    BY <1>1, <2>1
  <2> QED
    BY <1>1, <2>2 DEF InOrder
<1> QED
  BY <1>1, <1>2, <1>3, <1>4 DEF InOrder

LEMMA InOrderAppend ==
  ASSUME NEW queue \in Seq(Seq(Records)), NEW b \in Seq(Records)
  PROVE  InOrder(Append(queue, b)) <=>
           /\ InOrder(queue) /\ b # <<>> /\ Sorted(b)
           /\ \A x \in RecordsIn(queue), y \in Elems(b) : x < y
<1> DEFINE full == Append(queue, b)
           k == Len(queue) + 1
<1>1. /\ Len(queue) \in Nat /\ Len(full) = k /\ full[k] = b /\ k \in 1..Len(full)
      /\ \A i \in 1..Len(queue) : full[i] = queue[i] /\ i \in 1..Len(full) /\ i < k
      /\ \A i \in 1..Len(full) : i = k \/ i \in 1..Len(queue)
  BY AppendProperties, LenProperties
<1> HIDE DEF full, k
<1>2. ASSUME InOrder(full)
      PROVE  /\ InOrder(queue) /\ b # <<>> /\ Sorted(b)
             /\ \A x \in RecordsIn(queue), y \in Elems(b) : x < y
  <2>1. InOrder(queue)
    BY <1>1, <1>2 DEF InOrder
  <2>2. \A x \in RecordsIn(queue), y \in Elems(b) : x < y
    BY <1>1, <1>2, InRecordsIn DEF InOrder
  <2> QED
    BY <1>1, <1>2, <2>1, <2>2 DEF InOrder
<1>3. ASSUME /\ InOrder(queue) /\ b # <<>> /\ Sorted(b)
             /\ \A x \in RecordsIn(queue), y \in Elems(b) : x < y
      PROVE  InOrder(full)
  <2>1. \A i \in 1..Len(full) : full[i] # <<>> /\ Sorted(full[i])
    BY <1>1, <1>3 DEF InOrder
  <2>2. ASSUME NEW i \in 1..Len(full), NEW j \in 1..Len(full), i < j
        PROVE  \A x \in Elems(full[i]), y \in Elems(full[j]) : x < y
    <3>1. i \in 1..Len(queue) /\ i \in Int /\ j \in Int
      BY <1>1, <2>2
    <3>2. CASE j = k
      BY <1>1, <1>3, <3>1, <3>2, InRecordsIn
    <3>3. CASE j \in 1..Len(queue)
      BY <1>1, <1>3, <2>2, <3>1, <3>3 DEF InOrder
    <3> QED
      BY <1>1, <3>2, <3>3
  <2> QED
    BY <2>1, <2>2 DEF InOrder
<1> QED
  BY <1>2, <1>3 DEF full

LEMMA SortedAppend ==
  ASSUME NEW s \in Seq(Records), NEW r \in Records, Sorted(s), \A x \in Elems(s) : x < r
  PROVE  Sorted(Append(s, r)) /\ Append(s, r) \in Seq(Records) /\ Append(s, r) # <<>>
<1>1. /\ Len(s) \in Nat /\ Len(Append(s, r)) = Len(s) + 1
      /\ Append(s, r)[Len(s) + 1] = r /\ Append(s, r) \in Seq(Records)
      /\ \A i \in 1..Len(s) : Append(s, r)[i] = s[i] /\ s[i] \in Elems(s)
  BY AppendProperties, LenProperties, ElemsInterval
<1>2. ASSUME NEW i \in 1..(Len(s) + 1), NEW j \in 1..(Len(s) + 1), i < j
      PROVE  Append(s, r)[i] < Append(s, r)[j]
  <2>1. i \in 1..Len(s) /\ (j = Len(s) + 1 \/ j \in 1..Len(s))
    BY <1>1, <1>2
  <2> QED
    BY <1>1, <1>2, <2>1 DEF Sorted
<1> QED
  BY <1>1, <1>2, AppendFront DEF Sorted

LEMMA ElemsConcat ==
  ASSUME NEW S, NEW s \in Seq(S), NEW t \in Seq(S)
  PROVE  Elems(s \o t) = Elems(s) \cup Elems(t)
<1>1. /\ s \o t \in Seq(S) /\ Len(s \o t) = Len(s) + Len(t) /\ Len(s) \in Nat /\ Len(t) \in Nat
      /\ \A i \in 1..(Len(s) + Len(t)) : (s \o t)[i] = IF i <= Len(s) THEN s[i] ELSE t[i - Len(s)]
  BY ConcatProperties, LenProperties
<1>2. \A i \in 1..(Len(s) + Len(t)) : i <= Len(s) \/ i - Len(s) \in 1..Len(t)
  BY <1>1
<1>3. /\ Elems(s \o t) = {(s \o t)[i] : i \in 1..(Len(s) + Len(t))}
      /\ Elems(s) = {s[i] : i \in 1..Len(s)} /\ Elems(t) = {t[i] : i \in 1..Len(t)}
  BY <1>1, ElemsInterval
<1>4. Elems(s \o t) \subseteq Elems(s) \cup Elems(t)
  BY <1>1, <1>2, <1>3
<1>5. ASSUME NEW i \in 1..Len(s)
      PROVE  i \in 1..(Len(s) + Len(t)) /\ (s \o t)[i] = s[i]
  BY <1>1
<1>6. ASSUME NEW i \in 1..Len(t)
      PROVE  i + Len(s) \in 1..(Len(s) + Len(t)) /\ (s \o t)[i + Len(s)] = t[i]
  BY <1>1
<1> QED
  BY <1>3, <1>4, <1>5, <1>6

LEMMA QueueUnchanged ==
  ASSUME current' = current, ready' = ready
  PROVE  \A p \in Partitions : Queue(p)' = Queue(p)
BY DEF Queue

\* A step appends to the accumulator of p, or takes from it, or empties it.
LEMMA QueueMoves ==
  ASSUME Inv, NoneTooLarge, [Next]_vars, NEW p \in Partitions
  PROVE  EnqueueAppend(p) \/ QueueMove(p)
<1> USE DEF QueueMove
<1>1. TypeOK
  BY DEF Inv
<1>2. ASSUME NEW o \in Partitions, EnqueueSeal(o) \/ EnqueueLock(o)
      PROVE  QueueMove(p)
  BY <1>1, <1>2, SealQueue, QueueUnchanged DEF EnqueueLock
<1>3. ASSUME NEW o \in Partitions, EnqueueAppend(o)
      PROVE  EnqueueAppend(p) \/ QueueMove(p)
  BY <1>1, <1>3, AppendQueue
<1>4. ASSUME \/ FlushStart \/ FlushLoad \/ FlushWake \/ FlushTimeout
             \/ \E o \in Partitions : FlushScan(o)
             \/ Close \/ DropProducer \/ AllocateProducerId \/ SenderExit \/ Network
             \/ \E o \in Partitions : Resend(o)
             \/ \E expired \in SUBSET RetryPartitions : ExpireBatches(expired)
             \/ DrainFence \/ \E done \in SUBSET Answered : CompleteFatal(done)
             \/ FailExpired \/ UNCHANGED vars
      PROVE  QueueMove(p)
  <2>1. current' = current /\ ready' = ready
    BY <1>4 DEF FlushStart, FlushLoad, FlushWake, FlushTimeout, FlushScan, Close, DropProducer,
                AllocateProducerId, SenderExit, Network, LeaderAnswers, LeaderAppendsAndFails,
                LeaderRefuses, TransportFails, StrayArrives, LeaderForgets, Resend,
                ExpireBatches, FailExpired, DrainFence, CompleteFatal, Fence, accVars, vars
  <2> QED
    BY <2>1, QueueUnchanged
<1>5. ASSUME NEW o \in Partitions, DrainBatch(o)
      PROVE  QueueMove(p)
  <2>1. Queue(o) # <<>>
    BY <1>5 DEF DrainBatch
  <2> QED
    BY <1>1, <1>5, <2>1, DrainQueue
<1>6. ASSUME NEW o \in Partitions, TakeExpired(o)
      PROVE  QueueMove(p)
  <2>1. Queue(o) # <<>>
    BY <1>6 DEF TakeExpired
  <2> QED
    BY <1>1, <1>6, <2>1, ExpireQueue
<1>7. ASSUME NEW done \in SUBSET Answered, CompleteBatches(done)
      PROVE  QueueMove(p)
  BY <1>7, CompleteEffect, QueueUnchanged
<1>8. ASSUME NEW o \in sweep, FenceAccumulator(o)
      PROVE  QueueMove(p)
  <2>1. o \in Partitions /\ current \in [Partitions -> Seq(Records)]
        /\ ready \in [Partitions -> Seq(Seq(Records))]
    BY <1>1 DEF TypeOK
  <2> QED
    BY <1>8, <2>1 DEF FenceAccumulator, Queue
<1> QED
  BY <1>2, <1>3, <1>4, <1>5, <1>6, <1>7, <1>8 DEF Next, Application, Sender, Terminated

LEMMA QueueMoveKeeps ==
  ASSUME Inv, NEW p \in Partitions, QueueMove(p), InOrder(Queue(p))
  PROVE  InOrder(Queue(p))' /\ QueuedRecords(p)' \subseteq QueuedRecords(p)
<1>1. Queue(p) \in Seq(Seq(Records)) /\ QueuedRecords(p) = RecordsIn(Queue(p))
  BY QueueType, QueuedIsIn DEF Inv
<1>2. QueuedRecords(p)' = RecordsIn(Queue(p)')
  BY DEF QueuedRecords, RecordsIn
<1>3. CASE Queue(p)' = Queue(p)
  BY <1>1, <1>2, <1>3
<1>4. CASE Queue(p) # <<>> /\ Queue(p)' = Tail(Queue(p))
  <2>1. InOrder(Tail(Queue(p))) /\ RecordsIn(Tail(Queue(p))) \subseteq RecordsIn(Queue(p))
    BY <1>1, <1>4, InOrderPopped, RecordsInPopped
  <2> QED
    BY <1>1, <1>2, <1>4, <2>1
<1>5. CASE Queue(p)' = <<>>
  <2>1. InOrder(<<>>) /\ RecordsIn(<<>>) = {}
    BY DEF InOrder, RecordsIn, Elems
  <2> QED
    BY <1>2, <1>5, <2>1
<1> QED
  BY <1>3, <1>4, <1>5 DEF QueueMove

LEMMA QueueAppendKeeps ==
  ASSUME Inv, NEW p \in Partitions, EnqueueAppend(p), InOrder(Queue(p)),
         QueuedRecords(p) \subseteq 1..appended
  PROVE  InOrder(Queue(p))'
<1> DEFINE r == appended + 1
<1>1. r \in Records /\ appended \in Nat
  BY AppendQueued, ConstantsAssumption DEF Inv, TypeOK
<1>2. /\ Queue(p) \in Seq(Seq(Records)) /\ QueuedRecords(p) = RecordsIn(Queue(p))
      /\ current[p] \in Seq(Records) /\ ready[p] \in Seq(Seq(Records))
  BY QueueType, QueuedIsIn DEF Inv
<1>3. \A x \in RecordsIn(Queue(p)) : x < r
  BY <1>1, <1>2
<1>4. \/ Queue(p)' = Append(Queue(p), <<r>>)
      \/ /\ Queue(p) = Append(ready[p], current[p])
         /\ Queue(p)' = Append(ready[p], Append(current[p], r))
  BY AppendQueue DEF Inv
<1> HIDE DEF r
<1>5. CASE Queue(p)' = Append(Queue(p), <<r>>)
  <2>1. <<r>> \in Seq(Records) /\ <<r>> # <<>> /\ Sorted(<<r>>) /\ Elems(<<r>>) = {r}
    BY <1>1 DEF Sorted, Elems
  <2>2. InOrder(Append(Queue(p), <<r>>))
    BY <1>2, <1>3, <2>1, InOrderAppend
  <2> QED
    BY <1>5, <2>2
<1>6. CASE /\ Queue(p) = Append(ready[p], current[p])
           /\ Queue(p)' = Append(ready[p], Append(current[p], r))
  <2>1. /\ InOrder(ready[p]) /\ current[p] # <<>> /\ Sorted(current[p])
        /\ \A x \in RecordsIn(ready[p]), y \in Elems(current[p]) : x < y
    BY <1>2, <1>6, InOrderAppend
  <2>2. RecordsIn(Queue(p)) = RecordsIn(ready[p]) \cup Elems(current[p])
    BY <1>2, <1>6, RecordsInAppend
  <2>3. /\ Sorted(Append(current[p], r)) /\ Append(current[p], r) \in Seq(Records)
        /\ Append(current[p], r) # <<>> /\ Elems(Append(current[p], r)) = Elems(current[p]) \cup {r}
    BY <1>1, <1>2, <1>3, <2>1, <2>2, SortedAppend, ElemsAppend
  <2>4. InOrder(Append(ready[p], Append(current[p], r)))
    BY <1>2, <1>3, <2>1, <2>2, <2>3, InOrderAppend
  <2> QED
    BY <1>6, <2>4
<1> QED
  BY <1>4, <1>5, <1>6

-----------------------------------------------------------------------------
(* The state of the pipeline, partition by partition.                      *)

Key(b) == [recs |-> b.recs, pid |-> b.pid, epoch |-> b.epoch, seq |-> b.seq]
KeysAt(batches, p) == {Key(b) : b \in {c \in batches : c.part = p}}

Out(p) == KeysAt(Outstanding, p)
SentAt(p) == KeysAt(Sent, p)

\* New batches can be sent at the identity of the producer.
Live == state = "active" /\ producer_epoch # MaxEpoch

LocalAt(p) ==
  Local(Live, Out(p), SentAt(p), next_seq[p], producer_id, producer_epoch, producers[p],
        Elems(log[p]), QueuedRecords(p))

LeadersTyped == producers \in [Partitions -> [Pids -> ProducerStates]]

\* What the sender learned about a batch is so at the leader.
AnswersRight ==
  \A q \in requests :
    /\ q.answer \in {"NONE", "DUPLICATE_SEQUENCE_NUMBER"} =>
         Has(Key(q.batch), producers[q.batch.part])
    /\ q.answer = "UNKNOWN_PRODUCER_ID" => Lost(Key(q.batch), producers[q.batch.part])
    /\ q.answer # "OUT_OF_ORDER_SEQUENCE_NUMBER"

\* The records of a partition are its own.
Held(p) == (UNION {Recs(b) : b \in SentAt(p)}) \cup Elems(log[p]) \cup QueuedRecords(p)

Placed ==
  /\ \A p \in Partitions : Held(p) \subseteq 1..appended
  /\ \A p, o \in Partitions : p # o => Held(p) \cap Held(o) = {}

LocalInv == LeadersTyped /\ \A p \in Partitions : LocalAt(p)

Sequenced == LocalInv /\ AnswersRight /\ QueuesInOrder /\ Placed

\* With idempotence, and leaders that take every batch.
Hypothesis == Mode = "Idempotent" /\ NoSplit

LEMMA KeyFields ==
  ASSUME NEW b
  PROVE  /\ Key(b).recs = b.recs /\ Key(b).pid = b.pid /\ Key(b).epoch = b.epoch
         /\ Key(b).seq = b.seq
BY DEF Key

LEMMA KeysAtFacts ==
  ASSUME NEW B, NEW p
  PROVE  /\ \A b \in B : b.part = p => Key(b) \in KeysAt(B, p)
         /\ \A k \in KeysAt(B, p) : \E b \in B : b.part = p /\ k = Key(b)
         /\ \A C : B \subseteq C => KeysAt(B, p) \subseteq KeysAt(C, p)
         /\ \A C : KeysAt(B \cup C, p) = KeysAt(B, p) \cup KeysAt(C, p)
         /\ (\A b \in B : b.part # p) => KeysAt(B, p) = {}
BY DEF KeysAt

LEMMA OutIs ==
  ASSUME Inv, NEW b \in Outstanding
  PROVE  Out(b.part) = {Key(b)} /\ b.part \in Partitions
<1>1. \A c \in Outstanding : c.part = b.part => c = b
  BY OutstandingUnique
<1>2. b \in PreparedBatches
  BY OutstandingUnique
<1> QED
  BY <1>1, <1>2 DEF Out, KeysAt, PreparedBatches

LEMMA SentIs ==
  \A p : SentAt(p) = Out(p) \cup KeysAt(stray, p) /\ Out(p) \subseteq SentAt(p)
BY KeysAtFacts DEF SentAt, Out, Sent

LEMMA OutNext == \A p : Out(p)' = KeysAt(Outstanding', p)
BY DEF Out, KeysAt, Key

LEMMA SentIsNext ==
  \A p : SentAt(p)' = Out(p)' \cup KeysAt(stray', p) /\ Out(p)' \subseteq SentAt(p)'
<1> TAKE p
<1>1. SentAt(p)' = KeysAt(Outstanding' \cup stray', p)
  BY DEF SentAt, Sent, KeysAt, Key
<1>2. Out(p)' = KeysAt(Outstanding', p)
  BY DEF Out, KeysAt, Key
<1> QED
  BY <1>1, <1>2, KeysAtFacts

\* The records of an accumulator change first.
LEMMA QueueFirst ==
  ASSUME Inv, NoneTooLarge, Sequenced, [Next]_vars, NEW p \in Partitions
  PROVE  Local(Live, Out(p), SentAt(p), next_seq[p], producer_id, producer_epoch,
               producers[p], Elems(log[p]), QueuedRecords(p)')
<1>1. Unsent(SentAt(p), Elems(log[p]), QueuedRecords(p))
  BY DEF Sequenced, LocalInv, LocalAt, Local
<1>2. Unsent(SentAt(p), Elems(log[p]), QueuedRecords(p)')
  <2>1. CASE EnqueueAppend(p)
    <3>1. QueuedRecords(p)' = QueuedRecords(p) \cup {appended + 1}
      BY <2>1, AppendQueued
    <3>2. Held(p) \subseteq 1..appended /\ appended \in Nat
      BY ConstantsAssumption DEF Sequenced, Placed, Inv, TypeOK
    <3>3. appended + 1 \notin Held(p)
      BY <3>2
    <3> QED
      BY <1>1, <3>1, <3>3 DEF Unsent, Held
  <2>2. CASE QueueMove(p)
    <3>1. QueuedRecords(p)' \subseteq QueuedRecords(p)
      BY <2>2, QueueMoveKeeps DEF Sequenced, QueuesInOrder
    <3> QED
      BY <1>1, <3>1 DEF Unsent
  <2> QED
    BY <2>1, <2>2, QueueMoves
<1> QED
  BY <1>2, MoveQueue DEF Sequenced, LocalInv, LocalAt

\* A step that leaves the batches and the leader of p alone.
LEMMA LocalKept ==
  ASSUME Inv, NoneTooLarge, Sequenced, [Next]_vars, NEW p \in Partitions,
         Out(p)' = Out(p), SentAt(p)' \subseteq SentAt(p), next_seq'[p] = next_seq[p],
         UNCHANGED <<producer_id, producer_epoch>>, producers'[p] = producers[p],
         log'[p] = log[p], Live' => Live
  PROVE  LocalAt(p)'
<1>1. Out(p) \subseteq SentAt(p)'
  BY SentIsNext
<1>2. Elems(log[p])' = Elems(log[p])
  BY DEF Elems
<1>3. Local(Live', Out(p), SentAt(p)', next_seq[p], producer_id, producer_epoch,
            producers[p], Elems(log[p]), QueuedRecords(p)')
  BY <1>1, QueueFirst, MoveShrink
<1> QED
  BY <1>2, <1>3 DEF LocalAt

LEMMA LocalQuiet ==
  ASSUME Inv, NoneTooLarge, Sequenced, [Next]_vars, Outstanding' = Outstanding, Sent' \subseteq Sent,
         UNCHANGED <<next_seq, producer_id, producer_epoch, log, producers>>, Live' => Live
  PROVE  LocalInv'
<1>1. LeadersTyped'
  BY DEF Sequenced, LocalInv, LeadersTyped
<1>2. ASSUME NEW p \in Partitions
      PROVE  LocalAt(p)'
  <2>1. Out(p)' = Out(p)
    BY DEF Out
  <2>2. SentAt(p)' \subseteq SentAt(p)
    BY DEF SentAt, KeysAt
  <2> QED
    BY <2>1, <2>2, LocalKept
<1> QED
  BY <1>1, <1>2 DEF LocalInv

\* The identities that a bump can leave behind come after the one it found.
LEMMA BumpMoves ==
  ASSUME Sequenced, Partitions # {}, NEW bump, NEW id \in IdentityAfter(bump)
  PROVE  /\ id.ok => /\ id.pid \in Pids /\ id.epoch \in 0..MaxEpoch
                     /\ id.pid > producer_id \/ (id.pid = producer_id /\ id.epoch > producer_epoch)
         /\ ~id.ok => id.pid = producer_id /\ id.epoch = producer_epoch
         /\ ~id.ok /\ bump => id.epoch = MaxEpoch
<1>1. producer_id \in Pids /\ producer_epoch \in 0..MaxEpoch
  BY DEF Sequenced, LocalInv, LocalAt, Local, Typed
<1>2. producer_id \in Nat /\ producer_epoch \in Nat /\ MaxEpoch \in Nat /\ MaxProducerId \in Nat
  BY <1>1, ConstantsAssumption DEF Pids
<1>3. CASE ~bump
  BY <1>3 DEF IdentityAfter
<1>4. CASE bump /\ producer_epoch < MaxEpoch
  BY <1>1, <1>2, <1>4 DEF IdentityAfter, BumpedIdentities
<1>5. CASE bump /\ ~(producer_epoch < MaxEpoch)
  <2>1. producer_epoch = MaxEpoch
    BY <1>1, <1>2, <1>5
  <2>2. \/ id = [ok |-> FALSE, pid |-> producer_id, epoch |-> producer_epoch]
        \/ /\ producer_id + 1 \in 0..MaxProducerId
           /\ id = [ok |-> TRUE, pid |-> producer_id + 1, epoch |-> 0]
    BY <1>5 DEF IdentityAfter, BumpedIdentities
  <2> QED
    BY <1>2, <2>1, <2>2 DEF Pids
<1> QED
  BY <1>3, <1>4, <1>5

LEMMA LocalAllocate ==
  ASSUME Inv, NoneTooLarge, Sequenced, Next, AllocateProducerId
  PROVE  LocalInv'
<1>1. LeadersTyped'
  BY DEF Sequenced, LocalInv, LeadersTyped, AllocateProducerId, brokerVars
<1>2. ASSUME NEW p \in Partitions
      PROVE  LocalAt(p)'
  <2>1. /\ Outstanding' = Outstanding /\ Sent' = Sent /\ next_seq'[p] = 0
        /\ producer_id' = producer_id + 1 /\ producer_epoch' = 0 /\ producer_id < MaxProducerId
        /\ producers' = producers /\ log' = log
    BY DEF AllocateProducerId, Outstanding, Sent, RetryPartitions, brokerVars
  <2>2. Out(p)' = Out(p) /\ SentAt(p)' = SentAt(p) /\ Elems(log[p])' = Elems(log[p])
    BY <2>1 DEF Out, SentAt, Elems
  <2>3. producer_id \in Pids
    BY DEF Sequenced, LocalInv, LocalAt, Local, Typed
  <2>4. /\ producer_id' \in Pids /\ producer_epoch' \in 0..MaxEpoch /\ producer_id' > producer_id
    BY <2>1, <2>3, ConstantsAssumption DEF Pids
  <2>5. Local(Live', Out(p), SentAt(p), 0, producer_id', producer_epoch', producers[p],
              Elems(log[p]), QueuedRecords(p)')
    BY <2>4, QueueFirst, MoveBump
  <2> QED
    BY <2>1, <2>2, <2>5 DEF LocalAt
<1> QED
  BY <1>1, <1>2 DEF LocalInv

LEMMA LocalDrain ==
  ASSUME Hypothesis, Inv, NoneTooLarge, Sequenced, Next, NEW p \in Partitions, DrainBatch(p)
  PROVE  LocalInv'
<1> DEFINE b == PrepareBatch(p, Head(Queue(p)))
<1>1. /\ producers' = producers /\ log' = log /\ stray' = stray /\ state' = state
      /\ UNCHANGED <<producer_id, producer_epoch>> /\ state = "active" /\ producer_epoch # MaxEpoch
      /\ p \notin Occupied /\ Queue(p) # <<>>
  BY DEF DrainBatch, brokerVars, lifeVars, IdentityUsable, Hypothesis
<1>2. /\ Queue(p)' = Tail(Queue(p))
      /\ next_seq' = [next_seq EXCEPT ![p] = @ + Len(Head(Queue(p)))]
  BY DrainQueue DEF Inv
<1>3. Outstanding' = Outstanding \cup {b}
  BY DrainOutstanding
<1>4. Live' = Live /\ Live
  BY <1>1 DEF Live
<1>5. LeadersTyped'
  BY <1>1 DEF Sequenced, LocalInv, LeadersTyped
<1>6. /\ next_seq \in [Partitions -> Int] /\ Queue(p) \in Seq(Seq(Records))
      /\ retry \in [Partitions -> PreparedBatches \cup {NoBatch}]
  BY QueueType DEF Inv, TypeOK
<1>7. ASSUME NEW o \in Partitions, o # p
      PROVE  LocalAt(o)'
  <2>1. KeysAt({b}, o) = {}
    BY <1>7 DEF KeysAt, PrepareBatch
  <2>2. Out(o)' = Out(o)
    <3>1. KeysAt(Outstanding \cup {b}, o) = KeysAt(Outstanding, o) \cup KeysAt({b}, o)
      BY KeysAtFacts
    <3> QED
      BY <1>3, <2>1, <3>1, OutNext DEF Out
  <2>3. SentAt(o)' = SentAt(o)
    BY <1>1, <2>2, SentIs, SentIsNext
  <2>4. next_seq'[o] = next_seq[o]
    BY <1>2, <1>6, <1>7
  <2> QED
    BY <1>1, <1>4, <2>2, <2>3, <2>4, LocalKept
<1>8. LocalAt(p)'
  <2>1. \A c \in Outstanding : c.part # p
    BY <1>1, <1>6 DEF Occupied, Outstanding, RequestedPartitions, RetryPartitions, Inv, Pipeline, SlotsMatch
  <2>2. Out(p) = {}
    BY <2>1, KeysAtFacts DEF Out
  <2>3. KeysAt({b}, p) = {Key(b)}
    BY DEF KeysAt, PrepareBatch
  <2>4. KeysAt(Outstanding \cup {b}, p) = KeysAt(Outstanding, p) \cup KeysAt({b}, p)
    BY KeysAtFacts
  <2>5. Out(p)' = {Key(b)}
    BY <1>3, <2>2, <2>3, <2>4, OutNext DEF Out
  <2>6. SentAt(p)' = SentAt(p) \cup {Key(b)}
    <3>1. SentAt(p) = Out(p) \cup KeysAt(stray, p)
      BY SentIs
    <3> QED
      BY <1>1, <2>2, <2>5, <3>1, SentIsNext
  <2>7. Local(TRUE, {}, SentAt(p), next_seq[p], producer_id, producer_epoch, producers[p],
              Elems(log[p]), QueuedRecords(p))
    <3>1. Local(Live, {}, SentAt(p), next_seq[p], producer_id, producer_epoch, producers[p],
                Elems(log[p]), QueuedRecords(p))
      BY <2>2 DEF Sequenced, LocalInv, LocalAt
    <3> QED
      BY <1>4, <3>1, MoveShrink
  <2>8. /\ Head(Queue(p)) \in Seq(Records) /\ Head(Queue(p)) # <<>>
        /\ \A x \in Elems(Head(Queue(p))), y \in RecordsIn(Tail(Queue(p))) : x < y
    BY <1>1, <1>6, InOrderPopped DEF Sequenced, QueuesInOrder
  <2>9. /\ QueuedRecords(p) = Elems(Head(Queue(p))) \cup RecordsIn(Tail(Queue(p)))
        /\ QueuedRecords(p)' = RecordsIn(Tail(Queue(p)))
    <3>1. QueuedRecords(p)' = RecordsIn(Queue(p)')
      BY DEF QueuedRecords, RecordsIn
    <3> QED
      BY <1>1, <1>2, <1>6, <3>1, RecordsInPopped, QueuedIsIn
  <2>10. Elems(Head(Queue(p))) \cap RecordsIn(Tail(Queue(p))) = {}
    <3>1. Elems(Head(Queue(p))) \subseteq Records
      BY <2>8, ElemsInterval
    <3>2. \A x \in Records : ~(x < x)
      BY DEF Records
    <3> QED
      BY <2>8, <3>1, <3>2
  <2>11. /\ Key(b).recs = Head(Queue(p)) /\ Key(b).pid = producer_id
         /\ Key(b).epoch = producer_epoch /\ Key(b).seq = next_seq[p]
    BY DEF Key, PrepareBatch
  <2>12. Key(b) \in Keys
    <3>1. producer_id \in Pids /\ producer_epoch \in Nat /\ next_seq[p] \in Nat
      BY <2>7, ConstantsAssumption DEF Local, Typed
    <3> QED
      BY <2>8, <3>1 DEF Key, PrepareBatch, Keys
  <2>13. At(Key(b), producer_id, producer_epoch) /\ Recs(Key(b)) = Elems(Head(Queue(p)))
    BY <2>11 DEF At, Recs
  <2>14. Local(Live', {Key(b)}, SentAt(p) \cup {Key(b)}, End(Key(b)), producer_id, producer_epoch,
              producers[p], Elems(log[p]), QueuedRecords(p)')
    BY <2>7, <2>9, <2>10, <2>11, <2>12, <2>13, MoveDrain
  <2>15. next_seq'[p] = End(Key(b))
    BY <1>2, <1>6, <2>11 DEF End
  <2>16. Elems(log[p])' = Elems(log[p])
    BY <1>1 DEF Elems
  <2> QED
    BY <1>1, <2>5, <2>6, <2>14, <2>15, <2>16 DEF LocalAt
<1> QED
  BY <1>5, <1>7, <1>8 DEF LocalInv

\* A cycle of the sender that may bump the epoch: a batch that ends was acked,
\* or the cycle asked for the bump.
LEMMA LocalRepaired ==
  ASSUME Inv, NoneTooLarge, Sequenced, [Next]_vars, NEW p \in Partitions,
         NEW bump, NEW id \in IdentityAfter(bump),
         producer_id' = id.pid, producer_epoch' = id.epoch,
         UNCHANGED <<state, producers, log, stray>>,
         id.ok => next_seq'[p] = 0, ~id.ok => next_seq'[p] = next_seq[p],
         \/ Out(p)' = Out(p)
         \/ Out(p)' = {} /\ \E b \in Out(p) : bump \/ Has(b, producers[p])
  PROVE  LocalAt(p)'
<1>1. SentAt(p)' \subseteq SentAt(p) /\ Elems(log[p])' = Elems(log[p])
  BY SentIs, SentIsNext DEF Elems
<1>2. Local(Live, Out(p), SentAt(p), next_seq[p], producer_id, producer_epoch,
            producers[p], Elems(log[p]), QueuedRecords(p)')
  BY QueueFirst
<1>3. /\ id.ok => /\ id.pid \in Pids /\ id.epoch \in 0..MaxEpoch
                  /\ id.pid > producer_id \/ (id.pid = producer_id /\ id.epoch > producer_epoch)
      /\ ~id.ok => id.pid = producer_id /\ id.epoch = producer_epoch
      /\ ~id.ok /\ bump => id.epoch = MaxEpoch
  BY BumpMoves
<1>4. CASE id.ok
  <2>1. /\ Local(Live', Out(p), SentAt(p), 0, id.pid, id.epoch, producers[p],
                 Elems(log[p]), QueuedRecords(p)')
        /\ \A b \in SentAt(p) : Older(b, id.pid, id.epoch)
    BY <1>2, <1>3, <1>4, MoveBump
  <2>2. CASE Out(p)' = Out(p)
    <3>1. SentAt(p)' = SentAt(p)
      BY <2>2, SentIs, SentIsNext
    <3> QED
      BY <1>1, <1>4, <2>1, <2>2, <3>1 DEF LocalAt
  <2>3. CASE Out(p)' = {} /\ \E b \in Out(p) : TRUE
    <3>1. PICK b \in Out(p) : TRUE
      BY <2>3
    <3>2. Older(b, id.pid, id.epoch)
      BY <2>1, SentIs
    <3>3. Local(Live', {}, SentAt(p)', 0, id.pid, id.epoch, producers[p],
                Elems(log[p]), QueuedRecords(p)')
      BY <1>1, <2>1, <3>2, MoveEnd
    <3> QED
      BY <1>1, <1>4, <2>3, <3>3 DEF LocalAt
  <2> QED
    BY <2>2, <2>3
<1>5. CASE ~id.ok
  <2>1. Live' = Live /\ next_seq'[p] = next_seq[p] /\ UNCHANGED <<producer_id, producer_epoch>>
    BY <1>3, <1>5 DEF Live
  <2>2. CASE Out(p)' = Out(p)
    BY <1>1, <2>1, <2>2, LocalKept
  <2>3. CASE Out(p)' = {} /\ \E b \in Out(p) : bump \/ Has(b, producers[p])
    <3>1. PICK b \in Out(p) : bump \/ Has(b, producers[p])
      BY <2>3
    <3>2. Live' => Has(b, producers[p])
      BY <1>3, <1>5, <3>1 DEF Live
    <3>3. Local(Live', {}, SentAt(p)', next_seq[p], producer_id, producer_epoch, producers[p],
                Elems(log[p]), QueuedRecords(p)')
      BY <1>1, <1>2, <3>2, MoveEnd
    <3> QED
      BY <1>1, <2>1, <2>3, <3>3 DEF LocalAt
  <2> QED
    BY <2>2, <2>3
<1> QED
  BY <1>4, <1>5

LEMMA LocalExpire ==
  ASSUME Hypothesis, Inv, NoneTooLarge, Sequenced, Next,
         NEW expired \in SUBSET RetryPartitions, ExpireBatches(expired)
  PROVE  LocalInv'
<1>1. UNCHANGED <<state, producers, log, stray>> /\ RepairAfterFailure(Mode) = "BumpEpoch"
  BY DEF ExpireBatches, lifeVars, brokerVars, Hypothesis, RepairAfterFailure
<1>2. PICK id \in IdentityAfter(TRUE) : /\ producer_id' = id.pid /\ producer_epoch' = id.epoch
                                        /\ next_seq' = SequencesAfter(id)
  BY <1>1 DEF ExpireBatches
<1>3. LeadersTyped'
  BY <1>1 DEF Sequenced, LocalInv, LeadersTyped
<1>4. Outstanding' = {b \in Outstanding : b.part \notin expired}
  BY ExpireOutstanding
<1>5. ASSUME NEW p \in Partitions
      PROVE  LocalAt(p)'
  <2>1. /\ id.ok => next_seq'[p] = 0
        /\ ~id.ok => next_seq'[p] = next_seq[p]
    BY <1>2 DEF SequencesAfter
  <2>2. CASE p \notin expired
    <3>1. Out(p)' = Out(p)
      BY <1>4, <2>2, OutNext DEF Out, KeysAt
    <3> QED
      BY <1>1, <1>2, <2>1, <3>1, LocalRepaired
  <2>3. CASE p \in expired
    <3>1. Out(p)' = {}
      BY <1>4, <2>3, OutNext DEF KeysAt
    <3>2. retry[p] \in Outstanding /\ retry[p].part = p
      BY <2>3 DEF Outstanding, RetryPartitions, Inv, Pipeline, SlotsMatch
    <3>3. Key(retry[p]) \in Out(p)
      BY <3>2, KeysAtFacts DEF Out
    <3> QED
      BY <1>1, <1>2, <2>1, <3>1, <3>3, LocalRepaired
  <2> QED
    BY <2>2, <2>3
<1> QED
  BY <1>3, <1>5 DEF LocalInv

\* What an acked and a rewritten batch were answered.
LEMMA VerdictAnswer ==
  ASSUME Sequenced, NEW q \in requests
  PROVE  /\ Verdict(q) = "Acked" => Has(Key(q.batch), producers[q.batch.part])
         /\ Rewrites(q) => Lost(Key(q.batch), producers[q.batch.part])
<1>1. Verdict(q) = "Acked" => q.answer \in {"NONE", "DUPLICATE_SEQUENCE_NUMBER"}
  BY DEF Verdict, VerdictWithRetries, ClassifyVerdict, Resends
<1>2. Rewrites(q) => q.answer \in {"OUT_OF_ORDER_SEQUENCE_NUMBER", "UNKNOWN_PRODUCER_ID"}
  BY DEF Rewrites, Verdict, VerdictWithRetries, ClassifyVerdict, Resends
<1> QED
  BY <1>1, <1>2 DEF Sequenced, AnswersRight

\* The outstanding batch of a partition after complete_batches.
LEMMA CompletedOut ==
  ASSUME Inv, NEW done \in SUBSET requests, NEW id, NEW p \in Partitions,
         Outstanding' = {b \in Outstanding : \A q \in done : q.batch.part # b.part}
                          \cup ParkedOf(done, id)
  PROVE  /\ (\A q \in done : q.batch.part # p) => Out(p)' = Out(p)
         /\ \A q \in done : q.batch.part = p =>
              /\ q \in Resending(done) => Out(p)' = {Key(Parked(q.batch, Rewrites(q), id))}
              /\ q \notin Resending(done) => Out(p)' = {}
<1>1. \A q \in done : q.batch \in PreparedBatches
  BY DEF Inv, TypeOK
<1>2. \A q \in done : Parked(q.batch, Rewrites(q), id).part = q.batch.part
  BY <1>1, ParkedFields
<1>3. Out(p)' = KeysAt(Outstanding', p)
  BY OutNext
<1>4. ASSUME \A q \in done : q.batch.part # p
      PROVE  Out(p)' = Out(p)
  <2>1. \A b \in ParkedOf(done, id) : b.part # p
    BY <1>2, <1>4 DEF ParkedOf, Resending
  <2>2. {c \in Outstanding' : c.part = p} = {c \in Outstanding : c.part = p}
    BY <1>4, <2>1
  <2> QED
    BY <1>3, <2>2 DEF KeysAt, Out
<1>5. ASSUME NEW q \in done, q.batch.part = p
      PROVE  /\ q \in Resending(done) => Out(p)' = {Key(Parked(q.batch, Rewrites(q), id))}
             /\ q \notin Resending(done) => Out(p)' = {}
  <2>1. \A d \in done : d.batch.part = p => d = q
    BY <1>5 DEF Inv, Pipeline, OneBatchPerPartition
  <2>2. {c \in Outstanding' : c.part = p} = {c \in ParkedOf(done, id) : c.part = p}
    BY <1>5
  <2>3. {c \in ParkedOf(done, id) : c.part = p} =
          IF q \in Resending(done) THEN {Parked(q.batch, Rewrites(q), id)} ELSE {}
    BY <1>2, <1>5, <2>1 DEF ParkedOf, Resending
  <2> QED
    BY <1>3, <2>2, <2>3 DEF KeysAt
<1> QED
  BY <1>4, <1>5

LEMMA LocalComplete ==
  ASSUME Hypothesis, Inv, NoneTooLarge, Sequenced, Next,
         NEW done \in SUBSET Answered, CompleteBatches(done)
  PROVE  LocalInv'
<1>1. UNCHANGED <<state, producers, log, stray>> /\ done \subseteq requests
  BY DEF CompleteBatches, lifeVars, brokerVars, Answered
<1>2. \A q \in done : Verdict(q) \in {"Acked", "Terminal", "Exhausted", "Retry", "BumpEpochAndRetry"}
  BY CompleteEffect
<1>3. PICK id \in IdentityAfter(WantsBump(done)) :
        /\ producer_id' = id.pid /\ producer_epoch' = id.epoch
        /\ Outstanding' = {b \in Outstanding : \A q \in done : q.batch.part # b.part}
                            \cup ParkedOf(done, id)
        /\ ~id.ok => next_seq' = next_seq
        /\ id.ok => \A q \in done : Rewrites(q) => next_seq'[q.batch.part] = Len(q.batch.recs)
        /\ id.ok => \A p \in Partitions :
             (\A q \in done : q.batch.part = p => ~Rewrites(q)) => next_seq'[p] = 0
  BY CompleteEffect
<1>4. LeadersTyped'
  BY <1>1 DEF Sequenced, LocalInv, LeadersTyped
<1>5. ASSUME NEW p \in Partitions
      PROVE  LocalAt(p)'
  <2>1. /\ (\A q \in done : q.batch.part # p) => Out(p)' = Out(p)
        /\ \A q \in done : q.batch.part = p =>
              /\ q \in Resending(done) => Out(p)' = {Key(Parked(q.batch, Rewrites(q), id))}
              /\ q \notin Resending(done) => Out(p)' = {}
    BY <1>1, <1>3, CompletedOut
  <2>2. CASE \A q \in done : q.batch.part # p
    BY <1>1, <1>3, <2>1, <2>2, LocalRepaired
  <2>3. ASSUME NEW q \in done, q.batch.part = p
        PROVE  LocalAt(p)'
    <3> DEFINE b == q.batch
               c == Key(Parked(b, Rewrites(q), id))
    <3>1. q \in requests /\ b \in Outstanding /\ b \in PreparedBatches
      BY <1>1 DEF Outstanding, Inv, TypeOK
    <3>2. Out(p) = {Key(b)}
      BY <2>3, <3>1, OutIs
    <3>3. \A d \in done : d.batch.part = p => d = q
      BY <1>1, <2>3 DEF Inv, Pipeline, OneBatchPerPartition
    <3>4. /\ Parked(b, Rewrites(q), id).recs = b.recs
          /\ Rewrites(q) /\ id.ok => /\ Parked(b, Rewrites(q), id).pid = id.pid
                                     /\ Parked(b, Rewrites(q), id).epoch = id.epoch
                                     /\ Parked(b, Rewrites(q), id).seq = 0
          /\ ~(Rewrites(q) /\ id.ok) => /\ Parked(b, Rewrites(q), id).pid = b.pid
                                        /\ Parked(b, Rewrites(q), id).epoch = b.epoch
                                        /\ Parked(b, Rewrites(q), id).seq = b.seq
      BY <3>1, ParkedFields
    <3>5. CASE Verdict(q) = "Acked"
      <4>1. Out(p)' = {} /\ Has(Key(b), producers[p]) /\ ~Rewrites(q)
        BY <2>1, <2>3, <3>1, <3>5, VerdictAnswer DEF Resending, Rewrites
      <4> QED
        BY <1>1, <1>3, <3>2, <3>3, <4>1, LocalRepaired
    <3>6. CASE Verdict(q) \in {"Terminal", "Exhausted"}
      <4>1. Out(p)' = {} /\ WantsBump(done) /\ ~Rewrites(q)
        BY <2>1, <2>3, <3>6 DEF Resending, Rewrites, WantsBump, Hypothesis
      <4> QED
        BY <1>1, <1>3, <3>2, <3>3, <4>1, LocalRepaired
    <3>7. CASE Verdict(q) \in {"Retry", "BumpEpochAndRetry"} /\ ~(Rewrites(q) /\ id.ok)
      <4>1. c = Key(b)
        BY <3>4, <3>7 DEF Key
      <4>2. Out(p)' = Out(p)
        BY <2>1, <2>3, <3>2, <3>7, <4>1 DEF Resending
      <4> QED
        BY <1>1, <1>3, <3>3, <3>7, <4>2, LocalRepaired
    <3>8. CASE Rewrites(q) /\ id.ok
      <4>1. Out(p)' = {c} /\ Lost(Key(b), producers[p]) /\ next_seq'[p] = Len(b.recs)
        BY <1>3, <2>1, <2>3, <3>1, <3>8, VerdictAnswer DEF Resending, Rewrites
      <4>2. Local(Live, Out(p), SentAt(p), next_seq[p], producer_id, producer_epoch,
                  producers[p], Elems(log[p]), QueuedRecords(p)')
        BY QueueFirst
      <4>3. /\ id.pid \in Pids /\ id.epoch \in 0..MaxEpoch
            /\ id.pid > producer_id \/ (id.pid = producer_id /\ id.epoch > producer_epoch)
        BY <1>3, <3>8, BumpMoves
      <4>4. /\ c.recs = Key(b).recs /\ At(c, id.pid, id.epoch) /\ c.seq = 0
            /\ c = [recs |-> b.recs, pid |-> id.pid, epoch |-> id.epoch, seq |-> 0]
        BY <3>4, <3>8 DEF Key, At
      <4>5. Key(b) \in Keys
        BY <3>2, <4>2, SentIs DEF Local, Typed
      <4>6. c \in Keys
        <5>1. b.recs \in Seq(Records) \ {<<>>}
          BY <4>5 DEF Keys, Key
        <5>2. id.epoch \in Nat
          BY <4>3, ConstantsAssumption
        <5> QED
          BY <4>3, <4>4, <5>1, <5>2 DEF Keys
      <4>7. SentAt(p)' \subseteq SentAt(p) \cup {c} /\ c \in SentAt(p)'
        BY <1>1, <4>1, SentIs, SentIsNext
      <4>8. Len(Key(b).recs) = Len(b.recs)
        BY DEF Key
      <4>9. Key(b) \in Out(p) /\ c.recs = Key(b).recs /\ At(c, id.pid, id.epoch) /\ c.seq = 0
        BY <3>2, <4>4
      <4> HIDE DEF c, b
      <4>10. Local(TRUE, {c}, SentAt(p) \cup {c}, Len(Key(b).recs), id.pid, id.epoch, producers[p],
                   Elems(log[p]), QueuedRecords(p)')
        BY <4>1, <4>2, <4>3, <4>6, <4>9, MoveRewrite
      <4>11. Local(Live', {c}, SentAt(p)', Len(Key(b).recs), id.pid, id.epoch, producers[p],
                   Elems(log[p]), QueuedRecords(p)')
        BY <4>7, <4>10, MoveShrink
      <4>12. Elems(log[p])' = Elems(log[p])
        BY <1>1 DEF Elems
      <4> QED
        BY <1>1, <1>3, <4>1, <4>8, <4>11, <4>12 DEF LocalAt
    <3> QED
      BY <1>2, <3>5, <3>6, <3>7, <3>8
  <2> QED
    BY <2>2, <2>3
<1> QED
  BY <1>4, <1>5 DEF LocalInv

LEMMA LocalFence ==
  ASSUME Inv, NoneTooLarge, Sequenced, Next, NEW done, NEW acked, Fence(done, acked)
  PROVE  LocalInv'
<1>1. /\ UNCHANGED <<next_seq, producer_id, producer_epoch, producers, log, stray>>
      /\ state' # "active"
  BY DEF Fence, brokerVars
<1>2. LeadersTyped'
  BY <1>1 DEF Sequenced, LocalInv, LeadersTyped
<1>3. Outstanding' \subseteq Outstanding
  <2>1. Outstanding' = {q.batch : q \in requests \ done}
    BY FenceOutstanding
  <2>2. {q.batch : q \in requests \ done} \subseteq Outstanding
    BY DEF Outstanding
  <2> QED
    BY <2>1, <2>2
<1>4. ASSUME NEW p \in Partitions
      PROVE  LocalAt(p)'
  <2>1. Out(p)' \subseteq Out(p) /\ SentAt(p)' \subseteq SentAt(p) /\ Elems(log[p])' = Elems(log[p])
    <3>1. Out(p)' \subseteq Out(p)
      BY <1>3, OutNext, KeysAtFacts DEF Out
    <3> QED
      BY <1>1, <3>1, SentIs, SentIsNext DEF Elems
  <2>2. ~Live'
    BY <1>1 DEF Live
  <2>3. CASE Out(p)' = Out(p)
    BY <1>1, <2>1, <2>2, <2>3, LocalKept
  <2>4. CASE Out(p)' # Out(p)
    <3>1. PICK b \in Out(p) : TRUE
      BY <2>1, <2>4
    <3>2. Out(p)' = {}
      <4>1. \A x, y \in Out(p) : x = y
        BY DEF Sequenced, LocalInv, LocalAt, Local, Typed
      <4> QED
        BY <2>1, <2>4, <4>1
    <3>3. Local(Live', {}, SentAt(p)', next_seq[p], producer_id, producer_epoch, producers[p],
                Elems(log[p]), QueuedRecords(p)')
      BY <2>1, <2>2, <3>1, QueueFirst, MoveEnd
    <3> QED
      BY <1>1, <2>1, <3>2, <3>3 DEF LocalAt
  <2> QED
    BY <2>3, <2>4
<1> QED
  BY <1>2, <1>4 DEF LocalInv

LEMMA LocalForgets ==
  ASSUME Inv, NoneTooLarge, Sequenced, Next, NEW p \in Partitions, LeaderForgets(p)
  PROVE  LocalInv'
<1>1. /\ UNCHANGED <<next_seq, producer_id, producer_epoch, log, state>>
      /\ Outstanding' = Outstanding /\ Sent' = Sent /\ Live' = Live
      /\ \A b \in Sent : b.part # p
      /\ producers' = [producers EXCEPT ![p] = [j \in Pids |-> NoProducerState]]
  BY DEF LeaderForgets, senderVars, lifeVars, Outstanding, RetryPartitions, Sent, Live, Pids
<1>2. producers \in [Partitions -> [Pids -> ProducerStates]]
  BY DEF Sequenced, LocalInv, LeadersTyped
<1>3. NoProducerState \in ProducerStates
  BY DEF NoProducerState, ProducerStates
<1>4. LeadersTyped'
  BY <1>1, <1>2, <1>3 DEF LeadersTyped
<1>5. ASSUME NEW o \in Partitions
      PROVE  LocalAt(o)'
  <2>1. Out(o)' = Out(o) /\ SentAt(o)' = SentAt(o) /\ Elems(log[o])' = Elems(log[o])
    BY <1>1 DEF Out, SentAt, Elems
  <2>2. CASE o # p
    <3>1. producers'[o] = producers[o]
      BY <1>1, <1>2, <2>2
    <3> QED
      BY <1>1, <2>1, <3>1, LocalKept
  <2>3. CASE o = p
    <3>1. SentAt(p) = {} /\ Out(p) = {}
      BY <1>1, KeysAtFacts, SentIs DEF SentAt
    <3>2. Local(Live, {}, {}, next_seq[p], producer_id, producer_epoch,
                [j \in Pids |-> NoProducerState], Elems(log[p]), QueuedRecords(p)')
      BY <3>1, QueueFirst, MoveForget
    <3>3. producers'[p] = [j \in Pids |-> NoProducerState]
      BY <1>1, <1>2
    <3> QED
      BY <1>1, <2>1, <2>3, <3>1, <3>2, <3>3 DEF LocalAt
  <2> QED
    BY <2>2, <2>3
<1> QED
  BY <1>4, <1>5 DEF LocalInv

\* What the code of the leader says about its producer state.
LEMMA CodeMeaning ==
  ASSUME NEW s \in ProducerStates, NEW b, NEW max \in Nat, b.pid \in Nat, b.epoch \in Nat, b.seq \in Nat
  PROVE  LET code == LeaderCode(s, b, max) IN
         /\ code = "NONE" => \/ b.epoch > s.epoch /\ b.seq = 0
                             \/ b.epoch = s.epoch /\ b.seq = s.expected
         /\ code = "DUPLICATE_SEQUENCE_NUMBER" => b.epoch = s.epoch /\ b.seq \in s.accepted
         /\ code = "UNKNOWN_PRODUCER_ID" => s.epoch = -1 /\ b.seq # 0
         /\ code = "OUT_OF_ORDER_SEQUENCE_NUMBER" =>
              \/ s.epoch \in 0..(b.epoch - 1) /\ b.seq # 0
              \/ b.epoch = s.epoch /\ b.seq # s.expected /\ b.seq \notin s.accepted
<1>1. s.epoch \in Int /\ s.epoch >= -1 /\ b.pid # NoProducerId
  BY DEF ProducerStates, NoProducerId
<1> DEFINE code == LeaderCode(s, b, max)
<1>2. CASE Len(b.recs) > max
  BY <1>2 DEF LeaderCode
<1>3. CASE ~(Len(b.recs) > max) /\ b.epoch < s.epoch
  BY <1>1, <1>3 DEF LeaderCode
<1>4. CASE ~(Len(b.recs) > max) /\ b.epoch > s.epoch
  <2>1. code = IF b.seq # 0 THEN (IF s.epoch = -1 THEN "UNKNOWN_PRODUCER_ID"
                                                  ELSE "OUT_OF_ORDER_SEQUENCE_NUMBER")
               ELSE "NONE"
    BY <1>1, <1>4 DEF LeaderCode
  <2>2. s.epoch # -1 => s.epoch \in 0..(b.epoch - 1)
    BY <1>1, <1>4
  <2> QED
    BY <1>4, <2>1, <2>2
<1>5. CASE ~(Len(b.recs) > max) /\ b.epoch = s.epoch
  <2>1. code = IF b.seq = s.expected THEN "NONE"
               ELSE IF b.seq \in s.accepted THEN "DUPLICATE_SEQUENCE_NUMBER"
               ELSE "OUT_OF_ORDER_SEQUENCE_NUMBER"
    BY <1>1, <1>5 DEF LeaderCode
  <2> QED
    BY <1>5, <2>1
<1> QED
  BY <1>1, <1>2, <1>3, <1>4, <1>5

LEMMA SentTyped ==
  ASSUME Inv, Sequenced, NEW b \in Sent
  PROVE  /\ b.part \in Partitions /\ Key(b) \in SentAt(b.part) /\ Key(b) \in Keys
         /\ b.pid \in Pids /\ b.pid \in Nat /\ b.epoch \in Nat /\ b.seq \in Nat
         /\ b.recs \in Seq(Records) /\ b.recs # <<>>
         /\ producers[b.part] \in [Pids -> ProducerStates]
         /\ ProducerStateFor(b) = producers[b.part][b.pid]
         /\ ProducerStateFor(b) \in ProducerStates
<1>1. b \in PreparedBatches
  BY OutstandingUnique DEF Sent, Inv, TypeOK
<1>2. b.part \in Partitions /\ b.recs \in Seq(Records)
  BY <1>1 DEF PreparedBatches
<1>3. Key(b) \in SentAt(b.part)
  BY KeysAtFacts DEF SentAt
<1>4. Key(b) \in Keys
  BY <1>2, <1>3 DEF Sequenced, LocalInv, LocalAt, Local, Typed
<1>5. b.pid \in Pids /\ b.epoch \in Nat /\ b.seq \in Nat /\ b.recs # <<>>
  BY <1>4, KeyFields DEF Keys
<1>6. b.pid \in Nat
  BY <1>5, ConstantsAssumption DEF Pids
<1>7. ProducerStateFor(b) = producers[b.part][b.pid]
  BY <1>6 DEF ProducerStateFor, NoProducerId
<1>8. producers[b.part] \in [Pids -> ProducerStates]
  BY <1>2 DEF Sequenced, LocalInv, LeadersTyped
<1> QED
  BY <1>2, <1>3, <1>4, <1>5, <1>6, <1>7, <1>8

\* A batch that was sent arrives: its leader appends it or leaves all as it is.
ArriveEffect(b) ==
  \/ UNCHANGED <<log, producers>>
  \/ /\ Takes(Key(b), producers[b.part])
     /\ log' = [log EXCEPT ![b.part] = @ \o b.recs]
     /\ producers' = [producers EXCEPT ![b.part] = Appended(Key(b), producers[b.part])]

LEMMA ArriveIs ==
  ASSUME Inv, Sequenced, NEW b \in Sent, Arrive(b)
  PROVE  ArriveEffect(b) /\ (CodeFor(b) = "NONE" => Takes(Key(b), producers[b.part])
                                                    /\ producers'[b.part] = Appended(Key(b), producers[b.part]))
<1>1. /\ b.part \in Partitions /\ b.pid \in Pids /\ b.pid \in Nat /\ b.epoch \in Nat /\ b.seq \in Nat
      /\ ProducerStateFor(b) = producers[b.part][b.pid] /\ ProducerStateFor(b) \in ProducerStates
  BY SentTyped
<1>2. BrokerMax[b.part] \in Nat /\ producers \in [Partitions -> [Pids -> ProducerStates]]
  BY <1>1, ConstantsAssumption DEF Sequenced, LocalInv, LeadersTyped
<1>3. CASE CodeFor(b) # "NONE"
  BY <1>3 DEF Arrive, ArriveEffect
<1>4. CASE CodeFor(b) = "NONE"
  <2>1. Takes(Key(b), producers[b.part])
    <3>1. \/ b.epoch > ProducerStateFor(b).epoch /\ b.seq = 0
          \/ b.epoch = ProducerStateFor(b).epoch /\ b.seq = ProducerStateFor(b).expected
      BY <1>1, <1>2, <1>4, CodeMeaning DEF CodeFor
    <3> QED
      BY <1>1, <3>1, KeyFields DEF Takes
  <2>2. StateAfterAppend(producers[b.part][b.pid], b)
          = StateAfterAppend(producers[b.part][b.pid], Key(b))
    BY KeyFields DEF StateAfterAppend
  <2>3. /\ log' = [log EXCEPT ![b.part] = @ \o b.recs]
        /\ producers' = [producers EXCEPT ![b.part][b.pid]
                                     = StateAfterAppend(producers[b.part][b.pid], b)]
    <3>1. b.pid # NoProducerId
      BY <1>1 DEF NoProducerId
    <3> QED
      BY <1>1, <1>4, <3>1 DEF Arrive
  <2>4. producers' = [producers EXCEPT ![b.part] = Appended(Key(b), producers[b.part])]
    BY <1>1, <1>2, <2>2, <2>3, KeyFields DEF Appended
  <2> QED
    BY <1>1, <1>2, <2>1, <2>3, <2>4 DEF ArriveEffect
<1> QED
  BY <1>3, <1>4

LEMMA LocalArrive ==
  ASSUME Inv, NoneTooLarge, Sequenced, Next, NEW b \in Sent, ArriveEffect(b),
         Outstanding' = Outstanding, Sent' \subseteq Sent,
         UNCHANGED <<next_seq, producer_id, producer_epoch, state>>
  PROVE  LocalInv'
<1>1. Live' = Live
  BY DEF Live
<1>2. CASE UNCHANGED <<log, producers>>
  BY <1>1, <1>2, LocalQuiet
<1>3. CASE /\ Takes(Key(b), producers[b.part])
           /\ log' = [log EXCEPT ![b.part] = @ \o b.recs]
           /\ producers' = [producers EXCEPT ![b.part] = Appended(Key(b), producers[b.part])]
  <2>1. /\ b.part \in Partitions /\ Key(b) \in SentAt(b.part) /\ Key(b) \in Keys
        /\ b.recs \in Seq(Records) /\ producers[b.part] \in [Pids -> ProducerStates]
    BY SentTyped
  <2>2. /\ producers \in [Partitions -> [Pids -> ProducerStates]]
        /\ log \in [Partitions -> Seq(Records)]
    BY DEF Sequenced, LocalInv, LeadersTyped, Inv, TypeOK
  <2>3. Appended(Key(b), producers[b.part]) \in [Pids -> ProducerStates]
    BY <1>3, <2>1, AppendedStates
  <2>4. LeadersTyped'
    BY <1>3, <2>2, <2>3 DEF LeadersTyped
  <2>5. ASSUME NEW p \in Partitions
        PROVE  LocalAt(p)'
    <3>1. Out(p)' = Out(p) /\ SentAt(p)' \subseteq SentAt(p) /\ Out(p)' \subseteq SentAt(p)'
      <4>1. Out(p)' = Out(p)
        BY DEF Out
      <4>2. SentAt(p)' \subseteq SentAt(p)
        BY DEF SentAt, KeysAt
      <4> QED
        BY <4>1, <4>2, SentIsNext
    <3>2. CASE p # b.part
      <4>1. log'[p] = log[p] /\ producers'[p] = producers[p]
        BY <1>3, <2>1, <2>2, <3>2
      <4> QED
        BY <1>1, <3>1, <4>1, LocalKept
    <3>3. CASE p = b.part
      <4>1. /\ producers'[p] = Appended(Key(b), producers[p]) /\ log'[p] = log[p] \o b.recs
            /\ log[p] \in Seq(Records)
        BY <1>3, <2>2, <3>3
      <4>2. Elems(log[p])' = Elems(log[p]) \cup Recs(Key(b))
        <5>1. Elems(log[p])' = Elems(log'[p])
          BY DEF Elems
        <5> QED
          BY <2>1, <4>1, <5>1, ElemsConcat, KeyFields DEF Recs
      <4>3. Key(b) \in SentAt(p) /\ Takes(Key(b), producers[p])
        BY <1>3, <2>1, <3>3
      <4>4. Local(Live, Out(p), SentAt(p), next_seq[p], producer_id, producer_epoch,
                  producers'[p], Elems(log[p])', QueuedRecords(p)')
        BY <4>1, <4>2, <4>3, QueueFirst, MoveAppend
      <4>5. Local(Live', Out(p), SentAt(p)', next_seq[p], producer_id, producer_epoch,
                  producers'[p], Elems(log[p])', QueuedRecords(p)')
        BY <1>1, <3>1, <4>4, MoveShrink
      <4> QED
        BY <3>1, <4>5 DEF LocalAt
    <3> QED
      BY <3>2, <3>3
  <2> QED
    BY <2>4, <2>5 DEF LocalInv
<1> QED
  BY <1>2, <1>3 DEF ArriveEffect

-----------------------------------------------------------------------------
(* What the sender learns, and where the records are.                      *)

\* A batch that was sent was sent before, perhaps at another identity, or
\* comes from the accumulator; what enters a log was sent.
SentFrom ==
  \A b \in Sent' :
    \/ \E c \in Sent : c.part = b.part /\ c.recs = b.recs
    \/ /\ b.part \in Partitions /\ Queue(b.part) # <<>>
       /\ b.recs = Head(Queue(b.part))

LogFrom ==
  \A p \in Partitions :
    Elems(log[p])' \subseteq Elems(log[p]) \cup UNION {Recs(k) : k \in SentAt(p)}

NotLearned == {"none", "MESSAGE_TOO_LARGE", "INVALID_PRODUCER_EPOCH", "RETRIABLE",
               "TERMINAL", "FATAL", "TRANSPORT"}

\* The effects of a step on the parts of Sequenced.
Orderly == LocalInv' /\ AnswersRight' /\ SentFrom /\ LogFrom

LEMMA AnswersKept ==
  ASSUME AnswersRight, producers' = producers,
         \A q \in requests' : q \in requests \/ q.answer \in NotLearned
  PROVE  AnswersRight'
BY DEF AnswersRight, NotLearned

LEMMA OrderlyQuiet ==
  ASSUME Inv, NoneTooLarge, Sequenced, [Next]_vars, Outstanding' = Outstanding, Sent' \subseteq Sent,
         UNCHANGED <<next_seq, producer_id, producer_epoch, log, producers>>, Live' => Live,
         \A q \in requests' : q \in requests \/ q.answer \in NotLearned
  PROVE  Orderly
<1>1. LocalInv'
  BY LocalQuiet
<1>2. AnswersRight'
  BY AnswersKept DEF Sequenced
<1>3. LogFrom
  BY DEF LogFrom, Elems
<1> QED
  BY <1>1, <1>2, <1>3 DEF Orderly, SentFrom

\* What the sender knows of its batches outlives an append.
LEMMA AnswersOutlive ==
  ASSUME Inv, Sequenced, NEW b \in Sent, ArriveEffect(b), NEW q \in requests
  PROVE  /\ q.answer \in {"NONE", "DUPLICATE_SEQUENCE_NUMBER"} =>
              Has(Key(q.batch), producers'[q.batch.part])
         /\ q.answer = "UNKNOWN_PRODUCER_ID" => Lost(Key(q.batch), producers'[q.batch.part])
         /\ q.answer # "OUT_OF_ORDER_SEQUENCE_NUMBER"
<1> DEFINE p == q.batch.part
<1>1. /\ q.answer \in {"NONE", "DUPLICATE_SEQUENCE_NUMBER"} => Has(Key(q.batch), producers[p])
      /\ q.answer = "UNKNOWN_PRODUCER_ID" => Lost(Key(q.batch), producers[p])
      /\ q.answer # "OUT_OF_ORDER_SEQUENCE_NUMBER"
  BY DEF Sequenced, AnswersRight
<1>2. CASE producers'[p] = producers[p]
  BY <1>1, <1>2
<1>3. CASE producers'[p] # producers[p]
  <2>1. producers \in [Partitions -> [Pids -> ProducerStates]] /\ b.part \in Partitions
    BY SentTyped DEF Sequenced, LocalInv, LeadersTyped
  <2>2. q.batch \in Outstanding
    BY DEF Outstanding
  <2>3. p \in Partitions /\ Key(q.batch) \in Out(p)
    BY <2>2, OutIs
  <2>4. /\ p = b.part /\ Takes(Key(b), producers[p])
        /\ producers'[p] = Appended(Key(b), producers[p])
    BY <1>3, <2>1, <2>3 DEF ArriveEffect
  <2>5. Key(b) \in SentAt(p)
    BY <2>4, SentTyped
  <2>6. LocalAt(p)
    BY <2>3 DEF Sequenced, LocalInv
  <2> HIDE DEF p
  <2>7. /\ Has(Key(q.batch), producers[p]) => Has(Key(q.batch), Appended(Key(b), producers[p]))
        /\ Lost(Key(q.batch), producers[p]) => Lost(Key(q.batch), Appended(Key(b), producers[p]))
    BY <2>3, <2>4, <2>5, <2>6, KnownStays DEF LocalAt
  <2> QED
    BY <1>1, <2>4, <2>7 DEF p
<1> QED
  BY <1>2, <1>3

\* The answer to an outstanding batch.
LEMMA AnswerMeans ==
  ASSUME Inv, Sequenced, NEW b \in Outstanding, Arrive(b)
  PROVE  /\ CodeFor(b) \in {"NONE", "DUPLICATE_SEQUENCE_NUMBER"} => Has(Key(b), producers'[b.part])
         /\ CodeFor(b) = "UNKNOWN_PRODUCER_ID" => Lost(Key(b), producers'[b.part])
         /\ CodeFor(b) # "OUT_OF_ORDER_SEQUENCE_NUMBER"
<1> DEFINE p == b.part
           s == producers[p][b.pid]
<1>1. b \in Sent /\ p \in Partitions /\ Out(p) = {Key(b)}
  BY OutIs DEF Sent
<1>2. /\ b.pid \in Nat /\ b.epoch \in Nat /\ b.seq \in Nat
      /\ ProducerStateFor(b) = s /\ s \in ProducerStates /\ BrokerMax[p] \in Nat
      /\ Key(b) \in SentAt(p)
  BY <1>1, SentTyped, ConstantsAssumption
<1>3. CodeFor(b) = LeaderCode(s, b, BrokerMax[p])
  BY <1>2 DEF CodeFor
<1>4. LocalAt(p)
  BY <1>1 DEF Sequenced, LocalInv
<1>5. CASE CodeFor(b) = "NONE"
  <2>1. Takes(Key(b), producers[p]) /\ producers'[p] = Appended(Key(b), producers[p])
    BY <1>1, <1>5, ArriveIs
  <2>2. Key(b) \in Out(p)
    BY <1>1
  <2> HIDE DEF p
  <2>3. Has(Key(b), Appended(Key(b), producers[p]))
    BY <1>2, <1>4, <2>1, <2>2, KnownStays DEF LocalAt
  <2> QED
    BY <1>5, <2>1, <2>3 DEF p
<1>6. CASE CodeFor(b) # "NONE"
  <2>1. producers' = producers
    BY <1>6 DEF Arrive
  <2>2. CodeFor(b) = "DUPLICATE_SEQUENCE_NUMBER" => b.epoch = s.epoch /\ b.seq \in s.accepted
    BY <1>2, <1>3, CodeMeaning
  <2>3. CodeFor(b) = "UNKNOWN_PRODUCER_ID" => s.epoch = -1 /\ b.seq # 0
    BY <1>2, <1>3, CodeMeaning
  <2>4. CodeFor(b) # "OUT_OF_ORDER_SEQUENCE_NUMBER"
    <3>1. s.epoch \in 0..(b.epoch - 1) => b.seq = 0
      BY <1>1, <1>4, KeyFields DEF LocalAt, Local, Fresh
    <3>2. s.epoch = b.epoch => b.seq = s.expected \/ b.seq \in s.accepted
      BY <1>1, <1>4, KeyFields DEF LocalAt, Local, Expects
    <3> QED
      BY <1>2, <1>3, <3>1, <3>2, CodeMeaning
  <2> QED
    BY <1>6, <2>1, <2>2, <2>3, <2>4, KeyFields DEF Has, Lost
<1> QED
  BY <1>5, <1>6

LEMMA OrderlyArrive ==
  ASSUME Inv, NoneTooLarge, Sequenced, Next, NEW b \in Sent, Arrive(b),
         Outstanding' = Outstanding, Sent' \subseteq Sent,
         UNCHANGED <<next_seq, producer_id, producer_epoch, state>>,
         \A q \in requests' : \/ q \in requests \/ q.answer \in NotLearned
                              \/ b \in Outstanding /\ q.batch = b /\ q.answer = CodeFor(b)
  PROVE  Orderly
<1>1. ArriveEffect(b)
  BY ArriveIs
<1>2. LocalInv'
  BY <1>1, LocalArrive
<1>3. AnswersRight'
  <2> SUFFICES ASSUME NEW q \in requests'
               PROVE  /\ q.answer \in {"NONE", "DUPLICATE_SEQUENCE_NUMBER"} =>
                           Has(Key(q.batch), producers'[q.batch.part])
                      /\ q.answer = "UNKNOWN_PRODUCER_ID" =>
                           Lost(Key(q.batch), producers'[q.batch.part])
                      /\ q.answer # "OUT_OF_ORDER_SEQUENCE_NUMBER"
    BY DEF AnswersRight, Has, Lost, Key
  <2>1. CASE q \in requests
    BY <1>1, <2>1, AnswersOutlive
  <2>2. CASE q.answer \in NotLearned
    BY <2>2 DEF NotLearned
  <2>3. CASE b \in Outstanding /\ q.batch = b /\ q.answer = CodeFor(b)
    BY <2>3, AnswerMeans
  <2> QED
    BY <2>1, <2>2, <2>3
<1>4. LogFrom
  <2> SUFFICES ASSUME NEW p \in Partitions
               PROVE  Elems(log[p])' \subseteq Elems(log[p]) \cup UNION {Recs(k) : k \in SentAt(p)}
    BY DEF LogFrom
  <2>1. Elems(log[p])' = Elems(log'[p])
    BY DEF Elems
  <2>2. CASE log'[p] = log[p]
    BY <2>1, <2>2
  <2>3. CASE log'[p] # log[p]
    <3>1. log \in [Partitions -> Seq(Records)] /\ b.part \in Partitions
      BY SentTyped DEF Inv, TypeOK
    <3>2. p = b.part /\ log'[p] = log[p] \o b.recs
      BY <1>1, <2>3, <3>1 DEF ArriveEffect
    <3>3. Key(b) \in SentAt(p) /\ Recs(Key(b)) = Elems(b.recs) /\ b.recs \in Seq(Records)
      BY <3>2, SentTyped, KeyFields DEF Recs
    <3>4. Elems(log[p] \o b.recs) = Elems(log[p]) \cup Elems(b.recs)
      BY <3>1, <3>3, ElemsConcat
    <3> QED
      BY <2>1, <3>2, <3>3, <3>4
  <2> QED
    BY <2>2, <2>3
<1> QED
  BY <1>2, <1>3, <1>4 DEF Orderly, SentFrom

LEMMA OrderlyNetwork ==
  ASSUME Inv, NoneTooLarge, Sequenced, Network
  PROVE  Orderly
<1>1. Next
  BY DEF Next
<1>2. ASSUME NEW q \in requests, NEW code, requests' = Answer(q, code), retry' = retry
      PROVE  /\ q.batch \in Outstanding /\ q.batch \in Sent /\ Outstanding' = Outstanding
             /\ \A d \in requests' : d \in requests \/ (d.batch = q.batch /\ d.answer = code)
  <2>1. Outstanding' = Outstanding
    BY <1>2, AnswerOutstanding
  <2>2. [q EXCEPT !.answer = code].batch = q.batch /\ [q EXCEPT !.answer = code].answer = code
    BY DEF Inv, TypeOK
  <2> QED
    BY <1>2, <2>1, <2>2 DEF Answer, Outstanding, Sent
<1>3. ASSUME NEW q \in requests, LeaderAnswers(q)
      PROVE  Orderly
  <2>1. /\ requests' = Answer(q, CodeFor(q.batch)) /\ Arrive(q.batch) /\ stray' = stray
        /\ UNCHANGED <<retry, next_seq, producer_id, producer_epoch, state>>
    BY <1>3 DEF LeaderAnswers, lifeVars
  <2>2. /\ q.batch \in Outstanding /\ q.batch \in Sent /\ Outstanding' = Outstanding
        /\ \A d \in requests' : d \in requests \/ (d.batch = q.batch /\ d.answer = CodeFor(q.batch))
    BY <1>2, <2>1
  <2>3. Sent' = Sent
    BY <2>1, <2>2 DEF Sent
  <2> QED
    BY <1>1, <2>1, <2>2, <2>3, OrderlyArrive
<1>4. ASSUME NEW q \in requests, LeaderAppendsAndFails(q)
      PROVE  Orderly
  <2>1. /\ requests' = Answer(q, "RETRIABLE") /\ Arrive(q.batch) /\ stray' = stray
        /\ UNCHANGED <<retry, next_seq, producer_id, producer_epoch, state>>
    BY <1>4 DEF LeaderAppendsAndFails, lifeVars
  <2>2. /\ q.batch \in Sent /\ Outstanding' = Outstanding
        /\ \A d \in requests' : d \in requests \/ d.answer \in NotLearned
    BY <1>2, <2>1 DEF NotLearned
  <2>3. Sent' = Sent
    BY <2>1, <2>2 DEF Sent
  <2> QED
    BY <1>1, <2>1, <2>2, <2>3, OrderlyArrive
<1>5. ASSUME NEW q \in requests, \/ TransportFails(q)
                                 \/ \E code \in FaultCodes : LeaderRefuses(q, code)
      PROVE  Orderly
  <2>1. PICK code \in NotLearned : requests' = Answer(q, code)
    BY <1>5, ConstantsAssumption DEF TransportFails, LeaderRefuses, NotLearned
  <2>2. /\ stray' = stray \/ stray' = stray \cup {q.batch}
        /\ UNCHANGED <<log, producers, retry, next_seq, producer_id, producer_epoch, state>>
    BY <1>5 DEF TransportFails, LeaderRefuses, lifeVars
  <2>3. /\ q.batch \in Outstanding /\ Outstanding' = Outstanding
        /\ \A d \in requests' : d \in requests \/ d.answer \in NotLearned
    BY <1>2, <2>1, <2>2
  <2>4. Sent' = Sent /\ Live' = Live
    BY <2>2, <2>3 DEF Sent, Live
  <2> QED
    BY <1>1, <2>2, <2>3, <2>4, OrderlyQuiet
<1>6. ASSUME NEW b \in stray, StrayArrives(b)
      PROVE  Orderly
  <2>1. /\ Arrive(b) /\ stray' = stray \ {b}
        /\ UNCHANGED <<requests, retry, next_seq, producer_id, producer_epoch, state>>
    BY <1>6 DEF StrayArrives, senderVars, lifeVars
  <2>2. Outstanding' = Outstanding
    BY <2>1 DEF Outstanding, RetryPartitions
  <2>3. b \in Sent /\ Sent' \subseteq Sent
    BY <2>1, <2>2 DEF Sent
  <2> QED
    BY <1>1, <2>1, <2>2, <2>3, OrderlyArrive
<1>7. ASSUME NEW p \in Partitions, LeaderForgets(p)
      PROVE  Orderly
  <2>1. LocalInv'
    BY <1>1, <1>7, LocalForgets
  <2>2. /\ UNCHANGED <<requests, retry, log, stray>>
        /\ \A b \in Outstanding : b.part # p
        /\ producers' = [producers EXCEPT ![p] = [i \in 0..MaxProducerId |-> NoProducerState]]
    BY <1>7 DEF LeaderForgets, senderVars
  <2>3. Sent' = Sent
    BY <2>2 DEF Sent, Outstanding, RetryPartitions
  <2>4. AnswersRight'
    <3>1. producers \in [Partitions -> [Pids -> ProducerStates]]
      BY DEF Sequenced, LocalInv, LeadersTyped
    <3>2. \A q \in requests : q.batch.part \in Partitions /\ q.batch.part # p
      BY <2>2 DEF Outstanding, Inv, TypeOK, PreparedBatches
    <3>3. \A q \in requests : producers'[q.batch.part] = producers[q.batch.part]
      BY <2>2, <3>1, <3>2
    <3> QED
      BY <2>2, <3>3 DEF Sequenced, AnswersRight
  <2>5. LogFrom
    BY <2>2 DEF LogFrom, Elems
  <2> QED
    BY <2>1, <2>3, <2>4, <2>5 DEF Orderly, SentFrom
<1> QED
  BY <1>3, <1>4, <1>5, <1>6, <1>7 DEF Network

LEMMA OrderlyApplication ==
  ASSUME Inv, NoneTooLarge, Sequenced, Application \/ UNCHANGED vars
  PROVE  Orderly
<1>1. UNCHANGED <<senderVars, brokerVars>> /\ (state' = state \/ state' = "closed")
  BY DEF Application, EnqueueSeal, EnqueueLock, EnqueueAppend, FlushStart, FlushLoad, FlushWake,
         FlushTimeout, FlushScan, Close, DropProducer, senderVars, brokerVars, lifeVars, vars
<1>2. /\ UNCHANGED <<requests, retry, next_seq, producer_id, producer_epoch, log, producers, stray>>
      /\ Live' => Live
  BY <1>1 DEF senderVars, brokerVars, Live
<1>3. Outstanding' = Outstanding /\ Sent' = Sent
  BY <1>2 DEF Outstanding, RetryPartitions, Sent
<1>4. [Next]_vars
  BY DEF Next
<1> QED
  BY <1>2, <1>3, <1>4, OrderlyQuiet

LEMMA OrderlySender ==
  ASSUME Hypothesis, Inv, NoneTooLarge, Sequenced, Sender
  PROVE  Orderly
<1>1. Next
  BY DEF Next
<1>2. ASSUME log' = log PROVE LogFrom
  BY <1>2 DEF LogFrom, Elems
<1>3. CASE AllocateProducerId
  <2>1. UNCHANGED <<requests, retry, log, producers, stray>>
    BY <1>3 DEF AllocateProducerId, brokerVars
  <2>2. Sent' = Sent
    BY <2>1 DEF Sent, Outstanding, RetryPartitions
  <2>3. LocalInv' /\ AnswersRight'
    BY <1>1, <1>3, <2>1, LocalAllocate, AnswersKept DEF Sequenced
  <2> QED
    BY <1>2, <2>1, <2>2, <2>3 DEF Orderly, SentFrom
<1>4. ASSUME NEW p \in Partitions, DrainBatch(p)
      PROVE  Orderly
  <2>1. UNCHANGED <<log, producers, stray>> /\ Queue(p) # <<>>
    BY <1>4 DEF DrainBatch, brokerVars
  <2>2. LocalInv'
    BY <1>1, <1>4, LocalDrain
  <2>3. requests' = requests \cup {[batch |-> PrepareBatch(p, Head(Queue(p))), answer |-> "none"]}
    BY <1>4, DrainQueue DEF Inv
  <2>4. AnswersRight'
    BY <2>1, <2>3, AnswersKept DEF Sequenced, NotLearned
  <2>5. Outstanding' = Outstanding \cup {PrepareBatch(p, Head(Queue(p)))}
    BY <1>4, DrainOutstanding
  <2>6. SentFrom
    BY <2>1, <2>5 DEF SentFrom, Sent, PrepareBatch
  <2> QED
    BY <1>2, <2>1, <2>2, <2>4, <2>6 DEF Orderly
<1>5. ASSUME NEW p \in Partitions, Resend(p)
      PROVE  Orderly
  <2>1. /\ UNCHANGED <<log, producers, stray, next_seq, producer_id, producer_epoch, state>>
        /\ requests' = requests \cup {[batch |-> Resent(p), answer |-> "none"]}
    BY <1>5 DEF Resend, brokerVars, lifeVars
  <2>2. Outstanding' = Outstanding
    BY <1>5, ResendOutstanding
  <2>3. Sent' = Sent /\ Live' = Live
    BY <2>1, <2>2 DEF Sent, Live
  <2>4. \A q \in requests' : q \in requests \/ q.answer \in NotLearned
    BY <2>1 DEF NotLearned
  <2> QED
    BY <1>1, <2>1, <2>2, <2>3, <2>4, OrderlyQuiet
<1>6. ASSUME \/ FailExpired \/ \E p \in Partitions : TakeExpired(p)
             \/ \E p \in sweep : FenceAccumulator(p)
             \/ SenderExit
      PROVE  Orderly
  <2>1. UNCHANGED <<requests, retry, log, producers, stray, next_seq, producer_id, producer_epoch, state>>
    BY <1>6 DEF TakeExpired, FailExpired, FenceAccumulator, SenderExit, senderVars, brokerVars, lifeVars
  <2>2. Outstanding' = Outstanding /\ Sent' = Sent /\ Live' = Live
    BY <2>1 DEF Outstanding, RetryPartitions, Sent, Live
  <2> QED
    BY <1>1, <2>1, <2>2, OrderlyQuiet
<1>7. ASSUME NEW expired \in SUBSET RetryPartitions, ExpireBatches(expired)
      PROVE  Orderly
  <2>1. UNCHANGED <<requests, log, producers, stray>>
    BY <1>7 DEF ExpireBatches, brokerVars
  <2>2. Outstanding' \subseteq Outstanding
    BY <1>7, ExpireOutstanding
  <2>3. LocalInv' /\ AnswersRight'
    BY <1>1, <1>7, <2>1, LocalExpire, AnswersKept DEF Sequenced
  <2>4. SentFrom
    BY <2>1, <2>2 DEF SentFrom, Sent
  <2> QED
    BY <1>2, <2>1, <2>3, <2>4 DEF Orderly
<1>8. ASSUME NEW done \in SUBSET Answered, CompleteBatches(done)
      PROVE  Orderly
  <2>1. UNCHANGED <<log, producers, stray>>
    BY <1>8 DEF CompleteBatches, brokerVars
  <2>2. done \subseteq requests /\ requests' = requests \ done
    BY <1>8, CompleteEffect
  <2>3. PICK id \in IdentityAfter(WantsBump(done)) :
          Outstanding' = {b \in Outstanding : \A q \in done : q.batch.part # b.part}
                           \cup ParkedOf(done, id)
    BY <1>8, CompleteEffect
  <2>4. LocalInv' /\ AnswersRight'
    BY <1>1, <1>8, <2>1, <2>2, LocalComplete, AnswersKept DEF Sequenced
  <2>5. \A b \in ParkedOf(done, id) : \E c \in Sent : c.part = b.part /\ c.recs = b.recs
    <3> SUFFICES ASSUME NEW q \in done
                 PROVE  LET b == Parked(q.batch, Rewrites(q), id)
                        IN  \E c \in Sent : c.part = b.part /\ c.recs = b.recs
      BY DEF ParkedOf, Resending
    <3>1. q.batch \in PreparedBatches /\ q.batch \in Sent
      BY <2>2 DEF Inv, TypeOK, Sent, Outstanding
    <3> QED
      BY <3>1, ParkedFields
  <2>6. SentFrom
    BY <2>1, <2>3, <2>5 DEF SentFrom, Sent
  <2> QED
    BY <1>2, <2>1, <2>4, <2>6 DEF Orderly
<1>9. ASSUME NEW done, NEW acked, Fence(done, acked)
      PROVE  Orderly
  <2>1. UNCHANGED <<log, producers, stray>> /\ requests' = requests \ done
    BY <1>9 DEF Fence, brokerVars
  <2>2. Outstanding' \subseteq Outstanding
    <3>1. Outstanding' = {q.batch : q \in requests \ done}
      BY <1>9, FenceOutstanding
    <3>2. {q.batch : q \in requests \ done} \subseteq Outstanding
      BY DEF Outstanding
    <3> QED
      BY <3>1, <3>2
  <2>3. LocalInv' /\ AnswersRight'
    BY <1>1, <1>9, <2>1, LocalFence, AnswersKept DEF Sequenced
  <2>4. SentFrom
    BY <2>1, <2>2 DEF SentFrom, Sent
  <2> QED
    BY <1>2, <2>1, <2>3, <2>4 DEF Orderly
<1> QED
  BY <1>3, <1>4, <1>5, <1>6, <1>7, <1>8, <1>9 DEF Sender, CompleteFatal, DrainFence

\* The records of a partition stay there, and send adds the next one.
LEMMA HeldStep ==
  ASSUME Inv, NoneTooLarge, Sequenced, [Next]_vars, SentFrom, LogFrom, NEW p \in Partitions
  PROVE  /\ EnqueueAppend(p) => Held(p)' \subseteq Held(p) \cup {appended + 1}
         /\ ~EnqueueAppend(p) => Held(p)' \subseteq Held(p)
<1>1. ASSUME NEW k \in SentAt(p)'
      PROVE  Recs(k) \subseteq Held(p)
  <2>1. PICK b \in Sent' : b.part = p /\ k = Key(b)
    BY DEF SentAt, KeysAt, Key
  <2>2. Recs(k) = Elems(b.recs)
    BY <2>1, KeyFields DEF Recs
  <2>3. CASE \E c \in Sent : c.part = b.part /\ c.recs = b.recs
    <3>1. PICK c \in Sent : c.part = p /\ c.recs = b.recs
      BY <2>1, <2>3
    <3>2. Key(c) \in SentAt(p) /\ Recs(Key(c)) = Elems(b.recs)
      BY <3>1, KeysAtFacts, KeyFields DEF SentAt, Recs
    <3> QED
      BY <2>2, <3>2 DEF Held
  <2>4. CASE Queue(b.part) # <<>> /\ b.recs = Head(Queue(b.part))
    <3>1. Elems(Head(Queue(p))) \subseteq QueuedRecords(p)
      BY <2>1, <2>4, QueueType, QueuedIsIn, RecordsInPopped DEF Inv
    <3> QED
      BY <2>1, <2>2, <2>4, <3>1 DEF Held
  <2> QED
    BY <2>3, <2>4 DEF SentFrom
<1>2. Elems(log[p])' \subseteq Held(p)
  BY DEF LogFrom, Held
<1>3. Held(p)' = (UNION {Recs(k) : k \in SentAt(p)'}) \cup Elems(log[p])' \cup QueuedRecords(p)'
  BY DEF Held, Recs, Elems
<1>4. EnqueueAppend(p) => QueuedRecords(p)' = QueuedRecords(p) \cup {appended + 1}
  BY AppendQueued
<1>5. ~EnqueueAppend(p) => QueuedRecords(p)' \subseteq QueuedRecords(p)
  BY QueueMoves, QueueMoveKeeps DEF Sequenced, QueuesInOrder
<1>6. QueuedRecords(p) \subseteq Held(p)
  BY DEF Held
<1> QED
  BY <1>1, <1>2, <1>3, <1>4, <1>5, <1>6

LEMMA AppendedStep ==
  ASSUME Inv, [Next]_vars
  PROVE  /\ \/ appended' = appended /\ \A p \in Partitions : ~EnqueueAppend(p)
            \/ \E p \in Partitions : EnqueueAppend(p) /\ appended' = appended + 1
         /\ \A p, o \in Partitions : EnqueueAppend(p) /\ EnqueueAppend(o) => p = o
<1>1. appended \in Nat
  BY ConstantsAssumption DEF Inv, TypeOK
<1>2. \A p \in Partitions : EnqueueAppend(p) => appended' = appended + 1 /\ appended' # appended
  BY <1>1 DEF EnqueueAppend
<1>3. (\E p \in Partitions : EnqueueAppend(p)) \/ appended' = appended
  <2>1. ASSUME Application PROVE (\E p \in Partitions : EnqueueAppend(p)) \/ appended' = appended
    BY <2>1 DEF Application, EnqueueSeal, EnqueueLock, FlushStart, FlushLoad, FlushWake,
                FlushTimeout, FlushScan, Close, DropProducer, accVars
  <2>2. ASSUME Sender PROVE appended' = appended
    BY <2>2 DEF Sender, AllocateProducerId, DrainBatch, Resend, TakeExpired, FailExpired, ExpireBatches,
                CompleteBatches, CompleteFatal, Fence, DrainFence, FenceAccumulator, SenderExit, accVars
  <2>3. ASSUME Network PROVE appended' = appended
    BY <2>3 DEF Network, LeaderAnswers, LeaderAppendsAndFails, LeaderRefuses, TransportFails,
                StrayArrives, LeaderForgets, accVars
  <2>4. ASSUME UNCHANGED vars PROVE appended' = appended
    BY <2>4 DEF vars, accVars
  <2> QED
    BY <2>1, <2>2, <2>3, <2>4 DEF Next, Terminated
<1>4. \A p, o \in Partitions : EnqueueAppend(p) /\ EnqueueAppend(o) => p = o
  BY DEF EnqueueAppend
<1> QED
  BY <1>2, <1>3, <1>4

LEMMA PlacedStep ==
  ASSUME Inv, NoneTooLarge, Sequenced, [Next]_vars, SentFrom, LogFrom
  PROVE  Placed'
<1>1. /\ appended \in Nat /\ \A p \in Partitions : Held(p) \subseteq 1..appended
      /\ \A p, o \in Partitions : p # o => Held(p) \cap Held(o) = {}
  BY ConstantsAssumption DEF Sequenced, Placed, Inv, TypeOK
<1>2. CASE appended' = appended /\ \A p \in Partitions : ~EnqueueAppend(p)
  <2>1. \A p \in Partitions : Held(p)' \subseteq Held(p)
    BY <1>2, HeldStep
  <2> QED
    BY <1>1, <1>2, <2>1 DEF Placed
<1>3. ASSUME NEW p \in Partitions, EnqueueAppend(p), appended' = appended + 1
      PROVE  Placed'
  <2>1. /\ Held(p)' \subseteq Held(p) \cup {appended + 1}
        /\ \A o \in Partitions : o # p => Held(o)' \subseteq Held(o)
    BY <1>3, HeldStep, AppendedStep
  <2>2. appended + 1 \notin 1..appended /\ 1..(appended + 1) = 1..appended \cup {appended + 1}
    BY <1>1
  <2>3. \A o \in Partitions : Held(o)' \subseteq 1..appended'
    BY <1>1, <1>3, <2>1, <2>2
  <2>4. \A o, x \in Partitions : o # x => Held(o)' \cap Held(x)' = {}
    BY <1>1, <2>1, <2>2
  <2> QED
    BY <2>3, <2>4 DEF Placed
<1> QED
  BY <1>2, <1>3, AppendedStep

LEMMA SequencedInit ==
  ASSUME Hypothesis, Init
  PROVE  Sequenced
<1>1. /\ requests = {} /\ stray = {} /\ \A p \in Partitions : retry[p] = NoBatch
      /\ producer_id = 0 /\ producer_epoch = 0 /\ appended = 0
      /\ producers = [p \in Partitions |-> [j \in Pids |-> NoProducerState]]
  BY DEF Init, Hypothesis, Pids
<1>2. Outstanding = {} /\ Sent = {}
  BY <1>1 DEF Sent, Outstanding, RetryPartitions
<1>3. ASSUME NEW p \in Partitions
      PROVE  /\ Queue(p) = <<>> /\ QueuedRecords(p) = {} /\ Elems(log[p]) = {}
             /\ Out(p) = {} /\ SentAt(p) = {} /\ next_seq[p] = 0
  <2>1. Queue(p) = <<>> /\ log[p] = <<>> /\ next_seq[p] = 0
    BY DEF Init, Queue
  <2>2. Elems(<<>>) = {} /\ QueuedRecords(p) = {}
    BY <2>1 DEF Elems, QueuedRecords
  <2> QED
    BY <1>2, <2>1, <2>2, KeysAtFacts DEF Out, SentAt
<1>4. NoProducerState \in ProducerStates
  BY DEF NoProducerState, ProducerStates
<1>5. LeadersTyped
  BY <1>1, <1>4 DEF LeadersTyped
<1>6. ASSUME NEW p \in Partitions
      PROVE  LocalAt(p)
  <2> DEFINE L == [j \in Pids |-> NoProducerState]
  <2>1. producers[p] = L /\ \A j \in Pids : L[j].epoch = -1 /\ L[j].accepted = {} /\ L[j].expected = 0
    BY <1>1 DEF NoProducerState
  <2>2. 0 \in Pids /\ 0 \in 0..MaxEpoch
    BY ConstantsAssumption DEF Pids
  <2>3. L \in [Pids -> ProducerStates]
    BY <1>4
  <2> HIDE DEF L
  <2>4. Typed({}, {}, 0, 0, 0, L)
    BY <2>1, <2>2, <2>3 DEF Typed
  <2>5. Behind(L, 0, 0) /\ ReadyToSend({}, {}, 0, 0, 0, L)
    BY <2>1, <2>2 DEF Behind, ReadyToSend
  <2>6. Local(Live, {}, {}, 0, 0, 0, L, {}, {})
    BY <2>4, <2>5 DEF Local, Apart, Units, Bounded, Latest, NextIs, Unsent, Fresh, Expects,
                      NoRevival, LoggedRefused, OldRefused, LostUnlogged
  <2> QED
    BY <1>1, <1>3, <2>1, <2>6 DEF LocalAt
<1>7. AnswersRight
  BY <1>1 DEF AnswersRight
<1>8. QueuesInOrder
  BY <1>3 DEF QueuesInOrder, InOrder
<1>9. Placed
  BY <1>3 DEF Placed, Held
<1> QED
  BY <1>5, <1>6, <1>7, <1>8, <1>9 DEF Sequenced, LocalInv

LEMMA SequencedStep ==
  Hypothesis /\ Inv /\ Unsplit /\ Sequenced /\ [Next]_vars => Sequenced'
<1> SUFFICES ASSUME Hypothesis, Inv, Unsplit, Sequenced, [Next]_vars
             PROVE  Sequenced'
  OBVIOUS
<1>1. NoneTooLarge
  BY DEF Unsplit
<1>2. Orderly
  BY <1>1, OrderlyApplication, OrderlySender, OrderlyNetwork DEF Next, Terminated
<1>3. Placed'
  BY <1>1, <1>2, PlacedStep DEF Orderly
<1>4. QueuesInOrder'
  <2>1. ASSUME NEW p \in Partitions
        PROVE  InOrder(Queue(p))'
    <3>1. InOrder(Queue(p)) /\ QueuedRecords(p) \subseteq 1..appended
      BY DEF Sequenced, QueuesInOrder, Placed, Held
    <3> QED
      BY <1>1, <3>1, QueueMoves, QueueMoveKeeps, QueueAppendKeeps
  <2> QED
    BY <2>1 DEF QueuesInOrder
<1> QED
  BY <1>2, <1>3, <1>4 DEF Sequenced, Orderly

LEMMA SequencedNames ==
  ASSUME Inv, Sequenced
  PROVE  SequenceNamesRecords
<1> SUFFICES ASSUME NEW b \in Sent, NEW c \in Sent,
                    b.part = c.part, b.pid = c.pid, b.epoch = c.epoch
             PROVE  \/ b.seq = c.seq /\ b.recs = c.recs
                    \/ /\ SequenceSpan(b) \cap SequenceSpan(c) = {}
                       /\ Elems(b.recs) \cap Elems(c.recs) = {}
  BY DEF SequenceNamesRecords
<1>1. /\ b.part \in Partitions /\ Key(b) \in SentAt(b.part) /\ Key(c) \in SentAt(b.part)
      /\ b.seq \in Nat /\ c.seq \in Nat /\ Len(b.recs) \in Nat /\ Len(c.recs) \in Nat
  BY SentTyped, LenProperties
<1>2. Apart(SentAt(b.part))
  BY <1>1 DEF Sequenced, LocalInv, LocalAt, Local
<1>3. \/ Key(b) = Key(c)
      \/ /\ End(Key(b)) <= Key(c).seq \/ End(Key(c)) <= Key(b).seq
         /\ ~Shares(Key(b), Key(c))
  BY <1>1, <1>2, KeyFields DEF Apart, At
<1>4. CASE Key(b) = Key(c)
  <2>1. b.seq = c.seq /\ b.recs = c.recs
    BY <1>4, KeyFields
  <2> QED
    BY <2>1
<1>5. CASE /\ End(Key(b)) <= Key(c).seq \/ End(Key(c)) <= Key(b).seq
           /\ ~Shares(Key(b), Key(c))
  <2>1. b.seq + Len(b.recs) <= c.seq \/ c.seq + Len(c.recs) <= b.seq
    BY <1>5, KeyFields DEF End
  <2>2. Elems(b.recs) \cap Elems(c.recs) = {}
    BY <1>5, KeyFields DEF Shares, Recs
  <2> QED
    BY <1>1, <2>1, <2>2 DEF SequenceSpan
<1> QED
  BY <1>3, <1>4, <1>5

LEMMA SequencedFresh ==
  ASSUME Inv, Sequenced
  PROVE  FreshEpochStartsAtZero
<1> SUFFICES ASSUME NEW b \in Outstanding, producers[b.part][b.pid].epoch \in 0..(b.epoch - 1)
             PROVE  b.seq = 0
  BY DEF FreshEpochStartsAtZero
<1>1. Key(b) \in Out(b.part) /\ b.part \in Partitions
  BY OutIs
<1>2. Fresh(Out(b.part), producers[b.part])
  BY <1>1 DEF Sequenced, LocalInv, LocalAt, Local
<1> QED
  BY <1>1, <1>2, KeyFields DEF Fresh

LEMMA SequencedAlways == Hypothesis => (Spec => [](Inv /\ Unsplit /\ Sequenced))
<1> SUFFICES ASSUME Hypothesis PROVE Spec => [](Inv /\ Unsplit /\ Sequenced)
  OBVIOUS
<1>1. Init => Sequenced
  BY SequencedInit
<1>2. Inv /\ Unsplit /\ Sequenced /\ [Next]_vars => Sequenced'
  BY SequencedStep
<1>3. Spec => []Unsplit
  BY UnsplitAlways DEF Hypothesis
<1> QED
  BY <1>1, <1>2, <1>3, Invariance, PTL DEF Spec

\* At one identity a sequence names the same records in every copy of a batch
\* that can still arrive, and a record keeps its sequence: prepare_batch stamps
\* a batch once, a resend keeps its bytes, and CycleVerdicts::apply rewrites a
\* batch only to a new identity.  For all constants without refusals for size.
THEOREM SequenceAlwaysNamesRecords == NoSplit => (Spec => []SequenceNamesRecords)
<1>1. CASE Mode = "Idempotent"
  <2>1. Inv /\ Unsplit /\ Sequenced => SequenceNamesRecords
    BY SequencedNames
  <2> QED
    BY <1>1, <2>1, SequencedAlways, PTL DEF Hypothesis
<1>2. CASE Mode # "Idempotent"
  <2>1. SequenceNamesRecords
    BY <1>2 DEF SequenceNamesRecords
  <2> QED
    BY <2>1, PTL
<1> QED
  BY <1>1, <1>2

\* The first batch of a new epoch at a partition starts at sequence 0, however
\* bump_idempotent_epoch, the resends and the requests that were given up
\* interleave.  For all constants without refusals for size.
THEOREM FreshEpochAlwaysStartsAtZero == NoSplit => (Spec => []FreshEpochStartsAtZero)
<1>1. CASE Mode = "Idempotent"
  <2>1. Inv /\ Unsplit /\ Sequenced => FreshEpochStartsAtZero
    BY SequencedFresh
  <2> QED
    BY <1>1, <2>1, SequencedAlways, PTL DEF Hypothesis
<1>2. CASE Mode # "Idempotent"
  <2>1. FreshEpochStartsAtZero
    BY <1>2 DEF FreshEpochStartsAtZero
  <2> QED
    BY <2>1, PTL
<1> QED
  BY <1>1, <1>2

-----------------------------------------------------------------------------
(* Delivery: the delivery handles and the logs.                            *)

\* A record is unresolved while it is outstanding or in an accumulator, an
\* acked record is in a log, in front of all that is still to come, and a batch
\* comes before the ones of the accumulator.
Outcomes ==
  /\ \A r \in Records : outcome[r] = "none" <=> r > appended
  /\ \A b \in Outstanding : \A r \in Elems(b.recs) : outcome[r] = "pending"
  /\ \A p \in Partitions : \A r \in QueuedRecords(p) : outcome[r] = "pending"
  /\ \A r \in Records : outcome[r] = "acked" => \E p \in Partitions : r \in Elems(log[p])
  /\ \A p \in Partitions : \A x \in Elems(log[p]) : outcome[x] = "acked" =>
       /\ \A y \in QueuedRecords(p) : x < y
       /\ \A b \in Outstanding : b.part = p => \A y \in Elems(b.recs) : x < y
  /\ \A b \in Outstanding : \A x \in Elems(b.recs), y \in QueuedRecords(b.part) : x < y
  /\ \A b \in Sent : Sorted(b.recs)

\* A record is in one place.
LEMMA RecordsApart ==
  ASSUME Inv, Sequenced
  PROVE  /\ \A b \in Sent : /\ b.part \in Partitions /\ Elems(b.recs) \subseteq 1..appended
                            /\ \A o \in Partitions : o # b.part =>
                                 /\ Elems(b.recs) \cap Elems(log[o]) = {}
                                 /\ Elems(b.recs) \cap QueuedRecords(o) = {}
                            /\ Elems(b.recs) \cap QueuedRecords(b.part) = {}
         /\ \A b, c \in Outstanding : b # c => Elems(b.recs) \cap Elems(c.recs) = {}
         /\ \A b, c \in Sent : b.part # c.part => Elems(b.recs) \cap Elems(c.recs) = {}
         /\ \A p \in Partitions : /\ QueuedRecords(p) \subseteq 1..appended
                                  /\ Elems(log[p]) \subseteq 1..appended
                                  /\ Elems(log[p]) \cap QueuedRecords(p) = {}
         /\ \A p, o \in Partitions : p # o =>
              /\ QueuedRecords(p) \cap QueuedRecords(o) = {}
              /\ Elems(log[p]) \cap QueuedRecords(o) = {}
              /\ Elems(log[p]) \cap Elems(log[o]) = {}
         /\ 1..appended \subseteq Records
<1>1. \A p \in Partitions : /\ Held(p) \subseteq 1..appended
                            /\ QueuedRecords(p) \subseteq Held(p) /\ Elems(log[p]) \subseteq Held(p)
  BY DEF Sequenced, Placed, Held
<1>2. \A p, o \in Partitions : p # o => Held(p) \cap Held(o) = {}
  BY DEF Sequenced, Placed
<1>3. ASSUME NEW b \in Sent
      PROVE  /\ b.part \in Partitions /\ Elems(b.recs) \subseteq Held(b.part)
             /\ Elems(b.recs) \cap QueuedRecords(b.part) = {}
  <2>1. b.part \in Partitions /\ Key(b) \in SentAt(b.part)
    BY SentTyped
  <2>2. Recs(Key(b)) = Elems(b.recs)
    BY KeyFields DEF Recs
  <2>3. Unsent(SentAt(b.part), Elems(log[b.part]), QueuedRecords(b.part))
    BY <2>1 DEF Sequenced, LocalInv, LocalAt, Local
  <2> QED
    BY <2>1, <2>2, <2>3 DEF Held, Unsent
<1>4. ASSUME NEW b \in Outstanding, NEW c \in Outstanding, b # c
      PROVE  Elems(b.recs) \cap Elems(c.recs) = {}
  <2>1. b.part # c.part /\ b \in Sent /\ c \in Sent
    BY <1>4, OutstandingUnique DEF Sent
  <2> QED
    BY <1>2, <1>3, <2>1
<1>5. 1..appended \subseteq Records
  BY AcceptedAreRecords DEF Inv
<1>6. ASSUME NEW b \in Sent
      PROVE  /\ b.part \in Partitions /\ Elems(b.recs) \subseteq 1..appended
             /\ \A o \in Partitions : o # b.part =>
                  /\ Elems(b.recs) \cap Elems(log[o]) = {}
                  /\ Elems(b.recs) \cap QueuedRecords(o) = {}
             /\ Elems(b.recs) \cap QueuedRecords(b.part) = {}
  BY <1>1, <1>2, <1>3
<1>7. \A p, o \in Partitions : p # o =>
              /\ QueuedRecords(p) \cap QueuedRecords(o) = {}
              /\ Elems(log[p]) \cap QueuedRecords(o) = {}
              /\ Elems(log[p]) \cap Elems(log[o]) = {}
  BY <1>1, <1>2
<1>8. ASSUME NEW p \in Partitions
      PROVE  /\ QueuedRecords(p) \subseteq 1..appended /\ Elems(log[p]) \subseteq 1..appended
             /\ Elems(log[p]) \cap QueuedRecords(p) = {}
  BY <1>1 DEF Sequenced, LocalInv, LocalAt, Local, Unsent
<1>9. \A b, c \in Sent : b.part # c.part => Elems(b.recs) \cap Elems(c.recs) = {}
  BY <1>2, <1>3
<1> QED
  BY <1>4, <1>5, <1>6, <1>7, <1>8, <1>9

LEMMA SortedStep ==
  ASSUME Inv, Sequenced, SentFrom, \A b \in Sent : Sorted(b.recs)
  PROVE  \A b \in Sent' : Sorted(b.recs)
<1> TAKE b \in Sent'
<1>1. CASE \E c \in Sent : c.part = b.part /\ c.recs = b.recs
  BY <1>1
<1>2. CASE b.part \in Partitions /\ Queue(b.part) # <<>> /\ b.recs = Head(Queue(b.part))
  <2>1. Queue(b.part) \in Seq(Seq(Records)) /\ InOrder(Queue(b.part))
    BY <1>2, QueueType DEF Inv, Sequenced, QueuesInOrder
  <2> QED
    BY <1>2, <2>1, InOrderPopped
<1> QED
  BY <1>1, <1>2 DEF SentFrom

\* The records of the logs, as Delivery names them.
LEMMA LoggedIs == Contract!Logged = UNION {Elems(log[p]) : p \in Partitions}
BY DEF Contract!Logged, Elems

\* A record that is unresolved and in no outstanding batch.
Loose(r) == /\ r \in Records /\ outcome[r] = "pending"
            /\ \A b \in Outstanding : r \notin Elems(b.recs)

\* The delivery handles of the batches in A resolve with success, and those of
\* the batches in F and of the loose records W with a failure;
\* the batches of A are in the logs, and what stays is neither in A, F nor W.
Settling(A, F, W) ==
  /\ A \subseteq Outstanding /\ F \subseteq Outstanding /\ A \cap F = {}
  /\ \A r \in W : Loose(r)
  /\ outcome' = [r \in Records |-> IF r \in RecordsOf(A) THEN "acked"
                                   ELSE IF r \in RecordsOf(F) \cup W THEN "failed"
                                   ELSE outcome[r]]
  /\ \A b \in A : Elems(b.recs) \subseteq Elems(log[b.part])
  /\ \A b \in Outstanding' : \E c \in Outstanding : /\ c \notin A /\ c \notin F
                                                     /\ c.part = b.part /\ c.recs = b.recs
  /\ \A p \in Partitions : QueuedRecords(p)' \subseteq QueuedRecords(p) \ W

LEMMA Settles ==
  ASSUME Inv, Sequenced, Outcomes, SentFrom, log' = log, appended' = appended,
         NEW A, NEW F, NEW W, Settling(A, F, W)
  PROVE  Outcomes' /\ Contract!Next
<1> USE DEF Settling
<1> DEFINE ok == RecordsOf(A)
           bad == RecordsOf(F) \cup W
<1>1. /\ \A r : r \in ok <=> \E b \in A : r \in Elems(b.recs)
      /\ \A r : r \in bad <=> r \in W \/ \E b \in F : r \in Elems(b.recs)
  BY DEF RecordsOf
<1>2. \A r \in Records : outcome'[r] = IF r \in ok THEN "acked"
                                       ELSE IF r \in bad THEN "failed" ELSE outcome[r]
  OBVIOUS
<1>3. /\ \A b \in Sent : b.part \in Partitions /\ Elems(b.recs) \subseteq Records
      /\ \A b \in Outstanding : b \in Sent
      /\ \A b, c \in Outstanding : b # c => Elems(b.recs) \cap Elems(c.recs) = {}
      /\ \A b \in Outstanding : \A p \in Partitions : Elems(b.recs) \cap QueuedRecords(p) = {}
      /\ \A p \in Partitions : QueuedRecords(p) \subseteq Records /\ Elems(log[p]) \subseteq Records
  BY RecordsApart DEF Sent
<1>4. /\ \A r \in Records : outcome[r] = "none" <=> r > appended
      /\ \A b \in Outstanding : \A r \in Elems(b.recs) : outcome[r] = "pending"
      /\ \A p \in Partitions : \A r \in QueuedRecords(p) : outcome[r] = "pending"
      /\ \A r \in Records : outcome[r] = "acked" => \E p \in Partitions : r \in Elems(log[p])
  BY DEF Outcomes
<1>5. ok \subseteq Records /\ bad \subseteq Records /\ \A r \in ok \cup bad : outcome[r] = "pending"
  BY <1>1, <1>3, <1>4 DEF Loose
<1>6. ok \cap bad = {}
  BY <1>1, <1>3 DEF Loose
<1> HIDE DEF ok, bad
<1>7. ASSUME NEW c \in Outstanding, c \notin A, c \notin F, NEW r \in Elems(c.recs)
      PROVE  r \in Records /\ outcome'[r] = outcome[r] /\ outcome'[r] = "pending"
  <2>1. r \notin ok /\ r \notin bad /\ r \in Records
    BY <1>1, <1>3, <1>7 DEF Loose
  <2> QED
    BY <1>2, <1>4, <2>1
<1>8. ASSUME NEW p \in Partitions, NEW r \in QueuedRecords(p)'
      PROVE  r \in QueuedRecords(p) /\ outcome'[r] = "pending"
  <2>1. r \in QueuedRecords(p) /\ r \notin W
    OBVIOUS
  <2>2. r \notin ok /\ r \notin bad /\ r \in Records
    BY <1>1, <1>3, <2>1
  <2> QED
    BY <1>2, <1>4, <2>1, <2>2
<1>9. Contract!Next
  <2>1. ok \subseteq Contract!Logged
    BY <1>1, <1>3, LoggedIs
  <2>2. outcome' = [r \in Records |-> IF r \in ok THEN "acked"
                                      ELSE IF r \in bad THEN "failed" ELSE outcome[r]]
    BY DEF ok, bad
  <2>3. Contract!Resolve(ok, bad)
    BY <1>5, <1>6, <2>1, <2>2 DEF Contract!Resolve
  <2> QED
    BY <1>5, <2>3 DEF Contract!Next
<1>10. \A r \in Records : outcome'[r] = "none" <=> r > appended'
  BY <1>2, <1>4, <1>5
<1>11. \A b \in Outstanding' : \A r \in Elems(b.recs) : outcome'[r] = "pending"
  BY <1>7
<1>12. \A p \in Partitions : \A r \in QueuedRecords(p)' : outcome'[r] = "pending"
  BY <1>8
<1>13. \A p \in Partitions : Elems(log[p])' = Elems(log[p])
  BY DEF Elems
<1>14. \A r \in Records : outcome'[r] = "acked" => \E p \in Partitions : r \in Elems(log[p])'
  BY <1>1, <1>2, <1>3, <1>4, <1>13
<1>15. ASSUME NEW p \in Partitions, NEW x \in Elems(log[p]), outcome'[x] = "acked"
       PROVE  /\ \A y \in QueuedRecords(p)' : x < y
              /\ \A b \in Outstanding' : b.part = p => \A y \in Elems(b.recs) : x < y
  <2>1. CASE outcome[x] = "acked"
    <3>1. /\ \A y \in QueuedRecords(p) : x < y
          /\ \A b \in Outstanding : b.part = p => \A y \in Elems(b.recs) : x < y
      BY <2>1 DEF Outcomes
    <3> QED
      BY <1>8, <3>1
  <2>2. CASE outcome[x] # "acked"
    <3>1. x \in ok
      BY <1>2, <1>3, <1>15, <2>2
    <3>2. PICK b \in A : x \in Elems(b.recs)
      BY <1>1, <3>1
    <3>3. b.part = p
      BY <1>3, <3>2, RecordsApart
    <3>4. \A y \in QueuedRecords(p) : x < y
      BY <3>2, <3>3 DEF Outcomes
    <3>5. \A c \in Outstanding' : c.part # p
      BY <3>2, <3>3, OutstandingUnique
    <3> QED
      BY <1>8, <3>4, <3>5
  <2> QED
    BY <2>1, <2>2
<1>16. \A b \in Outstanding' : \A x \in Elems(b.recs), y \in QueuedRecords(b.part)' : x < y
  <2> TAKE b \in Outstanding'
  <2>1. PICK c \in Outstanding : c.part = b.part /\ c.recs = b.recs
    OBVIOUS
  <2>2. b.part \in Partitions
    BY <1>3, <2>1
  <2>3. \A x \in Elems(c.recs), y \in QueuedRecords(c.part) : x < y
    BY DEF Outcomes
  <2> QED
    BY <1>8, <2>1, <2>2, <2>3
<1>17. \A b \in Sent' : Sorted(b.recs)
  BY SortedStep DEF Outcomes
<1>18. Outcomes'
  BY <1>10, <1>11, <1>12, <1>13, <1>14, <1>15, <1>16, <1>17 DEF Outcomes
<1> QED
  BY <1>9, <1>18

LEMMA DeliveryQuiet ==
  ASSUME Inv, Sequenced, Outcomes, SentFrom, UNCHANGED <<log, appended, outcome>>,
         Outstanding' = Outstanding,
         \A p \in Partitions : QueuedRecords(p)' \subseteq QueuedRecords(p)
  PROVE  Outcomes'
<1>1. RecordsOf({}) = {}
  BY DEF RecordsOf
<1>2. outcome' = [r \in Records |-> IF r \in RecordsOf({}) THEN "acked"
                                    ELSE IF r \in RecordsOf({}) \cup {} THEN "failed"
                                    ELSE outcome[r]]
  BY <1>1 DEF Inv, TypeOK
<1>3. /\ {} \subseteq Outstanding /\ {} \cap {} = {}
      /\ \A r \in {} : Loose(r)
      /\ \A b \in {} : Elems(b.recs) \subseteq Elems(log[b.part])
  OBVIOUS
<1>4. \A b \in Outstanding' : \E c \in Outstanding : /\ c \notin {} /\ c \notin {}
                                                       /\ c.part = b.part /\ c.recs = b.recs
  OBVIOUS
<1>5. \A p \in Partitions : QueuedRecords(p)' \subseteq QueuedRecords(p) \ {}
  OBVIOUS
<1>6. Settling({}, {}, {})
  BY <1>2, <1>3, <1>4, <1>5 DEF Settling
<1> QED
  BY <1>6, Settles

\* A record in the hands of an expiry is unresolved and nowhere else.
TakenApart ==
  \A r \in TakenRecords : /\ r \in 1..appended /\ outcome[r] = "pending"
                           /\ \A p \in Partitions : r \notin Held(p)

LEMMA HeldSent ==
  ASSUME Inv, Sequenced
  PROVE  \A b \in Sent : b.part \in Partitions /\ Elems(b.recs) \subseteq Held(b.part)
<1> TAKE b \in Sent
<1>1. b.part \in Partitions /\ Key(b) \in SentAt(b.part)
  BY SentTyped
<1>2. Recs(Key(b)) = Elems(b.recs)
  BY KeyFields DEF Recs
<1> QED
  BY <1>1, <1>2 DEF Held

\* The oldest batch of an accumulator moves to the hands of an expiry.
LEMMA TakenByExpiry ==
  ASSUME Inv, Sequenced, Outcomes, TakenApart, NEW p \in Partitions, TakeExpired(p),
         \A o \in Partitions : Held(o)' \subseteq Held(o)
  PROVE  TakenApart'
<1> DEFINE W == Elems(Head(Queue(p)))
<1>1. /\ UNCHANGED <<log, outcome, appended, requests, retry, stray>> /\ Queue(p) # <<>>
      /\ TakenRecords' = TakenRecords \cup W
  BY DEF TakeExpired, TakenRecords, senderVars, brokerVars
<1>2. Queue(p) \in Seq(Seq(Records)) /\ InOrder(Queue(p)) /\ Queue(p)' = Tail(Queue(p))
  BY <1>1, QueueType, ExpireQueue DEF Inv, Sequenced, QueuesInOrder
<1>3. W \subseteq QueuedRecords(p) /\ QueuedRecords(p)' = RecordsIn(Tail(Queue(p)))
  <2>1. QueuedRecords(p)' = RecordsIn(Queue(p)')
    BY DEF QueuedRecords, RecordsIn
  <2> QED
    BY <1>1, <1>2, <2>1, RecordsInPopped, QueuedIsIn
<1>4. W \subseteq 1..appended /\ \A r \in W : outcome[r] = "pending"
  BY <1>3, RecordsApart DEF Outcomes
<1>5. QueuedRecords(p)' \cap W = {}
  <2>1. \A x \in W, y \in RecordsIn(Tail(Queue(p))) : x < y
    BY <1>1, <1>2, InOrderPopped
  <2>2. \A x \in W : ~(x < x)
    BY <1>4
  <2> QED
    BY <1>3, <2>1, <2>2
<1> HIDE DEF W
<1>6. \A o \in Partitions : o # p => W \cap Held(o) = {}
  BY <1>3 DEF Sequenced, Placed, Held
<1>7. W \cap Held(p)' = {}
  <2>1. Sent' = Sent
    BY <1>1 DEF Sent, Outstanding, RetryPartitions
  <2>2. SentAt(p)' = SentAt(p) /\ Elems(log[p])' = Elems(log[p])
    BY <1>1, <2>1 DEF SentAt, KeysAt, Elems
  <2>3. Held(p)' = (UNION {Recs(k) : k \in SentAt(p)}) \cup Elems(log[p]) \cup QueuedRecords(p)'
    BY <2>2 DEF Held, Recs, Elems
  <2>4. Unsent(SentAt(p), Elems(log[p]), QueuedRecords(p))
    BY DEF Sequenced, LocalInv, LocalAt, Local
  <2> QED
    BY <1>3, <1>5, <2>3, <2>4 DEF Unsent
<1> QED
  BY <1>1, <1>4, <1>6, <1>7 DEF TakenApart

LEMMA TakenStep ==
  ASSUME Inv, NoneTooLarge, Sequenced, Outcomes, TakenApart, [Next]_vars, SentFrom, LogFrom
  PROVE  TakenApart'
<1>1. appended \in Nat /\ 1..appended \subseteq Records
  BY RecordsApart, ConstantsAssumption DEF Inv, TypeOK
<1>2. ASSUME taken' = taken, \A r \in TakenRecords : outcome'[r] = outcome[r]
      PROVE  TakenApart'
  <2>1. TakenRecords' = TakenRecords
    BY <1>2 DEF TakenRecords
  <2>2. \A p \in Partitions : Held(p)' \subseteq Held(p) \cup {appended + 1}
    BY HeldStep
  <2>3. \A r \in 1..appended : r \in 1..appended' /\ r # appended + 1
    BY <1>1, AppendedStep
  <2> QED
    BY <1>2, <2>1, <2>2, <2>3 DEF TakenApart
<1>3. ASSUME NEW p \in Partitions, EnqueueAppend(p)
      PROVE  TakenApart'
  <2>1. taken' = taken /\ outcome' = [outcome EXCEPT ![appended + 1] = "pending"]
    BY <1>3 DEF EnqueueAppend
  <2>2. \A r \in TakenRecords : outcome'[r] = outcome[r]
    BY <1>1, <2>1 DEF TakenApart, Inv, TypeOK
  <2> QED
    BY <1>2, <2>1, <2>2
<1>4. ASSUME NEW p \in Partitions, TakeExpired(p)
      PROVE  TakenApart'
  <2>1. \A o \in Partitions : ~EnqueueAppend(o)
    BY <1>1, <1>4 DEF TakeExpired, EnqueueAppend
  <2> QED
    BY <1>4, <2>1, HeldStep, TakenByExpiry
<1>5. CASE FailExpired
  BY <1>5 DEF FailExpired, TakenRecords, TakenApart
<1>6. ASSUME SenderRuns, taken' = taken
      PROVE  TakenApart'
  BY <1>2, <1>6 DEF SenderRuns, TakenRecords
<1>7. ASSUME NEW p \in sweep, FenceAccumulator(p)
      PROVE  TakenApart'
  <2>1. p \in Partitions /\ taken' = taken
    BY <1>7 DEF Inv, TypeOK, FenceAccumulator
  <2>2. \A r \in TakenRecords : r \in Records /\ r \notin QueuedRecords(p)
    BY <1>1, <2>1 DEF TakenApart, Held
  <2>3. \A r \in TakenRecords : outcome'[r] = outcome[r]
    BY <1>7, <2>2 DEF FenceAccumulator, Resolve
  <2> QED
    BY <1>2, <2>1, <2>3
<1>8. CASE Application
  <2>1. CASE \E p \in Partitions : EnqueueAppend(p)
    BY <1>3, <2>1
  <2>2. CASE \A p \in Partitions : ~EnqueueAppend(p)
    <3>1. taken' = taken /\ outcome' = outcome
      BY <1>8, <2>2 DEF Application, EnqueueSeal, EnqueueLock, FlushStart, FlushLoad, FlushWake,
                        FlushTimeout, FlushScan, Close, DropProducer, accVars
    <3> QED
      BY <1>2, <3>1
  <2> QED
    BY <2>1, <2>2
<1>9. CASE Sender
  <2>1. CASE \E p \in Partitions : TakeExpired(p)
    BY <1>4, <2>1
  <2>2. CASE FailExpired
    BY <1>5, <2>2
  <2>3. CASE \E p \in sweep : FenceAccumulator(p)
    BY <1>7, <2>3
  <2>4. CASE \/ AllocateProducerId \/ DrainFence \/ SenderExit
             \/ \E p \in Partitions : DrainBatch(p) \/ Resend(p)
             \/ \E expired \in SUBSET RetryPartitions : ExpireBatches(expired)
             \/ \E done \in SUBSET Answered : CompleteBatches(done) \/ CompleteFatal(done)
    <3>1. SenderRuns
      BY <2>4 DEF AllocateProducerId, DrainBatch, Resend, ExpireBatches, CompleteBatches,
                  CompleteFatal, DrainFence, SenderExit
    <3>2. taken' = taken
      BY <2>4 DEF AllocateProducerId, DrainBatch, Resend, ExpireBatches, CompleteBatches,
                  CompleteFatal, DrainFence, Fence, SenderExit, accVars
    <3> QED
      BY <1>6, <3>1, <3>2
  <2> QED
    BY <1>9, <2>1, <2>2, <2>3, <2>4 DEF Sender
<1>10. CASE Network \/ UNCHANGED vars
  <2>1. taken' = taken /\ outcome' = outcome
    BY <1>10 DEF Network, LeaderAnswers, LeaderAppendsAndFails, LeaderRefuses, TransportFails,
                 StrayArrives, LeaderForgets, accVars, vars
  <2> QED
    BY <1>2, <2>1
<1> QED
  BY <1>8, <1>9, <1>10 DEF Next, Terminated

\* The batches in the hands of an expiry fail.
LEMMA DeliveryFail ==
  ASSUME Inv, Sequenced, Outcomes, TakenApart, SentFrom, FailExpired
  PROVE  Outcomes' /\ Contract!Next
<1>1. UNCHANGED <<log, appended, requests, retry, current, ready>>
  BY DEF FailExpired, senderVars, brokerVars
<1>2. Outstanding' = Outstanding
  BY <1>1 DEF Outstanding, RetryPartitions
<1>3. \A r \in TakenRecords : Loose(r)
  BY HeldSent, RecordsApart DEF TakenApart, Loose, Sent
<1>4. \A p \in Partitions : QueuedRecords(p)' \subseteq QueuedRecords(p) \ TakenRecords
  <2>1. \A p \in Partitions : QueuedRecords(p)' = QueuedRecords(p)
    BY <1>1, QueueUnchanged DEF QueuedRecords
  <2> QED
    BY <2>1 DEF TakenApart, Held
<1>5. RecordsOf({}) = {}
  BY DEF RecordsOf
<1>6. outcome' = [r \in Records |-> IF r \in RecordsOf({}) THEN "acked"
                                    ELSE IF r \in RecordsOf({}) \cup TakenRecords THEN "failed"
                                    ELSE outcome[r]]
  BY <1>5 DEF FailExpired, Resolve
<1>7. \A b \in Outstanding' : \E c \in Outstanding : c \notin {} /\ c \notin {} /\ c.part = b.part /\ c.recs = b.recs
  BY <1>2
<1>8. /\ {} \subseteq Outstanding /\ {} \cap {} = {}
      /\ \A b \in {} : Elems(b.recs) \subseteq Elems(log[b.part])
  OBVIOUS
<1>9. Settling({}, {}, TakenRecords)
  BY <1>3, <1>4, <1>6, <1>7, <1>8 DEF Settling
<1> QED
  BY <1>1, <1>9, Settles

\* send accepts a record.
LEMMA DeliveryAccept ==
  ASSUME Inv, Sequenced, Outcomes, SentFrom, NEW p \in Partitions, EnqueueAppend(p),
         \A o \in Partitions : o # p => QueuedRecords(o)' \subseteq QueuedRecords(o)
  PROVE  Outcomes' /\ Contract!Next
<1> DEFINE r == appended + 1
<1>1. /\ r \in Records /\ appended \in Nat /\ QueuedRecords(p)' = QueuedRecords(p) \cup {r}
      /\ appended' = r /\ outcome' = [outcome EXCEPT ![r] = "pending"] /\ log' = log
      /\ outcome \in [Records -> {"none", "pending", "acked", "failed"}]
  BY AppendQueued, ConstantsAssumption DEF EnqueueAppend, brokerVars, Inv, TypeOK
<1>2. Outstanding' = Outstanding
  BY DEF EnqueueAppend, senderVars, Outstanding, RetryPartitions
<1>3. /\ \A x \in Records : outcome[x] = "none" <=> x > appended
      /\ Records \subseteq Nat
  BY DEF Outcomes, Records
<1>4. /\ \A x \in 1..appended : x # r /\ x < r /\ x \in Records
      /\ \A x \in Records : x # r => outcome'[x] = outcome[x]
      /\ outcome'[r] = "pending"
  BY <1>1, AcceptedAreRecords DEF Inv
<1>5. /\ \A b \in Sent : b.part \in Partitions /\ Elems(b.recs) \subseteq 1..appended
      /\ \A b \in Outstanding : b \in Sent
      /\ \A o \in Partitions : QueuedRecords(o) \subseteq 1..appended /\ Elems(log[o]) \subseteq 1..appended
  BY RecordsApart DEF Sent
<1>6. Contract!Next
  <2>1. outcome[r] = "none"
    BY <1>1, <1>3
  <2>2. \A s \in Records : s < r => outcome[s] # "none"
    BY <1>1, <1>3
  <2>3. Contract!Accept(r)
    BY <1>1, <2>1, <2>2 DEF Contract!Accept
  <2> QED
    BY <1>1, <2>3 DEF Contract!Next
<1> HIDE DEF r
<1>7. \A x \in Records : outcome'[x] = "none" <=> x > appended'
  <2>1. \A x \in Records : x # r => (x > r <=> x > appended)
    BY <1>1, <1>3 DEF r
  <2> QED
    BY <1>1, <1>3, <1>4, <2>1
<1>8. \A b \in Outstanding' : \A x \in Elems(b.recs) : outcome'[x] = "pending"
  BY <1>2, <1>4, <1>5 DEF Outcomes
<1>9. \A o \in Partitions : \A x \in QueuedRecords(o)' : outcome'[x] = "pending"
  BY <1>1, <1>4, <1>5 DEF Outcomes
<1>10. \A o \in Partitions : Elems(log[o])' = Elems(log[o])
  BY <1>1 DEF Elems
<1>11. \A x \in Records : outcome'[x] = "acked" => \E o \in Partitions : x \in Elems(log[o])'
  BY <1>4, <1>10 DEF Outcomes
<1>12. \A o \in Partitions : \A x \in Elems(log[o])' : outcome'[x] = "acked" =>
         /\ \A y \in QueuedRecords(o)' : x < y
         /\ \A b \in Outstanding' : b.part = o => \A y \in Elems(b.recs) : x < y
  BY <1>1, <1>2, <1>4, <1>5, <1>10 DEF Outcomes
<1>13. \A b \in Outstanding' : \A x \in Elems(b.recs), y \in QueuedRecords(b.part)' : x < y
  BY <1>1, <1>2, <1>4, <1>5 DEF Outcomes
<1>14. \A b \in Sent' : Sorted(b.recs)
  BY SortedStep DEF Outcomes
<1>15. Outcomes'
  BY <1>7, <1>8, <1>9, <1>11, <1>12, <1>13, <1>14 DEF Outcomes
<1> QED
  BY <1>6, <1>15

\* The oldest batch of an accumulator becomes outstanding.
LEMMA DeliveryDrain ==
  ASSUME Inv, Sequenced, Outcomes, SentFrom, NEW p \in Partitions, DrainBatch(p),
         \A o \in Partitions : QueuedRecords(o)' \subseteq QueuedRecords(o)
  PROVE  Outcomes' /\ UNCHANGED <<log, outcome>>
<1> DEFINE b == PrepareBatch(p, Head(Queue(p)))
<1>1. UNCHANGED <<log, outcome, appended>> /\ Queue(p) # <<>>
  BY DEF DrainBatch, brokerVars
<1>2. Outstanding' = Outstanding \cup {b}
  BY DrainOutstanding
<1>3. Queue(p) \in Seq(Seq(Records)) /\ InOrder(Queue(p)) /\ Queue(p)' = Tail(Queue(p))
  BY QueueType, DrainQueue DEF Inv, Sequenced, QueuesInOrder
<1>4. /\ QueuedRecords(p) = Elems(Head(Queue(p))) \cup RecordsIn(Tail(Queue(p)))
      /\ QueuedRecords(p)' = RecordsIn(Tail(Queue(p)))
  <2>1. QueuedRecords(p)' = RecordsIn(Queue(p)')
    BY DEF QueuedRecords, RecordsIn
  <2> QED
    BY <1>1, <1>3, <2>1, RecordsInPopped, QueuedIsIn
<1>5. \A x \in Elems(Head(Queue(p))), y \in RecordsIn(Tail(Queue(p))) : x < y
  BY <1>1, <1>3, InOrderPopped
<1>6. b.part = p /\ Elems(b.recs) \subseteq QueuedRecords(p) /\ b.recs = Head(Queue(p))
  BY <1>4 DEF PrepareBatch
<1> HIDE DEF b
<1>7. \A c \in Outstanding : c.part \in Partitions
  BY RecordsApart DEF Sent
<1>8. \A c \in Outstanding' : \A x \in Elems(c.recs) : outcome'[x] = "pending"
  BY <1>1, <1>2, <1>6 DEF Outcomes
<1>9. \A o \in Partitions : \A x \in QueuedRecords(o)' : outcome'[x] = "pending"
  BY <1>1 DEF Outcomes
<1>10. \A o \in Partitions : Elems(log[o])' = Elems(log[o])
  BY <1>1 DEF Elems
<1>11. \A o \in Partitions : \A x \in Elems(log[o])' : outcome'[x] = "acked" =>
         /\ \A y \in QueuedRecords(o)' : x < y
         /\ \A c \in Outstanding' : c.part = o => \A y \in Elems(c.recs) : x < y
  BY <1>1, <1>2, <1>6, <1>10 DEF Outcomes
<1>12. \A c \in Outstanding' : \A x \in Elems(c.recs), y \in QueuedRecords(c.part)' : x < y
  BY <1>2, <1>4, <1>5, <1>6, <1>7 DEF Outcomes
<1>13. \A c \in Sent' : Sorted(c.recs)
  BY SortedStep DEF Outcomes
<1>14. /\ \A x \in Records : outcome'[x] = "none" <=> x > appended'
       /\ \A x \in Records : outcome'[x] = "acked" => \E o \in Partitions : x \in Elems(log[o])'
  BY <1>1, <1>10 DEF Outcomes
<1>15. Outcomes'
  BY <1>8, <1>9, <1>11, <1>12, <1>13, <1>14 DEF Outcomes
<1> QED
  BY <1>1, <1>15

LEMMA SuffixOfConcat ==
  ASSUME NEW S, NEW s \in Seq(S), NEW t \in Seq(S)
  PROVE  SubSeq(s \o t, Len(s) + 1, Len(s \o t)) = t
<1> DEFINE m == Len(s) + 1
           n == Len(s) + Len(t)
           u == SubSeq(s \o t, m, n)
<1>1. /\ s \o t \in Seq(S) /\ Len(s \o t) = n /\ Len(s) \in Nat /\ Len(t) \in Nat
      /\ \A i \in 1..n : (s \o t)[i] = IF i <= Len(s) THEN s[i] ELSE t[i - Len(s)]
  BY ConcatProperties, LenProperties
<1>2. m \in Int /\ n \in Int /\ \A i \in m..n : (s \o t)[i] \in S
  <2>1. \A i \in m..n : i \in 1..Len(s \o t)
    BY <1>1
  <2> QED
    BY <1>1, <2>1, ElementOfSeq
<1>3. /\ u \in Seq(S) /\ Len(u) = IF m <= n THEN n - m + 1 ELSE 0
      /\ \A i \in 1..(n - m + 1) : u[i] = (s \o t)[m + i - 1]
  BY <1>2, SubSeqProperties
<1>4. Len(u) = Len(t)
  BY <1>1, <1>3
<1>5. ASSUME NEW i \in 1..Len(t)
      PROVE  u[i] = t[i]
  <2>1. i \in 1..(n - m + 1) /\ m + i - 1 \in 1..n /\ ~(m + i - 1 <= Len(s)) /\ m + i - 1 - Len(s) = i
    BY <1>1
  <2> QED
    BY <1>1, <1>3, <2>1
<1>6. u = t
  BY <1>3, <1>4, <1>5, SeqEqual
<1> QED
  BY <1>1, <1>6

\* A batch that a leader takes has records that are in no log, and those that
\* did not fail come behind the ones of the log that did not fail.
LEMMA WriteInOrder ==
  ASSUME Inv, Sequenced, Outcomes, TakenApart, NoneLost, NEW b \in Sent, Takes(Key(b), producers[b.part])
  PROVE  /\ \A y \in Elems(b.recs) : \A o \in Partitions : y \notin Elems(log[o])
         /\ \A y \in Elems(b.recs) : y \in Records /\ outcome[y] \notin {"none", "acked"}
         /\ \A x \in Elems(log[b.part]), y \in Elems(b.recs) :
              outcome[x] # "failed" /\ outcome[y] # "failed" => x < y
<1> DEFINE p == b.part
<1>1. /\ p \in Partitions /\ Key(b) \in SentAt(p) /\ Recs(Key(b)) = Elems(b.recs)
  BY SentTyped, KeyFields DEF Recs
<1>2. LocalAt(p)
  BY <1>1 DEF Sequenced, LocalInv
<1> HIDE DEF p
<1>3. Takes(Key(b), producers[p])
  BY DEF p
<1>4. Elems(b.recs) \cap Elems(log[p]) = {}
  <2>1. Key(b) \in SentAt(p) /\ Takes(Key(b), producers[p])
    BY <1>1, <1>3
  <2>2. Local(Live, Out(p), SentAt(p), next_seq[p], producer_id, producer_epoch, producers[p],
              Elems(log[p]), QueuedRecords(p))
    BY <1>2 DEF LocalAt
  <2>3. Recs(Key(b)) \cap Elems(log[p]) = {}
    BY <2>1, <2>2, MoveAppend
  <2> QED
    BY <1>1, <2>3
<1>5. \A y \in Elems(b.recs) : \A o \in Partitions : y \notin Elems(log[o])
  BY <1>4, RecordsApart DEF p
<1>6. \A y \in 1..appended : y \in Records /\ outcome[y] # "none"
  <2>1. appended \in Nat /\ 1..appended \subseteq Records
    BY ConstantsAssumption, AcceptedAreRecords DEF Inv, TypeOK
  <2>2. \A y \in 1..appended : ~(y > appended)
    BY <2>1
  <2> QED
    BY <2>1, <2>2 DEF Outcomes
<1>7. \A y \in Elems(b.recs) : /\ y \in 1..appended /\ y \in Records
                               /\ outcome[y] \notin {"none", "acked"}
  BY <1>5, <1>6, RecordsApart DEF Outcomes
<1>8. ASSUME NEW x \in Elems(log[p]), NEW y \in Elems(b.recs),
             outcome[x] # "failed", outcome[y] # "failed"
      PROVE  x < y
  <2>1. /\ x \in 1..appended /\ x \in Records /\ outcome[x] # "none"
        /\ outcome[x] \in {"none", "pending", "acked", "failed"}
        /\ outcome[y] \in {"none", "pending", "acked", "failed"}
    BY <1>1, <1>6, <1>7, RecordsApart DEF Inv, TypeOK
  <2>2. outcome[y] = "pending"
    BY <1>7, <1>8, <2>1
  <2>3. OnTheWay(y)
    <3>1. \A o \in Partitions : y \notin QueuedRecords(o)
      BY RecordsApart
    <3>2. ~Expiring(y)
      BY HeldSent DEF TakenApart, Expiring
    <3> QED
      BY <1>7, <2>2, <3>1, <3>2 DEF NoneLost, Done
  <2>4. PICK c \in Outstanding : y \in Elems(c.recs)
    BY <2>3, OnTheWayIs
  <2>5. c.part = p /\ c \in Sent
    BY <2>4, RecordsApart DEF Sent, p
  <2>6. c.recs = b.recs
    <3>1. Key(c) \in SentAt(p) /\ Recs(Key(c)) = Elems(c.recs)
      BY <2>5, SentTyped, KeyFields DEF Recs
    <3>2. Shares(Key(b), Key(c))
      BY <1>1, <2>4, <3>1 DEF Shares
    <3> QED
      BY <1>1, <1>2, <3>1, <3>2, KeyFields DEF LocalAt, Local, Units
  <2>7. CASE outcome[x] = "acked"
    BY <1>1, <1>8, <2>4, <2>5, <2>7 DEF Outcomes
  <2>8. CASE outcome[x] = "pending"
    <3>1. \A o \in Partitions : x \notin QueuedRecords(o)
      BY <1>1, RecordsApart
    <3>2. OnTheWay(x)
      <4>1. ~Expiring(x)
        BY <1>1 DEF TakenApart, Expiring, Held
      <4> QED
        BY <2>1, <2>8, <3>1, <4>1 DEF NoneLost, Done
    <3>3. PICK d \in Outstanding : x \in Elems(d.recs)
      BY <3>2, OnTheWayIs
    <3>4. d.part = p
      BY <1>1, <3>3, RecordsApart DEF Sent
    <3>5. d = c
      BY <2>5, <3>4, OutstandingUnique
    <3> QED
      BY <1>4, <2>6, <3>3, <3>5
  <2> QED
    BY <1>8, <2>1, <2>7, <2>8
<1> QED
  BY <1>5, <1>7, <1>8 DEF p

\* A batch arrives, and its leader may append it.
LEMMA DeliveryWrite ==
  ASSUME Inv, Sequenced, Outcomes, TakenApart, NoneLost, SentFrom, NEW b \in Sent, ArriveEffect(b),
         Outstanding' = Outstanding, UNCHANGED <<outcome, appended, current, ready>>
  PROVE  Outcomes' /\ (Contract!Next \/ UNCHANGED <<log, outcome>>)
<1>1. \A p \in Partitions : QueuedRecords(p)' = QueuedRecords(p)
  BY QueueUnchanged DEF QueuedRecords
<1>2. CASE log' = log
  BY <1>1, <1>2, DeliveryQuiet
<1>3. CASE /\ Takes(Key(b), producers[b.part])
           /\ log' = [log EXCEPT ![b.part] = @ \o b.recs]
  <2> DEFINE p == b.part
  <2>1. /\ p \in Partitions /\ b.recs \in Seq(Records) /\ b.recs # <<>>
        /\ log \in [Partitions -> Seq(Records)]
    BY SentTyped DEF Inv, TypeOK
  <2>2. /\ log' = [log EXCEPT ![p] = log[p] \o b.recs] /\ log'[p] = log[p] \o b.recs
        /\ \A o \in Partitions : o # p => log'[o] = log[o]
    BY <1>3, <2>1
  <2>3. /\ \A y \in Elems(b.recs) : \A o \in Partitions : y \notin Elems(log[o])
        /\ \A y \in Elems(b.recs) : y \in Records /\ outcome[y] \notin {"none", "acked"}
        /\ \A x \in Elems(log[p]), y \in Elems(b.recs) :
             outcome[x] # "failed" /\ outcome[y] # "failed" => x < y
    BY <1>3, WriteInOrder
  <2>4. Sorted(b.recs)
    BY DEF Outcomes
  <2> HIDE DEF p
  <2>5. Contract!Added(p) = b.recs
    BY <2>1, <2>2, SuffixOfConcat DEF Contract!Added
  <2>6. Contract!Write(p, b.recs)
    <3>1. /\ DOMAIN b.recs = 1..Len(b.recs) /\ \A i \in DOMAIN b.recs : b.recs[i] \in Elems(b.recs)
          /\ \A i \in DOMAIN log[p] : log[p][i] \in Elems(log[p])
      BY <2>1, LenProperties DEF Elems
    <3>2. \A i \in DOMAIN b.recs : /\ b.recs[i] \in Records \ Contract!Logged
                                   /\ outcome[b.recs[i]] # "none"
      BY <2>3, <3>1, LoggedIs
    <3>3. \A i, j \in DOMAIN b.recs : i < j => b.recs[i] < b.recs[j]
      BY <2>4, <3>1 DEF Sorted
    <3>4. \A i \in DOMAIN log[p], j \in DOMAIN b.recs :
            outcome[log[p][i]] # "failed" /\ outcome[b.recs[j]] # "failed" => log[p][i] < b.recs[j]
      BY <2>3, <3>1
    <3> QED
      BY <2>1, <2>2, <3>2, <3>3, <3>4 DEF Contract!Write
  <2>7. Contract!Next
    BY <2>1, <2>5, <2>6 DEF Contract!Next
  <2>8. /\ Elems(log[p])' = Elems(log[p]) \cup Elems(b.recs)
        /\ \A o \in Partitions : o # p => Elems(log[o])' = Elems(log[o])
    <3>1. Elems(log[p] \o b.recs) = Elems(log[p]) \cup Elems(b.recs)
      BY <2>1, ElemsConcat
    <3> QED
      BY <2>2, <3>1 DEF Elems
  <2>9. \A x \in Records : outcome'[x] = "acked" => \E o \in Partitions : x \in Elems(log[o])'
    BY <2>1, <2>8 DEF Outcomes
  <2>10. \A o \in Partitions : \A x \in Elems(log[o])' : outcome'[x] = "acked" =>
           /\ \A y \in QueuedRecords(o)' : x < y
           /\ \A c \in Outstanding' : c.part = o => \A y \in Elems(c.recs) : x < y
    <3> SUFFICES ASSUME NEW o \in Partitions, NEW x \in Elems(log[o])', outcome[x] = "acked"
                 PROVE  /\ \A y \in QueuedRecords(o) : x < y
                        /\ \A c \in Outstanding : c.part = o => \A y \in Elems(c.recs) : x < y
      BY <1>1
    <3>1. x \in Elems(log[o])
      BY <2>3, <2>8
    <3> QED
      BY <3>1 DEF Outcomes
  <2>11. \A c \in Sent' : Sorted(c.recs)
    BY SortedStep DEF Outcomes
  <2>12. /\ \A x \in Records : outcome'[x] = "none" <=> x > appended'
         /\ \A c \in Outstanding' : \A x \in Elems(c.recs) : outcome'[x] = "pending"
         /\ \A o \in Partitions : \A x \in QueuedRecords(o)' : outcome'[x] = "pending"
    BY <1>1 DEF Outcomes
  <2>13. \A c \in Outstanding' : \A x \in Elems(c.recs), y \in QueuedRecords(c.part)' : x < y
    <3>1. \A c \in Outstanding : c.part \in Partitions
      BY RecordsApart DEF Sent
    <3> QED
      BY <1>1, <3>1 DEF Outcomes
  <2>14. Outcomes'
    BY <2>9, <2>10, <2>11, <2>12, <2>13 DEF Outcomes
  <2> QED
    BY <2>7, <2>14
<1> QED
  BY <1>2, <1>3 DEF ArriveEffect

\* An acked batch is in the log.
LEMMA AckedLogged ==
  ASSUME Inv, Sequenced, NEW q \in requests, Verdict(q) = "Acked"
  PROVE  Elems(q.batch.recs) \subseteq Elems(log[q.batch.part])
<1> DEFINE b == q.batch
           p == q.batch.part
           s == producers[p][b.pid]
<1>1. b \in Outstanding /\ b \in Sent
  BY DEF Outstanding, Sent
<1>2. p \in Partitions /\ Key(b) \in Out(p)
  BY <1>1, OutIs
<1>3. s.epoch = b.epoch /\ b.seq \in s.accepted
  BY VerdictAnswer, KeyFields DEF Has
<1>4. LocalAt(p)
  BY <1>2 DEF Sequenced, LocalInv
<1>5. b.pid \in Pids /\ b.seq \in Nat /\ s.expected \in Nat
  BY <1>1, SentTyped DEF ProducerStates
<1>6. b.seq < s.expected
  BY <1>3, <1>4, <1>5 DEF LocalAt, Local, Typed
<1>7. \/ Key(b).seq = producers[p][Key(b).pid].expected
      \/ Recs(Key(b)) \subseteq Elems(log[p])
  BY <1>2, <1>3, <1>4, KeyFields DEF LocalAt, Local, Expects
<1> QED
  BY <1>5, <1>6, <1>7, KeyFields DEF Recs

LEMMA DeliveryComplete ==
  ASSUME Inv, NoneTooLarge, Sequenced, Outcomes, SentFrom,
         NEW done \in SUBSET Answered, CompleteBatches(done)
  PROVE  Outcomes' /\ Contract!Next
<1> DEFINE A == {q.batch : q \in {d \in done : Verdict(d) \in {"Acked"}}}
           F == {q.batch : q \in {d \in done : Verdict(d) \in {"Terminal", "Exhausted"}}}
<1>1. /\ log' = log /\ appended' = appended
      /\ outcome' = [r \in Records |-> IF r \in RecordsOf(A) THEN "acked"
                                       ELSE IF r \in RecordsOf(F) THEN "failed" ELSE outcome[r]]
  BY DEF CompleteBatches, brokerVars
<1>2. done \subseteq requests /\ current' = current /\ ready' = ready
  BY CompleteEffect
<1>3. PICK id \in IdentityAfter(WantsBump(done)) :
        Outstanding' = {b \in Outstanding : \A q \in done : q.batch.part # b.part}
                         \cup ParkedOf(done, id)
  BY CompleteEffect
<1>4. /\ \A q \in done : q.batch \in Outstanding /\ q.batch \in PreparedBatches
      /\ \A q, d \in done : q.batch.part = d.batch.part => q = d
  BY <1>2 DEF Outstanding, Inv, TypeOK, Pipeline, OneBatchPerPartition
<1>5. A \subseteq Outstanding /\ F \subseteq Outstanding /\ A \cap F = {}
  BY <1>4
<1>6. \A b \in A : Elems(b.recs) \subseteq Elems(log[b.part])
  BY <1>2, AckedLogged
<1>7. ASSUME NEW b \in Outstanding'
      PROVE  \E c \in Outstanding : c \notin A /\ c \notin F /\ c.part = b.part /\ c.recs = b.recs
  <2>1. CASE b \in Outstanding /\ \A q \in done : q.batch.part # b.part
    BY <2>1
  <2>2. CASE b \in ParkedOf(done, id)
    <3>1. PICK q \in Resending(done) : b = Parked(q.batch, Rewrites(q), id)
      BY <2>2 DEF ParkedOf
    <3>2. q \in done /\ Verdict(q) \in {"Retry", "BumpEpochAndRetry"}
      BY <3>1 DEF Resending
    <3>3. b.part = q.batch.part /\ b.recs = q.batch.recs
      BY <1>4, <3>1, <3>2, ParkedFields
    <3>4. q.batch \notin A /\ q.batch \notin F
      BY <1>4, <3>2
    <3> QED
      BY <1>4, <3>2, <3>3, <3>4
  <2> QED
    BY <1>3, <2>1, <2>2
<1>8. \A p \in Partitions : QueuedRecords(p)' \subseteq QueuedRecords(p) \ {}
  BY <1>2, QueueUnchanged DEF QueuedRecords
<1>9. \A r \in {} : Loose(r)
  OBVIOUS
<1> HIDE DEF A, F
<1>10. outcome' = [r \in Records |-> IF r \in RecordsOf(A) THEN "acked"
                                     ELSE IF r \in RecordsOf(F) \cup {} THEN "failed"
                                     ELSE outcome[r]]
  BY <1>1
<1>11. Settling(A, F, {})
  BY <1>5, <1>6, <1>7, <1>8, <1>9, <1>10 DEF Settling
<1> QED
  BY <1>1, <1>11, Settles

\* `fence` resolves what the sender holds: acked, or failed.
LEMMA DeliveryFence ==
  ASSUME Inv, Sequenced, Outcomes, SentFrom, NEW done \in SUBSET requests,
         NEW acked \in SUBSET done, \A q \in acked : Verdict(q) = "Acked", Fence(done, acked)
  PROVE  Outcomes' /\ Contract!Next
<1> DEFINE A == {q.batch : q \in acked}
           F == {q.batch : q \in done \ acked} \cup {retry[p] : p \in RetryPartitions}
<1>1. /\ UNCHANGED <<log, appended, current, ready>>
      /\ outcome' = [r \in Records |-> IF r \in RecordsOf(A) THEN "acked"
                                       ELSE IF r \in RecordsOf(F) THEN "failed" ELSE outcome[r]]
  BY DEF Fence, brokerVars, accVars
<1>2. Outstanding' = {q.batch : q \in requests \ done}
  BY FenceOutstanding
<1>3. /\ \A q, d \in requests : q.batch.part = d.batch.part => q = d
      /\ \A q \in requests, p \in RetryPartitions : q.batch.part # p
      /\ \A p \in RetryPartitions : retry[p].part = p
  BY DEF Inv, Pipeline, OneBatchPerPartition, RequestedPartitions, SlotsMatch, RetryPartitions
<1>4. A \subseteq Outstanding /\ F \subseteq Outstanding
  BY DEF Outstanding
<1>5. A \cap F = {}
  <2> SUFFICES ASSUME NEW q \in acked, q.batch \in F PROVE FALSE
    OBVIOUS
  <2>1. CASE \E d \in done \ acked : q.batch = d.batch
    BY <1>3, <2>1
  <2>2. CASE \E p \in RetryPartitions : q.batch = retry[p]
    BY <1>3, <2>2
  <2> QED
    BY <2>1, <2>2
<1>6. \A b \in A : Elems(b.recs) \subseteq Elems(log[b.part])
  BY AckedLogged
<1>7. ASSUME NEW b \in Outstanding'
      PROVE  \E c \in Outstanding : c \notin A /\ c \notin F /\ c.part = b.part /\ c.recs = b.recs
  <2>1. PICK q \in requests \ done : b = q.batch
    BY <1>2
  <2>2. b \in Outstanding
    BY <2>1 DEF Outstanding
  <2>3. b \notin A
    BY <1>3, <2>1
  <2>4. b \notin F
    <3>1. \A d \in done \ acked : d.batch # b
      BY <1>3, <2>1
    <3>2. \A p \in RetryPartitions : retry[p] # b
      BY <1>3, <2>1
    <3> QED
      BY <3>1, <3>2
  <2> QED
    BY <2>2, <2>3, <2>4
<1>8. \A p \in Partitions : QueuedRecords(p)' \subseteq QueuedRecords(p) \ {}
  BY <1>1, QueueUnchanged DEF QueuedRecords
<1>9. \A r \in {} : Loose(r)
  OBVIOUS
<1> HIDE DEF A, F
<1>10. outcome' = [r \in Records |-> IF r \in RecordsOf(A) THEN "acked"
                                     ELSE IF r \in RecordsOf(F) \cup {} THEN "failed"
                                     ELSE outcome[r]]
  BY <1>1
<1>11. Settling(A, F, {})
  BY <1>4, <1>5, <1>6, <1>7, <1>8, <1>9, <1>10 DEF Settling
<1> QED
  BY <1>1, <1>11, Settles

\* Batches of the retry slots expire.
LEMMA DeliveryExpire ==
  ASSUME Inv, Sequenced, Outcomes, SentFrom, NEW expired \in SUBSET RetryPartitions,
         ExpireBatches(expired)
  PROVE  Outcomes' /\ Contract!Next
<1> DEFINE F == {retry[p] : p \in expired}
<1>1. /\ UNCHANGED <<log, appended, current, ready>> /\ outcome' = Resolve(RecordsOf(F), "failed")
  BY DEF ExpireBatches, brokerVars, accVars
<1>2. Outstanding' = {b \in Outstanding : b.part \notin expired}
  BY ExpireOutstanding
<1>3. F \subseteq Outstanding /\ \A b \in F : b.part \in expired
  BY DEF Outstanding, Inv, Pipeline, SlotsMatch, RetryPartitions
<1>4. \A b \in Outstanding' : \E c \in Outstanding : c \notin {} /\ c \notin F /\ c.part = b.part /\ c.recs = b.recs
  BY <1>2, <1>3
<1>5. \A p \in Partitions : QueuedRecords(p)' \subseteq QueuedRecords(p) \ {}
  BY <1>1, QueueUnchanged DEF QueuedRecords
<1> HIDE DEF F
<1>6. outcome' = [r \in Records |-> IF r \in RecordsOf({}) THEN "acked"
                                    ELSE IF r \in RecordsOf(F) \cup {} THEN "failed"
                                    ELSE outcome[r]]
  <2>1. RecordsOf({}) = {}
    BY DEF RecordsOf
  <2> QED
    BY <1>1, <2>1 DEF Resolve
<1>7. /\ {} \subseteq Outstanding /\ {} \cap F = {}
      /\ \A r \in {} : Loose(r)
      /\ \A b \in {} : Elems(b.recs) \subseteq Elems(log[b.part])
  OBVIOUS
<1>8. Settling({}, F, {})
  BY <1>3, <1>4, <1>5, <1>6, <1>7 DEF Settling
<1> QED
  BY <1>1, <1>8, Settles

\* Records of an accumulator fail.
LEMMA DeliveryDiscard ==
  ASSUME Inv, Sequenced, Outcomes, SentFrom, UNCHANGED <<log, appended, requests, retry>>,
         NEW p \in Partitions, NEW W, W \subseteq QueuedRecords(p), outcome' = Resolve(W, "failed"),
         \A o \in Partitions : QueuedRecords(o)' \subseteq QueuedRecords(o),
         QueuedRecords(p)' \cap W = {}
  PROVE  Outcomes' /\ Contract!Next
<1>1. Outstanding' = Outstanding
  BY DEF Outstanding, RetryPartitions
<1>2. \A o \in Partitions : QueuedRecords(o)' \subseteq QueuedRecords(o) \ W
  BY RecordsApart
<1>3. RecordsOf({}) = {}
  BY DEF RecordsOf
<1>4. outcome' = [r \in Records |-> IF r \in RecordsOf({}) THEN "acked"
                                    ELSE IF r \in RecordsOf({}) \cup W THEN "failed"
                                    ELSE outcome[r]]
  BY <1>3 DEF Resolve
<1>5. /\ {} \subseteq Outstanding /\ {} \cap {} = {}
      /\ \A r \in W : Loose(r)
      /\ \A b \in {} : Elems(b.recs) \subseteq Elems(log[b.part])
  BY RecordsApart DEF Loose, Outcomes, Sent
<1>6. \A b \in Outstanding' : \E c \in Outstanding : c \notin {} /\ c \notin {} /\ c.part = b.part /\ c.recs = b.recs
  BY <1>1
<1>7. Settling({}, {}, W)
  BY <1>2, <1>4, <1>5, <1>6 DEF Settling
<1> QED
  BY <1>7, Settles

\* A step of the pipeline as a step of Delivery, or as none.
Delivers == Outcomes' /\ (Contract!Next \/ UNCHANGED <<log, outcome>>)

LEMMA DeliveryApplication ==
  ASSUME Inv, NoneTooLarge, Sequenced, Outcomes, Application \/ UNCHANGED vars, Orderly
  PROVE  Delivers
<1>1. [Next]_vars /\ SentFrom
  BY DEF Next, Orderly
<1>2. \A p \in Partitions : EnqueueAppend(p) \/ QueuedRecords(p)' \subseteq QueuedRecords(p)
  BY <1>1, QueueMoves, QueueMoveKeeps DEF Sequenced, QueuesInOrder
<1>3. ASSUME NEW p \in Partitions, EnqueueAppend(p)
      PROVE  Delivers
  <2>1. \A o \in Partitions : o # p => QueuedRecords(o)' \subseteq QueuedRecords(o)
    BY <1>1, <1>2, <1>3, AppendedStep
  <2> QED
    BY <1>1, <1>3, <2>1, DeliveryAccept DEF Delivers
<1>4. CASE \A p \in Partitions : ~EnqueueAppend(p)
  <2>1. /\ log' = log /\ appended' = appended /\ outcome' = outcome /\ requests' = requests
        /\ retry' = retry
    BY <1>4 DEF Application, EnqueueSeal, EnqueueLock, FlushStart, FlushLoad, FlushWake,
                FlushTimeout, FlushScan, Close, DropProducer, accVars, senderVars, brokerVars, vars
  <2>2. Outstanding' = Outstanding
    BY <2>1 DEF Outstanding, RetryPartitions
  <2> QED
    BY <1>1, <1>2, <1>4, <2>1, <2>2, DeliveryQuiet DEF Delivers
<1> QED
  BY <1>3, <1>4

LEMMA DeliverySender ==
  ASSUME Inv, NoneTooLarge, Sequenced, Outcomes, TakenApart, Sender, Orderly
  PROVE  Delivers
<1>1. Next /\ SentFrom
  BY DEF Next, Orderly
<1>2. \A p \in Partitions : QueuedRecords(p)' \subseteq QueuedRecords(p)
  <2>1. \A p \in Partitions : ~EnqueueAppend(p)
    <3>1. appended' = appended
      BY DEF Sender, AllocateProducerId, DrainBatch, Resend, TakeExpired, FailExpired, ExpireBatches,
             CompleteBatches, CompleteFatal, Fence, DrainFence, FenceAccumulator, SenderExit, accVars
    <3>2. appended \in Nat
      BY ConstantsAssumption DEF Inv, TypeOK
    <3> QED
      BY <3>1, <3>2 DEF EnqueueAppend
  <2> QED
    BY <1>1, <2>1, QueueMoves, QueueMoveKeeps DEF Sequenced, QueuesInOrder
<1>3. ASSUME AllocateProducerId \/ SenderExit \/ \E p \in Partitions : Resend(p)
      PROVE  Delivers
  <2>1. log' = log /\ appended' = appended /\ outcome' = outcome
    BY <1>3 DEF AllocateProducerId, SenderExit, Resend, accVars, brokerVars
  <2>2. Outstanding' = Outstanding
    BY <1>3, ResendOutstanding DEF AllocateProducerId, SenderExit, senderVars, Outstanding,
                                   RetryPartitions
  <2> QED
    BY <1>1, <1>2, <2>1, <2>2, DeliveryQuiet DEF Delivers
<1>4. ASSUME NEW p \in Partitions, DrainBatch(p)
      PROVE  Delivers
  BY <1>1, <1>2, <1>4, DeliveryDrain DEF Delivers
<1>5. ASSUME NEW p \in Partitions, TakeExpired(p)
      PROVE  Delivers
  <2>1. log' = log /\ appended' = appended /\ outcome' = outcome /\ Outstanding' = Outstanding
    BY <1>5 DEF TakeExpired, senderVars, brokerVars, Outstanding, RetryPartitions
  <2> QED
    BY <1>1, <1>2, <2>1, DeliveryQuiet DEF Delivers
<1>11. ASSUME FailExpired
       PROVE  Delivers
  BY <1>1, <1>11, DeliveryFail DEF Delivers
<1>6. ASSUME NEW expired \in SUBSET RetryPartitions, ExpireBatches(expired)
      PROVE  Delivers
  BY <1>1, <1>6, DeliveryExpire DEF Delivers
<1>7. ASSUME NEW done \in SUBSET Answered, CompleteBatches(done)
      PROVE  Delivers
  BY <1>1, <1>7, DeliveryComplete DEF Delivers
<1>8. ASSUME NEW done \in SUBSET Answered, CompleteFatal(done)
      PROVE  Delivers
  <2> DEFINE acked == {q \in done : Verdict(q) = "Acked"}
  <2>1. done \in SUBSET requests /\ Fence(done, acked)
    BY <1>8 DEF CompleteFatal, Answered
  <2>2. acked \in SUBSET done /\ \A q \in acked : Verdict(q) = "Acked"
    OBVIOUS
  <2> HIDE DEF acked
  <2> QED
    BY <1>1, <2>1, <2>2, DeliveryFence DEF Delivers
<1>9. ASSUME DrainFence
      PROVE  Delivers
  <2>1. Fence({}, {}) /\ {} \in SUBSET requests /\ {} \in SUBSET {}
    BY <1>9 DEF DrainFence
  <2>2. \A q \in {} : Verdict(q) = "Acked"
    OBVIOUS
  <2> QED
    BY <1>1, <2>1, <2>2, DeliveryFence DEF Delivers
<1>10. ASSUME NEW p \in sweep, FenceAccumulator(p)
       PROVE  Delivers
  <2>1. p \in Partitions
    BY DEF Inv, TypeOK
  <2>2. log' = log /\ appended' = appended /\ requests' = requests /\ retry' = retry
    BY <1>10 DEF FenceAccumulator, senderVars, brokerVars
  <2>3. CASE locked = p
    <3>1. outcome' = outcome
      BY <1>10, <2>3 DEF FenceAccumulator
    <3>2. Outstanding' = Outstanding
      BY <2>2 DEF Outstanding, RetryPartitions
    <3> QED
      BY <1>1, <1>2, <2>2, <3>1, <3>2, DeliveryQuiet DEF Delivers
  <2>4. CASE locked # p
    <3> DEFINE W == QueuedRecords(p)
    <3>1. outcome' = Resolve(W, "failed")
      BY <1>10, <2>4 DEF FenceAccumulator
    <3>2. Queue(p)' = <<>>
      BY <1>10, <2>1, <2>4 DEF FenceAccumulator, Queue, Inv, TypeOK
    <3>3. QueuedRecords(p)' = {}
      BY <3>2 DEF QueuedRecords, Elems
    <3>4. W \subseteq QueuedRecords(p) /\ QueuedRecords(p)' \cap W = {}
      BY <3>3
    <3> HIDE DEF W
    <3> QED
      BY <1>1, <1>2, <2>1, <2>2, <3>1, <3>4, DeliveryDiscard DEF Delivers
  <2> QED
    BY <2>3, <2>4
<1> QED
  BY <1>3, <1>4, <1>5, <1>6, <1>7, <1>8, <1>9, <1>10, <1>11 DEF Sender

LEMMA DeliveryNetwork ==
  ASSUME Inv, Sequenced, Outcomes, TakenApart, NoneLost, Network, Orderly
  PROVE  Delivers
<1>1. SentFrom
  BY DEF Orderly
<1>2. UNCHANGED <<outcome, appended, current, ready>>
  BY DEF Network, LeaderAnswers, LeaderAppendsAndFails, LeaderRefuses, TransportFails,
         StrayArrives, LeaderForgets, accVars
<1>3. Outstanding' = Outstanding
  <2>1. ASSUME NEW q \in requests, NEW code, requests' = Answer(q, code), retry' = retry
        PROVE  Outstanding' = Outstanding
    BY <2>1, AnswerOutstanding
  <2>2. ASSUME UNCHANGED <<requests, retry>>
        PROVE  Outstanding' = Outstanding
    BY <2>2 DEF Outstanding, RetryPartitions
  <2> QED
    BY <2>1, <2>2 DEF Network, LeaderAnswers, LeaderAppendsAndFails, LeaderRefuses,
                      TransportFails, StrayArrives, LeaderForgets, senderVars
<1>4. ASSUME NEW b \in Sent, Arrive(b)
      PROVE  Delivers
  <2>1. ArriveEffect(b)
    BY <1>4, ArriveIs
  <2> QED
    BY <1>1, <1>2, <1>3, <2>1, DeliveryWrite DEF Delivers
<1>5. ASSUME log' = log
      PROVE  Delivers
  <2>1. \A p \in Partitions : QueuedRecords(p)' \subseteq QueuedRecords(p)
    BY <1>2, QueueUnchanged DEF QueuedRecords
  <2> QED
    BY <1>1, <1>2, <1>3, <1>5, <2>1, DeliveryQuiet DEF Delivers
<1>6. \A q \in requests : q.batch \in Sent
  BY DEF Sent, Outstanding
<1>7. \A b \in stray : b \in Sent
  BY DEF Sent
<1> QED
  BY <1>4, <1>5, <1>6, <1>7 DEF Network, LeaderAnswers, LeaderAppendsAndFails, LeaderRefuses,
                                TransportFails, StrayArrives, LeaderForgets

LEMMA DeliveryStep ==
  Hypothesis /\ Inv /\ Unsplit /\ Sequenced /\ FlushInv /\ Outcomes /\ TakenApart /\ [Next]_vars
    => Outcomes' /\ TakenApart' /\ [Contract!Next]_(Contract!vars)
<1> SUFFICES ASSUME Hypothesis, Inv, Unsplit, Sequenced, FlushInv, Outcomes, TakenApart, [Next]_vars
             PROVE  Outcomes' /\ TakenApart' /\ [Contract!Next]_(Contract!vars)
  OBVIOUS
<1>1. NoneTooLarge /\ NoneLost
  BY DEF Unsplit, FlushInv
<1>2. Orderly
  BY <1>1, OrderlyApplication, OrderlySender, OrderlyNetwork DEF Next, Terminated
<1>3. Delivers
  BY <1>1, <1>2, DeliveryApplication, DeliverySender, DeliveryNetwork DEF Next, Terminated
<1>4. TakenApart'
  BY <1>1, <1>2, TakenStep DEF Orderly
<1> QED
  BY <1>3, <1>4 DEF Delivers, Contract!vars

LEMMA OutcomesInit == Init => Outcomes /\ TakenApart /\ Contract!Init
<1> SUFFICES ASSUME Init PROVE Outcomes /\ TakenApart /\ Contract!Init
  OBVIOUS
<1>1. /\ log = [p \in Partitions |-> <<>>] /\ outcome = [r \in Records |-> "none"] /\ appended = 0
  BY DEF Init
<1>2. Outstanding = {} /\ Sent = {}
  BY DEF Init, Outstanding, RetryPartitions, Sent
<1>3. \A p \in Partitions : QueuedRecords(p) = {}
  BY DEF Init, QueuedRecords, Queue, Elems
<1>4. \A r \in Records : r > 0
  BY ConstantsAssumption DEF Records
<1>5. Contract!Init
  BY <1>1 DEF Contract!Init
<1>6. Outcomes
  BY <1>1, <1>2, <1>3, <1>4 DEF Outcomes
<1>7. TakenApart
  BY DEF Init, TakenApart, TakenRecords
<1> QED
  BY <1>5, <1>6, <1>7

\* The pipeline keeps the promise of Delivery: whatever send, flush, the drain
\* cycles, the retry slots, the epoch bumps, the fence and the leaders do in
\* whatever order, every record is written at most once, the records that did
\* not fail are written in the order of the sends, and complete_batches resolves
\* a delivery handle once, with success only for a record that is in the log.
\* For all constants with idempotence and without refusals for size.
THEOREM DeliveryImplemented ==
  Mode = "Idempotent" /\ NoSplit => (Spec => ImplementsDelivery)
<1> SUFFICES ASSUME Hypothesis PROVE Spec => ImplementsDelivery
  BY DEF Hypothesis
<1>1. Init => Outcomes /\ TakenApart /\ Contract!Init
  BY OutcomesInit
<1>2. Inv /\ Unsplit /\ Sequenced /\ FlushInv /\ Outcomes /\ TakenApart /\ [Next]_vars
        => Outcomes' /\ TakenApart' /\ [Contract!Next]_(Contract!vars)
  BY DeliveryStep
<1>3. Spec => [](Inv /\ Unsplit /\ Sequenced)
  BY SequencedAlways
<1>4. Inv /\ Inv' /\ Unsplit /\ FlushInv /\ [Next]_vars => FlushInv'
  BY FlushInvStep
<1> QED
  BY <1>1, <1>2, <1>3, <1>4, FlushInvInit, PTL DEF Spec, ImplementsDelivery, Contract!Spec

=============================================================================
