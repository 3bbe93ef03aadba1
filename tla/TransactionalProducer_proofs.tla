---------------------- MODULE TransactionalProducer_proofs ----------------------
(***************************************************************************)
(* Proofs about TransactionalProducer, for every number of records,         *)
(* transactions, partitions and faults and for both transaction versions:   *)
(* what the caller of commit and abort may conclude from an error; the      *)
(* types and the count of outstanding batches; nothing outside of a         *)
(* transaction; one transaction open; all or nothing; aborted means none.   *)
(* Each part adds its invariants to those before it: Typed, Ground, Opened, *)
(* Closed.                                                                  *)
(***************************************************************************)
EXTENDS TransactionalProducer, FiniteSetTheorems, FunctionTheorems, SequenceTheorems, TLAPS

\* call is a record with the fields of NoCall.
CallShape ==
  /\ call = [op |-> call.op, pc |-> call.pc, prev |-> call.prev,
             guard |-> call.guard, todo |-> call.todo, lost |-> call.lost,
             applied |-> call.applied, decision |-> call.decision,
             keep |-> call.keep, found |-> call.found, ongoing |-> call.ongoing]
  /\ call.lost \in BOOLEAN /\ call.applied \in BOOLEAN

\* A change of the transaction that the call does not know of is one behind a
\* lost request.
AppliedIsKnownOrLost ==
  call.applied => call.lost \/ (call.pc = "apply" /\ call.decision = "Complete")

\* The inductive invariant.
CallInv == CallShape /\ AppliedIsKnownOrLost /\ ErrorMeansUnchanged

-----------------------------------------------------------------------------
(* The decisions.                                                          *)

\* decide_end_txn, after an attempt that was lost, never reports an error that
\* stands for an unchanged transaction.
LEMMA LostAttemptIsNoPlainError ==
  ASSUME NEW attempt \in CoordinatorAttempts, NEW committing \in BOOLEAN
  PROVE  DecideEndTxn(attempt, TRUE, committing) \notin UnchangedDecisions
BY DEF DecideEndTxn, UnchangedDecisions, CoordinatorAttempts, CoordinatorCodes,
       RetriableCodes

\* decide_end_txn completes on NONE only.
LEMMA OnlyNoneCompletes ==
  ASSUME NEW attempt \in CoordinatorAttempts, NEW lost \in BOOLEAN,
         NEW committing \in BOOLEAN
  PROVE  DecideEndTxn(attempt, lost, committing) = "Complete" <=> attempt = "NONE"
BY DEF DecideEndTxn, CoordinatorAttempts, CoordinatorCodes, RetriableCodes

\* decide_end_txn_at_deadline reports an unknown outcome after a lost attempt.
LEMMA DeadlineAfterLoss ==
  ASSUME NEW attempt
  PROVE  DecideEndTxnAtDeadline(attempt, TRUE) = "OutcomeUnknown"
BY DEF DecideEndTxnAtDeadline

\* What one attempt does to the call: an attempt that changed the transaction
\* is answered NONE or lost.
LEMMA AttemptKeepsCallInv ==
  ASSUME CallInv, call.pc = "end",
         NEW attempt \in CoordinatorAttempts, NEW applied \in BOOLEAN, NEW found,
         applied => attempt \in {"NONE", "LOST"},
         AfterAttempt(attempt, applied, found)
  PROVE  CallInv'
<1> DEFINE decision == DecideEndTxn(attempt, call.lost, call.op = "commit")
           lost     == call.lost \/ attempt = "LOST"
           noted    == [call EXCEPT !.lost = lost, !.applied = @ \/ applied]
           decided(d) == [noted EXCEPT !.pc = "apply", !.decision = d]
<1>1. /\ CallShape /\ (call.applied => call.lost)
  BY DEF CallInv, AppliedIsKnownOrLost
<1>2. /\ lost \in BOOLEAN /\ (call.applied \/ applied) \in BOOLEAN
      /\ call.lost \in BOOLEAN
  BY <1>1 DEF CallShape
<1>3. /\ decision = "Complete" <=> attempt = "NONE"
      /\ call.lost => decision \notin UnchangedDecisions
      /\ attempt = "LOST" => decision = "Rediscover"
  <2>1. (call.op = "commit") \in BOOLEAN
    OBVIOUS
  <2>2. decision = "Complete" <=> attempt = "NONE"
    BY <1>2, <2>1, OnlyNoneCompletes
  <2>3. ASSUME call.lost PROVE decision \notin UnchangedDecisions
    BY <2>1, <2>3, <1>2, LostAttemptIsNoPlainError
  <2>4. attempt = "LOST" => decision = "Rediscover"
    BY DEF DecideEndTxn, RetriableCodes
  <2> QED BY <2>2, <2>3, <2>4
<1>4. CASE /\ decision \notin {"Retry", "Rediscover"}
           /\ call' = [decided(decision) EXCEPT
                         !.found = IF decision = "Complete" THEN found ELSE -1]
  <2>1. attempt # "LOST"
    BY <1>3, <1>4
  <2>2. /\ call'.pc = "apply" /\ call'.decision = decision
        /\ call'.lost = lost /\ call'.applied = (call.applied \/ applied)
    BY <1>1, <1>4 DEF CallShape
  <2>3. CallShape'
    BY <1>1, <1>2, <1>4 DEF CallShape
  <2>4. AppliedIsKnownOrLost'
    BY <1>1, <1>2, <1>3, <2>1, <2>2 DEF AppliedIsKnownOrLost
  <2>5. ErrorMeansUnchanged'
    BY <1>1, <1>2, <1>3, <2>1, <2>2 DEF ErrorMeansUnchanged, UnchangedDecisions
  <2> QED BY <2>3, <2>4, <2>5 DEF CallInv
<1>5. CASE decision = "Retry" /\ call' = noted
  <2>1. /\ call'.pc = "end"
        /\ call'.lost = lost /\ call'.applied = (call.applied \/ applied)
    BY <1>1, <1>5 DEF CallShape
  <2>2. CallShape'
    BY <1>1, <1>2, <1>5 DEF CallShape
  <2>3. ~applied
    BY <1>3, <1>5
  <2>4. AppliedIsKnownOrLost'
    BY <1>1, <1>2, <2>1, <2>3 DEF AppliedIsKnownOrLost
  <2>5. ErrorMeansUnchanged'
    BY <2>1 DEF ErrorMeansUnchanged
  <2> QED BY <2>2, <2>4, <2>5 DEF CallInv
<1>6. CASE decision = "Rediscover" /\ call' = [noted EXCEPT !.pc = "lookup"]
  <2>1. /\ call'.pc = "lookup"
        /\ call'.lost = lost /\ call'.applied = (call.applied \/ applied)
    BY <1>1, <1>6 DEF CallShape
  <2>2. CallShape'
    BY <1>1, <1>2, <1>6 DEF CallShape
  <2>3. applied => attempt = "LOST"
    BY <1>3, <1>6
  <2>4. AppliedIsKnownOrLost'
    BY <1>1, <1>2, <2>1, <2>3 DEF AppliedIsKnownOrLost
  <2>5. ErrorMeansUnchanged'
    BY <2>1 DEF ErrorMeansUnchanged
  <2> QED BY <2>2, <2>4, <2>5 DEF CallInv
<1>7. CASE /\ decision \in {"Retry", "Rediscover"}
           /\ call' = decided(DecideEndTxnAtDeadline(attempt, lost))
  <2>1. /\ call'.pc = "apply"
        /\ call'.decision = DecideEndTxnAtDeadline(attempt, lost)
        /\ call'.lost = lost /\ call'.applied = (call.applied \/ applied)
    BY <1>1, <1>7 DEF CallShape
  <2>2. CallShape'
    BY <1>1, <1>2, <1>7 DEF CallShape
  <2>3. (call.applied \/ applied) => lost
    BY <1>1, <1>3, <1>7
  <2>4. AppliedIsKnownOrLost'
    BY <2>1, <2>3 DEF AppliedIsKnownOrLost
  <2>5. lost => call'.decision = "OutcomeUnknown"
    <3>1. ASSUME lost PROVE lost = TRUE
      BY <1>2, <3>1
    <3> QED BY <2>1, <3>1, DeadlineAfterLoss
  <2>6. ErrorMeansUnchanged'
    BY <2>1, <2>3, <2>5 DEF ErrorMeansUnchanged, UnchangedDecisions
  <2> QED BY <2>2, <2>4, <2>6 DEF CallInv
<1> QED BY <1>4, <1>5, <1>6, <1>7 DEF AfterAttempt


-----------------------------------------------------------------------------
(* The steps.                                                              *)

\* A call that returned changed nothing.
LEMMA NoCallInv == call' = NoCall => CallInv'
BY DEF CallInv, CallShape, AppliedIsKnownOrLost, ErrorMeansUnchanged, NoCall

\* A step that leaves the call alone keeps the invariant.
LEMMA UnchangedCallInv == CallInv /\ call' = call => CallInv'
BY DEF CallInv, CallShape, AppliedIsKnownOrLost, ErrorMeansUnchanged

\* The steps of the application: a call starts.
LEMMA AppStepsKeepCallInv == CallInv /\ AppSteps => CallInv'
<1> SUFFICES ASSUME CallInv, AppSteps PROVE CallInv'
  OBVIOUS
<1>1. CASE BeginTransaction
  BY <1>1, UnchangedCallInv DEF BeginTransaction
<1>2. ASSUME NEW p \in Partitions, SendLock(p) PROVE CallInv'
  BY <1>2, UnchangedCallInv DEF SendLock
<1>3. ASSUME NEW op \in {"commit", "abort"}, NEW t, EndStart(op, t) PROVE CallInv'
  <2> DEFINE pc == IF op = "commit" THEN "flush" ELSE "drop"
  <2>1. call' = [NoCall EXCEPT !.op = op, !.guard = t, !.prev = txn_state,
                               !.todo = Partitions, !.pc = pc]
    BY <1>3 DEF EndStart
  <2>2. pc # "apply"
    OBVIOUS
  <2> HIDE DEF pc
  <2> QED BY <2>1, <2>2 DEF CallInv, CallShape, AppliedIsKnownOrLost,
                            ErrorMeansUnchanged, NoCall
<1>4. ASSUME NEW t \in Transactions, GuardEnds(t) PROVE CallInv'
  BY <1>3, <1>4 DEF GuardEnds
<1>5. ASSUME NEW t \in Transactions, PrepareStart(t) PROVE CallInv'
  BY <1>5 DEF PrepareStart, CallInv, CallShape, AppliedIsKnownOrLost,
              ErrorMeansUnchanged, NoCall
<1>6. ASSUME NEW token \in issued \cup {-1}, CompleteTransaction(token)
      PROVE CallInv'
  <2>1. (IF token = prepared THEN "commit" ELSE "abort") \in {"commit", "abort"}
    OBVIOUS
  <2> QED BY <1>3, <1>6, <2>1 DEF CompleteTransaction
<1>7. ASSUME NEW keep \in BOOLEAN, InitStart(keep) PROVE CallInv'
  BY <1>7 DEF InitStart, CallInv, CallShape, AppliedIsKnownOrLost,
              ErrorMeansUnchanged, NoCall
<1> QED BY <1>1, <1>2, <1>4, <1>5, <1>6, <1>7 DEF AppSteps

\* The answer to EndTxn.
LEMMA AnswerKeepsCallInv ==
  ASSUME CallInv, EndTxnAnswered
  PROVE  CallInv'
<1>1. PICK code \in CoordinatorAttempts : code = EndTxnCode
  BY DEF EndTxnCode, CoordinatorAttempts, CoordinatorCodes
<1>2. PICK applied \in BOOLEAN : applied = EndTxnApplies
  BY DEF EndTxnApplies
<1>3. PICK found : found = EpochAfterEnd
  OBVIOUS
<1>4. applied => code \in {"NONE", "LOST"}
  BY <1>1, <1>2 DEF EndTxnCode
<1>5. AfterAttempt(code, applied, found) /\ call.pc = "end"
  BY <1>1, <1>2, <1>3 DEF EndTxnAnswered
<1> QED BY <1>4, <1>5, AttemptKeepsCallInv

\* The steps of the running call.
LEMMA CallStepsKeepCallInv ==
  ASSUME "lookup" \notin Faults
  PROVE  CallInv /\ CallSteps => CallInv'
<1> SUFFICES ASSUME CallInv, CallSteps PROVE CallInv'
  OBVIOUS
<1> USE DEF CallInv, CallShape, AppliedIsKnownOrLost, ErrorMeansUnchanged
<1>1. ASSUME NEW p \in Partitions, FlushScan(p) PROVE CallInv'
  BY <1>1 DEF FlushScan
<1>2. ASSUME NEW p \in Partitions, DropScan(p) PROVE CallInv'
  BY <1>2 DEF DropScan
<1>3. CASE FlushDone
  BY <1>3, NoCallInv DEF FlushDone, ReturnTo
<1>4. CASE DrainDone
  BY <1>4 DEF DrainDone
<1>5. CASE EndTxnAnswered
  BY <1>5, AnswerKeepsCallInv
<1>6. CASE EndTxnLookup
  BY <1>6 DEF EndTxnLookup, Fault
<1>7. CASE EndTxnApply
  BY <1>7, NoCallInv DEF EndTxnApply, ReturnTo, FatalReturn
<1>8. CASE InitAnswered
  BY <1>8 DEF InitAnswered
<1>9. CASE InitAdopt
  BY <1>9, NoCallInv DEF InitAdopt
<1> QED BY <1>1, <1>2, <1>3, <1>4, <1>5, <1>6, <1>7, <1>8, <1>9 DEF CallSteps

\* The sends and the sender task leave the call alone.
LEMMA SenderKeepsCall == SendSteps \/ SenderSteps => call' = call
<1>1. SendSteps => call' = call
  BY DEF SendSteps, SendRegister, SendAppend
<1>2. ASSUME NEW p \in Partitions, DrainBatch(p) \/ Resend(p) PROVE call' = call
  BY <1>2 DEF DrainBatch, Resend
<1>3. ASSUME NEW q \in requests,
             StartRequest(q) \/ CompleteAcked(q) \/ CompleteBarred(q) \/ CompleteRetry(q)
      PROVE call' = call
  BY <1>3 DEF StartRequest, CompleteAcked, CompleteBarred, CompleteRetry
<1>4. ASSUME NEW q \in requests,
             CompleteFailed(q) \/ CompleteSplit(q) \/ CompleteFatal(q)
      PROVE call' = call
  BY <1>4 DEF CompleteFailed, CompleteSplit, CompleteFatal
<1>5. SweepRecovered \/ FailExpired \/ DrainFence => call' = call
  BY DEF SweepRecovered, FailExpired, DrainFence
<1> QED BY <1>1, <1>2, <1>3, <1>4, <1>5 DEF SenderSteps

\* The faults: requests of the call are lost or refused, the call is cancelled.
LEMMA FaultStepsKeepCallInv == CallInv /\ FaultSteps => CallInv'
<1> SUFFICES ASSUME CallInv, FaultSteps PROVE CallInv'
  OBVIOUS
<1>1. CASE CancelCall \/ FlushTimeout
  BY <1>1, NoCallInv DEF CancelCall, FlushTimeout, ReturnTo
<1>2. ASSUME NEW t \in Transactions, DropGuard(t) PROVE CallInv'
  BY <1>2, UnchangedCallInv DEF DropGuard
<1>3. CASE EndTxnLost
  <2>1. PICK applied \in BOOLEAN : AfterAttempt("LOST", applied, -1)
    <3>1. EndTxnApplies \in BOOLEAN
      BY DEF EndTxnApplies
    <3> QED BY <1>3, <3>1 DEF EndTxnLost
  <2>2. "LOST" \in CoordinatorAttempts /\ call.pc = "end"
    BY <1>3 DEF CoordinatorAttempts, EndTxnLost
  <2> QED BY <2>1, <2>2, AttemptKeepsCallInv
<1>4. CASE InitLost
  BY <1>4, NoCallInv, UnchangedCallInv DEF InitLost, ReturnTo
<1>5. CASE OtherInit
  BY <1>5, UnchangedCallInv DEF OtherInit
<1>6. ASSUME NEW code \in RefusalCodes, SendRegisterRefused(code) PROVE CallInv'
  BY <1>6, UnchangedCallInv DEF SendRegisterRefused
<1>7. ASSUME NEW code \in RefusalCodes, EndTxnRefused(code) PROVE CallInv'
  <2>1. /\ code \in CoordinatorAttempts /\ call.pc = "end"
        /\ AfterAttempt(code, FALSE, -1)
    BY <1>7, TransactionConstants DEF CoordinatorAttempts, EndTxnRefused
  <2> QED BY <2>1, AttemptKeepsCallInv
<1>8. ASSUME NEW code \in RefusalCodes, InitRefused(code) PROVE CallInv'
  BY <1>8, NoCallInv, UnchangedCallInv DEF InitRefused, ReturnTo, FatalReturn
<1>9. ASSUME NEW p \in Partitions,
             ExpireRetry(p) \/ TakeExpired(p) \/ LeaderForgets(p)
      PROVE CallInv'
  BY <1>9, UnchangedCallInv DEF ExpireRetry, TakeExpired, LeaderForgets
<1>10. ASSUME NEW q \in requests,
              LeaderAppendsAndFails(q) \/ TransportFails(q)
              \/ \E code \in ProduceCodes : LeaderRefuses(q, code)
       PROVE CallInv'
  BY <1>10, UnchangedCallInv DEF LeaderAppendsAndFails, TransportFails, LeaderRefuses
<1> QED BY <1>1, <1>2, <1>3, <1>4, <1>5, <1>6, <1>7, <1>8, <1>9, <1>10
        DEF FaultSteps

-----------------------------------------------------------------------------
\* As long as no coordinator lookup is refused, commit and abort report an error
\* other than RecoveryRequired (apply_end_txn) only when no EndTxn request of
\* the call changed the transaction: whatever was lost, refused or retried.
THEOREM ErrorMeansUnchangedHolds ==
  ASSUME "lookup" \notin Faults
  PROVE  Spec => []ErrorMeansUnchanged
<1>1. Init => CallInv
  BY DEF Init, CallInv, CallShape, AppliedIsKnownOrLost, ErrorMeansUnchanged, NoCall
<1>2. CallInv /\ [Next]_vars => CallInv'
  <2> SUFFICES ASSUME CallInv, [Next]_vars PROVE CallInv'
    OBVIOUS
  <2>1. CASE AppSteps
    BY <2>1, AppStepsKeepCallInv
  <2>2. CASE CallSteps
    BY <2>2, CallStepsKeepCallInv
  <2>3. CASE SendSteps \/ SenderSteps
    BY <2>3, SenderKeepsCall, UnchangedCallInv
  <2>4. CASE FaultSteps
    BY <2>4, FaultStepsKeepCallInv
  <2>5. ASSUME NEW q \in requests, LeaderAnswers(q) PROVE CallInv'
    BY <2>5, UnchangedCallInv DEF LeaderAnswers
  <2>6. CASE Stopped \/ UNCHANGED vars
    BY <2>6, UnchangedCallInv DEF Stopped, vars
  <2> QED BY <2>1, <2>2, <2>3, <2>4, <2>5, <2>6 DEF Next
<1>3. CallInv => ErrorMeansUnchanged
  BY DEF CallInv
<1> QED BY <1>1, <1>2, <1>3, PTL DEF Spec

-----------------------------------------------------------------------------
(* Sequences and finite sets.                                              *)

LEMMA ElemsInterval ==
  ASSUME NEW S, NEW s \in Seq(S)
  PROVE  Elems(s) = {s[i] : i \in 1..Len(s)} /\ Elems(s) \subseteq S
<1>1. DOMAIN s = 1..Len(s) /\ \A i \in 1..Len(s) : s[i] \in S
  BY LenProperties, ElementOfSeq
<1> QED
  BY <1>1 DEF Elems

LEMMA ElemsTail ==
  ASSUME NEW S, NEW s \in Seq(S), s # <<>>
  PROVE  /\ Head(s) \in S /\ Head(s) \in Elems(s)
         /\ Tail(s) \in Seq(S) /\ Elems(Tail(s)) \subseteq Elems(s)
<1>1. /\ Len(s) \in Nat \ {0} /\ Head(s) = s[1] /\ Tail(s) \in Seq(S)
      /\ Len(Tail(s)) = Len(s) - 1
      /\ \A i \in 1..Len(Tail(s)) : Tail(s)[i] = s[i + 1]
  BY HeadTailProperties, EmptySeq, LenProperties
<1>2. /\ Elems(s) = {s[i] : i \in 1..Len(s)} /\ Elems(s) \subseteq S
      /\ Elems(Tail(s)) = {Tail(s)[i] : i \in 1..(Len(s) - 1)}
  BY <1>1, ElemsInterval
<1>3. 1 \in 1..Len(s) /\ \A i \in 1..(Len(s) - 1) : i + 1 \in 1..Len(s)
  BY <1>1
<1> QED
  BY <1>1, <1>2, <1>3

LEMMA ElemsSingleton ==
  ASSUME NEW S, NEW x \in S
  PROVE  Elems(<<x>>) = {x}
<1> DEFINE s == <<x>>
<1>1. s \in Seq(S) /\ Len(s) = 1 /\ s[1] = x
  OBVIOUS
<1> HIDE DEF s
<1>2. Elems(s) = {s[i] : i \in 1..1}
  BY <1>1, ElemsInterval
<1>3. Elems(s) = {x}
  BY <1>1, <1>2
<1> QED BY <1>3 DEF s

LEMMA ElemsAppend ==
  ASSUME NEW S, NEW s \in Seq(S), NEW x \in S
  PROVE  Elems(Append(s, x)) = Elems(s) \cup {x}
<1>1. /\ Append(s, x) \in Seq(S) /\ Len(Append(s, x)) = Len(s) + 1 /\ Len(s) \in Nat
      /\ \A i \in 1..Len(s) : Append(s, x)[i] = s[i]
      /\ Append(s, x)[Len(s) + 1] = x
  BY AppendProperties, LenProperties
<1>2. /\ Elems(Append(s, x)) = {Append(s, x)[i] : i \in 1..(Len(s) + 1)}
      /\ Elems(s) = {s[i] : i \in 1..Len(s)}
  BY <1>1, ElemsInterval
<1>3. 1..(Len(s) + 1) = (1..Len(s)) \cup {Len(s) + 1}
  BY <1>1
<1> QED
  BY <1>1, <1>2, <1>3

\* retain_mut keeps elements of the queue, and an empty queue stays empty.
LEMMA RetainedElems ==
  ASSUME NEW S, NEW s \in Seq(S), NEW kept \in SUBSET (DOMAIN s)
  PROVE  /\ Retained(s, kept) \in Seq(S)
         /\ Elems(Retained(s, kept)) \subseteq {s[i] : i \in kept}
         /\ s = <<>> => Retained(s, kept) = <<>>
<1> DEFINE rank(i) == Cardinality({j \in kept : j <= i})
           size == Cardinality(kept)
           f == [i \in kept |-> rank(i)]
<1>1. /\ Len(s) \in Nat /\ DOMAIN s = 1..Len(s) /\ \A i \in kept : s[i] \in S
  BY LenProperties, ElementOfSeq
<1>2. /\ IsFiniteSet(kept) /\ size \in Nat /\ kept \subseteq Nat
  <2>1. IsFiniteSet(1..Len(s)) /\ kept \in SUBSET (1..Len(s))
    BY <1>1, FS_Interval
  <2>2. IsFiniteSet(kept)
    BY <2>1, FS_Subset
  <2> QED BY <2>1, <2>2, FS_CardinalityType
<1>3. ASSUME NEW i \in kept
      PROVE  /\ IsFiniteSet({j \in kept : j <= i}) /\ rank(i) \in 1..size
  <2>1. {j \in kept : j <= i} \in SUBSET kept /\ i \in {j \in kept : j <= i}
    BY <1>2
  <2>2. /\ IsFiniteSet({j \in kept : j <= i}) /\ rank(i) <= size /\ rank(i) \in Nat
    BY <1>2, <2>1, FS_Subset, FS_CardinalityType
  <2>3. rank(i) # 0
    BY <2>1, <2>2, FS_EmptySet
  <2> QED BY <1>2, <2>2, <2>3
<1>4. ASSUME NEW i \in kept, NEW j \in kept, i < j PROVE rank(i) # rank(j)
  <2>1. {k \in kept : k <= i} \in SUBSET {k \in kept : k <= j}
    BY <1>2, <1>4
  <2>2. j \in {k \in kept : k <= j} /\ j \notin {k \in kept : k <= i}
    BY <1>2, <1>4
  <2> QED BY <1>3, <2>1, <2>2, FS_Subset
<1>5. f \in Injection(kept, 1..size)
  <2>1. f \in [kept -> 1..size]
    BY <1>3
  <2>2. ASSUME NEW i \in kept, NEW j \in kept, f[i] = f[j] PROVE i = j
    <3>1. rank(i) = rank(j) /\ i \in Nat /\ j \in Nat
      BY <1>2, <2>2
    <3>2. ~(i < j) /\ ~(j < i)
      BY <1>4, <3>1
    <3> QED BY <3>1, <3>2
  <2> HIDE DEF f
  <2> QED BY <2>1, <2>2 DEF Injection, IsInjective
<1>6. f \in Surjection(kept, 1..size)
  <2>1. IsFiniteSet(1..size) /\ Cardinality(1..size) = size
    BY <1>2, FS_Interval
  <2> QED BY <1>5, <2>1, FS_Injection
<1>7. ASSUME NEW n \in 1..size PROVE \E i \in kept : rank(i) = n
  BY <1>6 DEF Surjection
<1> DEFINE at(n) == CHOOSE i \in kept : rank(i) = n
<1>8. \A n \in 1..size : at(n) \in kept
  BY <1>7
<1>9. Retained(s, kept) = [n \in 1..size |-> s[at(n)]]
  BY DEF Retained
<1> HIDE DEF rank, size, at
<1>10. Retained(s, kept) \in Seq(S)
  <2>1. Retained(s, kept) \in [1..size -> S]
    BY <1>1, <1>8, <1>9
  <2> QED BY <1>2, <2>1
<1>11. Elems(Retained(s, kept)) \subseteq {s[i] : i \in kept}
  BY <1>8, <1>9 DEF Elems
<1>12. ASSUME s = <<>> PROVE Retained(s, kept) = <<>>
  <2>1. kept = {}
    BY <1>1, <1>12, EmptySeq
  <2>2. Elems(Retained(s, kept)) = {}
    BY <1>11, <2>1
  <2>3. /\ Len(Retained(s, kept)) \in Nat
        /\ Elems(Retained(s, kept)) =
             {Retained(s, kept)[i] : i \in 1..Len(Retained(s, kept))}
    BY <1>10, ElemsInterval, LenProperties
  <2>4. ~(1 \in 1..Len(Retained(s, kept)))
    BY <2>2, <2>3
  <2> QED BY <1>10, <2>3, <2>4, EmptySeq
<1> QED BY <1>10, <1>11, <1>12

-----------------------------------------------------------------------------
(* The types.                                                              *)

\* A batch in an accumulator, a request, and a transactional call.
UnsentBatch == [recs : Seq(Records) \ {<<>>}, gen : Nat]
Request == [batch : SealedBatch, answer : Answers \cup {"queued", "none", "BARRED"}]
Call ==
  [op : {"none", "commit", "abort", "prepare", "init"},
   pc : {"none", "flush", "drop", "drain", "end", "lookup", "apply", "init", "adopt"},
   prev : TxnStates \cup {"none"}, guard : 0..MaxTransactions,
   todo : SUBSET Partitions, lost : BOOLEAN, applied : BOOLEAN,
   decision : EndTxnDecisions \cup {"none"}, keep : BOOLEAN, found : Int,
   ongoing : Int]

\* The state that the transactional calls change.
StateTyped ==
  /\ txn_state \in TxnStates
  /\ txn_error \in {"none", "abortable", "Fenced", "Server"}
  /\ recovery_required \in BOOLEAN /\ recovery_generation \in Nat
  /\ epoch \in Int /\ prepared \in Int
  /\ open_guard \in 0..MaxTransactions /\ handles \subseteq Transactions
  /\ begun \in 0..MaxTransactions /\ issued \subseteq Int
  /\ told \in [Transactions -> {"none", "aborting", "committed", "aborted"}]

CallTyped ==
  call \in Call /\ (Idle => call = NoCall) /\ (~Idle => call.prev \in TxnStates)

CoordTyped ==
  coord \in [epoch : Int, last : {"none", "commit", "abort", "prepare", "init"},
             ongoing : Int]

SendTyped ==
  /\ sending \in [part : Partitions \cup {NoPartition},
                  pc : {"none", "register", "append"}, gen : Nat]
  /\ sending.pc = "none" <=> sending = NoSend
  /\ sending # NoSend => sending.part \in Partitions

ControlTyped == StateTyped /\ CallTyped /\ CoordTyped /\ SendTyped

\* The partitions with a batch in the retry slot, and the drained batches.
Parked == {p \in Partitions : retry[p] # NoBatch}
Outstanding == {q.batch : q \in requests} \cup {retry[p] : p \in Parked}

\* What the sender holds: at most one drained batch for each partition.
SlotsTyped ==
  /\ retry \in [Partitions -> SealedBatch \cup {NoBatch}]
  /\ requests \subseteq Request /\ IsFiniteSet(requests)
  /\ \A p \in Parked : retry[p].part = p
  /\ \A q1, q2 \in requests : q1.batch.part = q2.batch.part => q1 = q2
  /\ \A q \in requests : q.batch.part \notin Parked
  /\ in_flight = Cardinality(requests) + Cardinality(Parked)

QueueTyped ==
  queue \in [Partitions -> Seq(UnsentBatch)] /\ taken \subseteq UnsentBatch

PipelineTyped ==
  SlotsTyped /\ QueueTyped /\ next_seq \in [Partitions -> Nat] /\ active \in BOOLEAN

\* The records and the logs.
RecordsTyped ==
  /\ outcome \in [Records -> {"none", "pending", "acked", "failed"}]
  /\ txn_of \in [Records -> 0..MaxTransactions]
  /\ open \cup committed \cup aborted \cup plain \subseteq Records

Typed == ControlTyped /\ PipelineTyped /\ RecordsTyped

LEMMA TypedIsTypeOK == Typed => TypeOK
<1> SUFFICES ASSUME Typed PROVE TypeOK
  OBVIOUS
<1>1. \A b \in QueuedBatches \cup taken :
        b.recs \in Seq(Records) /\ b.recs # <<>> /\ b.gen \in Nat
  <2>1. \A p \in Partitions : Elems(queue[p]) \subseteq UnsentBatch
    BY ElemsInterval DEF Typed, PipelineTyped, QueueTyped
  <2>2. QueuedBatches \cup taken \subseteq UnsentBatch
    BY <2>1 DEF QueuedBatches, Typed, PipelineTyped, QueueTyped
  <2> QED BY <2>2 DEF UnsentBatch
<1>2. \A q \in requests :
        q.batch \in SealedBatch /\ q.answer \in Answers \cup {"queued", "none", "BARRED"}
  BY DEF Typed, PipelineTyped, SlotsTyped, Request
<1>3. /\ call.op \in {"none", "commit", "abort", "prepare", "init"}
      /\ call.guard \in 0..MaxTransactions /\ call.todo \subseteq Partitions
  BY DEF Typed, ControlTyped, CallTyped, Call
<1>4. /\ sending.pc \in {"none", "register", "append"}
      /\ sending.part \in Partitions \cup {NoPartition}
  BY DEF Typed, ControlTyped, SendTyped
<1>5. /\ \A p \in Partitions : retry[p] = NoBatch \/ retry[p] \in SealedBatch
      /\ next_seq \in [Partitions -> Nat] /\ active \in BOOLEAN
      /\ in_flight = Cardinality(requests) +
                     Cardinality({p \in Partitions : retry[p] # NoBatch})
  BY DEF Typed, PipelineTyped, SlotsTyped, Parked
<1> QED BY <1>1, <1>2, <1>3, <1>4, <1>5
        DEF Typed, ControlTyped, StateTyped, RecordsTyped, TypeOK

LEMMA TypedInit == Init => Typed
<1> SUFFICES ASSUME Init PROVE Typed
  OBVIOUS
<1>1. ControlTyped
  <2>1. CallTyped
    BY TransactionConstants DEF Init, CallTyped, NoCall, Call, TxnStates, Idle
  <2>2. CoordTyped
    BY DEF Init, CoordTyped
  <2>3. SendTyped
    BY DEF Init, SendTyped, NoSend
  <2>4. StateTyped
    <3>1. 0 \in 0..MaxTransactions
      BY TransactionConstants
    <3>2. told \in [Transactions -> {"none", "aborting", "committed", "aborted"}]
      BY DEF Init
    <3>3. /\ txn_state = "Uninitialized" /\ txn_error = "none"
          /\ recovery_required = FALSE /\ recovery_generation = 0
          /\ epoch = -1 /\ prepared = -1 /\ open_guard = 0 /\ handles = {}
          /\ begun = 0 /\ issued = {}
      BY DEF Init
    <3>4. epoch \in Int /\ prepared \in Int /\ recovery_generation \in Nat
      BY <3>3
    <3>5. txn_state \in TxnStates
      BY <3>3 DEF TxnStates
    <3> QED BY <3>1, <3>2, <3>3, <3>4, <3>5 DEF StateTyped
  <2> QED BY <2>1, <2>2, <2>3, <2>4 DEF ControlTyped
<1>2. PipelineTyped
  <2>1. Parked = {}
    BY DEF Init, Parked
  <2>2. <<>> \in Seq(UnsentBatch)
    BY EmptySeq
  <2>3. in_flight = Cardinality(requests) + Cardinality(Parked) /\ IsFiniteSet(requests)
    BY <2>1, FS_EmptySet DEF Init
  <2> QED BY <2>1, <2>2, <2>3 DEF Init, PipelineTyped, SlotsTyped, QueueTyped
<1>3. RecordsTyped
  BY TransactionConstants DEF Init, RecordsTyped
<1> QED BY <1>1, <1>2, <1>3 DEF Typed

LEMMA DecisionTypes ==
  ASSUME NEW attempt \in CoordinatorAttempts, NEW lost \in BOOLEAN,
         NEW committing \in BOOLEAN
  PROVE  /\ DecideEndTxn(attempt, lost, committing) \in EndTxnDecisions
         /\ DecideEndTxnAtDeadline(attempt, lost) \in
              {"OutcomeUnknown", "ConcurrentTransactions", "TimedOut"}
BY DEF DecideEndTxn, DecideEndTxnAtDeadline, EndTxnDecisions, CoordinatorAttempts,
       CoordinatorCodes, RetriableCodes

\* What an EndTxn attempt changes of the call.
LEMMA AttemptEffect ==
  ASSUME call \in Call, call.pc = "end",
         NEW attempt \in CoordinatorAttempts, NEW applied \in BOOLEAN, NEW found \in Int,
         AfterAttempt(attempt, applied, found)
  PROVE  /\ call' \in Call
         /\ call'.op = call.op /\ call'.prev = call.prev /\ call'.guard = call.guard
         /\ call'.pc \in {"end", "lookup", "apply"}
         /\ call'.applied = (call.applied \/ applied)
         /\ call'.pc = "apply" /\ call'.decision = "Complete" =>
              attempt = "NONE" /\ call'.found = found
<1> DEFINE decision == DecideEndTxn(attempt, call.lost, call.op = "commit")
           lost     == call.lost \/ attempt = "LOST"
           late     == DecideEndTxnAtDeadline(attempt, lost)
           noted    == [call EXCEPT !.lost = lost, !.applied = @ \/ applied]
           decided(d) == [noted EXCEPT !.pc = "apply", !.decision = d]
           told_epoch == IF decision = "Complete" THEN found ELSE -1
<1>1. /\ call.lost \in BOOLEAN /\ call.applied \in BOOLEAN /\ lost \in BOOLEAN
      /\ (call.op = "commit") \in BOOLEAN
  BY DEF Call
<1>2. /\ decision \in EndTxnDecisions /\ late \in EndTxnDecisions
      /\ late # "Complete" /\ (decision = "Complete" <=> attempt = "NONE")
  <2>1. decision \in EndTxnDecisions
    BY <1>1, DecisionTypes
  <2>2. late \in {"OutcomeUnknown", "ConcurrentTransactions", "TimedOut"}
    BY <1>1, DecisionTypes
  <2>3. decision = "Complete" <=> attempt = "NONE"
    BY <1>1, OnlyNoneCompletes
  <2> QED BY <2>1, <2>2, <2>3 DEF EndTxnDecisions
<1>3. /\ noted \in Call /\ noted.op = call.op /\ noted.prev = call.prev
      /\ noted.guard = call.guard /\ noted.pc = "end"
      /\ noted.applied = (call.applied \/ applied)
  BY <1>1 DEF Call
<1>4. \/ call' = [decided(decision) EXCEPT !.found = told_epoch]
      \/ call' = noted
      \/ call' = [noted EXCEPT !.pc = "lookup"]
      \/ call' = decided(late)
  BY DEF AfterAttempt
<1>5. told_epoch \in Int
  OBVIOUS
<1> HIDE DEF noted, decision, late, lost
<1>6. CASE call' = [decided(decision) EXCEPT !.found = told_epoch]
  <2>1. decided(decision) \in Call
    BY <1>2, <1>3 DEF Call
  <2>2. /\ decided(decision).pc = "apply" /\ decided(decision).decision = decision
        /\ decided(decision).op = noted.op /\ decided(decision).prev = noted.prev
        /\ decided(decision).guard = noted.guard
        /\ decided(decision).applied = noted.applied
    BY <1>3 DEF Call
  <2> HIDE DEF decided
  <2>3. call' \in Call
    BY <1>5, <1>6, <2>1 DEF Call
  <2>4. /\ call'.pc = "apply" /\ call'.decision = decision /\ call'.found = told_epoch
        /\ call'.op = noted.op /\ call'.prev = noted.prev /\ call'.guard = noted.guard
        /\ call'.applied = noted.applied
    BY <1>6, <2>1, <2>2 DEF Call
  <2> QED BY <1>2, <1>3, <2>3, <2>4
<1>7. CASE call' = noted
  BY <1>3, <1>7
<1>8. CASE call' = [noted EXCEPT !.pc = "lookup"]
  BY <1>3, <1>8 DEF Call
<1>9. CASE call' = decided(late)
  BY <1>2, <1>3, <1>9 DEF Call
<1> QED BY <1>4, <1>6, <1>7, <1>8, <1>9

\* What the sender task does, its expiries included.
SenderWork ==
  SenderSteps \/ \E p \in Partitions : ExpireRetry(p) \/ TakeExpired(p)

\* What it leaves alone: everything but the batches, the outcomes and the error.
SenderFrame ==
  /\ UNCHANGED <<txn_state, recovery_required, recovery_generation, epoch, prepared,
                 open_guard, handles, call, sending, begun, told, issued, coord,
                 open, committed, aborted, leaders, plain, txn_of>>
  /\ txn_error' \in {txn_error, "abortable", "Server"}
  /\ Fatal => Fatal'

LEMMA SenderWorkFrame ==
  ASSUME SenderWork
  PROVE  SenderFrame
<1> USE DEF SenderFrame, txnVars, recordVars, ghostVars, coordVars, logVars, Unless, Fatal
<1>1. ASSUME NEW p \in Partitions, DrainBatch(p) \/ Resend(p) \/ TakeExpired(p)
      PROVE  SenderFrame
  BY <1>1 DEF DrainBatch, Resend, TakeExpired
<1>2. ASSUME NEW q \in requests,
             StartRequest(q) \/ CompleteAcked(q) \/ CompleteBarred(q) \/ CompleteRetry(q)
      PROVE  SenderFrame
  BY <1>2 DEF StartRequest, CompleteAcked, CompleteBarred, CompleteRetry
<1>3. ASSUME NEW q \in requests, CompleteSplit(q) \/ CompleteFatal(q)
      PROVE  SenderFrame
  BY <1>3 DEF CompleteSplit, CompleteFatal
<1>4. ASSUME NEW b PROVE /\ ErrorAfterFailure(b) \in {txn_error, "abortable"}
                         /\ Fatal => ErrorAfterFailure(b) = txn_error
  BY DEF ErrorAfterFailure
<1>5. ASSUME NEW q \in requests, CompleteFailed(q) PROVE SenderFrame
  BY <1>4, <1>5 DEF CompleteFailed
<1>6. ASSUME NEW p \in Partitions, ExpireRetry(p) PROVE SenderFrame
  BY <1>4, <1>6 DEF ExpireRetry
<1>7. CASE SweepRecovered \/ FailExpired \/ DrainFence
  BY <1>7 DEF SweepRecovered, FailExpired, DrainFence
<1> QED BY <1>1, <1>2, <1>3, <1>5, <1>6, <1>7 DEF SenderWork, SenderSteps

\* The steps of the leaders leave the producer alone, but for the answers.
LeaderWork ==
  \E q \in requests :
    \/ LeaderAnswers(q) \/ LeaderAppendsAndFails(q) \/ TransportFails(q)
    \/ \E code \in ProduceCodes : LeaderRefuses(q, code)

LeaderFrame ==
  UNCHANGED <<txnVars, call, sending, queue, taken, retry, next_seq, in_flight,
              active, swept, recordVars, ghostVars>>

\* One request is answered, and its batch may be appended.
Served(q) ==
  /\ q.answer = "none"
  /\ \E code \in (Answers \ {"MESSAGE_TOO_LARGE"}) \cup {TxnLeaderCode(q.batch)} :
       Answer(q, code)
  /\ LeaderAppends(q.batch) \/ UNCHANGED <<coordVars, logVars>>

LEMMA LeaderWorkServes ==
  ASSUME LeaderWork
  PROVE  LeaderFrame /\ \E q \in requests : Served(q)
<1>1. PICK q \in requests :
        \/ LeaderAnswers(q) \/ LeaderAppendsAndFails(q) \/ TransportFails(q)
        \/ \E code \in ProduceCodes : LeaderRefuses(q, code)
  BY DEF LeaderWork
<1>2. /\ LeaderFrame /\ q.answer = "none"
      /\ LeaderAppends(q.batch) \/ UNCHANGED <<coordVars, logVars>>
  BY <1>1 DEF LeaderAnswers, LeaderAppendsAndFails, TransportFails, LeaderRefuses,
              LeaderFrame
<1>3. \E code \in {TxnLeaderCode(q.batch), "RETRIABLE", "TRANSPORT", "TERMINAL", "FATAL"} :
        Answer(q, code)
  BY <1>1, TransactionConstants
     DEF LeaderAnswers, LeaderAppendsAndFails, TransportFails, LeaderRefuses
<1>4. {"RETRIABLE", "TRANSPORT", "TERMINAL", "FATAL"} \subseteq Answers \ {"MESSAGE_TOO_LARGE"}
  BY DEF Answers, BrokerCodes
<1>5. Served(q)
  BY <1>2, <1>3, <1>4 DEF Served
<1> QED BY <1>2, <1>5

LEMMA NoCallType == NoCall \in Call /\ NoCall.op = "none"
BY TransactionConstants DEF NoCall, Call, TxnStates

\* The calls that start.
LEMMA EndStartCall ==
  ASSUME ControlTyped, NEW op \in {"commit", "abort"}, NEW t \in 0..MaxTransactions,
         EndStart(op, t)
  PROVE  /\ call' \in Call /\ call' # NoCall /\ call'.op = op /\ call'.guard = t
         /\ call'.pc = (IF op = "commit" THEN "flush" ELSE "drop")
         /\ call'.prev = txn_state /\ call'.todo = Partitions
         /\ call'.applied = FALSE
<1> DEFINE pc == IF op = "commit" THEN "flush" ELSE "drop"
           c == [NoCall EXCEPT !.op = op, !.guard = t, !.prev = txn_state,
                               !.todo = Partitions, !.pc = pc]
<1>1. pc \in {"flush", "drop"} /\ txn_state \in TxnStates /\ call' = c
  BY DEF ControlTyped, StateTyped, EndStart
<1> HIDE DEF pc
<1>2. /\ c \in Call /\ c.op = op /\ c.pc = pc /\ c.guard = t
      /\ c.prev = txn_state /\ c.todo = Partitions /\ c.applied = FALSE
  BY <1>1, NoCallType DEF NoCall, Call
<1> HIDE DEF c
<1> QED BY <1>1, <1>2, NoCallType DEF pc

LEMMA PrepareStartCall ==
  ASSUME ControlTyped, NEW t \in Transactions, PrepareStart(t)
  PROVE  /\ call' \in Call /\ call' # NoCall /\ call'.op = "prepare"
         /\ call'.pc = "flush" /\ call'.guard = t
         /\ call'.prev = txn_state /\ call'.todo = Partitions
         /\ call'.applied = FALSE
<1> DEFINE c == [NoCall EXCEPT !.op = "prepare", !.pc = "flush", !.guard = t,
                               !.prev = txn_state, !.todo = Partitions]
<1>1. txn_state \in TxnStates /\ t \in 0..MaxTransactions /\ call' = c
  BY TransactionConstants DEF ControlTyped, StateTyped, Transactions, PrepareStart
<1>2. /\ c \in Call /\ c.op = "prepare" /\ c.pc = "flush" /\ c.guard = t
      /\ c.prev = txn_state /\ c.todo = Partitions /\ c.applied = FALSE
  BY <1>1, NoCallType DEF NoCall, Call
<1> HIDE DEF c
<1> QED BY <1>1, <1>2, NoCallType

LEMMA InitStartCall ==
  ASSUME ControlTyped, NEW keep \in BOOLEAN, InitStart(keep)
  PROVE  /\ call' \in Call /\ call' # NoCall /\ call'.op = "init" /\ call'.pc = "init"
         /\ call'.prev = txn_state /\ call'.applied = FALSE
<1> DEFINE c == [NoCall EXCEPT !.op = "init", !.pc = "init", !.prev = txn_state,
                               !.keep = keep]
<1>1. txn_state \in TxnStates /\ call' = c
  BY DEF ControlTyped, StateTyped, InitStart
<1>2. /\ c \in Call /\ c.op = "init" /\ c.pc = "init" /\ c.prev = txn_state
      /\ c.applied = FALSE
  BY <1>1, NoCallType DEF NoCall, Call
<1> HIDE DEF c
<1> QED BY <1>1, <1>2, NoCallType

\* The steps of the EndTxn exchange.
EndTxnStep ==
  EndTxnAnswered \/ EndTxnLost \/ \E code \in RefusalCodes : EndTxnRefused(code)

\* The coordinator may end the transaction, and only if it does, or did before,
\* does the call complete.
EndTxnEffect ==
  /\ call.pc = "end" /\ call' \in Call /\ call'.pc \in {"end", "lookup", "apply"}
  /\ call'.op = call.op /\ call'.prev = call.prev /\ call'.guard = call.guard
  /\ \/ CoordinatorEnds /\ call'.applied = (call.applied \/ EndTxnApplies)
     \/ UNCHANGED coordVars /\ call'.applied = call.applied
  /\ call'.pc = "apply" /\ call'.decision = "Complete" =>
       /\ CoordinatorEnds /\ (EndTxnApplies \/ EndTxnRepeated)
       /\ call'.found = EpochAfterEnd
  /\ UNCHANGED <<txnVars, sending, senderVars, recordVars, ghostVars, logVars>>

LEMMA EndTxnStepEffect ==
  ASSUME ControlTyped, EndTxnStep
  PROVE  EndTxnEffect
<1>1. call \in Call /\ call.applied \in BOOLEAN
  BY DEF ControlTyped, CallTyped, Call
<1>2. EndTxnApplies \in BOOLEAN /\ -1 \in Int
  BY DEF EndTxnApplies
<1>3. EpochAfterEnd \in Int
  BY DEF EpochAfterEnd, ControlTyped, CoordTyped
<1>4. CASE EndTxnAnswered
  <2>1. EndTxnCode \in CoordinatorAttempts
    BY DEF EndTxnCode, CoordinatorAttempts, CoordinatorCodes
  <2>2. /\ call.pc = "end" /\ CoordinatorEnds
        /\ AfterAttempt(EndTxnCode, EndTxnApplies, EpochAfterEnd)
        /\ UNCHANGED <<txnVars, sending, senderVars, recordVars, ghostVars, logVars>>
    BY <1>4 DEF EndTxnAnswered
  <2>3. EndTxnCode = "NONE" => EndTxnApplies \/ EndTxnRepeated
    BY DEF EndTxnCode
  <2>4. /\ call' \in Call
        /\ call'.op = call.op /\ call'.prev = call.prev /\ call'.guard = call.guard
        /\ call'.pc \in {"end", "lookup", "apply"}
        /\ call'.applied = (call.applied \/ EndTxnApplies)
        /\ call'.pc = "apply" /\ call'.decision = "Complete" =>
             EndTxnCode = "NONE" /\ call'.found = EpochAfterEnd
    BY <1>1, <1>2, <1>3, <2>1, <2>2, AttemptEffect
  <2> QED BY <2>2, <2>3, <2>4 DEF EndTxnEffect
<1>5. ASSUME NEW attempt \in CoordinatorAttempts, attempt # "NONE",
             NEW applied \in BOOLEAN, call.pc = "end", AfterAttempt(attempt, applied, -1)
      PROVE  /\ call' \in Call
             /\ call'.op = call.op /\ call'.prev = call.prev /\ call'.guard = call.guard
             /\ call'.pc \in {"end", "lookup", "apply"}
             /\ call'.applied = (call.applied \/ applied)
             /\ ~(call'.pc = "apply" /\ call'.decision = "Complete")
  BY <1>1, <1>2, <1>5, AttemptEffect
<1>6. CASE EndTxnLost
  <2>1. PICK applied \in BOOLEAN :
          /\ \/ CoordinatorEnds /\ applied = EndTxnApplies
             \/ UNCHANGED coordVars /\ applied = FALSE
          /\ AfterAttempt("LOST", applied, -1)
    BY <1>2, <1>6 DEF EndTxnLost
  <2>2. /\ "LOST" \in CoordinatorAttempts /\ call.pc = "end"
        /\ UNCHANGED <<txnVars, sending, senderVars, recordVars, ghostVars, logVars>>
    BY <1>6 DEF CoordinatorAttempts, EndTxnLost
  <2>3. /\ call' \in Call
        /\ call'.op = call.op /\ call'.prev = call.prev /\ call'.guard = call.guard
        /\ call'.pc \in {"end", "lookup", "apply"}
        /\ call'.applied = (call.applied \/ applied)
        /\ ~(call'.pc = "apply" /\ call'.decision = "Complete")
    BY <1>5, <2>1, <2>2
  <2> QED BY <1>1, <2>1, <2>2, <2>3 DEF EndTxnEffect
<1>7. ASSUME NEW code \in RefusalCodes, EndTxnRefused(code) PROVE EndTxnEffect
  <2>1. code \in CoordinatorAttempts /\ code # "NONE"
    BY TransactionConstants DEF CoordinatorAttempts
  <2>2. PICK applied \in BOOLEAN : applied = FALSE
    OBVIOUS
  <2>3. AfterAttempt(code, applied, -1) /\ call.pc = "end"
    BY <1>7, <2>2 DEF EndTxnRefused
  <2>4. UNCHANGED <<txnVars, sending, senderVars, recordVars, ghostVars, coordVars,
                    logVars>>
    BY <1>7 DEF EndTxnRefused
  <2>5. /\ call' \in Call
        /\ call'.op = call.op /\ call'.prev = call.prev /\ call'.guard = call.guard
        /\ call'.pc \in {"end", "lookup", "apply"}
        /\ call'.applied = (call.applied \/ applied)
        /\ ~(call'.pc = "apply" /\ call'.decision = "Complete")
    BY <1>5, <2>1, <2>3
  <2> QED BY <1>1, <2>2, <2>3, <2>4, <2>5 DEF EndTxnEffect
<1> QED BY <1>4, <1>6, <1>7 DEF EndTxnStep

\* commit, abort and complete_transaction start alike.
Ends(op, t) == EndStart(op, t) /\ (t \in {0, begun} \/ "stale_guard" \in Faults)

\* The steps, one case for each kind of step that the proofs tell apart.
Cases ==
  \/ BeginTransaction
  \/ \E p \in Partitions : SendLock(p) \/ FlushScan(p) \/ DropScan(p) \/ LeaderForgets(p)
  \/ \E op \in {"commit", "abort"}, t \in 0..MaxTransactions : Ends(op, t)
  \/ \E t \in Transactions : PrepareStart(t) \/ DropGuard(t)
  \/ \E keep \in BOOLEAN : InitStart(keep)
  \/ FlushDone \/ DrainDone \/ FlushTimeout \/ CancelCall
  \/ EndTxnStep \/ EndTxnLookup \/ EndTxnApply
  \/ InitAnswered \/ InitLost \/ InitAdopt \/ OtherInit
  \/ SendRegister \/ SendAppend
  \/ \E code \in RefusalCodes : SendRegisterRefused(code) \/ InitRefused(code)
  \/ SenderWork \/ LeaderWork
  \/ UNCHANGED vars

LEMMA NextCases == [Next]_vars => Cases
<1> SUFFICES ASSUME [Next]_vars PROVE Cases
  OBVIOUS
<1>1. ASSUME NEW t \in Transactions, GuardEnds(t) PROVE Cases
  <2>1. t \in 0..MaxTransactions
    BY TransactionConstants DEF Transactions
  <2>2. Ends("commit", t) \/ Ends("abort", t)
    BY <1>1 DEF GuardEnds, Ends
  <2> QED BY <2>1, <2>2 DEF Cases
<1>2. ASSUME NEW token \in issued \cup {-1}, CompleteTransaction(token) PROVE Cases
  <2>1. 0 \in 0..MaxTransactions
    BY TransactionConstants
  <2>2. Ends("commit", 0) \/ Ends("abort", 0)
    BY <1>2 DEF CompleteTransaction, Ends
  <2> QED BY <2>1, <2>2 DEF Cases
<1>3. CASE AppSteps
  BY <1>1, <1>2, <1>3 DEF AppSteps, Cases
<1>4. CASE CallSteps
  BY <1>4 DEF CallSteps, EndTxnStep, Cases
<1>5. CASE SendSteps \/ SenderSteps
  BY <1>5 DEF SendSteps, SenderWork, Cases
<1>6. CASE FaultSteps
  BY <1>6 DEF FaultSteps, EndTxnStep, SenderWork, LeaderWork, Cases
<1>7. CASE \E q \in requests : LeaderAnswers(q)
  BY <1>7 DEF LeaderWork, Cases
<1>8. CASE Stopped \/ UNCHANGED vars
  BY <1>8 DEF Stopped, Cases
<1> QED BY <1>3, <1>4, <1>5, <1>6, <1>7, <1>8 DEF Next

LEMMA CallTypedStep ==
  ASSUME ControlTyped, Cases
  PROVE  CallTyped'
<1> USE DEF CallTyped, Idle
<1>1. CallTyped /\ txn_state \in TxnStates
  BY DEF ControlTyped, StateTyped
<1>2. ASSUME call' = call \/ call' = NoCall PROVE CallTyped'
  BY <1>1, <1>2, NoCallType
<1>3. ASSUME call' \in Call, call'.op = call.op, call'.prev = call.prev, call.pc # "none"
      PROVE  CallTyped'
  BY <1>1, <1>3 DEF NoCall
<1>4. CASE BeginTransaction \/ CancelCall \/ FlushTimeout \/ EndTxnApply
  BY <1>2, <1>4 DEF BeginTransaction, CancelCall, FlushTimeout, EndTxnApply, ReturnTo,
                    FatalReturn
<1>5. CASE InitLost \/ InitAdopt \/ OtherInit \/ SendRegister \/ SendAppend \/ UNCHANGED vars
  BY <1>2, <1>5 DEF InitLost, InitAdopt, OtherInit, SendRegister, SendAppend, ReturnTo, vars
<1>6. ASSUME NEW p \in Partitions, SendLock(p) \/ LeaderForgets(p) PROVE CallTyped'
  BY <1>2, <1>6 DEF SendLock, LeaderForgets
<1>7. ASSUME NEW p \in Partitions, FlushScan(p) \/ DropScan(p) PROVE CallTyped'
  <2>1. CASE FlushScan(p)
    BY <1>1, <1>3, <2>1 DEF FlushScan, Call
  <2>2. CASE DropScan(p)
    BY <1>1, <1>3, <2>2 DEF DropScan, Call
  <2> QED BY <1>7, <2>1, <2>2
<1>8. ASSUME NEW op \in {"commit", "abort"}, NEW t \in 0..MaxTransactions, Ends(op, t)
      PROVE  CallTyped'
  BY <1>1, <1>8, EndStartCall DEF Ends
<1>9. ASSUME NEW t \in Transactions, PrepareStart(t) \/ DropGuard(t) PROVE CallTyped'
  BY <1>1, <1>2, <1>9, PrepareStartCall DEF DropGuard
<1>10. ASSUME NEW keep \in BOOLEAN, InitStart(keep) PROVE CallTyped'
  BY <1>1, <1>10, InitStartCall
<1>11. CASE FlushDone
  <2>1. CASE call' = [call EXCEPT !.todo = Partitions] \/ call' = [call EXCEPT !.pc = "end"]
    BY <1>1, <1>3, <1>11, <2>1 DEF FlushDone, Call
  <2> QED BY <1>2, <1>11, <2>1 DEF FlushDone, ReturnTo
<1>12. CASE DrainDone
  BY <1>1, <1>3, <1>12 DEF DrainDone, Call
<1>13. CASE EndTxnStep
  BY <1>3, <1>13, EndTxnStepEffect DEF EndTxnEffect
<1>14. CASE EndTxnLookup
  <2>1. ASSUME NEW d \in EndTxnDecisions, call.pc = "lookup",
               call' = [call EXCEPT !.pc = "apply", !.decision = d]
        PROVE  CallTyped'
    BY <1>1, <1>3, <2>1 DEF Call
  <2>2. ASSUME NEW refusal \in LookupRefusals
        PROVE  DecideEndTxnAfterRefusedLookup(refusal, call.lost, call.op = "commit")
                 \in EndTxnDecisions
    BY DEF DecideEndTxnAfterRefusedLookup, LookupRefusals, EndTxnDecisions
  <2>3. CASE call' = [call EXCEPT !.pc = "end"]
    BY <1>1, <1>3, <1>14, <2>3 DEF EndTxnLookup, Call
  <2> QED BY <1>14, <2>1, <2>2, <2>3 DEF EndTxnLookup
<1>15. CASE InitAnswered
  <2> DEFINE ongoing == IF call.keep /\ open # {} THEN coord.ongoing ELSE -1
  <2>1. coord.epoch + 1 \in Int /\ ongoing \in Int
    BY DEF ControlTyped, CoordTyped
  <2>2. /\ call.pc = "init"
        /\ call' = [call EXCEPT !.pc = "adopt", !.found = coord.epoch + 1,
                                !.ongoing = ongoing]
    BY <1>15 DEF InitAnswered
  <2> HIDE DEF ongoing
  <2>3. call' \in Call /\ call'.op = call.op /\ call'.prev = call.prev
    BY <1>1, <2>1, <2>2 DEF Call
  <2> QED BY <1>3, <2>2, <2>3
<1>16. ASSUME NEW code \in RefusalCodes, SendRegisterRefused(code) \/ InitRefused(code)
       PROVE  CallTyped'
  BY <1>2, <1>16 DEF SendRegisterRefused, InitRefused, ReturnTo, FatalReturn
<1>17. CASE SenderWork \/ LeaderWork
  BY <1>2, <1>17, SenderWorkFrame, LeaderWorkServes DEF SenderFrame, LeaderFrame
<1> QED BY <1>4, <1>5, <1>6, <1>7, <1>8, <1>9, <1>10, <1>11, <1>12, <1>13, <1>14,
           <1>15, <1>16, <1>17 DEF Cases

LEMMA SendTypedStep ==
  ASSUME ControlTyped, Cases
  PROVE  SendTyped'
<1>1. SendTyped /\ recovery_generation \in Nat
  BY DEF ControlTyped, StateTyped
<1>2. ASSUME sending' = sending \/ sending' = NoSend PROVE SendTyped'
  BY <1>1, <1>2 DEF SendTyped, NoSend
<1>3. ASSUME NEW p \in Partitions, SendLock(p) PROVE SendTyped'
  <2> DEFINE pc == IF TransactionV2 THEN "append" ELSE "register"
  <2>1. pc \in {"append", "register"} /\ sending' = [part |-> p, pc |-> pc, gen |-> recovery_generation]
    BY <1>3 DEF SendLock
  <2> HIDE DEF pc
  <2> QED BY <1>1, <2>1 DEF SendTyped, NoSend
<1>4. CASE SendRegister
  <2>1. CASE sending' = [sending EXCEPT !.pc = "append"]
    <3>1. sending.pc = "register" /\ sending.part \in Partitions
      BY <1>1, <1>4 DEF SendRegister, SendTyped, NoSend
    <3> QED BY <1>1, <2>1, <3>1 DEF SendTyped, NoSend
  <2> QED BY <1>2, <1>4, <2>1 DEF SendRegister
<1>5. CASE SendAppend \/ BeginTransaction \/ CancelCall \/ FlushTimeout \/ EndTxnApply
  BY <1>2, <1>5 DEF SendAppend, BeginTransaction, CancelCall, FlushTimeout, EndTxnApply
<1>6. CASE InitLost \/ InitAdopt \/ OtherInit \/ InitAnswered \/ UNCHANGED vars
  BY <1>2, <1>6 DEF InitLost, InitAdopt, OtherInit, InitAnswered, vars
<1>7. ASSUME NEW p \in Partitions, FlushScan(p) \/ DropScan(p) \/ LeaderForgets(p)
      PROVE  SendTyped'
  BY <1>2, <1>7 DEF FlushScan, DropScan, LeaderForgets
<1>8. ASSUME NEW op, NEW t, Ends(op, t) \/ PrepareStart(t) \/ DropGuard(t) PROVE SendTyped'
  BY <1>2, <1>8 DEF Ends, EndStart, PrepareStart, DropGuard
<1>9. ASSUME NEW keep, InitStart(keep) PROVE SendTyped'
  BY <1>2, <1>9 DEF InitStart
<1>10. CASE FlushDone \/ DrainDone \/ EndTxnLookup
  BY <1>2, <1>10 DEF FlushDone, DrainDone, EndTxnLookup
<1>11. CASE EndTxnStep
  BY <1>2, <1>11, EndTxnStepEffect DEF EndTxnEffect
<1>12. ASSUME NEW code, SendRegisterRefused(code) \/ InitRefused(code) PROVE SendTyped'
  BY <1>2, <1>12 DEF SendRegisterRefused, InitRefused
<1>13. CASE SenderWork \/ LeaderWork
  BY <1>2, <1>13, SenderWorkFrame, LeaderWorkServes DEF SenderFrame, LeaderFrame
<1> QED BY <1>3, <1>4, <1>5, <1>6, <1>7, <1>8, <1>9, <1>10, <1>11, <1>12, <1>13
        DEF Cases

\* The coordinator's part: what an InitProducerId, an EndTxn and an append do.
LEMMA InitsEffect ==
  ASSUME CoordTyped, NEW keep, CoordinatorInits(keep)
  PROVE  /\ coord' = [epoch |-> coord.epoch + 1, last |-> "none",
                      ongoing |-> coord.ongoing]
         /\ CoordTyped'
<1>1. coord' = [coord EXCEPT !.epoch = @ + 1, !.last = "none"]
  BY DEF CoordinatorInits
<1>2. coord.epoch \in Int /\ coord.ongoing \in Int
  BY DEF CoordTyped
<1>3. coord' = [epoch |-> coord.epoch + 1, last |-> "none", ongoing |-> coord.ongoing]
  BY <1>1 DEF CoordTyped
<1> QED BY <1>2, <1>3 DEF CoordTyped

LEMMA EndsEffect ==
  ASSUME CoordTyped, CallTyped, CoordinatorEnds, EndTxnApplies
  PROVE  /\ coord' = [epoch |-> IF TransactionV2 THEN coord.epoch + 1 ELSE coord.epoch,
                      last |-> call.op, ongoing |-> coord.ongoing]
         /\ CoordTyped'
<1>1. coord' = [coord EXCEPT !.epoch = IF TransactionV2 THEN @ + 1 ELSE @, !.last = call.op]
  BY DEF CoordinatorEnds
<1>2. /\ coord.epoch \in Int /\ coord.ongoing \in Int
      /\ call.op \in {"none", "commit", "abort", "prepare", "init"}
  BY DEF CoordTyped, CallTyped, Call
<1>3. coord' = [epoch |-> IF TransactionV2 THEN coord.epoch + 1 ELSE coord.epoch,
                last |-> call.op, ongoing |-> coord.ongoing]
  BY <1>1 DEF CoordTyped
<1> QED BY <1>2, <1>3 DEF CoordTyped

LEMMA CoordTypedStep ==
  ASSUME Typed, Cases
  PROVE  CoordTyped'
<1>1. CoordTyped /\ ControlTyped
  BY DEF Typed, ControlTyped
<1>2. ASSUME coord' = coord PROVE CoordTyped'
  BY <1>1, <1>2 DEF CoordTyped
<1>3. ASSUME NEW keep, CoordinatorInits(keep) PROVE CoordTyped'
  BY <1>1, <1>3, InitsEffect
<1>4. CASE EndTxnStep
  <2>1. CASE CoordinatorEnds
    <3>1. CASE EndTxnApplies
      BY <1>1, <2>1, <3>1, EndsEffect DEF ControlTyped
    <3> QED BY <1>2, <2>1, <3>1 DEF CoordinatorEnds, coordVars
  <2> QED BY <1>1, <1>2, <1>4, <2>1, EndTxnStepEffect DEF EndTxnEffect, coordVars
<1>5. CASE LeaderWork
  <2>1. PICK q \in requests : Served(q)
    BY <1>5, LeaderWorkServes
  <2>2. q.batch.epoch \in Int
    BY DEF Typed, PipelineTyped, SlotsTyped, Request, SealedBatch
  <2>3. CASE LeaderAppends(q.batch)
    <3>1. CASE coord' = [coord EXCEPT !.ongoing = IF open = {} THEN q.batch.epoch ELSE @]
      BY <1>1, <2>2, <3>1 DEF CoordTyped
    <3> QED BY <1>2, <2>3, <3>1 DEF LeaderAppends, coordVars
  <2> QED BY <1>2, <2>1, <2>3 DEF Served, coordVars
<1> USE DEF coordVars
<1>6. CASE SendRegister \/ SendAppend \/ BeginTransaction \/ CancelCall \/ FlushTimeout
  BY <1>2, <1>6 DEF SendRegister, SendAppend, BeginTransaction, CancelCall, FlushTimeout
<1>7. CASE InitLost \/ OtherInit \/ InitAnswered
  BY <1>2, <1>3, <1>7 DEF InitLost, OtherInit, InitAnswered
<1>8. CASE InitAdopt \/ EndTxnApply \/ UNCHANGED vars
  BY <1>2, <1>8 DEF InitAdopt, EndTxnApply, vars
<1>9. ASSUME NEW p \in Partitions,
             SendLock(p) \/ FlushScan(p) \/ DropScan(p) \/ LeaderForgets(p)
      PROVE  CoordTyped'
  BY <1>2, <1>9 DEF SendLock, FlushScan, DropScan, LeaderForgets
<1>10. ASSUME NEW op, NEW t, Ends(op, t) \/ PrepareStart(t) \/ DropGuard(t)
       PROVE  CoordTyped'
  BY <1>2, <1>10 DEF Ends, EndStart, PrepareStart, DropGuard
<1>11. ASSUME NEW keep, InitStart(keep) PROVE CoordTyped'
  BY <1>2, <1>11 DEF InitStart
<1>12. CASE FlushDone \/ DrainDone \/ EndTxnLookup
  BY <1>2, <1>12 DEF FlushDone, DrainDone, EndTxnLookup
<1>13. ASSUME NEW code, SendRegisterRefused(code) \/ InitRefused(code) PROVE CoordTyped'
  BY <1>2, <1>13 DEF SendRegisterRefused, InitRefused
<1>14. CASE SenderWork
  BY <1>2, <1>14, SenderWorkFrame DEF SenderFrame
<1> QED BY <1>4, <1>5, <1>6, <1>7, <1>8, <1>9, <1>10, <1>11, <1>12, <1>13, <1>14
        DEF Cases

LEMMA StateTypedStep ==
  ASSUME ControlTyped, Cases
  PROVE  StateTyped'
<1> USE DEF txnVars, ghostVars
<1>1. StateTyped /\ CallTyped /\ CoordTyped
  BY DEF ControlTyped
<1>2. ASSUME UNCHANGED <<txnVars, begun, told, issued>> PROVE StateTyped'
  BY <1>1, <1>2 DEF StateTyped
<1>3. ASSUME RequireRecovery
      PROVE  recovery_required' \in BOOLEAN /\ recovery_generation' \in Nat
  BY <1>1, <1>3 DEF RequireRecovery, StateTyped
<1>4. /\ call.pc # "none" => call.prev \in TxnStates
      /\ call.found \in Int /\ call.ongoing \in Int /\ 0 \in 0..MaxTransactions
  BY <1>1, TransactionConstants DEF CallTyped, Call, NoCall
<1>5. CASE BeginTransaction
  <2>1. begun + 1 \in Transactions /\ begun + 1 \in 0..MaxTransactions
    BY <1>1, <1>5, TransactionConstants DEF BeginTransaction, StateTyped, Transactions
  <2> QED BY <1>1, <1>5, <2>1 DEF BeginTransaction, StateTyped, TxnStates
<1>6. ASSUME NEW p \in Partitions,
             SendLock(p) \/ FlushScan(p) \/ DropScan(p) \/ LeaderForgets(p)
      PROVE  StateTyped'
  BY <1>2, <1>6 DEF SendLock, FlushScan, DropScan, LeaderForgets
<1>7. ASSUME NEW op \in {"commit", "abort"}, NEW t \in 0..MaxTransactions, Ends(op, t)
      PROVE  StateTyped'
  <2>1. told' \in [Transactions -> {"none", "aborting", "committed", "aborted"}]
    BY <1>1, <1>7 DEF Ends, EndStart, StateTyped
  <2>2. /\ txn_state' = "CommittingOrAborting" /\ begun' = begun /\ issued' = issued
        /\ UNCHANGED <<txn_error, recovery_required, recovery_generation, epoch,
                       prepared, open_guard, handles>>
    BY <1>7 DEF Ends, EndStart
  <2> QED BY <1>1, <2>1, <2>2 DEF StateTyped, TxnStates
<1>8. ASSUME NEW t \in Transactions, PrepareStart(t) PROVE StateTyped'
  BY <1>1, <1>8 DEF PrepareStart, StateTyped, TxnStates
<1>9. ASSUME NEW t \in Transactions, DropGuard(t) PROVE StateTyped'
  BY <1>1, <1>3, <1>4, <1>9 DEF DropGuard, StateTyped
<1>10. ASSUME NEW keep \in BOOLEAN, InitStart(keep) PROVE StateTyped'
  BY <1>1, <1>10 DEF InitStart, StateTyped, TxnStates
<1>11. CASE CancelCall
  BY <1>1, <1>3, <1>4, <1>11 DEF CancelCall, StateTyped
<1>12. CASE SendAppend \/ DrainDone \/ EndTxnLookup \/ InitAnswered \/ OtherInit \/ UNCHANGED vars
  BY <1>2, <1>12 DEF SendAppend, DrainDone, EndTxnLookup, InitAnswered, OtherInit, vars
<1>13. CASE EndTxnStep
  BY <1>2, <1>13, EndTxnStepEffect DEF EndTxnEffect
<1>14. CASE LeaderWork
  BY <1>2, <1>14, LeaderWorkServes DEF LeaderFrame
<1>15. CASE SenderWork
  <2>1. txn_error' \in {"none", "abortable", "Fenced", "Server"}
    BY <1>1, <1>15, SenderWorkFrame DEF SenderFrame, StateTyped
  <2> QED BY <1>1, <1>15, <2>1, SenderWorkFrame DEF SenderFrame, StateTyped
<1>16. CASE SendRegister
  BY <1>1, <1>2, <1>4, <1>16 DEF SendRegister, StateTyped, TxnStates
<1>17. ASSUME NEW code \in RefusalCodes, SendRegisterRefused(code) PROVE StateTyped'
  <2>1. DecideAddPartitions(code) \in {"Retry", "Abortable", "Fenced", "Fatal", "Done"}
    BY DEF DecideAddPartitions
  <2>2. code # "NONE"
    BY TransactionConstants
  <2>3. DecideAddPartitions(code) # "Done"
    BY <2>2 DEF DecideAddPartitions
  <2>4. /\ txn_error' \in {"none", "abortable", "Fenced", "Server"}
        /\ txn_state' \in TxnStates /\ open_guard' \in 0..MaxTransactions
    BY <1>1, <1>4, <1>17, <2>1, <2>3
       DEF SendRegisterRefused, StateTyped, TxnStates, Unless
  <2> QED BY <1>1, <1>17, <2>4 DEF SendRegisterRefused, StateTyped
<1>18. ASSUME NEW code \in RefusalCodes, InitRefused(code) PROVE StateTyped'
  <2>1. /\ txn_error' \in {"none", "abortable", "Fenced", "Server"}
        /\ txn_state' \in TxnStates /\ open_guard' \in 0..MaxTransactions
    BY <1>1, <1>4, <1>18
       DEF InitRefused, StateTyped, TxnStates, ReturnTo, FatalReturn
  <2> QED BY <1>1, <1>18, <2>1 DEF InitRefused, StateTyped
<1>19. CASE FlushTimeout \/ InitLost
  <2>1. txn_state' \in TxnStates
    BY <1>1, <1>4, <1>19 DEF FlushTimeout, InitLost, StateTyped, ReturnTo
  <2> QED BY <1>1, <1>19, <2>1 DEF FlushTimeout, InitLost, StateTyped
<1>20. CASE FlushDone
  <2>1. txn_state' \in TxnStates
    BY <1>1, <1>4, <1>20 DEF FlushDone, StateTyped, ReturnTo, TxnStates
  <2>2. prepared' \in Int /\ open_guard' \in 0..MaxTransactions /\ issued' \subseteq Int
    BY <1>1, <1>4, <1>20 DEF FlushDone, StateTyped
  <2>3. UNCHANGED <<txn_error, recovery_required, recovery_generation, epoch, handles,
                    begun, told>>
    BY <1>20 DEF FlushDone
  <2> QED BY <1>1, <2>1, <2>2, <2>3 DEF StateTyped
<1>21. CASE EndTxnApply
  <2>1. txn_state' \in TxnStates
    BY <1>4, <1>21 DEF EndTxnApply, ReturnTo, FatalReturn, TxnStates
  <2>2. /\ txn_error' \in {"none", "abortable", "Fenced", "Server"}
        /\ open_guard' \in 0..MaxTransactions /\ handles' \subseteq Transactions
    BY <1>1, <1>4, <1>21 DEF EndTxnApply, FatalReturn, Unless, StateTyped
  <2>3. recovery_required' \in BOOLEAN /\ recovery_generation' \in Nat
    BY <1>1, <1>3, <1>21 DEF EndTxnApply, StateTyped
  <2>4. epoch' \in Int /\ prepared' \in Int
    BY <1>1, <1>4, <1>21 DEF EndTxnApply, AdoptIdentity, StateTyped
  <2>5. told' \in [Transactions -> {"none", "aborting", "committed", "aborted"}]
    BY <1>1, <1>21 DEF EndTxnApply, StateTyped
  <2>6. begun' = begun /\ issued' = issued
    BY <1>21 DEF EndTxnApply
  <2> QED BY <1>1, <2>1, <2>2, <2>3, <2>4, <2>5, <2>6 DEF StateTyped
<1>22. CASE InitAdopt
  <2>1. txn_state' \in TxnStates
    BY <1>22 DEF InitAdopt, TxnStates
  <2>2. /\ txn_error' \in {"none", "abortable", "Fenced", "Server"}
        /\ epoch' \in Int /\ prepared' \in Int /\ recovery_required' \in BOOLEAN
        /\ open_guard' \in 0..MaxTransactions
    BY <1>1, <1>4, <1>22 DEF InitAdopt, AdoptIdentity, Unless, StateTyped
  <2>3. UNCHANGED <<recovery_generation, handles, begun, told, issued>>
    BY <1>22 DEF InitAdopt
  <2> QED BY <1>1, <2>1, <2>2, <2>3 DEF StateTyped
<1> QED BY <1>5, <1>6, <1>7, <1>8, <1>9, <1>10, <1>11, <1>12, <1>13, <1>14, <1>15,
           <1>16, <1>17, <1>18, <1>19, <1>20, <1>21, <1>22 DEF Cases

-----------------------------------------------------------------------------
(* The drained batches.                                                    *)

LEMMA ParkedFinite == IsFiniteSet(Parked) /\ Cardinality(Parked) \in Nat
<1>1. Parked \in SUBSET Partitions
  BY DEF Parked
<1> QED BY <1>1, FS_Subset, FS_CardinalityType, TransactionConstants

LEMMA RequestsFinite == SlotsTyped => Cardinality(requests) \in Nat
BY FS_CardinalityType DEF SlotsTyped

LEMMA ParkedBatch ==
  ASSUME SlotsTyped, NEW p \in Parked
  PROVE  retry[p] \in SealedBatch /\ retry[p].part = p /\ p \in Partitions
BY DEF SlotsTyped, Parked

LEMMA RequestBatch ==
  ASSUME SlotsTyped, NEW q \in requests
  PROVE  /\ q.batch \in SealedBatch /\ q.batch.part \in Partitions
         /\ q.batch.recs \in Seq(Records) /\ q.batch.seq \in Nat
         /\ q.answer \in Answers \cup {"queued", "none", "BARRED"}
BY DEF SlotsTyped, Request, SealedBatch

\* A request is done with.
LEMMA SlotsRemove ==
  ASSUME SlotsTyped, NEW q \in requests, requests' = requests \ {q},
         retry' = retry, in_flight' = in_flight - 1
  PROVE  SlotsTyped' /\ Outstanding' \subseteq Outstanding
<1>1. Parked' = Parked
  BY DEF Parked
<1>2. IsFiniteSet(requests') /\ Cardinality(requests') = Cardinality(requests) - 1
  BY FS_RemoveElement DEF SlotsTyped
<1>3. Outstanding' \subseteq Outstanding
  BY <1>1 DEF Outstanding
<1> QED BY <1>1, <1>2, <1>3, ParkedFinite, RequestsFinite DEF SlotsTyped

\* A request is answered.
LEMMA SlotsReplace ==
  ASSUME SlotsTyped, NEW q \in requests, NEW n \in Request, n.batch = q.batch,
         requests' = (requests \ {q}) \cup {n}, retry' = retry, in_flight' = in_flight
  PROVE  SlotsTyped' /\ Outstanding' \subseteq Outstanding
<1>1. Parked' = Parked
  BY DEF Parked
<1>2. /\ IsFiniteSet(requests \ {q})
      /\ Cardinality(requests \ {q}) = Cardinality(requests) - 1
  BY FS_RemoveElement DEF SlotsTyped
<1>3. n \notin requests \ {q}
  BY DEF SlotsTyped
<1>4. IsFiniteSet(requests') /\ Cardinality(requests') = Cardinality(requests \ {q}) + 1
  BY <1>2, <1>3, FS_AddElement
<1>5. \A q1, q2 \in requests' : q1.batch.part = q2.batch.part => q1 = q2
  BY DEF SlotsTyped
<1>6. Outstanding' \subseteq Outstanding
  BY <1>1 DEF Outstanding
<1> QED BY <1>1, <1>2, <1>4, <1>5, <1>6, ParkedFinite, RequestsFinite DEF SlotsTyped

\* A request starts for an idle partition.
LEMMA SlotsAdd ==
  ASSUME SlotsTyped, NEW n \in Request, n.batch.part \notin Occupied,
         requests' = requests \cup {n}, retry' = retry, in_flight' = in_flight + 1
  PROVE  SlotsTyped' /\ Outstanding' \subseteq Outstanding \cup {n.batch}
<1>1. Parked' = Parked
  BY DEF Parked
<1>2. n.batch.part \notin Parked /\ \A q \in requests : q.batch.part # n.batch.part
  BY DEF Occupied, Parked
<1>3. IsFiniteSet(requests') /\ Cardinality(requests') = Cardinality(requests) + 1
  BY <1>2, FS_AddElement DEF SlotsTyped
<1>4. Outstanding' \subseteq Outstanding \cup {n.batch}
  BY <1>1 DEF Outstanding
<1> QED BY <1>1, <1>2, <1>3, <1>4, ParkedFinite, RequestsFinite DEF SlotsTyped

\* The batch of a request goes to the retry slot.
LEMMA SlotsPark ==
  ASSUME SlotsTyped, NEW q \in requests, NEW b \in SealedBatch,
         b.part = q.batch.part, requests' = requests \ {q},
         retry' = [retry EXCEPT ![q.batch.part] = b], in_flight' = in_flight
  PROVE  SlotsTyped' /\ Outstanding' \subseteq Outstanding \cup {b}
<1>1. q.batch.part \in Partitions /\ b # NoBatch
  BY RequestBatch, NoBatchAssumption
<1>2. Parked' = Parked \cup {q.batch.part} /\ q.batch.part \notin Parked
  BY <1>1 DEF SlotsTyped, Parked
<1>3. Cardinality(Parked') = Cardinality(Parked) + 1
  BY <1>2, ParkedFinite, FS_AddElement
<1>4. IsFiniteSet(requests') /\ Cardinality(requests') = Cardinality(requests) - 1
  BY FS_RemoveElement DEF SlotsTyped
<1>5. \A p \in Parked' : retry'[p].part = p
  BY <1>1, <1>2 DEF SlotsTyped, Parked
<1>6. \A x \in requests' : x.batch.part \notin Parked'
  BY <1>2 DEF SlotsTyped
<1>7. retry' \in [Partitions -> SealedBatch \cup {NoBatch}]
  BY <1>1 DEF SlotsTyped
<1>8. in_flight' = Cardinality(requests') + Cardinality(Parked')
  BY <1>3, <1>4, ParkedFinite, RequestsFinite DEF SlotsTyped
<1>9. Outstanding' \subseteq Outstanding \cup {b}
  BY <1>1, <1>2 DEF Outstanding, SlotsTyped, Parked
<1> QED BY <1>4, <1>5, <1>6, <1>7, <1>8, <1>9 DEF SlotsTyped

\* The batch in a retry slot is sent again, or fails.
LEMMA SlotsUnpark ==
  ASSUME SlotsTyped, NEW p \in Parked, retry' = [retry EXCEPT ![p] = NoBatch],
         NEW answer \in Answers \cup {"queued", "none", "BARRED"},
         \/ /\ requests' = requests \cup {[batch |-> retry[p], answer |-> answer]}
            /\ in_flight' = in_flight
         \/ requests' = requests /\ in_flight' = in_flight - 1
  PROVE  SlotsTyped' /\ Outstanding' \subseteq Outstanding
<1> DEFINE n == [batch |-> retry[p], answer |-> answer]
<1>1. retry[p] \in SealedBatch /\ retry[p].part = p /\ p \in Partitions
  BY ParkedBatch
<1>2. Parked' = Parked \ {p}
  BY <1>1 DEF SlotsTyped, Parked
<1>3. Cardinality(Parked') = Cardinality(Parked) - 1
  BY <1>2, ParkedFinite, FS_RemoveElement
<1>4. n \in Request /\ n.batch.part = p /\ \A q \in requests : q.batch.part # p
  BY <1>1 DEF Request, SlotsTyped
<1>5. \A x \in Parked' : retry'[x].part = x
  BY <1>2 DEF SlotsTyped, Parked
<1>6. retry' \in [Partitions -> SealedBatch \cup {NoBatch}]
  BY DEF SlotsTyped
<1>7. ASSUME requests' = requests \cup {n}, in_flight' = in_flight PROVE SlotsTyped'
  <2>1. IsFiniteSet(requests') /\ Cardinality(requests') = Cardinality(requests) + 1
    BY <1>4, <1>7, FS_AddElement DEF SlotsTyped
  <2>2. in_flight' = Cardinality(requests') + Cardinality(Parked')
    BY <1>3, <1>7, <2>1, ParkedFinite, RequestsFinite DEF SlotsTyped
  <2> HIDE DEF n
  <2>3. /\ requests' \subseteq Request
        /\ \A q1, q2 \in requests' : q1.batch.part = q2.batch.part => q1 = q2
        /\ \A q \in requests' : q.batch.part \notin Parked'
    BY <1>2, <1>4, <1>7 DEF SlotsTyped
  <2> QED BY <1>5, <1>6, <2>1, <2>2, <2>3 DEF SlotsTyped
<1>8. ASSUME requests' = requests, in_flight' = in_flight - 1 PROVE SlotsTyped'
  <2>1. in_flight' = Cardinality(requests') + Cardinality(Parked')
    BY <1>3, <1>8, ParkedFinite, RequestsFinite DEF SlotsTyped
  <2> QED BY <1>2, <1>5, <1>6, <1>8, <2>1 DEF SlotsTyped
<1>9. Outstanding' \subseteq Outstanding
  BY <1>2 DEF Outstanding, SlotsTyped, Parked
<1> QED BY <1>7, <1>8, <1>9

\* fence drops the batches in the retry slots, and those of done.
LEMMA SlotsFence ==
  ASSUME SlotsTyped, NEW done \in SUBSET requests, done = {} \/ \E q : done = {q},
         requests' = requests \ done, retry' = [p \in Partitions |-> NoBatch],
         in_flight' = in_flight
                      - Cardinality({q.batch : q \in done} \cup {retry[p] : p \in Parked})
  PROVE  SlotsTyped' /\ Outstanding' \subseteq Outstanding
<1> DEFINE held == {retry[p] : p \in Parked}
           dead == {q.batch : q \in done} \cup held
<1>1. IsFiniteSet(held) /\ Cardinality(held) = Cardinality(Parked)
  <2> DEFINE f == [p \in Parked |-> retry[p]]
  <2>1. f \in Surjection(Parked, held)
    BY DEF Surjection
  <2>2. f \in Injection(Parked, held)
    <3>1. f \in [Parked -> held]
      OBVIOUS
    <3>2. ASSUME NEW x \in Parked, NEW y \in Parked, f[x] = f[y] PROVE x = y
      BY <3>2, ParkedBatch
    <3> HIDE DEF f
    <3> QED BY <3>1, <3>2 DEF Injection, IsInjective
  <2>3. ExistsBijection(Parked, held)
    BY <2>1, <2>2 DEF ExistsBijection, Bijection
  <2> QED BY <2>3, ParkedFinite, FS_Bijection
<1>2. /\ Cardinality(dead) = Cardinality(done) + Cardinality(Parked)
      /\ IsFiniteSet(done) /\ Cardinality(done) \in Nat
  <2>1. CASE done = {}
    <3>1. dead = held
      BY <2>1
    <3> QED BY <1>1, <2>1, <3>1, FS_EmptySet, ParkedFinite
  <2>2. ASSUME NEW q, done = {q}
        PROVE  /\ Cardinality(dead) = Cardinality(done) + Cardinality(Parked)
               /\ IsFiniteSet(done) /\ Cardinality(done) \in Nat
    <3>1. q \in requests /\ dead = held \cup {q.batch}
      BY <2>2
    <3>2. q.batch \notin held
      <4>1. \A p \in Parked : retry[p].part = p
        BY DEF SlotsTyped
      <4>2. q.batch.part \notin Parked
        BY <3>1 DEF SlotsTyped
      <4> QED BY <4>1, <4>2
    <3> HIDE DEF dead, held
    <3>3. Cardinality(dead) = Cardinality(held) + 1
      BY <1>1, <3>1, <3>2, FS_AddElement
    <3>4. IsFiniteSet(done) /\ Cardinality(done) = 1
      BY <2>2, FS_Singleton
    <3> QED BY <1>1, <3>3, <3>4, ParkedFinite
  <2> QED BY <2>1, <2>2
<1>3. Parked' = {}
  BY DEF Parked
<1>4. /\ IsFiniteSet(requests')
      /\ Cardinality(requests') = Cardinality(requests) - Cardinality(done)
  <2>1. requests \cap done = done
    OBVIOUS
  <2>2. IsFiniteSet(requests)
    BY DEF SlotsTyped
  <2>3. /\ IsFiniteSet(requests \ done)
        /\ Cardinality(requests \ done) =
             Cardinality(requests) - Cardinality(requests \cap done)
    BY <2>2, FS_Difference
  <2> QED BY <2>1, <2>3
<1>5. Cardinality(Parked') = 0
  BY <1>3, FS_EmptySet
<1>6. in_flight' = Cardinality(requests') + Cardinality(Parked')
  <2>1. in_flight' = in_flight - Cardinality(dead)
    OBVIOUS
  <2> HIDE DEF dead
  <2> QED BY <1>2, <1>4, <1>5, <2>1, ParkedFinite, RequestsFinite DEF SlotsTyped
<1>7. Outstanding' \subseteq Outstanding
  BY <1>3 DEF Outstanding
<1> QED BY <1>3, <1>4, <1>6, <1>7 DEF SlotsTyped

-----------------------------------------------------------------------------
(* What the sender task does with the batches.                             *)

\* The queued batches of the current generation, and the records of all batches
\* on their way.
Current == {b \in QueuedBatches : b.gen = recovery_generation}
Held == RecordsIn(QueuedBatches \cup taken \cup Outstanding)

\* A batch is outstanding as it was before, or it was built from a queued one.
Carried(b) ==
  \E c \in Outstanding : b.recs = c.recs /\ b.pid = c.pid /\ b.epoch = c.epoch
Built(b) ==
  /\ ~Fatal /\ ~recovery_required
  /\ \E c \in Current : b.recs = c.recs
  /\ b.pid = (IF Snapshot THEN 0 ELSE NoProducerId)
  /\ b.epoch = (IF Snapshot THEN epoch ELSE -1)

SlotMoves ==
  /\ SlotsTyped'
  /\ \A b \in Outstanding' : Carried(b) \/ Built(b)
  /\ \A q \in requests' : q \in requests \/ q.answer \in {"queued", "none", "BARRED"}

\* Nothing is added to a queue.
QueueMoves ==
  /\ QueueTyped'
  /\ QueuedBatches' \subseteq QueuedBatches
  /\ \A p \in Partitions : queue[p] = <<>> => queue'[p] = <<>>
  /\ taken' \subseteq taken \cup QueuedBatches

\* Only a record on its way is resolved.
OutcomeMoves ==
  /\ outcome' \in [Records -> {"none", "pending", "acked", "failed"}]
  /\ \A r \in Records : outcome'[r] = outcome[r] \/ (r \in Held /\ outcome'[r] # "none")

Moves ==
  /\ SlotMoves /\ QueueMoves /\ OutcomeMoves
  /\ next_seq' \in [Partitions -> Nat] /\ active' \in BOOLEAN

LEMMA SlotsStay ==
  ASSUME SlotsTyped, UNCHANGED <<requests, retry, in_flight>>
  PROVE  SlotMoves
<1>1. Parked' = Parked
  BY DEF Parked
<1>2. Outstanding' = Outstanding
  BY <1>1 DEF Outstanding
<1> QED BY <1>1, <1>2 DEF SlotMoves, SlotsTyped, Carried

LEMMA QueueStays ==
  ASSUME QueueTyped, UNCHANGED <<queue, taken>>
  PROVE  QueueMoves
BY DEF QueueTyped, QueueMoves, QueuedBatches

LEMMA OutcomeStays ==
  ASSUME RecordsTyped, UNCHANGED outcome
  PROVE  OutcomeMoves
BY DEF RecordsTyped, OutcomeMoves

LEMMA OutcomeResolves ==
  ASSUME RecordsTyped, NEW rs, NEW result \in {"acked", "failed"}, rs \subseteq Held,
         outcome' = Resolve(rs, result)
  PROVE  OutcomeMoves
BY DEF RecordsTyped, OutcomeMoves, Resolve

\* A queue loses elements.
LEMMA QueueShrinks ==
  ASSUME QueueTyped, queue' \in [Partitions -> Seq(UnsentBatch)],
         \A p \in Partitions : Elems(queue'[p]) \subseteq Elems(queue[p]),
         \A p \in Partitions : queue[p] = <<>> => queue'[p] = <<>>,
         taken' \subseteq taken \cup QueuedBatches
  PROVE  QueueMoves
<1>1. \A p \in Partitions : Elems(queue[p]) \subseteq UnsentBatch
  BY ElemsInterval DEF QueueTyped
<1>2. QueuedBatches \subseteq UnsentBatch
  BY <1>1 DEF QueuedBatches
<1>3. QueuedBatches' \subseteq QueuedBatches
  BY DEF QueuedBatches
<1> QED BY <1>2, <1>3 DEF QueueMoves, QueueTyped

LEMMA QueuePops ==
  ASSUME QueueTyped, NEW p \in Partitions, queue[p] # <<>>,
         queue' = [queue EXCEPT ![p] = Tail(@)],
         taken' \subseteq taken \cup {Head(queue[p])}
  PROVE  /\ QueueMoves /\ Head(queue[p]) \in UnsentBatch
         /\ Head(queue[p]) \in QueuedBatches
<1>1. /\ queue[p] \in Seq(UnsentBatch) /\ queue \in [Partitions -> Seq(UnsentBatch)]
      /\ queue'[p] = Tail(queue[p])
      /\ \A x \in Partitions : x # p => queue'[x] = queue[x]
  BY DEF QueueTyped
<1>2. /\ Head(queue[p]) \in UnsentBatch /\ Head(queue[p]) \in Elems(queue[p])
      /\ Tail(queue[p]) \in Seq(UnsentBatch)
      /\ Elems(Tail(queue[p])) \subseteq Elems(queue[p])
  BY <1>1, ElemsTail
<1>3. Head(queue[p]) \in QueuedBatches
  BY <1>2 DEF QueuedBatches
<1>4. queue' \in [Partitions -> Seq(UnsentBatch)]
  BY <1>1, <1>2
<1>5. /\ \A x \in Partitions : Elems(queue'[x]) \subseteq Elems(queue[x])
      /\ \A x \in Partitions : queue[x] = <<>> => queue'[x] = <<>>
  BY <1>1, <1>2
<1> QED BY <1>2, <1>3, <1>4, <1>5, QueueShrinks

LEMMA QueuesEmptied ==
  ASSUME QueueTyped, NEW ps \in SUBSET Partitions,
         queue' = [p \in Partitions |-> IF p \in ps THEN <<>> ELSE queue[p]],
         taken' = taken
  PROVE  QueueMoves
<1>1. <<>> \in Seq(UnsentBatch) /\ Elems(<<>>) = {}
  BY EmptySeq DEF Elems
<1>2. queue' \in [Partitions -> Seq(UnsentBatch)]
  BY <1>1 DEF QueueTyped
<1>3. /\ \A x \in Partitions : Elems(queue'[x]) \subseteq Elems(queue[x])
      /\ \A x \in Partitions : queue[x] = <<>> => queue'[x] = <<>>
  BY <1>1
<1> QED BY <1>2, <1>3, QueueShrinks

LEMMA HeldBatches ==
  ASSUME NEW bs \in SUBSET (QueuedBatches \cup taken \cup Outstanding)
  PROVE  RecordsIn(bs) \subseteq Held
BY DEF Held, RecordsIn

LEMMA HeldBatch ==
  ASSUME NEW b \in QueuedBatches \cup taken \cup Outstanding
  PROVE  Elems(b.recs) \subseteq Held
BY DEF Held, RecordsIn

LEMMA CarriedStays ==
  ASSUME Outstanding' \subseteq Outstanding
  PROVE  \A b \in Outstanding' : Carried(b)
BY DEF Carried

LEMMA RequestOutstanding ==
  ASSUME NEW q \in requests
  PROVE  q.batch \in Outstanding
BY DEF Outstanding

LEMMA ParkedOutstanding ==
  ASSUME NEW p \in Parked
  PROVE  retry[p] \in Outstanding
BY DEF Outstanding

LEMMA DrainBatchMoves ==
  ASSUME Typed, NEW p \in Partitions, DrainBatch(p)
  PROVE  Moves
<1> DEFINE b == Head(queue[p])
           sealed == [part |-> p, recs |-> b.recs, gen |-> b.gen,
                      pid |-> IF Snapshot THEN 0 ELSE NoProducerId,
                      epoch |-> IF Snapshot THEN epoch ELSE -1,
                      seq |-> next_seq[p], used |-> 0]
           n == [batch |-> sealed, answer |-> "queued"]
<1>1. /\ SlotsTyped /\ QueueTyped /\ RecordsTyped /\ next_seq \in [Partitions -> Nat]
      /\ active \in BOOLEAN /\ epoch \in Int
  BY DEF Typed, PipelineTyped, ControlTyped, StateTyped
<1>2. /\ QueueMoves /\ b \in UnsentBatch /\ b \in QueuedBatches
  BY <1>1, QueuePops DEF DrainBatch
<1>3. active' \in BOOLEAN
  BY <1>1 DEF DrainBatch
<1>4. CASE outcome' = Resolve(Elems(b.recs), "failed")
           /\ UNCHANGED <<requests, next_seq, in_flight>>
  <2>1. Elems(b.recs) \subseteq Held
    BY <1>2, HeldBatch
  <2> HIDE DEF b
  <2>2. OutcomeMoves
    BY <1>1, <1>4, <2>1, OutcomeResolves
  <2>3. SlotMoves
    BY <1>1, <1>4, SlotsStay DEF DrainBatch
  <2> QED BY <1>1, <1>2, <1>3, <1>4, <2>2, <2>3 DEF Moves
<1>5. CASE /\ ~UndrainedBarrier(b.gen) /\ requests' = requests \cup {n}
           /\ next_seq' = [next_seq EXCEPT ![p] = @ + Len(b.recs)]
           /\ in_flight' = in_flight + 1 /\ UNCHANGED outcome
  <2>1. /\ b.recs \in Seq(Records) /\ Len(b.recs) \in Nat /\ b.gen \in Nat
        /\ next_seq[p] \in Nat
    BY <1>1, <1>2, LenProperties DEF UnsentBatch
  <2>2. next_seq' \in [Partitions -> Nat]
    BY <1>1, <1>5, <2>1
  <2>3. b \in Current /\ ~Fatal /\ ~recovery_required
    BY <1>2, <1>5 DEF UndrainedBarrier, DrainedBarrier, Current
  <2> HIDE DEF b
  <2>4. sealed \in SealedBatch
    <3>1. 0 \in 0..Retries
      BY TransactionConstants
    <3>2. /\ (IF Snapshot THEN 0 ELSE NoProducerId) \in {0, NoProducerId}
          /\ (IF Snapshot THEN epoch ELSE -1) \in Int
      BY <1>1
    <3> QED BY <2>1, <3>1, <3>2 DEF SealedBatch
  <2>5. /\ sealed.part = p /\ sealed.recs = b.recs
        /\ sealed.pid = (IF Snapshot THEN 0 ELSE NoProducerId)
        /\ sealed.epoch = (IF Snapshot THEN epoch ELSE -1)
    OBVIOUS
  <2> HIDE DEF sealed
  <2>6. n \in Request /\ n.batch = sealed /\ n.answer = "queued"
    BY <2>4 DEF Request
  <2> HIDE DEF n
  <2>7. SlotsTyped' /\ Outstanding' \subseteq Outstanding \cup {n.batch}
    BY <1>1, <1>5, <2>5, <2>6, SlotsAdd DEF DrainBatch
  <2>8. Built(sealed)
    BY <2>3, <2>5 DEF Built
  <2>9. SlotMoves
    BY <1>5, <2>6, <2>7, <2>8 DEF SlotMoves, Carried
  <2> QED BY <1>1, <1>2, <1>3, <1>5, <2>2, <2>9, OutcomeStays DEF Moves
<1> QED BY <1>4, <1>5 DEF DrainBatch

LEMMA ResendMoves ==
  ASSUME Typed, NEW p \in Partitions, Resend(p)
  PROVE  Moves
<1>1. /\ SlotsTyped /\ QueueTyped /\ RecordsTyped /\ next_seq \in [Partitions -> Nat]
      /\ active \in BOOLEAN /\ p \in Parked
  BY DEF Typed, PipelineTyped, Resend, Parked
<1>2. SlotsTyped' /\ Outstanding' \subseteq Outstanding
  <2>1. "queued" \in Answers \cup {"queued", "none", "BARRED"}
    OBVIOUS
  <2> QED BY <1>1, <2>1, SlotsUnpark DEF Resend
<1>3. SlotMoves
  BY <1>2, CarriedStays DEF Resend, SlotMoves
<1>4. OutcomeMoves
  BY <1>1, ParkedOutstanding, HeldBatch, OutcomeResolves, OutcomeStays DEF Resend
<1> QED BY <1>1, <1>3, <1>4, QueueStays DEF Resend, Moves

LEMMA StartRequestMoves ==
  ASSUME Typed, NEW q \in requests, StartRequest(q)
  PROVE  Moves
<1> DEFINE answer == IF DrainedBarrier(q.batch.gen) THEN "BARRED" ELSE "none"
           n == [q EXCEPT !.answer = answer]
<1>1. /\ SlotsTyped /\ QueueTyped /\ RecordsTyped /\ next_seq \in [Partitions -> Nat]
      /\ active \in BOOLEAN /\ q \in Request
  BY DEF Typed, PipelineTyped, SlotsTyped
<1>2. answer \in {"BARRED", "none"}
  OBVIOUS
<1> HIDE DEF answer
<1>3. n \in Request /\ n.batch = q.batch /\ n.answer = answer
  BY <1>1, <1>2 DEF Request
<1>4. requests' = (requests \ {q}) \cup {n}
  BY DEF StartRequest, answer
<1> HIDE DEF n
<1>5. SlotsTyped' /\ Outstanding' \subseteq Outstanding
  BY <1>1, <1>3, <1>4, SlotsReplace DEF StartRequest
<1>6. SlotMoves
  BY <1>2, <1>3, <1>4, <1>5, CarriedStays DEF SlotMoves
<1> QED BY <1>1, <1>6, QueueStays, OutcomeStays DEF StartRequest, Moves, recordVars

LEMMA RepairedType ==
  ASSUME next_seq \in [Partitions -> Nat], NEW b, b.seq \in Nat, NEW repair
  PROVE  Repaired(b, repair) \in [Partitions -> Nat]
BY DEF Repaired

\* A request that leaves, with the outcome of its records.
LEMMA FinishMoves ==
  ASSUME Typed, NEW q \in requests, NEW result \in {"acked", "failed"},
         requests' = requests \ {q}, FinishBatch(q, result),
         UNCHANGED <<queue, taken, retry, active>>, next_seq' \in [Partitions -> Nat]
  PROVE  Moves
<1>1. SlotsTyped /\ QueueTyped /\ RecordsTyped /\ active \in BOOLEAN
  BY DEF Typed, PipelineTyped
<1>2. SlotsTyped' /\ Outstanding' \subseteq Outstanding
  BY <1>1, SlotsRemove DEF FinishBatch
<1>3. SlotMoves
  BY <1>2, CarriedStays DEF SlotMoves
<1>4. Elems(q.batch.recs) \subseteq Held
  BY RequestOutstanding, HeldBatch
<1>5. OutcomeMoves
  BY <1>1, <1>4, OutcomeResolves DEF FinishBatch
<1> QED BY <1>1, <1>3, <1>5, QueueStays DEF Moves

LEMMA CompleteAckedMoves ==
  ASSUME Typed, NEW q \in requests, CompleteAcked(q) \/ CompleteBarred(q)
  PROVE  Moves
<1>1. next_seq' \in [Partitions -> Nat]
  BY DEF Typed, PipelineTyped, CompleteAcked, CompleteBarred
<1> QED BY <1>1, FinishMoves DEF CompleteAcked, CompleteBarred

LEMMA CompleteFailedMoves ==
  ASSUME Typed, NEW q \in requests, CompleteFailed(q)
  PROVE  Moves
<1>1. SlotsTyped /\ next_seq \in [Partitions -> Nat]
  BY DEF Typed, PipelineTyped
<1>2. q.batch.seq \in Nat
  BY <1>1, RequestBatch
<1>3. next_seq' \in [Partitions -> Nat]
  BY <1>1, <1>2, RepairedType DEF CompleteFailed
<1> QED BY <1>3, FinishMoves DEF CompleteFailed

LEMMA CompleteRetryMoves ==
  ASSUME Typed, NEW q \in requests, CompleteRetry(q)
  PROVE  Moves
<1> DEFINE b == q.batch
<1>1. /\ SlotsTyped /\ QueueTyped /\ RecordsTyped /\ next_seq \in [Partitions -> Nat]
      /\ active \in BOOLEAN
  BY DEF Typed, PipelineTyped
<1>2. b \in SealedBatch /\ b.part \in Partitions /\ b.recs \in Seq(Records)
  BY <1>1, RequestBatch
<1>3. b.used < Retries
  BY TransactionConstants, <1>2
     DEF CompleteRetry, Verdict, VerdictWithRetries, Resends, SealedBatch
<1>4. PICK n \in {[b EXCEPT !.used = @ + 1], [b EXCEPT !.used = @ + 1, !.seq = 0]} :
        retry' = [retry EXCEPT ![b.part] = n]
  BY DEF CompleteRetry
<1>5. /\ n \in SealedBatch /\ n.part = b.part /\ n.recs = b.recs /\ n.pid = b.pid
      /\ n.epoch = b.epoch
  <2>1. b.used + 1 \in 0..Retries /\ 0 \in Nat
    BY <1>2, <1>3, TransactionConstants DEF SealedBatch
  <2> HIDE DEF b
  <2> QED BY <1>2, <1>4, <2>1 DEF SealedBatch
<1>6. SlotsTyped' /\ Outstanding' \subseteq Outstanding \cup {n}
  BY <1>1, <1>4, <1>5, SlotsPark DEF CompleteRetry
<1>7. Carried(n)
  BY <1>5, RequestOutstanding DEF Carried
<1>8. SlotMoves
  BY <1>6, <1>7 DEF SlotMoves, Carried, CompleteRetry
<1>9. Len(b.recs) \in Nat
  BY <1>2, LenProperties
<1>10. next_seq' \in [Partitions -> Nat]
  BY <1>1, <1>9 DEF CompleteRetry
<1> QED BY <1>1, <1>8, <1>10, QueueStays, OutcomeStays DEF CompleteRetry, Moves, recordVars

LEMMA FenceAllMoves ==
  ASSUME Typed, NEW done \in SUBSET requests, done = {} \/ \E q : done = {q},
         requests' = requests \ done, FenceAll({q.batch : q \in done}),
         UNCHANGED <<taken, next_seq>>
  PROVE  Moves
<1> DEFINE dead == {q.batch : q \in done} \cup {retry[p] : p \in Parked}
<1>1. /\ SlotsTyped /\ QueueTyped /\ RecordsTyped /\ next_seq \in [Partitions -> Nat]
      /\ active \in BOOLEAN
  BY DEF Typed, PipelineTyped
<1>2. /\ outcome' = Resolve(RecordsIn(dead \cup QueuedBatches), "failed")
      /\ in_flight' = in_flight - Cardinality(dead)
      /\ retry' = [p \in Partitions |-> NoBatch]
      /\ queue' = [p \in Partitions |-> <<>>] /\ active' = FALSE
  BY DEF FenceAll, Parked, QueuedBatches
<1>3. SlotsTyped' /\ Outstanding' \subseteq Outstanding
  BY <1>1, <1>2, SlotsFence
<1>4. SlotMoves
  BY <1>3, CarriedStays DEF SlotMoves
<1>5. QueueMoves
  <2>1. queue' = [p \in Partitions |-> IF p \in Partitions THEN <<>> ELSE queue[p]]
    BY <1>2
  <2> QED BY <1>1, <2>1, QueuesEmptied
<1>6. dead \cup QueuedBatches \in SUBSET (QueuedBatches \cup taken \cup Outstanding)
  BY DEF Outstanding
<1> HIDE DEF dead
<1>7. RecordsIn(dead \cup QueuedBatches) \subseteq Held
  BY <1>6, HeldBatches
<1>8. OutcomeMoves
  BY <1>1, <1>2, <1>7, OutcomeResolves
<1> QED BY <1>1, <1>2, <1>4, <1>5, <1>8 DEF Moves

LEMMA FenceMoves ==
  ASSUME Typed,
         DrainFence \/ \E q \in requests : CompleteFatal(q)
  PROVE  Moves
<1>1. CASE DrainFence
  <2>1. PICK done \in SUBSET requests : done = {}
    OBVIOUS
  <2>2. {q.batch : q \in done} = {} /\ requests' = requests \ done
    BY <1>1, <2>1 DEF DrainFence
  <2> QED BY <1>1, <2>1, <2>2, FenceAllMoves DEF DrainFence
<1>2. ASSUME NEW q \in requests, CompleteFatal(q) PROVE Moves
  <2>1. PICK done \in SUBSET requests : done = {q}
    OBVIOUS
  <2>2. {x.batch : x \in done} = {q.batch} /\ requests' = requests \ done
    BY <1>2, <2>1 DEF CompleteFatal
  <2> QED BY <1>2, <2>1, <2>2, FenceAllMoves DEF CompleteFatal
<1> QED BY <1>1, <1>2

LEMMA SweepMoves ==
  ASSUME Typed, SweepRecovered
  PROVE  Moves
<1> DEFINE kept(p) == {i \in DOMAIN queue[p] : ~UndrainedBarrier(queue[p][i].gen)}
           barred == {b \in QueuedBatches : UndrainedBarrier(b.gen)}
<1>1. /\ SlotsTyped /\ QueueTyped /\ RecordsTyped /\ next_seq \in [Partitions -> Nat]
      /\ active \in BOOLEAN
  BY DEF Typed, PipelineTyped
<1>2. /\ outcome' = Resolve(RecordsIn(barred), "failed")
      /\ queue' = [p \in Partitions |-> Retained(queue[p], kept(p))]
  BY DEF SweepRecovered, QueuedBatches
<1>3. RecordsIn(barred) \subseteq Held
  BY HeldBatches
<1>4. OutcomeMoves
  BY <1>1, <1>2, <1>3, OutcomeResolves
<1>5. ASSUME NEW p \in Partitions
      PROVE  /\ queue'[p] \in Seq(UnsentBatch) /\ Elems(queue'[p]) \subseteq Elems(queue[p])
             /\ queue[p] = <<>> => queue'[p] = <<>>
  <2>1. /\ queue[p] \in Seq(UnsentBatch) /\ queue'[p] = Retained(queue[p], kept(p))
        /\ kept(p) \in SUBSET DOMAIN queue[p]
    BY <1>1, <1>2 DEF QueueTyped
  <2> HIDE DEF kept
  <2>2. /\ Retained(queue[p], kept(p)) \in Seq(UnsentBatch)
        /\ Elems(Retained(queue[p], kept(p))) \subseteq {queue[p][i] : i \in kept(p)}
        /\ queue[p] = <<>> => Retained(queue[p], kept(p)) = <<>>
    BY <2>1, RetainedElems
  <2>3. {queue[p][i] : i \in kept(p)} \subseteq Elems(queue[p])
    BY <2>1 DEF Elems
  <2> QED BY <2>1, <2>2, <2>3
<1>6. queue' \in [Partitions -> Seq(UnsentBatch)]
  BY <1>2, <1>5
<1>7. QueueMoves
  BY <1>1, <1>5, <1>6, QueueShrinks DEF SweepRecovered
<1> QED BY <1>1, <1>4, <1>7, SlotsStay DEF SweepRecovered, Moves

LEMMA ExpireMoves ==
  ASSUME Typed,
         FailExpired \/ \E p \in Partitions : ExpireRetry(p) \/ TakeExpired(p)
  PROVE  Moves
<1>1. /\ SlotsTyped /\ QueueTyped /\ RecordsTyped /\ next_seq \in [Partitions -> Nat]
      /\ active \in BOOLEAN
  BY DEF Typed, PipelineTyped
<1>2. CASE FailExpired
  <2>1. RecordsIn(taken) \subseteq Held
    BY HeldBatches
  <2>2. OutcomeMoves
    BY <1>1, <1>2, <2>1, OutcomeResolves DEF FailExpired
  <2>3. QueueMoves
    BY <1>1, <1>2 DEF FailExpired, QueueTyped, QueueMoves, QueuedBatches
  <2> QED BY <1>1, <1>2, <2>2, <2>3, SlotsStay DEF FailExpired, Moves
<1>3. ASSUME NEW p \in Partitions, ExpireRetry(p) PROVE Moves
  <2>1. p \in Parked /\ retry[p] \in SealedBatch /\ retry[p] \in Outstanding
    BY <1>1, <1>3, ParkedBatch, ParkedOutstanding DEF ExpireRetry, Parked
  <2>2. retry[p].seq \in Nat
    BY <2>1 DEF SealedBatch
  <2>3. next_seq' \in [Partitions -> Nat]
    BY <1>1, <1>3, <2>2, RepairedType DEF ExpireRetry
  <2>4. SlotsTyped' /\ Outstanding' \subseteq Outstanding
    <3>1. "queued" \in Answers \cup {"queued", "none", "BARRED"}
      OBVIOUS
    <3> QED BY <1>1, <1>3, <2>1, <3>1, SlotsUnpark DEF ExpireRetry
  <2>5. SlotMoves
    BY <1>3, <2>4, CarriedStays DEF SlotMoves, ExpireRetry
  <2>6. OutcomeMoves
    BY <1>1, <1>3, <2>1, HeldBatch, OutcomeResolves DEF ExpireRetry
  <2> QED BY <1>1, <1>3, <2>3, <2>5, <2>6, QueueStays DEF ExpireRetry, Moves
<1>4. ASSUME NEW p \in Partitions, TakeExpired(p) PROVE Moves
  <2>1. QueueMoves
    BY <1>1, <1>4, QueuePops DEF TakeExpired
  <2> QED BY <1>1, <1>4, <2>1, SlotsStay, OutcomeStays DEF TakeExpired, Moves, recordVars
<1> QED BY <1>2, <1>3, <1>4

\* What every step of the sender task but a split does with the batches.
LEMMA SenderWorkMoves ==
  ASSUME Typed, SenderWork, \A q \in requests : ~CompleteSplit(q)
  PROVE  Moves
<1>1. ASSUME NEW q \in requests,
             \/ StartRequest(q) \/ CompleteAcked(q) \/ CompleteBarred(q)
             \/ CompleteRetry(q) \/ CompleteFailed(q) \/ CompleteFatal(q)
      PROVE  Moves
  BY <1>1, StartRequestMoves, CompleteAckedMoves, CompleteRetryMoves,
     CompleteFailedMoves, FenceMoves
<1>2. ASSUME NEW p \in Partitions,
             DrainBatch(p) \/ Resend(p) \/ ExpireRetry(p) \/ TakeExpired(p)
      PROVE  Moves
  BY <1>2, DrainBatchMoves, ResendMoves, ExpireMoves
<1>3. CASE SweepRecovered \/ FailExpired \/ DrainFence
  BY <1>3, SweepMoves, ExpireMoves, FenceMoves
<1> QED BY <1>1, <1>2, <1>3 DEF SenderWork, SenderSteps

-----------------------------------------------------------------------------
(* The types, for every step.                                              *)

\* Records flow out of the batches on their way, and no batch appears.
Flows ==
  /\ PipelineTyped' /\ OutcomeMoves /\ Held' \subseteq Held /\ UNCHANGED txn_of

LEMMA MovesFlow ==
  ASSUME Moves, UNCHANGED txn_of
  PROVE  Flows
<1>1. ASSUME NEW b \in Outstanding' PROVE Elems(b.recs) \subseteq Held
  <2>1. \E c \in QueuedBatches \cup Outstanding : b.recs = c.recs
    BY <1>1 DEF Moves, SlotMoves, Carried, Built, Current
  <2> QED BY <2>1, HeldBatch
<1>2. ASSUME NEW b \in QueuedBatches' \cup taken' PROVE Elems(b.recs) \subseteq Held
  <2>1. b \in QueuedBatches \cup taken
    BY <1>2 DEF Moves, QueueMoves
  <2> QED BY <2>1, HeldBatch
<1>3. Held' \subseteq Held
  BY <1>1, <1>2 DEF Held, RecordsIn
<1> QED BY <1>3 DEF Moves, Flows, PipelineTyped, SlotMoves, QueueMoves

LEMMA HalvesType ==
  ASSUME NEW b, b.recs \in Seq(Records), b.gen \in Nat, Len(b.recs) > 1
  PROVE  /\ Halves(b) \in Seq(UnsentBatch)
         /\ \A h \in Elems(Halves(b)) : Elems(h.recs) \subseteq Elems(b.recs)
<1> DEFINE middle == Len(b.recs) \div 2
           s1 == SubSeq(b.recs, 1, middle)
           s2 == SubSeq(b.recs, middle + 1, Len(b.recs))
           h1 == [recs |-> s1, gen |-> b.gen]
           h2 == [recs |-> s2, gen |-> b.gen]
<1>1. Len(b.recs) \in Nat /\ \A i \in 1..Len(b.recs) : b.recs[i] \in Records
  BY LenProperties, ElementOfSeq
<1>2. middle \in 1..(Len(b.recs) - 1)
  <2>1. ASSUME NEW n \in Nat, n > 1 PROVE n \div 2 \in 1..(n - 1)
    BY <2>1
  <2> QED BY <1>1, <2>1
<1> HIDE DEF middle
<1>3. /\ s1 \in Seq(Records) /\ Len(s1) = middle
      /\ \A i \in 1..middle : s1[i] = b.recs[i]
  <2>1. \A i \in 1..middle : b.recs[i] \in Records
    BY <1>1, <1>2
  <2>2. /\ SubSeq(b.recs, 1, middle) \in Seq(Records)
        /\ Len(SubSeq(b.recs, 1, middle)) = IF 1 <= middle THEN middle - 1 + 1 ELSE 0
        /\ \A i \in 1..(middle - 1 + 1) : SubSeq(b.recs, 1, middle)[i] = b.recs[1 + i - 1]
    BY <1>2, <2>1, SubSeqProperties
  <2> QED BY <1>2, <2>2
<1>4. /\ s2 \in Seq(Records) /\ Len(s2) = Len(b.recs) - middle
      /\ \A i \in 1..(Len(b.recs) - middle) : s2[i] = b.recs[middle + i]
  <2>1. \A i \in (middle + 1)..Len(b.recs) : b.recs[i] \in Records
    BY <1>1, <1>2
  <2>2. /\ s2 \in Seq(Records)
        /\ Len(s2) = IF middle + 1 <= Len(b.recs) THEN Len(b.recs) - (middle + 1) + 1 ELSE 0
        /\ \A i \in 1..(Len(b.recs) - (middle + 1) + 1) : s2[i] = b.recs[middle + 1 + i - 1]
    BY <1>1, <1>2, <2>1, SubSeqProperties
  <2> QED BY <1>1, <1>2, <2>2
<1> HIDE DEF s1, s2
<1>5. s1 # <<>> /\ s2 # <<>>
  BY <1>1, <1>2, <1>3, <1>4, EmptySeq
<1>6. h1 \in UnsentBatch /\ h2 \in UnsentBatch /\ h1.recs = s1 /\ h2.recs = s2
  BY <1>3, <1>4, <1>5 DEF UnsentBatch
<1>7. Halves(b) = <<h1, h2>>
  BY DEF Halves, h1, h2, s1, s2, middle
<1>8. /\ Elems(s1) = {s1[i] : i \in 1..Len(s1)} /\ Elems(s2) = {s2[i] : i \in 1..Len(s2)}
      /\ Elems(b.recs) = {b.recs[i] : i \in 1..Len(b.recs)}
  BY <1>3, <1>4, ElemsInterval
<1>9. Elems(s1) \subseteq Elems(b.recs) /\ Elems(s2) \subseteq Elems(b.recs)
  <2>1. \A i \in 1..Len(s1) : i \in 1..Len(b.recs) /\ s1[i] = b.recs[i]
    BY <1>1, <1>2, <1>3
  <2>2. \A i \in 1..Len(s2) : middle + i \in 1..Len(b.recs) /\ s2[i] = b.recs[middle + i]
    BY <1>1, <1>2, <1>4
  <2> QED BY <1>8, <2>1, <2>2
<1> HIDE DEF h1, h2
<1>10. Halves(b) \in Seq(UnsentBatch) /\ Elems(Halves(b)) = {h1, h2}
  <2>1. <<h1, h2>> \in Seq(UnsentBatch) /\ Len(<<h1, h2>>) = 2
    BY <1>6
  <2>2. Elems(<<h1, h2>>) = {<<h1, h2>>[i] : i \in 1..2}
    BY <2>1, ElemsInterval
  <2>3. <<h1, h2>>[1] = h1 /\ <<h1, h2>>[2] = h2 /\ 1..2 = {1, 2}
    OBVIOUS
  <2> QED BY <1>7, <2>1, <2>2, <2>3
<1> QED BY <1>6, <1>9, <1>10

LEMMA ElemsConcat ==
  ASSUME NEW S, NEW s \in Seq(S), NEW t \in Seq(S)
  PROVE  s \o t \in Seq(S) /\ Elems(s \o t) \subseteq Elems(s) \cup Elems(t)
<1>1. /\ s \o t \in Seq(S) /\ Len(s \o t) = Len(s) + Len(t)
      /\ \A i \in 1..(Len(s) + Len(t)) :
           (s \o t)[i] = IF i <= Len(s) THEN s[i] ELSE t[i - Len(s)]
      /\ Len(s) \in Nat /\ Len(t) \in Nat
  BY ConcatProperties, LenProperties
<1>2. /\ Elems(s \o t) = {(s \o t)[i] : i \in 1..(Len(s) + Len(t))}
      /\ Elems(s) = {s[i] : i \in 1..Len(s)} /\ Elems(t) = {t[i] : i \in 1..Len(t)}
  BY <1>1, ElemsInterval
<1>3. ASSUME NEW i \in 1..(Len(s) + Len(t)) PROVE (s \o t)[i] \in Elems(s) \cup Elems(t)
  <2>1. CASE i <= Len(s)
    BY <1>1, <1>2, <2>1
  <2>2. CASE ~(i <= Len(s))
    <3>1. i - Len(s) \in 1..Len(t) /\ (s \o t)[i] = t[i - Len(s)]
      BY <1>1, <2>2
    <3> QED BY <1>2, <3>1
  <2> QED BY <2>1, <2>2
<1> QED BY <1>1, <1>2, <1>3

LEMMA SplitFlows ==
  ASSUME Typed, NEW q \in requests, CompleteSplit(q)
  PROVE  Flows
<1> DEFINE b == q.batch
<1>1. /\ SlotsTyped /\ QueueTyped /\ RecordsTyped /\ next_seq \in [Partitions -> Nat]
      /\ active \in BOOLEAN
  BY DEF Typed, PipelineTyped
<1>2. /\ b \in SealedBatch /\ b.part \in Partitions /\ b.recs \in Seq(Records)
      /\ b.seq \in Nat /\ b.gen \in Nat
  BY <1>1, RequestBatch DEF SealedBatch
<1>3. Len(b.recs) > 1
  BY DEF CompleteSplit, Verdict, VerdictWithRetries, ClassifyVerdict
<1>4. /\ Halves(b) \in Seq(UnsentBatch)
      /\ \A h \in Elems(Halves(b)) : Elems(h.recs) \subseteq Elems(b.recs)
  BY <1>2, <1>3, HalvesType
<1>5. /\ requests' = requests \ {q} /\ in_flight' = in_flight - 1
      /\ queue' = [queue EXCEPT ![b.part] = Halves(b) \o @]
      /\ next_seq' = IF BatchMode(b) = "Plain" THEN next_seq
                     ELSE [next_seq EXCEPT ![b.part] = b.seq]
      /\ UNCHANGED <<taken, retry, active, outcome, txn_of>>
  BY DEF CompleteSplit, recordVars
<1>6. SlotsTyped' /\ Outstanding' \subseteq Outstanding
  BY <1>1, <1>5, SlotsRemove
<1>7. next_seq' \in [Partitions -> Nat]
  BY <1>1, <1>2, <1>5
<1>8. b \in Outstanding
  BY RequestOutstanding
<1> HIDE DEF b
<1>9. ASSUME NEW p \in Partitions
      PROVE  /\ queue'[p] \in Seq(UnsentBatch)
             /\ Elems(queue'[p]) \subseteq Elems(queue[p]) \cup Elems(Halves(b))
  <2>1. queue[p] \in Seq(UnsentBatch)
    BY <1>1 DEF QueueTyped
  <2>2. /\ Halves(b) \o queue[p] \in Seq(UnsentBatch)
        /\ Elems(Halves(b) \o queue[p]) \subseteq Elems(Halves(b)) \cup Elems(queue[p])
    BY <1>4, <2>1, ElemsConcat
  <2>3. queue'[p] = queue[p] \/ queue'[p] = Halves(b) \o queue[p]
    BY <1>1, <1>5 DEF QueueTyped
  <2> QED BY <2>1, <2>2, <2>3
<1>10. QueueTyped'
  <2>1. DOMAIN queue' = Partitions /\ queue' = [p \in Partitions |-> queue'[p]]
    BY <1>1, <1>5 DEF QueueTyped
  <2> QED BY <1>1, <1>5, <1>9, <2>1 DEF QueueTyped
<1>11. QueuedBatches' \subseteq QueuedBatches \cup Elems(Halves(b))
  BY <1>9 DEF QueuedBatches
<1>12. ASSUME NEW x \in QueuedBatches' \cup taken' \cup Outstanding'
       PROVE  Elems(x.recs) \subseteq Held
  <2>1. CASE x \in Elems(Halves(b))
    BY <1>4, <1>8, <2>1, HeldBatch
  <2>2. CASE x \in QueuedBatches \cup taken \cup Outstanding
    BY <2>2, HeldBatch
  <2> QED BY <1>5, <1>6, <1>11, <1>12, <2>1, <2>2
<1>13. Held' \subseteq Held
  BY <1>12 DEF Held, RecordsIn
<1> QED BY <1>1, <1>5, <1>6, <1>7, <1>10, <1>13, OutcomeStays DEF Flows, PipelineTyped

LEMMA LeaderFlows ==
  ASSUME Typed, LeaderWork
  PROVE  Flows /\ Outstanding' \subseteq Outstanding
<1>1. /\ SlotsTyped /\ QueueTyped /\ RecordsTyped /\ next_seq \in [Partitions -> Nat]
      /\ active \in BOOLEAN
  BY DEF Typed, PipelineTyped
<1>2. PICK q \in requests : Served(q)
  BY LeaderWorkServes
<1>3. LeaderFrame
  BY LeaderWorkServes
<1>4. TxnLeaderCode(q.batch) \in Answers
  BY DEF TxnLeaderCode, LeaderCode, Answers, BrokerCodes
<1>5. PICK code \in Answers : requests' = (requests \ {q}) \cup {[q EXCEPT !.answer = code]}
  BY <1>2, <1>4 DEF Served, Answer
<1> DEFINE n == [q EXCEPT !.answer = code]
<1>6. n \in Request /\ n.batch = q.batch
  BY <1>1 DEF SlotsTyped, Request
<1>7. requests' = (requests \ {q}) \cup {n}
  BY <1>5
<1> HIDE DEF n
<1>8. SlotsTyped' /\ Outstanding' \subseteq Outstanding
  BY <1>1, <1>3, <1>6, <1>7, SlotsReplace DEF LeaderFrame
<1>9. Held' \subseteq Held
  BY <1>3, <1>8 DEF LeaderFrame, Held, RecordsIn, QueuedBatches
<1>10. UNCHANGED <<queue, taken, next_seq, active, outcome, txn_of>>
  BY <1>3 DEF LeaderFrame, recordVars
<1>11. QueueTyped'
  BY <1>1, <1>10 DEF QueueTyped
<1>12. OutcomeMoves
  BY <1>1, <1>10, OutcomeStays
<1> QED BY <1>1, <1>8, <1>9, <1>10, <1>11, <1>12 DEF Flows, PipelineTyped

\* The steps that leave the batches and the records alone.
Still ==
  /\ UNCHANGED <<queue, taken, retry, requests, in_flight, active, outcome, txn_of,
                 plain>>
  /\ next_seq' \in {next_seq, [p \in Partitions |-> 0]}

\* The steps, by what they do with the batches.
LEMMA BatchCases ==
  ASSUME ControlTyped, Cases
  PROVE  \/ SenderWork \/ LeaderWork \/ SendAppend \/ \E p \in Partitions : DropScan(p)
         \/ Still
<1> USE DEF Still, senderVars, recordVars, logVars
<1>1. CASE BeginTransaction \/ FlushDone \/ DrainDone \/ FlushTimeout \/ CancelCall
  BY <1>1 DEF BeginTransaction, FlushDone, DrainDone, FlushTimeout, CancelCall
<1>2. ASSUME NEW p, SendLock(p) \/ FlushScan(p) \/ LeaderForgets(p) PROVE Still
  BY <1>2 DEF SendLock, FlushScan, LeaderForgets
<1>3. ASSUME NEW op, NEW t, Ends(op, t) \/ PrepareStart(t) \/ DropGuard(t) PROVE Still
  BY <1>3 DEF Ends, EndStart, PrepareStart, DropGuard
<1>4. ASSUME NEW keep, InitStart(keep) PROVE Still
  BY <1>4 DEF InitStart
<1>5. CASE EndTxnStep
  BY <1>5, EndTxnStepEffect DEF EndTxnEffect
<1>6. CASE EndTxnLookup \/ InitAnswered \/ InitLost \/ OtherInit \/ SendRegister
  BY <1>6 DEF EndTxnLookup, InitAnswered, InitLost, OtherInit, SendRegister
<1>7. CASE EndTxnApply
  BY <1>7 DEF EndTxnApply, AdoptIdentity
<1>8. CASE InitAdopt
  BY <1>8 DEF InitAdopt, AdoptIdentity
<1>9. ASSUME NEW code, SendRegisterRefused(code) \/ InitRefused(code) PROVE Still
  BY <1>9 DEF SendRegisterRefused, InitRefused
<1>10. CASE UNCHANGED vars
  BY <1>10 DEF vars
<1> QED BY <1>1, <1>2, <1>3, <1>4, <1>5, <1>6, <1>7, <1>8, <1>9, <1>10 DEF Cases

LEMMA StillMoves ==
  ASSUME Typed, Still
  PROVE  Moves /\ UNCHANGED <<Held, Outstanding, QueuedBatches>>
<1>1. /\ SlotsTyped /\ QueueTyped /\ RecordsTyped /\ next_seq \in [Partitions -> Nat]
      /\ active \in BOOLEAN
  BY DEF Typed, PipelineTyped
<1>2. Parked' = Parked
  BY DEF Still, Parked
<1>3. UNCHANGED <<Outstanding, QueuedBatches>>
  BY <1>2 DEF Still, Outstanding, QueuedBatches
<1>4. UNCHANGED Held
  BY <1>3 DEF Still, Held
<1>5. next_seq' \in [Partitions -> Nat] /\ active' \in BOOLEAN
  BY <1>1 DEF Still
<1> QED BY <1>1, <1>3, <1>4, <1>5, SlotsStay, QueueStays, OutcomeStays DEF Still, Moves

LEMMA DropScanMoves ==
  ASSUME Typed, NEW p \in Partitions, DropScan(p)
  PROVE  Moves
<1>1. /\ SlotsTyped /\ QueueTyped /\ RecordsTyped /\ next_seq \in [Partitions -> Nat]
      /\ active \in BOOLEAN
  BY DEF Typed, PipelineTyped
<1>2. QueueMoves
  <2>1. queue' = [x \in Partitions |-> IF x \in {p} THEN <<>> ELSE queue[x]]
    BY <1>1 DEF DropScan, QueueTyped
  <2> QED BY <1>1, <2>1, QueuesEmptied DEF DropScan
<1>3. RecordsIn(Elems(queue[p])) \subseteq Held
  BY HeldBatches DEF QueuedBatches
<1>4. OutcomeMoves
  BY <1>1, <1>3, OutcomeResolves DEF DropScan
<1> QED BY <1>1, <1>2, <1>4, SlotsStay DEF DropScan, Moves

LEMMA FlowsStep ==
  ASSUME Typed, Cases, ~SendAppend
  PROVE  Flows
<1>1. CASE SenderWork
  <2>1. UNCHANGED txn_of
    BY <1>1, SenderWorkFrame DEF SenderFrame
  <2>2. ASSUME NEW q \in requests, CompleteSplit(q) PROVE Flows
    BY <2>2, SplitFlows
  <2>3. CASE \A q \in requests : ~CompleteSplit(q)
    BY <1>1, <2>1, <2>3, SenderWorkMoves, MovesFlow
  <2> QED BY <2>2, <2>3
<1>2. CASE LeaderWork
  BY <1>2, LeaderFlows
<1>3. ASSUME NEW p \in Partitions, DropScan(p) PROVE Flows
  BY <1>3, DropScanMoves, MovesFlow DEF DropScan
<1>4. CASE Still
  BY <1>4, StillMoves, MovesFlow DEF Still
<1> QED BY <1>1, <1>2, <1>3, <1>4, BatchCases DEF Typed

\* The records in the logs.
Logged == open \cup committed \cup aborted \cup plain

\* Only a batch on its way is appended; any other step moves records between
\* the parts of the logs.
LEMMA LoggedStep ==
  ASSUME ControlTyped, Cases
  PROVE  Logged' \subseteq Logged \cup Held
<1> USE DEF Logged
<1>1. ASSUME UNCHANGED <<coordVars, plain>> PROVE Logged' \subseteq Logged \cup Held
  BY <1>1 DEF coordVars
<1>2. ASSUME NEW keep, CoordinatorInits(keep), UNCHANGED plain
      PROVE  Logged' \subseteq Logged \cup Held
  BY <1>2 DEF CoordinatorInits
<1>3. CASE LeaderWork
  <2>1. PICK q \in requests : Served(q)
    BY <1>3, LeaderWorkServes
  <2>2. Elems(q.batch.recs) \subseteq Held
    BY RequestOutstanding, HeldBatch
  <2> QED BY <2>1, <2>2 DEF Served, LeaderAppends, coordVars, logVars
<1>4. CASE EndTxnStep
  <2>1. UNCHANGED plain
    BY <1>4, EndTxnStepEffect DEF EndTxnEffect, logVars
  <2>2. CASE CoordinatorEnds
    BY <2>1, <2>2 DEF CoordinatorEnds, coordVars
  <2> QED BY <1>1, <1>4, <2>1, <2>2, EndTxnStepEffect DEF EndTxnEffect
<1> USE DEF logVars
<1>5. CASE BeginTransaction \/ FlushDone \/ DrainDone \/ FlushTimeout \/ CancelCall
  BY <1>1, <1>5 DEF BeginTransaction, FlushDone, DrainDone, FlushTimeout, CancelCall
<1>6. ASSUME NEW p, SendLock(p) \/ FlushScan(p) \/ DropScan(p) \/ LeaderForgets(p)
      PROVE  Logged' \subseteq Logged \cup Held
  BY <1>1, <1>6 DEF SendLock, FlushScan, DropScan, LeaderForgets
<1>7. ASSUME NEW op, NEW t, Ends(op, t) \/ PrepareStart(t) \/ DropGuard(t)
      PROVE  Logged' \subseteq Logged \cup Held
  BY <1>1, <1>7 DEF Ends, EndStart, PrepareStart, DropGuard
<1>8. ASSUME NEW keep, InitStart(keep) PROVE Logged' \subseteq Logged \cup Held
  BY <1>1, <1>8 DEF InitStart
<1>9. CASE InitAnswered \/ InitLost \/ OtherInit
  BY <1>1, <1>2, <1>9 DEF InitAnswered, InitLost, OtherInit
<1>10. CASE EndTxnLookup \/ EndTxnApply \/ InitAdopt \/ SendRegister \/ SendAppend
  BY <1>1, <1>10 DEF EndTxnLookup, EndTxnApply, InitAdopt, SendRegister, SendAppend
<1>11. ASSUME NEW code, SendRegisterRefused(code) \/ InitRefused(code)
       PROVE  Logged' \subseteq Logged \cup Held
  BY <1>1, <1>11 DEF SendRegisterRefused, InitRefused
<1>12. CASE SenderWork \/ UNCHANGED vars
  BY <1>12, SenderWorkFrame DEF SenderFrame, vars, coordVars
<1> QED BY <1>3, <1>4, <1>5, <1>6, <1>7, <1>8, <1>9, <1>10, <1>11, <1>12 DEF Cases

\* The records are numbered in the order in which send accepted them, and a send
\* holds the mutex only while there is a number left.
Numbered ==
  /\ Appended = 1..Cardinality(Appended)
  /\ sending # NoSend => Appended # Records
  /\ Held \cup Logged \subseteq Appended

LEMMA AppendedFinite ==
  /\ IsFiniteSet(Appended) /\ Cardinality(Appended) \in Nat
  /\ Cardinality(Appended) <= MaxRecords
<1>1. IsFiniteSet(Records) /\ Cardinality(Records) = MaxRecords
  BY TransactionConstants, FS_Interval DEF Records
<1>2. Appended \in SUBSET Records
  BY DEF Appended
<1> QED BY <1>1, <1>2, FS_Subset, FS_CardinalityType

\* A send takes the mutex in one step, and no other step does.
LEMMA SendingStep ==
  ASSUME ControlTyped, Cases, sending' # NoSend
  PROVE  sending # NoSend \/ \E p \in Partitions : SendLock(p)
<1> SUFFICES ASSUME \A p \in Partitions : ~SendLock(p) PROVE sending' \in {sending, NoSend} \/ sending # NoSend
  OBVIOUS
<1>1. CASE SendRegister \/ SendAppend
  BY <1>1 DEF SendRegister, SendAppend, NoSend
<1>2. CASE BeginTransaction \/ FlushDone \/ DrainDone \/ FlushTimeout \/ CancelCall
  BY <1>2 DEF BeginTransaction, FlushDone, DrainDone, FlushTimeout, CancelCall
<1>3. ASSUME NEW p, FlushScan(p) \/ DropScan(p) \/ LeaderForgets(p) PROVE sending' = sending
  BY <1>3 DEF FlushScan, DropScan, LeaderForgets
<1>4. ASSUME NEW op, NEW t, Ends(op, t) \/ PrepareStart(t) \/ DropGuard(t)
      PROVE  sending' = sending
  BY <1>4 DEF Ends, EndStart, PrepareStart, DropGuard
<1>5. ASSUME NEW keep, InitStart(keep) PROVE sending' = sending
  BY <1>5 DEF InitStart
<1>6. CASE EndTxnStep
  BY <1>6, EndTxnStepEffect DEF EndTxnEffect
<1>7. CASE EndTxnLookup \/ EndTxnApply \/ InitAnswered \/ InitLost \/ InitAdopt \/ OtherInit
  BY <1>7 DEF EndTxnLookup, EndTxnApply, InitAnswered, InitLost, InitAdopt, OtherInit
<1>8. ASSUME NEW code, SendRegisterRefused(code) \/ InitRefused(code)
      PROVE  sending' \in {sending, NoSend}
  BY <1>8 DEF SendRegisterRefused, InitRefused
<1>9. CASE SenderWork \/ LeaderWork \/ UNCHANGED vars
  BY <1>9, SenderWorkFrame, LeaderWorkServes DEF SenderFrame, LeaderFrame, vars
<1> QED BY <1>1, <1>2, <1>3, <1>4, <1>5, <1>6, <1>7, <1>8, <1>9 DEF Cases

\* A step that accepts no record keeps the numbering.
LEMMA FlowsNumbered ==
  ASSUME Typed, Numbered, Cases, Flows
  PROVE  Appended' = Appended /\ Numbered' /\ RecordsTyped'
<1>1. Appended' = Appended
  BY DEF Flows, OutcomeMoves, Appended, Numbered
<1>2. Logged' \subseteq Logged \cup Held
  BY LoggedStep DEF Typed
<1>3. (Held \cup Logged)' \subseteq Appended
  BY <1>2 DEF Flows, Numbered
<1>4. sending' # NoSend => Appended # Records
  BY SendingStep DEF Numbered, SendLock, Typed
<1>5. Appended \subseteq Records
  BY DEF Appended
<1>6. RecordsTyped'
  BY <1>3, <1>5 DEF RecordsTyped, Flows, OutcomeMoves, Logged, Typed
<1> QED BY <1>1, <1>3, <1>4, <1>6 DEF Numbered

\* What a batch looks like after a record joined it.
Grown(b, r) ==
  /\ b \in UnsentBatch /\ b.gen = recovery_generation /\ Len(b.recs) <= BatchMax
  /\ \/ Elems(b.recs) = {r}
     \/ \E c \in Current : Elems(b.recs) = Elems(c.recs) \cup {r}

\* Every batch of bs is in a batch of cs.
Covers(cs, bs) == \A b \in bs : \E c \in cs : Elems(b.recs) \subseteq Elems(c.recs)

\* The effect of an append that is not refused, with the new record r.
Accepts(r) ==
  /\ sending # NoSend /\ ~SendRefused /\ r \in Records /\ r \notin Appended
  /\ Appended' = Appended \cup {r}
  /\ outcome' \in [Records -> {"none", "pending", "acked", "failed"}]
  /\ outcome' = [outcome EXCEPT ![r] = "pending"]
  /\ txn_of' = [txn_of EXCEPT ![r] = begun]
  /\ QueueTyped'
  /\ \E b : /\ Grown(b, r) /\ QueuedBatches' \subseteq QueuedBatches \cup {b}
            /\ Covers(QueuedBatches', QueuedBatches \cup {b})
  /\ UNCHANGED <<taken, retry, requests, in_flight, next_seq, active>>

LEMMA SendAppendEffect ==
  ASSUME Typed, Numbered, SendAppend
  PROVE  \/ Still
         \/ \E r : Accepts(r) /\ r = Cardinality(Appended) + 1
<1> DEFINE p == sending.part
           r == Cardinality(Appended) + 1
           n == Len(queue[p])
           fresh == [recs |-> <<r>>, gen |-> sending.gen]
           joined == [queue[p][n] EXCEPT !.recs = Append(@, r)]
<1>1. /\ SlotsTyped /\ QueueTyped /\ RecordsTyped /\ SendTyped
  BY DEF Typed, PipelineTyped, ControlTyped
<1>2. CASE AppendRefused /\ UNCHANGED <<queue, recordVars>>
  BY <1>2 DEF SendAppend, Still, recordVars, logVars
<1>3. CASE /\ ~AppendRefused
           /\ outcome' = [outcome EXCEPT ![r] = "pending"]
           /\ txn_of' = [txn_of EXCEPT ![r] = begun]
           /\ \/ queue' = [queue EXCEPT ![p] = Append(@, fresh)]
              \/ /\ n > 0 /\ queue[p][n].gen = sending.gen
                 /\ Len(queue[p][n].recs) < BatchMax
                 /\ queue' = [queue EXCEPT ![p] = [queue[p] EXCEPT ![n] = joined]]
  <2>1. sending # NoSend /\ sending.part \in Partitions
    BY <1>1 DEF SendAppend, NoSend, SendTyped
  <2>2. /\ ~SendRefused /\ sending.gen = recovery_generation
        /\ recovery_generation \in Nat
    BY <1>3 DEF AppendRefused, Typed, ControlTyped, StateTyped
  <2>3. r \in Records /\ r \notin Appended
    <3>1. Cardinality(Appended) # MaxRecords
      BY <2>1 DEF Numbered, Records
    <3> QED BY <3>1, AppendedFinite, TransactionConstants DEF Numbered, Records
  <2> HIDE DEF r
  <2>4. Appended' = Appended \cup {r}
    BY <1>1, <1>3, <2>3 DEF Appended, RecordsTyped
  <2>5. outcome' \in [Records -> {"none", "pending", "acked", "failed"}]
    BY <1>1, <1>3 DEF RecordsTyped
  <2>6. queue[p] \in Seq(UnsentBatch) /\ n \in Nat
    BY <1>1, <2>1, LenProperties DEF QueueTyped
  <2>7. ASSUME NEW s \in Seq(UnsentBatch), NEW b, Grown(b, r),
               Elems(s) \subseteq Elems(queue[p]) \cup {b}, Covers(Elems(s), Elems(queue[p]) \cup {b}),
               queue' = [queue EXCEPT ![p] = s]
        PROVE  Accepts(r)
    <3>1. QueueTyped'
      <4>1. taken' = taken
        BY DEF SendAppend
      <4> QED BY <1>1, <2>1, <2>7, <4>1 DEF QueueTyped
    <3>2. \A x \in Partitions : Elems(queue'[x]) \subseteq Elems(queue[x]) \cup {b}
      BY <1>1, <2>1, <2>7 DEF QueueTyped
    <3>3. QueuedBatches' \subseteq QueuedBatches \cup {b}
      BY <3>2 DEF QueuedBatches
    <3>4. UNCHANGED <<taken, retry, requests, in_flight, next_seq, active>>
      BY DEF SendAppend
    <3>5. ASSUME NEW x \in QueuedBatches \cup {b}
          PROVE  \E d \in QueuedBatches' : Elems(x.recs) \subseteq Elems(d.recs)
      <4>1. queue'[p] = s
        BY <1>1, <2>1, <2>7 DEF QueueTyped
      <4>2. CASE x \in Elems(queue[p]) \cup {b}
        <5>1. PICK d \in Elems(s) : Elems(x.recs) \subseteq Elems(d.recs)
          BY <2>7, <4>2 DEF Covers
        <5>2. d \in QueuedBatches'
          BY <2>1, <4>1 DEF QueuedBatches
        <5> QED BY <5>1, <5>2
      <4>3. ASSUME NEW y \in Partitions, y # p, x \in Elems(queue[y])
            PROVE  x \in QueuedBatches'
        <5>1. queue'[y] = queue[y]
          BY <1>1, <2>7, <4>3 DEF QueueTyped
        <5> QED BY <4>3, <5>1 DEF QueuedBatches
      <4> QED BY <4>2, <4>3 DEF QueuedBatches
    <3>6. Covers(QueuedBatches', QueuedBatches \cup {b})
      BY <3>5 DEF Covers
    <3> QED
      BY <1>3, <2>1, <2>2, <2>3, <2>4, <2>5, <2>7, <3>1, <3>3, <3>4, <3>6 DEF Accepts
  <2>8. CASE queue' = [queue EXCEPT ![p] = Append(@, fresh)]
    <3>1. <<r>> \in Seq(Records) \ {<<>>} /\ Len(<<r>>) = 1
      BY <2>3
    <3>2. Elems(<<r>>) = {r}
      BY <2>3, ElemsSingleton
    <3>3. fresh \in UnsentBatch /\ fresh.recs = <<r>> /\ fresh.gen = recovery_generation
      BY <2>2, <3>1 DEF UnsentBatch
    <3> HIDE DEF fresh
    <3>4. Grown(fresh, r)
      BY <3>1, <3>2, <3>3, TransactionConstants DEF Grown
    <3>5. /\ Append(queue[p], fresh) \in Seq(UnsentBatch)
          /\ Elems(Append(queue[p], fresh)) = Elems(queue[p]) \cup {fresh}
      BY <2>6, <3>3, ElemsAppend
    <3>6. queue' = [queue EXCEPT ![p] = Append(queue[p], fresh)]
      BY <1>1, <2>8 DEF QueueTyped
    <3>7. Covers(Elems(Append(queue[p], fresh)), Elems(queue[p]) \cup {fresh})
      BY <3>5 DEF Covers
    <3> QED BY <2>7, <3>4, <3>5, <3>6, <3>7 DEF r
  <2>9. CASE /\ n > 0 /\ queue[p][n].gen = sending.gen
             /\ Len(queue[p][n].recs) < BatchMax
             /\ queue' = [queue EXCEPT ![p] = [queue[p] EXCEPT ![n] = joined]]
    <3> DEFINE c == queue[p][n]
    <3>1. /\ n \in 1..Len(queue[p]) /\ c \in UnsentBatch /\ c \in Elems(queue[p])
          /\ Elems(queue[p]) = {queue[p][i] : i \in 1..Len(queue[p])}
      BY <2>6, <2>9, ElemsInterval, ElementOfSeq
    <3>2. c \in Current
      BY <2>1, <2>2, <2>9, <3>1 DEF Current, QueuedBatches
    <3>3. c.recs \in Seq(Records) /\ Len(c.recs) \in Nat /\ c.gen = recovery_generation
      BY <2>2, <2>9, <3>1, LenProperties DEF UnsentBatch
    <3>4. /\ Append(c.recs, r) \in Seq(Records)
          /\ Len(Append(c.recs, r)) = Len(c.recs) + 1
      BY <2>3, <3>3, AppendProperties
    <3>5. Append(c.recs, r) # <<>>
      BY <3>3, <3>4, EmptySeq
    <3>6. Elems(Append(c.recs, r)) = Elems(c.recs) \cup {r}
      BY <2>3, <3>3, ElemsAppend
    <3>7. Len(c.recs) < BatchMax
      BY <2>9
    <3> HIDE DEF c
    <3>8. /\ joined \in UnsentBatch /\ joined.recs = Append(c.recs, r)
          /\ joined.gen = recovery_generation
      BY <3>1, <3>3, <3>4, <3>5 DEF UnsentBatch, c
    <3> HIDE DEF joined
    <3>9. Grown(joined, r)
      BY <3>2, <3>3, <3>4, <3>6, <3>7, <3>8, TransactionConstants DEF Grown
    <3> DEFINE s == [queue[p] EXCEPT ![n] = joined]
    <3>10. /\ s \in Seq(UnsentBatch) /\ Len(s) = Len(queue[p])
           /\ \A i \in 1..Len(queue[p]) : s[i] = IF i = n THEN joined ELSE queue[p][i]
      BY <2>6, <3>1, <3>8, ExceptSeq
    <3> HIDE DEF s
    <3>11. Elems(s) = {s[i] : i \in 1..Len(queue[p])}
      BY <3>10, ElemsInterval
    <3>12. Elems(s) \subseteq Elems(queue[p]) \cup {joined}
      BY <3>1, <3>10, <3>11
    <3>13. Elems(c.recs) \subseteq Elems(joined.recs)
      BY <3>6, <3>8
    <3>14. ASSUME NEW x \in Elems(queue[p]) \cup {joined}
           PROVE  \E d \in Elems(s) : Elems(x.recs) \subseteq Elems(d.recs)
      <4>1. joined \in Elems(s)
        BY <3>1, <3>10, <3>11
      <4>2. ASSUME NEW i \in 1..Len(queue[p]), x = queue[p][i]
            PROVE  x \in Elems(s) \/ x = c
        BY <3>10, <3>11, <4>2 DEF c
      <4> QED BY <3>1, <3>13, <4>1, <4>2
    <3>15. Covers(Elems(s), Elems(queue[p]) \cup {joined})
      BY <3>14 DEF Covers
    <3> QED BY <2>7, <2>9, <3>9, <3>10, <3>12, <3>15 DEF r, s
  <2> QED BY <1>3, <2>8, <2>9 DEF r
<1> QED BY <1>2, <1>3 DEF SendAppend

LEMMA AcceptsTyped ==
  ASSUME Typed, Numbered, SendAppend, NEW r, Accepts(r), r = Cardinality(Appended) + 1
  PROVE  /\ PipelineTyped' /\ RecordsTyped' /\ Numbered'
         /\ Outstanding' = Outstanding /\ Held' \subseteq Held \cup {r}
<1>1. /\ SlotsTyped /\ RecordsTyped /\ next_seq \in [Partitions -> Nat]
      /\ active \in BOOLEAN /\ begun \in 0..MaxTransactions
  BY DEF Typed, PipelineTyped, ControlTyped, StateTyped
<1>2. UNCHANGED <<taken, retry, requests, in_flight, next_seq, active>>
  BY DEF Accepts
<1>3. SlotsTyped' /\ Outstanding' = Outstanding
  <2>1. Parked' = Parked
    BY <1>2 DEF Parked
  <2> QED BY <1>1, <1>2, <2>1 DEF SlotsTyped, Outstanding
<1>4. PipelineTyped'
  BY <1>1, <1>2, <1>3 DEF PipelineTyped, Accepts
<1>5. PICK b : Grown(b, r) /\ QueuedBatches' \subseteq QueuedBatches \cup {b}
  BY DEF Accepts
<1>6. Elems(b.recs) \subseteq Held \cup {r}
  <2>1. \A c \in Current : Elems(c.recs) \subseteq Held
    BY HeldBatch DEF Current
  <2> QED BY <1>5, <2>1 DEF Grown
<1>7. Held' \subseteq Held \cup {r}
  <2>1. \A x \in QueuedBatches \cup taken \cup Outstanding : Elems(x.recs) \subseteq Held
    BY HeldBatch
  <2> QED BY <1>2, <1>3, <1>5, <1>6, <2>1 DEF Held, RecordsIn
<1>8. UNCHANGED <<open, committed, aborted, plain>> /\ sending' = NoSend
  BY DEF SendAppend, coordVars, logVars
<1>9. Appended' = Appended \cup {r}
  BY DEF Accepts
<1>10. Appended' = 1..Cardinality(Appended')
  <2>1. Cardinality(Appended \cup {r}) = Cardinality(Appended) + 1
    BY AppendedFinite, FS_AddElement DEF Accepts
  <2>2. 1..(Cardinality(Appended) + 1) = (1..Cardinality(Appended)) \cup {r}
    BY AppendedFinite
  <2> QED BY <1>9, <2>1, <2>2 DEF Numbered
<1>11. Numbered'
  BY <1>7, <1>8, <1>9, <1>10 DEF Numbered, Logged
<1>12. RecordsTyped'
  BY <1>1, <1>8 DEF RecordsTyped, Accepts
<1> QED BY <1>3, <1>4, <1>7, <1>11, <1>12

\* What every step keeps.
LEMMA TypedStep ==
  ASSUME Typed, Numbered, Cases
  PROVE  Typed' /\ Numbered'
<1>1. ControlTyped'
  BY CallTypedStep, SendTypedStep, CoordTypedStep, StateTypedStep DEF ControlTyped, Typed
<1>2. ASSUME Flows PROVE Typed' /\ Numbered'
  BY <1>1, <1>2, FlowsNumbered DEF Typed, Flows
<1>3. CASE SendAppend
  <2>1. CASE Still
    BY <1>2, <2>1, StillMoves, MovesFlow DEF Still
  <2>2. ASSUME NEW r, Accepts(r), r = Cardinality(Appended) + 1 PROVE Typed' /\ Numbered'
    BY <1>1, <1>3, <2>2, AcceptsTyped DEF Typed
  <2> QED BY <1>3, <2>1, <2>2, SendAppendEffect
<1> QED BY <1>2, <1>3, FlowsStep

LEMMA NumberedInit == Init => Numbered
<1> SUFFICES ASSUME Init PROVE Numbered
  OBVIOUS
<1>1. Appended = {}
  BY DEF Init, Appended
<1>2. Parked = {} /\ sending = NoSend
  BY DEF Init, Parked
<1>3. Outstanding = {}
  BY <1>2 DEF Init, Outstanding
<1>4. QueuedBatches = {}
  <2>1. Elems(<<>>) = {}
    BY DEF Elems
  <2> QED BY <2>1 DEF Init, QueuedBatches
<1>5. Held = {}
  BY <1>3, <1>4 DEF Init, Held, RecordsIn
<1>6. Logged = {}
  BY DEF Init, Logged
<1>7. Cardinality(Appended) = 0
  BY <1>1, FS_EmptySet
<1> QED BY <1>1, <1>2, <1>5, <1>6, <1>7 DEF Numbered

\* The types hold in every state, and in_flight counts the batches that the
\* sender drained and has not resolved: no path of complete_batches, of a barrier,
\* an expiry, a split or a fence loses a slot or frees one twice, so that flush
\* and the wait of an abort end exactly when the last batch is resolved.
THEOREM TypeCorrect == Spec => []TypeOK
<1>1. Init => Typed /\ Numbered
  BY TypedInit, NumberedInit
<1>2. Typed /\ Numbered /\ [Next]_vars => Typed' /\ Numbered'
  BY NextCases, TypedStep
<1>3. Typed => TypeOK
  BY TypedIsTypeOK
<1> QED BY <1>1, <1>2, <1>3, PTL DEF Spec

-----------------------------------------------------------------------------
(* Nothing outside of a transaction.                                       *)

\* A leader takes every batch that the producer builds, so split_and_requeue never
\* runs.
NoSplit == BatchMax <= BrokerMax

\* What the sender holds is a part of a transaction.
Transactional ==
  /\ \A b \in Outstanding : b.pid = 0 /\ Len(b.recs) <= BatchMax
  /\ \A b \in QueuedBatches : Len(b.recs) <= BatchMax
  /\ \A q \in requests : q.answer # "MESSAGE_TOO_LARGE"
  /\ plain = {}

\* No batch in a queue can be drained: it is of an earlier generation, or the
\* producer failed for good.
Quiet == Current = {} \/ Fatal

\* A batch of the current generation is one of the transaction in progress.
Generations ==
  /\ \A b \in QueuedBatches :
       /\ b.gen <= recovery_generation
       /\ recovery_required => b.gen < recovery_generation
  /\ Snapshot \/ Quiet

\* The state that a call set, and how far the call is.
Phase ==
  /\ sending # NoSend => txn_state = "InTransaction" /\ Idle
  /\ call.op \in {"commit", "abort"} =>
       /\ txn_state = "CommittingOrAborting"
       /\ call.pc \in {"flush", "drop", "drain", "end", "lookup", "apply"}
       /\ call.prev \in {"InTransaction", "Prepared"}
  /\ call.op = "prepare" =>
       txn_state = "Preparing" /\ call.pc = "flush" /\ call.prev = "InTransaction"
  /\ call.op = "init" => txn_state = "Initializing" /\ call.pc \in {"init", "adopt"}

\* What the call has waited for.
Drained ==
  /\ call.pc \in {"flush", "drop"} => \A p \in Partitions \ call.todo : queue[p] = <<>>
  /\ call.pc \in {"drain", "end", "lookup", "apply"} =>
       \A p \in Partitions : queue[p] = <<>>
  /\ call.pc \in {"end", "lookup", "apply"} => Outstanding = {}
  /\ call.op \in {"commit", "abort"} /\ call.prev = "Prepared" => Quiet

\* A fatal error is final.
LEMMA FatalStep ==
  ASSUME ControlTyped, Cases, Fatal
  PROVE  Fatal'
<1> USE DEF Fatal, txnVars, Unless
<1>1. CASE BeginTransaction \/ FlushDone \/ DrainDone \/ FlushTimeout \/ CancelCall
  BY <1>1 DEF BeginTransaction, FlushDone, DrainDone, FlushTimeout, CancelCall
<1>2. ASSUME NEW p, SendLock(p) \/ FlushScan(p) \/ DropScan(p) \/ LeaderForgets(p)
      PROVE  Fatal'
  BY <1>2 DEF SendLock, FlushScan, DropScan, LeaderForgets
<1>3. ASSUME NEW op, NEW t, Ends(op, t) \/ PrepareStart(t) \/ DropGuard(t) PROVE Fatal'
  BY <1>3 DEF Ends, EndStart, PrepareStart, DropGuard
<1>4. ASSUME NEW keep, InitStart(keep) PROVE Fatal'
  BY <1>4 DEF InitStart
<1>5. CASE EndTxnStep
  BY <1>5, EndTxnStepEffect DEF EndTxnEffect
<1>6. CASE EndTxnApply
  BY <1>6 DEF EndTxnApply, FatalReturn
<1>7. CASE EndTxnLookup \/ InitAnswered \/ InitLost \/ InitAdopt \/ OtherInit
  BY <1>7 DEF EndTxnLookup, InitAnswered, InitLost, InitAdopt, OtherInit
<1>8. CASE SendRegister \/ SendAppend
  BY <1>8 DEF SendRegister, SendAppend
<1>9. ASSUME NEW code \in RefusalCodes, SendRegisterRefused(code) PROVE Fatal'
  <2>1. DecideAddPartitions(code) \in {"Retry", "Abortable", "Fenced", "Fatal"}
    BY TransactionConstants DEF DecideAddPartitions
  <2> QED BY <1>9, <2>1 DEF SendRegisterRefused
<1>10. ASSUME NEW code, InitRefused(code) PROVE Fatal'
  BY <1>10 DEF InitRefused, FatalReturn
<1>11. CASE SenderWork \/ LeaderWork \/ UNCHANGED vars
  BY <1>11, SenderWorkFrame, LeaderWorkServes DEF SenderFrame, LeaderFrame, vars
<1> QED BY <1>1, <1>2, <1>3, <1>4, <1>5, <1>6, <1>7, <1>8, <1>9, <1>10, <1>11 DEF Cases

\* A step that accepts no record: a batch stays, leaves, or moves on from its
\* queue to the wire.
Drifts ==
  /\ QueueMoves /\ OutcomeMoves /\ UNCHANGED txn_of
  /\ \A b \in Outstanding' : Carried(b) \/ (SenderWork /\ Built(b))

LEMMA BatchStep ==
  ASSUME Typed, Numbered, Transactional, Cases
  PROVE  \/ Drifts
         \/ SendAppend /\ \E r : Accepts(r) /\ r = Cardinality(Appended) + 1
<1>1. CASE SenderWork
  <2>1. ASSUME NEW q \in requests PROVE ~CompleteSplit(q)
    BY DEF Transactional, CompleteSplit, Verdict, VerdictWithRetries, ClassifyVerdict
  <2>2. Moves /\ UNCHANGED txn_of
    BY <1>1, <2>1, SenderWorkMoves, SenderWorkFrame DEF SenderFrame
  <2> QED BY <1>1, <2>2 DEF Moves, SlotMoves, Drifts
<1>2. CASE LeaderWork
  <2>1. Flows /\ Outstanding' \subseteq Outstanding
    BY <1>2, LeaderFlows
  <2>2. QueueMoves
    BY <1>2, LeaderWorkServes, QueueStays DEF LeaderFrame, Typed, PipelineTyped
  <2> QED BY <2>1, <2>2, CarriedStays DEF Flows, Drifts
<1>3. ASSUME NEW p \in Partitions, DropScan(p) PROVE Drifts
  <2>1. Moves
    BY <1>3, DropScanMoves
  <2>2. Outstanding' = Outstanding
    BY <1>3 DEF DropScan, Outstanding, Parked
  <2> QED BY <1>3, <2>1, <2>2, CarriedStays DEF Moves, Drifts, DropScan
<1>4. CASE Still
  <2>1. Moves /\ Outstanding' = Outstanding /\ UNCHANGED txn_of
    BY <1>4, StillMoves DEF Still
  <2> QED BY <2>1, CarriedStays DEF Moves, Drifts
<1>5. CASE SendAppend
  BY <1>4, <1>5, SendAppendEffect
<1> QED BY <1>1, <1>2, <1>3, <1>4, <1>5, BatchCases DEF Typed

\* What the steps do with the generation.
LEMMA GenerationStep ==
  ASSUME ControlTyped, Cases
  PROVE  \/ UNCHANGED <<recovery_required, recovery_generation>>
         \/ RequireRecovery /\ (UNCHANGED txn_state \/ EndTxnApply)
         \/ InitAdopt
<1> USE DEF txnVars
<1>1. CASE BeginTransaction \/ FlushDone \/ DrainDone \/ FlushTimeout \/ CancelCall
  BY <1>1 DEF BeginTransaction, FlushDone, DrainDone, FlushTimeout, CancelCall
<1>2. ASSUME NEW p, SendLock(p) \/ FlushScan(p) \/ DropScan(p) \/ LeaderForgets(p)
      PROVE  UNCHANGED <<recovery_required, recovery_generation>>
  BY <1>2 DEF SendLock, FlushScan, DropScan, LeaderForgets
<1>3. ASSUME NEW op, NEW t, Ends(op, t) \/ PrepareStart(t)
      PROVE  UNCHANGED <<recovery_required, recovery_generation>>
  BY <1>3 DEF Ends, EndStart, PrepareStart
<1>4. ASSUME NEW t, DropGuard(t)
      PROVE  \/ UNCHANGED <<recovery_required, recovery_generation>>
             \/ RequireRecovery /\ UNCHANGED txn_state
  BY <1>4 DEF DropGuard
<1>5. ASSUME NEW keep, InitStart(keep)
      PROVE  UNCHANGED <<recovery_required, recovery_generation>>
  BY <1>5 DEF InitStart
<1>6. CASE EndTxnStep
  BY <1>6, EndTxnStepEffect DEF EndTxnEffect
<1>7. CASE EndTxnApply
  BY <1>7 DEF EndTxnApply
<1>8. CASE EndTxnLookup \/ InitAnswered \/ InitLost \/ OtherInit
  BY <1>8 DEF EndTxnLookup, InitAnswered, InitLost, OtherInit
<1>9. CASE SendRegister \/ SendAppend
  BY <1>9 DEF SendRegister, SendAppend
<1>10. ASSUME NEW code, SendRegisterRefused(code) \/ InitRefused(code)
       PROVE  UNCHANGED <<recovery_required, recovery_generation>>
  BY <1>10 DEF SendRegisterRefused, InitRefused
<1>11. CASE SenderWork \/ LeaderWork \/ UNCHANGED vars
  BY <1>11, SenderWorkFrame, LeaderWorkServes DEF SenderFrame, LeaderFrame, vars
<1> QED BY <1>1, <1>2, <1>3, <1>4, <1>5, <1>6, <1>7, <1>8, <1>9, <1>10, <1>11 DEF Cases

LEMMA PhaseStep ==
  ASSUME ControlTyped, Phase, Cases
  PROVE  Phase'
<1> USE DEF Phase, txnVars
<1>1. /\ call \in Call /\ (Idle => call = NoCall) /\ txn_state \in TxnStates
      /\ call.op \in {"none", "commit", "abort", "prepare", "init"}
  BY DEF ControlTyped, CallTyped, StateTyped, Call
<1>2. NoCall.op = "none" /\ NoCall.pc = "none"
  BY DEF NoCall
<1>3. ASSUME UNCHANGED <<call, sending, txn_state>> PROVE Phase'
  BY <1>3 DEF Idle
<1>4. ASSUME call' = NoCall, sending' = sending, Unlocked \/ txn_state' = txn_state
      PROVE  Phase'
  BY <1>1, <1>2, <1>4 DEF Idle, Unlocked
<1>5. ASSUME call' \in Call, call'.op = call.op, call'.prev = call.prev,
             UNCHANGED <<sending, txn_state>>,
             \/ call'.pc = call.pc
             \/ /\ call.pc \in {"flush", "drop", "drain", "end", "lookup"}
                /\ call'.pc \in {"drop", "drain", "end", "lookup", "apply"}
                /\ call.op \in {"commit", "abort"}
             \/ call.pc = "init" /\ call'.pc = "adopt"
      PROVE  Phase'
  BY <1>1, <1>2, <1>5 DEF Idle
<1>6. CASE BeginTransaction
  BY <1>1, <1>2, <1>6 DEF BeginTransaction, Idle, Unlocked
<1>7. ASSUME NEW p \in Partitions, SendLock(p) PROVE Phase'
  BY <1>1, <1>2, <1>7 DEF SendLock, SendRefused, Idle
<1>8. ASSUME NEW p \in Partitions, FlushScan(p) PROVE Phase'
  BY <1>1, <1>5, <1>8 DEF FlushScan, Call
<1>9. ASSUME NEW p \in Partitions, DropScan(p) PROVE Phase'
  <2>1. PICK pc \in {"drain", "drop"} :
          call' = [call EXCEPT !.todo = @ \ {p}, !.pc = pc]
    BY <1>9 DEF DropScan
  <2>2. call' \in Call /\ call'.op = call.op /\ call'.prev = call.prev /\ call'.pc = pc
    BY <1>1, <2>1 DEF Call
  <2>3. call.op \in {"commit", "abort"} /\ call.pc = "drop"
    BY <1>1, <1>2, <1>9 DEF DropScan, Idle
  <2> QED BY <1>5, <1>9, <2>2, <2>3 DEF DropScan
<1>10. ASSUME NEW op \in {"commit", "abort"}, NEW t \in 0..MaxTransactions, Ends(op, t)
       PROVE  Phase'
  BY <1>10, EndStartCall DEF Ends, EndStart, Unlocked
<1>11. ASSUME NEW t \in Transactions, PrepareStart(t) PROVE Phase'
  <2>1. /\ sending' = NoSend /\ txn_state = "InTransaction" /\ txn_state' = "Preparing"
    BY <1>11 DEF PrepareStart, Unlocked
  <2> QED BY <1>11, <2>1, PrepareStartCall
<1>12. ASSUME NEW keep \in BOOLEAN, InitStart(keep) PROVE Phase'
  BY <1>12, InitStartCall DEF InitStart, Unlocked
<1>13. ASSUME NEW t \in Transactions, DropGuard(t) PROVE Phase'
  BY <1>3, <1>13 DEF DropGuard
<1>14. CASE FlushDone
  <2>1. CASE call' = [call EXCEPT !.todo = Partitions]
    BY <1>1, <1>5, <1>14, <2>1, <1>4 DEF FlushDone, ReturnTo, Call
  <2>2. CASE call' = [call EXCEPT !.pc = "end"] /\ call.op = "commit" /\ UNCHANGED txnVars
    BY <1>1, <1>5, <1>14, <2>2 DEF FlushDone, Call
  <2> QED BY <1>4, <1>14, <2>1, <2>2 DEF FlushDone, ReturnTo
<1>15. CASE DrainDone
  <2>1. call.op \in {"commit", "abort"}
    BY <1>1, <1>2, <1>15 DEF DrainDone, Idle
  <2> QED BY <1>1, <1>5, <1>15, <2>1 DEF DrainDone, Call
<1>16. CASE FlushTimeout \/ CancelCall
  BY <1>4, <1>16 DEF FlushTimeout, CancelCall, ReturnTo
<1>17. CASE EndTxnStep
  <2>1. EndTxnEffect
    BY <1>17, EndTxnStepEffect
  <2>2. call.op \in {"commit", "abort"}
    BY <1>1, <1>2, <2>1 DEF EndTxnEffect, Idle
  <2> QED BY <1>5, <2>1, <2>2 DEF EndTxnEffect
<1>18. CASE EndTxnLookup
  <2>1. call.op \in {"commit", "abort"} /\ call.pc = "lookup"
    BY <1>1, <1>2, <1>18 DEF EndTxnLookup, Idle
  <2>2. /\ call' \in Call /\ call'.op = call.op /\ call'.prev = call.prev
        /\ call'.pc \in {"end", "apply"}
    <3>1. CASE call' = [call EXCEPT !.pc = "end"]
      BY <1>1, <3>1 DEF Call
    <3>2. ASSUME NEW d \in EndTxnDecisions,
                 call' = [call EXCEPT !.pc = "apply", !.decision = d]
          PROVE  /\ call' \in Call /\ call'.op = call.op /\ call'.prev = call.prev
                 /\ call'.pc = "apply"
      BY <1>1, <3>2 DEF Call
    <3>3. ASSUME NEW refusal \in LookupRefusals
          PROVE  DecideEndTxnAfterRefusedLookup(refusal, call.lost, call.op = "commit")
                   \in EndTxnDecisions
      BY DEF DecideEndTxnAfterRefusedLookup, LookupRefusals, EndTxnDecisions
    <3> QED BY <1>18, <3>1, <3>2, <3>3 DEF EndTxnLookup
  <2> QED BY <1>5, <1>18, <2>1, <2>2 DEF EndTxnLookup
<1>19. CASE EndTxnApply
  BY <1>4, <1>19 DEF EndTxnApply, ReturnTo, FatalReturn
<1>20. CASE InitAnswered
  <2> DEFINE ongoing == IF call.keep /\ open # {} THEN coord.ongoing ELSE -1
  <2>1. coord.epoch + 1 \in Int /\ ongoing \in Int
    BY DEF ControlTyped, CoordTyped
  <2>2. /\ call.pc = "init"
        /\ call' = [call EXCEPT !.pc = "adopt", !.found = coord.epoch + 1,
                                !.ongoing = ongoing]
    BY <1>20 DEF InitAnswered
  <2> HIDE DEF ongoing
  <2>3. call' \in Call /\ call'.op = call.op /\ call'.prev = call.prev /\ call'.pc = "adopt"
    BY <1>1, <2>1, <2>2 DEF Call
  <2> QED BY <1>5, <1>20, <2>2, <2>3 DEF InitAnswered
<1>21. CASE InitLost \/ InitAdopt
  BY <1>3, <1>4, <1>21 DEF InitLost, InitAdopt, ReturnTo
<1>22. CASE SendRegister \/ SendAppend
  BY <1>1, <1>2, <1>22 DEF SendRegister, SendAppend, Idle, NoSend
<1>23. ASSUME NEW code \in RefusalCodes, SendRegisterRefused(code) PROVE Phase'
  <2>1. DecideAddPartitions(code) \in {"Retry", "Abortable", "Fenced", "Fatal"}
    BY TransactionConstants DEF DecideAddPartitions
  <2>2. call' = call /\ Idle /\ call = NoCall
    BY <1>1, <1>23 DEF SendRegisterRefused, NoSend
  <2>3. sending' = NoSend \/ (sending' = sending /\ txn_state' = txn_state)
    BY <1>23, <2>1 DEF SendRegisterRefused
  <2> QED BY <1>2, <2>2, <2>3 DEF Idle
<1>24. ASSUME NEW code \in RefusalCodes, InitRefused(code) PROVE Phase'
  BY <1>3, <1>4, <1>24 DEF InitRefused, ReturnTo, FatalReturn
<1>25. CASE SenderWork \/ LeaderWork \/ UNCHANGED vars
  BY <1>3, <1>25, SenderWorkFrame, LeaderWorkServes DEF SenderFrame, LeaderFrame, vars
<1>26. ASSUME NEW p \in Partitions, LeaderForgets(p) PROVE Phase'
  BY <1>3, <1>26 DEF LeaderForgets
<1>27. CASE OtherInit
  BY <1>3, <1>27 DEF OtherInit
<1> QED BY <1>6, <1>7, <1>8, <1>9, <1>10, <1>11, <1>12, <1>13, <1>14, <1>15, <1>16,
           <1>17, <1>18, <1>19, <1>20, <1>21, <1>22, <1>23, <1>24, <1>25, <1>26, <1>27
        DEF Cases

LEMMA QueuesEmpty ==
  ASSUME \A p \in Partitions : queue[p] = <<>>
  PROVE  QueuedBatches = {} /\ Current = {}
<1>1. Elems(<<>>) = {}
  BY DEF Elems
<1> QED BY <1>1 DEF QueuedBatches, Current

LEMMA NothingInFlight ==
  ASSUME SlotsTyped, in_flight = 0
  PROVE  Outstanding = {} /\ requests = {} /\ Parked = {}
<1>1. Cardinality(requests) = 0 /\ Cardinality(Parked) = 0
  BY ParkedFinite, RequestsFinite DEF SlotsTyped
<1>2. requests = {} /\ Parked = {}
  BY <1>1, ParkedFinite, FS_EmptySet DEF SlotsTyped
<1> QED BY <1>2 DEF Outstanding

LEMMA QueuedTyped ==
  ASSUME QueueTyped
  PROVE  QueuedBatches \subseteq UnsentBatch
<1>1. \A p \in Partitions : Elems(queue[p]) \subseteq UnsentBatch
  BY ElemsInterval DEF QueueTyped
<1> QED BY <1>1 DEF QueuedBatches

\* No batch joins the current generation but by an append.
LEMMA CurrentShrinks ==
  ASSUME Typed, Generations, Cases, Drifts
  PROVE  Current' \subseteq Current /\ (Quiet => Quiet')
<1>1. QueuedBatches' \subseteq QueuedBatches
  BY DEF Drifts, QueueMoves
<1>2. \A b \in QueuedBatches : b.gen \in Nat
  BY QueuedTyped DEF UnsentBatch, Typed, PipelineTyped
<1>3. recovery_generation \in Nat /\ recovery_required \in BOOLEAN
  BY DEF Typed, ControlTyped, StateTyped
<1>4. ASSUME recovery_generation' = recovery_generation PROVE Current' \subseteq Current
  BY <1>1, <1>4 DEF Current
<1>5. ASSUME recovery_generation' = recovery_generation + 1 PROVE Current' \subseteq Current
  BY <1>1, <1>2, <1>3, <1>5 DEF Current, Generations
<1>6. Current' \subseteq Current
  BY <1>4, <1>5, GenerationStep DEF Typed, RequireRecovery, InitAdopt
<1> QED BY <1>6, FatalStep DEF Quiet, Typed

\* What is empty stays empty.
LEMMA EmptyStays ==
  ASSUME Drifts
  PROVE  /\ \A p \in Partitions : queue[p] = <<>> => queue'[p] = <<>>
         /\ Outstanding = {} /\ (\A p \in Partitions : queue[p] = <<>>) => Outstanding' = {}
<1>1. ASSUME Outstanding = {}, \A p \in Partitions : queue[p] = <<>> PROVE Outstanding' = {}
  <2>1. Current = {}
    BY <1>1, QueuesEmpty
  <2> QED BY <1>1, <2>1 DEF Drifts, Carried, Built
<1> QED BY <1>1 DEF Drifts, QueueMoves

LEMMA DrainedStep ==
  ASSUME Typed, Numbered, Transactional, Generations, Phase, Drained, Cases
  PROVE  Drained'
<1>1. /\ call \in Call /\ (Idle => call = NoCall) /\ ControlTyped /\ SlotsTyped
  BY DEF Typed, ControlTyped, CallTyped, PipelineTyped
<1>2. NoCall.op = "none" /\ NoCall.pc = "none"
  BY DEF NoCall
<1>3. CASE SendAppend
  <2>1. Idle /\ call' = call
    BY <1>3 DEF SendAppend, Phase, NoSend
  <2> QED BY <1>1, <1>2, <2>1 DEF Drained, Idle
<1> SUFFICES ASSUME ~SendAppend PROVE Drained'
  BY <1>3
<1>4. Drifts
  BY BatchStep
<1>5. /\ \A p \in Partitions : queue[p] = <<>> => queue'[p] = <<>>
      /\ Outstanding = {} /\ (\A p \in Partitions : queue[p] = <<>>) => Outstanding' = {}
      /\ Quiet => Quiet'
  BY <1>4, EmptyStays, CurrentShrinks
<1>6. ASSUME call' = call PROVE Drained'
  BY <1>5, <1>6 DEF Drained
<1>7. ASSUME call' = NoCall PROVE Drained'
  BY <1>2, <1>7 DEF Drained
<1>8. ASSUME call'.op = call.op, call'.prev = call.prev,
             call.pc \in {"end", "lookup", "apply"}, call'.pc \in {"end", "lookup", "apply"}
      PROVE  Drained'
  BY <1>5, <1>8 DEF Drained
<1>9. ASSUME NEW p \in Partitions, FlushScan(p) PROVE Drained'
  <2>1. /\ call.pc = "flush" /\ call'.pc = "flush" /\ call'.op = call.op
        /\ call'.prev = call.prev
        /\ call'.todo = IF queue[p] = <<>> THEN call.todo \ {p} ELSE Partitions
    BY <1>1, <1>9 DEF FlushScan, Call
  <2> QED BY <1>5, <2>1 DEF Drained
<1>10. ASSUME NEW p \in Partitions, DropScan(p) PROVE Drained'
  <2>1. /\ call.pc = "drop" /\ call'.op = call.op /\ call'.prev = call.prev
        /\ call'.todo = call.todo \ {p}
        /\ call'.pc = (IF call.todo = {p} THEN "drain" ELSE "drop")
    BY <1>1, <1>10 DEF DropScan, Call
  <2>2. queue'[p] = <<>>
    BY <1>10 DEF DropScan, Typed, PipelineTyped, QueueTyped
  <2> QED BY <1>5, <2>1, <2>2 DEF Drained
<1>11. ASSUME NEW op \in {"commit", "abort"}, NEW t \in 0..MaxTransactions, Ends(op, t)
       PROVE  Drained'
  <2>1. /\ call'.pc \in {"flush", "drop"} /\ call'.prev = txn_state
        /\ call'.todo = Partitions
    BY <1>1, <1>11, EndStartCall DEF Ends
  <2>2. call'.prev = "Prepared" => Quiet'
    BY <1>5, <2>1 DEF Generations, Snapshot
  <2> QED BY <2>1, <2>2 DEF Drained
<1>12. ASSUME NEW t \in Transactions, PrepareStart(t) PROVE Drained'
  BY <1>1, <1>12, PrepareStartCall DEF Drained
<1>13. ASSUME NEW keep \in BOOLEAN, InitStart(keep) PROVE Drained'
  BY <1>1, <1>13, InitStartCall DEF Drained
<1>14. CASE FlushDone
  <2>1. CASE call' = [call EXCEPT !.todo = Partitions]
    <3>1. /\ call'.pc = "flush" /\ call'.op = call.op /\ call'.prev = call.prev
          /\ call'.todo = Partitions
      BY <1>1, <1>14, <2>1 DEF FlushDone, Call
    <3> QED BY <1>5, <3>1 DEF Drained
  <2>2. CASE call' = [call EXCEPT !.pc = "end"] /\ in_flight = 0
    <3>1. /\ call'.pc = "end" /\ call'.op = call.op /\ call'.prev = call.prev
          /\ call.pc = "flush" /\ call.todo = {}
      BY <1>1, <1>14, <2>2 DEF FlushDone, Call
    <3>2. Outstanding = {}
      BY <1>1, <2>2, NothingInFlight
    <3> QED BY <1>5, <3>1, <3>2 DEF Drained
  <2> QED BY <1>7, <1>14, <2>1, <2>2 DEF FlushDone, ReturnTo
<1>15. CASE DrainDone
  <2>1. /\ call'.pc = "end" /\ call'.op = call.op /\ call'.prev = call.prev
        /\ call.pc = "drain"
    BY <1>1, <1>15 DEF DrainDone, Call
  <2>2. Outstanding = {}
    BY <1>1, <1>15, NothingInFlight DEF DrainDone
  <2> QED BY <1>5, <2>1, <2>2 DEF Drained
<1>16. CASE EndTxnStep
  <2>1. EndTxnEffect
    BY <1>1, <1>16, EndTxnStepEffect
  <2> QED BY <1>8, <2>1 DEF EndTxnEffect
<1>17. CASE EndTxnLookup
  <2>1. /\ call.pc = "lookup" /\ call'.op = call.op /\ call'.prev = call.prev
        /\ call'.pc \in {"end", "apply"}
    BY <1>1, <1>17 DEF EndTxnLookup, Call
  <2> QED BY <1>8, <2>1
<1>18. CASE InitAnswered
  <2>1. call'.pc = "adopt" /\ call'.op = call.op /\ call.op = "init"
    BY <1>1, <1>2, <1>18 DEF InitAnswered, Call, Phase, Idle
  <2> QED BY <2>1 DEF Drained
<1>19. CASE \/ BeginTransaction \/ FlushTimeout \/ CancelCall \/ EndTxnApply \/ InitLost
            \/ InitAdopt \/ OtherInit \/ SendRegister \/ UNCHANGED vars
  BY <1>6, <1>7, <1>19
     DEF BeginTransaction, FlushTimeout, CancelCall, EndTxnApply, InitLost, InitAdopt,
         OtherInit, SendRegister, ReturnTo, FatalReturn, vars
<1>20. ASSUME NEW p \in Partitions, SendLock(p) \/ LeaderForgets(p) PROVE Drained'
  BY <1>6, <1>20 DEF SendLock, LeaderForgets
<1>21. ASSUME NEW t \in Transactions, DropGuard(t) PROVE Drained'
  BY <1>6, <1>21 DEF DropGuard
<1>22. ASSUME NEW code, SendRegisterRefused(code) \/ InitRefused(code) PROVE Drained'
  BY <1>6, <1>7, <1>22 DEF SendRegisterRefused, InitRefused, ReturnTo, FatalReturn
<1>23. CASE SenderWork \/ LeaderWork
  BY <1>6, <1>23, SenderWorkFrame, LeaderWorkServes DEF SenderFrame, LeaderFrame
<1> QED BY <1>9, <1>10, <1>11, <1>12, <1>13, <1>14, <1>15, <1>16, <1>17, <1>18, <1>19,
           <1>20, <1>21, <1>22, <1>23 DEF Cases

\* The transaction whose batches are current goes on, unless all is drained.
LEMMA SnapshotStep ==
  ASSUME Typed, Generations, Phase, Drained, Cases, Snapshot, ~Quiet
  PROVE  Snapshot' \/ Fatal'
<1> USE DEF Snapshot, txnVars
<1>1. /\ call \in Call /\ (Idle => call = NoCall) /\ ControlTyped
      /\ call.op \in {"none", "commit", "abort", "prepare", "init"}
  BY DEF Typed, ControlTyped, CallTyped, Call
<1>2. NoCall.op = "none" /\ NoCall.pc = "none"
  BY DEF NoCall
<1>3. ASSUME \A p \in Partitions : queue[p] = <<>> PROVE FALSE
  BY <1>3, QueuesEmpty DEF Quiet
<1>4. call.pc \notin {"drain", "end", "lookup", "apply", "init", "adopt"}
  BY <1>1, <1>2, <1>3 DEF Drained, Phase, Idle
<1>5. call.pc = "flush" => call.prev = "InTransaction" /\ call.todo # {}
  BY <1>1, <1>2, <1>3 DEF Drained, Phase, Idle
<1>6. CASE BeginTransaction \/ CancelCall \/ EndTxnApply \/ InitAdopt \/ DrainDone
  BY <1>4, <1>6 DEF BeginTransaction, CancelCall, EndTxnApply, InitAdopt, DrainDone
<1>7. CASE FlushDone \/ FlushTimeout
  BY <1>4, <1>5, <1>7 DEF FlushDone, FlushTimeout, ReturnTo
<1>8. ASSUME NEW p, SendLock(p) \/ FlushScan(p) \/ DropScan(p) \/ LeaderForgets(p)
      PROVE  Snapshot'
  BY <1>8 DEF SendLock, FlushScan, DropScan, LeaderForgets
<1>9. ASSUME NEW op, NEW t, Ends(op, t) \/ PrepareStart(t) \/ DropGuard(t)
      PROVE  Snapshot'
  BY <1>9 DEF Ends, EndStart, PrepareStart, DropGuard
<1>10. ASSUME NEW keep, InitStart(keep) PROVE FALSE
  <2>1. recovery_required
    BY <1>10 DEF InitStart
  <2>2. Current = {}
    <3>1. \A b \in QueuedBatches : b.gen \in Nat
      BY QueuedTyped DEF UnsentBatch, Typed, PipelineTyped
    <3> QED BY <2>1, <3>1 DEF Generations, Current, Typed, ControlTyped, StateTyped
  <2> QED BY <2>2 DEF Quiet
<1>11. CASE EndTxnStep
  BY <1>1, <1>11, EndTxnStepEffect DEF EndTxnEffect
<1>12. CASE EndTxnLookup \/ InitAnswered \/ InitLost \/ OtherInit
  BY <1>4, <1>12 DEF EndTxnLookup, InitAnswered, InitLost, OtherInit
<1>13. CASE SendRegister \/ SendAppend
  BY <1>13 DEF SendRegister, SendAppend, Fatal
<1>14. ASSUME NEW code \in RefusalCodes, SendRegisterRefused(code) PROVE Snapshot' \/ Fatal'
  <2>1. DecideAddPartitions(code) \in {"Retry", "Abortable", "Fenced", "Fatal"}
    BY TransactionConstants DEF DecideAddPartitions
  <2> QED BY <1>14, <2>1 DEF SendRegisterRefused, Fatal
<1>15. ASSUME NEW code, InitRefused(code) PROVE FALSE
  BY <1>4, <1>15 DEF InitRefused
<1>16. CASE SenderWork \/ LeaderWork \/ UNCHANGED vars
  BY <1>16, SenderWorkFrame, LeaderWorkServes DEF SenderFrame, LeaderFrame, vars
<1> QED BY <1>6, <1>7, <1>8, <1>9, <1>10, <1>11, <1>12, <1>13, <1>14, <1>15, <1>16
        DEF Cases

LEMMA GenerationsStep ==
  ASSUME Typed, Numbered, Transactional, Generations, Phase, Drained, Cases
  PROVE  Generations'
<1>1. /\ recovery_generation \in Nat /\ recovery_required \in BOOLEAN /\ ControlTyped
      /\ \A b \in QueuedBatches : b.gen \in Nat
  BY QueuedTyped DEF Typed, ControlTyped, StateTyped, PipelineTyped, UnsentBatch
<1>2. CASE Drifts
  <2>1. QueuedBatches' \subseteq QueuedBatches
    BY <1>2 DEF Drifts, QueueMoves
  <2>2. \A b \in QueuedBatches :
          /\ b.gen <= recovery_generation'
          /\ recovery_required' => b.gen < recovery_generation'
    <3>1. \/ UNCHANGED <<recovery_required, recovery_generation>>
          \/ recovery_required /\ UNCHANGED recovery_generation
          \/ recovery_generation' = recovery_generation + 1
          \/ recovery_required' = FALSE /\ UNCHANGED recovery_generation
      BY <1>1, GenerationStep DEF RequireRecovery, InitAdopt
    <3> QED BY <1>1, <3>1 DEF Generations
  <2>3. Snapshot' \/ Quiet'
    <3>1. CASE Quiet
      BY <1>2, <3>1, CurrentShrinks
    <3>2. CASE ~Quiet
      BY <3>2, SnapshotStep DEF Generations, Quiet
    <3> QED BY <3>1, <3>2
  <2> QED BY <2>1, <2>2, <2>3 DEF Generations
<1>3. ASSUME SendAppend, NEW r, Accepts(r) PROVE Generations'
  <2>1. /\ UNCHANGED <<recovery_required, recovery_generation, txn_state>>
        /\ txn_state = "InTransaction" /\ ~recovery_required
    BY <1>3 DEF SendAppend, Accepts, SendRefused, txnVars
  <2>2. PICK b : Grown(b, r) /\ QueuedBatches' \subseteq QueuedBatches \cup {b}
    BY <1>3 DEF Accepts
  <2>3. b.gen = recovery_generation
    BY <2>2 DEF Grown
  <2> QED BY <1>1, <2>1, <2>2, <2>3 DEF Generations, Snapshot
<1> QED BY <1>2, <1>3, BatchStep

LEMMA TransactionalStep ==
  ASSUME NoSplit, Typed, Numbered, Transactional, Generations, Cases
  PROVE  Transactional'
<1>1. \A b \in Outstanding' : b.pid = 0 /\ Len(b.recs) <= BatchMax
  <2>1. CASE Drifts
    <3>1. ASSUME NEW b \in Outstanding', Built(b) PROVE b.pid = 0 /\ Len(b.recs) <= BatchMax
      <4>1. Current # {} /\ ~Fatal
        BY <3>1 DEF Built
      <4> QED BY <3>1, <4>1 DEF Built, Generations, Quiet, Current, Transactional
    <3> QED BY <2>1, <3>1 DEF Drifts, Carried, Transactional
  <2>2. ASSUME SendAppend, NEW r, Accepts(r), r = Cardinality(Appended) + 1
        PROVE  \A b \in Outstanding' : b.pid = 0 /\ Len(b.recs) <= BatchMax
    BY <2>2, AcceptsTyped DEF Transactional
  <2> QED BY <2>1, <2>2, BatchStep
<1>2. \A b \in QueuedBatches' : Len(b.recs) <= BatchMax
  BY BatchStep DEF Drifts, QueueMoves, Accepts, Grown, Transactional
<1>3. CASE LeaderWork
  <2>1. PICK q \in requests : Served(q)
    BY <1>3, LeaderWorkServes
  <2>2. q.batch.pid = 0 /\ Len(q.batch.recs) <= BatchMax
    BY RequestOutstanding DEF Transactional
  <2>3. Len(q.batch.recs) \in Nat /\ q \in Request
    BY RequestBatch, LenProperties DEF Typed, PipelineTyped, SlotsTyped
  <2>4. ~(Len(q.batch.recs) > BrokerMax)
    BY <2>2, <2>3, TransactionConstants DEF NoSplit
  <2>5. TxnLeaderCode(q.batch) # "MESSAGE_TOO_LARGE"
    BY <2>4 DEF TxnLeaderCode, LeaderCode
  <2>6. PICK code : Answer(q, code) /\ code # "MESSAGE_TOO_LARGE"
    BY <2>1, <2>5 DEF Served
  <2>7. \A x \in requests' : x.answer # "MESSAGE_TOO_LARGE"
    BY <2>3, <2>6 DEF Answer, Request, Transactional
  <2>8. plain' = plain
    BY <2>1, <2>2 DEF Served, LeaderAppends, NoProducerId, coordVars, logVars
  <2> QED BY <1>1, <1>2, <2>7, <2>8 DEF Transactional
<1>4. CASE SenderWork
  <2>1. ASSUME NEW q \in requests PROVE ~CompleteSplit(q)
    BY DEF Transactional, CompleteSplit, Verdict, VerdictWithRetries, ClassifyVerdict
  <2>2. SlotMoves /\ plain' = plain
    BY <1>4, <2>1, SenderWorkMoves, SenderWorkFrame DEF Moves, SenderFrame
  <2> QED BY <1>1, <1>2, <2>2 DEF Transactional, SlotMoves
<1>5. ASSUME UNCHANGED <<requests, plain>> PROVE Transactional'
  BY <1>1, <1>2, <1>5 DEF Transactional
<1>6. ASSUME NEW p \in Partitions, DropScan(p) PROVE Transactional'
  BY <1>5, <1>6 DEF DropScan, logVars
<1>7. CASE Still \/ SendAppend
  BY <1>5, <1>7 DEF Still, SendAppend, logVars
<1> QED BY <1>3, <1>4, <1>6, <1>7, BatchCases DEF Typed

Ground == Typed /\ Numbered /\ Transactional /\ Generations /\ Phase /\ Drained

LEMMA GroundInit == Init => Ground
<1> SUFFICES ASSUME Init PROVE Ground
  OBVIOUS
<1>1. Typed /\ Numbered
  BY TypedInit, NumberedInit
<1>2. QueuedBatches = {} /\ Current = {}
  BY QueuesEmpty DEF Init
<1>3. Parked = {} /\ requests = {} /\ plain = {}
  BY DEF Init, Parked
<1>4. Outstanding = {}
  BY <1>3 DEF Outstanding
<1>5. Transactional /\ Generations
  BY <1>2, <1>3, <1>4 DEF Transactional, Generations, Quiet
<1>6. Phase /\ Drained
  BY DEF Init, Phase, Drained, NoCall
<1> QED BY <1>1, <1>5, <1>6 DEF Ground

LEMMA GroundStep ==
  ASSUME NoSplit, Ground, Cases
  PROVE  Ground'
<1> USE DEF Ground
<1>1. Typed' /\ Numbered'
  BY TypedStep
<1>2. Phase'
  BY PhaseStep DEF Typed
<1>3. Drained' /\ Generations'
  BY DrainedStep, GenerationsStep
<1>4. Transactional'
  BY TransactionalStep
<1> QED BY <1>1, <1>2, <1>3, <1>4

\* When no batch has to be split, the sender never builds a batch of a
\* transactional producer outside of a transaction (txn_pid_snapshot), whatever
\* races: a drain against the end of a transaction, its recovery or a fatal error.
THEOREM NothingOutsideTransactionHolds ==
  ASSUME NoSplit
  PROVE  Spec => []NothingOutsideTransaction
<1>1. Ground /\ [Next]_vars => Ground'
  BY NextCases, GroundStep
<1>2. Ground => NothingOutsideTransaction
  BY DEF Ground, Transactional, NothingOutsideTransaction
<1> QED BY <1>1, <1>2, GroundInit, PTL DEF Spec

-----------------------------------------------------------------------------
(* Epochs.                                                                 *)

\* The states of a producer that has no epoch yet.
Unborn == {"Uninitialized", "Initializing", "Fenced", "FatalError"}

Born ==
  epoch = -1 => /\ txn_state \in Unborn /\ call.op \in {"none", "init"}
                /\ call.op = "init" => call.prev \in Unborn

\* The producer never has a later epoch than the coordinator, and a batch never a
\* later one than the producer.  A call that is about to adopt an epoch adopts a
\* later one.
Epochs ==
  /\ -1 <= epoch /\ epoch <= coord.epoch
  /\ \A b \in Outstanding : 0 <= b.epoch /\ b.epoch <= epoch
  /\ call.pc = "adopt" => epoch < call.found /\ call.found <= coord.epoch
  /\ call.pc = "apply" /\ call.decision = "Complete" /\ call.found >= 0 =>
       epoch <= call.found /\ call.found <= coord.epoch

\* The coordinator ends the transaction for the call.
Finishes == EndTxnStep /\ EndTxnApplies /\ CoordinatorEnds /\ call'.applied

\* The coordinator raises the epoch for an InitProducerId.
Raises(keep) ==
  /\ CoordinatorInits(keep)
  /\ \/ InitAnswered /\ keep = call.keep
     \/ InitLost /\ keep = call.keep
     \/ OtherInit /\ keep = FALSE

\* The steps, by what they do at the coordinator.
LEMMA CoordCases ==
  ASSUME ControlTyped, Cases
  PROVE  \/ UNCHANGED coordVars \/ LeaderWork \/ Finishes
         \/ \E keep \in BOOLEAN : Raises(keep)
<1>1. CASE EndTxnStep
  BY <1>1, EndTxnStepEffect DEF EndTxnEffect, CoordinatorEnds, Finishes
<1>2. CASE InitAnswered \/ InitLost \/ OtherInit
  <2>1. call.keep \in BOOLEAN
    BY DEF ControlTyped, CallTyped, Call
  <2>2. PICK no \in BOOLEAN : no = FALSE
    OBVIOUS
  <2>3. CASE OtherInit
    BY <2>2, <2>3 DEF OtherInit, Raises
  <2> QED BY <1>2, <2>1, <2>3 DEF InitAnswered, InitLost, Raises
<1>3. CASE BeginTransaction \/ FlushDone \/ DrainDone \/ FlushTimeout \/ CancelCall
  BY <1>3 DEF BeginTransaction, FlushDone, DrainDone, FlushTimeout, CancelCall
<1>4. ASSUME NEW p, SendLock(p) \/ FlushScan(p) \/ DropScan(p) \/ LeaderForgets(p)
      PROVE  UNCHANGED coordVars
  BY <1>4 DEF SendLock, FlushScan, DropScan, LeaderForgets
<1>5. ASSUME NEW op, NEW t, Ends(op, t) \/ PrepareStart(t) \/ DropGuard(t)
      PROVE  UNCHANGED coordVars
  BY <1>5 DEF Ends, EndStart, PrepareStart, DropGuard
<1>6. ASSUME NEW keep, InitStart(keep) PROVE UNCHANGED coordVars
  BY <1>6 DEF InitStart
<1>7. CASE EndTxnLookup \/ EndTxnApply \/ InitAdopt \/ SendRegister \/ SendAppend
  BY <1>7 DEF EndTxnLookup, EndTxnApply, InitAdopt, SendRegister, SendAppend
<1>8. ASSUME NEW code, SendRegisterRefused(code) \/ InitRefused(code)
      PROVE  UNCHANGED coordVars
  BY <1>8 DEF SendRegisterRefused, InitRefused
<1>9. CASE SenderWork \/ UNCHANGED vars
  BY <1>9, SenderWorkFrame DEF SenderFrame, vars, coordVars
<1> QED BY <1>1, <1>2, <1>3, <1>4, <1>5, <1>6, <1>7, <1>8, <1>9 DEF Cases

\* The leader's part: an append is one of a batch of the coordinator's epoch.
Appends(b) ==
  /\ b \in Outstanding /\ b.epoch = coord.epoch
  /\ open' = open \cup Elems(b.recs)
  /\ coord' = [coord EXCEPT !.ongoing = IF open = {} THEN b.epoch ELSE @]
  /\ UNCHANGED <<committed, aborted>>

LEMMA LeaderStep ==
  ASSUME NoSplit, Typed, Transactional, LeaderWork
  PROVE  /\ UNCHANGED coordVars \/ \E b : Appends(b)
         /\ UNCHANGED <<txnVars, call, sending, txn_of, ghostVars>>
<1>1. PICK q \in requests : Served(q)
  BY LeaderWorkServes
<1>2. q.batch \in Outstanding /\ q.batch.pid = 0 /\ Len(q.batch.recs) <= BatchMax
  BY RequestOutstanding DEF Transactional
<1>3. Len(q.batch.recs) \in Nat
  BY RequestBatch, LenProperties DEF Typed, PipelineTyped
<1>4. Len(q.batch.recs) <= BrokerMax
  BY <1>2, <1>3, TransactionConstants DEF NoSplit
<1>5. TxnLeaderCode(q.batch) = "NONE" => q.batch.epoch = coord.epoch
  BY <1>2, <1>4 DEF TxnLeaderCode, NoProducerId
<1>6. UNCHANGED coordVars \/ Appends(q.batch)
  BY <1>1, <1>2, <1>5 DEF Served, LeaderAppends, Appends, NoProducerId, coordVars
<1>7. UNCHANGED <<txnVars, call, sending, txn_of, ghostVars>>
  BY LeaderWorkServes DEF LeaderFrame, recordVars
<1> QED BY <1>6, <1>7

LEMMA AppendsEffect ==
  ASSUME CoordTyped, NEW b, Appends(b)
  PROVE  /\ coord'.epoch = coord.epoch /\ coord'.last = coord.last
         /\ coord'.ongoing = IF open = {} THEN b.epoch ELSE coord.ongoing
BY DEF Appends, CoordTyped

\* The epoch of the coordinator grows by steps of one.
LEMMA CoordEpochStep ==
  ASSUME NoSplit, Typed, Transactional, Cases
  PROVE  /\ coord'.epoch \in {coord.epoch, coord.epoch + 1}
         /\ coord'.epoch \in Int /\ coord.epoch \in Int
         /\ (\E keep : Raises(keep)) => coord'.epoch = coord.epoch + 1 /\ coord'.last = "none"
         /\ Finishes => /\ coord'.last = call.op
                        /\ coord'.epoch =
                             IF TransactionV2 THEN coord.epoch + 1 ELSE coord.epoch
<1>1. CoordTyped /\ ControlTyped /\ CallTyped /\ coord.epoch \in Int
  BY DEF Typed, ControlTyped, CoordTyped
<1>2. ASSUME NEW keep, Raises(keep)
      PROVE  coord'.epoch = coord.epoch + 1 /\ coord'.last = "none"
  BY <1>1, <1>2, InitsEffect DEF Raises
<1>3. ASSUME Finishes
      PROVE  /\ coord'.last = call.op
             /\ coord'.epoch = IF TransactionV2 THEN coord.epoch + 1 ELSE coord.epoch
  BY <1>1, <1>3, EndsEffect DEF Finishes
<1>4. ASSUME LeaderWork PROVE coord'.epoch = coord.epoch
  BY <1>1, <1>4, LeaderStep, AppendsEffect DEF coordVars
<1>5. coord'.epoch \in {coord.epoch, coord.epoch + 1}
  BY <1>1, <1>2, <1>3, <1>4, CoordCases DEF coordVars
<1> QED BY <1>1, <1>2, <1>3, <1>5

\* How a call gets to the point where it adopts an epoch.
LEMMA AdoptingStep ==
  ASSUME ControlTyped, Cases, call'.pc \in {"apply", "adopt"}
  PROVE  \/ call' = call
         \/ InitAnswered /\ call'.pc = "adopt" /\ call'.found = coord.epoch + 1
         \/ EndTxnStep /\ call'.pc = "apply"
         \/ EndTxnLookup /\ call'.pc = "apply" /\ call'.decision # "Complete"
<1>1. call \in Call /\ NoCall.pc = "none"
  BY DEF ControlTyped, CallTyped, NoCall
<1>2. ASSUME NEW p \in Partitions, FlushScan(p) PROVE FALSE
  BY <1>1, <1>2 DEF FlushScan, Call
<1>3. ASSUME NEW p \in Partitions, DropScan(p) PROVE FALSE
  BY <1>1, <1>3 DEF DropScan, Call
<1>4. ASSUME NEW op \in {"commit", "abort"}, NEW t \in 0..MaxTransactions, Ends(op, t)
      PROVE  FALSE
  BY <1>4, EndStartCall DEF Ends
<1>5. ASSUME NEW t \in Transactions, PrepareStart(t) PROVE FALSE
  BY <1>5, PrepareStartCall
<1>6. ASSUME NEW keep \in BOOLEAN, InitStart(keep) PROVE FALSE
  BY <1>6, InitStartCall
<1>7. CASE FlushDone \/ DrainDone
  BY <1>1, <1>7 DEF FlushDone, DrainDone, ReturnTo, Call
<1>8. CASE EndTxnStep
  BY <1>8, EndTxnStepEffect DEF EndTxnEffect
<1>9. CASE EndTxnLookup
  <2>1. CASE call' = [call EXCEPT !.pc = "end"]
    BY <1>1, <2>1 DEF Call
  <2>2. ASSUME NEW d, d # "Complete", call' = [call EXCEPT !.pc = "apply", !.decision = d]
        PROVE  call'.pc = "apply" /\ call'.decision # "Complete"
    BY <1>1, <2>2 DEF Call
  <2>3. ASSUME NEW refusal \in LookupRefusals
        PROVE  DecideEndTxnAfterRefusedLookup(refusal, call.lost, call.op = "commit")
                 # "Complete"
    BY DEF DecideEndTxnAfterRefusedLookup, LookupRefusals
  <2> QED BY <1>9, <2>1, <2>2, <2>3 DEF EndTxnLookup
<1>10. CASE InitAnswered
  <2> DEFINE ongoing == IF call.keep /\ open # {} THEN coord.ongoing ELSE -1
  <2>1. call' = [call EXCEPT !.pc = "adopt", !.found = coord.epoch + 1, !.ongoing = ongoing]
    BY <1>10 DEF InitAnswered
  <2> HIDE DEF ongoing
  <2>2. call'.pc = "adopt" /\ call'.found = coord.epoch + 1
    BY <1>1, <2>1 DEF Call
  <2> QED BY <1>10, <2>2
<1>11. CASE \/ BeginTransaction \/ FlushTimeout \/ CancelCall \/ EndTxnApply \/ InitLost
            \/ InitAdopt \/ OtherInit \/ SendRegister \/ SendAppend \/ UNCHANGED vars
  BY <1>1, <1>11
     DEF BeginTransaction, FlushTimeout, CancelCall, EndTxnApply, InitLost, InitAdopt,
         OtherInit, SendRegister, SendAppend, ReturnTo, FatalReturn, vars
<1>12. ASSUME NEW p \in Partitions, SendLock(p) \/ LeaderForgets(p) PROVE call' = call
  BY <1>12 DEF SendLock, LeaderForgets
<1>13. ASSUME NEW t \in Transactions, DropGuard(t) PROVE call' = call
  BY <1>13 DEF DropGuard
<1>14. ASSUME NEW code, SendRegisterRefused(code) \/ InitRefused(code) PROVE call' = call
  BY <1>1, <1>14 DEF SendRegisterRefused, InitRefused, ReturnTo, FatalReturn
<1>15. CASE SenderWork \/ LeaderWork
  BY <1>15, SenderWorkFrame, LeaderWorkServes DEF SenderFrame, LeaderFrame
<1> QED BY <1>2, <1>3, <1>4, <1>5, <1>6, <1>7, <1>8, <1>9, <1>10, <1>11, <1>12, <1>13,
           <1>14, <1>15 DEF Cases

\* The epoch changes in two steps only.
LEMMA EpochStep ==
  ASSUME ControlTyped, Cases
  PROVE  \/ epoch' = epoch
         \/ EndTxnApply /\ call.decision = "Complete" /\ call.found >= 0 /\ epoch' = call.found
         \/ InitAdopt /\ epoch' = call.found
<1> USE DEF txnVars
<1>1. CASE BeginTransaction \/ FlushDone \/ DrainDone \/ FlushTimeout \/ CancelCall
  BY <1>1 DEF BeginTransaction, FlushDone, DrainDone, FlushTimeout, CancelCall
<1>2. ASSUME NEW p, SendLock(p) \/ FlushScan(p) \/ DropScan(p) \/ LeaderForgets(p)
      PROVE  epoch' = epoch
  BY <1>2 DEF SendLock, FlushScan, DropScan, LeaderForgets
<1>3. ASSUME NEW op, NEW t, Ends(op, t) \/ PrepareStart(t) \/ DropGuard(t)
      PROVE  epoch' = epoch
  BY <1>3 DEF Ends, EndStart, PrepareStart, DropGuard
<1>4. ASSUME NEW keep, InitStart(keep) PROVE epoch' = epoch
  BY <1>4 DEF InitStart
<1>5. CASE EndTxnStep
  BY <1>5, EndTxnStepEffect DEF EndTxnEffect
<1>6. CASE EndTxnApply
  BY <1>6 DEF EndTxnApply, AdoptIdentity
<1>7. CASE InitAdopt
  BY <1>7 DEF InitAdopt, AdoptIdentity
<1>8. CASE EndTxnLookup \/ InitAnswered \/ InitLost \/ OtherInit
  BY <1>8 DEF EndTxnLookup, InitAnswered, InitLost, OtherInit
<1>9. CASE SendRegister \/ SendAppend
  BY <1>9 DEF SendRegister, SendAppend
<1>10. ASSUME NEW code, SendRegisterRefused(code) \/ InitRefused(code)
       PROVE  epoch' = epoch
  BY <1>10 DEF SendRegisterRefused, InitRefused
<1>11. CASE SenderWork \/ LeaderWork \/ UNCHANGED vars
  BY <1>11, SenderWorkFrame, LeaderWorkServes DEF SenderFrame, LeaderFrame, vars
<1> QED BY <1>1, <1>2, <1>3, <1>4, <1>5, <1>6, <1>7, <1>8, <1>9, <1>10, <1>11 DEF Cases

LEMMA EpochsStep ==
  ASSUME NoSplit, Ground, Born, Epochs, Cases
  PROVE  Epochs' /\ epoch <= epoch' /\ (InitAdopt => epoch < epoch')
<1> USE DEF Ground
<1>1. /\ ControlTyped /\ CallTyped /\ CoordTyped /\ epoch \in Int /\ call.found \in Int
      /\ coord.epoch \in Int
  BY DEF Typed, ControlTyped, StateTyped, CallTyped, Call, CoordTyped
<1>2. /\ coord'.epoch \in {coord.epoch, coord.epoch + 1} /\ coord'.epoch \in Int
      /\ (\E keep : Raises(keep)) => coord'.epoch = coord.epoch + 1
      /\ Finishes =>
           coord'.epoch = IF TransactionV2 THEN coord.epoch + 1 ELSE coord.epoch
  BY CoordEpochStep
<1>3. /\ epoch <= epoch' /\ epoch' <= coord.epoch /\ epoch' \in Int
      /\ InitAdopt => epoch < epoch'
  <2>1. CASE InitAdopt
    <3>1. call.pc = "adopt" /\ epoch' = call.found
      BY <2>1 DEF InitAdopt, AdoptIdentity
    <3> QED BY <1>1, <3>1 DEF Epochs
  <2>2. CASE /\ EndTxnApply /\ call.decision = "Complete" /\ call.found >= 0
             /\ epoch' = call.found
    <3>1. call.pc = "apply"
      BY <2>2 DEF EndTxnApply
    <3>2. ~InitAdopt
      BY <3>1 DEF InitAdopt
    <3> QED BY <1>1, <2>2, <3>1, <3>2 DEF Epochs
  <2> QED BY <1>1, <2>1, <2>2, EpochStep DEF Epochs
<1>4. \A b \in Outstanding' : 0 <= b.epoch /\ b.epoch <= epoch'
  <2>1. \A b \in Outstanding : b.epoch \in Int
    BY DEF Typed, PipelineTyped, SlotsTyped, Outstanding, Request, SealedBatch, Parked
  <2>2. CASE Drifts
    <3>1. ASSUME NEW b \in Outstanding', Built(b) PROVE 0 <= b.epoch /\ b.epoch <= epoch
      <4>1. Current # {} /\ ~Fatal
        BY <3>1 DEF Built
      <4>2. Snapshot
        BY <4>1 DEF Generations, Quiet
      <4>3. epoch # -1 /\ b.epoch = epoch
        BY <3>1, <4>2 DEF Built, Born, Snapshot, Unborn
      <4> QED BY <1>1, <4>3 DEF Epochs
    <3>2. ASSUME NEW b \in Outstanding'
          PROVE  0 <= b.epoch /\ b.epoch <= epoch /\ b.epoch \in Int
      BY <1>1, <2>1, <2>2, <3>1 DEF Drifts, Carried, Epochs, Built
    <3> QED BY <1>1, <1>3, <3>2
  <2>3. ASSUME SendAppend, NEW r, Accepts(r), r = Cardinality(Appended) + 1
        PROVE  \A b \in Outstanding' : 0 <= b.epoch /\ b.epoch <= epoch'
    <3>1. Outstanding' = Outstanding /\ epoch' = epoch
      BY <2>3, AcceptsTyped DEF SendAppend, txnVars
    <3> QED BY <3>1 DEF Epochs
  <2> QED BY <2>2, <2>3, BatchStep
<1>5. -1 <= epoch' /\ epoch' <= coord'.epoch
  BY <1>1, <1>2, <1>3 DEF Epochs
<1>6. ASSUME call' = call, call.pc \in {"apply", "adopt"} PROVE epoch' = epoch
  <2>1. NoCall.pc = "none"
    BY DEF NoCall
  <2>2. EndTxnApply \/ InitAdopt => call' = NoCall
    BY DEF EndTxnApply, InitAdopt, ReturnTo, FatalReturn
  <2> QED BY <1>1, <1>6, <2>1, <2>2, EpochStep
<1>7. ASSUME call'.pc = "adopt" PROVE epoch' < call'.found /\ call'.found <= coord'.epoch
  <2>1. CASE call' = call
    BY <1>1, <1>2, <1>6, <1>7, <2>1 DEF Epochs
  <2>2. CASE InitAnswered /\ call'.found = coord.epoch + 1
    <3>1. epoch' = epoch /\ \E keep : Raises(keep)
      BY <2>2 DEF InitAnswered, Raises, txnVars
    <3> QED BY <1>1, <1>2, <2>2, <3>1 DEF Epochs
  <2> QED BY <1>1, <1>7, <2>1, <2>2, AdoptingStep
<1>8. ASSUME call'.pc = "apply", call'.decision = "Complete", call'.found >= 0
      PROVE  epoch' <= call'.found /\ call'.found <= coord'.epoch
  <2>1. CASE call' = call
    BY <1>1, <1>2, <1>6, <1>8, <2>1 DEF Epochs
  <2>2. CASE EndTxnStep
    <3>1. /\ EndTxnEffect /\ CoordinatorEnds /\ (EndTxnApplies \/ EndTxnRepeated)
          /\ call'.found = EpochAfterEnd /\ epoch' = epoch
      BY <1>1, <1>8, <2>2, EndTxnStepEffect DEF EndTxnEffect, txnVars
    <3>2. TransactionV2
      BY <1>8, <3>1 DEF EpochAfterEnd
    <3>3. CASE EndTxnApplies
      BY <1>1, <3>1, <3>2, <3>3, EndsEffect DEF EpochAfterEnd, EndTxnApplies
    <3>4. CASE ~EndTxnApplies
      BY <1>1, <3>1, <3>2, <3>4 DEF EpochAfterEnd, CoordinatorEnds, coordVars, Epochs
    <3> QED BY <3>3, <3>4
  <2> QED BY <1>1, <1>8, <2>1, <2>2, AdoptingStep
<1> QED BY <1>3, <1>4, <1>5, <1>7, <1>8 DEF Epochs

LEMMA BornStep ==
  ASSUME NoSplit, Ground, Born, Epochs, Cases
  PROVE  Born'
<1> USE DEF Ground
<1>1. /\ ControlTyped /\ call \in Call /\ (Idle => call = NoCall) /\ epoch \in Int
      /\ epoch' \in Int
  <2>1. Typed'
    BY TypedStep
  <2> QED BY <2>1 DEF Typed, ControlTyped, CallTyped, StateTyped
<1>2. NoCall.op = "none" /\ NoCall.pc = "none"
  BY DEF NoCall
<1>3. epoch <= epoch' /\ (InitAdopt => epoch < epoch') /\ -1 <= epoch
  BY EpochsStep DEF Epochs
<1> SUFFICES ASSUME epoch' = -1
             PROVE  /\ txn_state' \in Unborn /\ call'.op \in {"none", "init"}
                    /\ call'.op = "init" => call'.prev \in Unborn
  BY DEF Born
<1>4. epoch = -1 /\ ~InitAdopt
  BY <1>1, <1>3
<1>5. /\ txn_state \in Unborn /\ call.op \in {"none", "init"}
      /\ call.op = "init" => call.prev \in Unborn
  BY <1>4 DEF Born
<1>6. sending = NoSend /\ call.pc \in {"none", "init", "adopt"}
  BY <1>1, <1>2, <1>5 DEF Phase, Unborn, Idle
<1> USE DEF txnVars
<1>7. CASE BeginTransaction \/ SendRegister \/ SendAppend
  BY <1>5, <1>6, <1>7 DEF BeginTransaction, SendRegister, SendAppend, NoSend, Unborn
<1>8. ASSUME NEW p \in Partitions, SendLock(p) \/ LeaderForgets(p) PROVE UNCHANGED <<call, txn_state>>
  BY <1>8 DEF SendLock, LeaderForgets
<1>9. ASSUME NEW p \in Partitions, FlushScan(p) \/ DropScan(p) PROVE FALSE
  BY <1>6, <1>9 DEF FlushScan, DropScan
<1>10. ASSUME NEW op, NEW t, Ends(op, t) \/ PrepareStart(t) PROVE FALSE
  BY <1>5, <1>10 DEF Ends, EndStart, PrepareStart, Unborn
<1>11. ASSUME NEW t, DropGuard(t) PROVE UNCHANGED <<call, txn_state>>
  BY <1>11 DEF DropGuard
<1>12. ASSUME NEW keep \in BOOLEAN, InitStart(keep)
       PROVE  call'.op = "init" /\ call'.prev = txn_state /\ txn_state' = "Initializing"
  BY <1>1, <1>12, InitStartCall DEF InitStart
<1>13. CASE FlushDone \/ DrainDone \/ FlushTimeout \/ EndTxnLookup \/ EndTxnApply
  BY <1>6, <1>13 DEF FlushDone, DrainDone, FlushTimeout, EndTxnLookup, EndTxnApply
<1>14. CASE EndTxnStep
  BY <1>1, <1>6, <1>14, EndTxnStepEffect DEF EndTxnEffect
<1>15. CASE CancelCall \/ OtherInit
  BY <1>2, <1>5, <1>15 DEF CancelCall, OtherInit
<1>16. CASE InitAnswered
  <2>1. /\ call'.op = call.op /\ call'.prev = call.prev
    BY <1>1, <1>16 DEF InitAnswered, Call
  <2> QED BY <1>5, <1>16, <2>1 DEF InitAnswered
<1>17. CASE InitLost
  <2>1. call.op = "init"
    BY <1>1, <1>2, <1>5, <1>17 DEF InitLost, Idle
  <2> QED BY <1>2, <1>5, <1>17, <2>1 DEF InitLost, ReturnTo
<1>18. ASSUME NEW code \in RefusalCodes, SendRegisterRefused(code) PROVE FALSE
  BY <1>6, <1>18 DEF SendRegisterRefused, NoSend
<1>19. ASSUME NEW code \in RefusalCodes, InitRefused(code)
       PROVE  /\ txn_state' \in Unborn /\ call'.op \in {"none", "init"}
              /\ call'.op = "init" => call'.prev \in Unborn
  <2>1. call.op = "init"
    BY <1>1, <1>2, <1>5, <1>19 DEF InitRefused, Idle
  <2> QED BY <1>2, <1>5, <1>19, <2>1 DEF InitRefused, ReturnTo, FatalReturn, Unborn
<1>20. CASE SenderWork \/ LeaderWork \/ UNCHANGED vars
  BY <1>5, <1>20, SenderWorkFrame, LeaderWorkServes DEF SenderFrame, LeaderFrame, vars
<1>21. "Initializing" \in Unborn
  BY DEF Unborn
<1> QED BY <1>4, <1>5, <1>7, <1>8, <1>9, <1>10, <1>11, <1>12, <1>13, <1>14, <1>15,
           <1>16, <1>17, <1>18, <1>19, <1>20, <1>21 DEF Cases

-----------------------------------------------------------------------------
(* The open transaction.                                                   *)

\* The states of a transaction that goes on.
Live == {"InTransaction", "Preparing", "Prepared"}

\* The errors of commit and abort that leave the transaction as it was.
Returned == {"ConcurrentTransactions", "TimedOut", "Abortable"}

\* A call goes on: commit, abort and prepare wait or exchange EndTxn.
Proceeds ==
  /\ call'.op = call.op /\ call'.prev = call.prev /\ call'.guard = call.guard
  /\ call'.pc # "adopt" /\ call.op # "init" /\ (call.applied => call'.applied)

\* InitProducerId was answered: the call adopts the answer next.
Learns ==
  /\ InitAnswered /\ call.op = "init" /\ call'.op = "init" /\ call'.prev = call.prev
  /\ call'.pc = "adopt" /\ call'.found = coord.epoch + 1
  /\ call'.ongoing = IF call.keep /\ open # {} THEN coord.ongoing ELSE -1

\* A call starts.
Starts ==
  /\ txn_state \in Live /\ call'.op \in {"commit", "abort", "prepare"}
  /\ call'.pc # "adopt" /\ UNCHANGED begun
  /\ call'.op # "prepare" => call'.guard \in {0, begun} \/ "stale_guard" \in Faults
StartsInit ==
  call'.op = "init" /\ call'.prev = txn_state /\ call'.pc = "init"

\* What the steps do with the call.
LEMMA CallMoves ==
  ASSUME ControlTyped, Phase, Cases
  PROVE  call' = call \/ call' = NoCall \/ Proceeds \/ Learns \/ Starts \/ StartsInit
<1>1. /\ call \in Call /\ (Idle => call = NoCall) /\ call.applied \in BOOLEAN
      /\ call.op \in {"none", "commit", "abort", "prepare", "init"}
  BY DEF ControlTyped, CallTyped, Call
<1>2. NoCall.op = "none" /\ NoCall.pc = "none"
  BY DEF NoCall
<1>3. call.pc \in {"flush", "drop", "drain", "end", "lookup"} => call.op # "init"
  BY DEF Phase
<1>4. ASSUME NEW p \in Partitions, FlushScan(p) PROVE Proceeds
  BY <1>1, <1>3, <1>4 DEF FlushScan, Call, Proceeds
<1>5. ASSUME NEW p \in Partitions, DropScan(p) PROVE Proceeds
  <2>1. PICK pc \in {"drain", "drop"} :
          call' = [call EXCEPT !.todo = @ \ {p}, !.pc = pc]
    BY <1>5 DEF DropScan
  <2>2. /\ call'.op = call.op /\ call'.prev = call.prev /\ call'.pc = pc
        /\ call'.guard = call.guard /\ call'.applied = call.applied
    BY <1>1, <2>1 DEF Call
  <2> QED BY <1>3, <1>5, <2>2 DEF DropScan, Proceeds
<1>6. ASSUME NEW op \in {"commit", "abort"}, NEW t \in 0..MaxTransactions, Ends(op, t)
      PROVE  Starts
  <2>1. call'.op = op /\ call'.guard = t /\ call'.pc \in {"flush", "drop"}
    BY <1>6, EndStartCall DEF Ends
  <2>2. txn_state \in Live /\ UNCHANGED begun
    BY <1>6 DEF Ends, EndStart, Live
  <2> QED BY <1>6, <2>1, <2>2 DEF Ends, Starts
<1>7. ASSUME NEW t \in Transactions, PrepareStart(t) PROVE Starts
  <2>1. txn_state \in Live /\ UNCHANGED begun
    BY <1>7 DEF PrepareStart, Live, ghostVars
  <2> QED BY <1>7, <2>1, PrepareStartCall DEF Starts
<1>8. ASSUME NEW keep \in BOOLEAN, InitStart(keep) PROVE StartsInit
  BY <1>8, InitStartCall DEF StartsInit
<1>9. CASE FlushDone
  <2>1. CASE call' = [call EXCEPT !.todo = Partitions] \/ call' = [call EXCEPT !.pc = "end"]
    <3>1. /\ call'.op = call.op /\ call'.prev = call.prev /\ call'.pc \in {"flush", "end"}
          /\ call'.guard = call.guard /\ call'.applied = call.applied
      BY <1>1, <1>9, <2>1 DEF FlushDone, Call
    <3> QED BY <1>3, <1>9, <3>1 DEF FlushDone, Proceeds
  <2> QED BY <1>9, <2>1 DEF FlushDone, ReturnTo
<1>10. CASE DrainDone
  <2>1. /\ call'.op = call.op /\ call'.prev = call.prev /\ call'.pc = "end"
        /\ call'.guard = call.guard /\ call'.applied = call.applied
    BY <1>1, <1>10 DEF DrainDone, Call
  <2> QED BY <1>3, <1>10, <2>1 DEF DrainDone, Proceeds
<1>11. CASE EndTxnStep
  BY <1>1, <1>3, <1>11, EndTxnStepEffect DEF EndTxnEffect, Proceeds
<1>12. CASE EndTxnLookup
  <2>1. /\ call'.op = call.op /\ call'.prev = call.prev /\ call'.pc \in {"end", "apply"}
        /\ call'.guard = call.guard /\ call'.applied = call.applied
    BY <1>1, <1>12 DEF EndTxnLookup, Call
  <2> QED BY <1>3, <1>12, <2>1 DEF EndTxnLookup, Proceeds
<1>13. CASE InitAnswered
  <2> DEFINE ongoing == IF call.keep /\ open # {} THEN coord.ongoing ELSE -1
  <2>1. /\ call' = [call EXCEPT !.pc = "adopt", !.found = coord.epoch + 1,
                                !.ongoing = ongoing]
        /\ call.pc = "init"
    BY <1>13 DEF InitAnswered
  <2> HIDE DEF ongoing
  <2>2. /\ call'.pc = "adopt" /\ call'.found = coord.epoch + 1 /\ call'.op = call.op
        /\ call'.prev = call.prev /\ call'.ongoing = ongoing
    BY <1>1, <2>1 DEF Call
  <2>3. call.op = "init"
    BY <1>1, <1>2, <2>1 DEF Phase, Idle
  <2> QED BY <1>13, <2>2, <2>3 DEF Learns, ongoing
<1>14. CASE \/ BeginTransaction \/ FlushTimeout \/ CancelCall \/ EndTxnApply \/ InitLost
            \/ InitAdopt \/ OtherInit \/ SendRegister \/ SendAppend \/ UNCHANGED vars
  BY <1>14
     DEF BeginTransaction, FlushTimeout, CancelCall, EndTxnApply, InitLost, InitAdopt,
         OtherInit, SendRegister, SendAppend, ReturnTo, FatalReturn, vars
<1>15. ASSUME NEW p \in Partitions, SendLock(p) \/ LeaderForgets(p) PROVE call' = call
  BY <1>15 DEF SendLock, LeaderForgets
<1>16. ASSUME NEW t \in Transactions, DropGuard(t) PROVE call' = call
  BY <1>16 DEF DropGuard
<1>17. ASSUME NEW code, SendRegisterRefused(code) \/ InitRefused(code)
       PROVE  call' = call \/ call' = NoCall
  BY <1>17 DEF SendRegisterRefused, InitRefused, ReturnTo, FatalReturn
<1>18. CASE SenderWork \/ LeaderWork
  BY <1>18, SenderWorkFrame, LeaderWorkServes DEF SenderFrame, LeaderFrame
<1> QED BY <1>4, <1>5, <1>6, <1>7, <1>8, <1>9, <1>10, <1>11, <1>12, <1>13, <1>14, <1>15,
           <1>16, <1>17, <1>18 DEF Cases

\* What the steps do with the state.
LEMMA StateMoves ==
  ASSUME ControlTyped, Phase, Cases
  PROVE  \/ UNCHANGED txn_state
         \/ txn_state' \in {"Fenced", "FatalError", "Initializing", "RecoveryRequired",
                            "CommittingOrAborting"}
         \/ BeginTransaction /\ txn_state' = "InTransaction"
         \/ txn_state' = "Preparing" /\ txn_state \in Live
         \/ call.op = "prepare" /\ txn_state' \in {"InTransaction", "Prepared"}
         \/ /\ call.op \in {"commit", "abort"} /\ call.pc \in {"flush", "drain"}
            /\ txn_state' = call.prev
         \/ EndTxnApply /\ call.decision \in Returned /\ txn_state' = call.prev
         \/ EndTxnApply /\ call.decision = "Complete" /\ txn_state' = "Ready"
         \/ call.op = "init" /\ txn_state' = call.prev
         \/ InitAdopt /\ txn_state' = IF call.ongoing >= 0 THEN "Prepared" ELSE "Ready"
<1> USE DEF txnVars
<1>1. /\ (Idle => call = NoCall)
      /\ call.op \in {"none", "commit", "abort", "prepare", "init"}
  BY DEF ControlTyped, CallTyped, Call
<1>2. NoCall.op = "none" /\ NoCall.pc = "none"
  BY DEF NoCall
<1>3. CASE BeginTransaction \/ CancelCall \/ DrainDone
  BY <1>3 DEF BeginTransaction, CancelCall, DrainDone
<1>4. CASE FlushDone \/ FlushTimeout
  <2>1. call.op \in {"commit", "abort", "prepare"} /\ call.pc \in {"flush", "drain"}
    BY <1>1, <1>2, <1>4 DEF Phase, Idle, FlushDone, FlushTimeout
  <2>2. call.op = "prepare" => call.prev = "InTransaction"
    BY DEF Phase
  <2>3. txn_state' \in {txn_state, call.prev} \/ (call.op = "prepare" /\ txn_state' = "Prepared")
    BY <1>4 DEF FlushDone, FlushTimeout, ReturnTo
  <2> QED BY <2>1, <2>2, <2>3
<1>5. ASSUME NEW p, SendLock(p) \/ FlushScan(p) \/ DropScan(p) \/ LeaderForgets(p)
      PROVE  UNCHANGED txn_state
  BY <1>5 DEF SendLock, FlushScan, DropScan, LeaderForgets
<1>6. ASSUME NEW op, NEW t, Ends(op, t) PROVE txn_state' = "CommittingOrAborting"
  BY <1>6 DEF Ends, EndStart
<1>7. ASSUME NEW t, PrepareStart(t) PROVE txn_state' = "Preparing" /\ txn_state \in Live
  BY <1>7 DEF PrepareStart, Live
<1>8. ASSUME NEW t, DropGuard(t) PROVE UNCHANGED txn_state
  BY <1>8 DEF DropGuard
<1>9. ASSUME NEW keep, InitStart(keep) PROVE txn_state' = "Initializing"
  BY <1>9 DEF InitStart
<1>10. CASE EndTxnStep
  BY <1>10, EndTxnStepEffect DEF EndTxnEffect
<1>11. CASE EndTxnApply
  BY <1>11 DEF EndTxnApply, ReturnTo, FatalReturn, Returned
<1>12. CASE EndTxnLookup \/ InitAnswered \/ OtherInit \/ SendAppend
  BY <1>12 DEF EndTxnLookup, InitAnswered, OtherInit, SendAppend
<1>13. CASE InitLost
  <2>1. call.op = "init"
    BY <1>1, <1>2, <1>13 DEF Phase, Idle, InitLost
  <2> QED BY <1>13, <2>1 DEF InitLost, ReturnTo
<1>14. CASE InitAdopt
  BY <1>14 DEF InitAdopt
<1>15. CASE SendRegister
  BY <1>15 DEF SendRegister
<1>16. ASSUME NEW code \in RefusalCodes, SendRegisterRefused(code)
       PROVE  txn_state' \in {txn_state, "Fenced", "FatalError"}
  <2>1. DecideAddPartitions(code) \in {"Retry", "Abortable", "Fenced", "Fatal"}
    BY TransactionConstants DEF DecideAddPartitions
  <2> QED BY <1>16, <2>1 DEF SendRegisterRefused
<1>17. ASSUME NEW code \in RefusalCodes, InitRefused(code)
       PROVE  /\ call.op = "init"
              /\ txn_state' \in {txn_state, call.prev, "Fenced", "FatalError"}
  <2>1. call.op = "init"
    BY <1>1, <1>2, <1>17 DEF Phase, Idle, InitRefused
  <2> QED BY <1>17, <2>1 DEF InitRefused, ReturnTo, FatalReturn
<1>18. CASE SenderWork \/ LeaderWork \/ UNCHANGED vars
  BY <1>18, SenderWorkFrame, LeaderWorkServes DEF SenderFrame, LeaderFrame, vars
<1> QED BY <1>3, <1>4, <1>5, <1>6, <1>7, <1>8, <1>9, <1>10, <1>11, <1>12, <1>13, <1>14,
           <1>15, <1>16, <1>17, <1>18 DEF Cases

\* Nothing is open, and no batch on its way can open anything.
Clean == open = {} /\ \A b \in Outstanding : b.epoch < coord.epoch

\* When the coordinator has no open transaction.
OpenPhase ==
  /\ txn_state = "Ready" \/ (call.op = "init" /\ call.prev = "Ready") => Clean
  /\ call.pc = "apply" /\ call.decision = "Complete" => open = {}
  /\ call.pc = "adopt" /\ call.ongoing < 0 => open = {}
  /\ epoch # coord.epoch /\ coord.last # "none" => open = {}
  /\ open # {} => coord.ongoing >= 0

\* What the sender holds under the coordinator's epoch, and what is open, is of
\* the last transaction that the application began.
Belongs ==
  /\ \A b \in Outstanding :
       b.epoch = coord.epoch => TransactionsOf(Elems(b.recs)) \subseteq {begun}
  /\ \A b \in Current : TransactionsOf(Elems(b.recs)) \subseteq {begun}
  /\ TransactionsOf(open) \subseteq {begun}

LEMMA EpochTypes ==
  ASSUME Typed
  PROVE  /\ ControlTyped /\ CallTyped /\ CoordTyped /\ epoch \in Int /\ call.found \in Int
         /\ call.ongoing \in Int /\ coord.epoch \in Int /\ coord.ongoing \in Int
         /\ \A b \in Outstanding : b.epoch \in Int
<1>1. \A b \in Outstanding : b.epoch \in Int
  BY DEF Typed, PipelineTyped, SlotsTyped, Outstanding, Request, SealedBatch, Parked
<1> QED BY <1>1 DEF Typed, ControlTyped, StateTyped, CallTyped, Call, CoordTyped

\* A batch is built only from one of the current generation, with the epoch.
LEMMA BuiltBatch ==
  ASSUME Generations, NEW b, Built(b)
  PROVE  ~Quiet /\ b.epoch = epoch /\ \E c \in Current : b.recs = c.recs
<1>1. ~Quiet
  BY DEF Built, Quiet
<1> QED BY <1>1 DEF Built, Generations

\* Nothing is opened by a producer with nothing to send, or with an old epoch.
LEMMA CleanStep ==
  ASSUME NoSplit, Ground, Epochs, Cases, Clean, Quiet \/ epoch # coord.epoch
  PROVE  Clean'
<1> USE DEF Ground
<1>1. /\ ControlTyped /\ CoordTyped /\ epoch \in Int /\ coord.epoch \in Int
      /\ \A b \in Outstanding : b.epoch \in Int
  BY EpochTypes
<1>2. coord'.epoch \in {coord.epoch, coord.epoch + 1}
  BY CoordEpochStep
<1>3. ASSUME NEW b \in Outstanding' PROVE b.epoch < coord'.epoch
  <2>1. CASE Carried(b)
    BY <1>1, <1>2, <2>1 DEF Carried, Clean
  <2>2. CASE Built(b)
    <3>1. b.epoch = epoch /\ epoch # coord.epoch
      BY <2>2, BuiltBatch
    <3> QED BY <1>1, <1>2, <3>1 DEF Epochs
  <2>3. ASSUME SendAppend, NEW r, Accepts(r), r = Cardinality(Appended) + 1
        PROVE  b.epoch < coord'.epoch
    BY <1>1, <1>2, <2>3, AcceptsTyped DEF Clean
  <2> QED BY <1>3, <2>1, <2>2, <2>3, BatchStep DEF Drifts
<1>4. open' = {}
  <2>1. CASE LeaderWork
    <3>1. ASSUME NEW b, Appends(b) PROVE FALSE
      BY <1>1, <3>1 DEF Appends, Clean
    <3> QED BY <2>1, <3>1, LeaderStep DEF Clean, coordVars
  <2>2. CASE Finishes
    BY <2>2 DEF Finishes, CoordinatorEnds
  <2>3. ASSUME NEW keep, Raises(keep) PROVE open' = {}
    BY <2>3 DEF Raises, CoordinatorInits, Clean
  <2> QED BY <1>1, <2>1, <2>2, <2>3, CoordCases DEF Clean, coordVars
<1> QED BY <1>3, <1>4 DEF Clean

\* A call that completes or adopts has nothing on its way.
LEMMA CleanCalls ==
  ASSUME Ground, Epochs, OpenPhase
  PROVE  /\ call.pc = "apply" /\ call.decision = "Complete" => Clean /\ Quiet
         /\ call.pc = "adopt" /\ call.ongoing < 0 => Clean
         /\ call.pc = "adopt" => epoch < coord.epoch
<1> USE DEF Ground
<1>1. /\ epoch \in Int /\ coord.epoch \in Int /\ call.found \in Int
      /\ \A b \in Outstanding : b.epoch \in Int
  BY EpochTypes
<1>2. ASSUME call.pc = "apply", call.decision = "Complete" PROVE Clean /\ Quiet
  <2>1. Outstanding = {} /\ Current = {}
    BY <1>2, QueuesEmpty DEF Drained
  <2> QED BY <1>2, <2>1 DEF OpenPhase, Clean, Quiet
<1>3. call.pc = "adopt" => epoch < coord.epoch
  BY <1>1 DEF Epochs
<1>4. ASSUME call.pc = "adopt", call.ongoing < 0 PROVE Clean
  <2>1. \A b \in Outstanding : b.epoch < coord.epoch
    BY <1>1, <1>3, <1>4 DEF Epochs
  <2> QED BY <1>4, <2>1 DEF OpenPhase, Clean
<1> QED BY <1>2, <1>3, <1>4

LEMMA OpenPhaseStep ==
  ASSUME NoSplit, Ground, Epochs, OpenPhase, Cases
  PROVE  OpenPhase'
<1> USE DEF Ground
<1>1. /\ ControlTyped /\ CallTyped /\ CoordTyped /\ epoch \in Int /\ coord.epoch \in Int
      /\ call.ongoing \in Int /\ coord.ongoing \in Int /\ call.found \in Int
      /\ \A b \in Outstanding : b.epoch \in Int
  BY EpochTypes
<1>2. NoCall.op = "none" /\ NoCall.pc = "none" /\ (Idle => call = NoCall)
  BY DEF NoCall, Typed, ControlTyped, CallTyped
<1>3. ASSUME txn_state' = "Ready" \/ (call'.op = "init" /\ call'.prev = "Ready")
      PROVE  Clean'
  <2>1. CASE txn_state = "Ready" \/ (call.op = "init" /\ call.prev = "Ready")
    <3>1. Quiet
      BY <2>1 DEF Generations, Snapshot, Phase
    <3> QED BY <2>1, <3>1, CleanStep DEF OpenPhase
  <2>2. CASE EndTxnApply /\ call.decision = "Complete"
    BY <2>2, CleanStep, CleanCalls DEF EndTxnApply
  <2>3. CASE InitAdopt /\ call.ongoing < 0
    BY <1>1, <2>3, CleanStep, CleanCalls DEF InitAdopt
  <2>4. ASSUME txn_state' = "Ready"
        PROVE  \/ txn_state = "Ready" \/ (call.op = "init" /\ call.prev = "Ready")
               \/ EndTxnApply /\ call.decision = "Complete"
               \/ InitAdopt /\ call.ongoing < 0
    <3>1. call.op \in {"commit", "abort"} => call.prev # "Ready"
      BY DEF Phase
    <3>2. EndTxnApply => call.op \in {"commit", "abort"}
      BY <1>1, <1>2 DEF EndTxnApply, Phase, CallTyped, Call, Idle
    <3> QED BY <1>1, <2>4, <3>1, <3>2, StateMoves
  <2>5. ASSUME call'.op = "init", call'.prev = "Ready"
        PROVE  txn_state = "Ready" \/ (call.op = "init" /\ call.prev = "Ready")
    BY <1>1, <1>2, <2>5, CallMoves DEF Proceeds, Learns, Starts, StartsInit
  <2> QED BY <1>3, <2>1, <2>2, <2>3, <2>4, <2>5
<1>4. ASSUME call'.pc = "apply", call'.decision = "Complete" PROVE open' = {}
  <2>1. CASE call' = call
    BY <1>4, <2>1, CleanStep, CleanCalls DEF Clean
  <2>2. CASE EndTxnStep
    <3>1. /\ CoordinatorEnds /\ (EndTxnApplies \/ EndTxnRepeated) /\ call.pc = "end"
      BY <1>1, <1>4, <2>2, EndTxnStepEffect DEF EndTxnEffect
    <3>2. call.op \in {"commit", "abort"}
      BY <1>1, <1>2, <3>1 DEF Phase, CallTyped, Call, Idle
    <3> QED BY <3>1, <3>2
            DEF CoordinatorEnds, EndTxnApplies, EndTxnRepeated, coordVars, OpenPhase
  <2> QED BY <1>1, <1>4, <2>1, <2>2, AdoptingStep
<1>5. ASSUME call'.pc = "adopt", call'.ongoing < 0 PROVE open' = {}
  <2>1. CASE call' = call
    BY <1>1, <1>5, <2>1, CleanStep, CleanCalls DEF Clean
  <2>2. CASE InitAnswered
    <3>1. call'.ongoing = IF call.keep /\ open # {} THEN coord.ongoing ELSE -1
      BY <1>1, <1>2, <1>5, <2>2, CallMoves
         DEF InitAnswered, Proceeds, Learns, Starts, StartsInit
    <3>2. ~(call.keep /\ open # {})
      BY <1>1, <1>5, <3>1 DEF OpenPhase
    <3> QED BY <2>2, <3>2 DEF InitAnswered, CoordinatorInits
  <2> QED BY <1>1, <1>5, <2>1, <2>2, AdoptingStep
<1>6. ASSUME epoch' # coord'.epoch, coord'.last # "none" PROVE open' = {}
  <2>1. CASE UNCHANGED coordVars
    <3>1. CASE epoch' = epoch
      BY <1>6, <2>1, <3>1 DEF OpenPhase, coordVars
    <3>2. CASE EndTxnApply /\ call.decision = "Complete"
      BY <2>1, <3>2 DEF EndTxnApply, OpenPhase, coordVars
    <3>3. CASE InitAdopt
      BY <1>1, <1>6, <2>1, <3>3, CleanCalls DEF InitAdopt, OpenPhase, coordVars
    <3> QED BY <1>1, <3>1, <3>2, <3>3, EpochStep
  <2>2. ASSUME NEW b, Appends(b), LeaderWork PROVE FALSE
    <3>1. epoch' = epoch /\ coord'.epoch = coord.epoch
      BY <1>1, <2>2, LeaderStep, AppendsEffect DEF txnVars
    <3>2. b.epoch = coord.epoch /\ b \in Outstanding
      BY <2>2 DEF Appends
    <3> QED BY <1>1, <1>6, <3>1, <3>2 DEF Epochs
  <2>3. CASE LeaderWork
    BY <2>1, <2>2, <2>3, LeaderStep
  <2>4. CASE Finishes
    BY <2>4 DEF Finishes, CoordinatorEnds
  <2>5. ASSUME NEW keep, Raises(keep) PROVE FALSE
    BY <1>6, <2>5, CoordEpochStep
  <2> QED BY <1>1, <2>1, <2>3, <2>4, <2>5, CoordCases
<1>7. open' # {} => coord'.ongoing >= 0
  <2>1. CASE UNCHANGED coordVars
    BY <2>1 DEF OpenPhase, coordVars
  <2>2. ASSUME NEW b, Appends(b) PROVE coord'.ongoing >= 0
    <3>1. coord'.ongoing = IF open = {} THEN b.epoch ELSE coord.ongoing
      BY <1>1, <2>2, AppendsEffect
    <3> QED BY <2>2, <3>1 DEF Appends, Epochs, OpenPhase
  <2>3. CASE LeaderWork
    BY <2>1, <2>2, <2>3, LeaderStep
  <2>4. CASE Finishes
    BY <2>4 DEF Finishes, CoordinatorEnds
  <2>5. ASSUME NEW keep, Raises(keep) PROVE open' # {} => coord'.ongoing >= 0
    <3>1. coord'.ongoing = coord.ongoing
      BY <1>1, <2>5, InitsEffect DEF Raises
    <3> QED BY <2>5, <3>1 DEF Raises, CoordinatorInits, OpenPhase
  <2> QED BY <1>1, <2>1, <2>3, <2>4, <2>5, CoordCases
<1> QED BY <1>3, <1>4, <1>5, <1>6, <1>7 DEF OpenPhase

\* The transactions that a batch or a log stands for are those of its records.
LEMMA TransactionsStay ==
  ASSUME Typed, Numbered, NEW rs \in SUBSET (Held \cup Logged),
         \/ UNCHANGED txn_of
         \/ \E r : Accepts(r)
  PROVE  TransactionsOf(rs)' = TransactionsOf(rs) /\ \A r \in rs : txn_of'[r] = txn_of[r]
<1>1. CASE UNCHANGED txn_of
  BY <1>1 DEF TransactionsOf
<1>2. ASSUME NEW r, Accepts(r)
      PROVE  TransactionsOf(rs)' = TransactionsOf(rs) /\ \A x \in rs : txn_of'[x] = txn_of[x]
  <2>1. r \notin rs /\ rs \subseteq Records
    BY <1>2 DEF Accepts, Numbered, Appended
  <2>2. \A x \in rs : txn_of'[x] = txn_of[x]
    BY <1>2, <2>1 DEF Accepts, Typed, RecordsTyped
  <2> QED BY <2>2 DEF TransactionsOf
<1> QED BY <1>1, <1>2

LEMMA BeganStep ==
  ASSUME ControlTyped, Cases
  PROVE  UNCHANGED begun \/ (BeginTransaction /\ begun' = begun + 1)
<1> USE DEF ghostVars
<1>1. CASE BeginTransaction \/ FlushDone \/ DrainDone \/ FlushTimeout \/ CancelCall
  BY <1>1 DEF BeginTransaction, FlushDone, DrainDone, FlushTimeout, CancelCall
<1>2. ASSUME NEW p, SendLock(p) \/ FlushScan(p) \/ DropScan(p) \/ LeaderForgets(p)
      PROVE  UNCHANGED begun
  BY <1>2 DEF SendLock, FlushScan, DropScan, LeaderForgets
<1>3. ASSUME NEW op, NEW t, Ends(op, t) \/ PrepareStart(t) \/ DropGuard(t)
      PROVE  UNCHANGED begun
  BY <1>3 DEF Ends, EndStart, PrepareStart, DropGuard
<1>4. ASSUME NEW keep, InitStart(keep) PROVE UNCHANGED begun
  BY <1>4 DEF InitStart
<1>5. CASE EndTxnStep
  BY <1>5, EndTxnStepEffect DEF EndTxnEffect
<1>6. CASE EndTxnLookup \/ EndTxnApply \/ InitAnswered \/ InitLost \/ InitAdopt \/ OtherInit
  BY <1>6 DEF EndTxnLookup, EndTxnApply, InitAnswered, InitLost, InitAdopt, OtherInit
<1>7. CASE SendRegister \/ SendAppend
  BY <1>7 DEF SendRegister, SendAppend
<1>8. ASSUME NEW code, SendRegisterRefused(code) \/ InitRefused(code)
      PROVE  UNCHANGED begun
  BY <1>8 DEF SendRegisterRefused, InitRefused
<1>9. CASE SenderWork \/ LeaderWork \/ UNCHANGED vars
  BY <1>9, SenderWorkFrame, LeaderWorkServes DEF SenderFrame, LeaderFrame, vars
<1> QED BY <1>1, <1>2, <1>3, <1>4, <1>5, <1>6, <1>7, <1>8, <1>9 DEF Cases

LEMMA BelongsStep ==
  ASSUME NoSplit, Ground, Epochs, OpenPhase, Belongs, Cases
  PROVE  Belongs'
<1> USE DEF Ground
<1>1. /\ ControlTyped /\ CoordTyped /\ epoch \in Int /\ coord.epoch \in Int
      /\ \A b \in Outstanding : b.epoch \in Int
  BY EpochTypes
<1>2. CASE BeginTransaction
  <2>1. txn_state = "Ready" /\ ~Fatal /\ ~SendAppend
    BY <1>2 DEF BeginTransaction, SendAppend, Unlocked, NoSend
  <2>2. Clean /\ Current = {}
    BY <2>1 DEF OpenPhase, Generations, Snapshot, Quiet
  <2>3. Clean'
    BY <2>2, CleanStep DEF Quiet
  <2>4. Current' = {}
    BY <2>1, <2>2, BatchStep, CurrentShrinks
  <2>5. \A b \in Outstanding' : b.epoch # coord'.epoch
    <3>1. Typed'
      BY TypedStep
    <3>2. coord'.epoch \in Int /\ \A b \in Outstanding' : b.epoch \in Int
      BY <3>1 DEF Typed, PipelineTyped, SlotsTyped, Outstanding, Request, SealedBatch,
                  Parked, ControlTyped, CoordTyped
    <3> QED BY <2>3, <3>2 DEF Clean
  <2>6. TransactionsOf(open)' = {}
    BY <2>3 DEF Clean, TransactionsOf
  <2> QED BY <2>4, <2>5, <2>6 DEF Belongs
<1> SUFFICES ASSUME begun' = begun PROVE Belongs'
  BY <1>1, <1>2, BeganStep
<1>3. /\ \A b \in QueuedBatches \cup Outstanding : Elems(b.recs) \in SUBSET (Held \cup Logged)
      /\ open \in SUBSET (Held \cup Logged) /\ Current \subseteq QueuedBatches
  BY HeldBatch DEF Logged, Current
<1>4. UNCHANGED txn_of \/ \E r : Accepts(r)
  BY BatchStep DEF Drifts
<1>5. ASSUME NEW rs \in SUBSET (Held \cup Logged), TransactionsOf(rs) \subseteq {begun}
      PROVE  TransactionsOf(rs)' \subseteq {begun}
  BY <1>4, <1>5, TransactionsStay
<1>6. TransactionsOf(open)' \subseteq {begun}
  <2>1. ASSUME NEW rs \in SUBSET (Held \cup Logged), TransactionsOf(rs) \subseteq {begun},
               open' \subseteq rs
        PROVE  TransactionsOf(open)' \subseteq {begun}
    <3>1. TransactionsOf(open)' \subseteq TransactionsOf(rs)'
      BY <2>1 DEF TransactionsOf
    <3> QED BY <1>5, <2>1, <3>1
  <2>2. ASSUME open' \subseteq open PROVE TransactionsOf(open)' \subseteq {begun}
    BY <1>3, <2>1, <2>2 DEF Belongs
  <2>3. ASSUME NEW b, Appends(b) PROVE TransactionsOf(open)' \subseteq {begun}
    <3>1. b \in Outstanding /\ b.epoch = coord.epoch /\ open' = open \cup Elems(b.recs)
      BY <2>3 DEF Appends
    <3>2. TransactionsOf(open \cup Elems(b.recs)) \subseteq {begun}
      BY <3>1 DEF Belongs, TransactionsOf
    <3> QED BY <1>3, <2>1, <3>1, <3>2
  <2>4. CASE LeaderWork
    BY <2>2, <2>3, <2>4, LeaderStep DEF coordVars
  <2>5. CASE Finishes
    BY <2>2, <2>5 DEF Finishes, CoordinatorEnds
  <2>6. ASSUME NEW keep, Raises(keep) PROVE TransactionsOf(open)' \subseteq {begun}
    BY <2>2, <2>6 DEF Raises, CoordinatorInits
  <2> QED BY <1>1, <2>2, <2>4, <2>5, <2>6, CoordCases DEF coordVars
<1>7. \A b \in Current' : TransactionsOf(Elems(b.recs))' \subseteq {begun}
  <2>1. CASE Drifts
    <3>1. Current' \subseteq Current
      BY <2>1, CurrentShrinks
    <3> QED BY <1>3, <1>5, <3>1 DEF Belongs
  <2>2. ASSUME SendAppend, NEW r, Accepts(r)
        PROVE  \A b \in Current' : TransactionsOf(Elems(b.recs))' \subseteq {begun}
    <3>1. PICK g : Grown(g, r) /\ QueuedBatches' \subseteq QueuedBatches \cup {g}
      BY <2>2 DEF Accepts
    <3>2. Current' \subseteq Current \cup {g}
      BY <2>2, <3>1 DEF SendAppend, txnVars, Current
    <3>3. txn_of'[r] = begun
      BY <2>2 DEF Accepts, Typed, RecordsTyped
    <3>4. TransactionsOf(Elems(g.recs))' \subseteq {begun}
      <4>1. CASE Elems(g.recs) = {r}
        BY <3>3, <4>1 DEF TransactionsOf
      <4>2. ASSUME NEW c \in Current, Elems(g.recs) = Elems(c.recs) \cup {r}
            PROVE  TransactionsOf(Elems(g.recs))' \subseteq {begun}
        <5>1. TransactionsOf(Elems(c.recs))' \subseteq {begun}
          BY <1>3, <1>5 DEF Belongs
        <5> QED BY <3>3, <4>2, <5>1 DEF TransactionsOf
      <4> QED BY <3>1, <4>1, <4>2 DEF Grown
    <3> QED BY <1>3, <1>5, <3>2, <3>4 DEF Belongs
  <2> QED BY <2>1, <2>2, BatchStep
<1>8. ASSUME NEW b \in Outstanding', b.epoch = coord'.epoch
      PROVE  TransactionsOf(Elems(b.recs))' \subseteq {begun}
  <2>1. CASE Built(b)
    <3>1. PICK c \in Current : b.recs = c.recs
      BY <2>1, BuiltBatch
    <3> QED BY <1>3, <1>5, <3>1 DEF Belongs
  <2>2. ASSUME NEW c \in Outstanding, b.recs = c.recs, b.epoch = c.epoch
        PROVE  TransactionsOf(Elems(b.recs))' \subseteq {begun}
    <3>1. coord'.epoch \in {coord.epoch, coord.epoch + 1}
      BY CoordEpochStep
    <3>2. c.epoch = coord.epoch
      BY <1>1, <1>8, <2>2, <3>1 DEF Epochs
    <3> QED BY <1>3, <1>5, <2>2, <3>2 DEF Belongs
  <2>3. Built(b) \/ \E c \in Outstanding : b.recs = c.recs /\ b.epoch = c.epoch
    BY <1>8, BatchStep, AcceptsTyped DEF Drifts, Carried
  <2> QED BY <2>1, <2>2, <2>3
<1> QED BY <1>6, <1>7, <1>8 DEF Belongs

\* The invariant for the open transaction.
Opened == Ground /\ Born /\ Epochs /\ OpenPhase /\ Belongs

LEMMA OpenedInit == Init => Opened
<1> SUFFICES ASSUME Init PROVE Opened
  OBVIOUS
<1>1. Ground
  BY GroundInit
<1>2. QueuedBatches = {} /\ Current = {}
  BY QueuesEmpty DEF Init
<1>3. Parked = {} /\ requests = {}
  BY DEF Init, Parked
<1>4. Outstanding = {}
  BY <1>3 DEF Outstanding
<1>5. /\ epoch = -1 /\ txn_state = "Uninitialized" /\ call.op = "none" /\ call.pc = "none"
      /\ coord.epoch = -1 /\ coord.last = "none" /\ open = {}
  BY DEF Init, NoCall
<1>6. Born /\ Epochs
  BY <1>4, <1>5 DEF Born, Epochs, Unborn
<1>7. OpenPhase
  BY <1>5 DEF OpenPhase
<1>8. Belongs
  BY <1>2, <1>4, <1>5 DEF Belongs, TransactionsOf
<1> QED BY <1>1, <1>6, <1>7, <1>8 DEF Opened

LEMMA OpenedStep ==
  ASSUME NoSplit, Opened, Cases
  PROVE  Opened'
BY GroundStep, BornStep, EpochsStep, OpenPhaseStep, BelongsStep DEF Opened

\* When no batch has to be split, the open transaction of the coordinator never
\* mixes two transactions of the application: the wait before EndTxn
\* (end_transaction), the recovery generations and the epoch of the identity keep
\* every late batch and every retry out of the next transaction.
THEOREM OneTransactionOpenHolds ==
  ASSUME NoSplit
  PROVE  Spec => []OneTransactionOpen
<1>1. Opened /\ [Next]_vars => Opened'
  BY NextCases, OpenedStep
<1>2. Opened => OneTransactionOpen
  <2> SUFFICES ASSUME Opened PROVE OneTransactionOpen
    OBVIOUS
  <2>1. TransactionsOf(open) \in SUBSET {begun}
    BY DEF Opened, Belongs
  <2>2. IsFiniteSet({begun}) /\ Cardinality({begun}) = 1
    BY FS_Singleton
  <2>3. Cardinality(TransactionsOf(open)) <= Cardinality({begun})
    BY <2>1, <2>2, FS_Subset
  <2> QED BY <2>2, <2>3 DEF OneTransactionOpen
<1> QED BY <1>1, <1>2, OpenedInit, PTL DEF Spec

-----------------------------------------------------------------------------
(* The end of a transaction.                                               *)

\* A call that hands the transaction back changed nothing.
Honest ==
  /\ AppliedIsKnownOrLost
  /\ call.pc = "apply" /\ call.decision \in Returned => ~call.applied
  /\ call.pc \in {"flush", "drop", "drain"} => ~call.applied

LEMMA HonestStep ==
  ASSUME ControlTyped, Phase, Honest, Cases
  PROVE  Honest'
<1>1. /\ call \in Call /\ call.applied \in BOOLEAN /\ call.lost \in BOOLEAN
  BY DEF ControlTyped, CallTyped, Call
<1>2. ASSUME call'.applied = FALSE PROVE Honest'
  BY <1>2 DEF Honest, AppliedIsKnownOrLost
<1>3. ASSUME call' = call PROVE Honest'
  BY <1>3 DEF Honest, AppliedIsKnownOrLost
<1>4. ASSUME call' = NoCall PROVE Honest'
  BY <1>2, <1>4 DEF NoCall
<1>5. ASSUME NEW p \in Partitions, FlushScan(p) PROVE Honest'
  BY <1>1, <1>2, <1>5 DEF FlushScan, Call, Honest
<1>6. ASSUME NEW p \in Partitions, DropScan(p) PROVE Honest'
  BY <1>1, <1>2, <1>6 DEF DropScan, Call, Honest
<1>7. ASSUME NEW op \in {"commit", "abort"}, NEW t \in 0..MaxTransactions, Ends(op, t)
      PROVE  Honest'
  BY <1>2, <1>7, EndStartCall DEF Ends
<1>8. ASSUME NEW t \in Transactions, PrepareStart(t) PROVE Honest'
  BY <1>2, <1>8, PrepareStartCall
<1>9. ASSUME NEW keep \in BOOLEAN, InitStart(keep) PROVE Honest'
  BY <1>2, <1>9, InitStartCall
<1>10. CASE FlushDone
  <2>1. CASE call' = [call EXCEPT !.todo = Partitions] \/ call' = [call EXCEPT !.pc = "end"]
    BY <1>1, <1>2, <1>10, <2>1 DEF FlushDone, Call, Honest
  <2> QED BY <1>4, <1>10, <2>1 DEF FlushDone, ReturnTo
<1>11. CASE DrainDone
  BY <1>1, <1>2, <1>11 DEF DrainDone, Call, Honest
<1>12. CASE EndTxnStep
  <2>1. call.pc = "end"
    BY <1>12, EndTxnStepEffect DEF EndTxnEffect
  <2>2. CallInv
    <3>1. CallShape
      BY <1>1 DEF CallShape, Call
    <3> QED BY <2>1, <3>1 DEF CallInv, ErrorMeansUnchanged, Honest
  <2>3. CallInv'
    <3>1. ASSUME NEW code \in RefusalCodes, EndTxnRefused(code) PROVE FaultSteps
      BY <3>1 DEF FaultSteps
    <3>2. EndTxnLost => FaultSteps
      BY DEF FaultSteps
    <3> QED BY <1>12, <2>2, <3>1, <3>2, AnswerKeepsCallInv, FaultStepsKeepCallInv
            DEF EndTxnStep
  <2>4. call'.pc \in {"end", "lookup", "apply"}
    BY <1>12, EndTxnStepEffect DEF EndTxnEffect
  <2> QED BY <2>3, <2>4
          DEF CallInv, ErrorMeansUnchanged, UnchangedDecisions, Returned, Honest
<1>13. CASE EndTxnLookup
  <2>1. call.pc = "lookup"
    BY <1>13 DEF EndTxnLookup
  <2>2. call.applied => call.lost
    BY <2>1 DEF Honest, AppliedIsKnownOrLost
  <2>3. CASE call' = [call EXCEPT !.pc = "end"]
    <3>1. call'.pc = "end" /\ call'.applied = call.applied /\ call'.lost = call.lost
      BY <1>1, <2>3 DEF Call
    <3> QED BY <2>2, <3>1 DEF Honest, AppliedIsKnownOrLost
  <2>4. ASSUME NEW d, d \in Returned => ~call.lost,
               call' = [call EXCEPT !.pc = "apply", !.decision = d]
        PROVE  Honest'
    <3>1. /\ call'.pc = "apply" /\ call'.decision = d
          /\ call'.applied = call.applied /\ call'.lost = call.lost
      BY <1>1, <2>4 DEF Call
    <3> QED BY <2>2, <2>4, <3>1 DEF Honest, AppliedIsKnownOrLost
  <2>5. ASSUME NEW refusal \in LookupRefusals,
               DecideEndTxnAfterRefusedLookup(refusal, call.lost, call.op = "commit")
                 \in Returned
        PROVE  ~call.lost
    BY <2>5 DEF DecideEndTxnAfterRefusedLookup, LookupRefusals, Returned
  <2> QED BY <1>13, <2>3, <2>4, <2>5 DEF EndTxnLookup
<1>14. CASE InitAnswered
  <2> DEFINE ongoing == IF call.keep /\ open # {} THEN coord.ongoing ELSE -1
  <2>1. /\ call' = [call EXCEPT !.pc = "adopt", !.found = coord.epoch + 1,
                                !.ongoing = ongoing]
        /\ call.pc = "init"
    BY <1>14 DEF InitAnswered
  <2> HIDE DEF ongoing
  <2>2. call'.pc = "adopt" /\ call'.applied = call.applied /\ call'.lost = call.lost
    BY <1>1, <2>1 DEF Call
  <2> QED BY <2>1, <2>2 DEF Honest, AppliedIsKnownOrLost
<1>15. CASE \/ BeginTransaction \/ FlushTimeout \/ CancelCall \/ EndTxnApply \/ InitLost
            \/ InitAdopt \/ OtherInit \/ SendRegister \/ SendAppend \/ UNCHANGED vars
  BY <1>3, <1>4, <1>15
     DEF BeginTransaction, FlushTimeout, CancelCall, EndTxnApply, InitLost, InitAdopt,
         OtherInit, SendRegister, SendAppend, ReturnTo, FatalReturn, vars
<1>16. ASSUME NEW p \in Partitions, SendLock(p) \/ LeaderForgets(p) PROVE Honest'
  BY <1>3, <1>16 DEF SendLock, LeaderForgets
<1>17. ASSUME NEW t \in Transactions, DropGuard(t) PROVE Honest'
  BY <1>3, <1>17 DEF DropGuard
<1>18. ASSUME NEW code, SendRegisterRefused(code) \/ InitRefused(code) PROVE Honest'
  BY <1>3, <1>4, <1>18 DEF SendRegisterRefused, InitRefused, ReturnTo, FatalReturn
<1>19. CASE SenderWork \/ LeaderWork
  BY <1>3, <1>19, SenderWorkFrame, LeaderWorkServes DEF SenderFrame, LeaderFrame
<1> QED BY <1>5, <1>6, <1>7, <1>8, <1>9, <1>10, <1>11, <1>12, <1>13, <1>14, <1>15, <1>16,
           <1>17, <1>18, <1>19 DEF Cases

\* The producer does not go on with the transaction.
Gone ==
  /\ txn_state \notin Live /\ call.op # "prepare"
  /\ call.op \in {"commit", "abort"} => call.applied
  /\ call.op = "init" => call.prev \notin Live
  /\ call.pc = "adopt" => call.ongoing < 0

LEMMA GoneStep ==
  ASSUME ControlTyped, Phase, Honest, Cases, open = {}, Gone, ~BeginTransaction
  PROVE  Gone' /\ (call'.op = "abort" => call.op = "abort")
<1>1. /\ call \in Call /\ (Idle => call = NoCall)
      /\ call.op \in {"none", "commit", "abort", "prepare", "init"}
  BY DEF ControlTyped, CallTyped, Call
<1>2. NoCall.op = "none" /\ NoCall.pc = "none"
  BY DEF NoCall
<1>3. call' = call \/ call' = NoCall \/ Proceeds \/ Learns \/ StartsInit
  BY CallMoves DEF Starts, Gone
<1>4. /\ call'.op # "prepare" /\ (call'.op \in {"commit", "abort"} => call'.applied)
      /\ call'.op = "init" => call'.prev \notin Live
      /\ call'.op = "abort" => call.op = "abort"
  BY <1>2, <1>3 DEF Proceeds, Learns, StartsInit, Gone
<1>5. call'.pc = "adopt" => call'.ongoing < 0
  <2>1. Learns => call'.ongoing = -1
    BY DEF Learns
  <2> QED BY <1>2, <1>3, <2>1 DEF Proceeds, StartsInit, Gone
<1>6. txn_state' \notin Live
  <2>1. InitAdopt => txn_state' = "Ready"
    <3>1. InitAdopt => ~(call.ongoing >= 0)
      BY <1>1 DEF InitAdopt, Gone, Call
    <3> QED BY <3>1 DEF InitAdopt
  <2>2. ~(call.op \in {"commit", "abort"} /\ call.pc \in {"flush", "drain"})
    BY DEF Gone, Honest
  <2>3. ~(EndTxnApply /\ call.decision \in Returned)
    <3>1. EndTxnApply => call.pc = "apply" /\ call.op \in {"commit", "abort"}
      BY <1>1, <1>2 DEF EndTxnApply, Phase, Idle
    <3> QED BY <3>1 DEF Gone, Honest
  <2>4. \/ txn_state' \in {txn_state, "Fenced", "FatalError", "Initializing",
                           "RecoveryRequired", "CommittingOrAborting", "Ready"}
        \/ call.op = "init" /\ txn_state' = call.prev
    BY <2>1, <2>2, <2>3, StateMoves DEF Gone
  <2> QED BY <2>4 DEF Gone, Live
<1> QED BY <1>4, <1>5, <1>6 DEF Gone

\* A transaction that abort reported as aborted.  An application that uses the
\* guard of an earlier transaction may hear this of the wrong one.
ReportedAborted(t) ==
  t \in Transactions /\ told[t] = "aborted" /\ "stale_guard" \notin Faults

\* The last transaction that began is over at the coordinator.
Ended == begun \in TransactionsOf(committed \cup aborted) \/ ReportedAborted(begun)

\* A transaction that is over is never opened again: the producer has an older
\* epoch, or it is done with the transaction and has nothing left to send.
EndedOver ==
  /\ \A r \in committed \cup aborted : txn_of[r] <= begun
  /\ \A t \in Transactions : ReportedAborted(t) => t <= begun
  /\ Ended => Clean /\ (epoch = coord.epoch => Gone /\ Quiet)
  /\ call.pc = "adopt" /\ call.ongoing >= 0 /\ call.found = coord.epoch => ~Ended
  /\ call.op \in {"commit", "abort"} =>
       call.guard \in {0, begun} \/ "stale_guard" \in Faults

\* Only the end of a call reports an abort.
LEMMA ToldStep ==
  ASSUME Typed, Cases, NEW t \in Transactions, told'[t] = "aborted", told[t] # "aborted"
  PROVE  /\ EndTxnApply /\ call.decision = "Complete" /\ call.op # "commit"
         /\ t = Concerned
<1> USE DEF ghostVars
<1>1. ControlTyped /\ told \in [Transactions -> {"none", "aborting", "committed", "aborted"}]
  BY DEF Typed, ControlTyped, StateTyped
<1>2. CASE BeginTransaction \/ FlushDone \/ DrainDone \/ FlushTimeout \/ CancelCall
  BY <1>2 DEF BeginTransaction, FlushDone, DrainDone, FlushTimeout, CancelCall
<1>3. ASSUME NEW p, SendLock(p) \/ FlushScan(p) \/ DropScan(p) \/ LeaderForgets(p)
      PROVE  UNCHANGED told
  BY <1>3 DEF SendLock, FlushScan, DropScan, LeaderForgets
<1>4. ASSUME NEW op, NEW x, Ends(op, x) PROVE FALSE
  BY <1>1, <1>4 DEF Ends, EndStart
<1>5. ASSUME NEW x, PrepareStart(x) \/ DropGuard(x) PROVE UNCHANGED told
  BY <1>5 DEF PrepareStart, DropGuard
<1>6. ASSUME NEW keep, InitStart(keep) PROVE UNCHANGED told
  BY <1>6 DEF InitStart
<1>7. CASE EndTxnStep
  BY <1>1, <1>7, EndTxnStepEffect DEF EndTxnEffect
<1>8. CASE EndTxnApply
  BY <1>1, <1>8 DEF EndTxnApply
<1>9. CASE EndTxnLookup \/ InitAnswered \/ InitLost \/ InitAdopt \/ OtherInit
  BY <1>9 DEF EndTxnLookup, InitAnswered, InitLost, InitAdopt, OtherInit
<1>10. CASE SendRegister \/ SendAppend
  BY <1>10 DEF SendRegister, SendAppend
<1>11. ASSUME NEW code, SendRegisterRefused(code) \/ InitRefused(code)
       PROVE  UNCHANGED told
  BY <1>11 DEF SendRegisterRefused, InitRefused
<1>12. CASE SenderWork \/ LeaderWork \/ UNCHANGED vars
  BY <1>12, SenderWorkFrame, LeaderWorkServes DEF SenderFrame, LeaderFrame, vars
<1> QED BY <1>2, <1>3, <1>4, <1>5, <1>6, <1>7, <1>8, <1>9, <1>10, <1>11, <1>12 DEF Cases

\* What the steps do with the records that are committed or aborted.
LEMMA EndsStep ==
  ASSUME NoSplit, Ground, Cases
  PROVE  \/ UNCHANGED <<committed, aborted>>
         \/ Finishes /\ call.op = "commit" /\ committed' = committed \cup open /\ UNCHANGED aborted
         \/ Finishes /\ call.op = "abort" /\ aborted' = aborted \cup open /\ UNCHANGED committed
         \/ /\ \E keep \in BOOLEAN : Raises(keep) /\ ~keep
            /\ aborted' = aborted \cup open /\ UNCHANGED committed
<1> USE DEF Ground
<1>1. CASE Finishes
  <2>1. call.pc = "end"
    BY <1>1, EndTxnStepEffect DEF Finishes, EndTxnEffect, Typed
  <2>2. call.op \in {"commit", "abort"}
    BY <2>1 DEF Phase, Typed, ControlTyped, CallTyped, Call, Idle, NoCall
  <2> QED BY <1>1, <2>2 DEF Finishes, CoordinatorEnds
<1>2. CASE LeaderWork
  BY <1>2, LeaderStep DEF Appends, coordVars
<1>3. ASSUME NEW keep \in BOOLEAN, Raises(keep)
      PROVE  \/ UNCHANGED <<committed, aborted>>
             \/ ~keep /\ aborted' = aborted \cup open /\ UNCHANGED committed
  BY <1>3 DEF Raises, CoordinatorInits
<1> QED BY <1>1, <1>2, <1>3, CoordCases DEF Typed, coordVars

\* The records of the logs keep their transaction.
LEMMA LogsStay ==
  ASSUME Ground, Cases
  PROVE  \A r \in open \cup committed \cup aborted : txn_of'[r] = txn_of[r]
<1> USE DEF Ground
<1>1. UNCHANGED txn_of \/ \E r : Accepts(r)
  BY BatchStep DEF Drifts
<1>2. open \cup committed \cup aborted \in SUBSET (Held \cup Logged)
  BY DEF Logged
<1> QED BY <1>1, <1>2, TransactionsStay

\* How a transaction ends.
LEMMA EndedMoves ==
  ASSUME NoSplit, Opened, EndedOver, Cases, Ended'
  PROVE  /\ begun' = begun
         /\ \/ Ended \/ Finishes \/ (\E keep \in BOOLEAN : Raises(keep) /\ ~keep)
            \/ EndTxnApply /\ call.decision = "Complete"
<1>1. /\ Ground /\ Typed /\ ControlTyped /\ begun \in Nat
  BY TransactionConstants DEF Opened, Ground, Typed, ControlTyped, StateTyped
<1>2. \A r \in open \cup committed \cup aborted : txn_of'[r] = txn_of[r]
  BY <1>1, LogsStay
<1>3. CASE UNCHANGED <<committed, aborted>>
  <2>1. ASSUME begun' \in TransactionsOf(committed \cup aborted)'
        PROVE  /\ begun' \in TransactionsOf(committed \cup aborted) /\ begun' <= begun
    <3>1. PICK r \in committed \cup aborted : txn_of'[r] = begun'
      BY <1>3, <2>1 DEF TransactionsOf
    <3>2. txn_of[r] = begun' /\ txn_of[r] <= begun
      BY <1>2, <3>1 DEF EndedOver
    <3> QED BY <3>2 DEF TransactionsOf
  <2>2. ASSUME ReportedAborted(begun)'
        PROVE  \/ ReportedAborted(begun') /\ begun' <= begun
               \/ EndTxnApply /\ call.decision = "Complete"
    <3>1. CASE told[begun'] = "aborted"
      BY <2>2, <3>1 DEF ReportedAborted, EndedOver
    <3>2. CASE told[begun'] # "aborted"
      BY <1>1, <2>2, <3>2, ToldStep DEF ReportedAborted
    <3> QED BY <3>1, <3>2
  <2>3. begun' = begun \/ (begun' = begun + 1 /\ BeginTransaction)
    BY <1>1, BeganStep
  <2>4. ~(BeginTransaction /\ EndTxnApply)
    <3>1. Idle => call.pc = "none"
      BY <1>1 DEF ControlTyped, CallTyped, NoCall
    <3> QED BY <3>1 DEF BeginTransaction, EndTxnApply
  <2>5. begun' = begun
    BY <1>1, <2>1, <2>2, <2>3, <2>4 DEF Ended
  <2> QED BY <2>1, <2>2, <2>5 DEF Ended
<1>4. CASE Finishes \/ \E keep \in BOOLEAN : Raises(keep) /\ ~keep
  <2>1. begun' = begun
    <3>1. ASSUME BeginTransaction PROVE UNCHANGED coordVars
      BY <3>1 DEF BeginTransaction
    <3>2. \/ coord'.epoch # coord.epoch
          \/ EndTxnStep
      BY <1>1, <1>4, CoordEpochStep DEF Ground, Finishes
    <3>3. EndTxnStep => call.pc = "end"
      BY <1>1, EndTxnStepEffect DEF EndTxnEffect
    <3>4. Idle => call.pc = "none"
      BY <1>1 DEF ControlTyped, CallTyped, NoCall
    <3>5. ~BeginTransaction
      BY <3>1, <3>2, <3>3, <3>4 DEF BeginTransaction, coordVars
    <3> QED BY <1>1, <3>5, BeganStep
  <2> QED BY <1>4, <2>1
<1> QED BY <1>1, <1>3, <1>4, EndsStep

\* EndTxn is applied only when all is drained.
LEMMA FinishesOver ==
  ASSUME Ground, Cases, Finishes
  PROVE  Clean' /\ Gone' /\ Quiet' /\ call'.op = call.op /\ call.pc = "end"
<1> USE DEF Ground
<1>1. /\ EndTxnEffect /\ open' = {} /\ call.pc = "end" /\ call'.applied
  BY EndTxnStepEffect DEF Finishes, EndTxnEffect, CoordinatorEnds, Typed
<1>2. NoCall.op = "none" /\ NoCall.pc = "none" /\ (Idle => call = NoCall)
  BY DEF NoCall, Typed, ControlTyped, CallTyped
<1>3. txn_state = "CommittingOrAborting" /\ call.op \in {"commit", "abort"}
  BY <1>1, <1>2 DEF Phase, Typed, ControlTyped, CallTyped, Call, Idle
<1>4. call'.op = call.op /\ call'.pc # "adopt" /\ txn_state' = txn_state
  BY <1>1 DEF EndTxnEffect, txnVars
<1>5. Outstanding = {} /\ \A p \in Partitions : queue[p] = <<>>
  BY <1>1 DEF Drained
<1>6. Outstanding' = {} /\ Quiet'
  <2>1. Drifts
    BY <1>1, <1>2, BatchStep DEF SendAppend, Phase, NoSend
  <2>2. Current = {}
    BY <1>5, QueuesEmpty
  <2> QED BY <1>5, <2>1, <2>2, EmptyStays, CurrentShrinks DEF Quiet
<1> QED BY <1>1, <1>3, <1>4, <1>6 DEF Clean, Gone, Live

LEMMA EndedOverStep ==
  ASSUME NoSplit, Opened, Honest, EndedOver, Cases
  PROVE  EndedOver'
<1>1. /\ Ground /\ Typed /\ ControlTyped /\ Epochs /\ OpenPhase /\ begun \in Nat
      /\ \A r \in Records : txn_of[r] \in Nat
  BY TransactionConstants
     DEF Opened, Ground, Typed, ControlTyped, StateTyped, RecordsTyped
<1>2. /\ Opened' /\ Ground' /\ Typed' /\ Epochs'
  BY OpenedStep DEF Opened, Ground
<1>3. /\ epoch \in Int /\ coord.epoch \in Int /\ call.found \in Int /\ call.ongoing \in Int
      /\ epoch' \in Int /\ coord'.epoch \in Int
      /\ \A b \in Outstanding' : b.epoch \in Int
  <2>1. epoch' \in Int /\ coord'.epoch \in Int
    BY <1>2 DEF Typed, ControlTyped, StateTyped, CoordTyped
  <2>2. \A b \in Outstanding' : b.epoch \in Int
    BY <1>2 DEF Typed, PipelineTyped, SlotsTyped, Outstanding, Request, SealedBatch, Parked
  <2> QED BY <1>1, <2>1, <2>2, EpochTypes
<1>4. NoCall.op = "none" /\ NoCall.pc = "none" /\ (Idle => call = NoCall)
  BY <1>1 DEF NoCall, ControlTyped, CallTyped
<1>5. begun' = begun \/ (BeginTransaction /\ begun' = begun + 1)
  BY <1>1, BeganStep
<1>6. /\ coord'.epoch \in {coord.epoch, coord.epoch + 1}
      /\ (\E keep : Raises(keep)) => coord'.epoch = coord.epoch + 1
  BY <1>1, CoordEpochStep DEF Ground
<1>7. \A r \in (committed \cup aborted)' : txn_of'[r] <= begun'
  <2>1. (committed \cup aborted)' \subseteq committed \cup aborted \cup open
    BY <1>1, EndsStep
  <2>2. ASSUME NEW r \in committed \cup aborted \cup open PROVE txn_of[r] <= begun
    <3>1. CASE r \in open
      BY <1>1, <3>1 DEF Opened, Belongs, TransactionsOf
    <3> QED BY <2>2, <3>1 DEF EndedOver
  <2>3. \A r \in committed \cup aborted \cup open : txn_of'[r] = txn_of[r]
    BY <1>1, LogsStay
  <2>4. \A r \in committed \cup aborted \cup open : txn_of[r] \in Nat
    BY <1>1 DEF Typed, RecordsTyped
  <2> QED BY <1>1, <1>5, <2>1, <2>2, <2>3, <2>4
<1>8. ASSUME NEW t \in Transactions, ReportedAborted(t)' PROVE t <= begun'
  <2>1. t \in Nat
    BY TransactionConstants DEF Transactions
  <2>2. CASE told[t] = "aborted"
    <3>1. t <= begun
      BY <1>8, <2>2 DEF ReportedAborted, EndedOver
    <3> QED BY <1>1, <1>5, <2>1, <3>1
  <2>3. CASE told[t] # "aborted"
    <3>1. EndTxnApply /\ t = Concerned
      BY <1>1, <1>8, <2>3, ToldStep DEF ReportedAborted
    <3>2. call.op \in {"commit", "abort"}
      BY <1>1, <1>4, <3>1 DEF Ground, EndTxnApply, Phase, ControlTyped, CallTyped, Call, Idle
    <3>3. t = begun
      BY <1>8, <3>1, <3>2 DEF EndedOver, Concerned, ReportedAborted
    <3> QED BY <1>1, <1>5, <3>3
  <2> QED BY <2>2, <2>3
<1>9. ASSUME EndTxnApply \/ InitAdopt, txn_state' = "Ready" PROVE Gone' /\ Quiet'
  <2>1. call' = NoCall
    BY <1>9 DEF EndTxnApply, InitAdopt, ReturnTo, FatalReturn
  <2>2. Quiet'
    BY <1>2, <1>9 DEF Ground, Generations, Snapshot
  <2> QED BY <1>4, <1>9, <2>1, <2>2 DEF Gone, Live
<1>10. ASSUME Ended' PROVE Clean' /\ (epoch' = coord'.epoch => Gone' /\ Quiet')
  <2>1. CASE Ended
    <3>1. Clean /\ (epoch = coord.epoch => Gone /\ Quiet)
      BY <2>1 DEF EndedOver
    <3>2. Clean'
      BY <1>1, <3>1, CleanStep
    <3>3. ASSUME epoch' = coord'.epoch PROVE Gone' /\ Quiet'
      <4>1. CASE epoch' = epoch
        <5>1. epoch = coord.epoch
          BY <1>1, <1>3, <1>6, <3>3, <4>1 DEF Epochs
        <5>2. ~BeginTransaction /\ Gone /\ Quiet
          BY <1>1, <1>10, <3>1, <5>1, EndedMoves DEF BeginTransaction
        <5>3. Gone'
          BY <1>1, <3>1, <5>2, GoneStep DEF Ground, Clean
        <5>4. \A r : ~Accepts(r)
          BY <5>2 DEF Accepts, SendRefused, Gone, Live
        <5>5. Quiet'
          BY <1>1, <5>2, <5>4, BatchStep, CurrentShrinks DEF Ground
        <5> QED BY <5>3, <5>5
      <4>2. CASE EndTxnApply /\ call.decision = "Complete"
        BY <1>9, <4>2 DEF EndTxnApply, ReturnTo
      <4>3. CASE InitAdopt /\ epoch' = call.found
        <5>1. coord'.epoch = coord.epoch /\ call.pc = "adopt"
          BY <4>3 DEF InitAdopt, coordVars
        <5>2. ~(call.ongoing >= 0)
          BY <2>1, <3>3, <4>3, <5>1 DEF EndedOver
        <5> QED BY <1>9, <4>3, <5>2 DEF InitAdopt
      <4> QED BY <1>1, <4>1, <4>2, <4>3, EpochStep
    <3> QED BY <3>2, <3>3
  <2>2. CASE Finishes
    BY <1>1, <2>2, FinishesOver
  <2>3. ASSUME NEW keep \in BOOLEAN, Raises(keep), ~keep
        PROVE  Clean' /\ epoch' # coord'.epoch
    <3>1. epoch' = epoch /\ open' = {}
      BY <2>3 DEF Raises, InitAnswered, InitLost, OtherInit, CoordinatorInits, txnVars
    <3>2. epoch' < coord'.epoch
      BY <1>1, <1>3, <1>6, <2>3, <3>1 DEF Epochs
    <3>3. \A b \in Outstanding' : b.epoch <= epoch'
      BY <1>2 DEF Epochs
    <3> QED BY <1>3, <3>1, <3>2, <3>3 DEF Clean
  <2>4. CASE EndTxnApply /\ call.decision = "Complete"
    <3>1. Clean'
      BY <1>1, <2>4, CleanCalls, CleanStep DEF EndTxnApply
    <3> QED BY <1>9, <2>4, <3>1 DEF EndTxnApply, ReturnTo
  <2> QED BY <1>10, <2>1, <2>2, <2>3, <2>4, EndedMoves
<1>11. ASSUME call'.pc = "adopt", call'.ongoing >= 0, call'.found = coord'.epoch PROVE ~Ended'
  <2> SUFFICES ASSUME Ended' PROVE FALSE
    OBVIOUS
  <2>1. \/ Ended \/ Finishes \/ (\E keep \in BOOLEAN : Raises(keep) /\ ~keep)
        \/ EndTxnApply /\ call.decision = "Complete"
    BY EndedMoves
  <2>2. ~Finishes /\ ~EndTxnApply
    <3>1. Finishes => call'.pc # "adopt"
      BY <1>1, EndTxnStepEffect DEF Finishes, EndTxnEffect
    <3>2. EndTxnApply => call'.pc = "none"
      BY <1>4 DEF EndTxnApply, ReturnTo, FatalReturn
    <3> QED BY <1>11, <3>1, <3>2
  <2>3. CASE call' = call
    <3>1. call.found <= coord.epoch
      BY <1>1, <1>11, <2>3 DEF Epochs
    <3>2. coord'.epoch = coord.epoch /\ call.found = coord.epoch
      BY <1>3, <1>6, <1>11, <2>3, <3>1
    <3>3. ~Ended
      BY <1>11, <2>3, <3>2 DEF EndedOver
    <3>4. \A keep : ~Raises(keep)
      BY <1>3, <1>6, <3>2
    <3> QED BY <2>1, <2>2, <3>3, <3>4
  <2>4. CASE InitAnswered
    <3>1. call'.ongoing = IF call.keep /\ open # {} THEN coord.ongoing ELSE -1
      BY <1>1, <1>4, <1>11, <2>4, CallMoves
         DEF Ground, InitAnswered, Proceeds, Learns, Starts, StartsInit
    <3>2. call.keep /\ open # {}
      BY <1>11, <3>1
    <3>3. open' # {}
      BY <2>4, <3>2 DEF InitAnswered, CoordinatorInits
    <3>4. Clean'
      BY <1>10
    <3> QED BY <3>3, <3>4 DEF Clean
  <2> QED BY <1>1, <1>11, <2>3, <2>4, AdoptingStep
<1>12. ASSUME call'.op \in {"commit", "abort"}
       PROVE  call'.guard \in {0, begun'} \/ "stale_guard" \in Faults
  <2>1. CASE BeginTransaction
    BY <1>4, <1>12, <2>1 DEF BeginTransaction
  <2>2. CASE begun' = begun
    <3>1. call' = call \/ Proceeds \/ Starts
      BY <1>1, <1>4, <1>12, CallMoves DEF Ground, Learns, StartsInit
    <3> QED BY <1>12, <2>2, <3>1 DEF Proceeds, Starts, EndedOver
  <2> QED BY <1>5, <2>1, <2>2
<1> QED BY <1>7, <1>8, <1>10, <1>11, <1>12 DEF EndedOver

\* After a commit that the coordinator applied there is no abort of the same
\* transaction.
CommittedOver ==
  begun \in TransactionsOf(committed) => Gone /\ call.op # "abort"

\* The invariant for the end of a transaction.
Closed == Opened /\ Honest /\ EndedOver /\ CommittedOver

LEMMA CommittedOverStep ==
  ASSUME NoSplit, Closed, Cases
  PROVE  CommittedOver'
<1>1. /\ Opened /\ Ground /\ Typed /\ ControlTyped /\ Phase /\ Honest /\ EndedOver
      /\ CommittedOver /\ begun \in Nat
  BY TransactionConstants DEF Closed, Opened, Ground, Typed, ControlTyped, StateTyped
<1> SUFFICES ASSUME begun' \in TransactionsOf(committed)'
             PROVE  Gone' /\ call'.op # "abort"
  BY DEF CommittedOver
<1>2. Ended'
  BY DEF Ended, TransactionsOf
<1>3. begun' = begun
  BY <1>1, <1>2, EndedMoves
<1>4. CASE begun \in TransactionsOf(committed)
  <2>1. open = {}
    BY <1>1, <1>4 DEF EndedOver, Ended, Clean, TransactionsOf
  <2>2. ~BeginTransaction
    BY <1>1, <1>3 DEF BeginTransaction
  <2> QED BY <1>1, <1>4, <2>1, <2>2, GoneStep DEF CommittedOver
<1>5. CASE Finishes /\ call.op = "commit"
  BY <1>1, <1>5, FinishesOver
<1>6. CASE UNCHANGED committed
  <2>1. PICK r \in committed : txn_of'[r] = begun
    BY <1>3, <1>6 DEF TransactionsOf
  <2>2. txn_of[r] = begun
    BY <1>1, <2>1, LogsStay
  <2> QED BY <1>4, <2>1, <2>2 DEF TransactionsOf
<1> QED BY <1>1, <1>5, <1>6, EndsStep

LEMMA ClosedStep ==
  ASSUME NoSplit, Closed, Cases
  PROVE  Closed'
<1>1. ControlTyped /\ Phase
  BY DEF Closed, Opened, Ground, Typed
<1> QED BY <1>1, OpenedStep, HonestStep, EndedOverStep, CommittedOverStep DEF Closed

LEMMA ClosedInit == Init => Closed
<1> SUFFICES ASSUME Init PROVE Closed
  OBVIOUS
<1>1. /\ call.op = "none" /\ call.pc = "none" /\ call.applied = FALSE
      /\ committed = {} /\ aborted = {} /\ begun = 0
      /\ \A t \in Transactions : told[t] = "none"
  BY DEF Init, NoCall
<1>2. TransactionsOf(committed) = {} /\ TransactionsOf(committed \cup aborted) = {}
  BY <1>1 DEF TransactionsOf
<1>3. \A t : ~ReportedAborted(t)
  BY <1>1 DEF ReportedAborted
<1>4. ~Ended
  BY <1>2, <1>3 DEF Ended
<1>5. Honest /\ EndedOver /\ CommittedOver
  BY <1>1, <1>2, <1>3, <1>4 DEF Honest, AppliedIsKnownOrLost, EndedOver, CommittedOver
<1> QED BY <1>5, OpenedInit DEF Closed

\* When no batch has to be split, no transaction is committed in one part and
\* aborted in another, whatever is lost, refused, cancelled or repeated: once
\* EndTxn or InitProducerId ended a transaction at the coordinator, no call of the
\* producer and no late batch opens it again.
THEOREM AllOrNothingHolds ==
  ASSUME NoSplit
  PROVE  Spec => []AllOrNothing
<1>1. Init => Closed /\ AllOrNothing
  <2>1. Init => TransactionsOf(committed) = {}
    BY DEF Init, TransactionsOf
  <2> QED BY <2>1, ClosedInit DEF AllOrNothing
<1>2. Closed /\ AllOrNothing /\ [Next]_vars => Closed' /\ AllOrNothing'
  <2> SUFFICES ASSUME Closed, AllOrNothing, Cases PROVE Closed' /\ AllOrNothing'
    BY NextCases
  <2>1. /\ Ground /\ Belongs /\ EndedOver
    BY DEF Closed, Opened
  <2>2. \A r \in open \cup committed \cup aborted : txn_of'[r] = txn_of[r]
    BY <2>1, LogsStay
  <2>3. ASSUME NEW r \in open, NEW x \in committed \cup aborted PROVE txn_of[r] # txn_of[x]
    <3>1. txn_of[r] = begun
      BY <2>1 DEF Belongs, TransactionsOf
    <3>2. ~Ended
      BY <2>1 DEF EndedOver, Clean
    <3> QED BY <3>1, <3>2 DEF Ended, TransactionsOf
  <2>4. \A r \in committed, x \in aborted : txn_of[r] # txn_of[x]
    BY DEF AllOrNothing, TransactionsOf
  <2>5. \A r \in committed', x \in aborted' : txn_of'[r] # txn_of'[x]
    BY <2>1, <2>2, <2>3, <2>4, EndsStep
  <2>6. AllOrNothing'
    BY <2>5 DEF AllOrNothing, TransactionsOf
  <2> QED BY <2>6, ClosedStep
<1> QED BY <1>1, <1>2, PTL DEF Spec

\* When no batch has to be split and the application does not use the guard of an
\* earlier transaction, an abort that reported success (apply_end_txn) left no
\* record of the transaction visible, and none becomes visible later.
THEOREM AbortedMeansNoneHolds ==
  ASSUME NoSplit, "stale_guard" \notin Faults
  PROVE  Spec => []AbortedMeansNone
<1>1. Init => Closed /\ AbortedMeansNone
  <2>1. Init => AbortedMeansNone
    BY DEF Init, AbortedMeansNone
  <2> QED BY <2>1, ClosedInit
<1>2. Closed /\ AbortedMeansNone /\ [Next]_vars => Closed' /\ AbortedMeansNone'
  <2> SUFFICES ASSUME Closed, AbortedMeansNone, Cases PROVE Closed' /\ AbortedMeansNone'
    BY NextCases
  <2>1. /\ Ground /\ Typed /\ ControlTyped /\ Belongs /\ OpenPhase /\ EndedOver
        /\ CommittedOver
    BY DEF Closed, Opened, Ground, Typed
  <2>2. Closed' /\ plain' = {}
    BY ClosedStep DEF Closed, Opened, Ground, Transactional
  <2>3. \A r \in open \cup committed \cup aborted : txn_of'[r] = txn_of[r]
    BY <2>1, LogsStay
  <2>4. ASSUME NEW t \in Transactions, told'[t] = "aborted",
               NEW r \in (committed \cup open)', txn_of'[r] = t
        PROVE  FALSE
    <3>1. ASSUME told[t] = "aborted", r \in committed \cup open PROVE FALSE
      <4>1. txn_of[r] = t
        BY <2>3, <2>4, <3>1
      <4>2. r \in Records
        BY <2>1, <3>1 DEF Typed, RecordsTyped
      <4> QED BY <3>1, <4>1, <4>2 DEF AbortedMeansNone, Of
    <3>2. ASSUME told[t] = "aborted", NEW b, Appends(b), LeaderWork, r \in Elems(b.recs)
          PROVE  FALSE
      <4>1. txn_of' = txn_of
        BY <2>1, <3>2, LeaderStep DEF Ground
      <4>2. b \in Outstanding /\ b.epoch = coord.epoch /\ txn_of[r] = begun
        BY <2>1, <3>2 DEF Appends, Belongs, TransactionsOf
      <4>3. Ended
        BY <2>4, <3>2, <4>1, <4>2 DEF Ended, ReportedAborted
      <4>4. b.epoch < coord.epoch
        BY <2>1, <4>2, <4>3 DEF EndedOver, Clean
      <4> QED BY <2>1, <4>2, <4>4, EpochTypes
    <3>3. ASSUME told[t] # "aborted" PROVE FALSE
      <4>1. /\ EndTxnApply /\ call.decision = "Complete" /\ call.op # "commit"
            /\ t = Concerned
        BY <2>1, <2>4, <3>3, ToldStep
      <4>2. UNCHANGED coordVars /\ call.pc = "apply"
        BY <4>1 DEF EndTxnApply
      <4>3. call.op = "abort"
        BY <2>1, <4>1, <4>2
           DEF Ground, Phase, ControlTyped, CallTyped, Call, Idle, NoCall
      <4>4. t = begun
        BY <2>1, <4>1, <4>3 DEF EndedOver, Concerned
      <4>5. r \in committed /\ txn_of[r] = begun
        BY <2>1, <2>3, <2>4, <4>1, <4>2, <4>4 DEF OpenPhase, coordVars
      <4> QED BY <2>1, <4>3, <4>5 DEF CommittedOver, TransactionsOf
    <3>4. \/ (committed \cup open)' \subseteq committed \cup open
          \/ \E b : Appends(b) /\ LeaderWork
      <4>1. CASE Finishes
        BY <4>1 DEF Finishes, CoordinatorEnds
      <4>2. ASSUME NEW keep, Raises(keep)
            PROVE  (committed \cup open)' \subseteq committed \cup open
        BY <4>2 DEF Raises, CoordinatorInits
      <4> QED BY <2>1, <4>1, <4>2, CoordCases, LeaderStep DEF Ground, coordVars
    <3>5. ASSUME NEW b, Appends(b), r \notin Elems(b.recs) PROVE r \in committed \cup open
      BY <2>4, <3>5 DEF Appends
    <3> QED BY <2>4, <3>1, <3>2, <3>3, <3>4, <3>5
  <2>5. AbortedMeansNone'
    BY <2>2, <2>4 DEF AbortedMeansNone, Of
  <2> QED BY <2>2, <2>5
<1> QED BY <1>1, <1>2, PTL DEF Spec

=============================================================================
