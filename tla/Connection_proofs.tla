------------------------- MODULE Connection_proofs -------------------------
(***************************************************************************)
(* Proofs about Connection, for every set of calls, every queue capacity,  *)
(* every number of rounds and every configuration: no request goes out     *)
(* between the frames of an exchange, and an answer goes to the request    *)
(* that it answers.                                                        *)
(*                                                                         *)
(* While the connection is open an exchange that started is the only one   *)
(* with frames on the way: it has at most one, and it waits for its answer *)
(* under the write guard.  The read guards of the requests keep their      *)
(* frames in front of it.  The ids of requests and of exchanges never meet, *)
(* so an exchange goes on only when all requests before it have answers.   *)
(***************************************************************************)
EXTENDS Connection, Integers, FiniteSets, FiniteSetTheorems, TLAPS

Tags == Everyone \X Nat \X Nat
Frames == [id : Nat, tag : Tags]
NetTypes == [queue : Seq(Frames), writing : Seq(Frames), sent : Seq(Frames)]
IoTypes == [shutdown : BOOLEAN, reader : {"run", "stopped", "drained"},
            writer : {"run", "stopped", "dropped"}, stalled : BOOLEAN, handle : BOOLEAN]
Answers == [kind : {"none", "disconnected", "frame"}, tag : Tags \cup {<<>>}]
Steps == {"idle", "check", "turn", "register", "queue", "wait", "done"}
CallStates == [pc : Steps, id : Nat, x : Nat, k : Nat, ans : Answers]

TypeOK ==
  /\ conf \in Confs
  /\ call \in [Everyone -> CallStates]
  /\ next \in Nat /\ left \in Nat
  /\ pending \subseteq Frames
  /\ net \in NetTypes
  /\ Len(net.writing) <= 1
  /\ io \in IoTypes
  /\ auth \in [due : BOOLEAN, dues : Nat, exchanges : Nat]

\* The ids of requests are below the reserved ones, those of exchanges are not.
IdsApart ==
  /\ next < MinReserved
  /\ \A c \in Everyone : call[c].id < MinReserved
  /\ \A e \in pending : e.tag[2] = 0 <=> e.id < MinReserved
  /\ \A i \in DOMAIN Pipeline : Pipeline[i].tag[2] = 0 <=> Pipeline[i].id < MinReserved

\* What a call has fits what it does.
CallShape ==
  \A c \in Everyone :
    /\ call[c].k = 0 => call[c].x = 0
    /\ call[c].k > 0 => /\ c \in Calls /\ call[c].pc \in {"register", "queue", "wait"}
                        /\ call[c].x \in 1..auth.exchanges
    /\ call[c].pc \notin {"queue", "wait"} => call[c].ans = NoAnswer

\* reauth.next is a reader-writer lock, and an exchange runs only while it is due.
LockHeld ==
  /\ auth.due => conf.reauth /\ call[Setup].pc = "done"
  /\ \A c \in Calls : HoldsWrite(c) =>
       auth.due /\ \A o \in Calls : ~HoldsRead(o) /\ (HoldsWrite(o) => o = c)

\* The requests on the way are in front of the running exchange.
RequestsFirst ==
  /\ \A i \in DOMAIN Pipeline : Pipeline[i].tag[2] <= auth.exchanges
  /\ \A c \in Calls : HoldsWrite(c) =>
       \A i, j \in DOMAIN Pipeline :
         j <= i /\ Pipeline[i].tag[2] = 0 => Pipeline[j].tag[2] # call[c].x

\* While the connection is open, the only frame of an exchange that is on the way is the one
\* that its call waits for.
OneExchangeFrame ==
  ~io.shutdown =>
    /\ \A i \in DOMAIN Pipeline : Pipeline[i].tag[2] > 0 =>
         \E c \in Calls : /\ HoldsWrite(c) /\ Pipeline[i].tag = Tag(c)
                          /\ call[c].pc = "wait" /\ call[c].ans.kind # "frame"
    /\ \A i, j \in DOMAIN Pipeline :
         Pipeline[i].tag[2] > 0 /\ Pipeline[j].tag[2] > 0 => i = j

\* An exchange that has an answer, its own, has no request in front of it.
RequestsAnswered ==
  ~io.shutdown => \A c \in Calls : HoldsWrite(c) =>
    /\ call[c].ans.kind = "frame" => call[c].pc = "wait" /\ call[c].ans.tag = Tag(c)
    /\ call[c].k > 1 \/ call[c].ans.kind = "frame" =>
         \A i \in DOMAIN Pipeline : Pipeline[i].tag[2] # 0

FrameInv == RequestsFirst /\ OneExchangeFrame /\ RequestsAnswered

Inv == TypeOK /\ IdsApart /\ CallShape /\ LockHeld /\ FrameInv

\* No caller drops a call in the middle of an exchange.
NoCancelledExchange == \A cf \in Confs : "cancel_exchange" \notin cf.faults

-----------------------------------------------------------------------------
(* The frames on the way.                                                  *)

\* Q is P without some of its elements.
Thinned(P, Q) ==
  \E f \in [DOMAIN Q -> DOMAIN P] :
    /\ \A i \in DOMAIN Q : Q[i] = P[f[i]]
    /\ \A i, j \in DOMAIN Q : i < j => f[i] < f[j]

\* Three sequences, one after the other.
LEMMA ThreeParts ==
  ASSUME NEW S, NEW s \in Seq(S), NEW w \in Seq(S), NEW q \in Seq(S)
  PROVE  /\ s \o w \o q \in Seq(S)
         /\ Len(s \o w \o q) = Len(s) + Len(w) + Len(q)
         /\ \A i \in 1..(Len(s) + Len(w) + Len(q)) :
              (s \o w \o q)[i] = IF i <= Len(s) THEN s[i]
                                 ELSE IF i <= Len(s) + Len(w) THEN w[i - Len(s)]
                                 ELSE q[i - Len(s) - Len(w)]
OBVIOUS

\* A sequence without the d elements after the first a.
LEMMA CutThins ==
  ASSUME NEW S, NEW P \in Seq(S), NEW Q \in Seq(S), NEW a \in Nat, NEW d \in Nat,
         Len(Q) = Len(P) - d,
         \A i \in 1..Len(Q) : Q[i] = P[IF i <= a THEN i ELSE i + d]
  PROVE  Thinned(P, Q)
<1> DEFINE f == [i \in DOMAIN Q |-> IF i <= a THEN i ELSE i + d]
<1>1. DOMAIN Q = 1..Len(Q) /\ DOMAIN P = 1..Len(P) /\ Len(P) \in Nat /\ Len(Q) \in Nat
  OBVIOUS
<1>2. f \in [DOMAIN Q -> DOMAIN P]
  BY <1>1
<1>3. /\ \A i \in DOMAIN Q : Q[i] = P[f[i]]
      /\ \A i, j \in DOMAIN Q : i < j => f[i] < f[j]
  BY <1>1
<1> QED
  BY <1>2, <1>3 DEF Thinned

LEMMA SameIsThinned ==
  ASSUME NEW S, NEW P \in Seq(S)
  PROVE  Thinned(P, P)
<1>1. Len(P) = Len(P) - 0 /\ \A i \in 1..Len(P) : P[i] = P[IF i <= 0 THEN i ELSE i + 0]
  OBVIOUS
<1> QED
  BY <1>1, CutThins

LEMMA PipelineType ==
  ASSUME TypeOK
  PROVE  /\ Pipeline \in Seq(Frames)
         /\ DOMAIN Pipeline = 1..Len(Pipeline) /\ Len(Pipeline) \in Nat
         /\ \A i \in DOMAIN Pipeline : /\ Pipeline[i] \in Frames
                                       /\ Pipeline[i].tag[2] \in Nat
<1>1. Pipeline \in Seq(Frames)
  BY ThreeParts DEF TypeOK, NetTypes, Pipeline
<1>2. /\ DOMAIN Pipeline = 1..Len(Pipeline) /\ Len(Pipeline) \in Nat
      /\ \A i \in DOMAIN Pipeline : Pipeline[i] \in Frames
  BY <1>1
<1>3. \A f \in Frames : f.tag[2] \in Nat
  BY DEF Frames, Tags
<1> QED
  BY <1>1, <1>2, <1>3

LEMMA FirstOfSeq ==
  ASSUME NEW S, NEW q \in Seq(S), q # <<>>
  PROVE  /\ Len(q) \in Nat /\ Len(q) > 0 /\ Head(q) \in S /\ <<Head(q)>> \in Seq(S)
         /\ Head(q) = q[1] /\ Tail(q) \in Seq(S) /\ Len(Tail(q)) = Len(q) - 1
         /\ \A i \in 1..(Len(q) - 1) : Tail(q)[i] = q[i + 1]
OBVIOUS

LEMMA DropFirst ==
  ASSUME NEW S, NEW s \in Seq(S), NEW w \in Seq(S), NEW q \in Seq(S), s # <<>>
  PROVE  /\ Thinned(s \o w \o q, Tail(s) \o w \o q)
         /\ Len(s \o w \o q) > 0 /\ (s \o w \o q)[1] = Head(s)
         /\ Len(Tail(s) \o w \o q) = Len(s \o w \o q) - 1
         /\ \A i \in 1..Len(Tail(s) \o w \o q) :
              i + 1 \in 1..Len(s \o w \o q) /\ (Tail(s) \o w \o q)[i] = (s \o w \o q)[i + 1]
<1> DEFINE P == s \o w \o q
           Q == Tail(s) \o w \o q
<1>1. /\ P \in Seq(S) /\ Len(P) = Len(s) + Len(w) + Len(q)
      /\ \A i \in 1..Len(P) : P[i] = IF i <= Len(s) THEN s[i]
                                     ELSE IF i <= Len(s) + Len(w) THEN w[i - Len(s)]
                                     ELSE q[i - Len(s) - Len(w)]
  BY ThreeParts
<1>2. /\ Tail(s) \in Seq(S) /\ Len(Tail(s)) = Len(s) - 1
      /\ \A i \in 1..(Len(s) - 1) : Tail(s)[i] = s[i + 1]
  BY FirstOfSeq
<1>3. /\ Q \in Seq(S) /\ Len(Q) = Len(s) - 1 + Len(w) + Len(q)
      /\ \A i \in 1..Len(Q) : Q[i] = IF i <= Len(s) - 1 THEN Tail(s)[i]
                                     ELSE IF i <= Len(s) - 1 + Len(w) THEN w[i - (Len(s) - 1)]
                                     ELSE q[i - (Len(s) - 1) - Len(w)]
  BY <1>2, ThreeParts
<1>4. Len(s) \in Nat /\ Len(w) \in Nat /\ Len(q) \in Nat
  OBVIOUS
<1> HIDE DEF P, Q
<1>5. Len(Q) = Len(P) - 1
  BY <1>1, <1>3, <1>4
<1>6. ASSUME NEW i \in 1..Len(Q)
      PROVE  i + 1 \in 1..Len(P) /\ i >= 1 /\ i \in Int /\ Q[i] = P[i + 1]
  <2>1. i \in Int /\ i >= 1 /\ i + 1 \in 1..Len(P)
    BY <1>1, <1>3, <1>4
  <2>2. P[i + 1] = IF i + 1 <= Len(s) THEN s[i + 1]
                   ELSE IF i + 1 <= Len(s) + Len(w) THEN w[i + 1 - Len(s)]
                   ELSE q[i + 1 - Len(s) - Len(w)]
    BY <1>1, <2>1
  <2>3. i - (Len(s) - 1) = i + 1 - Len(s)
    BY <1>4, <2>1
  <2>4. i - (Len(s) - 1) - Len(w) = i + 1 - Len(s) - Len(w)
    BY <1>4, <2>1
  <2> QED
    BY <1>2, <1>3, <1>4, <2>1, <2>2, <2>3, <2>4
<1>7. \A i \in 1..Len(Q) : Q[i] = P[IF i <= 0 THEN i ELSE i + 1]
  BY <1>6
<1>8. Thinned(P, Q)
  BY <1>1, <1>3, <1>5, <1>7, CutThins
<1>9. Len(P) > 0 /\ P[1] = Head(s)
  BY <1>1, <1>4, FirstOfSeq
<1> QED
  BY <1>5, <1>6, <1>8, <1>9 DEF P, Q

LEMMA DropMiddle ==
  ASSUME NEW S, NEW s \in Seq(S), NEW w \in Seq(S), NEW q \in Seq(S)
  PROVE  Thinned(s \o w \o q, s \o <<>> \o q)
<1> DEFINE P == s \o w \o q
           Q == s \o <<>> \o q
<1>1. /\ P \in Seq(S) /\ Len(P) = Len(s) + Len(w) + Len(q)
      /\ \A i \in 1..Len(P) : P[i] = IF i <= Len(s) THEN s[i]
                                     ELSE IF i <= Len(s) + Len(w) THEN w[i - Len(s)]
                                     ELSE q[i - Len(s) - Len(w)]
  BY ThreeParts
<1>2. <<>> \in Seq(S) /\ Len(<<>>) = 0
  OBVIOUS
<1>3. Q \in Seq(S)
  BY <1>2, ThreeParts
<1>4. /\ Len(Q) = Len(s) + Len(q)
      /\ \A i \in 1..Len(Q) : Q[i] = IF i <= Len(s) THEN s[i] ELSE q[i - Len(s)]
  OBVIOUS
<1>5. Len(s) \in Nat /\ Len(w) \in Nat /\ Len(q) \in Nat
  OBVIOUS
<1> HIDE DEF P, Q
<1>6. Len(Q) = Len(P) - Len(w)
  BY <1>1, <1>4, <1>5
<1>7. ASSUME NEW i \in 1..Len(Q)
      PROVE  Q[i] = P[IF i <= Len(s) THEN i ELSE i + Len(w)]
  <2>1. CASE i <= Len(s)
    BY <1>1, <1>4, <1>5, <2>1
  <2>2. CASE i > Len(s)
    <3>1. i + Len(w) \in 1..Len(P) /\ i + Len(w) > Len(s) + Len(w)
      BY <1>1, <1>4, <1>5, <2>2
    <3>2. P[i + Len(w)] = q[i + Len(w) - Len(s) - Len(w)]
      BY <1>1, <1>5, <2>2, <3>1
    <3>3. i + Len(w) - Len(s) - Len(w) = i - Len(s)
      BY <1>5
    <3> QED
      BY <1>4, <1>5, <2>2, <3>2, <3>3
  <2> QED
    BY <1>5, <2>1, <2>2
<1> QED
  BY <1>1, <1>3, <1>5, <1>6, <1>7, CutThins DEF P, Q

LEMMA DropLast ==
  ASSUME NEW S, NEW s \in Seq(S), NEW w \in Seq(S), NEW q \in Seq(S)
  PROVE  Thinned(s \o w \o q, s \o w \o <<>>)
<1> DEFINE P == s \o w \o q
           Q == s \o w \o <<>>
<1>1. /\ P \in Seq(S) /\ Len(P) = Len(s) + Len(w) + Len(q)
      /\ \A i \in 1..Len(P) : P[i] = IF i <= Len(s) THEN s[i]
                                     ELSE IF i <= Len(s) + Len(w) THEN w[i - Len(s)]
                                     ELSE q[i - Len(s) - Len(w)]
  BY ThreeParts
<1>2. <<>> \in Seq(S) /\ Len(<<>>) = 0
  OBVIOUS
<1>3. Q \in Seq(S)
  BY <1>2, ThreeParts
<1>4. /\ Len(Q) = Len(s) + Len(w)
      /\ \A i \in 1..Len(Q) : Q[i] = IF i <= Len(s) THEN s[i] ELSE w[i - Len(s)]
  OBVIOUS
<1>5. Len(s) \in Nat /\ Len(w) \in Nat /\ Len(q) \in Nat
  OBVIOUS
<1> HIDE DEF P, Q
<1>6. /\ Len(Q) = Len(P) - Len(q)
      /\ \A i \in 1..Len(Q) : Q[i] = P[IF i <= Len(s) + Len(w) THEN i ELSE i + Len(q)]
  BY <1>1, <1>4, <1>5
<1>7. Len(s) + Len(w) \in Nat
  BY <1>5
<1> QED
  BY <1>1, <1>3, <1>5, <1>6, <1>7, CutThins DEF P, Q

\* A frame that is taken from the queue, or written, keeps its place.
LEMMA FramesMove ==
  ASSUME NEW S, NEW s \in Seq(S), NEW w \in Seq(S), NEW q \in Seq(S)
  PROVE  /\ q # <<>> => s \o <<>> \o q = s \o <<Head(q)>> \o Tail(q)
         /\ (s \o w) \o <<>> \o q = s \o w \o q
<1>1. ASSUME q # <<>>
      PROVE  s \o <<>> \o q = s \o <<Head(q)>> \o Tail(q)
  BY <1>1, FirstOfSeq
<1>2. (s \o w) \o <<>> \o q = s \o w \o q
  OBVIOUS
<1> QED
  BY <1>1, <1>2

\* The tasks take frames out of the pipeline and keep the order of the rest.
LEMMA TasksThin ==
  ASSUME TypeOK, WriterTake \/ WriterWrite \/ WriterBreaks \/ WriterDrops \/ ReaderReads
  PROVE  net' \in NetTypes /\ Len(net'.writing) <= 1 /\ Thinned(Pipeline, Pipeline')
<1>1. PICK s \in Seq(Frames), w \in Seq(Frames), q \in Seq(Frames) :
        net = [queue |-> q, writing |-> w, sent |-> s] /\ Len(w) <= 1
  BY DEF TypeOK, NetTypes
<1>2. Pipeline = s \o w \o q /\ Pipeline \in Seq(Frames) /\ <<>> \in Seq(Frames)
  BY <1>1, PipelineType DEF Pipeline
<1>3. ASSUME NEW s2 \in Seq(Frames), NEW w2 \in Seq(Frames), NEW q2 \in Seq(Frames),
             net' = [queue |-> q2, writing |-> w2, sent |-> s2], Len(w2) <= 1,
             Thinned(Pipeline, s2 \o w2 \o q2)
      PROVE  net' \in NetTypes /\ Len(net'.writing) <= 1 /\ Thinned(Pipeline, Pipeline')
  BY <1>3 DEF NetTypes, Pipeline
<1>4. CASE WriterTake
  <2>1. /\ w = <<>> /\ q # <<>>
        /\ net' = [queue |-> Tail(q), writing |-> <<Head(q)>>, sent |-> s]
    BY <1>1, <1>4 DEF WriterTake
  <2>2. Tail(q) \in Seq(Frames) /\ <<Head(q)>> \in Seq(Frames) /\ Len(<<Head(q)>>) <= 1
    BY <2>1, FirstOfSeq
  <2>3. s \o <<Head(q)>> \o Tail(q) = s \o <<>> \o q
    BY <2>1, FramesMove
  <2>4. Thinned(Pipeline, s \o <<Head(q)>> \o Tail(q))
    BY <1>2, <2>1, <2>3, SameIsThinned
  <2> QED
    BY <1>3, <2>1, <2>2, <2>4
<1>5. CASE WriterWrite
  <2>1. \/ net' = [queue |-> q, writing |-> <<>>, sent |-> s]
        \/ net' = [queue |-> q, writing |-> <<>>, sent |-> s \o w]
    BY <1>1, <1>5 DEF WriterWrite
  <2>2. s \o w \in Seq(Frames) /\ Len(<<>>) <= 1
    OBVIOUS
  <2>3. Thinned(Pipeline, s \o <<>> \o q) /\ Thinned(Pipeline, (s \o w) \o <<>> \o q)
    <3>1. (s \o w) \o <<>> \o q = s \o w \o q
      BY FramesMove
    <3>2. Thinned(s \o w \o q, s \o <<>> \o q)
      BY DropMiddle
    <3> QED
      BY <1>2, <3>1, <3>2, SameIsThinned
  <2> QED
    BY <1>2, <1>3, <2>1, <2>2, <2>3
<1>6. CASE WriterBreaks
  <2>1. net' = [queue |-> q, writing |-> <<>>, sent |-> s] /\ Len(<<>>) <= 1
    BY <1>1, <1>6 DEF WriterBreaks
  <2> QED
    BY <1>2, <1>3, <2>1, DropMiddle
<1>7. CASE WriterDrops
  <2>1. net' = [queue |-> <<>>, writing |-> w, sent |-> s]
    BY <1>1, <1>7 DEF WriterDrops
  <2> QED
    BY <1>1, <1>2, <1>3, <2>1, DropLast
<1>8. CASE ReaderReads
  <2>1. net' = [queue |-> q, writing |-> w, sent |-> Tail(s)] /\ s # <<>>
    BY <1>1, <1>8 DEF ReaderReads
  <2> QED
    BY <1>1, <1>2, <1>3, <2>1, FirstOfSeq, DropFirst
<1> QED
  BY <1>4, <1>5, <1>6, <1>7, <1>8

-----------------------------------------------------------------------------
(* The invariant.                                                          *)

LEMMA InitInv == Init => Inv
<1> SUFFICES ASSUME Init PROVE Inv
  OBVIOUS
<1>1. Setup \in Everyone /\ Calls \subseteq Everyone /\ Setup \notin Calls
  BY ConnectionAssumption DEF Setup, Everyone
<1>2. \A c \in Everyone : /\ call[c].pc \in {"idle", "register"} /\ call[c].id = 0
                          /\ call[c].x = 0 /\ call[c].k = 0 /\ call[c].ans = NoAnswer
                          /\ call[c] \in CallStates
  BY DEF Init, Idle, CallStates, Steps, NoAnswer, Answers
<1>3. conf \in Confs /\ conf.budget \in Nat
  BY ConnectionAssumption DEF Init
<1>4. TypeOK
  BY <1>2, <1>3 DEF Init, TypeOK, NetTypes, IoTypes
<1>5. Pipeline = <<>> /\ DOMAIN Pipeline = {}
  BY DEF Init, Pipeline
<1>6. IdsApart
  BY <1>2, <1>5, ConnectionAssumption DEF Init, IdsApart
<1>7. CallShape
  BY <1>2 DEF CallShape
<1>8. LockHeld
  BY <1>1, <1>2 DEF Init, LockHeld, HoldsWrite
<1>9. FrameInv
  BY <1>1, <1>2, <1>5 DEF FrameInv, RequestsFirst, OneExchangeFrame, RequestsAnswered, HoldsWrite
<1> QED
  BY <1>4, <1>6, <1>7, <1>8, <1>9 DEF Inv

\* A step that leaves the calls alone and may take frames out of the pipeline.
LEMMA QuietStep ==
  ASSUME Inv, TypeOK', UNCHANGED <<conf, call, next>>, pending' \subseteq pending,
         Thinned(Pipeline, Pipeline'), io.shutdown => io'.shutdown,
         auth'.exchanges = auth.exchanges, auth.due => auth'.due,
         auth'.due => conf.reauth /\ call[Setup].pc = "done"
  PROVE  Inv'
<1>1. PICK f \in [DOMAIN Pipeline' -> DOMAIN Pipeline] :
        /\ \A i \in DOMAIN Pipeline' : Pipeline'[i] = Pipeline[f[i]]
        /\ \A i, j \in DOMAIN Pipeline' : i < j => f[i] < f[j]
  BY DEF Thinned
<1>2. /\ DOMAIN Pipeline \subseteq Nat /\ DOMAIN Pipeline' \subseteq Nat
      /\ \A i, j \in DOMAIN Pipeline' : i <= j => f[i] <= f[j]
      /\ \A i, j \in DOMAIN Pipeline' : f[i] = f[j] => i = j
  <2>1. DOMAIN Pipeline \subseteq Nat
    BY PipelineType DEF Inv
  <2>2. DOMAIN Pipeline' \subseteq Nat
    <3>1. Pipeline' \in Seq(Frames)
      BY ThreeParts DEF TypeOK, NetTypes, Pipeline
    <3> QED
      BY <3>1
  <2> QED
    BY <1>1, <2>1, <2>2
<1>3. IdsApart'
  BY <1>1 DEF Inv, IdsApart
<1>4. CallShape' /\ LockHeld'
  BY DEF Inv, CallShape, LockHeld, HoldsRead, HoldsWrite
<1>5. RequestsFirst'
  BY <1>1, <1>2 DEF Inv, FrameInv, RequestsFirst, HoldsWrite
<1>6. OneExchangeFrame'
  BY <1>1, <1>2 DEF Inv, FrameInv, OneExchangeFrame, HoldsWrite, Tag
<1>7. RequestsAnswered'
  BY <1>1 DEF Inv, FrameInv, RequestsAnswered, HoldsWrite, Tag
<1> QED
  BY <1>3, <1>4, <1>5, <1>6, <1>7 DEF Inv, FrameInv

\* A step of a call that is in no exchange afterwards: it starts, asks for the guards, or ends.
\* It leaves an exchange only with its last answer, or shuts the connection down.
LEMMA PlainStep ==
  ASSUME Inv, NEW c \in Everyone, NEW s \in CallStates, call' = [call EXCEPT ![c] = s],
         s.k = 0, s.x = 0, s.id < MinReserved, s.ans = NoAnswer,
         c = Setup => s.pc = "done" \/ call[c].pc # "done",
         call[c].k > 0 => io'.shutdown \/ call[c].ans.kind = "frame",
         conf.reauth /\ c # Setup /\ s.pc \in {"register", "queue"} =>
           \A o \in Calls : ~HoldsWrite(o),
         TypeOK', conf' = conf, next' < MinReserved, pending' \subseteq pending, net' = net,
         io.shutdown => io'.shutdown, auth'.exchanges = auth.exchanges,
         auth'.due => auth.due,
         auth.due => auth'.due \/ call[c].k > 0
  PROVE  Inv'
<1>1. Setup \in Everyone /\ Calls \subseteq Everyone /\ Setup \notin Calls
  BY ConnectionAssumption DEF Setup, Everyone
<1>2. call'[c] = s /\ \A o \in Everyone : o # c => call'[o] = call[o]
  BY DEF Inv, TypeOK
<1>3. \A o \in Calls : call'[o].k > 0 => o # c /\ call[o].k > 0
  BY <1>1, <1>2 DEF Inv, TypeOK, CallStates
<1>4. Pipeline' = Pipeline
  BY DEF Pipeline
<1>5. IdsApart'
  BY <1>2, <1>4 DEF Inv, IdsApart
<1>6. CallShape'
  BY <1>2 DEF Inv, CallShape
<1>7. LockHeld'
  <2>1. auth'.due => conf'.reauth /\ call'[Setup].pc = "done"
    BY <1>1, <1>2 DEF Inv, LockHeld
  <2>2. ASSUME NEW o \in Calls, HoldsWrite(o)'
        PROVE  auth'.due /\ \A n \in Calls : ~HoldsRead(n)' /\ (HoldsWrite(n)' => n = o)
    <3>1. o # c /\ HoldsWrite(o) /\ auth.due
      BY <1>3, <2>2 DEF Inv, LockHeld, HoldsWrite
    <3>2. ~(call[c].k > 0)
      BY <1>1, <3>1 DEF Inv, LockHeld, HoldsWrite, CallShape
    <3>3. ASSUME NEW n \in Calls PROVE ~HoldsRead(n)'
      BY <1>1, <1>2, <3>1 DEF Inv, LockHeld, HoldsRead
    <3> QED
      BY <1>3, <3>1, <3>2, <3>3 DEF Inv, LockHeld, HoldsWrite
  <2> QED
    BY <2>1, <2>2 DEF LockHeld
<1>8. RequestsFirst'
  BY <1>1, <1>2, <1>3, <1>4 DEF Inv, FrameInv, RequestsFirst, HoldsWrite
<1>9. OneExchangeFrame'
  BY <1>1, <1>2, <1>4 DEF Inv, FrameInv, OneExchangeFrame, HoldsWrite, Tag
<1>10. RequestsAnswered'
  BY <1>1, <1>2, <1>3, <1>4 DEF Inv, FrameInv, RequestsAnswered, HoldsWrite, Tag
<1> QED
  BY <1>5, <1>6, <1>7, <1>8, <1>9, <1>10 DEF Inv, FrameInv

LEMMA EndStep ==
  ASSUME Inv, NEW c \in Everyone, call' = [call EXCEPT ![c] = Done],
         pending' \in {pending, Released(c)}, UNCHANGED <<conf, next, net, auth>>,
         left' \in Nat, io' \in IoTypes, io.shutdown => io'.shutdown,
         call[c].k > 0 => io'.shutdown
  PROVE  Inv'
<1>1. /\ Done \in CallStates /\ Done.k = 0 /\ Done.x = 0 /\ Done.id = 0
      /\ Done.ans = NoAnswer /\ Done.pc = "done"
  BY DEF Done, Idle, CallStates, Steps, Answers, NoAnswer
<1>2. pending' \subseteq pending
  BY DEF Released, Unregister
<1>3. TypeOK'
  BY <1>1, <1>2 DEF Inv, TypeOK
<1>4. Done.id < MinReserved /\ next' < MinReserved
  BY <1>1, ConnectionAssumption DEF Inv, IdsApart
<1> QED
  BY <1>1, <1>2, <1>3, <1>4, PlainStep

LEMMA EndActions ==
  ASSUME Inv, NoCancelledExchange, NEW c \in Everyone,
         \/ Disconnects(c) \/ Timeout(c) \/ Returns(c) \/ Cancel(c) \/ Reject(c)
  PROVE  Inv'
<1>1. io \in IoTypes /\ left \in Nat
  BY DEF Inv, TypeOK
<1>2. call[c].k > 0 => c \in Calls /\ c # Setup
  BY ConnectionAssumption DEF Inv, CallShape, Setup
<1>3. /\ AfterFailure(c) \in IoTypes /\ AfterTimeout(c) \in IoTypes
      /\ io.shutdown => AfterFailure(c).shutdown /\ AfterTimeout(c).shutdown
      /\ call[c].k > 0 => AfterFailure(c).shutdown /\ AfterTimeout(c).shutdown
  BY <1>1, <1>2 DEF IoTypes, AfterFailure, AfterTimeout, HoldsWrite
<1>4. CASE Disconnects(c) \/ Reject(c)
  <2>1. /\ call' = [call EXCEPT ![c] = Done] /\ pending' = Released(c)
        /\ io' = AfterFailure(c) /\ UNCHANGED <<conf, next, net, auth>> /\ left' \in Nat
    BY <1>1, <1>4 DEF Disconnects, Reject, Fail, Spend
  <2> QED
    BY <1>3, <2>1, EndStep
<1>5. CASE Timeout(c)
  <2>1. /\ call' = [call EXCEPT ![c] = Done] /\ pending' = Released(c)
        /\ io' = AfterTimeout(c) /\ UNCHANGED <<conf, next, net, auth, left>>
    BY <1>5 DEF Timeout
  <2> QED
    BY <1>1, <1>3, <2>1, EndStep
<1>6. CASE Returns(c)
  <2>1. /\ call' = [call EXCEPT ![c] = Done] /\ pending' = Released(c) /\ call[c].k = 0
        /\ UNCHANGED <<conf, next, net, io, auth, left>>
    BY <1>6 DEF Returns
  <2>2. ~(call[c].k > 0) /\ io' \in IoTypes /\ left' \in Nat /\ io'.shutdown = io.shutdown
    BY <1>1, <2>1
  <2> QED
    BY <2>1, <2>2, EndStep
<1>7. CASE Cancel(c)
  <2>1. /\ call' = [call EXCEPT ![c] = Done] /\ pending' = Released(c)
        /\ UNCHANGED <<conf, next, net, io, auth>> /\ left' \in Nat
    BY <1>1, <1>7 DEF Cancel, Spend
  <2>2. ~HoldsWrite(c)
    BY <1>7 DEF Cancel, Spend, NoCancelledExchange, Inv, TypeOK
  <2> QED
    BY <1>1, <2>1, <2>2, EndStep DEF HoldsWrite
<1> QED
  BY <1>4, <1>5, <1>6, <1>7

LEMMA NextIdInRange ==
  ASSUME Inv
  PROVE  NextCorrelationId \in Nat /\ NextCorrelationId < MinReserved
BY ConnectionAssumption DEF Inv, TypeOK, IdsApart, NextCorrelationId

LEMMA StartStep ==
  ASSUME Inv, NEW c \in Everyone, Start(c)
  PROVE  Inv'
<1> DEFINE s == [Idle EXCEPT !.pc = "check", !.id = next]
<1>1. /\ call' = [call EXCEPT ![c] = s] /\ call[c].pc = "idle"
      /\ next' = NextCorrelationId /\ UNCHANGED <<conf, pending, net, io, auth, left>>
  BY DEF Start
<1>2. /\ s \in CallStates /\ s.k = 0 /\ s.x = 0 /\ s.id = next /\ s.ans = NoAnswer
      /\ s.pc = "check"
  BY DEF Idle, CallStates, Steps, Answers, NoAnswer, Inv, TypeOK
<1> HIDE DEF s
<1>3. TypeOK'
  BY <1>1, <1>2, NextIdInRange DEF Inv, TypeOK
<1>4. ~(call[c].k > 0)
  BY <1>1 DEF Inv, CallShape
<1>5. s.id < MinReserved
  BY <1>2 DEF Inv, IdsApart
<1> QED
  BY <1>1, <1>2, <1>3, <1>4, <1>5, NextIdInRange, PlainStep

LEMMA CheckStep ==
  ASSUME Inv, NEW c \in Everyone,
         Check(c) \/ (TakeTurn(c) /\ ~auth.due)
  PROVE  Inv'
<1>1. PICK p \in {"check", "turn", "register", "queue"} : call' = [call EXCEPT ![c].pc = p]
  BY DEF Check, TakeTurn
<1>2. /\ call[c].pc \in {"check", "turn"} /\ \A o \in Calls : ~HoldsWrite(o)
      /\ UNCHANGED <<conf, next, pending, net, io, auth, left>>
  BY DEF Check, TakeTurn
<1> DEFINE s == [call[c] EXCEPT !.pc = p]
<1>3. /\ call[c].k = 0 /\ call[c].x = 0 /\ call[c].ans = NoAnswer
      /\ call[c].id < MinReserved /\ call[c] \in CallStates
  BY <1>2 DEF Inv, CallShape, IdsApart, TypeOK, CallStates, Steps
<1>4. /\ s \in CallStates /\ s.k = 0 /\ s.x = 0 /\ s.id < MinReserved
      /\ s.ans = NoAnswer /\ s.pc = p
  BY <1>3 DEF CallStates, Steps
<1>5. call' = [call EXCEPT ![c] = s]
  BY <1>1
<1> HIDE DEF s
<1>6. TypeOK'
  BY <1>2, <1>4, <1>5 DEF Inv, TypeOK
<1>7. ~(call[c].k > 0) /\ next' < MinReserved
  BY <1>2, <1>3 DEF Inv, IdsApart
<1> QED
  BY <1>2, <1>4, <1>5, <1>6, <1>7, PlainStep

LEMMA SetupStep ==
  ASSUME Inv, SetupAnswered
  PROVE  Inv'
<1>1. Setup \in Everyone /\ Setup \notin Calls /\ io \in IoTypes /\ left \in Nat
  BY ConnectionAssumption DEF Setup, Everyone, Inv, TypeOK
<1>2. ~(call[Setup].k > 0) /\ call[Setup].pc = "wait"
  BY <1>1 DEF Inv, CallShape, SetupAnswered, Answered
<1>3. CASE /\ call' = [call EXCEPT ![Setup] = Done]
           /\ UNCHANGED <<conf, next, pending, net, io, auth, left>>
  <2>1. io' \in IoTypes /\ left' \in Nat /\ io'.shutdown = io.shutdown
    BY <1>1, <1>3
  <2> QED
    BY <1>1, <1>2, <1>3, <2>1, EndStep
<1>4. CASE /\ Spend("version") /\ next' = NextCorrelationId
           /\ call' = [call EXCEPT ![Setup] = [Idle EXCEPT !.pc = "register", !.id = next]]
           /\ UNCHANGED <<conf, pending, net, io, auth>>
  <2> DEFINE s == [Idle EXCEPT !.pc = "register", !.id = next]
  <2>1. /\ s \in CallStates /\ s.k = 0 /\ s.x = 0 /\ s.id = next /\ s.ans = NoAnswer
        /\ s.pc = "register"
    BY DEF Idle, CallStates, Steps, Answers, NoAnswer, Inv, TypeOK
  <2>2. call' = [call EXCEPT ![Setup] = s] /\ left' \in Nat
    BY <1>1, <1>4 DEF Spend
  <2> HIDE DEF s
  <2>3. TypeOK'
    BY <1>4, <2>1, <2>2, NextIdInRange DEF Inv, TypeOK
  <2>4. s.id < MinReserved
    BY <2>1 DEF Inv, IdsApart
  <2> QED
    BY <1>1, <1>2, <1>4, <2>1, <2>2, <2>3, <2>4, NextIdInRange, PlainStep
<1>5. CASE Spend("refuse") /\ Fail(Setup)
  <2>1. /\ call' = [call EXCEPT ![Setup] = Done] /\ pending' = Released(Setup)
        /\ io' = [io EXCEPT !.handle = FALSE] /\ UNCHANGED <<conf, next, net, auth>>
        /\ left' \in Nat
    BY <1>1, <1>5 DEF Spend, Fail, AfterFailure
  <2>2. io' \in IoTypes /\ io'.shutdown = io.shutdown
    BY <1>1, <2>1 DEF IoTypes
  <2> QED
    BY <1>1, <1>2, <2>1, <2>2, EndStep
<1> QED
  BY <1>3, <1>4, <1>5 DEF SetupAnswered

LEMMA LastRoundStep ==
  ASSUME Inv, NEW c \in Everyone, Authenticate(c), ~(call[c].k < Rounds)
  PROVE  Inv'
<1> DEFINE s == [Idle EXCEPT !.pc = "check", !.id = call[c].id]
<1>1. /\ call' = [call EXCEPT ![c] = s] /\ auth' = [auth EXCEPT !.due = FALSE]
      /\ pending' = Released(c) /\ UNCHANGED <<conf, next, net, io, left>>
      /\ call[c].k > 0 /\ call[c].ans.kind = "frame"
  BY DEF Authenticate, Answered
<1>2. call[c] \in CallStates /\ call[c].id < MinReserved /\ next < MinReserved
  BY DEF Inv, TypeOK, IdsApart
<1>3. /\ s \in CallStates /\ s.k = 0 /\ s.x = 0 /\ s.id = call[c].id /\ s.ans = NoAnswer
      /\ s.pc = "check"
  BY <1>2 DEF Idle, CallStates, Steps, Answers, NoAnswer
<1> HIDE DEF s
<1>4. pending' \subseteq pending
  BY <1>1 DEF Released, Unregister
<1>5. TypeOK'
  BY <1>1, <1>3, <1>4 DEF Inv, TypeOK
<1>6. c # Setup
  BY <1>1, ConnectionAssumption DEF Inv, CallShape, Setup
<1>7. auth'.due = FALSE /\ auth'.exchanges = auth.exchanges /\ s.id < MinReserved
  BY <1>1, <1>2, <1>3 DEF Inv, TypeOK
<1>8. next' < MinReserved
  BY <1>1, <1>2
<1> QED
  BY <1>1, <1>3, <1>4, <1>5, <1>6, <1>7, <1>8, PlainStep

LEMMA NextRoundStep ==
  ASSUME Inv, NEW c \in Everyone, Authenticate(c), call[c].k < Rounds
  PROVE  Inv'
<1> DEFINE s == [pc |-> "register", id |-> call[c].id, x |-> call[c].x, k |-> call[c].k + 1,
                 ans |-> NoAnswer]
<1>1. /\ call[c].k > 0 /\ call[c].ans.kind = "frame" /\ pending' = Released(c)
      /\ UNCHANGED <<conf, next, net, io, auth, left>>
  BY DEF Authenticate, Answered
<1>2. call[c] \in CallStates /\ c \in Calls /\ call[c].k \in Nat /\ HoldsWrite(c)
  BY <1>1 DEF Inv, TypeOK, CallShape, CallStates, HoldsWrite
<1>3. call' = [call EXCEPT ![c] = s]
  BY DEF Authenticate, InRound
<1>4. /\ s \in CallStates /\ s.pc = "register" /\ s.k = call[c].k + 1 /\ s.k > 1
      /\ s.x = call[c].x /\ s.id = call[c].id /\ s.ans = NoAnswer
  BY <1>1, <1>2 DEF CallStates, Steps, Answers, NoAnswer
<1> HIDE DEF s
<1>5. call'[c] = s /\ \A o \in Everyone : o # c => call'[o] = call[o]
  BY <1>3 DEF Inv, TypeOK
<1>6. pending' \subseteq pending /\ Pipeline' = Pipeline /\ Calls \subseteq Everyone
  BY <1>1 DEF Released, Unregister, Pipeline, Everyone
<1>7. TypeOK'
  BY <1>1, <1>3, <1>4, <1>6 DEF Inv, TypeOK
<1>8. IdsApart'
  BY <1>1, <1>4, <1>5, <1>6 DEF Inv, IdsApart
<1>9. CallShape'
  BY <1>1, <1>2, <1>4, <1>5 DEF Inv, CallShape
<1>10. LockHeld'
  BY <1>1, <1>2, <1>4, <1>5, <1>6, ConnectionAssumption
     DEF Inv, LockHeld, HoldsRead, HoldsWrite, Setup, Everyone
<1>11. \A o \in Calls : HoldsWrite(o)' => o = c
  BY <1>2, <1>5, <1>6 DEF Inv, LockHeld, HoldsWrite
<1>12. RequestsFirst'
  BY <1>1, <1>2, <1>4, <1>5, <1>6, <1>11 DEF Inv, FrameInv, RequestsFirst
<1>13. ~io.shutdown => \A i \in DOMAIN Pipeline : ~(Pipeline[i].tag[2] > 0)
  BY <1>1, <1>2 DEF Inv, LockHeld, FrameInv, OneExchangeFrame
<1>14. OneExchangeFrame'
  BY <1>1, <1>6, <1>13 DEF OneExchangeFrame
<1>15. RequestsAnswered'
  BY <1>1, <1>2, <1>4, <1>5, <1>6, <1>11 DEF Inv, FrameInv, RequestsAnswered, NoAnswer
<1> QED
  BY <1>7, <1>8, <1>9, <1>10, <1>12, <1>14, <1>15 DEF Inv, FrameInv

LEMMA TakeTurnStep ==
  ASSUME Inv, NEW c \in Everyone, TakeTurn(c), auth.due
  PROVE  Inv'
<1> DEFINE s == [pc |-> "register", id |-> call[c].id, x |-> auth.exchanges + 1, k |-> 1,
                 ans |-> NoAnswer]
<1>1. /\ call[c].pc = "turn" /\ (\A o \in Calls : ~HoldsRead(o) /\ ~HoldsWrite(o))
      /\ auth' = [auth EXCEPT !.exchanges = @ + 1]
      /\ UNCHANGED <<conf, next, pending, net, io, left>>
  BY DEF TakeTurn
<1>2. call[c] \in CallStates /\ call[c].ans = NoAnswer /\ auth.exchanges \in Nat
  BY <1>1 DEF Inv, TypeOK, CallShape
<1>3. call' = [call EXCEPT ![c] = s]
  BY DEF TakeTurn, InRound
<1>4. /\ s \in CallStates /\ s.pc = "register" /\ s.k = 1 /\ s.x = auth.exchanges + 1
      /\ s.id = call[c].id /\ s.ans = NoAnswer
  BY <1>2 DEF CallStates, Steps
<1> HIDE DEF s
<1>5. /\ auth'.exchanges = auth.exchanges + 1 /\ auth'.due = auth.due
      /\ auth' \in [due : BOOLEAN, dues : Nat, exchanges : Nat]
  <2>1. PICK due \in BOOLEAN, dues \in Nat, n \in Nat :
          auth = [due |-> due, dues |-> dues, exchanges |-> n]
    BY DEF Inv, TypeOK
  <2>2. auth' = [due |-> due, dues |-> dues, exchanges |-> n + 1]
    BY <1>1, <2>1
  <2> QED
    BY <2>1, <2>2
<1>6. call'[c] = s /\ \A o \in Everyone : o # c => call'[o] = call[o]
  BY <1>3 DEF Inv, TypeOK
<1>7. Pipeline' = Pipeline /\ Calls \subseteq Everyone /\ Setup \in Everyone
  BY <1>1 DEF Pipeline, Everyone
<1>8. c \in Calls /\ c # Setup
  BY <1>1 DEF Inv, LockHeld, Everyone
<1>9. TypeOK'
  BY <1>1, <1>3, <1>4, <1>5 DEF Inv, TypeOK
<1>10. IdsApart'
  BY <1>1, <1>4, <1>6, <1>7 DEF Inv, IdsApart
<1>11. CallShape'
  BY <1>2, <1>4, <1>5, <1>6, <1>8 DEF Inv, CallShape
<1>12. \A o \in Calls : /\ HoldsWrite(o)' => o = c
                        /\ ~HoldsRead(o)'
  BY <1>1, <1>4, <1>6, <1>7 DEF HoldsWrite, HoldsRead
<1>13. LockHeld'
  BY <1>1, <1>5, <1>6, <1>7, <1>8, <1>12 DEF Inv, LockHeld
<1>14. \A i \in DOMAIN Pipeline : Pipeline[i].tag[2] \in Nat /\ Pipeline[i].tag[2] <= auth.exchanges
  BY PipelineType DEF Inv, FrameInv, RequestsFirst
<1>15. RequestsFirst'
  BY <1>2, <1>4, <1>5, <1>6, <1>7, <1>12, <1>14 DEF RequestsFirst
<1>16. ~io.shutdown => \A i \in DOMAIN Pipeline : ~(Pipeline[i].tag[2] > 0)
  BY <1>1 DEF Inv, FrameInv, OneExchangeFrame
<1>17. OneExchangeFrame'
  BY <1>1, <1>7, <1>16 DEF OneExchangeFrame
<1>18. RequestsAnswered'
  BY <1>4, <1>6, <1>12 DEF RequestsAnswered, NoAnswer
<1> QED
  BY <1>9, <1>10, <1>11, <1>13, <1>15, <1>17, <1>18 DEF Inv, FrameInv

\* Calls may lose the answer they wait for, and go from the insert to the send.
LEMMA LostAnswers ==
  ASSUME Inv, TypeOK', UNCHANGED <<conf, next, net, auth>>, io'.shutdown = io.shutdown,
         \A e \in pending' : e.tag[2] = 0 <=> e.id < MinReserved,
         \A o \in Everyone :
           /\ call'[o].k = call[o].k /\ call'[o].x = call[o].x /\ call'[o].id = call[o].id
           /\ \/ call'[o].pc = call[o].pc
              \/ call[o].pc = "register" /\ call'[o].pc = "queue"
           /\ \/ call'[o].ans = call[o].ans
              \/ call[o].pc \in {"queue", "wait"} /\ call'[o].ans = Disconnected
  PROVE  Inv'
<1>1. Pipeline' = Pipeline /\ Calls \subseteq Everyone /\ Setup \in Everyone
  BY DEF Pipeline, Everyone
<1>2. \A o \in Calls : /\ HoldsWrite(o)' <=> HoldsWrite(o)
                       /\ HoldsRead(o)' => HoldsRead(o)
                       /\ Tag(o)' = Tag(o)
  BY <1>1 DEF HoldsRead, HoldsWrite, Tag
<1>3. IdsApart'
  BY <1>1 DEF Inv, IdsApart
<1>4. CallShape'
  BY DEF Inv, CallShape
<1>5. LockHeld'
  BY <1>1, <1>2 DEF Inv, LockHeld
<1>6. RequestsFirst'
  BY <1>1, <1>2 DEF Inv, FrameInv, RequestsFirst
<1>7. Disconnected.kind # "frame"
  BY DEF Disconnected
<1>8. OneExchangeFrame'
  BY <1>1, <1>2, <1>7 DEF Inv, FrameInv, OneExchangeFrame
<1>9. RequestsAnswered'
  <2>1. \A o \in Calls : call'[o].ans.kind = "frame" => call'[o].ans = call[o].ans
    BY <1>1, <1>7
  <2>2. \A o \in Calls : call[o].pc = "wait" => call'[o].pc = "wait"
    BY <1>1
  <2> QED
    BY <1>1, <1>2, <2>1, <2>2 DEF Inv, FrameInv, RequestsAnswered
<1> QED
  BY <1>3, <1>4, <1>5, <1>6, <1>8, <1>9 DEF Inv, FrameInv

LEMMA ResolveFields ==
  ASSUME TypeOK, NEW S \in SUBSET Frames, NEW a \in Answers
  PROVE  /\ Resolve(S, a) \in [Everyone -> CallStates]
         /\ \A o \in Everyone : LET r == Resolve(S, a)[o] IN
              /\ r.k = call[o].k /\ r.x = call[o].x /\ r.id = call[o].id /\ r.pc = call[o].pc
              /\ \/ r = call[o]
                 \/ /\ call[o].pc \in {"queue", "wait"} /\ r.ans = a
                    /\ \E e \in S : e.tag = Tag(o)
<1> DEFINE R(o) == [call[o] EXCEPT !.ans = a]
<1>1. \A o \in Everyone : call[o] \in CallStates
  BY DEF TypeOK
<1>2. ASSUME NEW o \in Everyone
      PROVE  /\ R(o) \in CallStates /\ R(o).k = call[o].k /\ R(o).x = call[o].x
             /\ R(o).id = call[o].id /\ R(o).pc = call[o].pc /\ R(o).ans = a
  BY <1>1 DEF CallStates
<1>3. Resolve(S, a) = [o \in Everyone |->
        IF \E e \in S : e.tag = Tag(o) /\ call[o].pc \in {"queue", "wait"}
          THEN R(o) ELSE call[o]]
  BY DEF Resolve
<1> HIDE DEF R
<1> QED
  BY <1>1, <1>2, <1>3

LEMMA NextPc ==
  ASSUME NEW r \in CallStates, NEW p \in Steps
  PROVE  LET v == [r EXCEPT !.pc = p] IN
           /\ v \in CallStates /\ v.pc = p /\ v.k = r.k /\ v.x = r.x /\ v.id = r.id
           /\ v.ans = r.ans
BY DEF CallStates

LEMMA RegisterStep ==
  ASSUME Inv, NEW c \in Everyone, Register(c)
  PROVE  Inv'
<1> DEFINE e == [id |-> FrameId(c), tag |-> Tag(c)]
           R == Resolve(Registered(FrameId(c)), Disconnected)
<1>1. /\ call[c].pc = "register" /\ call' = [R EXCEPT ![c].pc = "queue"]
      /\ pending' = (pending \ Registered(FrameId(c))) \cup {e}
      /\ UNCHANGED <<conf, next, net, io, auth, left>>
  BY DEF Register
<1>2. Disconnected \in Answers /\ Registered(FrameId(c)) \in SUBSET Frames
  BY DEF Disconnected, Answers, Registered, Inv, TypeOK
<1>3. /\ R \in [Everyone -> CallStates]
      /\ \A o \in Everyone :
           /\ R[o].k = call[o].k /\ R[o].x = call[o].x /\ R[o].id = call[o].id
           /\ R[o].pc = call[o].pc
           /\ \/ R[o].ans = call[o].ans
              \/ call[o].pc \in {"queue", "wait"} /\ R[o].ans = Disconnected
  BY <1>2, ResolveFields DEF Inv
<1> HIDE DEF R
<1>4. "queue" \in Steps
  BY DEF Steps
<1>5. PICK r \in CallStates : /\ r = [R[c] EXCEPT !.pc = "queue"] /\ r.pc = "queue"
                              /\ r.k = R[c].k /\ r.x = R[c].x /\ r.id = R[c].id
                              /\ r.ans = R[c].ans
  <2>1. R[c] \in CallStates
    BY <1>3
  <2> QED
    BY <1>4, <2>1, NextPc
<1>6. call' = [R EXCEPT ![c] = r]
  BY <1>1, <1>5
<1>7. call' \in [Everyone -> CallStates] /\ call'[c] = r
      /\ \A o \in Everyone : o # c => call'[o] = R[o]
  BY <1>3, <1>6
<1>8. e.tag = Tag(c) /\ e.id = FrameId(c) /\ FrameId(c) \in Nat /\ Tag(c) \in Tags
      /\ Tag(c)[2] = call[c].x
  BY ConnectionAssumption DEF FrameId, Tag, Tags, ReservedId, Inv, TypeOK, CallStates
<1>9. e \in Frames
  BY <1>8 DEF Frames
<1>10. e.tag[2] = 0 <=> e.id < MinReserved
  <2>1. call[c] \in CallStates /\ call[c].id < MinReserved /\ call[c].x \in Nat
        /\ call[c].k \in Nat
    BY DEF Inv, TypeOK, IdsApart, CallStates
  <2>2. CASE call[c].k = 0
    BY <1>8, <2>1, <2>2 DEF FrameId, Inv, CallShape
  <2>3. CASE call[c].k # 0
    BY <1>8, <2>1, <2>3, ConnectionAssumption DEF FrameId, ReservedId, Inv, CallShape
  <2> QED
    BY <2>2, <2>3
<1> HIDE DEF e
<1>11. TypeOK'
  BY <1>1, <1>7, <1>9 DEF Inv, TypeOK
<1>12. \A d \in pending' : d.tag[2] = 0 <=> d.id < MinReserved
  BY <1>1, <1>10 DEF Inv, IdsApart
<1> QED
  BY <1>1, <1>3, <1>5, <1>7, <1>11, <1>12, LostAnswers

LEMMA DrainStep ==
  ASSUME Inv, ReaderDrains
  PROVE  Inv'
<1>1. /\ io' = [io EXCEPT !.reader = "drained"] /\ pending' = {}
      /\ call' = Resolve(pending, Disconnected) /\ UNCHANGED <<conf, next, net, auth, left>>
  BY DEF ReaderDrains
<1>2. Disconnected \in Answers /\ pending \in SUBSET Frames
  BY DEF Disconnected, Answers, Inv, TypeOK
<1>3. io' \in IoTypes /\ io'.shutdown = io.shutdown
  BY <1>1 DEF Inv, TypeOK, IoTypes
<1>4. /\ call' \in [Everyone -> CallStates]
      /\ \A o \in Everyone :
           /\ call'[o].k = call[o].k /\ call'[o].x = call[o].x /\ call'[o].id = call[o].id
           /\ call'[o].pc = call[o].pc
           /\ \/ call'[o].ans = call[o].ans
              \/ call[o].pc \in {"queue", "wait"} /\ call'[o].ans = Disconnected
  BY <1>1, <1>2, ResolveFields DEF Inv
<1>5. TypeOK'
  BY <1>1, <1>3, <1>4 DEF Inv, TypeOK
<1> QED
  BY <1>1, <1>3, <1>4, <1>5, LostAnswers

\* The frame of a call, as it goes into the map and the queue.
LEMMA FrameOfCall ==
  ASSUME Inv, NEW c \in Everyone
  PROVE  /\ [id |-> FrameId(c), tag |-> Tag(c)] \in Frames
         /\ Tag(c) \in Tags /\ Tag(c)[2] = call[c].x
         /\ call[c].x = 0 <=> FrameId(c) < MinReserved
         /\ call[c].x = 0 <=> call[c].k = 0
<1>1. /\ call[c].k \in Nat /\ call[c].x \in Nat /\ call[c].id \in Nat
      /\ call[c].id < MinReserved
  BY DEF Inv, TypeOK, IdsApart, CallStates
<1>2. Tag(c) \in Tags /\ Tag(c)[2] = call[c].x
  BY <1>1 DEF Tag, Tags
<1>3. call[c].x = 0 <=> call[c].k = 0
  BY <1>1 DEF Inv, CallShape
<1>4. FrameId(c) \in Nat /\ (call[c].x = 0 <=> FrameId(c) < MinReserved)
  BY <1>1, <1>3, ConnectionAssumption DEF FrameId, ReservedId
<1> QED
  BY <1>2, <1>3, <1>4 DEF Frames

\* The frame of a call goes to the end of the pipeline.
LEMMA EnqueueAppends ==
  ASSUME Inv, NEW f \in Frames, net' = [net EXCEPT !.queue = Append(@, f)]
  PROVE  /\ net' \in NetTypes /\ net'.writing = net.writing
         /\ Pipeline' \in Seq(Frames) /\ Len(Pipeline') = Len(Pipeline) + 1
         /\ Pipeline'[Len(Pipeline) + 1] = f
         /\ \A i \in 1..Len(Pipeline) : Pipeline'[i] = Pipeline[i]
<1>1. PICK s \in Seq(Frames), w \in Seq(Frames), q \in Seq(Frames) :
        net = [queue |-> q, writing |-> w, sent |-> s]
  BY DEF Inv, TypeOK, NetTypes
<1>2. net' = [queue |-> Append(q, f), writing |-> w, sent |-> s]
  BY <1>1
<1>3. Pipeline = s \o w \o q /\ Pipeline' = s \o w \o Append(q, f)
  BY <1>1, <1>2 DEF Pipeline
<1>4. Append(q, f) \in Seq(Frames) /\ s \o w \o Append(q, f) = Append(s \o w \o q, f)
  OBVIOUS
<1>5. s \o w \o q \in Seq(Frames)
  OBVIOUS
<1>6. net' \in NetTypes /\ net'.writing = net.writing
  BY <1>1, <1>2, <1>4 DEF NetTypes
<1>7. Pipeline' = Append(Pipeline, f) /\ Pipeline \in Seq(Frames)
  BY <1>3, <1>4, <1>5
<1> QED
  BY <1>6, <1>7

LEMMA EnqueueStep ==
  ASSUME Inv, NEW c \in Everyone, Enqueue(c)
  PROVE  Inv'
<1> DEFINE f == [id |-> FrameId(c), tag |-> Tag(c)]
<1>1. /\ call[c].pc = "queue" /\ net' = [net EXCEPT !.queue = Append(@, f)]
      /\ UNCHANGED <<conf, next, pending, io, auth, left>>
      /\ call' = IF Expects(c) THEN [call EXCEPT ![c].pc = "wait"] ELSE [call EXCEPT ![c] = Done]
  BY DEF Enqueue
<1>2. /\ f \in Frames /\ f.tag = Tag(c) /\ f.tag[2] = call[c].x
      /\ f.tag[2] = 0 <=> f.id < MinReserved
      /\ f.tag[2] = 0 <=> call[c].k = 0
  BY FrameOfCall
<1> HIDE DEF f
<1>3. /\ net' \in NetTypes /\ net'.writing = net.writing
      /\ Pipeline' \in Seq(Frames) /\ Len(Pipeline') = Len(Pipeline) + 1
      /\ Pipeline'[Len(Pipeline) + 1] = f
      /\ \A i \in 1..Len(Pipeline) : Pipeline'[i] = Pipeline[i]
  BY <1>1, <1>2, EnqueueAppends
<1>4. /\ Len(Pipeline) \in Nat /\ DOMAIN Pipeline = 1..Len(Pipeline)
      /\ DOMAIN Pipeline' = 1..(Len(Pipeline) + 1)
  BY <1>3, PipelineType DEF Inv
<1>5. PICK r \in CallStates :
        /\ call' = [call EXCEPT ![c] = r]
        /\ \/ /\ r.pc = "wait" /\ r.k = call[c].k /\ r.x = call[c].x /\ r.id = call[c].id
              /\ r.ans = call[c].ans
           \/ /\ call[c].k = 0 /\ r.pc = "done" /\ r.k = 0 /\ r.x = 0 /\ r.id = 0
              /\ r.ans = NoAnswer
  <2>1. call[c] \in CallStates /\ call[c].k \in Nat /\ "wait" \in Steps
    BY DEF Inv, TypeOK, CallStates, Steps
  <2>2. CASE Expects(c)
    BY <1>1, <2>1, <2>2, NextPc
  <2>3. CASE ~Expects(c)
    <3>1. /\ Done \in CallStates /\ Done.k = 0 /\ Done.x = 0 /\ Done.id = 0
          /\ Done.ans = NoAnswer /\ Done.pc = "done"
      BY DEF Done, Idle, CallStates, Steps, Answers, NoAnswer
    <3>2. call[c].k = 0
      BY <2>1, <2>3 DEF Expects
    <3> QED
      BY <1>1, <2>3, <3>1, <3>2
  <2> QED
    BY <2>2, <2>3
<1>6. call'[c] = r /\ \A o \in Everyone : o # c => call'[o] = call[o]
  BY <1>5 DEF Inv, TypeOK
<1>7. Calls \subseteq Everyone /\ Setup \in Everyone /\ \A o \in Calls : o # Setup
  BY ConnectionAssumption DEF Everyone, Setup
<1>8. \A o \in Calls : /\ HoldsWrite(o)' <=> HoldsWrite(o)
                       /\ HoldsRead(o)' => HoldsRead(o)
                       /\ HoldsWrite(o) => call'[o].x = call[o].x /\ Tag(o)' = Tag(o)
                                           /\ call'[o].ans = call[o].ans
                                           /\ call'[o].k = call[o].k
  BY <1>1, <1>5, <1>6, <1>7 DEF HoldsWrite, HoldsRead, Tag
<1>9. call[c].k = 0 => \A o \in Calls : ~HoldsWrite(o)
  BY <1>1, <1>7 DEF Inv, LockHeld, HoldsRead, Everyone
<1>10. call[c].k # 0 => c \in Calls /\ HoldsWrite(c) /\ call'[c].pc = "wait"
  BY <1>5, <1>6 DEF Inv, TypeOK, CallStates, CallShape, HoldsWrite
<1>11. TypeOK'
  BY <1>1, <1>3, <1>5 DEF Inv, TypeOK
<1>12. IdsApart'
  <2>1. \A i \in DOMAIN Pipeline' : Pipeline'[i].tag[2] = 0 <=> Pipeline'[i].id < MinReserved
    BY <1>2, <1>3, <1>4 DEF Inv, IdsApart
  <2>2. \A o \in Everyone : call'[o].id < MinReserved
    BY <1>5, <1>6, ConnectionAssumption DEF Inv, IdsApart
  <2> QED
    BY <1>1, <2>1, <2>2 DEF Inv, IdsApart
<1>13. CallShape'
  BY <1>1, <1>5, <1>6 DEF Inv, CallShape
<1>14. LockHeld'
  BY <1>1, <1>6, <1>7, <1>8 DEF Inv, LockHeld
<1>15. RequestsFirst'
  <2>1. call[c].x <= auth.exchanges
    BY DEF Inv, TypeOK, CallStates, CallShape
  <2>2. \A i \in DOMAIN Pipeline' : Pipeline'[i].tag[2] <= auth.exchanges
    BY <1>2, <1>3, <1>4, <2>1 DEF Inv, FrameInv, RequestsFirst
  <2>3. ASSUME NEW o \in Calls, HoldsWrite(o),
               NEW i \in DOMAIN Pipeline', NEW j \in DOMAIN Pipeline',
               j <= i, Pipeline'[i].tag[2] = 0
        PROVE  Pipeline'[j].tag[2] # call[o].x
    <3>1. i \in DOMAIN Pipeline /\ j \in DOMAIN Pipeline
      BY <1>2, <1>3, <1>4, <1>9, <2>3
    <3> QED
      BY <1>3, <1>4, <2>3, <3>1 DEF Inv, FrameInv, RequestsFirst
  <2> QED
    BY <1>1, <1>8, <2>2, <2>3 DEF RequestsFirst
<1>16. OneExchangeFrame'
  <2> SUFFICES ASSUME ~io.shutdown
               PROVE  /\ \A i \in DOMAIN Pipeline' : Pipeline'[i].tag[2] > 0 =>
                           \E o \in Calls : /\ HoldsWrite(o)' /\ Pipeline'[i].tag = Tag(o)'
                                            /\ call'[o].pc = "wait"
                                            /\ call'[o].ans.kind # "frame"
                      /\ \A i, j \in DOMAIN Pipeline' :
                           Pipeline'[i].tag[2] > 0 /\ Pipeline'[j].tag[2] > 0 => i = j
    BY <1>1 DEF OneExchangeFrame
  <2>1. CASE call[c].k = 0
    <3>1. \A i \in DOMAIN Pipeline' : ~(Pipeline'[i].tag[2] > 0)
      BY <1>2, <1>3, <1>4, <1>9, <2>1 DEF Inv, FrameInv, OneExchangeFrame
    <3> QED
      BY <3>1
  <2>2. CASE call[c].k # 0
    <3>1. \A i \in DOMAIN Pipeline : ~(Pipeline[i].tag[2] > 0)
      BY <1>1, <1>10, <2>2 DEF Inv, LockHeld, FrameInv, OneExchangeFrame
    <3>2. call[c].ans.kind # "frame"
      BY <1>1, <1>10, <2>2 DEF Inv, FrameInv, RequestsAnswered
    <3>3. \A i \in DOMAIN Pipeline' : Pipeline'[i].tag[2] > 0 => i = Len(Pipeline) + 1
      BY <1>3, <1>4, <3>1
    <3> QED
      BY <1>2, <1>3, <1>8, <1>10, <2>2, <3>2, <3>3
  <2> QED
    BY <2>1, <2>2
<1>17. RequestsAnswered'
  <2>1. ASSUME NEW o \in Calls, HoldsWrite(o), \A i \in DOMAIN Pipeline : Pipeline[i].tag[2] # 0
        PROVE  \A i \in DOMAIN Pipeline' : Pipeline'[i].tag[2] # 0
    BY <1>2, <1>3, <1>4, <1>9, <2>1
  <2>2. \A o \in Calls : HoldsWrite(o) /\ call[o].pc = "wait" => call'[o].pc = "wait"
    BY <1>1, <1>6, <1>7
  <2> QED
    BY <1>1, <1>8, <2>1, <2>2 DEF Inv, FrameInv, RequestsAnswered
<1> QED
  BY <1>11, <1>12, <1>13, <1>14, <1>15, <1>16, <1>17 DEF Inv, FrameInv

\* The reader takes the first frame of the pipeline.
LEMMA ReaderTakesFirst ==
  ASSUME TypeOK, ReaderReads
  PROVE  /\ net' \in NetTypes /\ Len(net'.writing) <= 1
         /\ 1 \in DOMAIN Pipeline /\ Pipeline[1] = Head(net.sent)
         /\ DOMAIN Pipeline' \subseteq Nat /\ DOMAIN Pipeline \subseteq Nat
         /\ \A i \in DOMAIN Pipeline' : /\ i + 1 \in DOMAIN Pipeline
                                        /\ Pipeline'[i] = Pipeline[i + 1]
<1>1. PICK s \in Seq(Frames), w \in Seq(Frames), q \in Seq(Frames) :
        net = [queue |-> q, writing |-> w, sent |-> s] /\ Len(w) <= 1
  BY DEF TypeOK, NetTypes
<1>2. net' = [queue |-> q, writing |-> w, sent |-> Tail(s)] /\ s # <<>>
  BY <1>1 DEF ReaderReads
<1>3. Pipeline = s \o w \o q /\ Pipeline' = Tail(s) \o w \o q /\ net.sent = s
  BY <1>1, <1>2 DEF Pipeline
<1>4. Tail(s) \in Seq(Frames)
  BY <1>2, FirstOfSeq
<1>5. /\ Len(Pipeline) > 0 /\ Pipeline[1] = Head(s)
      /\ \A i \in 1..Len(Pipeline') : /\ i + 1 \in 1..Len(Pipeline)
                                      /\ Pipeline'[i] = Pipeline[i + 1]
  BY <1>2, <1>3, DropFirst
<1>6. Pipeline \in Seq(Frames) /\ Pipeline' \in Seq(Frames)
  BY <1>3, <1>4, ThreeParts
<1>7. /\ DOMAIN Pipeline = 1..Len(Pipeline) /\ Len(Pipeline) \in Nat
      /\ DOMAIN Pipeline' = 1..Len(Pipeline') /\ Len(Pipeline') \in Nat
  BY <1>6
<1>8. net' \in NetTypes /\ Len(net'.writing) <= 1
  BY <1>1, <1>2, <1>4 DEF NetTypes
<1>9. 1 \in DOMAIN Pipeline /\ DOMAIN Pipeline \subseteq Nat /\ DOMAIN Pipeline' \subseteq Nat
  BY <1>5, <1>7
<1>10. \A i \in DOMAIN Pipeline' : i + 1 \in DOMAIN Pipeline /\ Pipeline'[i] = Pipeline[i + 1]
  BY <1>5, <1>7
<1> QED
  BY <1>3, <1>5, <1>8, <1>9, <1>10

LEMMA ReaderReadsStep ==
  ASSUME Inv, ReaderReads
  PROVE  Inv'
<1> DEFINE h == Pipeline[1]
           S == Registered(h.id)
<1>1. /\ net' \in NetTypes /\ Len(net'.writing) <= 1
      /\ 1 \in DOMAIN Pipeline /\ h = Head(net.sent)
      /\ DOMAIN Pipeline' \subseteq Nat /\ DOMAIN Pipeline \subseteq Nat
      /\ \A i \in DOMAIN Pipeline' : i + 1 \in DOMAIN Pipeline /\ Pipeline'[i] = Pipeline[i + 1]
  BY ReaderTakesFirst DEF Inv
<1>2. /\ call' = Resolve(S, Answer(h.tag)) /\ pending' = pending \ S
      /\ UNCHANGED <<conf, next, io, auth, left>>
  BY <1>1 DEF ReaderReads
<1>3. /\ h \in Frames /\ h.tag \in Tags /\ S \in SUBSET Frames
      /\ \A i \in DOMAIN Pipeline : Pipeline[i].tag[2] \in Nat
  BY <1>1, PipelineType DEF Inv, TypeOK, Registered, Frames
<1>4. /\ Answer(h.tag) \in Answers /\ Answer(h.tag).tag = h.tag
  BY <1>3 DEF Answer, Answers
<1>5. /\ call' \in [Everyone -> CallStates]
      /\ \A o \in Everyone :
           /\ call'[o].k = call[o].k /\ call'[o].x = call[o].x /\ call'[o].id = call[o].id
           /\ call'[o].pc = call[o].pc
           /\ \/ call'[o] = call[o]
              \/ /\ call[o].pc \in {"queue", "wait"} /\ call'[o].ans = Answer(h.tag)
                 /\ \E e \in S : e.tag = Tag(o)
  <2>1. /\ call' = Resolve(S, Answer(h.tag)) /\ Answer(h.tag) \in Answers
        /\ S \in SUBSET Frames /\ TypeOK
    BY <1>2, <1>3, <1>4 DEF Inv
  <2> HIDE DEF S, h
  <2>2. /\ Resolve(S, Answer(h.tag)) \in [Everyone -> CallStates]
        /\ \A o \in Everyone : LET r == Resolve(S, Answer(h.tag))[o] IN
             /\ r.k = call[o].k /\ r.x = call[o].x /\ r.id = call[o].id /\ r.pc = call[o].pc
             /\ \/ r = call[o]
                \/ /\ call[o].pc \in {"queue", "wait"} /\ r.ans = Answer(h.tag)
                   /\ \E e \in S : e.tag = Tag(o)
    BY <2>1, ResolveFields
  <2> QED
    BY <2>1, <2>2
<1>6. Calls \subseteq Everyone /\ Setup \in Everyone
  BY DEF Everyone
<1>7. \A o \in Calls : /\ HoldsWrite(o)' <=> HoldsWrite(o)
                       /\ HoldsRead(o)' <=> HoldsRead(o)
                       /\ Tag(o)' = Tag(o)
  BY <1>2, <1>5, <1>6 DEF HoldsRead, HoldsWrite, Tag
<1>8. ASSUME NEW o \in Calls, HoldsWrite(o), call'[o] # call[o]
      PROVE  h.tag[2] > 0 /\ call'[o].ans = Answer(h.tag)
  <2>1. PICK e \in S : e.tag = Tag(o)
    BY <1>5, <1>6, <1>8
  <2>2. e \in pending /\ e.id = h.id
    BY DEF Registered
  <2>3. e.tag[2] = call[o].x /\ call[o].x # 0
    <3>1. o \in Everyone /\ call[o].k > 0
      BY <1>6, <1>8 DEF HoldsWrite
    <3>2. Tag(o)[2] = call[o].x /\ (call[o].x = 0 <=> call[o].k = 0)
      BY <3>1, FrameOfCall
    <3> QED
      BY <2>1, <3>1, <3>2
  <2> QED
    BY <1>1, <1>3, <1>5, <1>6, <1>8, <2>2, <2>3 DEF Inv, IdsApart
<1>9. ASSUME ~io.shutdown, h.tag[2] > 0
      PROVE  /\ \A i \in DOMAIN Pipeline' : ~(Pipeline'[i].tag[2] > 0)
             /\ \E o \in Calls : HoldsWrite(o) /\ h.tag = Tag(o) /\ call[o].pc = "wait"
  BY <1>1, <1>9 DEF Inv, FrameInv, OneExchangeFrame
<1>10. TypeOK'
  BY <1>1, <1>2, <1>5 DEF Inv, TypeOK
<1>11. IdsApart'
  BY <1>1, <1>2, <1>5 DEF Inv, IdsApart
<1>12. CallShape'
  BY <1>2, <1>5 DEF Inv, CallShape
<1>13. LockHeld'
  BY <1>2, <1>5, <1>6, <1>7 DEF Inv, LockHeld
<1>14. RequestsFirst'
  <2>1. \A i \in DOMAIN Pipeline' : Pipeline'[i].tag[2] <= auth.exchanges
    BY <1>1 DEF Inv, FrameInv, RequestsFirst
  <2>2. \A i, j \in DOMAIN Pipeline' : j <= i => j + 1 <= i + 1
    BY <1>1
  <2> QED
    BY <1>1, <1>2, <1>5, <1>6, <1>7, <2>1, <2>2 DEF Inv, FrameInv, RequestsFirst
<1>15. OneExchangeFrame'
  <2>1. CASE h.tag[2] > 0
    BY <1>2, <1>9, <2>1 DEF OneExchangeFrame
  <2>2. CASE ~(h.tag[2] > 0)
    <3>1. \A o \in Calls : HoldsWrite(o) => call'[o] = call[o]
      BY <1>8, <2>2
    <3>2. \A i, j \in DOMAIN Pipeline' : i + 1 = j + 1 => i = j
      BY <1>1
    <3> QED
      BY <1>1, <1>2, <1>7, <3>1, <3>2 DEF Inv, FrameInv, OneExchangeFrame
  <2> QED
    BY <2>1, <2>2
<1>16. RequestsAnswered'
  <2> SUFFICES ASSUME ~io.shutdown, NEW o \in Calls, HoldsWrite(o)
               PROVE  /\ call'[o].ans.kind = "frame" =>
                           call'[o].pc = "wait" /\ call'[o].ans.tag = Tag(o)
                      /\ call'[o].k > 1 \/ call'[o].ans.kind = "frame" =>
                           \A i \in DOMAIN Pipeline' : Pipeline'[i].tag[2] # 0
    BY <1>2, <1>7 DEF RequestsAnswered
  <2>1. CASE call'[o] = call[o]
    BY <1>1, <2>1 DEF Inv, FrameInv, RequestsAnswered
  <2>2. CASE call'[o] # call[o]
    <3>1. h.tag[2] > 0 /\ call'[o].ans = Answer(h.tag)
      BY <1>8, <2>2
    <3>2. h.tag = Tag(o) /\ call[o].pc = "wait"
      BY <1>9, <3>1 DEF Inv, LockHeld
    <3>3. h.tag[2] = call[o].x
      BY <1>6, <3>2, FrameOfCall
    <3>4. \A i \in DOMAIN Pipeline : 1 <= i
      BY PipelineType DEF Inv
    <3>5. \A i \in DOMAIN Pipeline : Pipeline[i].tag[2] # 0
      BY <1>1, <3>3, <3>4 DEF Inv, FrameInv, RequestsFirst
    <3> QED
      BY <1>1, <1>4, <1>5, <1>6, <3>1, <3>2, <3>5
  <2> QED
    BY <2>1, <2>2
<1> QED
  BY <1>10, <1>11, <1>12, <1>13, <1>14, <1>15, <1>16 DEF Inv, FrameInv

\* The writer, the end of the reader, time, the peer and the owner of the connection.
LEMMA QuietActions ==
  ASSUME Inv,
         \/ Writer \/ WriterFails \/ ReaderStops \/ ReaderEof
         \/ DueTime \/ PeerStalls \/ Close
  PROVE  Inv'
<1>1. io \in IoTypes /\ left \in Nat /\ TypeOK
  BY DEF Inv, TypeOK
<1>2. ASSUME UNCHANGED <<conf, call, next, pending>>, left' \in Nat, io' \in IoTypes,
             io.shutdown => io'.shutdown, auth' = auth,
             net' = net \/ WriterTake \/ WriterWrite \/ WriterBreaks \/ WriterDrops
      PROVE  Inv'
  <2>1. net' \in NetTypes /\ Len(net'.writing) <= 1 /\ Thinned(Pipeline, Pipeline')
    <3>1. CASE net' = net
      <4>1. Pipeline' = Pipeline /\ Pipeline \in Seq(Frames)
        BY <1>1, <3>1, PipelineType DEF Pipeline
      <4> QED
        BY <1>1, <3>1, <4>1, SameIsThinned DEF TypeOK
    <3>2. CASE WriterTake \/ WriterWrite \/ WriterBreaks \/ WriterDrops
      BY <1>1, <3>2, TasksThin
    <3> QED
      BY <1>2, <3>1, <3>2
  <2>2. TypeOK'
    BY <1>2, <2>1 DEF Inv, TypeOK
  <2>3. auth.due => conf.reauth /\ call[Setup].pc = "done"
    BY DEF Inv, LockHeld
  <2> QED
    BY <1>2, <2>1, <2>2, <2>3, QuietStep
<1>3. CASE WriterTake \/ WriterWrite
  <2>1. UNCHANGED <<conf, call, next, pending, io, auth, left>>
    BY <1>3 DEF WriterTake, WriterWrite
  <2> QED
    BY <1>1, <1>2, <1>3, <2>1
<1>4. CASE WriterStops \/ WriterIdle \/ WriterFails
  <2>1. /\ WriterBreaks /\ UNCHANGED <<conf, call, next, pending, auth>> /\ left' \in Nat
        /\ io' = [io EXCEPT !.writer = "stopped", !.shutdown = TRUE]
    BY <1>1, <1>4 DEF WriterStops, WriterIdle, WriterFails, WriterBreaks, Spend
  <2>2. io' \in IoTypes /\ io'.shutdown
    BY <1>1, <2>1 DEF IoTypes
  <2> QED
    BY <1>2, <2>1, <2>2
<1>5. CASE WriterDrops
  <2>1. /\ UNCHANGED <<conf, call, next, pending, auth, left>>
        /\ io' = [io EXCEPT !.writer = "dropped"]
    BY <1>5 DEF WriterDrops
  <2>2. io' \in IoTypes /\ io'.shutdown = io.shutdown
    BY <1>1, <2>1 DEF IoTypes
  <2> QED
    BY <1>1, <1>2, <1>5, <2>1, <2>2
<1>6. CASE ReaderStops \/ ReaderEof
  <2>1. /\ UNCHANGED <<conf, call, next, pending, net, auth>> /\ left' \in Nat
        /\ io' = [io EXCEPT !.reader = "stopped", !.shutdown = TRUE]
    BY <1>1, <1>6 DEF ReaderStops, ReaderEof, ReaderBreaks, Spend
  <2>2. io' \in IoTypes /\ io'.shutdown
    BY <1>1, <2>1 DEF IoTypes
  <2> QED
    BY <1>2, <2>1, <2>2
<1>7. CASE PeerStalls \/ Close
  <2>1. /\ UNCHANGED <<conf, call, next, pending, net, auth>> /\ left' \in Nat
        /\ \/ io' = [io EXCEPT !.stalled = TRUE] \/ io' = [io EXCEPT !.shutdown = TRUE]
           \/ io' = [io EXCEPT !.handle = FALSE]
    BY <1>1, <1>7 DEF PeerStalls, Close, Spend
  <2>2. io' \in IoTypes /\ (io.shutdown => io'.shutdown)
    BY <1>1, <2>1 DEF IoTypes
  <2> QED
    BY <1>2, <2>1, <2>2
<1>8. CASE DueTime
  <2>1. /\ UNCHANGED <<conf, call, next, pending, net, io, left>>
        /\ conf.reauth /\ call[Setup].pc = "done" /\ ~auth.due
        /\ auth' = [auth EXCEPT !.due = TRUE, !.dues = @ + 1]
    BY <1>8 DEF DueTime
  <2>2. PICK due \in BOOLEAN, dues \in Nat, n \in Nat :
          auth = [due |-> due, dues |-> dues, exchanges |-> n]
    BY <1>1 DEF TypeOK
  <2>3. auth' = [due |-> TRUE, dues |-> dues + 1, exchanges |-> n]
    BY <2>1, <2>2
  <2>4. /\ auth' \in [due : BOOLEAN, dues : Nat, exchanges : Nat]
        /\ auth'.exchanges = auth.exchanges
    BY <2>2, <2>3
  <2>5. TypeOK'
    BY <1>1, <2>1, <2>4 DEF TypeOK
  <2>6. Pipeline' = Pipeline /\ Pipeline \in Seq(Frames)
    BY <1>1, <2>1, PipelineType DEF Pipeline
  <2>7. Thinned(Pipeline, Pipeline')
    BY <2>6, SameIsThinned
  <2> QED
    BY <2>1, <2>4, <2>5, <2>7, QuietStep
<1> QED
  BY <1>3, <1>4, <1>5, <1>6, <1>7, <1>8 DEF Writer

LEMMA InvStep == NoCancelledExchange /\ Inv /\ [Next]_vars => Inv'
<1> SUFFICES ASSUME NoCancelledExchange, Inv, [Next]_vars PROVE Inv'
  OBVIOUS
<1>1. CASE UNCHANGED vars
  <2>1. UNCHANGED <<conf, call, next, pending, net, io, auth, left>>
    BY <1>1 DEF vars
  <2>2. TypeOK'
    BY <2>1 DEF Inv, TypeOK
  <2>3. Pipeline' = Pipeline /\ Pipeline \in Seq(Frames)
    BY <2>1, PipelineType DEF Pipeline, Inv
  <2>4. Thinned(Pipeline, Pipeline')
    BY <2>3, SameIsThinned
  <2>5. auth.due => conf.reauth /\ call[Setup].pc = "done"
    BY DEF Inv, LockHeld
  <2> QED
    BY <2>1, <2>2, <2>4, <2>5, QuietStep
<1>2. ASSUME NEW c \in Everyone, Start(c) PROVE Inv'
  BY <1>2, StartStep
<1>3. ASSUME NEW c \in Everyone, Check(c) \/ TakeTurn(c) PROVE Inv'
  BY <1>3, CheckStep, TakeTurnStep
<1>4. ASSUME NEW c \in Everyone, Register(c) PROVE Inv'
  BY <1>4, RegisterStep
<1>5. ASSUME NEW c \in Everyone, Enqueue(c) PROVE Inv'
  BY <1>5, EnqueueStep
<1>6. ASSUME NEW c \in Everyone, Authenticate(c) PROVE Inv'
  BY <1>6, LastRoundStep, NextRoundStep
<1>7. ASSUME NEW c \in Everyone,
             Disconnects(c) \/ Timeout(c) \/ Returns(c) \/ Cancel(c) \/ Reject(c)
      PROVE  Inv'
  BY <1>7, EndActions
<1>8. CASE SetupAnswered
  BY <1>8, SetupStep
<1>9. CASE Writer \/ WriterFails \/ ReaderStops \/ ReaderEof \/ DueTime \/ PeerStalls \/ Close
  BY <1>9, QuietActions
<1>10. CASE ReaderReads
  BY <1>10, ReaderReadsStep
<1>11. CASE ReaderDrains
  BY <1>11, DrainStep
<1> QED
  BY <1>1, <1>2, <1>3, <1>4, <1>5, <1>6, <1>7, <1>8, <1>9, <1>10, <1>11
     DEF Next, Waits, Reader

-----------------------------------------------------------------------------
(* The theorems.                                                           *)

\* The inductive invariant holds in every state, unless a caller may drop a call in the middle
\* of an exchange.
THEOREM Invariance == NoCancelledExchange => (Spec => []Inv)
<1> SUFFICES ASSUME NoCancelledExchange PROVE Spec => []Inv
  OBVIOUS
<1>1. Init => Inv
  BY InitInv
<1>2. Inv /\ [Next]_vars => Inv'
  BY InvStep
<1> QED
  BY <1>1, <1>2, PTL DEF Spec

\* No request goes out between the frames of an exchange (Reauth.next, connection.rs
\* reauthenticate_if_due), unless a caller may drop a call in the middle of one.
THEOREM ExchangeNeverInterrupted ==
  NoCancelledExchange => (Spec => []ExchangeUninterrupted)
<1> SUFFICES ASSUME NoCancelledExchange PROVE Spec => []ExchangeUninterrupted
  OBVIOUS
<1>1. Spec => []Inv
  BY Invariance
<1>2. ASSUME Inv PROVE ExchangeUninterrupted
  <2>1. DOMAIN Pipeline = 1..Len(Pipeline) /\ Len(Pipeline) \in Nat
    BY <1>2, PipelineType DEF Inv
  <2>2. \A c \in Calls : HoldsWrite(c) => call[c].k \in Nat /\ call[c].k > 0
    BY <1>2 DEF Inv, TypeOK, CallStates, HoldsWrite, Everyone
  <2>3. ASSUME NEW c \in Calls, HoldsWrite(c), NEW i \in DOMAIN Pipeline, Pipeline[i].tag[2] = 0
        PROVE  call[c].k = 1 \/ io.shutdown
    BY <1>2, <2>2, <2>3 DEF Inv, FrameInv, RequestsAnswered
  <2>4. ASSUME NEW c \in Calls, HoldsWrite(c), NEW i \in DOMAIN Pipeline, Pipeline[i].tag[2] = 0,
               NEW j \in 1..i
        PROVE  Pipeline[j].tag[2] # call[c].x
    <3>1. j \in DOMAIN Pipeline /\ j <= i
      BY <2>1, <2>4
    <3> QED
      BY <1>2, <2>4, <3>1 DEF Inv, FrameInv, RequestsFirst
  <2> QED
    BY <2>3, <2>4 DEF ExchangeUninterrupted
<1> QED
  BY <1>1, <1>2, PTL

-----------------------------------------------------------------------------
(* Answers.  A connection has fewer calls than ids, so that no id is given  *)
(* twice; the code has 2^31 - 8 of them.                                     *)

FewRequests ==
  /\ IsFiniteSet(Calls)
  /\ \A cf \in Confs : Cardinality(Calls) + cf.budget + 1 < MinReserved

IdleCalls == {c \in Calls : call[c].pc = "idle"}

Active(c) == call[c].pc \notin {"idle", "done"}

Request(c) == <<c, 0, 0>>

\* The ids given so far: next counts the calls that started and the retries of the setup.
NextCounts ==
  next + left + Cardinality(IdleCalls) <= 1 + conf.budget + Cardinality(Calls)

IdsDiffer ==
  /\ \A c \in Everyone : Active(c) =>
       /\ call[c].id < next
       /\ \A o \in Everyone : Active(o) /\ call[o].id = call[c].id => o = c
       /\ \A i \in DOMAIN Pipeline :
            Pipeline[i].id = call[c].id => Pipeline[i].tag = Request(c)
  /\ \A i \in DOMAIN Pipeline : Pipeline[i].tag[2] = 0 => Pipeline[i].id < next

\* A registration is of a call that waits under its id.
RegistrationFits ==
  \A e \in pending, c \in Everyone : e.tag = Request(c) /\ call[c].pc # "done" =>
    /\ call[c].k = 0 /\ call[c].pc \in {"queue", "wait"}
    /\ call[c].ans.kind # "frame" /\ e.id = call[c].id

RequestAnswerIsOwn ==
  \A c \in Everyone :
    call[c].k = 0 /\ call[c].ans.kind = "frame" => call[c].ans.tag = Request(c)

IdInv == NextCounts /\ IdsDiffer /\ RegistrationFits /\ RequestAnswerIsOwn

LEMMA InitIds == FewRequests /\ Init => IdInv
<1> SUFFICES ASSUME FewRequests, Init PROVE IdInv
  OBVIOUS
<1>1. DOMAIN Pipeline = {} /\ pending = {} /\ next = 1 /\ left = conf.budget
  BY DEF Init, Pipeline
<1>2. /\ \A c \in Calls : call[c] = Idle
      /\ \A c \in Everyone : /\ call[c].ans = NoAnswer /\ call[c].id = 0
                             /\ Active(c) => c = Setup
  BY ConnectionAssumption DEF Init, Everyone, Setup, Idle, Active
<1>3. IdleCalls = Calls
  BY <1>2 DEF IdleCalls, Idle
<1>4. NextCounts
  <2>1. conf.budget \in Nat /\ Cardinality(Calls) \in Nat
    BY ConnectionAssumption, FS_CardinalityType DEF Init, FewRequests
  <2> QED
    BY <1>1, <1>3, <2>1 DEF NextCounts
<1> QED
  BY <1>1, <1>2, <1>4 DEF IdInv, IdsDiffer, RegistrationFits, RequestAnswerIsOwn, NoAnswer

\* Steps that give no id.
LEMMA CountKept ==
  ASSUME Inv, Inv', NextCounts, next' = next, conf' = conf, left' <= left,
         IsFiniteSet(Calls), \A c \in Calls : call'[c].pc = "idle" <=> call[c].pc = "idle"
  PROVE  NextCounts'
<1>1. IdleCalls' = IdleCalls
  BY DEF IdleCalls
<1>2. Cardinality(IdleCalls) \in Nat /\ Cardinality(Calls) \in Nat
  BY FS_Subset, FS_CardinalityType DEF IdleCalls
<1>3. next \in Nat /\ left \in Nat /\ left' \in Nat /\ conf.budget \in Nat
  BY ConnectionAssumption DEF Inv, TypeOK
<1> QED
  BY <1>1, <1>2, <1>3 DEF NextCounts

\* A call that starts, and a setup that tries again, is given an id that nobody has.
LEMMA IdIsFresh ==
  ASSUME Inv, NextCounts, FewRequests,
         left > 0 \/ \E c \in Calls : call[c].pc = "idle"
  PROVE  NextCorrelationId = next + 1
<1>1. IsFiniteSet(IdleCalls) /\ Cardinality(IdleCalls) \in Nat /\ Cardinality(Calls) \in Nat
  BY FS_Subset, FS_CardinalityType DEF IdleCalls, FewRequests
<1>2. next \in Nat /\ left \in Nat /\ conf \in Confs /\ conf.budget \in Nat
  BY ConnectionAssumption DEF Inv, TypeOK
<1>3. (\E c \in Calls : call[c].pc = "idle") => Cardinality(IdleCalls) > 0
  BY <1>1, FS_EmptySet DEF IdleCalls
<1>4. left + Cardinality(IdleCalls) > 0
  BY <1>1, <1>2, <1>3
<1>5. next < MinReserved - 1
  BY <1>1, <1>2, <1>4, ConnectionAssumption DEF NextCounts, FewRequests
<1> QED
  BY <1>2, <1>5, ConnectionAssumption DEF NextCorrelationId

\* A step that leaves the calls alone and may take frames out of the pipeline.
LEMMA IdQuiet ==
  ASSUME Inv, Inv', IdInv, IsFiniteSet(Calls), UNCHANGED <<conf, call, next>>,
         left' <= left, pending' \subseteq pending, Thinned(Pipeline, Pipeline')
  PROVE  IdInv'
<1>1. \A i \in DOMAIN Pipeline' : \E j \in DOMAIN Pipeline : Pipeline'[i] = Pipeline[j]
  BY DEF Thinned
<1>2. NextCounts'
  BY CountKept DEF IdInv
<1>3. IdsDiffer'
  BY <1>1 DEF IdInv, IdsDiffer, Active
<1>4. RegistrationFits' /\ RequestAnswerIsOwn'
  BY DEF IdInv, RegistrationFits, RequestAnswerIsOwn
<1> QED
  BY <1>2, <1>3, <1>4 DEF IdInv

\* A step of one call that ends it, or that keeps its id and finds no registration of it.
LEMMA IdPlain ==
  ASSUME Inv, Inv', IdInv, IsFiniteSet(Calls), NEW c \in Everyone, NEW s \in CallStates,
         call' = [call EXCEPT ![c] = s], s.ans = NoAnswer, s.pc # "idle", Active(c),
         \/ s.pc = "done"
         \/ /\ s.id = call[c].id
            /\ call[c].k # 0 \/ call[c].pc \notin {"queue", "wait"} \/ call[c].ans.kind = "frame",
         UNCHANGED <<conf, next, net>>, left' <= left, pending' \subseteq pending
  PROVE  IdInv'
<1>1. call'[c] = s /\ \A o \in Everyone : o # c => call'[o] = call[o]
  BY DEF Inv, TypeOK
<1>2. Pipeline' = Pipeline /\ Calls \subseteq Everyone
  BY DEF Pipeline, Everyone
<1>3. \A o \in Calls : call'[o].pc = "idle" <=> call[o].pc = "idle"
  BY <1>1, <1>2 DEF Active
<1>4. NextCounts'
  BY <1>3, CountKept DEF IdInv
<1>5. \A o \in Everyone : Active(o)' => Active(o) /\ call'[o].id = call[o].id
  BY <1>1 DEF Active
<1>6. IdsDiffer'
  BY <1>2, <1>5 DEF IdInv, IdsDiffer
<1>7. RegistrationFits'
  BY <1>1 DEF IdInv, RegistrationFits, Active
<1>8. RequestAnswerIsOwn'
  BY <1>1 DEF IdInv, RequestAnswerIsOwn, NoAnswer
<1> QED
  BY <1>4, <1>6, <1>7, <1>8 DEF IdInv

\* A step that gives the next id to a call without a registration.
LEMMA IdFresh ==
  ASSUME Inv, Inv', IdInv, NEW c \in Everyone, NEW s \in CallStates,
         call' = [call EXCEPT ![c] = s], s.ans = NoAnswer, s.id = next, next' = next + 1,
         call[c].pc = "idle" \/ (Active(c) /\ call[c].ans.kind = "frame"),
         UNCHANGED <<conf, net>>, pending' = pending, NextCounts'
  PROVE  IdInv'
<1>1. call'[c] = s /\ \A o \in Everyone : o # c => call'[o] = call[o]
  BY DEF Inv, TypeOK
<1>2. Pipeline' = Pipeline /\ next \in Nat
  BY DEF Pipeline, Inv, TypeOK
<1>3. \A o \in Everyone : call[o].id \in Nat
  BY DEF Inv, TypeOK, CallStates
<1>4. \A i \in DOMAIN Pipeline : /\ Pipeline[i].id \in Nat
                                 /\ Pipeline[i].tag[2] = 0 <=> Pipeline[i].id < MinReserved
  BY PipelineType DEF Inv, IdsApart, Frames
<1>5. \A i \in DOMAIN Pipeline : Pipeline[i].id # next
  BY <1>2, <1>4 DEF IdInv, IdsDiffer, Inv, IdsApart
<1>6. IdsDiffer'
  <2>1. ASSUME NEW o \in Everyone, Active(o)'
        PROVE  /\ call'[o].id < next'
               /\ \A n \in Everyone : Active(n)' /\ call'[n].id = call'[o].id => n = o
               /\ \A i \in DOMAIN Pipeline' :
                    Pipeline'[i].id = call'[o].id => Pipeline'[i].tag = Request(o)
    <3>1. CASE o = c
      BY <1>1, <1>2, <1>3, <1>5, <3>1 DEF IdInv, IdsDiffer, Active
    <3>2. CASE o # c
      BY <1>1, <1>2, <1>3, <2>1, <3>2 DEF IdInv, IdsDiffer, Active
    <3> QED
      BY <3>1, <3>2
  <2>2. \A i \in DOMAIN Pipeline' : Pipeline'[i].tag[2] = 0 => Pipeline'[i].id < next'
    BY <1>2, <1>4 DEF IdInv, IdsDiffer
  <2> QED
    BY <2>1, <2>2 DEF IdsDiffer
<1>7. RegistrationFits'
  BY <1>1 DEF IdInv, RegistrationFits, Active
<1>8. RequestAnswerIsOwn'
  BY <1>1 DEF IdInv, RequestAnswerIsOwn, NoAnswer
<1> QED
  BY <1>6, <1>7, <1>8 DEF IdInv
\* A step after which the calls do what they did, with the same ids, and no frame is new.
LEMMA IdsKept ==
  ASSUME Inv, Inv', IdInv, IsFiniteSet(Calls), UNCHANGED <<conf, next>>, left' <= left,
         \A o \in Everyone :
           /\ call'[o].id = call[o].id
           /\ call'[o].pc = call[o].pc \/ (call[o].pc = "register" /\ call'[o].pc = "queue"),
         \A i \in DOMAIN Pipeline' : \E j \in DOMAIN Pipeline : Pipeline'[i] = Pipeline[j]
  PROVE  NextCounts' /\ IdsDiffer'
<1>1. \A o \in Calls : call'[o].pc = "idle" <=> call[o].pc = "idle"
  BY DEF Everyone
<1>2. NextCounts'
  BY <1>1, CountKept DEF IdInv
<1>3. \A o \in Everyone : Active(o)' => Active(o) /\ call'[o].id = call[o].id
  BY DEF Active
<1>4. IdsDiffer'
  BY <1>3 DEF IdInv, IdsDiffer
<1> QED
  BY <1>2, <1>4

LEMMA IdDrain ==
  ASSUME Inv, Inv', IdInv, IsFiniteSet(Calls), ReaderDrains
  PROVE  IdInv'
<1>1. /\ pending' = {} /\ call' = Resolve(pending, Disconnected)
      /\ UNCHANGED <<conf, next, net, left>>
  BY DEF ReaderDrains
<1>2. Disconnected \in Answers /\ pending \in SUBSET Frames /\ left \in Nat
  BY DEF Disconnected, Answers, Inv, TypeOK
<1>3. \A o \in Everyone :
        /\ call'[o].k = call[o].k /\ call'[o].id = call[o].id /\ call'[o].pc = call[o].pc
        /\ call'[o].ans = call[o].ans \/ call'[o].ans = Disconnected
  BY <1>1, <1>2, ResolveFields DEF Inv
<1>4. Pipeline' = Pipeline
  BY <1>1 DEF Pipeline
<1>5. left' <= left
  BY <1>1, <1>2
<1>6. NextCounts' /\ IdsDiffer'
  BY <1>1, <1>3, <1>4, <1>5, IdsKept
<1>7. RegistrationFits' /\ RequestAnswerIsOwn'
  BY <1>1, <1>3 DEF IdInv, RegistrationFits, RequestAnswerIsOwn, Disconnected
<1> QED
  BY <1>6, <1>7 DEF IdInv

LEMMA TagOfRequest ==
  ASSUME Inv, NEW c \in Everyone
  PROVE  /\ call[c].k = 0 => Tag(c) = Request(c) /\ FrameId(c) = call[c].id
         /\ \A o \in Everyone : Tag(c) = Request(o) => o = c /\ call[c].k = 0
BY DEF Tag, Request, FrameId, Inv, CallShape

LEMMA IdRegister ==
  ASSUME Inv, Inv', IdInv, IsFiniteSet(Calls), NEW c \in Everyone, Register(c)
  PROVE  IdInv'
<1> DEFINE e == [id |-> FrameId(c), tag |-> Tag(c)]
           S == Registered(FrameId(c))
           R == Resolve(S, Disconnected)
<1>1. /\ call[c].pc = "register" /\ call' = [R EXCEPT ![c].pc = "queue"]
      /\ pending' = (pending \ S) \cup {e}
      /\ UNCHANGED <<conf, next, net, left>>
  BY DEF Register
<1>2. Disconnected \in Answers /\ S \in SUBSET Frames /\ left \in Nat
  BY DEF Disconnected, Answers, Registered, Inv, TypeOK
<1>3. /\ R \in [Everyone -> CallStates]
      /\ \A o \in Everyone :
           /\ R[o].k = call[o].k /\ R[o].x = call[o].x /\ R[o].id = call[o].id
           /\ R[o].pc = call[o].pc
           /\ \/ R[o].ans = call[o].ans
              \/ call[o].pc \in {"queue", "wait"} /\ R[o].ans = Disconnected
  BY <1>2, ResolveFields DEF Inv
<1>4. call[c].ans = NoAnswer /\ R[c].ans = NoAnswer
  BY <1>1, <1>3 DEF Inv, CallShape
<1> HIDE DEF R
<1>5. \A o \in Everyone :
        /\ call'[o].k = call[o].k /\ call'[o].id = call[o].id
        /\ call'[o].ans = call[o].ans \/ call'[o].ans = Disconnected
        /\ o # c => call'[o].pc = call[o].pc
  BY <1>1, <1>3 DEF CallStates
<1>6. call'[c].pc = "queue" /\ call'[c].ans = NoAnswer
  BY <1>1, <1>3, <1>4 DEF CallStates
<1>7. Pipeline' = Pipeline /\ left' <= left
  BY <1>1, <1>2 DEF Pipeline
<1>8. NextCounts' /\ IdsDiffer'
  BY <1>1, <1>5, <1>6, <1>7, IdsKept
<1>9. RegistrationFits'
  <2>1. ASSUME NEW d \in pending', NEW o \in Everyone, d.tag = Request(o), call'[o].pc # "done"
        PROVE  /\ call'[o].k = 0 /\ call'[o].pc \in {"queue", "wait"}
               /\ call'[o].ans.kind # "frame" /\ d.id = call'[o].id
    <3>1. CASE d = e
      <4>1. e.tag = Tag(c) /\ e.id = FrameId(c)
        OBVIOUS
      <4>2. o = c /\ call[c].k = 0 /\ FrameId(c) = call[c].id
        BY <2>1, <3>1, <4>1, TagOfRequest
      <4> QED
        BY <1>5, <1>6, <3>1, <4>1, <4>2 DEF NoAnswer
    <3>2. CASE d \in pending
      <4>1. o # c
        BY <1>1, <2>1, <3>2 DEF IdInv, RegistrationFits
      <4> QED
        BY <1>5, <2>1, <3>2, <4>1 DEF IdInv, RegistrationFits, Disconnected
    <3> QED
      BY <1>1, <3>1, <3>2
  <2> QED
    BY <2>1 DEF RegistrationFits
<1>10. RequestAnswerIsOwn'
  BY <1>5 DEF IdInv, RequestAnswerIsOwn, Disconnected
<1> QED
  BY <1>8, <1>9, <1>10 DEF IdInv

LEMMA IdReaderReads ==
  ASSUME Inv, Inv', IdInv, IsFiniteSet(Calls), ReaderReads
  PROVE  IdInv'
<1> DEFINE h == Pipeline[1]
           S == Registered(h.id)
<1>1. /\ 1 \in DOMAIN Pipeline /\ h = Head(net.sent)
      /\ \A i \in DOMAIN Pipeline' : \E j \in DOMAIN Pipeline : Pipeline'[i] = Pipeline[j]
  BY ReaderTakesFirst DEF Inv
<1>2. /\ call' = Resolve(S, Answer(h.tag)) /\ pending' = pending \ S
      /\ UNCHANGED <<conf, next, left>>
  BY <1>1 DEF ReaderReads
<1>3. /\ h \in Frames /\ h.tag \in Tags /\ S \in SUBSET Frames
  BY <1>1, PipelineType DEF Inv, TypeOK, Registered, Frames
<1>4. /\ Answer(h.tag) \in Answers /\ Answer(h.tag).tag = h.tag
  BY <1>3 DEF Answer, Answers
<1>5. \A o \in Everyone :
        /\ call'[o].k = call[o].k /\ call'[o].id = call[o].id /\ call'[o].pc = call[o].pc
        /\ \/ call'[o] = call[o]
           \/ /\ call[o].pc \in {"queue", "wait"} /\ call'[o].ans = Answer(h.tag)
              /\ \E e \in S : e.tag = Tag(o)
  BY <1>2, <1>3, <1>4, ResolveFields DEF Inv
<1>6. left' <= left
  BY <1>2 DEF Inv, TypeOK
<1>7. NextCounts' /\ IdsDiffer'
  BY <1>1, <1>2, <1>5, <1>6, IdsKept
<1>8. ASSUME NEW o \in Everyone, call[o].k = 0, call'[o] # call[o]
      PROVE  call[o].id = h.id /\ h.tag = Request(o) /\ call'[o].ans = Answer(h.tag)
  <2>1. PICK e \in S : e.tag = Tag(o) /\ call[o].pc \in {"queue", "wait"}
    BY <1>5, <1>8
  <2>2. e \in pending /\ e.id = h.id /\ e.tag = Request(o)
    BY <1>8, <2>1, TagOfRequest DEF Registered
  <2>3. e.id = call[o].id
    BY <2>1, <2>2 DEF IdInv, RegistrationFits
  <2>4. h.tag = Request(o)
    BY <1>1, <2>1, <2>2, <2>3 DEF IdInv, IdsDiffer, Active
  <2> QED
    BY <1>5, <1>8, <2>2, <2>3, <2>4
<1>9. RegistrationFits'
  <2>1. ASSUME NEW d \in pending', NEW o \in Everyone, d.tag = Request(o), call'[o].pc # "done"
        PROVE  /\ call'[o].k = 0 /\ call'[o].pc \in {"queue", "wait"}
               /\ call'[o].ans.kind # "frame" /\ d.id = call'[o].id
    <3>1. d \in pending /\ d.id # h.id
      BY <1>2 DEF Registered
    <3>2. /\ call[o].k = 0 /\ call[o].pc \in {"queue", "wait"}
          /\ call[o].ans.kind # "frame" /\ d.id = call[o].id
      BY <1>5, <2>1, <3>1 DEF IdInv, RegistrationFits
    <3>3. call'[o] = call[o]
      BY <1>8, <3>1, <3>2
    <3> QED
      BY <3>2, <3>3
  <2> QED
    BY <2>1 DEF RegistrationFits
<1>10. RequestAnswerIsOwn'
  <2>1. ASSUME NEW o \in Everyone, call'[o].k = 0, call'[o].ans.kind = "frame"
        PROVE  call'[o].ans.tag = Request(o)
    <3>1. CASE call'[o] = call[o]
      BY <2>1, <3>1 DEF IdInv, RequestAnswerIsOwn
    <3>2. CASE call'[o] # call[o]
      BY <1>4, <1>5, <1>8, <2>1, <3>2
    <3> QED
      BY <3>1, <3>2
  <2> QED
    BY <2>1 DEF RequestAnswerIsOwn
<1> QED
  BY <1>7, <1>9, <1>10 DEF IdInv

LEMMA IdEnqueue ==
  ASSUME Inv, Inv', IdInv, IsFiniteSet(Calls), NEW c \in Everyone, Enqueue(c)
  PROVE  IdInv'
<1> DEFINE f == [id |-> FrameId(c), tag |-> Tag(c)]
<1>1. /\ call[c].pc = "queue" /\ net' = [net EXCEPT !.queue = Append(@, f)]
      /\ UNCHANGED <<conf, next, pending, left>>
      /\ call' = IF Expects(c) THEN [call EXCEPT ![c].pc = "wait"] ELSE [call EXCEPT ![c] = Done]
  BY DEF Enqueue
<1>2. /\ f \in Frames /\ f.tag = Tag(c) /\ f.id = FrameId(c)
      /\ call[c].k # 0 => ~(f.id < MinReserved) /\ f.tag[2] # 0
  BY FrameOfCall
<1> HIDE DEF f
<1>3. \A i \in DOMAIN Pipeline' :
        Pipeline'[i] = f \/ \E j \in DOMAIN Pipeline : Pipeline'[i] = Pipeline[j]
  <2>1. /\ Pipeline' \in Seq(Frames) /\ Len(Pipeline') = Len(Pipeline) + 1
        /\ Pipeline'[Len(Pipeline) + 1] = f
        /\ \A i \in 1..Len(Pipeline) : Pipeline'[i] = Pipeline[i]
    BY <1>1, <1>2, EnqueueAppends
  <2>2. /\ Len(Pipeline) \in Nat /\ DOMAIN Pipeline = 1..Len(Pipeline)
    BY PipelineType DEF Inv
  <2>3. DOMAIN Pipeline' = 1..(Len(Pipeline) + 1)
    BY <2>1
  <2> QED
    BY <2>1, <2>2, <2>3
<1>4. /\ \A o \in Everyone : o # c => call'[o] = call[o]
      /\ \/ call'[c] = Done
         \/ /\ call'[c].pc = "wait" /\ call'[c].k = call[c].k /\ call'[c].id = call[c].id
            /\ call'[c].ans = call[c].ans
  BY <1>1 DEF Inv, TypeOK, CallStates
<1>5. /\ Done.pc = "done" /\ Done.ans.kind = "none"
  BY DEF Done, Idle, NoAnswer
<1>6. NextCounts'
  <2>1. \A o \in Calls : call'[o].pc = "idle" <=> call[o].pc = "idle"
    BY <1>1, <1>4, <1>5 DEF Everyone
  <2>2. left' <= left
    BY <1>1 DEF Inv, TypeOK
  <2> QED
    BY <1>1, <2>1, <2>2, CountKept DEF IdInv
<1>7. \A o \in Everyone : Active(o)' => Active(o) /\ call'[o].id = call[o].id
  BY <1>1, <1>4, <1>5 DEF Active
<1>8. ASSUME NEW o \in Everyone, Active(o), f.id = call[o].id
      PROVE  f.tag = Request(o)
  <2>1. call[c].k = 0
    BY <1>2, <1>8 DEF Inv, IdsApart
  <2>2. f.tag = Request(c) /\ f.id = call[c].id
    BY <1>2, <2>1, TagOfRequest
  <2>3. Active(c)
    BY <1>1 DEF Active
  <2> QED
    BY <1>8, <2>2, <2>3 DEF IdInv, IdsDiffer
<1>9. f.tag[2] = 0 => f.id < next
  <2>1. Active(c)
    BY <1>1 DEF Active
  <2> QED
    BY <1>2, <2>1, TagOfRequest DEF IdInv, IdsDiffer
<1>10. IdsDiffer'
  BY <1>1, <1>3, <1>7, <1>8, <1>9 DEF IdInv, IdsDiffer
<1>11. RegistrationFits'
  BY <1>1, <1>4, <1>5 DEF IdInv, RegistrationFits
<1>12. RequestAnswerIsOwn'
  BY <1>4, <1>5 DEF IdInv, RequestAnswerIsOwn
<1> QED
  BY <1>6, <1>10, <1>11, <1>12 DEF IdInv

LEMMA IdEnds ==
  ASSUME Inv, Inv', IdInv, IsFiniteSet(Calls), NEW c \in Everyone,
         \/ Disconnects(c) \/ Timeout(c) \/ Returns(c) \/ Cancel(c) \/ Reject(c)
  PROVE  IdInv'
<1>1. /\ call' = [call EXCEPT ![c] = Done] /\ pending' = Released(c)
      /\ UNCHANGED <<conf, next, net>> /\ Active(c) /\ left' <= left
  BY DEF Disconnects, Timeout, Returns, Cancel, Reject, Answered, Fail, Spend, Active, Inv, TypeOK
<1>2. Done \in CallStates /\ Done.ans = NoAnswer /\ Done.pc = "done"
  BY DEF Done, Idle, CallStates, Steps, Answers, NoAnswer
<1>3. pending' \subseteq pending
  BY <1>1 DEF Released, Unregister
<1> QED
  BY <1>1, <1>2, <1>3, IdPlain

LEMMA IdGoesOn ==
  ASSUME Inv, Inv', IdInv, IsFiniteSet(Calls), NEW c \in Everyone,
         Check(c) \/ TakeTurn(c) \/ Authenticate(c)
  PROVE  IdInv'
<1>1. /\ UNCHANGED <<conf, next, net>> /\ left' <= left /\ Active(c)
      /\ call[c].pc \in {"check", "turn"} \/ call[c].ans.kind = "frame"
      /\ call[c].pc \in {"check", "turn"} => call[c].ans = NoAnswer
  BY DEF Check, TakeTurn, Authenticate, Answered, Active, Inv, TypeOK, CallShape
<1>2. pending' \subseteq pending
  BY DEF Check, TakeTurn, Authenticate, Released, Unregister
<1>3. call \in [Everyone -> CallStates] /\ call' \in [Everyone -> CallStates]
  BY DEF Inv, TypeOK
<1>4. PICK s : call' = [call EXCEPT ![c] = s]
  BY DEF Check, TakeTurn, Authenticate
<1>5. s = call'[c] /\ s \in CallStates
  BY <1>3, <1>4
<1>6. s.ans = NoAnswer /\ s.id = call[c].id /\ s.pc # "idle"
  <2>1. CASE Check(c) \/ (TakeTurn(c) /\ ~auth.due)
    <3>1. PICK p \in {"check", "turn", "register", "queue"} : call' = [call EXCEPT ![c].pc = p]
      BY <2>1 DEF Check, TakeTurn
    <3>2. call[c].ans = NoAnswer
      BY <1>1, <2>1 DEF Check, TakeTurn
    <3> QED
      BY <1>3, <1>5, <3>1, <3>2 DEF CallStates
  <2>2. CASE TakeTurn(c) /\ auth.due
    BY <1>3, <1>5, <2>2 DEF TakeTurn, InRound
  <2>3. CASE Authenticate(c) /\ call[c].k < Rounds
    BY <1>3, <1>5, <2>3 DEF Authenticate, InRound
  <2>4. CASE Authenticate(c) /\ ~(call[c].k < Rounds)
    BY <1>3, <1>5, <2>4 DEF Authenticate, Idle
  <2> QED
    BY <2>1, <2>2, <2>3, <2>4
<1> QED
  BY <1>1, <1>2, <1>4, <1>5, <1>6, IdPlain

LEMMA IdStart ==
  ASSUME Inv, Inv', IdInv, FewRequests, NEW c \in Everyone, Start(c)
  PROVE  IdInv'
<1> DEFINE s == [Idle EXCEPT !.pc = "check", !.id = next]
<1>1. /\ call' = [call EXCEPT ![c] = s] /\ call[c].pc = "idle" /\ c \in Calls
      /\ next' = NextCorrelationId /\ UNCHANGED <<conf, pending, net, left>>
  BY ConnectionAssumption DEF Start, Inv, TypeOK
<1>2. s \in CallStates /\ s.id = next /\ s.ans = NoAnswer /\ s.pc = "check"
  BY DEF Idle, CallStates, Steps, Answers, NoAnswer, Inv, TypeOK
<1> HIDE DEF s
<1>3. next' = next + 1
  BY <1>1, IdIsFresh DEF IdInv
<1>4. NextCounts'
  <2>1. IsFiniteSet(IdleCalls) /\ c \in IdleCalls
    BY <1>1, FS_Subset DEF IdleCalls, FewRequests
  <2>2. IdleCalls' = IdleCalls \ {c}
    BY <1>1, <1>2 DEF IdleCalls, Inv, TypeOK, Everyone
  <2>3. Cardinality(IdleCalls') = Cardinality(IdleCalls) - 1
    BY <2>1, <2>2, FS_RemoveElement
  <2>4. Cardinality(IdleCalls) \in Nat /\ Cardinality(Calls) \in Nat
    BY <2>1, FS_CardinalityType DEF FewRequests
  <2>5. next \in Nat /\ left \in Nat /\ conf.budget \in Nat
    BY ConnectionAssumption DEF Inv, TypeOK
  <2> QED
    BY <1>1, <1>3, <2>3, <2>4, <2>5 DEF IdInv, NextCounts
<1> QED
  BY <1>1, <1>2, <1>3, <1>4, IdFresh

LEMMA IdSetup ==
  ASSUME Inv, Inv', IdInv, FewRequests, SetupAnswered
  PROVE  IdInv'
<1>1. /\ Setup \in Everyone /\ Setup \notin Calls /\ Active(Setup) /\ left \in Nat
      /\ call[Setup].ans.kind = "frame" /\ IsFiniteSet(Calls)
  BY ConnectionAssumption
     DEF Setup, Everyone, Inv, TypeOK, Active, SetupAnswered, Answered, FewRequests
<1>2. CASE /\ call' = [call EXCEPT ![Setup] = Done] /\ pending' \in {pending, Released(Setup)}
           /\ UNCHANGED <<conf, next, net>> /\ left' <= left
  <2>1. Done \in CallStates /\ Done.ans = NoAnswer /\ Done.pc = "done"
    BY DEF Done, Idle, CallStates, Steps, Answers, NoAnswer
  <2>2. pending' \subseteq pending
    BY <1>2 DEF Released, Unregister
  <2> QED
    BY <1>1, <1>2, <2>1, <2>2, IdPlain
<1>3. CASE /\ Spend("version") /\ next' = NextCorrelationId
           /\ call' = [call EXCEPT ![Setup] = [Idle EXCEPT !.pc = "register", !.id = next]]
           /\ UNCHANGED <<conf, pending, net>>
  <2> DEFINE s == [Idle EXCEPT !.pc = "register", !.id = next]
  <2>1. s \in CallStates /\ s.id = next /\ s.ans = NoAnswer
    BY DEF Idle, CallStates, Steps, Answers, NoAnswer, Inv, TypeOK
  <2>2. call' = [call EXCEPT ![Setup] = s] /\ left' = left - 1 /\ left > 0
    BY <1>3 DEF Spend
  <2> HIDE DEF s
  <2>3. next' = next + 1
    BY <1>3, <2>2, IdIsFresh DEF IdInv
  <2>4. NextCounts'
    <3>1. IdleCalls' = IdleCalls
      BY <1>1, <2>2 DEF IdleCalls, Inv, TypeOK, Everyone
    <3>2. Cardinality(IdleCalls) \in Nat /\ Cardinality(Calls) \in Nat
      BY <1>1, FS_Subset, FS_CardinalityType DEF IdleCalls
    <3>3. next \in Nat /\ left \in Nat /\ conf.budget \in Nat
      BY ConnectionAssumption DEF Inv, TypeOK
    <3> QED
      BY <1>3, <2>2, <2>3, <3>1, <3>2, <3>3 DEF IdInv, NextCounts
  <2> QED
    BY <1>1, <1>3, <2>1, <2>2, <2>3, <2>4, IdFresh
<1>4. left - 1 <= left /\ left <= left
  BY <1>1
<1> QED
  BY <1>2, <1>3, <1>4 DEF SetupAnswered, Spend, Fail

LEMMA IdQuietActions ==
  ASSUME Inv, Inv', IdInv, IsFiniteSet(Calls),
         \/ Writer \/ WriterFails \/ ReaderStops \/ ReaderEof
         \/ DueTime \/ PeerStalls \/ Close \/ UNCHANGED vars
  PROVE  IdInv'
<1>1. left \in Nat /\ left - 1 <= left /\ left <= left
  BY DEF Inv, TypeOK
<1>2. /\ UNCHANGED <<conf, call, next, pending>> /\ left' <= left
      /\ net' = net \/ WriterTake \/ WriterWrite \/ WriterBreaks \/ WriterDrops
  BY <1>1 DEF Writer, WriterTake, WriterWrite, WriterStops, WriterIdle, WriterFails, WriterBreaks,
              WriterDrops, ReaderStops, ReaderEof, ReaderBreaks, DueTime, PeerStalls, Close, Spend,
              vars
<1>3. Thinned(Pipeline, Pipeline')
  <2>1. CASE net' = net
    <3>1. Pipeline' = Pipeline /\ Pipeline \in Seq(Frames)
      BY <2>1, PipelineType DEF Pipeline, Inv
    <3> QED
      BY <3>1, SameIsThinned
  <2>2. CASE WriterTake \/ WriterWrite \/ WriterBreaks \/ WriterDrops
    BY <2>2, TasksThin DEF Inv
  <2> QED
    BY <1>2, <2>1, <2>2
<1> QED
  BY <1>2, <1>3, IdQuiet

LEMMA IdStep ==
  FewRequests /\ Inv /\ Inv' /\ IdInv /\ [Next]_vars => IdInv'
<1> SUFFICES ASSUME FewRequests, Inv, Inv', IdInv, [Next]_vars PROVE IdInv'
  OBVIOUS
<1>1. IsFiniteSet(Calls)
  BY DEF FewRequests
<1>2. ASSUME NEW c \in Everyone, Start(c) PROVE IdInv'
  BY <1>2, IdStart
<1>3. ASSUME NEW c \in Everyone, Check(c) \/ TakeTurn(c) \/ Authenticate(c) PROVE IdInv'
  BY <1>1, <1>3, IdGoesOn
<1>4. ASSUME NEW c \in Everyone, Register(c) PROVE IdInv'
  BY <1>1, <1>4, IdRegister
<1>5. ASSUME NEW c \in Everyone, Enqueue(c) PROVE IdInv'
  BY <1>1, <1>5, IdEnqueue
<1>6. ASSUME NEW c \in Everyone,
             Disconnects(c) \/ Timeout(c) \/ Returns(c) \/ Cancel(c) \/ Reject(c)
      PROVE  IdInv'
  BY <1>1, <1>6, IdEnds
<1>7. CASE SetupAnswered
  BY <1>7, IdSetup
<1>8. CASE \/ Writer \/ WriterFails \/ ReaderStops \/ ReaderEof
           \/ DueTime \/ PeerStalls \/ Close \/ UNCHANGED vars
  BY <1>1, <1>8, IdQuietActions
<1>9. CASE ReaderReads
  BY <1>1, <1>9, IdReaderReads
<1>10. CASE ReaderDrains
  BY <1>1, <1>10, IdDrain
<1> QED
  BY <1>2, <1>3, <1>4, <1>5, <1>6, <1>7, <1>8, <1>9, <1>10 DEF Next, Waits, Reader

\* An answer goes to the request that it answers (read_loop, which finds the waiting request by
\* the correlation id alone), also when the requests before it timed out or were dropped, for
\* any number of calls below the number of ids.
THEOREM AnswerAlwaysOwn ==
  NoCancelledExchange /\ FewRequests => (Spec => []AnswerIsOwn)
<1> SUFFICES ASSUME NoCancelledExchange, FewRequests PROVE Spec => []AnswerIsOwn
  OBVIOUS
<1>1. Spec => []Inv
  BY Invariance
<1>2. Inv /\ Init => IdInv
  BY InitIds
<1>3. Inv /\ Inv' /\ IdInv /\ [Next]_vars => IdInv'
  BY IdStep
<1>4. ASSUME Inv, IdInv PROVE AnswerIsOwn
  <2>1. ASSUME NEW c \in Everyone, call[c].ans.kind = "frame", call[c].k = 0 \/ ~io.shutdown
        PROVE  call[c].ans.tag = Tag(c)
    <3>1. CASE call[c].k = 0
      BY <1>4, <2>1, <3>1, TagOfRequest DEF IdInv, RequestAnswerIsOwn
    <3>2. CASE call[c].k # 0
      <4>1. call[c].k > 0 /\ c \in Calls
        BY <1>4, <3>2 DEF Inv, CallShape, TypeOK, CallStates
      <4> QED
        BY <1>4, <2>1, <3>2, <4>1 DEF Inv, FrameInv, RequestsAnswered, HoldsWrite
    <3> QED
      BY <3>1, <3>2
  <2> QED
    BY <2>1 DEF AnswerIsOwn
<1> QED
  BY <1>1, <1>2, <1>3, <1>4, PTL DEF Spec

=============================================================================
